SPECIFICATION Spec
CONSTANTS
  WordBits = 10
  LongInteger = 2
  LongFloat = 3
  ExpBits = 5
  FreeDigits = 1
  MaxExp = 4
  MinExp <- MCMinExp
  FractionRun = 2
  Window = 3
  Texts <- MCTexts
CHECK_DEADLOCK FALSE
INVARIANTS
  TypeOK
  ScalarExact
  StringDecoded
