SPECIFICATION Spec
CONSTANTS
  Docs <- ObjectDocs
  Strict = TRUE
  IndentSize = 2
  Debug = TRUE
  Numerals <- MCNumerals
  NumberOf <- MCNumberOf
INVARIANTS
  TapeWellFormed
