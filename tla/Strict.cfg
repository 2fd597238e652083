SPECIFICATION Spec
CONSTANTS
  Docs <- StrictDocs
  Strict = TRUE
  IndentSize = 2
  Debug = TRUE
  Numerals <- MCNumerals
  NumberOf <- MCNumberOf
INVARIANTS
  TypeOK
  BackfillHitsContainer
  LayoutDecides
  EveryLineOnTape
  PendingWithinScopes
  ScopesNest
  ItemsAreCounted
  NoBlankLineInArray
  RowsFillFields
  TapeWellFormedOtherwise
  TapeAsDeclared
  ValuesAsDeclared
  TapeFitsFilledCells
