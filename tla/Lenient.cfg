SPECIFICATION Spec
CONSTANTS
  Docs <- LenientDocs
  Strict = FALSE
  IndentSize = 4
  Debug = FALSE
  Numerals <- MCNumerals
  NumberOf <- MCNumberOf
INVARIANTS
  RowsFillFields
  LayoutDecides
  TapeWellFormedOtherwise
PROPERTIES
  Terminates
