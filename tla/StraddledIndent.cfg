SPECIFICATION Spec
CONSTANTS
  Inputs <- MCInputs
  Later <- MCLater
  BlockSize = 4
  MaxLength = 15
  Capacity = 4
CHECK_DEADLOCK FALSE
INVARIANTS
  NoNewlineBeforeComment
