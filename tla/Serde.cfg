SPECIFICATION Spec
CONSTANTS
  Docs <- MCDocs
  Number <- MCNumber
  Trees <- MCTrees
  Depth <- MCDepth
CHECK_DEADLOCK FALSE
INVARIANTS
  TypeOK
  CursorWithIterators
  ClientSeesDocument
  ValueFromTape
  ReadsInsideTape
PROPERTIES
  ReadersAgree
