SPECIFICATION Spec
CONSTANTS
  Documents <- MCDocuments
  Tapes <- MCTapes
  Keys <- MCKeys
  Leaves <- MCLeaves
  MaxIndex = 3
  MaxWrites = 2
CHECK_DEADLOCK FALSE
INVARIANTS
  TypeOK
  ValuesArePartsOfDocument
PROPERTIES
  BehavesAsJson
