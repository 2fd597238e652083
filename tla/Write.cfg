SPECIFICATION Spec
CONSTANTS
  Values <- MCValues
CHECK_DEADLOCK FALSE
INVARIANTS
  TypeOK
  CompactIsJson
  PrettyIsJson
  ClosedUnderOpened
  RefusedAlike
  DomIsJson
