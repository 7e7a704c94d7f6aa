SPECIFICATION Spec
CONSTANTS
  MaxWs = 2
  MaxTab = 3
  MaxPane = 3
INVARIANTS
  ModelConsistent
  ReservedIsFresh
CHECK_DEADLOCK FALSE
