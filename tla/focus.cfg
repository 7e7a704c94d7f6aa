SPECIFICATION Spec
CONSTANTS
  MaxWs = 2
  MaxTab = 3
  MaxPane = 3
INVARIANTS
  FocusLive
CHECK_DEADLOCK FALSE
