SPECIFICATION Spec
CONSTANTS
  MaxWs = 3
  MaxTab = 3
  MaxPane = 3
  MaxOps = 2
  Menus = {{"workspace", "split", "command", "close"},
           {"workspace", "command", "move", "close"},
           {"workspace", "command", "zoom", "close"},
           {"workspace", "tab", "split", "move", "close"},
           {"tab", "split", "arrange", "close"},
           {"workspace", "tab", "move", "arrange", "close"},
           {"tab", "split", "focus", "close"},
           {"workspace", "tab", "order", "close"},
           {"workspace", "group", "close"}}
  Crowded = {{"workspace", "split", "command", "close"},
             {"workspace", "group", "close"}}
INVARIANTS
  NothingOrphaned
  EmptyMeansRecreating
  ModelConsistent
  DeadPaneOnlyAfterSkewedSplit
  ReplicaAgrees
PROPERTIES
  CommandPaneRestores
  SurvivorsKeepTheirShell
CHECK_DEADLOCK FALSE
