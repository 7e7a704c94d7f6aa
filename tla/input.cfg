SPECIFICATION InputFairSpec
CONSTANTS
  a = a
  b = b
  h1 = h1
  h2 = h2
  Panes <- MCPanes
  Holds <- MCHolds
  Menus <- MCMenus
  Modals = {"prompt", "keys", "start"}
  None = None
  MaxTurns = 3
  MaxRefusals = 1
INVARIANTS
  TypedInOrder
  ModalsWhole
PROPERTY NothingKept
CHECK_DEADLOCK FALSE
