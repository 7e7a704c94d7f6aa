SPECIFICATION Spec
CONSTANTS
  c1 = c1
  c2 = c2
  c3 = c3
  t1 = t1
  t2 = t2
  p1 = p1
  p2 = p2
  Clients <- MCClients
  Tabs <- MCTabs
  Panes <- MCPanes
  None = None
  Sizes = {1, 2}
  MaxCalls = 7
SYMMETRY Symmetry
INVARIANTS
  OwnersMayDecide
  SizesFollowOwner
  NobodyPassedOver
CHECK_DEADLOCK FALSE
