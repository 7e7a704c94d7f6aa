SPECIFICATION Spec
CONSTANTS
  p1 = p1
  p2 = p2
  p3 = p3
  p4 = p4
  Panes <- MCPanes
  MaxSplit = 3
  Ratios <- MCRatios
  Amounts <- MCAmounts
  Area = 8000
  NoPane = NoPane
SYMMETRY Symmetry
INVARIANTS
  NeighborIsThatWay
  RemoveUndoesSplit
PROPERTIES
  ImplementsList
CHECK_DEADLOCK FALSE
