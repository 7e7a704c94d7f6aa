SPECIFICATION FairSpec
CONSTANTS
  Clients <- MCClients
  MaxChunk = 3
  MaxCalls = 2
  PauseAt = 1
  LowWater = 1
  StaleAt = 1
  a = a
  b = b
INVARIANTS
  HandoffLosesNothing
PROPERTIES
  ImplementsView
  OutputArrives
CHECK_DEADLOCK FALSE
