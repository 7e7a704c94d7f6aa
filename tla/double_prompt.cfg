SPECIFICATION Spec
CONSTANTS
  pa = pa
  pb = pb
  pc = pc
  other = other
  work = work
  ask = ask
  duty = duty
  back = back
  Panes <- MCPanes
  Remote = {pb}
  LinkSeq <- MCLinkSeq
  Def <- MCDef
  Scenarios <- MCDoubling
  MaxInst = 2
  MaxCalls = 2
  MaxQueue = 2
  MaxStops = 1
INVARIANTS
  OneAtATime
CHECK_DEADLOCK FALSE
