SPECIFICATION Spec
CONSTANTS
  pa = pa
  pb = pb
  pc = pc
  other = other
  work = work
  ask = ask
  duty = duty
  back = back
  Panes <- MCPanes
  Remote = {pb}
  LinkSeq <- MCLinkSeq
  Def <- MCDef
  Scenarios <- MCScenarios
  MaxInst = 2
  MaxCalls = 2
  MaxQueue = 2
  MaxStops = 1
INVARIANTS
  EachFiringAnsweredOnce
  NoLostWakeup
  OneAtATimeOtherwise
  LimitKept
  NoticeOwed
PROPERTIES
  OnlyAllowedPromptsLeave
CHECK_DEADLOCK FALSE
