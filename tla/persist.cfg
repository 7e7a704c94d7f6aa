SPECIFICATION SaverFairSpec
CONSTANTS
  MaxVersion = 2
  Saves <- MCSaves
  Continuations <- MCContinuations
  Flushers <- MCFlushers
  None = None
  s1 = s1
  s2 = s2
  c1 = c1
  c2 = c2
  c3 = c3
  f1 = f1
  f2 = f2
INVARIANTS
  FlushDurable
  NothingForgotten
PROPERTIES
  DiskNeverGoesBack
  EventuallySaved
  FlushAnswered
CHECK_DEADLOCK FALSE
