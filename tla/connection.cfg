SPECIFICATION FairSpec
CONSTANTS
  Hosts = {"page", "link"}
  None = None
  s1 = s1
  s2 = s2
  s3 = s3
  Sockets <- MCSockets
  MaxCalls = 4
  MaxLosses = 3
INVARIANTS
  OneSocketUnlessRaced
  NeverStranded
  OpenIsUsable
PROPERTY Recovers
CHECK_DEADLOCK FALSE
