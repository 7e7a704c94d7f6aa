SPECIFICATION FairSpec
CONSTANTS
  MaxPane = 2
  MaxRead = 1
  MaxHandoffs = 2
  MaxFd = 4
INVARIANTS
  HandoverLosesNothing
  NoShellUnseen
  OwnShell
PROPERTY EverythingResumes
CHECK_DEADLOCK FALSE
