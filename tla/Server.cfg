SPECIFICATION FairSpec
CONSTANTS
  NumFds = 6
  MaxClients = 1
  LogNames = {"app.log", "stdout"}
INVARIANTS
  LogReachesTarget
  DescriptorsOwned
  RunWatchesListener
PROPERTIES
  ClosesOwn
  StopEndsRun
CHECK_DEADLOCK FALSE
