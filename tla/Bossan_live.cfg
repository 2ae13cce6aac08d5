SPECIFICATION FairSpec
CONSTANTS
  Fds = {f1}
  Pollable = {f1}
  Heads <- LiveHeads
  Apps <- LiveApps
  Peers = {"eof", "reset", "stall", "pipeline"}
  MaxReqs = 2
  MaxConns = 1
  MaxBlanks = 0
  AcceptBatch = 8
  HeadLen = 2
  Asserts = FALSE
  IsKeepAlive = TRUE
  AccessLog = FALSE
  MayStop = FALSE
CHECK_DEADLOCK FALSE
PROPERTIES
  EveryConnectionEnds
  EveryRequestServed
