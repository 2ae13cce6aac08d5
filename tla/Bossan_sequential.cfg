SPECIFICATION Spec
CONSTANTS
  Fds = {f1}
  Pollable = {f1}
  Heads <- SequentialHeads
  Apps <- SequentialApps
  Peers = {"eof", "reset", "stall", "junk", "blank", "patient"}
  MaxReqs = 2
  MaxConns = 1
  MaxBlanks = 1
  AcceptBatch = 8
  HeadLen = 2
  Asserts = TRUE
  IsKeepAlive = TRUE
  AccessLog = TRUE
  MayStop = TRUE
CHECK_DEADLOCK FALSE
INVARIANTS
  TypeOK
  BadRequestNotCalled
  FaultCauses
