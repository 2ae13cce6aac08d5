SPECIFICATION Spec
CONSTANTS
  Fds = {f1}
  Pollable = {f1}
  Heads <- KeepHeads
  Apps <- TextApps
  Peers = {"stall"}
  MaxReqs = 1
  MaxConns = 1
  MaxBlanks = 0
  AcceptBatch = 8
  HeadLen = 2
  Asserts = TRUE
  IsKeepAlive = TRUE
  AccessLog = FALSE
  MayStop = FALSE
CHECK_DEADLOCK FALSE
INVARIANTS
  NoAssertionFails
