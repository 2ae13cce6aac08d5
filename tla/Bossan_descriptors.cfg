SPECIFICATION EpollSpec
CONSTANTS
  Fds = {f1, f2, f3}
  Pollable = {f1, f2}
  Heads <- KeepHeads
  Apps <- TextApps
  Peers = {"stall"}
  MaxReqs = 1
  MaxConns = 3
  MaxBlanks = 0
  AcceptBatch = 1
  HeadLen = 2
  Asserts = FALSE
  IsKeepAlive = TRUE
  AccessLog = FALSE
  MayStop = FALSE
SYMMETRY PollableSymmetry
CHECK_DEADLOCK FALSE
INVARIANTS
  InterestKept
  EventsCurrent
  NoDanglingCallback
  NoLostConnection
