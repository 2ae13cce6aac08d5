SPECIFICATION Spec
CONSTANTS
  Fds = {f1}
  Pollable = {f1}
  Heads <- PipelineHeads
  Apps <- PipelineApps
  Peers = {"eof", "reset", "stall", "junk", "pipeline"}
  MaxReqs = 2
  MaxConns = 1
  MaxBlanks = 0
  AcceptBatch = 8
  HeadLen = 2
  Asserts = FALSE
  IsKeepAlive = TRUE
  AccessLog = FALSE
  MayStop = FALSE
CHECK_DEADLOCK FALSE
INVARIANTS
  NoStrandedRequest
  CalledOnceInOrder
  AnsweredOnceInOrder
  UseAfterFreeCause
  NothingAfterCutAnswer
PROPERTIES
  ClosesAfterAnswers
