SPECIFICATION Spec
CONSTANTS
  Requests = {r1, r2, r3}
  NULL = NULL
INVARIANTS
  NoFreedAccess
  NoLeak
  BadIsLast
PROPERTIES
  FifoSpec
