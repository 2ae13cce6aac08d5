CONSTANTS
  Fds = {0, 1, 2}
  ShortBits = 2
  VecSize = 3
  MaxSecs = 2
  MaxTime = 3
SPECIFICATION FairSpec
INVARIANTS NoAssertFails NeverPassed
PROPERTIES NeverEarly TimersSpec EventuallyFires
