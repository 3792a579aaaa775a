SPECIFICATION FairSpec
CONSTANTS
  Callers = {c1, c2, c3}
  Threshold = 2
  ResetTimeout = 2
  MaxAttempts = 2
  BaseDelay = 1
  Factor = 2
  MaxDelay = 3
  Jitter = 1
  Foreign = TRUE
INVARIANTS TypeOK OpensForARun
PROPERTIES LeftAlone CallsEnd Recovers
