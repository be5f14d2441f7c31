SPECIFICATION FairSpec
CONSTANTS
  p1 = p1
  p2 = p2
  w1 = w1
  NoOne = NoOne
  Processes = {p1, p2}
  Work = {w1}
  Parallelism = 2
  MaxParallel = 2
  MaxPending = 1
  MaxAttempts = 2
  MaxFaults = 2
CHECK_DEADLOCK FALSE
INVARIANT RunningIsRun
PROPERTY NoImplicitRetry
PROPERTY DueIsServed
