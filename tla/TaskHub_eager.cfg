SPECIFICATION Spec
CONSTANTS
  NTasks = 1
  MaxRuns = 3
  MaxRestarts = 1
  MaxParallel = 1
  k1 = k1
  NoKey = NoKey
  Keys <- OneKey
  Events <- EagerEvents
CHECK_DEADLOCK FALSE
INVARIANT ToldOnce
INVARIANT StoppedBeforeResumable
INVARIANT RunningIsLive
INVARIANT FinishedIsRecorded
PROPERTY FinishedUntilResumed
