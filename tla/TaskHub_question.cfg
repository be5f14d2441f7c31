SPECIFICATION Spec
CONSTANTS
  NTasks = 1
  MaxRuns = 2
  MaxRestarts = 0
  MaxParallel = 1
  k1 = k1
  NoKey = NoKey
  Keys <- NoKeys
  Events <- EagerEvents
CHECK_DEADLOCK FALSE
PROPERTY QuestionMeansWaiting
