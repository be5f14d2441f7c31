SPECIFICATION FairSpec
CONSTANTS
  NTasks = 1
  MaxRuns = 2
  MaxRestarts = 2
  MaxParallel = 1
  k1 = k1
  NoKey = NoKey
  Keys <- NoKeys
  Events <- PatientEvents
CHECK_DEADLOCK FALSE
INVARIANT FirstResultIsConsumable
INVARIANT InflightTracksRun
PROPERTY QuestionMeansWaiting
PROPERTY RecoveryIsNewUntilResumed
PROPERTY RunsEnd
PROPERTY RecoveryResolves
