SPECIFICATION Spec
CONSTANTS
  NSteps = 3
  MaxLaunches = 2
  MaxRestarts = 2
  Approvals <- MiddleApproval
  Events <- ReleaseEvents
CHECK_DEADLOCK FALSE
INVARIANT LaunchedInOrder
INVARIANT StepsMatchExits
INVARIANT OneWorker
INVARIANT CancelledIsStopped
PROPERTY ImplementsPlan
