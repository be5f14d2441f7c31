SPECIFICATION FairSpec
CONSTANTS
  NSteps = 1
  MaxLaunches = 2
  MaxRestarts = 2
  Approvals <- NoApprovals
  Events <- BridgeEvents
CHECK_DEADLOCK FALSE
PROPERTY TerminalIsSticky
PROPERTY OwnedJobSettles
PROPERTY CancelEnds
PROPERTY ExitResolves
