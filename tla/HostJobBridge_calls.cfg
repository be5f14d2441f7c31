SPECIFICATION FairSpec
CONSTANTS
  p1 = p1
  p2 = p2
  Processes = {p1, p2}
  NoOne = NoOne
  Events = {"kill_late", "torn"}
INVARIANT LaunchedOnce
INVARIANT HandedOnce
INVARIANT AnswersAreTrue
INVARIANT QuiescenceIsProven
PROPERTY WaitEnds
