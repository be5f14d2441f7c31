SPECIFICATION Spec
CONSTANTS
  p1 = p1
  q1 = q1
  Devices = {p1, q1}
  Prepared = {p1}
  Effects = {1, 2}
  MaxEpisodes = 2
  MaxTime = 2
  Ttls <- OneLease
  Budgets <- OneLease
  Ttl = 2
  MaxRuns = 1
  Challenges = {}
  ChallengeTime = 1
  Faults = {"resume"}
CHECK_DEADLOCK FALSE
INVARIANT SoleAuthority
INVARIANT NativeOnce
