SPECIFICATION Spec
CONSTANTS
  p1 = p1
  Devices = {p1}
  Prepared = {p1}
  Effects = {1, 2}
  MaxEpisodes = 2
  MaxTime = 2
  Ttls <- ShortLease
  Budgets <- ShortLease
  Ttl = 1
  MaxRuns = 2
  Challenges = {1}
  ChallengeTime = 1
  Faults = {"crash", "revoke", "cancel"}
CHECK_DEADLOCK FALSE
INVARIANT JournalTruth
