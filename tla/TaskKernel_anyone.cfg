SPECIFICATION KernelSpec
CONSTANTS
  Devices = {d1, d2}
  Effects = {e1, e2}
  MaxEpisodes = 2
  MaxTime = 2
  Ttls <- ShortLeases
  Budgets <- ShortBudgets
SYMMETRY Interchangeable
CHECK_DEADLOCK FALSE
INVARIANT OutcomeIsProven
INVARIANT UnresolvedIsActive
INVARIANT WithinBudget
PROPERTY LapsedStaysDead
PROPERTY ImplementsSole
