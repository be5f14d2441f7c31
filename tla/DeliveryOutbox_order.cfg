SPECIFICATION Spec
CONSTANTS
  Tasks <- TheTask
  TaskOf <- SameTask
  PartsOf <- OneTwo
  Drains = {c1, c2}
  None = None
  Capacity = 1
  Batch = 2
  MaxOpen = 2
  MaxRefusals = 2
  MaxResets = 2
SYMMETRY Interchangeable
INVARIANT PostedOnce
INVARIANT InOrder
PROPERTY SentForGood
