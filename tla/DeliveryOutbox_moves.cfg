SPECIFICATION FairSpec
CONSTANTS
  Tasks <- TheTasks
  TaskOf <- TwoTasks
  PartsOf <- OneEach
  Drains = {c1}
  None = None
  Capacity = 1
  Batch = 1
  MaxOpen = 2
  MaxRefusals = 2
  MaxResets = 0
PROPERTY HeadsMove
