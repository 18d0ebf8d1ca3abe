SPECIFICATION Invocation
CONSTANTS
  None = None
  Name = {0, 1, 2, 3}
  EmptyName = 0
  MaxU = 255
  Width = 8
  Kilo = 2
  Kibi = 4
  Million = 12
  MaxIterations = 12
  MaxPriority = 3
  MinStack = 4
  PRIORITY_LEVELS = 4
  MAX_TASKS = 3
  TaskSets <- NoTasks
  Commands = {"analyze"}
  Manifests <- Stacks
INVARIANTS
  NeverAborts
CHECK_DEADLOCK FALSE
