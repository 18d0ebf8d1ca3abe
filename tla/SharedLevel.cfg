SPECIFICATION SystemSpec
CONSTANTS
  None = None
  Name = {1, 2, 3}
  MaxU = 40
  Million = 12
  MaxIterations = 12
  MaxAge = 10
  TaskSets <- Shared
INVARIANTS
  SchedulableNeverMisses
