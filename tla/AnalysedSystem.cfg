SPECIFICATION SystemSpec
CONSTANTS
  None = None
  Name = {1, 2, 3}
  MaxU = 40
  Million = 12
  MaxIterations = 12
  MaxAge = 20
  TaskSets <- DistinctLevels
INVARIANTS
  SystemTypeOK
  SchedulableNeverMisses
  ResponseIsABound
  ResponseIsReached
PROPERTIES
  PassingJobsComplete
