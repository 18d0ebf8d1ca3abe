SPECIFICATION FairSpec
CONSTANTS
  None = None
  Name = {1, 2, 3}
  MaxU = 23
  Million = 6
  MaxIterations = 4
  TaskSets <- SmallTaskSets
INVARIANTS
  TypeOK
  IterateBelowEveryFixedPoint
  OverloadNeverSchedulable
PROPERTIES
  ImplementsSchedulabilityTest
  RecurrenceRises
  Terminates
CHECK_DEADLOCK FALSE
