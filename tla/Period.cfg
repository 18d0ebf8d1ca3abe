SPECIFICATION Spec
CONSTANTS
  MaxU = 14
  MaxMissed = 4
  Starts = {0, 1, 3}
  Intervals = {0, 1, 2, 3, 5}
INVARIANTS
  TypeOK
  SlotsAccounted
PROPERTIES
  NextIsFirstDue
  MissesCounted
CHECK_DEADLOCK FALSE
