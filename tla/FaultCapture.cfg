SPECIFICATION FairSpec
CONSTANTS
  DataWords = 2
  BssWords = 1
  Words = 2
  Probe = TRUE
  Escalation = FALSE
  Ascending = TRUE
  EarlyFaults = FALSE
  MaxBoots = 2
INVARIANTS
  TypeOK
  RustOnlyWithValidRam
  StartReportsSuccess
  DoneIsComplete
  MagicIsComplete
  FrameFromSelectedStack
PROPERTIES
  CaptureOnce
  ClaimedIsCaptured
CHECK_DEADLOCK FALSE
