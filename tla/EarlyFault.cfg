SPECIFICATION Spec
CONSTANTS
  DataWords = 2
  BssWords = 1
  Words = 2
  Probe = TRUE
  Escalation = FALSE
  Ascending = TRUE
  EarlyFaults = TRUE
  MaxBoots = 2
INVARIANTS
  RustOnlyWithValidRam
CHECK_DEADLOCK FALSE
