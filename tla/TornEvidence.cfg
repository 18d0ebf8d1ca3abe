SPECIFICATION Spec
CONSTANTS
  DataWords = 2
  BssWords = 1
  Words = 2
  Probe = TRUE
  Escalation = FALSE
  Ascending = FALSE
  EarlyFaults = FALSE
  MaxBoots = 2
INVARIANTS
  MagicIsComplete
CHECK_DEADLOCK FALSE
