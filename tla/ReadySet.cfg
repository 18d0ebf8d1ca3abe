SPECIFICATION Spec
CONSTANTS
  PRIORITY_LEVELS = 32
  None = None
  Thread = Thread
  timer = timer
  uart = uart
  motor = motor
  brake = brake
  Handlers = {timer, uart, motor, brake}
  Users = {timer, uart}
  Urgency <- MCUrgency
  Ceiling = 20
  HwLevels <- MCHwLevels
  Touched = {0, 9, 20, 31}
INVARIANTS
  TypeOK
  HighestIsMostUrgent
  UrgentStaysLive
PROPERTIES
  ImplementsReadyLevels
