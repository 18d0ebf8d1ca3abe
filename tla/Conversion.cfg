SPECIFICATION Spec
CONSTANTS
  None = None
  MaxU = 255
  Width = 8
  Kilo = 2
  Kibi = 4
  Instants = {0, 1, 100, 254, 255}
  Rates = {0, 1, 2, 3, 4, 7, 8, 9, 18, 37, 64, 255}
INVARIANTS
  TicksAreTheCeiling
  DelayIsExact
  ShownParsesBack
PROPERTIES
  LongerIsNotFewer
CHECK_DEADLOCK FALSE
