SPECIFICATION Spec
CONSTANTS
  Codes = {"COFFEE", "LUNCH"}
  ActBound = 4
  FaultBound = 1
  SlowModule = TRUE
CHECK_DEADLOCK FALSE
PROPERTIES
  NoFalseLogout
