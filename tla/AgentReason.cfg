SPECIFICATION Spec
CONSTANTS
  Codes = {"COFFEE", "LUNCH"}
  ActBound = 4
  FaultBound = 0
  SlowModule = FALSE
CHECK_DEADLOCK FALSE
INVARIANTS
  ReasonKept
