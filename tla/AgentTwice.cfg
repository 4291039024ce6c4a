SPECIFICATION Spec
CONSTANTS
  Codes = {"COFFEE"}
  ActBound = 4
  FaultBound = 1
  SlowModule = FALSE
CHECK_DEADLOCK FALSE
INVARIANTS
  TypeOK
  HistoryAgrees
  SegmentsDiffer
PROPERTIES
  UncrossedLogouts
