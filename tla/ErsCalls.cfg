SPECIFICATION Spec
CONSTANTS
  Caller = {c1, c2}
  None = None
  Script <- AnyScript
  MaxConcurrent = 1
  Earlier = {{"secondary"}}
  DisturbBound = 2
SYMMETRY Symmetry
CHECK_DEADLOCK FALSE
INVARIANTS
  TypeOK
  QueueAgrees
  OwedIsRung
PROPERTIES
  InOrder
  RowLeavesOnce
