SPECIFICATION Spec
CONSTANTS
  Dest = {d1, d2}
  MaxConcurrent = 1
  MaxAttempts = 2
  BatchSize = 2
  ClaimBound = 2
  FaultBound = 0
  Timeouts = TRUE
  Cancels = TRUE
SYMMETRY Symmetry
CHECK_DEADLOCK FALSE
INVARIANTS
  ConcurrencyLimit
  CallsWithinLimit
  OneCallPerDest
  ClosedIsQuiet
  CountersCover
  EngineInv
PROPERTIES
  KeepsPromise
