SPECIFICATION Spec
CONSTANTS
  Dest = {d1}
  MaxConcurrent = 1
  MaxAttempts = 2
  BatchSize = 1
  ClaimBound = 2
  FaultBound = 0
  Timeouts = FALSE
  Cancels = FALSE
CHECK_DEADLOCK FALSE
PROPERTIES
  RetryNotAbandoned
