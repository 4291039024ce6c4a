SPECIFICATION FairSpec
CONSTANTS
  Rows = 7
  MaxConcurrent = 3
  BatchSize = 2
  Cps = 100
  Adaptive = TRUE
  RetryBound = 6
CHECK_DEADLOCK FALSE
PROPERTIES
  EveryRowDialled
