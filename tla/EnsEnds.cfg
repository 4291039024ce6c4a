SPECIFICATION FairSpec
CONSTANTS
  Dest = {d1}
  MaxConcurrent = 1
  MaxAttempts = 2
  BatchSize = 1
  ClaimBound = 3
  FaultBound = 1
  Timeouts = FALSE
  Cancels = FALSE
CHECK_DEADLOCK FALSE
INVARIANTS
  TypeOK
  EngineInv
  AttemptBudget
  CompletedWasAnswered
  NoCallWithoutMedia
PROPERTIES
  KeepsPromise
  CampaignEnds
  RowsEnd
