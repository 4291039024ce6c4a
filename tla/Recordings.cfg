SPECIFICATION FairSpec
CONSTANTS
  Path = {1, 2}
  None = None
  FaultBound = 1
  EventBound = 3
CHECK_DEADLOCK FALSE
INVARIANTS
  TypeOK
  ActiveIsRecorded
  RecordedIsShown
  EndedIsClosed
  StartHasTimer
PROPERTIES
  StartEnds
