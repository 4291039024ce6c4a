SPECIFICATION FairSpec
CONSTANTS
  Agent = {a1, a2}
  None = None
  OfferBound = 3
  FaultBound = 1
CHECK_DEADLOCK FALSE
INVARIANTS
  TypeOK
  CountedOnce
  TalkIsNotMissed
  TablesTell
PROPERTIES
  ReapedWhenBlind
  CallEnds
