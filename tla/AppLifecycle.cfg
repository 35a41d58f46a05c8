SPECIFICATION FairSpec
INVARIANTS
  JoinedThreadsFindSingletons
PROPERTIES
  ArmedInterruptStops
  LoopEndEndsProcess
