SPECIFICATION Spec
CONSTANTS
  p1 = p1
  p2 = p2
  t1 = t1
  t2 = t2
  Producers <- MCProducers
  Topics <- MCTopics
  Known <- MCKnown
  MaxQueue = 2
  MaxMsgs = 4
INVARIANT NoneQueuedWhenDead
CHECK_DEADLOCK FALSE
