SPECIFICATION FairSpec
CONSTANTS
  t1 = t1  t2 = t2  p1 = p1  p2 = p2
  Topics <- TwoTopics
  Publishers <- OnePublisher
  SameMs = FALSE
  Resub = FALSE
  MaxPubs = 2
  MaxCalls = 2
  MaxDrops = 1
INVARIANTS ContextsAlive NoneSkipped
PROPERTIES EventuallyDelivered
CHECK_DEADLOCK FALSE
