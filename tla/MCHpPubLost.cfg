SPECIFICATION Spec
CONSTANTS
  t1 = t1  t2 = t2  p1 = p1  p2 = p2
  Topics <- OneTopic
  Publishers <- OnePublisher
  SameMs = TRUE
  Resub = FALSE
  MaxPubs = 2
  MaxCalls = 1
  MaxDrops = 0
INVARIANT NoneSkipped
CHECK_DEADLOCK FALSE
