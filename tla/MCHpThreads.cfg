CONSTANTS
  w1 = w1  none = none
  PortThreads = {w1}  IBufMax = 1  MaxItems = 2  MaxAdds = 1  MaxWrites = 1
  MaxChunks = 2  MaxWork = 5  MaxQueue = 0  PartialSends = FALSE  Idle = none
  Paths <- DirPaths  MaxIents = 2  MaxInodes = 3  MaxWatch = 2  MaxEvents = 2
SPECIFICATION Spec
INVARIANTS WatchesSound
PROPERTIES  ChangesSeen
CHECK_DEADLOCK FALSE
