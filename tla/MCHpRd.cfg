SPECIFICATION FairSpec
CONSTANTS
  InitBuf = 3
  MsgLens = {1, 4}
  DispatchModes = {TRUE, FALSE}
  BadMsgs = TRUE
  MaxMsgs = 3
INVARIANTS BufferSound NoneLost
PROPERTIES EventuallyDispatched
CHECK_DEADLOCK FALSE
