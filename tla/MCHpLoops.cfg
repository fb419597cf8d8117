CONSTANTS
  fd1 = fd1  fd2 = fd2  fd3 = fd3
  PollFds = {fd1, fd2, fd3}  MaxFd = 2  MaxPollOps = 3
  Keys = {"a", "b"}  Ms = 4  MaxMade = 2
  LogPieces = 2  MaxSignals = 2  MaxChildren = 2
  Pieces = 2  MaxPairs = 2
SPECIFICATION Spec
INVARIANTS PollSound ObjectsSound
PROPERTIES PollServes KeepsTicking SignalsHandled EchoWorks RpcWorks
CHECK_DEADLOCK FALSE
