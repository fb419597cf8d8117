SPECIFICATION FairSpec
CONSTANTS
  c1 = c1  c2 = c2  Listen = Listen
  Conns <- OneConn
  MaxFd = 3
  MaxMsgs = 1
  MaxFails = 1
  OnDeleteFrees = FALSE
PROPERTY FailureCloses
