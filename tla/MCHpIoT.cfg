SPECIFICATION FairSpec
CONSTANTS
  c1 = c1  c2 = c2  Listen = Listen
  Conns <- TwoConns
  MaxFd = 3
  MaxMsgs = 2
  MaxFails = 1
  OnDeleteFrees = FALSE
INVARIANTS ConnectionsSound
PROPERTIES OutputFlows InputFlows
