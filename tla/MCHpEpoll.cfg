SPECIFICATION FairSpec
CONSTANTS
  f1 = f1  f2 = f2  f3 = f3
  a1 = a1  a2 = a2  a3 = a3
  None = None
  Fds <- ThreeFds
  Addrs <- ThreeAddrs
  MaxEv = 2
  MaxOps = 4
INVARIANTS RegistrySound BatchSound DriveMisses
PROPERTIES CallsCurrentArg EveryoneDriven
CHECK_DEADLOCK FALSE
