SPECIFICATION FairSpec
CONSTANTS
  InitLen = 2
  IovMax = 2
  ItemLens = {0, 2}
  MaxItems = 5
INVARIANTS TypeOK ItemsSafe BytesAccounted
PROPERTIES ImplementsStream EventuallyWritten
CHECK_DEADLOCK FALSE
