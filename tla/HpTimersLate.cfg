CONSTANTS Keys = {"a"}  Ms = 4  MaxMade = 1
SPECIFICATION TimersSpec
INVARIANT ExpiresInTime
CHECK_DEADLOCK FALSE
