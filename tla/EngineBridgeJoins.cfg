CONSTANTS
    Joins = {j1, j2, j3}
    Leaver = leaver
    MaxProcs = 2
    Concurrent = TRUE
    MaxCrashes = 1
    MayTimeout = TRUE
    MayLeave = TRUE
SPECIFICATION FairSpec
INVARIANTS
    BridgeAgrees
    
    OneStartOneEngine
PROPERTIES
    EveryCallerReturns
CHECK_DEADLOCK FALSE
