CONSTANTS
    Posted <- PostedBodies
    Inputs <- InputData
    MaxPosts = 4
    MaxRestarts = 2
    Keys = {k, l}
    Malformed = m
    Ttl = 1
    ClaimInputs <- ShortClaims
    MaxClock = 3
    Names = {1, 2, 3, 4}
    MaxHops = 2
    MaxStubs = 2
    Rels = {"related", "supersedes"}
    Requests <- SomeRequests
    Graphs <- SomeGraphs
    Contents <- TwoStores
SPECIFICATION CallsSpec
INVARIANTS
    SchemasHold
    
    
    
CHECK_DEADLOCK FALSE
