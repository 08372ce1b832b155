CONSTANTS
    Nodes = {a, b}
    MaxWrites = 1
    MaxCalls = 1
    MaxLinks = 2
    MaxRestarts = 1
    MayRace = FALSE
    MayFail = TRUE
    Lossy = TRUE
SPECIFICATION FairSpec
INVARIANTS
    
    OmittedWasAired
 
