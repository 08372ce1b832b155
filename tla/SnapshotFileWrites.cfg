CONSTANTS
    MaxCommits = 2
    Blocks = 2
    Slots = {s1, s2, s3}
    LateCommits = TRUE
    MayFail = TRUE
    MaxCrashes = 1
    MaxOpens = 2
SPECIFICATION FairSpec
INVARIANTS
    CalmFileIsSound
PROPERTIES
    SavesEnd
    ImplementsDurableDoc
CHECK_DEADLOCK FALSE
