CONSTANTS
    Ids = {c1}
    Ttls <- LateTtl
    Dur = 2
    Retain = 1
    MaxEpoch = 3
    Runs = {r1, r2}
    MayLag = FALSE
    MaxExits = 1
    SaveMayFail = TRUE
SPECIFICATION FairSpec
INVARIANTS
    TypeOK
    CurrentIsOpen
    NothingLostWhileRunning
    WindowBounded
PROPERTIES
    FilesRemovedAreMigrated
    ForgottenStaysAway
    
