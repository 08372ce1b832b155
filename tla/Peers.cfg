CONSTANTS
    Letters = {l1, l2}
    ShortLived = {l2}
    MaxOffline = 1
    MaxRestarts = 2
    MidWrite = TRUE
    Overlap = FALSE
    MayFail = TRUE
    Envelopes <- SomeEnvelopes
    MaxPerRecipient = 2
    MaxTotal = 3
    MaxHour = 3
    MaxFlushes = 1
    MaxReloads = 1
    Agents = {"a", "b", "c"}
    Visits <- SomeVisits
    IdOf <- OwnId
    Patient = FALSE
    MaxEnds = 1
SPECIFICATION PeersSpec
INVARIANTS
    
    
    SentWasHanded
    RelayHolds
    BrowseAgrees
PROPERTIES
    PeersMoveOn
CHECK_DEADLOCK FALSE
