CONSTANTS
    Items = {"t2"}
    Seeds = {0, 1, 2}
    Bits = {0, 1, 2, 3}
    Hash <- MCHash
    Nodes = {n1, n2}
    Managers <- MCNetwork
    MaxWrites = 2
    MaxBuilt = 1
    MaxNet = 1
    MayForce = TRUE
    MayLeave = TRUE
    Hasty = FALSE
SPECIFICATION FairSpec
INVARIANTS NoFalseNegative
PROPERTIES  StopIsFinal
CHECK_DEADLOCK FALSE
