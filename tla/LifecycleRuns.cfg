CONSTANTS
    Clients = {c, d}
    MaxSpawns = 3
    MaxKills = 1
SPECIFICATION LifecycleSpec
INVARIANTS
    OneAfterTheOther
    
SYMMETRY Symmetry
CHECK_DEADLOCK FALSE
