CONSTANTS
    Posts = {p, q}
    Max = 2
    Window = 2
    Delta <- Deltas
    TempLimit <- TempLimitValue
    PermLimit <- PermLimitValue
    TempSpan = 3
    StampWindow = 2
    MaxTime = 5
    MaxResets = 1
SPECIFICATION Spec
INVARIANTS LimitsHold StampsVerify
SYMMETRY Symmetry
CHECK_DEADLOCK FALSE
