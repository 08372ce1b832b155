CONSTANTS
    Nets = {m, n}
    Requests = {q, r}
    MaxSessions = 2
    MaxRestarts = 1
    MaxFaults = 1
SPECIFICATION Spec
INVARIANTS
    LastAnswerHolds
    NoSessionIsLost
SYMMETRY Symmetry
CHECK_DEADLOCK FALSE
