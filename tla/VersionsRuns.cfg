CONSTANTS
    Nodes = {a, b}
    Writers = {a}
    Reversed = {b}
    MaxChunks = 3
    MaxTime = 2
    MaxDeletes = 1
    MaxRotations = 1
    MaxRestarts = 1
SPECIFICATION VersionsSpec
INVARIANT AnswersAreComplete
  
CHECK_DEADLOCK FALSE
