CONSTANTS
    FirstYear = 2024
    LastYear = 2029
    FirstDay = 1050
    LastDay = 1540
    Halves = {1}
    Retain = 2
    MaxPause = 17
SPECIFICATION WeekSpec
INVARIANTS
    RetainedStaysOpen
CHECK_DEADLOCK FALSE
