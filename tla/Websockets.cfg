CONSTANTS
    Sessions = {s1, s2}
    MaxHistory = 2
    MaxPushes = 4
    MaxClock = 3
SPECIFICATION Spec
INVARIANTS
    InOrderOnce
PROPERTIES
    NothingSkipped
    EveryRecordShown
CHECK_DEADLOCK FALSE
