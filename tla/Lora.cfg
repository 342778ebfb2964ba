CONSTANTS
    MainFrames = {f1, f2}
    TooLong = {f2}
    Heard = {n1, n2}
    Digipeater = TRUE
    MaxHangs = 1
SPECIFICATION Spec
INVARIANTS
    OkMeansSent
    DeafOnlyByRace
    CountsExactAlone
PROPERTIES
    PutReturns
CHECK_DEADLOCK FALSE
