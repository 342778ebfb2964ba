CONSTANTS
    Rate = 2
    Per = 3
    Start = 3
    MaxUptime = 6
    MaxReading = 8
    MaxAhead = 9
SPECIFICATION SourceSpec
INVARIANTS
    WindowBound
    RefusalIsBounded
