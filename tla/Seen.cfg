CONSTANTS
    Hashes = {h1, h2, h3}
    MaxN = 2
    SpareDivisor = 2
    Rate = 2
    Per = 2
    TicksPerSecond = 2
    Epoch = 2
    MaxClock = 4
SPECIFICATION Spec
INVARIANTS
    RepeatsBounded
PROPERTIES
    RoomIsMade
    StopReturns
