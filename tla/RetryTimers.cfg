CONSTANTS
    Timers = {1, 2}
    Word = 6
    MIN_TIMEOUT = 1
    MinTicks = 1
    MaxTicks = 2
    Fixed = {0, 3}
    PollsPerTick = 2
    MaxSmooth = 3
    MaxCount = 2
SPECIFICATION Spec
INVARIANTS
    TypeOK
    ListExact
    OnTime
PROPERTIES
    Expires
