CONSTANTS
    Workers = {1, 2}
    Browsers = {"b1"}
    Shipped <- MCShipped
    MaxId = 3
    MaxServed = 3
    MaxCrash = 1
SPECIFICATION Spec
INVARIANTS
    ConfirmedKept
    NoHoles
    DhcpFollows
PROPERTIES
    TornIsFinal
CHECK_DEADLOCK FALSE
