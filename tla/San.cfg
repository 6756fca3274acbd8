CONSTANTS
    MaxPaths = 2
    SanRetries = 1
    MaxCount = 2
    MaxBlocks = 3
SPECIFICATION Spec
INVARIANTS
    TypeOK
    ActiveIsOpen
    AllClosed
    CommandHasPath
PROPERTIES
    RwComplete
    CallsEnd
CHECK_DEADLOCK FALSE
