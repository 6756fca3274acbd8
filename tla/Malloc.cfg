CONSTANTS
    Base = 1
    HeapSize = 10
    MinBlock = 2
    Hdr = 1
    Word = 16
    Owners = {1, 2, 3}
    Sizes = {0, 2, 5, 14, 15}
    Aligns = {1, 4}
    Offsets <- MCOffsets
SPECIFICATION Spec
INVARIANTS
    TypeOK
    CheckBlocks
    LeaksNeedOffset
PROPERTIES
    NullOnlyWhenFull
    ImplementsHeap
    AllocEnds
