SPECIFICATION FairSpec
CONSTANTS
    NumLayers = 8
    NumBuffers = 3
    NoSlice = NoSlice
INVARIANTS
    TypeOK
    NoTear
    ChainAlive
PROPERTIES
    LatchInTheDark
    StraysOnlyLeave
    DisplaySettles
CHECK_DEADLOCK TRUE
