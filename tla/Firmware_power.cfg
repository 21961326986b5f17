SPECIFICATION FairSpec
CONSTANTS
    NumWords = 3
    Bits = {b1}
    Period = 2
    HighWrap = 2
    BootTime = 1
    PerUs = 2
    ResetTime = 1
    MaxUptime = 6
    MaxLosses = 2
    b1 = b1
INVARIANTS
    TypeOK
    UsedAfterInit
    Kept
    InStep
    TimeLags
PROPERTIES
    Boots
