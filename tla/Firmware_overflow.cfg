SPECIFICATION Spec
CONSTANTS
    NumWords = 1
    Bits = {b1}
    Period = 3
    HighWrap = 4
    BootTime = 1
    PerUs = 2
    ResetTime = 1
    MaxUptime = 10
    MaxLosses = 0
    b1 = b1
INVARIANTS
    TimeNeverAhead
