SPECIFICATION Spec
CONSTANTS
    Modulus = 7
    Begin = 4
    End = 5
    Escape = 6
    MaxPacketLen = 3
    LineSize = 1
    PoolSize = 2
    QueueSize = 2
    Ids = {1, 2}
    Payloads <- LongPayloads
    Pieces = {}
    MaxPayload = 0
    Lossy = FALSE
PROPERTY TooLongSkipped
CONSTANTS
    LengthWrap = 16
    FunctionCount = 2
    ParameterSize <- OneByte
    MayBeSmaller = {0}
    Results <- MayTell
    Buffered = {0, 1}
