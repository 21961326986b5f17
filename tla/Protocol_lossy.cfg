SPECIFICATION Spec
CONSTANTS
    Modulus = 5
    Begin = 1
    End = 3
    Escape = 4
    MaxPacketLen = 6
    LineSize = 0
    PoolSize = 2
    QueueSize = 2
    Ids = {1}
    Payloads <- Requests
    Pieces = {3}
    MaxPayload = 1
    Lossy = TRUE
    LengthWrap = 16
    FunctionCount = 2
    ParameterSize <- OneByte
    MayBeSmaller = {0}
    Results <- MayTell
    Buffered = {0, 1}
INVARIANTS
    TypeOK
    BuffersKept
PROPERTIES
    InStepAgain
    NothingInvented
    CallsAsSent
    ParametersInside
