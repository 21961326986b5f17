SPECIFICATION Spec
CONSTANTS
    a = a
    b = b
    c1 = c1
    c2 = c2
    d1 = d1
    d2 = d2
    MsgId <- OneMsgId
    MsgAmount <- OneMsgAmount
    QueueSize = 2
    MaxReceivers = 2
    Callback = {c1, c2}
    NoCallback = NoCallback
    Data = {d1, d2}
    Zero = d1
    MaxRef = 2
    MaxLocks = 2
    ProducerMayRetain = FALSE
    IsrUnregisters = TRUE
INVARIANT AllReceiversCalled
PROPERTY FifoOrder
CHECK_DEADLOCK FALSE
