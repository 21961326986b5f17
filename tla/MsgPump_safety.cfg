SPECIFICATION FairSpec
CONSTANTS
    a = a
    b = b
    c1 = c1
    c2 = c2
    d1 = d1
    d2 = d2
    MsgId <- TwoMsgId
    MsgAmount <- TwoMsgAmount
    QueueSize = 4
    MaxReceivers = 1
    Callback = {c1}
    NoCallback = NoCallback
    Data = {d1, d2}
    Zero = d1
    MaxRef = 2
    MaxLocks = 2
    ProducerMayRetain = FALSE
    IsrUnregisters = FALSE
INVARIANT TypeOK
INVARIANT SlotAccounting
INVARIANT QueuedOnce
INVARIANT NoLockLeak
INVARIANT NoNullCall
PROPERTY RetainedDataStable
CHECK_DEADLOCK TRUE
PROPERTY FifoLive
