SPECIFICATION FairSpec
CONSTANTS
    clearPushLatch = clearPushLatch
    onNextLayer = onNextLayer
    triggerRender = triggerRender
    button = button
    nextRender = nextRender
    MaxHandles = 3
    Callback <- SmallCallback
    NoCallback = NoCallback
    Interval <- SmallInterval
    OneShot <- SmallOneShot
    Starts <- SmallStarts
    ThreadTimers = {triggerRender}
    ButtonTimer = button
    MinRegister = 1
    MinTrigger = 2
    Forever = Forever
    Posts = {triggerRender}
    MaxBusy = 1
INVARIANT TypeOK
INVARIANT OneHandleEach
INVARIANT Armed
INVARIANT BoundedLateness
PROPERTY ButtonComesBack
