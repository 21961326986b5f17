SPECIFICATION Spec
CONSTANTS
    clearPushLatch = clearPushLatch
    onNextLayer = onNextLayer
    triggerRender = triggerRender
    button = button
    nextRender = nextRender
    MaxHandles = 5
    Callback <- CubeCallback
    NoCallback = NoCallback
    Interval <- CubeInterval
    OneShot <- CubeOneShot
    Starts <- CubeStarts
    ThreadTimers = {onNextLayer, triggerRender}
    ButtonTimer = button
    MinRegister = 1
    MinTrigger = 1
    Forever = Forever
    Posts = {triggerRender}
    MaxBusy = 1
INVARIANT NeverEarly
