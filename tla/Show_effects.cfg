SPECIFICATION FairSpec
CONSTANTS
    Followed = {"explosion", "morphCube", "pongCube", "rain", "simpleRunner", "topDownSwap", "wobbelCube", "wobbelSurf"}
    NumLayers = 8
    Word = 256
    BlastSize = 4
    BlastLast = 2
    OthersLed <- BlastCorner
    OthersLight = {0, 3, 7}
    PoolSize = 2
INVARIANTS
    TypeOK
    OneLedPerColumn
PROPERTIES
    BlastReachesAll
    EffectTakesOver
    MotionGoesOn
CHECK_DEADLOCK TRUE
