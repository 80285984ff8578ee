SPECIFICATION FairSpec
CONSTANTS
    BufferSize = 8
    Sizes = {0, 2}
    GarbageSizes = {0, 1, 3, 9}
    SlowBytes = TRUE
    MaxFrames = 3
    MaxNoise = 2
INVARIANTS
    FrameTypeOK
    InStepLosesNothing
PROPERTIES
    ImplementsLossyFifo
    FrameArrives
CHECK_DEADLOCK FALSE
