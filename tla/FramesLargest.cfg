SPECIFICATION Spec
CONSTANTS
    BufferSize = 8
    Sizes = {0, 8}
    GarbageSizes = {}
    SlowBytes = FALSE
    MaxFrames = 2
    MaxNoise = 0
INVARIANTS
    LargestPacketFits
CHECK_DEADLOCK FALSE
