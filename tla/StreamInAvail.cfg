SPECIFICATION Spec
CONSTANTS
    ReadSizes = {1}
    WriteSizes = {}
    Careful = FALSE
    MaxBytes = 1
    MaxSent = 0
    MaxDiscards = 0
INVARIANTS
    GotWereReceived
CHECK_DEADLOCK FALSE
