SPECIFICATION Spec
CONSTANTS
    ReadSizes = {1, 2, 3}
    WriteSizes = {1, 2}
    Careful = TRUE
    MaxBytes = 3
    MaxSent = 3
    MaxDiscards = 2
INVARIANTS
    StreamTypeOK
    GoodMeansSent
PROPERTIES
    ImplementsByteStream
CHECK_DEADLOCK FALSE
