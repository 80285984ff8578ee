SPECIFICATION Spec
CONSTANTS
    Devices <- MCDevices
    BaudRates = {"BAUD_9600"}
    Sizes = {"CS7", "CS8"}
    Shorts <- MCShorts
    MayFail = {"save"}
INVARIANTS
    OpenFailedIsClosed
CHECK_DEADLOCK FALSE
