SPECIFICATION Spec
CONSTANTS
    Devices <- MCDevices
    BaudRates = {"BAUD_9600"}
    Sizes = {"CS7", "CS8"}
    Shorts <- MCShorts
    MayFail = {"open", "input", "local", "flowControl", "parity", "flush", "restore", "close"}
INVARIANTS
    PortTypeOK
    AttributesKept
    EightBitsPass
PROPERTIES
    CloseRestores
