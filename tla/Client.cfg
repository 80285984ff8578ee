SPECIFICATION QuietSpec
CONSTANTS
    MaxPackets = 2
    Transmissions = {2}
    LossyLine = TRUE
    LateAnswers = TRUE
    RadioTraffic = TRUE
    Refusals = TRUE
    MaxInFlight = 2
    SyncCalls = {TRUE, FALSE}
    MaxConfigures = 2
INVARIANTS
    TypeOK
    NeverAhead
    LoopHoldsFront
    StopDrains
    PortOpenWhileLooping
    SendingStaysActive
    ModeFollowsUnlessFailed
PROPERTIES
    ImplementsOutbox
    SendReturns
    ConfigureReturns
    StopReturns
CHECK_DEADLOCK FALSE
