SPECIFICATION Spec
CONSTANTS
    MaxPackets = 3
    Transmissions = {1}
    LossyLine = FALSE
    LateAnswers = FALSE
    RadioTraffic = FALSE
    Refusals = FALSE
    MaxInFlight = 2
    SyncCalls = {TRUE}
    MaxConfigures = 1
INVARIANTS
    SurvivesItsThreads
CHECK_DEADLOCK FALSE
