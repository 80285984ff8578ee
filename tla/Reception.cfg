SPECIFICATION FairSpec
CONSTANTS
    MaxHeard = 3
    MaxCalls = 3
    Limits = {TRUE, FALSE}
INVARIANTS
    ReceiveTypeOK
    RunsInstalled
    LambdaHasFrame
    ReturnsWhole
PROPERTIES
    ImplementsInbox
    LimitedReturns
    ReceivedReturns
    StopJoins
CHECK_DEADLOCK FALSE
