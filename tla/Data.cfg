SPECIFICATION DataSpec
CONSTANTS
    Bytes = {{}, {0}, {7}, {0, 1, 2, 3, 4, 5, 6, 7}}
    Types = {1, 6}
    Leftovers <- MCLeftovers
    MaxLength = 3
    Controls = {69}
    Sizes = {22, 255, 278}
    Messages <- MCMessages
    Message <- MCMessage
    Packets <- MCPackets
    Garbage <- MCGarbage
    MaxPackets = 3
INVARIANTS
    IsRemainder
    RoundTrip
    SpoiltByteRefused
    BoardSetUp
    TalliesRight
    PerRight
CHECK_DEADLOCK FALSE
