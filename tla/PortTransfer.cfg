SPECIFICATION FairSpec
CONSTANTS
    Room = 2
    Lengths = {2}
    Wants = {0, 2}
    Terminators = {0, 10, 200}
    Limit = 1
    Characters <- MCCharacters
    MaxWrites = 2
INVARIANTS
    WritesAreWhole
    ReadsAreWhole
PROPERTIES
    ReadEnds
    WriteEnds
CHECK_DEADLOCK FALSE
