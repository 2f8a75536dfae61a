SPECIFICATION BlinkSpec
CONSTANTS
    Size = 3
    Limit = 4
    Locations = {0, 1}
    OnLengths = {1}
    OffLengths = {1}
INVARIANT ListEnds
