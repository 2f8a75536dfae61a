SPECIFICATION BlinkSpec
CONSTANTS
    Size = 3
    Limit = 3
    Locations = {1, 2, 3}
    OnLengths = {0, 2}
    OffLengths = {2}
INVARIANT ListSound
INVARIANT StayInStep
INVARIANT ShownIsStatus
