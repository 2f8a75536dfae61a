SPECIFICATION FairSpec
CONSTANTS
    Drivers = {1, 8}
    Calls = {0, 1, 3, 8, 11}
    MaxDepth = 7
INVARIANT Acknowledged
INVARIANT HandlersDontNest
INVARIANT MaskIsExact
PROPERTY KeyTaken
