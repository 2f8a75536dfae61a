SPECIFICATION FairSpec
CONSTANTS
    Drivers = {1, 8}
    Calls = {3}
    MaxDepth = 3
PROPERTY FaultKills
