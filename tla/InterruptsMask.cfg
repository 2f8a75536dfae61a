SPECIFICATION Spec
CONSTANTS
    Drivers = {1, 10}
    Calls = {3}
    MaxDepth = 3
INVARIANT MaskIsExact
