SPECIFICATION Spec
CONSTANTS
    Drivers = {1, 8}
    Calls = {8, 9}
    MaxDepth = 3
INVARIANT CallInTable
