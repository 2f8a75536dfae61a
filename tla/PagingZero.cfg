SPECIFICATION Spec
CONSTANTS
    N = 40
    VIDEO = 35
    NumTerm = 3
    NumProc = 6
    FirstShells = {0, 1}
INVARIANT PageZeroAbsent
