SPECIFICATION Spec
CONSTANTS
    NumProc = 6
    NumTerm = 2
    NumSlot = 4
    Commands = {"app", "exit"}
INVARIANT SlotsLive
CHECK_DEADLOCK FALSE
