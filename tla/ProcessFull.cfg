SPECIFICATION Spec
CONSTANTS
    NumProc = 6
    NumTerm = 1
    NumSlot = 4
    Commands = {"app", "exit"}
INVARIANT FullOfTasks
CHECK_DEADLOCK FALSE
