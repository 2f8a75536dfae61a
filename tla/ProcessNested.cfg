SPECIFICATION Spec
CONSTANTS
    NumProc = 6
    NumTerm = 1
    NumSlot = 4
    Commands = {"shell", "app"}
INVARIANT ParentPage
CHECK_DEADLOCK FALSE
