SPECIFICATION HSpec
CONSTANTS
    NumProc = 4
    NumTerm = 2
    NumSlot = 3
    Commands = {"shell", "app", "quit", "unknown"}
INVARIANT ReturnPath
INVARIANT StackTaken
INVARIANT OwnTask
INVARIANT PageKept
INVARIANT NoPcbLeaks
INVARIANT SlotsKept
PROPERTY PromptReturns
PROPERTY ImplementsTaskStack
CHECK_DEADLOCK FALSE
