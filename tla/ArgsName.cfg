SPECIFICATION Spec
CONSTANTS
    NAMESIZE = 2
    ARGSIZE = 6
    NumProc = 3
    Letters = {"a"}
    Commands <- MCCommands
    Programs <- MCPrograms
    Counts = {0, 1, 3}
INVARIANT NameFits
