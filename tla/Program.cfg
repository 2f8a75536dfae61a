SPECIFICATION ProgSpec
CONSTANTS
    N = 37
    VIDEO = 34
    NumTerm = 2
    NumProc = 3
    FirstShells = {0, 1}
    NAMESIZE = 2
    ARGSIZE = 6
    Letters = {"a"}
    Commands <- MCCommands
    Programs <- MCPrograms
    Counts = {0, 1, 3}
INVARIANT GetsWhatWasTyped
INVARIANT UserConfined
INVARIANT ScreenStaysMapped
