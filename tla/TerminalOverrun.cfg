SPECIFICATION Spec
CONSTANTS
    NumTerm = 1
    KEYBOARDSIZE = 3
    Chars = {"a"}
    Sessions = {{"char", "enter"}}
    BelowZero = 0
    MaxIndex = 6
    WORD = 2
    Short = 6
    Counts = {3}
    FewCounts = {3}
INVARIANT NoOverrun
