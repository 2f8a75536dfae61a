SPECIFICATION Spec
CONSTANTS
    NumTerm = 1
    KEYBOARDSIZE = 3
    Chars = {"a"}
    Sessions = {{"char", "enter"}}
    BelowZero = 0
    MaxIndex = 4
    WORD = 2
    Short = 4
    Counts = {2}
    FewCounts = {2}
INVARIANT ReturnsCount
