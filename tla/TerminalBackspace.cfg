SPECIFICATION Spec
CONSTANTS
    NumTerm = 1
    KEYBOARDSIZE = 5
    Chars = {"a"}
    Sessions = {{"char", "enter", "backspace"}}
    BelowZero = 1
    MaxIndex = 5
    WORD = 2
    Short = 5
    Counts = {5}
    FewCounts = {5}
INVARIANT NoUnderrun
