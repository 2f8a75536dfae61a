SPECIFICATION Spec
CONSTANTS
    NumTerm = 2
    KEYBOARDSIZE = 3
    Chars = {"a"}
    Sessions = {{"enter", "alt", "fn"}}
    BelowZero = 0
    MaxIndex = 3
    WORD = 2
    Short = 3
    Counts = {3}
    FewCounts = {3}
INVARIANT WaitsListening
