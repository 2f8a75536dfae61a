SPECIFICATION HSpec
CONSTANTS
    NumTerm = 2
    KEYBOARDSIZE = 3
    Chars = {"a"}
    Sessions = {{"char", "l", "enter", "backspace", "release", "ctrl"},
                {"char", "enter", "extended", "fn"},
                {"char", "alt", "fn"}}
    BelowZero = 1
    MaxIndex = 4
    Short = 2
    Counts = {2, 4}
    FewCounts = {4}
    WORD = 2
INVARIANT ReadIsLine
INVARIANT ReaderListens
INVARIANT UnderrunByOne
PROPERTY Isolated
PROPERTY ReadReturns
