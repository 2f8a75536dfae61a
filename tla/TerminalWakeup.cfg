SPECIFICATION FairSpec
CONSTANTS
    NumTerm = 1
    KEYBOARDSIZE = 3
    Chars = {"a"}
    Sessions = {{"enter", "release"}}
    BelowZero = 0
    MaxIndex = 3
    WORD = 2
    Short = 3
    Counts = {3}
    FewCounts = {3}
PROPERTY EnterServed
