SPECIFICATION Spec
CONSTANTS
    NUM_COLS = 2
    NUM_ROWS = 2
    NumTerm = 1
    Typed = {"a"}
    Written = {"a", "nl"}
    Keys = {"char", "enter", "backspace", "ctrl_l"}
    MaxLine = 2
    MaxStray = 1
INVARIANT CornerIsZero
