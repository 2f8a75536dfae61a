SPECIFICATION Spec
CONSTANTS
    NUM_COLS = 2
    NUM_ROWS = 2
    NumTerm = 2
    Typed = {"a"}
    Written = {"a", "nl", "bs"}
    Keys = {"char", "enter", "backspace", "ctrl_l", "fn"}
    MaxLine = 2
    MaxStray = 1
INVARIANT CursorOnScreen
INVARIANT LineShown
PROPERTY ScreensKept
