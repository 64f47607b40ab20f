CONSTANTS
    Width = 2
    Height = 2
    PathMax = 6
    Cap = 3
    Chars = {"x"}
    HistoryCap = 2
    Commands <- MCCommands
    Names <- MCNames
    LineBound = 3
SPECIFICATION Spec
INVARIANTS LineMirrored ScreenShowsLine HistoryRecent
CHECK_DEADLOCK FALSE
