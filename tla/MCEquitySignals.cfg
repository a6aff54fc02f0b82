CONSTANTS
    DayBars <- MCBars
    MaxBars = 6
    AtrWindow = 2
    Window = 3
    SlowWindow = 4
    Lookback = 2
    EntryZ2 = 1
SPECIFICATION ScanSpec
INVARIANT SignalsLeaveRoom
INVARIANT NeverOversoldAndStrong
CHECK_DEADLOCK TRUE
