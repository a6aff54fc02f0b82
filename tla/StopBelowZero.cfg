CONSTANTS
    DayBars <- CheapBars
    MaxBars = 6
    AtrWindow = 2
    Window = 3
    SlowWindow = 4
    Lookback = 2
    EntryZ2 = 1
SPECIFICATION ScanSpec
INVARIANT StopsArePrices
CHECK_DEADLOCK TRUE
