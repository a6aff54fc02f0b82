CONSTANTS
    aapl = aapl
    msft = msft
    Symbols = {aapl, msft}
    Signals <- MCSignals
    Bars <- MCBars
    NoBar = NoBar
    MaxDates = 3
    StartingNav = 1000
    Risk = 100
    MaxPosition = 1000
    MaxDailyLoss = 200
    MaxOrderNotional = 62
    MaxOpenPositions = 2
    MaxContracts = 10
    PatternDayNav = 25000
    NoPrice = NoPrice
    ReadOnly = FALSE
    Requests = {}
    Quotes = {}
    MaxOrders = 0
SPECIFICATION Spec
CHECK_DEADLOCK FALSE
PROPERTY StopsFill
