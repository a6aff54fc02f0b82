CONSTANTS
    aapl = aapl
    tqqq = tqqq
    Symbols = {aapl}
    Signals <- Stock
    Leveraged = {}
    MaxTroubles = 0
    MaxDays = 3
    MaxOrderNotional = 70
    MaxOpenPositions = 2
    Quotes = {7, 9, 11}
    Multipliers = {100}
    StartingNav = 1000
    Risk = 100
    MaxPosition = 1000
    MaxDailyLoss = 100
    MaxContracts = 10
    PatternDayNav = 25000
    NoPrice = NoPrice
    ReadOnly = FALSE
    Requests = {}
    MaxOrders = 0
SPECIFICATION Spec
PROPERTY DailyLossStopsEntries
