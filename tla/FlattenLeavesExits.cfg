CONSTANTS
    aapl = aapl
    tqqq = tqqq
    Symbols = {tqqq}
    Signals <- Etf
    Leveraged = {tqqq}
    MaxTroubles = 0
    MaxDays = 1
    MaxOrderNotional = 70
    MaxOpenPositions = 2
    Quotes = {7, 14}
    Multipliers = {100}
    StartingNav = 1000
    Risk = 100
    MaxPosition = 1000
    MaxDailyLoss = 200
    MaxContracts = 10
    PatternDayNav = 25000
    NoPrice = NoPrice
    ReadOnly = FALSE
    Requests = {}
    MaxOrders = 0
SPECIFICATION Spec
PROPERTY FlattenedStaysFlat
