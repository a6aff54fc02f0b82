CONSTANTS
    aapl = aapl
    tqqq = tqqq
    Symbols = {aapl, tqqq}
    Signals <- StockAndEtf
    Leveraged = {tqqq}
    MaxTroubles = 1
    MaxDays = 2
    MaxOrderNotional = 70
    MaxOpenPositions = 2
    Quotes = {7, 14}
    Multipliers = {10, 100}
    StartingNav = 1000
    Risk = 200
    MaxPosition = 500
    MaxDailyLoss = 200
    MaxContracts = 10
    PatternDayNav = 25000
    NoPrice = NoPrice
    ReadOnly = FALSE
    Requests = {}
    MaxOrders = 0
SPECIFICATION Spec
INVARIANT NeverShort
INVARIANT StopsMatchShares
INVARIANT CostBoundedByPlans
PROPERTY DroppedOnlyByCountOrKill
PROPERTY EodFlattens
