CONSTANTS
    Chains <- MCChains
    Wing = 500
    MaxSpread = 10
    RankSpread = 5
    MinInterest = 50
    SampleSteps = 200
    Quantities = {1, 2, 3}
    Shares = {0, 100}
    AccountNav = 800000
    MaxDailyLoss = 200
    MaxPosition = 1000
    MaxOrderNotional = 40000
    MaxOpenPositions = 2
    MaxContracts = 2
    PatternDayNav = 25000
    NoPrice = NoPrice
    ReadOnly = FALSE
SPECIFICATION ComboSpec
INVARIANT OnlyCoveredCallIsNaked
INVARIANT TextbookRisk
INVARIANT DebitWithinLimits
CHECK_DEADLOCK FALSE
