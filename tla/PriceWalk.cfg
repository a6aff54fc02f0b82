CONSTANTS
    Action = "BUY"
    Quantity = 2
    Limits = {9, 10}
    Increment = 1
    MaxSteps = 3
    Nav = 1000
    MaxKills = 1
    MaxFaults = 1
    MaxPosition = 1000
    MaxDailyLoss = 200
    MaxOrderNotional = 24
    MaxOpenPositions = 2
    MaxContracts = 10
    PatternDayNav = 25000
    NoPrice = NoPrice
    ReadOnly = FALSE
SPECIFICATION Spec
INVARIANT OneOrderUnasked
INVARIANT RejectedLeavesNothing
INVARIANT EveryStepChecked
INVARIANT KillStopsWalk
INVARIANT FillsRecordedOnce
INVARIANT IInv
CHECK_DEADLOCK FALSE
