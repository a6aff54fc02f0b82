CONSTANTS
    Symbols = {aapl, msft}
    Multipliers = {50, 100, 150}
    NoAnswer = NoAnswer
    MaxReviews = 3
    MaxFaults = 2
SPECIFICATION FairSpec
INVARIANT NeverSizesUp
INVARIANT VetoCounts
INVARIANT UsedIsRecorded
PROPERTY ReviewReturns
CHECK_DEADLOCK FALSE
