CONSTANTS
    Symbols = {s1}
    MaxDays = 2
    MaxOpen = 1
    None = None
SPECIFICATION FairSpec
PROPERTY LinkComesBack
CHECK_DEADLOCK TRUE
