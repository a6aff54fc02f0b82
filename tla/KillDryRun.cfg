CONSTANTS
    Symbols = {s1}
    MaxDays = 2
    MaxOpen = 1
    None = None
SPECIFICATION Spec
PROPERTY CompletedKillCancels
CHECK_DEADLOCK TRUE
