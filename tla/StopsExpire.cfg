CONSTANTS
    Symbols = {s1}
    MaxDays = 2
    MaxOpen = 1
    None = None
SPECIFICATION Spec
INVARIANT HeldIsProtected
CHECK_DEADLOCK TRUE
