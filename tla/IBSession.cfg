CONSTANTS
    Symbols = {s1, s2}
    MaxDays = 2
    MaxOpen = 1
    None = None
SPECIFICATION Spec
INVARIANT IInv
INVARIANT SweptStaysQuiet
INVARIANT OneEntryPerSession
PROPERTY IsBracket
CHECK_DEADLOCK TRUE
