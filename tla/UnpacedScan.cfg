CONSTANTS
    Threads = {t1, t2}
    None = None
    MaxCalls = 2
    Per = 3
    Budget = 5
    MaxClock = 5
SPECIFICATION WithScans
INVARIANT MessageBound
CHECK_DEADLOCK FALSE
