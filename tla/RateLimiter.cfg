CONSTANTS
    Threads = {t1, t2}
    None = None
    MaxCalls = 2
    Per = 3
    Budget = 5
    MaxClock = 5
SPECIFICATION FairSpec
INVARIANT WindowBound
INVARIANT JustLongEnough
INVARIANT IInv
INVARIANT MessageBound
PROPERTY EveryCallGranted
CHECK_DEADLOCK FALSE
