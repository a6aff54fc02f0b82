CONSTANTS
    stateGuard = stateGuard
    webGuard = webGuard
    telegram = telegram
    web = web
    None = None
    Jobs = {j1, j2}
    Orders = {o1, o2}
    Guards <- MCGuards
    Commands <- MCCommands
    GuardOf <- MCGuardOf
    MaxFaults = 1
    MaxCrashes = 1
    ShellUser = TRUE
SPECIFICATION FairSpec
INVARIANT FenceHolds
INVARIANT StragglerBound
INVARIANT AuditGap
INVARIANT IInv
PROPERTY CommandCancels
