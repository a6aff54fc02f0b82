CONSTANTS
    stateGuard = stateGuard
    webGuard = webGuard
    telegram = telegram
    web = web
    None = None
    Jobs = {j1}
    Orders = {o1}
    Guards <- MCGuards
    Commands <- MCCommands
    GuardOf <- MCGuardOf
    MaxFaults = 0
    MaxCrashes = 0
    ShellUser = FALSE
SPECIFICATION Spec
PROPERTY ResumeUnblocks
