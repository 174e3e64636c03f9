SPECIFICATION SuperSpec
CONSTANTS
    Accounts = {a1, a2}
    IdleTime = 4
    RefreshEvery = 2
    FirstBackoff = 2
    Ceiling = 3
    RunFaults <- EveryRunFault
    MaxRunFaults = 2
INVARIANTS SupervisorTypeOK OneGoroutine WatchedWasActive SeenInTime
PROPERTY MailGetsSeen
