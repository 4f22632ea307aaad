SPECIFICATION Spec
CONSTANTS
    Clients = {c1}
    TTL = 2
    RenewInterval = 1
    WaitTimeout = 0
    MaxClock = 2
    MaxCounter = 1
    MaxOrphans = 1
INVARIANTS
    CancellationReachesCaller
CHECK_DEADLOCK FALSE
