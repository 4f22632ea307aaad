SPECIFICATION LiveSpec
CONSTANTS
    Clients = {c1, c2}
    TTL = 1
    RenewInterval = 0
    WaitTimeout = 1
    MaxClock = 2
    MaxCounter = 2
    MaxOrphans = 1
    Consumers = {s1, s2}
    BatchSize = 2
    ClaimBatch = 2
    MinIdle = 1
    MaxDeliveries = 1
    MaxLen = 1
    MaxEntries = 2
    MaxStreamFaults = 1
INVARIANTS
    StreamsTypeOK
    StreamNothingLost
PROPERTIES
    AcquireTerminates
    StreamSettles
CHECK_DEADLOCK FALSE
