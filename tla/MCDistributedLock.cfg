SPECIFICATION Spec
CONSTANTS
    Clients = {c1, c2}
    TTL = 2
    RenewInterval = 1
    WaitTimeout = 1
    MaxClock = 3
    MaxCounter = 2
    MaxOrphans = 1
SYMMETRY Symmetry
INVARIANTS
    TypeOK
    MutualExclusion
    LeaseIsBacked
    CleanExitWasExclusive
    LossIsReal
CHECK_DEADLOCK FALSE
