SPECIFICATION Spec
CONSTANTS
    Tasks = {t1, t2, t3}
    FailureThreshold = 2
    WindowSize = 2
    ResetTimeout = 1
    SuccessThreshold = 2
    HalfOpenMaxCalls = 1
    Limit = 1
    MaxQueue = 2
    Attempts = 2
SYMMETRY Symmetry
INVARIANTS
    TypeOK
    NoProbeLeak
    SlotsConserved
    ProbesWithinLimit
    RepeatsAreSafe
    NothingHeldInBackoff
PROPERTIES
    ImplementsSemaphore
