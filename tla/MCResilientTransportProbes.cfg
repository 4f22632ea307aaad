SPECIFICATION Spec
CONSTANTS
    Tasks = {t1, t2, t3}
    FailureThreshold = 1
    WindowSize = 1
    ResetTimeout = 1
    SuccessThreshold = 1
    HalfOpenMaxCalls = 2
    Limit = 3
    MaxQueue = 0
    Attempts = 1
SYMMETRY Symmetry
INVARIANTS
    ProbesWithinLimit
