SPECIFICATION FairSpec
CONSTANTS
    Events = {e1, p1, p2}
    Relays = {r1, r2}
    Subscribers = {s1, s2}
    Wants <- AllWantAll
    Undecodable = {p1, p2}
    BatchSize = 2
    MaxDelay = 1
    MaxFaults = 2
INVARIANTS
    TypeOK
    DeliveredToAll
    OnlyCommitted
    RepeatsAreExplained
PROPERTIES
    PoisonDoesNotStarve
CHECK_DEADLOCK FALSE
