SPECIFICATION Spec
CONSTANTS
    Requests = {r1, r2, r3}
    Payloads = {p1, p2}
    NoRequest = NoRequest
    ReservationTTL = 2
    RecordTTL = 3
    ReserveAttempts = 2
    FailOpen = TRUE
INVARIANTS
    TypeOK
    RunsOnce
    ReservationsAreConcluded
    ReplaysOwnPayload
PROPERTIES
    StoredIsKept
