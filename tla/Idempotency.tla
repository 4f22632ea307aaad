----------------------------- MODULE Idempotency -----------------------------
(***************************************************************************)
(* One idempotency key: IdempotencyMiddleware (src/middleware/              *)
(* idempotency.py) over RedisIdempotencyStore (src/idempotency/             *)
(* redis_store.py).  Several requests carry the key, at once or as retries. *)
(*                                                                         *)
(* Each store call is a command sent to Redis, which runs it at some later  *)
(* point.  A request that stops waiting (RedisError, a cancellation, the    *)
(* release timeout, a crash) leaves its command behind: it may have run,    *)
(* may never run, or may run `late`.                                        *)
(***************************************************************************)
EXTENDS Integers, FiniteSets

CONSTANTS
    Requests,         \* slots for requests carrying the key
    Payloads,         \* what they ask for; request_fingerprint tells them apart
    NoRequest,
    ReservationTTL, RecordTTL,
    ReserveAttempts,  \* _RESERVE_ATTEMPTS
    FailOpen          \* IdempotencyConfig.fail_open

ASSUME TTLAssumption == ReservationTTL \in Nat \ {0} /\ RecordTTL \in Nat \ {0}
ASSUME AttemptsAssumption == ReserveAttempts \in Nat \ {0}
ASSUME FailOpenAssumption == FailOpen \in BOOLEAN
ASSUME NoRequestAssumption == NoRequest \notin Requests

VARIABLES
    record,   \* what the store holds: absent, a reservation, a response, or a
              \* record of an earlier release that decode_record cannot read
    ttl,      \* its time to live
    owner,    \* history: the request whose reservation it is
    pc,       \* where each request awaits
    payload,  \* what it asks for
    tries,    \* its passes through the loop of reserve
    late,     \* the command it left behind
    replay,   \* the payload whose response it was last answered with
    excused   \* history: a reservation ran out under its request, or a record of
              \* an earlier release was overwritten

vars == <<record, ttl, owner, pc, payload, tries, late, replay, excused>>

\* The commands: SET NX, GET, SET of a reservation, SET of a response, DEL.
Commands == {"reserve", "read", "overwrite", "complete", "release"}
Absent == [state |-> "absent", of |-> {}]
Foreign == [state |-> "foreign", of |-> {}]
Reserved(p) == [state |-> "reserved", of |-> {p}]
Stored(p) == [state |-> "stored", of |-> {p}]
Nothing == [op |-> "nothing", of |-> {}]

TypeOK ==
    /\ record \in {Absent, Foreign} \cup {Reserved(p) : p \in Payloads}
                                    \cup {Stored(p) : p \in Payloads}
    /\ ttl \in 0..(ReservationTTL + RecordTTL)
    /\ (ttl = 0) <=> (record = Absent)
    /\ owner \in Requests \cup {NoRequest}
    /\ pc \in [Requests -> Commands \cup {"idle", "executing", "unprotected"}]
    /\ payload \in [Requests -> Payloads]
    /\ tries \in [Requests -> 0..ReserveAttempts]
    /\ late \in [Requests -> {Nothing} \cup [op : Commands, of : {{p} : p \in Payloads}]]
    /\ replay \in [Requests -> SUBSET Payloads]
    /\ excused \in BOOLEAN

Init ==
    /\ \/ record = Absent /\ ttl = 0
       \/ record = Foreign /\ ttl = RecordTTL
    /\ owner = NoRequest
    /\ pc = [r \in Requests |-> "idle"]
    /\ payload \in {[r \in Requests |-> p] : p \in Payloads}
    /\ tries = [r \in Requests |-> 0]
    /\ late = [r \in Requests |-> Nothing]
    /\ replay = [r \in Requests |-> {}]
    /\ excused = FALSE

-----------------------------------------------------------------------------
(* What a command does to the store.                                       *)

Put(rec, life, r) == record' = rec /\ ttl' = life /\ owner' = r

\* mutant: get-then-set, so that a reservation does not stop a second one.
ClaimsReserved == record.state # "stored"

\* mutant: a stored response does not stop a reservation.
ClaimsStored == record.state # "reserved"

\* Whether NX lets a claim through.
Claimable == record = Absent

\* SET name payload NX EX reservation_ttl.
SetNX(r, p) ==
    IF Claimable THEN Put(Reserved(p), ReservationTTL, r)
                       ELSE UNCHANGED <<record, ttl, owner>>

\* The command of kind `op` about payload p runs for request r.
Run(op, p, r) ==
    CASE op = "reserve" -> SetNX(r, p)
      [] op = "read" -> UNCHANGED <<record, ttl, owner>>
      [] op = "overwrite" -> Put(Reserved(p), ReservationTTL, r)
      [] op = "complete" -> Put(Stored(p), RecordTTL, NoRequest)
      [] op = "release" -> Put(Absent, 0, NoRequest)

GoTo(r, place) == pc' = [pc EXCEPT ![r] = place]

\* The request is answered, or gone.
Leave(r) == GoTo(r, "idle") /\ tries' = [tries EXCEPT ![r] = 0]

-----------------------------------------------------------------------------
(* __call__ up to the answer of reserve.                                   *)

Arrive(r) ==
    /\ pc[r] = "idle" /\ late[r] = Nothing
    /\ GoTo(r, "reserve")
    /\ \E p \in Payloads : payload' = [payload EXCEPT ![r] = p]
    /\ tries' = [tries EXCEPT ![r] = 1]
    /\ replay' = [replay EXCEPT ![r] = {}]
    /\ UNCHANGED <<record, ttl, owner, late, excused>>

Reserve(r) ==
    /\ pc[r] = "reserve"
    /\ Run("reserve", payload[r], r)
    /\ GoTo(r, IF Claimable THEN "executing" ELSE "read")
    /\ UNCHANGED <<payload, tries, late, replay, excused>>

\* mutant: a stored response is replayed to any payload.
ReplaysToAny(r) == record.state = "stored"

\* _handle_existing: only a stored response to the same payload is replayed, every
\* other readable record is answered with 409 or 422.
Replays(r) == record.state = "stored" /\ payload[r] \in record.of

\* The GET that follows a refused claim, and what the middleware does with it.
Read(r) ==
    /\ pc[r] = "read"
    /\ \/ /\ record = Absent /\ tries[r] < ReserveAttempts
          /\ GoTo(r, "reserve") /\ tries' = [tries EXCEPT ![r] = @ + 1]
          /\ UNCHANGED replay
       \/ /\ record = Absent /\ tries[r] = ReserveAttempts
          /\ IF FailOpen THEN GoTo(r, "unprotected") /\ UNCHANGED tries ELSE Leave(r)
          /\ UNCHANGED replay
       \/ record = Foreign /\ GoTo(r, "overwrite") /\ UNCHANGED <<tries, replay>>
       \/ /\ record \notin {Absent, Foreign} /\ Leave(r)
          /\ replay' = [replay EXCEPT ![r] = IF Replays(r) THEN record.of ELSE {}]
    /\ UNCHANGED <<record, ttl, owner, payload, late, excused>>

Overwrite(r) ==
    /\ pc[r] = "overwrite"
    /\ Run("overwrite", payload[r], r)
    /\ GoTo(r, "executing")
    /\ excused' = TRUE
    /\ UNCHANGED <<payload, tries, late, replay>>

-----------------------------------------------------------------------------
(* _execute.                                                               *)

\* mutant: a retryable status just ends.
ForgetsRelease(final) == IF final THEN "complete" ELSE "idle"

\* A final response is stored; a retryable status, a response over the cap or one
\* never finished, and any exception, a cancellation included, free the key.
AfterResponse(final) == IF final THEN "complete" ELSE "release"

Respond(r, final) ==
    /\ pc[r] = "executing"
    /\ GoTo(r, AfterResponse(final))
    /\ UNCHANGED <<record, ttl, owner, payload, tries, late, replay, excused>>

\* The command that ends the execution runs and is confirmed.
Conclude(r) ==
    /\ pc[r] \in {"complete", "release"}
    /\ Run(pc[r], payload[r], r)
    /\ Leave(r)
    /\ UNCHANGED <<payload, late, replay, excused>>

\* fail_open runs the route without a reservation.
UnprotectedEnds(r) ==
    /\ pc[r] = "unprotected"
    /\ Leave(r)
    /\ UNCHANGED <<record, ttl, owner, payload, late, replay, excused>>

\* RedisError, a cancellation at the await, the timeout of finalize, or the death of
\* the process: nobody waits for the command any more.  Only RedisError out of
\* reserve can go on, when fail_open is set.
Abandon(r) ==
    /\ pc[r] \in Commands
    /\ \/ /\ late' = [late EXCEPT ![r] = [op |-> pc[r], of |-> {payload[r]}]]
          /\ UNCHANGED owner
       \/ owner' = (IF owner = r THEN NoRequest ELSE owner) /\ UNCHANGED late
    /\ \/ Leave(r)
       \/ /\ FailOpen /\ pc[r] \in {"reserve", "read", "overwrite"}
          /\ GoTo(r, "unprotected") /\ UNCHANGED tries
    /\ UNCHANGED <<record, ttl, payload, replay, excused>>

\* The process dies inside the route.
Crash(r) ==
    /\ pc[r] \in {"executing", "unprotected"}
    /\ Leave(r)
    /\ owner' = IF owner = r THEN NoRequest ELSE owner
    /\ UNCHANGED <<record, ttl, payload, late, replay, excused>>

\* Redis runs a command nobody waits for.
Late(r) ==
    /\ late[r] # Nothing
    /\ \E p \in late[r].of : Run(late[r].op, p, NoRequest)
    /\ late' = [late EXCEPT ![r] = Nothing]
    /\ excused' = (excused \/ late[r].op = "overwrite")
    /\ UNCHANGED <<pc, payload, tries, replay>>

\* r still has something to do with the reservation it made.
Unfinished(r) ==
    r # NoRequest /\ (pc[r] \in {"executing", "complete", "release"}
                      \/ late[r].op \in {"complete", "release"})

\* mutant: an expired record is still found.
NeverExpires == FALSE

Expires == ttl = 1

Tick ==
    /\ ttl > 0
    /\ ttl' = ttl - 1
    /\ IF Expires
       THEN /\ record' = Absent /\ owner' = NoRequest
            /\ excused' = (excused \/ Unfinished(owner))
       ELSE UNCHANGED <<record, owner, excused>>
    /\ UNCHANGED <<pc, payload, tries, late, replay>>

RequestStep(r) ==
    \/ Arrive(r) \/ Reserve(r) \/ Read(r) \/ Overwrite(r)
    \/ Respond(r, TRUE) \/ Respond(r, FALSE) \/ Conclude(r) \/ UnprotectedEnds(r)
    \/ Abandon(r) \/ Crash(r) \/ Late(r)

Next == Tick \/ \E r \in Requests : RequestStep(r)

Spec == Init /\ [][Next]_vars

-----------------------------------------------------------------------------
Executing == {r \in Requests : pc[r] = "executing"}

\* The route runs for one request at a time and never beside a stored response,
\* unless a reservation ran out under its request (docs/idempotency.md, "Two TTLs")
\* or a record of an earlier release was replaced.
RunsOnce ==
    ~excused => /\ Cardinality(Executing) <= 1
                /\ record.state = "stored" => Executing = {}

\* Every reservation is one that somebody is still going to complete or release; only
\* the death of its request, or a command Redis never got, leaves it to its TTL.
ReservationsAreConcluded ==
    record.state = "reserved" => owner = NoRequest \/ Unfinished(owner)

\* A replayed response is the answer to the payload that asked for it.
ReplaysOwnPayload == \A r \in Requests : replay[r] \subseteq {payload[r]}

\* A stored response stays replayable for its whole lifetime, with the same excuses.
StoredIsKept ==
    [][record.state = "stored" /\ ttl > 1 /\ ~excused' => record' = record]_vars
=============================================================================
