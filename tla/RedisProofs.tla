------------------------------ MODULE RedisProofs ------------------------------
(***************************************************************************)
(* Proofs about two components that keep their state in Redis and share      *)
(* none of it.                                                               *)
(*                                                                         *)
(* Idempotency: its invariants, and StoredIsKept, for any number of requests, *)
(* payloads and attempts and for any two lifetimes.  RunsOnce is not         *)
(* inductive: that two requests do not execute at once rests on each of them *)
(* owning the one reservation, which a request keeps until the command that  *)
(* concludes it has run, late or not.                                        *)
(*                                                                         *)
(* RedisStreams: the consumer group of a stream, for every number of         *)
(* processes, every batch size, idle time, delivery cap and trimming, and    *)
(* any number of faults.  ServerInv is about the server's books: what is no   *)
(* longer in the stream was given up, without a group everything was, and no *)
(* entry is lost.  CycleInv is about the runners: what a cycle will          *)
(* acknowledge has been handled or copied aside, where the cap on the dead   *)
(* letters may delete it again, and a consumer about to be removed owes      *)
(* nothing.                                                                  *)
(***************************************************************************)
EXTENDS FiniteSetTheorems, TLAPS, Idempotency, RedisStreams

-----------------------------------------------------------------------------
(* The reservation of an idempotency key.                                  *)

\* r has still to conclude the reservation it made, itself or by a command it left behind.
Concludes(r) ==
    \/ pc[r] \in {"executing", "complete", "release"}
    \/ late[r].op \in {"complete", "release"}

\* A request leaves one command behind, and only when it has stopped waiting.
LeftBehind ==
    \A r \in Requests :
        /\ late[r] # Nothing => pc[r] \in {"idle", "unprotected"}
        /\ pc[r] = "unprotected" => late[r].op \notin {"complete", "release"}

\* A reservation with an owner is one its owner will conclude.
OwnersConclude ==
    owner # NoRequest => record.state = "reserved" /\ Concludes(owner)

\* Unless excused, whoever has something to conclude owns the reservation.
ConcludersOwn ==
    ~excused => \A r \in Requests : Concludes(r) => record.state = "reserved" /\ owner = r

RecordInv == TypeOK /\ LeftBehind /\ OwnersConclude /\ ConcludersOwn /\ ReplaysOwnPayload

-----------------------------------------------------------------------------
(* Proofs.                                                                 *)

USE TTLAssumption, AttemptsAssumption, FailOpenAssumption, NoRequestAssumption
    DEF Absent, Foreign, Reserved, Stored, Nothing, Commands

\* The invariant holds initially.
LEMMA InitRecordInv == Init => RecordInv
  <1> SUFFICES ASSUME Init  PROVE RecordInv
    BY Zenon
  <1>1. TypeOK
    <2>1. payload \in [Requests -> Payloads]
      BY Zenon DEF Init
    <2>2. late \in [Requests -> {Nothing} \cup [op : Commands, of : {{p} : p \in Payloads}]]
      BY Zenon DEF Init
    <2>3. ttl \in 0..(ReservationTTL + RecordTTL) /\ ((ttl = 0) <=> (record = Absent))
      BY DEF Init
    <2>4. record \in {Absent, Foreign} /\ excused \in BOOLEAN /\ owner = NoRequest
      BY Zenon DEF Init
    <2>5. /\ pc \in [Requests -> Commands \cup {"idle", "executing", "unprotected"}]
          /\ tries \in [Requests -> 0..ReserveAttempts]
          /\ replay \in [Requests -> SUBSET Payloads]
      BY DEF Init
    <2> QED BY Zenon, <2>1, <2>2, <2>3, <2>4, <2>5 DEF TypeOK
  <1>2. LeftBehind /\ OwnersConclude /\ ReplaysOwnPayload
    BY Zenon DEF Init, LeftBehind, OwnersConclude, ReplaysOwnPayload
  <1>3. ConcludersOwn
    BY Zenon DEF Init, ConcludersOwn, Concludes
  <1> QED BY Zenon, <1>1, <1>2, <1>3 DEF RecordInv

\* What a command leaves in the store is well typed.
LEMMA RunTyped ==
    ASSUME TypeOK, NEW op \in Commands, NEW p \in Payloads, NEW r \in Requests \cup {NoRequest},
           Run(op, p, r)
    PROVE  /\ record' \in {Absent, Foreign} \cup {Reserved(q) : q \in Payloads}
                                             \cup {Stored(q) : q \in Payloads}
           /\ ttl' \in 0..(ReservationTTL + RecordTTL)
           /\ (ttl' = 0) <=> (record' = Absent)
           /\ owner' \in Requests \cup {NoRequest}
  <1>1. CASE op = "reserve"
    BY <1>1 DEF Run, SetNX, Claimable, Put, TypeOK
  <1>2. CASE op = "read"
    BY Zenon, <1>2 DEF Run, TypeOK
  <1>3. CASE op = "overwrite"
    BY <1>3 DEF Run, Put
  <1>4. CASE op = "complete"
    BY <1>4 DEF Run, Put
  <1>5. CASE op = "release"
    BY <1>5 DEF Run, Put
  <1> QED BY Zenon, <1>1, <1>2, <1>3, <1>4, <1>5

\* A request that arrives has nothing to conclude yet.
LEMMA ArriveStep ==
    ASSUME RecordInv, NEW r \in Requests, Arrive(r)
    PROVE  RecordInv'
  <1> USE DEF RecordInv
  <1>1. TypeOK'
    BY DEF Arrive, GoTo, TypeOK
  <1>2. LeftBehind'
    BY Zenon DEF Arrive, GoTo, LeftBehind, TypeOK
  <1>3. OwnersConclude'
    BY Zenon DEF Arrive, GoTo, OwnersConclude, Concludes, LeftBehind, TypeOK
  <1>4. ConcludersOwn'
    BY Zenon DEF Arrive, GoTo, ConcludersOwn, OwnersConclude, Concludes, LeftBehind, TypeOK
  <1>5. ReplaysOwnPayload'
    BY Zenon DEF Arrive, GoTo, ReplaysOwnPayload, TypeOK
  <1> QED BY Zenon, <1>1, <1>2, <1>3, <1>4, <1>5

\* Whoever claims the key owns the reservation and has to conclude it.
LEMMA ReserveStep ==
    ASSUME RecordInv, NEW r \in Requests, Reserve(r)
    PROVE  RecordInv'
  <1> USE DEF RecordInv
  <1>1. TypeOK'
    BY DEF Reserve, Run, SetNX, Claimable, Put, GoTo, TypeOK
  <1>2. LeftBehind'
    BY Zenon DEF Reserve, Run, SetNX, Claimable, Put, GoTo, LeftBehind, TypeOK
  <1>3. OwnersConclude'
    BY DEF Reserve, Run, SetNX, Claimable, Put, GoTo, OwnersConclude, Concludes, LeftBehind, TypeOK
  <1>4. ConcludersOwn'
    BY DEF Reserve, Run, SetNX, Claimable, Put, GoTo, ConcludersOwn, OwnersConclude, Concludes, LeftBehind, TypeOK
  <1>5. ReplaysOwnPayload'
    BY Zenon DEF Reserve, Run, SetNX, Claimable, Put, GoTo, ReplaysOwnPayload, TypeOK
  <1> QED BY Zenon, <1>1, <1>2, <1>3, <1>4, <1>5

\* A refused claim changes nothing in the store, and replays only to its own payload.
LEMMA ReadStep ==
    ASSUME RecordInv, NEW r \in Requests, Read(r)
    PROVE  RecordInv'
  <1> USE DEF RecordInv
  <1>1. TypeOK'
    BY DEF Read, Replays, Leave, GoTo, TypeOK
  <1>2. LeftBehind'
    BY DEF Read, Replays, Leave, GoTo, LeftBehind, TypeOK
  <1>3. OwnersConclude'
    BY Zenon DEF Read, Replays, Leave, GoTo, OwnersConclude, Concludes, LeftBehind, TypeOK
  <1>4. ConcludersOwn'
    BY Zenon DEF Read, Replays, Leave, GoTo, ConcludersOwn, OwnersConclude, Concludes, LeftBehind, TypeOK
  <1>5. ReplaysOwnPayload'
    BY DEF Read, Replays, Leave, GoTo, ReplaysOwnPayload, TypeOK
  <1> QED BY Zenon, <1>1, <1>2, <1>3, <1>4, <1>5

\* Replacing a record of an earlier release is one of the excuses.
LEMMA OverwriteStep ==
    ASSUME RecordInv, NEW r \in Requests, Overwrite(r)
    PROVE  RecordInv'
  <1> USE DEF RecordInv
  <1>1. TypeOK'
    BY DEF Overwrite, Run, Put, GoTo, TypeOK
  <1>2. LeftBehind'
    BY Zenon DEF Overwrite, Run, Put, GoTo, LeftBehind, TypeOK
  <1>3. OwnersConclude'
    BY DEF Overwrite, Run, Put, GoTo, OwnersConclude, Concludes, LeftBehind, TypeOK
  <1>4. ConcludersOwn'
    BY Zenon DEF Overwrite, Run, Put, GoTo, ConcludersOwn, OwnersConclude, Concludes, LeftBehind, TypeOK
  <1>5. ReplaysOwnPayload'
    BY Zenon DEF Overwrite, Run, Put, GoTo, ReplaysOwnPayload, TypeOK
  <1> QED BY Zenon, <1>1, <1>2, <1>3, <1>4, <1>5

\* The response decides how the reservation is concluded, not whether.
LEMMA RespondStep ==
    ASSUME RecordInv, NEW r \in Requests, NEW final \in BOOLEAN, Respond(r, final)
    PROVE  RecordInv'
  <1> USE DEF RecordInv
  <1>1. TypeOK'
    BY Zenon DEF Respond, AfterResponse, GoTo, TypeOK
  <1>2. LeftBehind'
    BY Zenon DEF Respond, AfterResponse, GoTo, LeftBehind, TypeOK
  <1>3. OwnersConclude'
    BY Zenon DEF Respond, AfterResponse, GoTo, OwnersConclude, Concludes, LeftBehind, TypeOK
  <1>4. ConcludersOwn'
    BY Zenon DEF Respond, AfterResponse, GoTo, ConcludersOwn, OwnersConclude, Concludes, LeftBehind, TypeOK
  <1>5. ReplaysOwnPayload'
    BY Zenon DEF Respond, AfterResponse, GoTo, ReplaysOwnPayload, TypeOK
  <1> QED BY Zenon, <1>1, <1>2, <1>3, <1>4, <1>5

\* The concluding command ends the reservation of its own request.
LEMMA ConcludeStep ==
    ASSUME RecordInv, NEW r \in Requests, Conclude(r)
    PROVE  RecordInv'
  <1> USE DEF RecordInv
  <1>1. TypeOK'
    <2>1. pc[r] \in Commands /\ payload[r] \in Payloads
      BY Zenon DEF Conclude, TypeOK
    <2> QED BY <2>1, RunTyped DEF Conclude, Leave, GoTo, TypeOK
  <1>2. LeftBehind'
    BY Zenon DEF Conclude, Run, Put, Leave, GoTo, LeftBehind, TypeOK
  <1>3. OwnersConclude'
    BY Zenon DEF Conclude, Run, Put, Leave, GoTo, OwnersConclude, Concludes, LeftBehind, TypeOK
  <1>4. ConcludersOwn'
    BY DEF Conclude, Run, Put, Leave, GoTo, ConcludersOwn, OwnersConclude, Concludes, LeftBehind, TypeOK
  <1>5. ReplaysOwnPayload'
    BY Zenon DEF Conclude, Run, Put, Leave, GoTo, ReplaysOwnPayload, TypeOK
  <1> QED BY Zenon, <1>1, <1>2, <1>3, <1>4, <1>5

\* A request that ran without a reservation leaves none.
LEMMA UnprotectedEndsStep ==
    ASSUME RecordInv, NEW r \in Requests, UnprotectedEnds(r)
    PROVE  RecordInv'
  <1> USE DEF RecordInv
  <1>1. TypeOK'
    BY DEF UnprotectedEnds, Leave, GoTo, TypeOK
  <1>2. LeftBehind'
    BY Zenon DEF UnprotectedEnds, Leave, GoTo, LeftBehind, TypeOK
  <1>3. OwnersConclude'
    BY Zenon DEF UnprotectedEnds, Leave, GoTo, OwnersConclude, Concludes, LeftBehind, TypeOK
  <1>4. ConcludersOwn'
    BY Zenon DEF UnprotectedEnds, Leave, GoTo, ConcludersOwn, OwnersConclude, Concludes, LeftBehind, TypeOK
  <1>5. ReplaysOwnPayload'
    BY Zenon DEF UnprotectedEnds, Leave, GoTo, ReplaysOwnPayload, TypeOK
  <1> QED BY Zenon, <1>1, <1>2, <1>3, <1>4, <1>5

\* A command left behind still concludes what its request reserved; one that never ran
\* leaves the reservation without an owner.
LEMMA AbandonStep ==
    ASSUME RecordInv, NEW r \in Requests, Abandon(r)
    PROVE  RecordInv'
  <1> USE DEF RecordInv
  <1>1. TypeOK'
    BY DEF Abandon, Leave, GoTo, TypeOK
  <1>2. LeftBehind'
    <2>1. pc'[r] \in {"idle", "unprotected"}
      BY Zenon DEF Abandon, Leave, GoTo, TypeOK
    <2>2. pc'[r] = "unprotected" => late'[r].op \notin {"complete", "release"}
      BY DEF Abandon, Leave, GoTo, LeftBehind, TypeOK
    <2> QED BY <2>1, <2>2, Zenon DEF Abandon, Leave, GoTo, LeftBehind, TypeOK
  <1>3. OwnersConclude'
    BY DEF Abandon, Leave, GoTo, OwnersConclude, Concludes, LeftBehind, TypeOK
  <1>4. ConcludersOwn'
    BY DEF Abandon, Leave, GoTo, ConcludersOwn, OwnersConclude, Concludes, LeftBehind, TypeOK
  <1>5. ReplaysOwnPayload'
    BY Zenon DEF Abandon, Leave, GoTo, ReplaysOwnPayload, TypeOK
  <1> QED BY Zenon, <1>1, <1>2, <1>3, <1>4, <1>5

\* The death of a request leaves its reservation without an owner.
LEMMA CrashStep ==
    ASSUME RecordInv, NEW r \in Requests, Crash(r)
    PROVE  RecordInv'
  <1> USE DEF RecordInv
  <1>1. TypeOK'
    BY DEF Crash, Leave, GoTo, TypeOK
  <1>2. LeftBehind'
    BY Zenon DEF Crash, Leave, GoTo, LeftBehind, TypeOK
  <1>3. OwnersConclude'
    BY Zenon DEF Crash, Leave, GoTo, OwnersConclude, Concludes, LeftBehind, TypeOK
  <1>4. ConcludersOwn'
    BY DEF Crash, Leave, GoTo, ConcludersOwn, OwnersConclude, Concludes, LeftBehind, TypeOK
  <1>5. ReplaysOwnPayload'
    BY Zenon DEF Crash, Leave, GoTo, ReplaysOwnPayload, TypeOK
  <1> QED BY Zenon, <1>1, <1>2, <1>3, <1>4, <1>5

\* A command left behind does what it would have done in time, for nobody.
LEMMA LateStep ==
    ASSUME RecordInv, NEW r \in Requests, Late(r)
    PROVE  RecordInv'
  <1> USE DEF RecordInv
  <1>1. PICK p \in Payloads : late[r].of = {p} /\ late[r].op \in Commands
    BY DEF Late, TypeOK
  <1>2. Run(late[r].op, p, NoRequest)
    BY Zenon, <1>1 DEF Late
  <1>3. TypeOK'
    <2>1. excused' \in BOOLEAN
      BY Zenon DEF Late, TypeOK
    <2>2. late' \in [Requests -> {Nothing} \cup [op : Commands, of : {{q} : q \in Payloads}]]
      BY Zenon DEF Late, TypeOK
    <2> QED BY Zenon, <1>1, <1>2, <2>1, <2>2, RunTyped DEF Late, TypeOK
  <1>4. LeftBehind'
    BY Zenon DEF Late, LeftBehind, TypeOK
  <1>5. late'[r].op = "nothing" /\ \A q \in Requests \ {r} : late'[q] = late[q]
    BY Zenon DEF Late, TypeOK
  <1>6. CASE late[r].op \in {"complete", "release"}
    <2>1. owner' = NoRequest
      BY <1>2, <1>6, Zenon DEF Run, Put
    <2>2. OwnersConclude'
      BY Zenon, <2>1 DEF OwnersConclude
    <2>3. ConcludersOwn'
      BY <1>5, <1>6 DEF Late, ConcludersOwn, Concludes, LeftBehind, TypeOK
    <2> QED BY Zenon, <1>3, <1>4, <2>2, <2>3 DEF Late, ReplaysOwnPayload
  <1>7. CASE late[r].op = "read"
    <2>1. UNCHANGED <<record, owner>>
      BY Zenon, <1>2, <1>7 DEF Run
    <2> QED BY Zenon, <1>3, <1>4, <1>5, <1>7, <2>1 DEF Late, OwnersConclude, ConcludersOwn,
       Concludes, ReplaysOwnPayload, TypeOK
  <1>8. CASE late[r].op = "reserve"
    <2>1. \/ UNCHANGED <<record, owner>>
          \/ record = Absent /\ owner' = NoRequest
      BY Zenon, <1>2, <1>8 DEF Run, SetNX, Claimable, Put
    <2> QED BY <1>3, <1>4, <1>5, <1>8, <2>1 DEF Late, OwnersConclude, ConcludersOwn,
       Concludes, ReplaysOwnPayload, TypeOK
  <1>9. CASE late[r].op = "overwrite"
    <2>1. owner' = NoRequest /\ excused'
      BY <1>2, <1>9, Zenon DEF Late, Run, Put
    <2> QED BY Zenon, <1>3, <1>4, <2>1 DEF Late, OwnersConclude, ConcludersOwn, ReplaysOwnPayload
  <1> QED BY Zenon, <1>1, <1>6, <1>7, <1>8, <1>9

\* A reservation that runs out under its request is the other excuse.
LEMMA TickStep ==
    ASSUME RecordInv, Tick
    PROVE  RecordInv'
  <1> USE DEF RecordInv
  <1>1. TypeOK'
    <2>1. excused' \in BOOLEAN
      BY Zenon DEF Tick, TypeOK
    <2>2. ttl' \in 0..(ReservationTTL + RecordTTL) /\ ((ttl' = 0) <=> (record' = Absent))
      BY DEF Tick, Expires, TypeOK
    <2> QED BY Zenon, <2>1, <2>2 DEF Tick, TypeOK
  <1>2. LeftBehind'
    BY Zenon DEF Tick, Expires, Unfinished, LeftBehind, TypeOK
  <1>3. OwnersConclude'
    BY Zenon DEF Tick, Expires, Unfinished, OwnersConclude, Concludes, LeftBehind, TypeOK
  <1>4. ConcludersOwn'
    BY Zenon DEF Tick, Expires, Unfinished, ConcludersOwn, OwnersConclude, Concludes, LeftBehind, TypeOK
  <1>5. ReplaysOwnPayload'
    BY Zenon DEF Tick, Expires, Unfinished, ReplaysOwnPayload, TypeOK
  <1> QED BY Zenon, <1>1, <1>2, <1>3, <1>4, <1>5

\* A step that changes nothing preserves the invariant.
LEMMA StutterStep == RecordInv /\ UNCHANGED vars => RecordInv'
  BY DEF vars, RecordInv, TypeOK, LeftBehind, OwnersConclude, ConcludersOwn, Concludes,
     ReplaysOwnPayload

\* Every step of a request, of a command left behind or of the clock preserves the
\* invariant.
LEMMA NextRecordInv == RecordInv /\ [Next]_vars => RecordInv'
  <1> SUFFICES ASSUME RecordInv, [Next]_vars  PROVE RecordInv'
    BY Zenon
  <1>1. ASSUME NEW r \in Requests, RequestStep(r)  PROVE RecordInv'
    BY Zenon, <1>1, ArriveStep, ReserveStep, ReadStep, OverwriteStep, RespondStep, ConcludeStep,
       UnprotectedEndsStep, AbandonStep, CrashStep, LateStep DEF RequestStep
  <1>2. CASE Tick
    BY Zenon, <1>2, TickStep
  <1>3. CASE UNCHANGED vars
    BY Zenon, <1>3, StutterStep
  <1> QED BY Zenon, <1>1, <1>2, <1>3 DEF Next

\* Along every behaviour the invariant holds.
THEOREM RecordInvariance == Spec => []RecordInv
  BY InitRecordInv, NextRecordInv, PTL DEF Spec

\* The record, its lifetime and every request's place keep their types.
THEOREM TypeCorrect == Spec => []TypeOK
  <1>1. RecordInv => TypeOK
    BY Zenon DEF RecordInv
  <1> QED BY <1>1, RecordInvariance, PTL

\* However many requests carry the key, and whatever is lost, late or crashed, the route
\* runs for one of them at a time and never beside a stored response, with the two
\* excuses RunsOnce names.
THEOREM RunsAreExclusive == Spec => []RunsOnce
  <1>1. RecordInv => RunsOnce
    <2> SUFFICES ASSUME RecordInv, ~excused
                 PROVE  /\ Cardinality(Executing) <= 1
                        /\ record.state = "stored" => Executing = {}
      BY Zenon DEF RunsOnce
    <2>1. \A r \in Executing : record.state = "reserved" /\ owner = r
      BY Zenon DEF RecordInv, ConcludersOwn, Concludes, Executing
    <2>2. CASE Executing = {}
      BY <2>2, FS_EmptySet
    <2>3. CASE Executing # {}
      <3>1. Executing = {owner}
        BY Zenon, <2>1, <2>3
      <3>2. Cardinality({owner}) = 1
        BY Zenon, FS_Singleton
      <3>3. record.state # "stored"
        BY Zenon, <2>1, <2>3
      <3> QED BY <3>1, <3>2, <3>3
    <2> QED BY Zenon, <2>2, <2>3
  <1> QED BY <1>1, RecordInvariance, PTL

\* A reservation is left to its lifetime only when its request died or its concluding
\* command never reached the store.
THEOREM ReservationsConclude == Spec => []ReservationsAreConcluded
  <1>1. RecordInv => ReservationsAreConcluded
    BY Zenon DEF RecordInv, OwnersConclude, Concludes, ReservationsAreConcluded, Unfinished
  <1> QED BY <1>1, RecordInvariance, PTL

\* No request is answered with the response to another payload.
THEOREM ReplaysMatch == Spec => []ReplaysOwnPayload
  <1>1. RecordInv => ReplaysOwnPayload
    BY Zenon DEF RecordInv
  <1> QED BY <1>1, RecordInvariance, PTL

\* A stored response is not replaced or removed by any request, late command or tick
\* before its lifetime is over, with the two excuses: nobody has anything to conclude
\* while a response is stored.
THEOREM StoredResponsesAreKept == Spec => StoredIsKept
  <1>1. RecordInv /\ [Next]_vars =>
           [record.state = "stored" /\ ttl > 1 /\ ~excused' => record' = record]_vars
    <2> SUFFICES ASSUME RecordInv, Next, record.state = "stored", ttl > 1, ~excused'
                 PROVE  record' = record
      BY Zenon
    <2> USE DEF RecordInv
    <2>1. ASSUME ~excused, NEW r \in Requests  PROVE ~Concludes(r) /\ record # Absent
      BY <2>1 DEF ConcludersOwn
    <2>2. ASSUME NEW r \in Requests, Reserve(r)  PROVE record' = record
      BY Zenon, <2>1, <2>2 DEF Reserve, Run, SetNX, Claimable
    <2>3. ASSUME NEW r \in Requests, Conclude(r)  PROVE record' = record
      BY Zenon, <2>1, <2>3 DEF Conclude, Concludes
    <2>4. ASSUME NEW r \in Requests, Late(r)  PROVE record' = record
      <3>1. ~excused /\ late[r].op \in {"reserve", "read"}
        BY Zenon, <2>1, <2>4 DEF Late, Concludes, TypeOK
      <3> QED BY <2>1, <2>4, <3>1, Zenon DEF Late, Run, SetNX, Claimable
    <2>5. CASE Tick
      BY <2>5 DEF Tick, Expires
    <2>6. ASSUME NEW r \in Requests,
                 \/ Arrive(r) \/ Read(r) \/ Overwrite(r) \/ UnprotectedEnds(r)
                 \/ Respond(r, TRUE) \/ Respond(r, FALSE) \/ Abandon(r) \/ Crash(r)
          PROVE  record' = record
      BY Zenon, <2>6 DEF Arrive, Read, Overwrite, UnprotectedEnds, Respond, Abandon, Crash
    <2> QED BY <2>2, <2>3, <2>4, <2>5, <2>6, Zenon DEF Next, RequestStep
  <1> QED BY <1>1, RecordInvariance, PTL DEF Spec, StoredIsKept

-----------------------------------------------------------------------------
(* The consumer group of a stream.                                         *)

Pending == [owner : Consumers, idle : 0..MinIdle, count : Counts]

\* Copied to the dead-letter stream, or given up.
Aside == Range(deadLetters) \cup forfeited

ServerInv ==
    /\ lastId \in 0..MaxEntries /\ entries \subseteq 1..lastId
    /\ lastDelivered \in {NoGroup} \cup (0..lastId)
    /\ DOMAIN pel \subseteq 1..lastId /\ pel \in [DOMAIN pel -> Pending]
    /\ deadLetters \in Seq(Ids) /\ undecodable \subseteq Ids
    /\ handled \subseteq Ids /\ forfeited \subseteq Ids
    /\ (1..lastId) \ entries \subseteq forfeited
    /\ lastDelivered = NoGroup => 1..lastId \subseteq forfeited /\ DOMAIN pel = {}
    /\ StreamNothingLost

\* One runner, at the place where it awaits.
OneCycle(c) ==
    /\ Len(batch[c]) <= BatchSize \/ Len(batch[c]) <= ClaimBatch
    /\ IsFiniteSet(scanned[c]) /\ Cardinality(scanned[c]) <= ClaimBatch
    /\ streamPc[c] \notin {"read", "work"} => batch[c] = <<>>
    /\ streamPc[c] = "read" => Len(batch[c]) < BatchSize
    /\ streamPc[c] = "work" => batch[c] # <<>>
    /\ acked[c] \subseteq handled \cup Aside
    /\ streamPc[c] = "remove" => Owed(c) = {}

CycleInv ==
    /\ streamPc \in [Consumers -> {"down", "cycle", "claim", "read", "work", "ack",
                                   "backoff", "retire", "remove"}]
    /\ started \in [Consumers -> BOOLEAN]
    /\ scanned \in [Consumers -> SUBSET Messages]
    /\ batch \in [Consumers -> Seq(Messages)]
    /\ acked \in [Consumers -> SUBSET Ids]
    /\ streamFaults \in 0..MaxStreamFaults
    /\ \A c \in Consumers : OneCycle(c)

IInv == ServerInv /\ CycleInv

\* A command of consumer c leaves what was set aside accounted for, and gives no
\* other consumer anything to settle.
SparesOthers(c) ==
    /\ Aside \subseteq Aside'
    /\ \A d \in Consumers : d # c => Owed(d)' \subseteq Owed(d)

-----------------------------------------------------------------------------
(* Ids and listings.                                                       *)

\* Some member of a bounded set of ids is its largest.
LEMMA LargestId ==
    ASSUME NEW n \in Nat, NEW S \in SUBSET (1..n), S # {}
    PROVE  Max(S) \in S /\ \A i \in S : i <= Max(S)
PROOF
<1> DEFINE Less == {p \in Nat \X Nat : p[1] < p[2]}
           Gaps == {g \in Nat : \E i \in S : g = n - i}
<1>1. IsWellFoundedOn(Less, Nat)
    BY ONLY NatLessThanWellFounded, Zenon DEF OpToRel
<1>2. Gaps \in SUBSET Nat /\ Gaps # {}
  <2>1. PICK i \in S : TRUE
    BY Zenon
  <2>2. n - i \in Gaps
    OBVIOUS
  <2> QED
    BY <2>2, Zenon
<1> HIDE DEF Less
<1>3. PICK g \in Gaps : \A h \in Gaps : ~(<<h, g>> \in Less)
    BY <1>1, <1>2, WFMin, Zenon
<1>4. PICK i \in S : g = n - i
    BY Zenon
<1>5. ASSUME NEW j \in S PROVE j <= i
  <2>1. n - j \in Gaps
    OBVIOUS
  <2>2. ~(n - j < g)
    <3>1. <<n - j, g>> \in Nat \X Nat /\ <<n - j, g>>[1] = n - j /\ <<n - j, g>>[2] = g
        BY Zenon, <1>2, <2>1
    <3> QED
        BY Zenon, <1>3, <2>1, <3>1 DEF Less
  <2> QED
    BY <1>4, <2>2
<1>6. \E x \in S : \A y \in S : x >= y
    BY Zenon, <1>5
<1>7. Max(S) \in S /\ \A y \in S : Max(S) >= y
    BY <1>6, Zenon DEF Max
<1> QED
    BY Zenon, <1>7

\* The oldest ids come before the others, and are no more than asked for.
LEMMA OldestIds ==
    ASSUME NEW n \in Nat, NEW S \in SUBSET (1..n), NEW k \in Nat
    PROVE  /\ Oldest(S, k) \subseteq S
           /\ \A i \in Oldest(S, k), j \in S \ Oldest(S, k) : i < j
           /\ IsFiniteSet(Oldest(S, k)) /\ Cardinality(Oldest(S, k)) <= k
PROOF
<1> DEFINE Below(i) == {j \in S : j < i}
<1>0. \A i \in S : i \in Nat
    OBVIOUS
<1>1. IsFiniteSet(S)
  <2>1. IsFiniteSet(1..n)
    BY FS_Interval
  <2> QED
    BY <2>1, FS_Subset, Zenon
<1>2. \A i \in S : IsFiniteSet(Below(i)) /\ Cardinality(Below(i)) \in Nat
    BY Zenon, <1>1, FS_Subset, FS_CardinalityType
<1>3. \A i, j \in S : i <= j => Cardinality(Below(i)) <= Cardinality(Below(j))
  <2> SUFFICES ASSUME NEW i \in S, NEW j \in S, i <= j
               PROVE  Cardinality(Below(i)) <= Cardinality(Below(j))
    BY Zenon
  <2>1. \A x \in S : x < i => x < j
    BY <1>0
  <2>2. Below(i) \in SUBSET Below(j)
    BY <2>1, Zenon
  <2> QED
    BY Zenon, <1>2, <2>2, FS_Subset
<1>4. Oldest(S, k) = {i \in S : Cardinality(Below(i)) < k}
    BY Zenon DEF Oldest
<1> HIDE DEF Below
<1>5. Oldest(S, k) \subseteq S
    BY Zenon, <1>4
<1>6. \A i \in Oldest(S, k), j \in S \ Oldest(S, k) : i < j
  <2> SUFFICES ASSUME NEW i \in Oldest(S, k), NEW j \in S \ Oldest(S, k), ~(i < j)
               PROVE  FALSE
    BY Zenon
  <2>0. i \in S /\ i \in Nat /\ j \in Nat
    BY <1>0, <1>5, Zenon
  <2>1. Cardinality(Below(i)) < k /\ ~(Cardinality(Below(j)) < k) /\ i \in S
    BY Zenon, <1>4
  <2>2. Cardinality(Below(j)) <= Cardinality(Below(i))
    BY <1>3, <2>0, <2>1
  <2> QED
    BY <1>2, <2>1, <2>2
<1>7. IsFiniteSet(Oldest(S, k))
    BY Zenon, <1>1, <1>5, FS_Subset
<1>8. Cardinality(Oldest(S, k)) <= k
  <2>1. CASE Oldest(S, k) = {}
    BY <2>1, FS_EmptySet
  <2>2. CASE Oldest(S, k) # {}
    <3> DEFINE m == Max(Oldest(S, k))
    <3>1. m \in Oldest(S, k) /\ \A i \in Oldest(S, k) : i <= m
        BY <1>5, <2>2, LargestId, Zenon
    <3>2. m \in S /\ Cardinality(Below(m)) < k
        BY Zenon, <1>4, <3>1
    <3> HIDE DEF m
    <3>3. Oldest(S, k) \in SUBSET (Below(m) \cup {m})
      <4>1. \A i \in Oldest(S, k) : i < m \/ i = m
        BY <1>0, <1>5, <3>1, <3>2
      <4> QED
        BY Zenon, <1>5, <4>1 DEF Below
    <3>4. /\ IsFiniteSet(Below(m) \cup {m})
          /\ Cardinality(Below(m) \cup {m}) <= Cardinality(Below(m)) + 1
        BY <1>2, <3>2, FS_AddElement
    <3>5. Cardinality(Oldest(S, k)) <= Cardinality(Below(m) \cup {m})
        BY Zenon, <3>3, <3>4, FS_Subset
    <3>6. /\ Cardinality(Oldest(S, k)) \in Nat /\ Cardinality(Below(m)) \in Nat
          /\ Cardinality(Below(m) \cup {m}) \in Nat
        BY Zenon, <1>2, <1>7, <3>2, <3>4, FS_CardinalityType
    <3> QED
        BY <3>2, <3>4, <3>5, <3>6
  <2> QED
    BY Zenon, <2>1, <2>2
<1> QED
    BY Zenon, <1>5, <1>6, <1>7, <1>8

\* A list of finitely many messages is as long as they are many.
LEMMA ListedMessages ==
    ASSUME NEW M \in SUBSET Messages, IsFiniteSet(M), NEW q \in Listed(M)
    PROVE  q \in Seq(Messages) /\ Len(q) = Cardinality(M)
PROOF
<1>1. Cardinality(M) \in Nat
    BY Zenon, FS_CardinalityType
<1>2. q \in Bijection(1..Cardinality(M), M)
    BY Zenon DEF Listed
<1>3. q \in [1..Cardinality(M) -> M]
    BY <1>2, Zenon DEF Bijection, Injection
<1>4. q \in [1..Cardinality(M) -> Messages]
    BY Zenon, <1>3
<1> QED
    BY <1>1, <1>4

-----------------------------------------------------------------------------
(* The server.                                                             *)

\* XADD: the new entry is in the stream, or given up at once.
LEMMA AppendEntryKeeps ==
    ASSUME ServerInv, AppendEntry
    PROVE  ServerInv'
PROOF
<1> DEFINE all == entries \cup {lastId + 1}
<1>1. PICK n : /\ entries' = all \ Oldest(all, n)
               /\ forfeited' = forfeited \cup Oldest(all, n)
                                         \cup (IF lastDelivered = NoGroup THEN {lastId + 1} ELSE {})
    BY Zenon DEF AppendEntry
<1>2. Oldest(all, n) \subseteq all
    BY Zenon DEF Oldest
<1>3. /\ lastId' = lastId + 1 /\ lastId < MaxEntries /\ lastDelivered' = lastDelivered
      /\ pel' = pel /\ deadLetters' = deadLetters /\ handled' = handled
      /\ undecodable' \in {undecodable, undecodable \cup {lastId + 1}}
    BY Zenon DEF AppendEntry
<1>4. lastId' \in 1..MaxEntries /\ lastId \in Nat /\ 1..lastId' = (1..lastId) \cup {lastId + 1}
    BY <1>3, StreamConfigAssumption DEF ServerInv
<1>5. all \subseteq 1..lastId' /\ entries' \subseteq 1..lastId' /\ 1..lastId' \subseteq Ids
  <2>1. 1..lastId' \subseteq Ids
    BY ONLY <1>4, StreamConfigAssumption DEF Ids
  <2> QED
    BY Zenon, <1>1, <1>4, <2>1 DEF ServerInv
<1> HIDE DEF all
<1>6. forfeited \subseteq forfeited' /\ forfeited' \subseteq Ids
    BY Zenon, <1>1, <1>2, <1>4, <1>5 DEF ServerInv
<1>7. lastDelivered' \in {NoGroup} \cup (0..lastId')
    BY <1>3, <1>4 DEF ServerInv, NoGroup
<1>8. (1..lastId') \ entries' \subseteq forfeited'
    BY Zenon, <1>1, <1>4 DEF ServerInv, all
<1>9. lastDelivered = NoGroup => 1..lastId' \subseteq forfeited'
    BY Zenon, <1>1, <1>4, <1>6 DEF ServerInv
<1>10. StreamNothingLost'
  <2> SUFFICES ASSUME NEW i \in 1..lastId'
               PROVE  \/ Accounted(i)' \/ i \in DOMAIN pel'
                      \/ i \in entries' /\ lastDelivered' # NoGroup /\ i > lastDelivered'
    BY Zenon DEF StreamNothingLost
  <2>1. CASE i \in forfeited'
    BY Zenon, <2>1 DEF Accounted
  <2>2. CASE i \notin forfeited'
    <3>1. i \in entries' /\ lastDelivered # NoGroup
        BY Zenon, <1>8, <1>9, <2>2
    <3>2. CASE i \in 1..lastId
        BY Zenon, <1>3, <1>6, <2>2, <3>1, <3>2 DEF ServerInv, StreamNothingLost, Accounted
    <3>3. CASE i = lastId + 1
        BY <1>3, <1>4, <3>1, <3>3 DEF ServerInv
    <3> QED
        BY Zenon, <1>4, <3>2, <3>3
  <2> QED
    BY Zenon, <2>1, <2>2
<1>11. DOMAIN pel' \subseteq 1..lastId' /\ undecodable' \subseteq Ids
    BY Zenon, <1>3, <1>4, <1>5 DEF ServerInv
<1> QED
    BY <1>3, <1>4, <1>5, <1>6, <1>7, <1>8, <1>9, <1>10, <1>11 DEF ServerInv

\* XDEL.
LEMMA DeleteEntryKeeps ==
    ASSUME ServerInv, NEW id \in Ids, DeleteEntry(id)
    PROVE  ServerInv'
PROOF
<1>1. StreamNothingLost'
    BY Zenon DEF ServerInv, DeleteEntry, StreamNothingLost, Accounted
<1> QED
    BY Zenon, <1>1 DEF ServerInv, DeleteEntry

\* DEL of the stream's key.
LEMMA DestroyStreamKeeps ==
    ASSUME ServerInv, DestroyStream
    PROVE  ServerInv' /\ DOMAIN pel' = {}
PROOF
<1>1. /\ lastId' = lastId /\ entries' = {} /\ lastDelivered' = NoGroup /\ DOMAIN pel' = {}
      /\ forfeited' = forfeited \cup (1..lastId) /\ deadLetters' = deadLetters
      /\ handled' = handled /\ undecodable' = undecodable
    BY Zenon DEF DestroyStream
<1>2. 1..lastId \subseteq Ids
    BY StreamConfigAssumption DEF ServerInv, Ids
<1>3. StreamNothingLost'
    BY Zenon, <1>1 DEF StreamNothingLost, Accounted
<1>4. pel' \in [DOMAIN pel' -> Pending]
    BY Zenon DEF DestroyStream
<1> QED
    BY Zenon, <1>1, <1>2, <1>3, <1>4 DEF ServerInv

\* The clock of the pending entries.
LEMMA StreamTickKeeps ==
    ASSUME ServerInv, StreamTick
    PROVE  ServerInv' /\ \A c \in Consumers : Owed(c)' = Owed(c)
PROOF
<1>1. /\ pel' = [i \in DOMAIN pel |-> [pel[i] EXCEPT !.idle = IF @ < MinIdle THEN @ + 1 ELSE @]]
      /\ lastId' = lastId /\ entries' = entries /\ lastDelivered' = lastDelivered
      /\ forfeited' = forfeited /\ deadLetters' = deadLetters /\ handled' = handled
      /\ undecodable' = undecodable
    BY Zenon DEF StreamTick
<1>2. ASSUME NEW i \in DOMAIN pel
      PROVE  pel'[i] \in Pending /\ pel'[i].owner = pel[i].owner
  <2>1. pel[i] \in [owner : Consumers, idle : 0..MinIdle, count : Counts]
    BY Zenon DEF ServerInv, Pending
  <2>2. PICK d : d = pel[i].idle
    BY Zenon
  <2>3. PICK e : e = IF d < MinIdle THEN d + 1 ELSE d
    BY Zenon
  <2>4. d \in 0..MinIdle
    BY Zenon, <2>1, <2>2
  <2>5. e \in 0..MinIdle
    BY ONLY <2>3, <2>4, StreamConfigAssumption
  <2>6. pel'[i] = [owner |-> pel[i].owner, idle |-> e, count |-> pel[i].count]
    <3>1. pel'[i] = [pel[i] EXCEPT !.idle = e]
      BY Zenon, <1>1, <2>2, <2>3
    <3> QED
      BY ONLY Zenon, <2>1, <3>1
  <2> QED
    BY ONLY <2>1, <2>5, <2>6 DEF Pending
<1>3. DOMAIN pel' = DOMAIN pel
    BY Zenon, <1>1
<1>4. pel' \in [DOMAIN pel' -> Pending]
    BY Zenon, <1>1, <1>2, <1>3
<1>5. StreamNothingLost'
    BY Zenon, <1>1, <1>3 DEF ServerInv, StreamNothingLost, Accounted
<1>6. \A c \in Consumers : Owed(c)' = Owed(c)
    BY Zenon, <1>2, <1>3 DEF Owed
<1> QED
    BY Zenon, <1>1, <1>3, <1>4, <1>5, <1>6 DEF ServerInv

\* XGROUP CREATE: a new group starts at the end of the stream, and nothing was owed.
LEMMA CreateGroupKeeps ==
    ASSUME ServerInv, CreateGroup, handled' = handled, NEW c \in Consumers
    PROVE  ServerInv' /\ SparesOthers(c)
PROOF
<1>1. StreamNothingLost'
    BY Zenon DEF ServerInv, CreateGroup, StreamNothingLost, Accounted
<1>2. SparesOthers(c)
    BY Zenon DEF CreateGroup, SparesOthers, Owed, Aside
<1>3. lastDelivered' \in 0..lastId
    BY DEF ServerInv, CreateGroup, NoGroup
<1> QED
    BY Zenon, <1>1, <1>2, <1>3 DEF ServerInv, CreateGroup, NoGroup

\* XREADGROUP: what is read becomes pending, what is not read stays ahead.
LEMMA ReadGroupKeeps ==
    ASSUME ServerInv, lastDelivered # NoGroup, NEW n \in Nat, NEW c \in Consumers,
           ReadGroup(c, n), handled' = handled
    PROVE  ServerInv' /\ SparesOthers(c)
PROOF
<1> DEFINE S == {i \in entries : i > lastDelivered}
           ids == Unread(n)
<1>1. /\ lastDelivered' = IF ids = {} THEN lastDelivered ELSE Max(ids)
      /\ pel' = [i \in ids \cup DOMAIN pel |-> IF i \in ids THEN PendingOn(c) ELSE pel[i]]
      /\ lastId' = lastId /\ entries' = entries /\ forfeited' = forfeited
      /\ deadLetters' = deadLetters /\ undecodable' = undecodable
    BY Zenon DEF ReadGroup
<1>2. lastId \in Nat /\ S \in SUBSET (1..lastId) /\ lastDelivered \in 0..lastId
    BY DEF ServerInv
<1>3. ids \subseteq S /\ \A i \in ids, j \in S \ ids : i < j
  <2>1. ids = Oldest(S, n)
    BY Zenon DEF Unread
  <2> HIDE DEF S, ids
  <2> QED
    BY <1>2, <2>1, OldestIds, Zenon
<1> HIDE DEF ids
<1>4. ids # {} => Max(ids) \in ids /\ \A i \in ids : i <= Max(ids)
    BY <1>2, <1>3, LargestId, Zenon
<1>5. lastDelivered' \in 0..lastId
    BY <1>1, <1>2, <1>3, <1>4
<1>6. PendingOn(c) \in Pending
    BY StreamConfigAssumption DEF PendingOn, Pending, Counts
<1>7. DOMAIN pel' = ids \cup DOMAIN pel /\ pel' \in [DOMAIN pel' -> Pending]
    BY Zenon, <1>1, <1>6 DEF ServerInv
<1>8. DOMAIN pel' \subseteq 1..lastId
    BY Zenon, <1>2, <1>3, <1>7 DEF ServerInv
<1>9. StreamNothingLost'
  <2> SUFFICES ASSUME NEW i \in 1..lastId, ~Accounted(i), i \notin DOMAIN pel, i \notin ids
               PROVE  i \in entries /\ i > lastDelivered'
    BY <1>1, <1>5, <1>7 DEF StreamNothingLost, Accounted, NoGroup
  <2>1. i \in S \ ids
    BY Zenon DEF ServerInv, StreamNothingLost
  <2> QED
    BY <1>1, <1>3, <1>4, <2>1, Zenon
<1>10. SparesOthers(c)
  <2>1. ASSUME NEW d \in Consumers, d # c, NEW i \in DOMAIN pel', pel'[i].owner = d
        PROVE  i \in DOMAIN pel /\ pel[i].owner = d
    BY Zenon, <1>1, <1>7, <2>1 DEF PendingOn
  <2> QED
    BY Zenon, <1>1, <2>1 DEF SparesOthers, Owed, Aside
<1> QED
    BY <1>1, <1>5, <1>7, <1>8, <1>9, <1>10 DEF ServerInv, NoGroup

\* XCLAIM: a row is dropped only when its entry has been given up.
LEMMA ClaimEntriesKeeps ==
    ASSUME ServerInv, NEW c \in Consumers, ClaimEntries(c), handled' = handled
    PROVE  ServerInv' /\ SparesOthers(c)
PROOF
<1> DEFINE ids == {m.id : m \in scanned[c]}
           gone == {i \in ids \cap DOMAIN pel : pel[i].idle >= MinIdle /\ i \notin entries}
<1>1. /\ pel' = [i \in DOMAIN pel \ gone |->
                    IF i \in ids /\ Reclaimable(i)
                    THEN [owner |-> c, idle |-> 0, count |-> OneMore(pel[i].count)]
                    ELSE pel[i]]
      /\ lastId' = lastId /\ entries' = entries /\ lastDelivered' = lastDelivered
      /\ forfeited' = forfeited /\ deadLetters' = deadLetters
      /\ undecodable' = undecodable
    BY Zenon DEF ClaimEntries
<1>2. gone \subseteq DOMAIN pel /\ gone \cap entries = {}
    BY Zenon
<1> HIDE DEF ids, gone
<1>3. DOMAIN pel' = DOMAIN pel \ gone
    BY Zenon, <1>1
<1>4. ASSUME NEW i \in DOMAIN pel'
      PROVE  pel'[i] \in Pending /\ pel'[i].owner \in {c, pel[i].owner}
  <2>1. pel[i] \in Pending /\ OneMore(pel[i].count) \in Counts
    <3>1. pel[i] \in Pending
      BY Zenon, <1>3 DEF ServerInv
    <3>2. pel[i].count \in Counts /\ MaxDeliveries \in Nat
      BY Zenon, <3>1, StreamConfigAssumption DEF Pending
    <3>3. OneMore(pel[i].count) \in Counts
      BY ONLY <3>2 DEF Counts, OneMore
    <3> QED BY Zenon, <3>1, <3>3
  <2> QED
    BY <1>1, <1>3, <2>1, StreamConfigAssumption DEF Pending
<1>5. pel' \in [DOMAIN pel' -> Pending]
    BY Zenon, <1>1, <1>3, <1>4
<1>6. gone \subseteq forfeited
    BY Zenon, <1>2 DEF ServerInv
<1>7. StreamNothingLost'
    BY Zenon, <1>1, <1>3, <1>6 DEF ServerInv, StreamNothingLost, Accounted
<1>8. SparesOthers(c)
    BY Zenon, <1>1, <1>3, <1>4 DEF SparesOthers, Owed, Aside
<1> QED
    BY Zenon, <1>1, <1>3, <1>5, <1>7, <1>8 DEF ServerInv

\* XACK, of ids that are accounted for.
LEMMA AckEntriesKeeps ==
    ASSUME ServerInv, NEW c \in Consumers, NEW ids, AckEntries(ids), handled' = handled,
           \A i \in ids \cap DOMAIN pel : Accounted(i)
    PROVE  ServerInv' /\ SparesOthers(c)
PROOF
<1>1. /\ pel' = [i \in DOMAIN pel \ ids |-> pel[i]]
      /\ lastId' = lastId /\ entries' = entries /\ lastDelivered' = lastDelivered
      /\ forfeited' = forfeited /\ deadLetters' = deadLetters
      /\ undecodable' = undecodable
    BY Zenon DEF AckEntries, Restrict
<1>2. DOMAIN pel' = DOMAIN pel \ ids
    BY Zenon, <1>1
<1>3. StreamNothingLost'
    BY Zenon, <1>1, <1>2 DEF ServerInv, StreamNothingLost, Accounted
<1>4. SparesOthers(c)
    BY Zenon, <1>1, <1>2 DEF SparesOthers, Owed, Aside
<1>5. pel' \in [DOMAIN pel' -> Pending]
    BY Zenon, <1>1, <1>2 DEF ServerInv
<1> QED
    BY Zenon, <1>1, <1>2, <1>3, <1>4, <1>5 DEF ServerInv

\* XADD to the dead-letter stream: the copy is there, or was trimmed with older ones.
LEMMA CopyAsideKeeps ==
    ASSUME ServerInv, NEW c \in Consumers, NEW id \in Ids, CopyAside(id), handled' = handled
    PROVE  ServerInv' /\ SparesOthers(c) /\ id \in Aside'
PROOF
<1>1. PICK all : all = Append(deadLetters, id)
    BY Zenon
<1>2. PICK n \in Trims(Len(all)) :
        /\ deadLetters' = SubSeq(all, n + 1, Len(all))
        /\ forfeited' = forfeited \cup (Range(all) \ Range(deadLetters'))
    BY Zenon, <1>1 DEF CopyAside
<1>3. /\ entries' = entries /\ lastId' = lastId /\ lastDelivered' = lastDelivered
      /\ pel' = pel /\ undecodable' = undecodable
    BY Zenon DEF CopyAside
<1>4. deadLetters \in Seq(Ids)
    BY Zenon DEF ServerInv
<1>5. /\ all \in Seq(Ids) /\ Len(all) \in Nat /\ DOMAIN all = 1..Len(all)
      /\ \A k \in DOMAIN deadLetters : k \in DOMAIN all /\ all[k] = deadLetters[k]
      /\ Len(all) \in DOMAIN all /\ all[Len(all)] = id
    BY ONLY <1>1, <1>4, id \in Ids
<1>6. n \in 0..Len(all)
    BY ONLY <1>2, <1>5, StreamConfigAssumption DEF Trims
<1>7. deadLetters' \in Seq(Ids)
    BY ONLY <1>2, <1>5, <1>6
<1>8. Range(all) \subseteq Ids /\ Range(deadLetters) \subseteq Range(all) /\ id \in Range(all)
  <2>1. \A k \in DOMAIN all : all[k] \in Ids
    BY ONLY <1>5
  <2> QED
    BY Zenon, <1>5, <2>1 DEF Range
<1>9. forfeited \subseteq forfeited' /\ forfeited' \subseteq Ids /\ Range(all) \subseteq Aside'
    BY Zenon, <1>2, <1>8 DEF ServerInv, Aside
<1>10. Aside \subseteq Aside'
    BY Zenon, <1>8, <1>9 DEF Aside
<1>11. StreamNothingLost'
  <2>1. \A i : Accounted(i) => Accounted(i)'
    BY Zenon, <1>10 DEF Accounted, Aside
  <2> QED
    BY Zenon, <1>3, <2>1 DEF ServerInv, StreamNothingLost
<1>12. SparesOthers(c)
    BY Zenon, <1>3, <1>10 DEF SparesOthers, Owed
<1>13. id \in Aside'
    BY Zenon, <1>8, <1>9
<1> QED
    BY Zenon, <1>3, <1>7, <1>9, <1>11, <1>12, <1>13 DEF ServerInv

\* No command at all, while a handler may return.
LEMMA ServerUntouched ==
    ASSUME ServerInv, NEW c \in Consumers, UNCHANGED serverVars,
           handled \subseteq handled', handled' \subseteq Ids
    PROVE  ServerInv' /\ SparesOthers(c)
PROOF
<1> USE DEF serverVars
<1>1. StreamNothingLost'
    BY Zenon DEF ServerInv, StreamNothingLost, Accounted
<1>2. SparesOthers(c)
    BY Zenon DEF SparesOthers, Owed, Aside
<1> QED
    BY Zenon, <1>1, <1>2 DEF ServerInv

-----------------------------------------------------------------------------
(* The runners.                                                            *)

\* A finite set of values computed from the members of another is no larger.
LEMMA ImageOf ==
    ASSUME NEW S, IsFiniteSet(S), NEW f, f \in [S -> {f[x] : x \in S}]
    PROVE  /\ IsFiniteSet({f[x] : x \in S})
           /\ Cardinality({f[x] : x \in S}) <= Cardinality(S)
PROOF
<1>1. f \in Surjection(S, {f[x] : x \in S})
    BY Zenon DEF Surjection
<1> QED
    BY Zenon, <1>1, FS_Surjection

\* A step of c: the others keep their place, what they hold and what they owe.
LEMMA CycleStep ==
    ASSUME CycleInv, NEW c \in Consumers, SparesOthers(c), handled \subseteq handled',
           streamPc' \in [Consumers -> {"down", "cycle", "claim", "read", "work", "ack",
                                        "backoff", "retire", "remove"}],
           started' \in [Consumers -> BOOLEAN],
           scanned' \in [Consumers -> SUBSET Messages],
           batch' \in [Consumers -> Seq(Messages)],
           acked' \in [Consumers -> SUBSET Ids],
           streamFaults' \in 0..MaxStreamFaults,
           \A d \in Consumers : d # c =>
                /\ streamPc'[d] = streamPc[d] /\ scanned'[d] = scanned[d]
                /\ batch'[d] = batch[d] /\ acked'[d] = acked[d],
           OneCycle(c)'
    PROVE  CycleInv'
PROOF
<1>1. ASSUME NEW d \in Consumers, d # c PROVE OneCycle(d)'
  <2>1. OneCycle(d)
    BY Zenon DEF CycleInv
  <2>2. Owed(d)' \subseteq Owed(d) /\ handled \cup Aside \subseteq handled' \cup Aside'
    BY Zenon, <1>1 DEF SparesOthers
  <2>3. /\ streamPc'[d] = streamPc[d] /\ scanned'[d] = scanned[d]
        /\ batch'[d] = batch[d] /\ acked'[d] = acked[d]
    BY Zenon, <1>1
  <2> QED
    BY Zenon, <2>1, <2>2, <2>3 DEF OneCycle
<1> QED
    BY Zenon, <1>1 DEF CycleInv

\* A cycle is left with what it holds.
LEMMA LeaveCycleKeeps ==
    ASSUME CycleInv, NEW c \in Consumers, SparesOthers(c), handled' = handled,
           NEW place \in {"down", "cycle", "backoff", "retire"}, LeaveCycle(c, place),
           started' \in [Consumers -> BOOLEAN], streamFaults' \in 0..MaxStreamFaults
    PROVE  CycleInv'
PROOF
<1>1. /\ streamPc'[c] = place /\ scanned'[c] = {} /\ batch'[c] = <<>> /\ acked'[c] = {}
      /\ \A d \in Consumers : d # c =>
            /\ streamPc'[d] = streamPc[d] /\ scanned'[d] = scanned[d]
            /\ batch'[d] = batch[d] /\ acked'[d] = acked[d]
    BY Zenon DEF CycleInv, LeaveCycle
<1>2. /\ streamPc' \in [Consumers -> {"down", "cycle", "claim", "read", "work", "ack",
                                      "backoff", "retire", "remove"}]
      /\ scanned' \in [Consumers -> SUBSET Messages]
      /\ acked' \in [Consumers -> SUBSET Ids]
    BY Zenon DEF CycleInv, LeaveCycle
<1>3. batch' \in [Consumers -> Seq(Messages)]
    BY DEF CycleInv, LeaveCycle
<1>4. OneCycle(c)'
    BY <1>1, FS_EmptySet, StreamConfigAssumption DEF OneCycle
<1> QED
    BY <1>1, <1>2, <1>3, <1>4, CycleStep, Zenon

\* The message in hand.
LEMMA HeadTypes ==
    ASSUME CycleInv, NEW c \in Consumers, streamPc[c] = "work"
    PROVE  /\ batch[c] \in Seq(Messages) /\ batch[c] # <<>>
           /\ Head(batch[c]).id \in Ids
           /\ Tail(batch[c]) \in Seq(Messages) /\ Len(Tail(batch[c])) = Len(batch[c]) - 1
PROOF
<1>1. batch[c] \in Seq(Messages) /\ batch[c] # <<>>
    BY Zenon DEF CycleInv, OneCycle
<1>2. Head(batch[c]) \in Messages
    BY <1>1
<1> QED
    BY <1>1, <1>2 DEF Messages

\* What is left of a batch's budget when the runner reads.
LEMMA BudgetTypes ==
    ASSUME CycleInv, NEW c \in Consumers, streamPc[c] = "read"
    PROVE  Budget(c) \in Nat
PROOF
    BY StreamConfigAssumption DEF CycleInv, OneCycle, Budget

\* Whatever a cancelled or failed command did on the server, the books are right.
LEMMA AwaitedKeeps ==
    ASSUME IInv, NEW c \in Consumers, Awaited(c), handled' = handled
    PROVE  ServerInv' /\ SparesOthers(c)
PROOF
<1> USE DEF IInv
<1>1. CASE UNCHANGED serverVars
    BY Zenon, <1>1, ServerUntouched DEF ServerInv
<1>2. CASE CreateGroup
    BY Zenon, <1>2, CreateGroupKeeps
<1>3. CASE ClaimEntries(c)
    BY Zenon, <1>3, ClaimEntriesKeeps
<1>4. CASE streamPc[c] = "read" /\ lastDelivered # NoGroup /\ ReadGroup(c, Budget(c))
    BY Zenon, <1>4, BudgetTypes, ReadGroupKeeps
<1>5. CASE streamPc[c] = "work" /\ CopyAside(Head(batch[c]).id)
    BY Zenon, <1>5, HeadTypes, CopyAsideKeeps
<1>6. CASE AckEntries(acked[c])
  <2>1. \A i \in acked[c] : Accounted(i)
    BY Zenon DEF CycleInv, OneCycle, Accounted, Aside
  <2> QED
    BY Zenon, <1>6, <2>1, AckEntriesKeeps
<1> QED
    BY Zenon, <1>1, <1>2, <1>3, <1>4, <1>5, <1>6 DEF Awaited

\* start() of the runner.
LEMMA StartRunnerKeeps ==
    ASSUME IInv, NEW c \in Consumers, StartRunner(c)
    PROVE  IInv'
PROOF
<1>1. handled' = handled /\ UNCHANGED serverVars /\ LeaveCycle(c, "cycle")
      /\ started' = started /\ streamFaults' = streamFaults
    BY Zenon DEF StartRunner
<1>2. ServerInv' /\ SparesOthers(c)
    BY Zenon, <1>1, ServerUntouched DEF IInv, ServerInv
<1>3. started' \in [Consumers -> BOOLEAN] /\ streamFaults' \in 0..MaxStreamFaults
    BY Zenon, <1>1 DEF IInv, CycleInv
<1> QED
    BY Zenon, <1>1, <1>2, <1>3, LeaveCycleKeeps DEF IInv

\* RedisStreamGroup.start.
LEMMA StartGroupKeeps ==
    ASSUME IInv, NEW c \in Consumers, StartGroup(c)
    PROVE  IInv'
PROOF
<1>1. /\ handled' = handled /\ CreateGroup /\ started' = [started EXCEPT ![c] = TRUE]
      /\ streamPc' = streamPc /\ scanned' = scanned /\ batch' = batch /\ acked' = acked
      /\ streamFaults' = streamFaults /\ streamPc[c] = "cycle"
    BY Zenon DEF StartGroup
<1>2. ServerInv' /\ SparesOthers(c)
    BY Zenon, <1>1, CreateGroupKeeps DEF IInv
<1>3. started' \in [Consumers -> BOOLEAN]
    BY Zenon, <1>1 DEF IInv, CycleInv
<1>4. OneCycle(c)'
    BY Zenon, <1>1, <1>2 DEF IInv, CycleInv, OneCycle, SparesOthers
<1> QED
    BY <1>1, <1>2, <1>3, <1>4, CycleStep, Zenon DEF IInv, CycleInv

\* A scan finds pending entries, and no more than it asks for.
LEMMA StalledTypes ==
    ASSUME ServerInv
    PROVE  /\ Stalled \subseteq Messages /\ IsFiniteSet(Stalled)
           /\ Cardinality(Stalled) <= ClaimBatch
PROOF
<1> DEFINE S == {j \in DOMAIN pel : pel[j].idle >= MinIdle}
           ids == Oldest(S, ClaimBatch)
           f == [i \in ids |-> [id |-> i, count |-> pel[i].count]]
<1>1. lastId \in Nat /\ S \in SUBSET (1..lastId)
    BY DEF ServerInv
<1>2. ids \subseteq S /\ IsFiniteSet(ids) /\ Cardinality(ids) <= ClaimBatch
  <2> HIDE DEF S
  <2> QED
    BY Zenon, <1>1, OldestIds, StreamConfigAssumption
<1>3. Stalled = {f[i] : i \in ids}
    BY Zenon DEF Stalled
<1>4. \A i \in ids : f[i] \in Messages
  <2>1. \A i \in DOMAIN pel : i \in Ids /\ pel[i] \in Pending
    BY StreamConfigAssumption DEF ServerInv, Ids
  <2> QED
    BY Zenon, <1>2, <2>1 DEF Messages, Pending
<1> HIDE DEF ids, S
<1>5. f \in [ids -> {f[i] : i \in ids}]
    BY Zenon
<1> HIDE DEF f
<1>6. IsFiniteSet(Stalled) /\ Cardinality(Stalled) <= Cardinality(ids)
    BY <1>2, <1>3, <1>5, ImageOf
<1> QED
    BY <1>2, <1>3, <1>4, <1>6, FS_CardinalityType, StreamConfigAssumption

\* _claim_stalled up to the scan's answer.
LEMMA ScanStalledKeeps ==
    ASSUME IInv, NEW c \in Consumers, ScanStalled(c)
    PROVE  IInv'
PROOF
<1>1. /\ handled' = handled /\ UNCHANGED serverVars /\ started' = started
      /\ scanned' = [scanned EXCEPT ![c] = Stalled]
      /\ streamPc' = [streamPc EXCEPT ![c] = IF Stalled = {} THEN "read" ELSE "claim"]
      /\ batch' = batch /\ acked' = acked /\ streamFaults' = streamFaults
      /\ streamPc[c] = "cycle"
    BY Zenon DEF ScanStalled
<1>2. ServerInv' /\ SparesOthers(c)
    BY Zenon, <1>1, ServerUntouched DEF IInv, ServerInv
<1>3. /\ Stalled \subseteq Messages /\ IsFiniteSet(Stalled)
      /\ Cardinality(Stalled) <= ClaimBatch
    BY Zenon, StalledTypes DEF IInv
<1>4. /\ scanned' \in [Consumers -> SUBSET Messages] /\ scanned'[c] = Stalled
      /\ streamPc' \in [Consumers -> {"down", "cycle", "claim", "read", "work", "ack",
                                      "backoff", "retire", "remove"}]
      /\ streamPc'[c] \in {"read", "claim"}
      /\ \A d \in Consumers : d # c => scanned'[d] = scanned[d] /\ streamPc'[d] = streamPc[d]
    BY Zenon, <1>1, <1>3 DEF IInv, CycleInv
<1>5. batch[c] = <<>> /\ acked[c] \subseteq handled \cup Aside
    BY Zenon, <1>1 DEF IInv, CycleInv, OneCycle
<1>6. OneCycle(c)'
    BY <1>1, <1>2, <1>3, <1>4, <1>5, StreamConfigAssumption DEF OneCycle, SparesOthers
<1> QED
    BY <1>1, <1>2, <1>4, <1>6, CycleStep, Zenon DEF IInv, CycleInv

\* An answer that cannot be decoded: the server has done its part, the cycle is left.
LEMMA AbandonedKeeps ==
    ASSUME IInv, NEW c \in Consumers, ServerInv', SparesOthers(c), handled' = handled,
           started' = started, streamFaults' = streamFaults, LeaveCycle(c, "backoff")
    PROVE  IInv'
PROOF
<1>1. started' \in [Consumers -> BOOLEAN] /\ streamFaults' \in 0..MaxStreamFaults
    BY Zenon DEF IInv, CycleInv
<1> QED
    BY Zenon, <1>1, LeaveCycleKeeps DEF IInv

\* RedisStreamGroup.claim.
LEMMA ClaimStalledKeeps ==
    ASSUME IInv, NEW c \in Consumers, ClaimStalled(c)
    PROVE  IInv'
PROOF
<1> DEFINE mine == {n \in scanned[c] : Reclaimable(n.id)}
           f == [m \in mine |-> [id |-> m.id, count |-> OneMore(m.count)]]
           M == {f[m] : m \in mine}
<1>a. handled' = handled /\ ClaimEntries(c) /\ started' = started /\ streamFaults' = streamFaults
    BY Zenon DEF ClaimStalled
<1>0. {[id |-> m.id, count |-> OneMore(m.count)] : m \in mine} = M
    BY Zenon
<1> HIDE DEF M
<1>b. CASE LeaveCycle(c, "backoff")
    BY Zenon, <1>a, <1>b, ClaimEntriesKeeps, AbandonedKeeps DEF IInv
<1> SUFFICES ASSUME ~LeaveCycle(c, "backoff") PROVE IInv'
    BY Zenon, <1>b
<1>1. acked' = acked /\ scanned' = [scanned EXCEPT ![c] = {}]
    BY Zenon DEF ClaimStalled, DecodeFails
<1>2. PICK taken \in Listed(M) :
        /\ batch' = [batch EXCEPT ![c] = taken]
        /\ streamPc' = [streamPc EXCEPT ![c] = IF Len(taken) < BatchSize THEN "read" ELSE "work"]
    BY <1>0, Zenon DEF ClaimStalled, DecodeFails
<1> USE DEF M
<1>3. ServerInv' /\ SparesOthers(c)
    BY Zenon, <1>a, ClaimEntriesKeeps DEF IInv
<1>4. /\ scanned[c] \subseteq Messages /\ IsFiniteSet(scanned[c])
      /\ Cardinality(scanned[c]) <= ClaimBatch
    BY Zenon DEF IInv, CycleInv, OneCycle
<1>5. mine \in SUBSET scanned[c]
    BY Zenon
<1> HIDE DEF mine
<1>6. IsFiniteSet(mine) /\ Cardinality(mine) <= ClaimBatch /\ Cardinality(mine) \in Nat
    BY <1>4, <1>5, FS_Subset, FS_CardinalityType, StreamConfigAssumption
<1>7. \A m \in mine : f[m] \in Messages
    BY <1>4, <1>5, StreamConfigAssumption DEF Messages, OneMore, Counts
<1>8. f \in [mine -> M]
    BY Zenon
<1> HIDE DEF f
<1>9. IsFiniteSet(M) /\ Cardinality(M) <= Cardinality(mine) /\ Cardinality(M) \in Nat
    BY <1>6, <1>8, ImageOf, FS_CardinalityType
<1>10. M \in SUBSET Messages
    BY Zenon, <1>7
<1> HIDE DEF M
<1>11. taken \in Seq(Messages) /\ Len(taken) <= ClaimBatch
    BY <1>6, <1>9, <1>10, ListedMessages, StreamConfigAssumption
<1>12. /\ batch' \in [Consumers -> Seq(Messages)] /\ batch'[c] = taken
       /\ \A d \in Consumers : d # c => batch'[d] = batch[d]
    BY Zenon, <1>2, <1>11 DEF IInv, CycleInv
<1>13. /\ scanned' \in [Consumers -> SUBSET Messages] /\ scanned'[c] = {}
       /\ streamPc' \in [Consumers -> {"down", "cycle", "claim", "read", "work", "ack",
                                       "backoff", "retire", "remove"}]
       /\ streamPc'[c] = IF Len(taken) < BatchSize THEN "read" ELSE "work"
       /\ \A d \in Consumers : d # c => scanned'[d] = scanned[d] /\ streamPc'[d] = streamPc[d]
    BY Zenon, <1>1, <1>2 DEF IInv, CycleInv
<1>14. acked'[c] \subseteq handled' \cup Aside'
    BY Zenon, <1>a, <1>1, <1>3 DEF IInv, CycleInv, OneCycle, SparesOthers
<1>15. taken = <<>> => Len(taken) < BatchSize
    BY StreamConfigAssumption
<1>16. OneCycle(c)'
    BY <1>11, <1>12, <1>13, <1>14, <1>15, FS_EmptySet, StreamConfigAssumption DEF OneCycle
<1> QED
    BY <1>a, <1>1, <1>3, <1>12, <1>13, <1>16, CycleStep, Zenon DEF IInv, CycleInv

\* RedisStreamGroup.read.
LEMMA ReadNewKeeps ==
    ASSUME IInv, NEW c \in Consumers, ReadNew(c)
    PROVE  IInv'
PROOF
<1> DEFINE S == {i \in entries : i > lastDelivered}
           ids == Unread(Budget(c))
           f == [i \in ids |-> [id |-> i, count |-> 1]]
           M == {f[i] : i \in ids}
<1>a. /\ handled' = handled /\ ReadGroup(c, Budget(c)) /\ started' = started
      /\ streamFaults' = streamFaults /\ streamPc[c] = "read" /\ lastDelivered # NoGroup
    BY Zenon DEF ReadNew
<1>3. Budget(c) \in Nat
    BY Zenon, <1>a, BudgetTypes DEF IInv
<1>4. ServerInv' /\ SparesOthers(c)
    BY Zenon, <1>a, <1>3, ReadGroupKeeps DEF IInv
<1>b. CASE LeaveCycle(c, "backoff")
    BY Zenon, <1>a, <1>4, <1>b, AbandonedKeeps DEF IInv
<1> SUFFICES ASSUME ~LeaveCycle(c, "backoff") PROVE IInv'
    BY Zenon, <1>b
<1>1. acked' = acked /\ scanned' = scanned
    BY Zenon DEF ReadNew, DecodeFails
<1>0. {[id |-> i, count |-> 1] : i \in ids} = M
    BY Zenon
<1> HIDE DEF M
<1>2. PICK new \in Listed(M) :
        /\ batch' = [batch EXCEPT ![c] = batch[c] \o new]
        /\ streamPc' = [streamPc EXCEPT ![c] = IF batch[c] \o new = <<>> THEN "cycle" ELSE "work"]
    BY <1>0, Zenon DEF ReadNew, DecodeFails
<1> USE DEF M
<1>5. lastId \in Nat /\ S \in SUBSET (1..lastId) /\ 1..lastId \subseteq Ids
    BY StreamConfigAssumption DEF IInv, ServerInv, Ids
<1>6. ids \subseteq S /\ IsFiniteSet(ids) /\ Cardinality(ids) <= Budget(c)
  <2>1. ids = Oldest(S, Budget(c))
    BY Zenon DEF Unread
  <2> HIDE DEF S, ids
  <2> QED
    BY <1>3, <1>5, <2>1, OldestIds, Zenon
<1> HIDE DEF ids, S
<1>7. \A i \in ids : f[i] \in Messages
  <2>1. 1 \in Counts
    BY ONLY StreamConfigAssumption DEF Counts
  <2>2. ASSUME NEW i \in ids
        PROVE  i \in Ids /\ f[i] = [id |-> i, count |-> 1]
    BY Zenon, <1>5, <1>6
  <2> QED
    BY Zenon, <2>1, <2>2 DEF Messages
<1>8. f \in [ids -> M]
    BY Zenon
<1> HIDE DEF f
<1>9. IsFiniteSet(M) /\ Cardinality(M) <= Cardinality(ids) /\ Cardinality(M) \in Nat
    BY <1>6, <1>8, ImageOf, FS_CardinalityType
<1>10. M \in SUBSET Messages
    BY Zenon, <1>7
<1> HIDE DEF M
<1>11. new \in Seq(Messages) /\ Len(new) <= Budget(c)
    BY <1>3, <1>6, <1>9, <1>10, ListedMessages, FS_CardinalityType
<1>12. batch[c] \in Seq(Messages) /\ Len(batch[c]) < BatchSize
    BY Zenon, <1>a DEF IInv, CycleInv, OneCycle
<1>13. batch[c] \o new \in Seq(Messages) /\ Len(batch[c] \o new) <= BatchSize
    BY <1>11, <1>12, StreamConfigAssumption DEF Budget
<1>14. /\ batch' \in [Consumers -> Seq(Messages)] /\ batch'[c] = batch[c] \o new
       /\ \A d \in Consumers : d # c => batch'[d] = batch[d]
    BY Zenon, <1>2, <1>13 DEF IInv, CycleInv
<1>15. /\ streamPc' \in [Consumers -> {"down", "cycle", "claim", "read", "work", "ack",
                                       "backoff", "retire", "remove"}]
       /\ streamPc'[c] = IF batch'[c] = <<>> THEN "cycle" ELSE "work"
       /\ \A d \in Consumers : d # c => streamPc'[d] = streamPc[d]
    BY Zenon, <1>2, <1>14 DEF IInv, CycleInv
<1>16. /\ acked'[c] \subseteq handled' \cup Aside'
       /\ IsFiniteSet(scanned'[c]) /\ Cardinality(scanned'[c]) <= ClaimBatch
    BY Zenon, <1>a, <1>1, <1>4 DEF IInv, CycleInv, OneCycle, SparesOthers
<1>17. OneCycle(c)'
    BY Zenon, <1>13, <1>14, <1>15, <1>16 DEF OneCycle
<1> QED
    BY <1>a, <1>1, <1>4, <1>14, <1>15, <1>17, CycleStep, Zenon DEF IInv, CycleInv

\* The cycle goes to its next message; one to be acknowledged is accounted for.
LEMMA NextMessageKeeps ==
    ASSUME CycleInv, NEW c \in Consumers, streamPc[c] = "work",
           NEW done \in BOOLEAN, NextMessage(c, done),
           done => Head(batch[c]).id \in handled' \cup Aside',
           SparesOthers(c), handled \subseteq handled',
           started' = started, scanned' = scanned, streamFaults' \in 0..MaxStreamFaults
    PROVE  CycleInv'
PROOF
<1> DEFINE ids == IF done THEN acked[c] \cup {Head(batch[c]).id} ELSE acked[c]
           rest == Tail(batch[c])
<1>1. /\ batch' = [batch EXCEPT ![c] = rest] /\ acked' = [acked EXCEPT ![c] = ids]
      /\ streamPc' = [streamPc EXCEPT ![c] = IF rest # <<>> THEN "work"
                                             ELSE IF ids # {} THEN "ack" ELSE "cycle"]
    BY Zenon DEF NextMessage
<1>2. /\ batch[c] \in Seq(Messages) /\ Head(batch[c]).id \in Ids
      /\ rest \in Seq(Messages) /\ Len(rest) = Len(batch[c]) - 1
    BY Zenon, HeadTypes
<1>3. acked[c] \subseteq Ids /\ acked[c] \subseteq handled \cup Aside
    BY Zenon DEF CycleInv, OneCycle
<1>4. ids \subseteq Ids /\ ids \subseteq handled' \cup Aside'
    BY Zenon, <1>2, <1>3 DEF SparesOthers
<1> HIDE DEF ids, rest
<1>5. /\ batch' \in [Consumers -> Seq(Messages)] /\ batch'[c] = rest
      /\ \A d \in Consumers : d # c => batch'[d] = batch[d]
    BY Zenon, <1>1, <1>2 DEF CycleInv
<1>6. /\ acked' \in [Consumers -> SUBSET Ids] /\ acked'[c] = ids
      /\ \A d \in Consumers : d # c => acked'[d] = acked[d]
    BY Zenon, <1>1, <1>4 DEF CycleInv
<1>7. /\ streamPc' \in [Consumers -> {"down", "cycle", "claim", "read", "work", "ack",
                                      "backoff", "retire", "remove"}]
      /\ rest # <<>> => streamPc'[c] = "work"
      /\ rest = <<>> => streamPc'[c] \in {"ack", "cycle"}
      /\ \A d \in Consumers : d # c => streamPc'[d] = streamPc[d]
    BY Zenon, <1>1 DEF CycleInv
<1>8. /\ Len(rest) <= BatchSize \/ Len(rest) <= ClaimBatch
      /\ IsFiniteSet(scanned[c]) /\ Cardinality(scanned[c]) <= ClaimBatch
  <2>1. OneCycle(c) /\ Len(batch[c]) \in Nat
    BY <1>2 DEF CycleInv
  <2> QED
    BY <1>2, <2>1, StreamConfigAssumption DEF OneCycle
<1>9. OneCycle(c)'
    BY Zenon, <1>4, <1>5, <1>6, <1>7, <1>8 DEF OneCycle
<1> QED
    BY <1>5, <1>6, <1>7, <1>9, CycleStep, Zenon DEF CycleInv

\* _handle: the handler returns or does not.
LEMMA HandleMessageKeeps ==
    ASSUME IInv, NEW c \in Consumers, HandleMessage(c)
    PROVE  IInv'
PROOF
<1>1. /\ streamPc[c] = "work" /\ UNCHANGED serverVars /\ started' = started
      /\ scanned' = scanned /\ streamFaults' = streamFaults
    BY Zenon DEF HandleMessage
<1>2. Head(batch[c]).id \in Ids /\ handled \subseteq Ids /\ streamFaults' \in 0..MaxStreamFaults
    BY Zenon, <1>1, HeadTypes DEF IInv, ServerInv, CycleInv
<1>3. PICK done \in BOOLEAN :
        /\ NextMessage(c, done)
        /\ handled' = IF done THEN handled \cup {Head(batch[c]).id} ELSE handled
    BY Zenon DEF HandleMessage
<1>4. handled \subseteq handled' /\ handled' \subseteq Ids
    BY Zenon, <1>2, <1>3
<1>5. ServerInv' /\ SparesOthers(c)
    BY Zenon, <1>1, <1>4, ServerUntouched DEF IInv
<1>6. CycleInv'
    BY Zenon, <1>1, <1>2, <1>3, <1>4, <1>5, NextMessageKeeps DEF IInv
<1> QED
    BY Zenon, <1>5, <1>6 DEF IInv

\* _dead_letter: acknowledged only once the copy is there.
LEMMA DeadLetterKeeps ==
    ASSUME IInv, NEW c \in Consumers, DeadLetter(c)
    PROVE  IInv'
PROOF
<1>1. /\ streamPc[c] = "work" /\ handled' = handled /\ started' = started
      /\ scanned' = scanned
    BY Zenon DEF DeadLetter
<1>2. Head(batch[c]).id \in Ids
    BY Zenon, <1>1, HeadTypes DEF IInv
<1>3. streamFaults' \in 0..MaxStreamFaults
  <2>1. \/ streamFaults' = streamFaults
        \/ streamFaults < MaxStreamFaults /\ streamFaults' = streamFaults + 1
    BY Zenon DEF DeadLetter
  <2> QED
    BY <2>1, StreamConfigAssumption DEF IInv, CycleInv
<1>4. CopyAside(Head(batch[c]).id) \/ UNCHANGED serverVars
    BY Zenon DEF DeadLetter
<1>5. ServerInv' /\ SparesOthers(c)
    BY Zenon, <1>1, <1>2, <1>4, CopyAsideKeeps, ServerUntouched DEF IInv, ServerInv
<1>6. PICK done \in BOOLEAN :
        NextMessage(c, done) /\ (done => Head(batch[c]).id \in Aside')
    BY Zenon, <1>1, <1>2, CopyAsideKeeps DEF DeadLetter, IInv
<1>7. CycleInv'
    BY Zenon, <1>1, <1>3, <1>5, <1>6, NextMessageKeeps DEF IInv
<1> QED
    BY Zenon, <1>5, <1>7 DEF IInv

\* _ack.
LEMMA AckCycleKeeps ==
    ASSUME IInv, NEW c \in Consumers, AckCycle(c)
    PROVE  IInv'
PROOF
<1>1. /\ streamPc[c] = "ack" /\ handled' = handled /\ started' = started
      /\ LeaveCycle(c, "cycle")
    BY Zenon DEF AckCycle
<1>2. streamFaults' \in 0..MaxStreamFaults /\ started' \in [Consumers -> BOOLEAN]
    BY <1>1, StreamConfigAssumption DEF AckCycle, IInv, CycleInv
<1>3. Awaited(c)
    BY Zenon, <1>1 DEF AckCycle, Awaited
<1>4. ServerInv' /\ SparesOthers(c)
    BY Zenon, <1>1, <1>3, AwaitedKeeps
<1> QED
    BY Zenon, <1>1, <1>2, <1>4, LeaveCycleKeeps DEF IInv

\* _handle_response_error on NOGROUP.
LEMMA GroupVanishedKeeps ==
    ASSUME IInv, NEW c \in Consumers, GroupVanished(c)
    PROVE  IInv'
PROOF
<1>1. /\ handled' = handled /\ UNCHANGED serverVars /\ LeaveCycle(c, "backoff")
      /\ started' = [started EXCEPT ![c] = FALSE] /\ streamFaults' = streamFaults
    BY Zenon DEF GroupVanished
<1>2. ServerInv' /\ SparesOthers(c)
    BY Zenon, <1>1, ServerUntouched DEF IInv, ServerInv
<1>3. started' \in [Consumers -> BOOLEAN] /\ streamFaults' \in 0..MaxStreamFaults
    BY Zenon, <1>1 DEF IInv, CycleInv
<1> QED
    BY Zenon, <1>1, <1>2, <1>3, LeaveCycleKeeps DEF IInv

\* The next pass of _loop.
LEMMA BackOffCycleKeeps ==
    ASSUME IInv, NEW c \in Consumers, BackOffCycle(c)
    PROVE  IInv'
PROOF
<1>1. /\ handled' = handled /\ UNCHANGED serverVars /\ LeaveCycle(c, "cycle")
      /\ started' = started /\ streamFaults' = streamFaults
    BY Zenon DEF BackOffCycle
<1>2. ServerInv' /\ SparesOthers(c)
    BY Zenon, <1>1, ServerUntouched DEF IInv, ServerInv
<1>3. started' \in [Consumers -> BOOLEAN] /\ streamFaults' \in 0..MaxStreamFaults
    BY Zenon, <1>1 DEF IInv, CycleInv
<1> QED
    BY Zenon, <1>1, <1>2, <1>3, LeaveCycleKeeps DEF IInv

\* A command fails, the runner is cancelled, or its process dies.
LEMMA InterruptedKeeps ==
    ASSUME IInv, NEW c \in Consumers, CommandFails(c) \/ CancelRunner(c) \/ CrashRunner(c)
    PROVE  IInv'
PROOF
<1>1. handled' = handled /\ Awaited(c) /\ streamFaults' \in 0..MaxStreamFaults
    BY StreamConfigAssumption DEF CommandFails, CancelRunner, CrashRunner, IInv, CycleInv
<1>2. started' \in [Consumers -> BOOLEAN]
    BY Zenon DEF CommandFails, CancelRunner, CrashRunner, IInv, CycleInv
<1>3. \E place \in {"down", "cycle", "backoff", "retire"} : LeaveCycle(c, place)
    BY Zenon DEF CommandFails, CancelRunner, CrashRunner
<1>4. ServerInv' /\ SparesOthers(c)
    BY Zenon, <1>1, AwaitedKeeps
<1> QED
    BY Zenon, <1>1, <1>2, <1>3, <1>4, LeaveCycleKeeps DEF IInv

\* _retire_consumer up to the answer of pending_count.
LEMMA RetireConsumerKeeps ==
    ASSUME IInv, NEW c \in Consumers, RetireConsumer(c)
    PROVE  IInv'
PROOF
<1>1. /\ streamPc[c] = "retire" /\ handled' = handled /\ UNCHANGED serverVars
      /\ streamPc' = [streamPc EXCEPT ![c] = IF Retires(c) THEN "remove" ELSE "down"]
      /\ started' = [started EXCEPT ![c] = FALSE] /\ scanned' = scanned /\ batch' = batch
      /\ acked' = acked /\ streamFaults' = streamFaults
    BY Zenon DEF RetireConsumer
<1>2. ServerInv' /\ SparesOthers(c)
    BY Zenon, <1>1, ServerUntouched DEF IInv, ServerInv
<1>3. started' \in [Consumers -> BOOLEAN]
    BY Zenon, <1>1 DEF IInv, CycleInv
<1>4. /\ streamPc' \in [Consumers -> {"down", "cycle", "claim", "read", "work", "ack",
                                      "backoff", "retire", "remove"}]
      /\ streamPc'[c] = IF Retires(c) THEN "remove" ELSE "down"
      /\ \A d \in Consumers : d # c => streamPc'[d] = streamPc[d]
    BY Zenon, <1>1 DEF IInv, CycleInv
<1>5. OneCycle(c) /\ Owed(c)' = Owed(c) /\ Aside' = Aside
    BY Zenon, <1>1 DEF IInv, CycleInv, Owed, serverVars, Aside
<1>6. OneCycle(c)'
    BY Zenon, <1>1, <1>4, <1>5 DEF OneCycle, Retires
<1> QED
    BY Zenon, <1>1, <1>2, <1>3, <1>4, <1>6, CycleStep DEF IInv, CycleInv

\* XGROUP DELCONSUMER: the consumer still owes nothing, so nothing goes with it.
LEMMA RemoveConsumerKeeps ==
    ASSUME IInv, NEW c \in Consumers, RemoveConsumer(c)
    PROVE  IInv'
PROOF
<1>1. /\ streamPc[c] = "remove" /\ handled' = handled /\ AckEntries(Owed(c))
      /\ streamPc' = [streamPc EXCEPT ![c] = "down"]
      /\ started' = started /\ scanned' = scanned /\ batch' = batch
      /\ acked' = acked /\ streamFaults' = streamFaults
    BY Zenon DEF RemoveConsumer
<1>2. OneCycle(c) /\ Owed(c) = {}
    BY Zenon, <1>1 DEF IInv, CycleInv, OneCycle
<1>3. ServerInv' /\ SparesOthers(c)
    BY Zenon, <1>1, <1>2, AckEntriesKeeps DEF IInv
<1>4. /\ streamPc' \in [Consumers -> {"down", "cycle", "claim", "read", "work", "ack",
                                      "backoff", "retire", "remove"}]
      /\ streamPc'[c] = "down"
      /\ \A d \in Consumers : d # c => streamPc'[d] = streamPc[d]
    BY Zenon, <1>1 DEF IInv, CycleInv
<1>5. OneCycle(c)'
    BY Zenon, <1>1, <1>2, <1>3, <1>4 DEF OneCycle, SparesOthers
<1> QED
    BY Zenon, <1>1, <1>3, <1>4, <1>5, CycleStep DEF IInv, CycleInv

\* A step of the server alone, or of time.
LEMMA CyclesUntouched ==
    ASSUME CycleInv, streamFaults' \in 0..MaxStreamFaults,
           UNCHANGED <<streamPc, started, scanned, batch, acked, handled>>,
           Aside \subseteq Aside',
           \A c \in Consumers : Owed(c)' \subseteq Owed(c)
    PROVE  CycleInv'
PROOF
<1>1. \A c \in Consumers : OneCycle(c)'
    BY Zenon DEF CycleInv, OneCycle
<1> QED
    BY Zenon, <1>1 DEF CycleInv

-----------------------------------------------------------------------------

\* The invariant holds at first: an empty stream, no group, no process.
LEMMA InitIInv == StreamsInit => IInv
PROOF
<1> SUFFICES ASSUME StreamsInit PROVE IInv
    BY Zenon
<1>1. ServerInv
    BY StreamConfigAssumption
       DEF StreamsInit, ServerInv, StreamNothingLost, NoGroup, Ids
<1>2. CycleInv
  <2>1. \A c \in Consumers : OneCycle(c)
    BY FS_EmptySet, StreamConfigAssumption DEF StreamsInit, OneCycle
  <2> QED
    BY <2>1, StreamConfigAssumption DEF StreamsInit, CycleInv
<1> QED
    BY Zenon, <1>1, <1>2 DEF IInv

\* Every step keeps the invariant.
LEMMA NextIInv == IInv /\ [StreamsNext]_streamsVars => IInv'
PROOF
<1> SUFFICES ASSUME IInv, [StreamsNext]_streamsVars PROVE IInv'
    BY Zenon
<1>1. CASE AppendEntry
  <2>1. ServerInv'
    BY Zenon, <1>1, AppendEntryKeeps DEF IInv
  <2>2. (\A c \in Consumers : Owed(c)' = Owed(c)) /\ Aside \subseteq Aside'
    BY Zenon, <1>1 DEF AppendEntry, Owed, Aside
  <2>3. CycleInv'
    BY Zenon, <1>1, <2>2, CyclesUntouched DEF AppendEntry, IInv, CycleInv
  <2> QED
    BY Zenon, <2>1, <2>3 DEF IInv
<1>2. CASE DestroyStream
  <2>1. ServerInv' /\ DOMAIN pel' = {}
    BY Zenon, <1>2, DestroyStreamKeeps DEF IInv
  <2>2. (\A c \in Consumers : Owed(c)' = {}) /\ Aside \subseteq Aside'
    BY Zenon, <1>2, <2>1 DEF DestroyStream, Owed, Aside
  <2>3. streamFaults' \in 0..MaxStreamFaults
    BY <1>2, StreamConfigAssumption DEF DestroyStream, IInv, CycleInv
  <2>4. CycleInv'
    BY Zenon, <1>2, <2>2, <2>3, CyclesUntouched DEF DestroyStream, IInv
  <2> QED
    BY Zenon, <2>1, <2>4 DEF IInv
<1>3. CASE StreamTick
  <2>1. ServerInv' /\ \A c \in Consumers : Owed(c)' = Owed(c)
    BY Zenon, <1>3, StreamTickKeeps DEF IInv
  <2>2. Aside' = Aside
    BY Zenon, <1>3 DEF StreamTick, Aside
  <2>3. CycleInv'
    BY Zenon, <1>3, <2>1, <2>2, CyclesUntouched DEF StreamTick, IInv, CycleInv
  <2> QED
    BY Zenon, <2>1, <2>3 DEF IInv
<1>4. ASSUME NEW i \in Ids, DeleteEntry(i) PROVE IInv'
  <2>1. ServerInv'
    BY Zenon, <1>4, DeleteEntryKeeps DEF IInv
  <2>2. (\A c \in Consumers : Owed(c)' = Owed(c)) /\ Aside \subseteq Aside'
    BY Zenon, <1>4 DEF DeleteEntry, Owed, Aside
  <2>3. streamFaults' \in 0..MaxStreamFaults
    BY <1>4, StreamConfigAssumption DEF DeleteEntry, IInv, CycleInv
  <2>4. CycleInv'
    BY Zenon, <1>4, <2>2, <2>3, CyclesUntouched DEF DeleteEntry, IInv
  <2> QED
    BY Zenon, <2>1, <2>4 DEF IInv
<1>5. ASSUME NEW c \in Consumers, RunnerStep(c) PROVE IInv'
    BY Zenon, <1>5, StartGroupKeeps, ScanStalledKeeps, ClaimStalledKeeps, ReadNewKeeps,
       HandleMessageKeeps, DeadLetterKeeps, AckCycleKeeps, GroupVanishedKeeps,
       BackOffCycleKeeps, RetireConsumerKeeps, RemoveConsumerKeeps, StartRunnerKeeps
       DEF RunnerStep
<1>6. ASSUME NEW c \in Consumers, CommandFails(c) \/ CancelRunner(c) \/ CrashRunner(c)
      PROVE  IInv'
    BY Zenon, <1>6, InterruptedKeeps
<1>7. CASE UNCHANGED streamsVars
  <2>1. ServerInv'
    BY Zenon, <1>7 DEF streamsVars, serverVars, IInv, ServerInv, StreamNothingLost, Accounted
  <2>2. (\A c \in Consumers : Owed(c)' = Owed(c)) /\ Aside \subseteq Aside'
    BY Zenon, <1>7 DEF streamsVars, serverVars, Owed, Aside
  <2>3. CycleInv'
    BY Zenon, <1>7, <2>2, CyclesUntouched DEF streamsVars, serverVars, IInv, CycleInv
  <2> QED
    BY Zenon, <2>1, <2>3 DEF IInv
<1> QED
    BY Zenon, <1>1, <1>2, <1>3, <1>4, <1>5, <1>6, <1>7 DEF StreamsNext

\* The inductive invariant holds throughout.
THEOREM Invariance == StreamsSpec => []IInv
PROOF
    BY InitIInv, NextIInv, PTL DEF StreamsSpec

\* The server's books and the runners' cycles keep their types: no batch outgrows the
\* read's or the claim's limit, whichever mix of the two filled it.
THEOREM StreamsTypeCorrect == StreamsSpec => []StreamsTypeOK
PROOF
<1>1. IInv => StreamsTypeOK
  <2> SUFFICES ASSUME IInv PROVE StreamsTypeOK
    BY Zenon
  <2>1. 1..lastId \subseteq Ids /\ 0..lastId \subseteq 0..MaxEntries
    BY StreamConfigAssumption DEF IInv, ServerInv, Ids
  <2>2. Range(pel) \subseteq Pending
    BY Zenon DEF IInv, ServerInv, Range
  <2>3. \A c \in Consumers :
            /\ scanned[c] \subseteq Messages /\ batch[c] \in Seq(Messages)
            /\ Len(batch[c]) <= BatchSize \/ Len(batch[c]) <= ClaimBatch
            /\ acked[c] \in SUBSET Ids
    BY Zenon DEF IInv, CycleInv, OneCycle
  <2> QED
    BY Zenon, <2>1, <2>2, <2>3 DEF IInv, ServerInv, CycleInv, StreamsTypeOK, Pending
<1> QED
    BY <1>1, Invariance, PTL

\* No message is lost: failed cycles, lost answers, claims from a scan that has aged,
\* cancelled runners and crashes leave every entry handled, copied aside, given up,
\* pending, or still to be read.
THEOREM NothingIsLost == StreamsSpec => []StreamNothingLost
PROOF
<1>1. IInv => StreamNothingLost
    BY Zenon DEF IInv, ServerInv
<1> QED
    BY <1>1, Invariance, PTL
=============================================================================
