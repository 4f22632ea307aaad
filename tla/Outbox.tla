------------------------------- MODULE Outbox -------------------------------
(***************************************************************************)
(* The transactional outbox (src/outbox) between the transactions that      *)
(* publish events and the event bus (src/events/bus.py) of each process     *)
(* that runs a relay, with the start and the shutdown of src/main.py.       *)
(*                                                                         *)
(* `ready` lists the committed rows whose available_at has passed, in the   *)
(* order the claim reads them; `wait` is the time until the others join it. *)
(* now() is the start of a transaction: a row may therefore enter the list  *)
(* ahead of rows that became available while its transaction ran.           *)
(***************************************************************************)
EXTENDS Integers, Sequences, FiniteSets, Functions

CONSTANTS
    Events,
    Relays,        \* processes, each with its event bus and its relay
    Subscribers,   \* DEFAULT_SUBSCRIBERS
    Wants,         \* EventBus.subscribers_for: who observes each event
    Undecodable,   \* events whose row OutboxCodec.decode refuses
    BatchSize,     \* RelayConfig.batch_size
    MaxDelay,      \* RelayConfig.retry_max_delay
    MaxFaults      \* bound: crashes, shutdowns, failed dispatches and batches

ASSUME EventsFinite == IsFiniteSet(Events)
ASSUME WantsAssumption == Wants \in [Events -> SUBSET Subscribers] /\ Undecodable \subseteq Events
ASSUME RelayAssumption == BatchSize \in Nat \ {0} /\ MaxDelay \in Nat \ {0}
ASSUME FaultAssumption == MaxFaults \in Nat

VARIABLES
    row,       \* each event's row, as committed
    wait,      \* its available_at, from now
    ready,
    proc,      \* each process: down, relaying, or its relay stopped
    bus,       \* the subscribers registered on its bus
    batch,     \* the rows its relay's transaction has claimed and locked
    verdicts,  \* the outcomes the transaction has written for the first of them
    seen,      \* the rows that were available when the transaction began
    running,   \* the subscribers still handling the row in hand
    failed,    \* one of them has failed
    got,       \* history: how often each subscriber handled each event, up to 2
    excused,   \* history: a delivery of the event was disturbed
    faults

rowVars == <<row, wait, ready>>
procVars == <<proc, bus>>
dispatchVars == <<running, failed>>
relayVars == <<batch, verdicts, seen, running, failed>>
vars == <<rowVars, procVars, relayVars, got, excused, faults>>

TypeOK ==
    /\ row \in [Events -> {"absent", "uncommitted", "stored", "delivered", "rolled_back"}]
    /\ wait \in [Events -> 0..MaxDelay]
    /\ IsInjective(ready)
    /\ Range(ready) = {e \in Events : row[e] = "stored" /\ wait[e] = 0}
    /\ proc \in [Relays -> {"down", "relaying", "stopped"}]
    /\ bus \in [Relays -> SUBSET Subscribers]
    /\ \A r \in Relays :
        /\ Range(batch[r]) \subseteq Events /\ Len(batch[r]) <= BatchSize
        /\ Range(verdicts[r]) \subseteq {"complete", "fail"}
        /\ Len(verdicts[r]) <= Len(batch[r])
        /\ seen[r] \subseteq Events /\ running[r] \subseteq bus[r]
    /\ failed \in [Relays -> BOOLEAN]
    /\ got \in [Events -> [Subscribers -> 0..2]]
    /\ excused \subseteq Events /\ faults \in 0..MaxFaults

Init ==
    /\ row = [e \in Events |-> "absent"] /\ wait = [e \in Events |-> 0] /\ ready = <<>>
    /\ proc = [r \in Relays |-> "down"] /\ bus = [r \in Relays |-> {}]
    /\ batch = [r \in Relays |-> <<>>] /\ verdicts = [r \in Relays |-> <<>>]
    /\ seen = [r \in Relays |-> {}]
    /\ running = [r \in Relays |-> {}] /\ failed = [r \in Relays |-> FALSE]
    /\ got = [e \in Events |-> [s \in Subscribers |-> 0]]
    /\ excused = {} /\ faults = 0

Fault == faults < MaxFaults /\ faults' = faults + 1

Precedes(q, a, b) == \E i, j \in DOMAIN q : i < j /\ q[i] = a /\ q[j] = b

\* The orders in which `new` rows join the rows `kept` of the list, none ahead of the
\* rows `first`.
Merges(kept, new, first) ==
    {q \in Bijection(1..Cardinality(kept \cup new), kept \cup new) :
        /\ \A a, b \in kept \ new : Precedes(ready, a, b) => Precedes(q, a, b)
        /\ \A i, j \in DOMAIN q : q[i] \in new /\ q[j] \in first \ new => j < i}

-----------------------------------------------------------------------------
(* Requests.                                                               *)

\* OutboxPublisher.publish: the row joins the caller's transaction.
Publish(e) ==
    /\ row[e] = "absent"
    /\ row' = [row EXCEPT ![e] = "uncommitted"]
    /\ UNCHANGED <<wait, ready, procVars, relayVars, got, excused, faults>>

\* The transaction ends.
EndRequest(e) ==
    /\ row[e] = "uncommitted"
    /\ \/ /\ row' = [row EXCEPT ![e] = "stored"]
          /\ ready' \in Merges(Range(ready), {e}, {})
       \/ /\ row' = [row EXCEPT ![e] = "rolled_back"]
          /\ UNCHANGED ready
    /\ UNCHANGED <<wait, procVars, relayVars, got, excused, faults>>

\* Time passes on the database's clock.
Tick ==
    /\ \E e \in Events : wait[e] > 0
    /\ wait' = [e \in Events |-> IF wait[e] > 0 THEN wait[e] - 1 ELSE 0]
    /\ ready' \in Merges(Range(ready), {e \in Events : wait[e] = 1}, Range(ready))
    /\ UNCHANGED <<row, procVars, relayVars, got, excused, faults>>

-----------------------------------------------------------------------------
(* The relay's transaction: claim, dispatch, outcomes, commit.              *)

Locked == UNION {Range(batch[r]) : r \in Relays}
Claimed(r) == Len(batch[r])
InHand(r) == batch[r][Len(verdicts[r]) + 1]
Dispatching(r) == proc[r] = "relaying" /\ Len(verdicts[r]) < Claimed(r)

\* The subscribers that _deliver's publish starts; an undecodable row starts none.
Dispatched(r, e) == IF e \in Undecodable THEN {} ELSE Wants[e] \cap bus[r]

\* mutant: without SKIP LOCKED's lock a row is claimed by everyone.
ClaimableTwice(r) == Range(ready)

\* mutant: the claim sees rows before they are committed.
ClaimableDirty(r) ==
    {e \in Events : row[e] \in {"stored", "uncommitted"} /\ e \notin Locked}

\* FOR UPDATE SKIP LOCKED: the available rows nobody has locked.
Claimable(r) == Range(ready) \ Locked

\* ORDER BY available_at LIMIT batch_size: the first of `rows` in the list's order.
Firsts(rows) ==
    LET n == IF BatchSize < Cardinality(rows) THEN BatchSize ELSE Cardinality(rows)
    IN  {q \in [1..n -> rows] :
            /\ \A i, j \in 1..n : i < j => Precedes(ready, q[i], q[j])
            /\ \A i \in 1..n, e \in rows \ Range(q) : Precedes(ready, q[i], e)}

\* drain_once opens its transaction and claims; nothing happens when it gets nothing.
Claim(r) ==
    /\ proc[r] = "relaying" /\ batch[r] = <<>>
    /\ Claimable(r) # {}
    /\ \E taken \in Firsts(Claimable(r)) :
        /\ batch' = [batch EXCEPT ![r] = taken]
        /\ running' = [running EXCEPT ![r] = Dispatched(r, taken[1])]
    /\ seen' = [seen EXCEPT ![r] = Range(ready)]
    /\ UNCHANGED <<rowVars, procVars, verdicts, failed, got, excused, faults>>

\* A handler's effect happens.
Got(e, ss) ==
    got' = [got EXCEPT ![e] = [s \in Subscribers |->
                IF s \in ss /\ @[s] < 2 THEN @[s] + 1 ELSE @[s]]]

\* A subscriber returns.
SubscriberEnds(r, s) ==
    /\ Dispatching(r) /\ s \in running[r]
    /\ running' = [running EXCEPT ![r] = @ \ {s}]
    /\ Got(InHand(r), {s})
    /\ UNCHANGED <<rowVars, procVars, batch, verdicts, seen, failed, excused, faults>>

\* _invoke: a subscriber raises or runs into its timeout, its effect done or not; the
\* others go on.
SubscriberFails(r, s) ==
    /\ Dispatching(r) /\ s \in running[r] /\ Fault
    /\ running' = [running EXCEPT ![r] = @ \ {s}]
    /\ failed' = [failed EXCEPT ![r] = TRUE]
    /\ Got(InHand(r), {s}) \/ UNCHANGED got
    /\ UNCHANGED <<rowVars, procVars, batch, verdicts, seen, excused>>

\* The outcome of the row in hand is written and the next row is dispatched.
Outcome(r, verdict) ==
    /\ verdicts' = [verdicts EXCEPT ![r] = Append(@, verdict)]
    /\ failed' = [failed EXCEPT ![r] = FALSE]
    /\ running' = [running EXCEPT ![r] =
                    IF Len(verdicts[r]) + 1 = Claimed(r) THEN {}
                    ELSE Dispatched(r, batch[r][Len(verdicts[r]) + 2])]
    /\ excused' = IF verdict = "fail" THEN excused \cup {InHand(r)} ELSE excused

\* mutant: the bus's report of failed subscribers is ignored.
IgnoresReport(r) == InHand(r) \notin Undecodable

\* _deliver returns: the row was decoded and raise_for_failures had nothing to raise.
Delivered(r) == InHand(r) \notin Undecodable /\ ~failed[r]

\* _handle, once every subscriber has ended.
Conclude(r) ==
    /\ Dispatching(r) /\ running[r] = {}
    /\ Outcome(r, IF Delivered(r) THEN "complete" ELSE "fail")
    /\ UNCHANGED <<rowVars, procVars, batch, seen, got, faults>>

\* wait_for gives up on the dispatch: the handlers are cancelled, some too late.
DispatchTimesOut(r) ==
    /\ Dispatching(r) /\ running[r] # {} /\ Fault
    /\ \E ss \in SUBSET running[r] : Got(InHand(r), ss)
    /\ Outcome(r, "fail")
    /\ UNCHANGED <<rowVars, procVars, batch, seen>>

\* The transaction is over and its locks are free.
EndBatch(r) ==
    /\ batch' = [batch EXCEPT ![r] = <<>>] /\ verdicts' = [verdicts EXCEPT ![r] = <<>>]
    /\ seen' = [seen EXCEPT ![r] = {}]
    /\ running' = [running EXCEPT ![r] = {}] /\ failed' = [failed EXCEPT ![r] = FALSE]

\* mutant: a failed row keeps its place.
KeepsPlace(r, again, later) ==
    /\ ready' \in Merges({e \in Range(ready) :
            \A i \in 1..Claimed(r) : batch[r][i] = e => verdicts[r][i] = "fail"}, {}, {})
    /\ UNCHANGED wait

\* mutant: complete leaves the row among the available ones.
ForgetsDelete(r, again, later) == UNCHANGED <<wait, ready>>

\* complete deletes a row; fail moves its available_at to the transaction's start plus
\* the backoff: `later` rows are not available yet, rows due `again` already are, and
\* come after all rows that were available at that start.
Reschedule(r, again, later) ==
    /\ wait' = [e \in Events |-> IF e \in DOMAIN later THEN later[e] ELSE wait[e]]
    /\ ready' \in Merges(Range(ready) \ Range(batch[r]), again, seen[r])

\* session_batches commits.
CommitBatch(r) ==
    /\ proc[r] = "relaying" /\ batch[r] # <<>> /\ Len(verdicts[r]) = Claimed(r)
    /\ LET with(v) == {batch[r][i] : i \in {j \in 1..Claimed(r) : verdicts[r][j] = v}}
       IN  /\ row' = [e \in Events |-> IF e \in with("complete") THEN "delivered" ELSE row[e]]
           /\ \E again \in SUBSET with("fail") :
                \E later \in [with("fail") \ again -> 1..MaxDelay] : Reschedule(r, again, later)
    /\ EndBatch(r)
    /\ UNCHANGED <<procVars, got, excused, faults>>

\* The transaction rolls back.
Rollback(r) == EndBatch(r) /\ excused' = excused \cup Range(batch[r])

\* A statement or the commit fails: _loop backs off and carries on.
BatchFails(r) ==
    /\ batch[r] # <<>> /\ Fault
    /\ Rollback(r)
    /\ UNCHANGED <<rowVars, procVars, got>>

-----------------------------------------------------------------------------
(* Processes (lifespan).                                                   *)

\* register_default_subscribers, then the relay.
Startup(r) ==
    /\ proc[r] = "down"
    /\ proc' = [proc EXCEPT ![r] = "relaying"]
    /\ bus' = [bus EXCEPT ![r] = Subscribers]
    /\ UNCHANGED <<rowVars, relayVars, got, excused, faults>>

\* OutboxRelay.stop: the task is cancelled and the batch in flight rolled back.
StopRelay(r) ==
    /\ proc[r] = "relaying" /\ Fault
    /\ proc' = [proc EXCEPT ![r] = "stopped"]
    /\ Rollback(r)
    /\ UNCHANGED <<rowVars, bus, got>>

\* event_bus.clear, and the end of the process.
ClearBus(r) ==
    /\ proc[r] = "stopped"
    /\ proc' = [proc EXCEPT ![r] = "down"]
    /\ bus' = [bus EXCEPT ![r] = {}]
    /\ UNCHANGED <<rowVars, relayVars, got, excused, faults>>

\* The process dies.
Crash(r) ==
    /\ proc[r] # "down" /\ Fault
    /\ proc' = [proc EXCEPT ![r] = "down"] /\ bus' = [bus EXCEPT ![r] = {}]
    /\ Rollback(r)
    /\ UNCHANGED <<rowVars, got>>

DispatchStep(r) ==
    Conclude(r) \/ DispatchTimesOut(r) \/ \E s \in Subscribers : SubscriberEnds(r, s)

Next ==
    \/ Tick
    \/ \E e \in Events : Publish(e) \/ EndRequest(e)
    \/ \E r \in Relays :
        \/ Startup(r) \/ StopRelay(r) \/ ClearBus(r) \/ Crash(r)
        \/ Claim(r) \/ DispatchStep(r) \/ CommitBatch(r) \/ BatchFails(r)
        \/ \E s \in Subscribers : SubscriberFails(r, s)

Spec == Init /\ [][Next]_vars

\* The database's clock runs, a process that went away is started again, and its event
\* loop and the database carry a batch on: dispatch_timeout bounds every handler.
\* Nothing obliges a request to publish or a fault to happen.
Fairness ==
    /\ WF_vars(Tick)
    /\ \A r \in Relays :
        /\ WF_vars(Startup(r)) /\ WF_vars(ClearBus(r)) /\ WF_vars(Claim(r))
        /\ WF_vars(DispatchStep(r)) /\ WF_vars(CommitBatch(r))

FairSpec == Spec /\ Fairness

-----------------------------------------------------------------------------
\* A row is deleted only after every subscriber of its event has handled it, whatever
\* failed, crashed or was shut down meanwhile ("deleting each one only once it has been
\* delivered").
DeliveredToAll ==
    \A e \in Events : row[e] = "delivered" => \A s \in Wants[e] : got[e][s] > 0

\* Nothing reacts to a transaction that was rolled back or is still open.
OnlyCommitted ==
    \A e \in Events, s \in Subscribers :
        got[e][s] > 0 => row[e] \in {"stored", "delivered"}

\* A subscriber handles an event twice only after a delivery of it failed or a relay
\* was interrupted: relays that run side by side repeat nothing.
RepeatsAreExplained ==
    \A e \in Events : (\E s \in Subscribers : got[e][s] > 1) => e \in excused

\* Rows that can never be delivered hold up no other, even when they can fill a batch:
\* the backoff "pushes it behind everything that is ready".
PoisonDoesNotStarve ==
    \A e \in Events \ Undecodable : row[e] = "stored" ~> row[e] = "delivered"
=============================================================================
