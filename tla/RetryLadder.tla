----------------------------- MODULE RetryLadder -----------------------------
(***************************************************************************)
(* The dead-letter ladder of src/dlq over the consumers of src/kafka, as    *)
(* create_dead_letter_runners assembles it, with the drain of the           *)
(* dead-letter topic (replay_handler) as a third consumer group.            *)
(*                                                                         *)
(* Topic 0 is the origin, 1..Tiers the retry tiers, Tiers + 1 the           *)
(* dead-letter topic.  Every record waits in its log with the time it still *)
(* has to wait (`not_before` minus now), so no clock is needed.             *)
(*                                                                         *)
(* A fault is anything the code answers by doing work again: a runner       *)
(* cancelled or killed, a publish that fails, a handler over its timeout, a *)
(* commit that fails.                                                       *)
(***************************************************************************)
EXTENDS ConsumerRunner

CONSTANTS
    Tiers,          \* RetryPolicy.tiers
    Delay,          \* tier_delay, by tier
    MaxReplays,     \* DeadLetterReplayer.max_replays
    Bare,           \* the records that come without key and value
    MaxProduced,    \* bound: records the application produces
    MaxFaults       \* bound: faults

\* RetryPolicy.__post_init__: a multiplier of at least 1 makes the waits rise.
ASSUME LadderAssumption ==
    /\ Tiers \in Nat /\ Topics = 0..(Tiers + 1)
    /\ Delay \in [1..Tiers -> Nat \ {0}]
    /\ \A i, j \in 1..Tiers : i <= j => Delay[i] <= Delay[j]
ASSUME ReplayAssumption == MaxReplays \in Nat
ASSUME LadderBounds == MaxProduced \in Nat /\ MaxFaults \in Nat
ASSUME LadderGroups ==
    /\ Groups = {"origin", "retry", "replay"}
    /\ Subscription = [g \in Groups |-> CASE g = "origin" -> {0}
                                          [] g = "retry" -> 1..Tiers
                                          [] g = "replay" -> {Tiers + 1}]

VARIABLES
    outgoing,  \* the record each runner has handed to its publisher
    produced,  \* records the application has produced
    faults,
    handled,   \* history: records some handler has returned from
    tries,     \* history: how often each record's handler has failed
    dealt      \* history: the offsets of each partition that were dealt with

historyVars == <<handled, tries, dealt>>
vars == <<brokerVars, runnerVars, outgoing, produced, faults, historyVars>>

Ids == 1..MaxProduced
DeadLetterTopic == Tiers + 1
NoPublish == [to |-> 0, record |-> <<>>]

\* plain: no x-dlq-attempts header; failed: a readable envelope.
Forms == {"plain", "failed", "unreadable"}

\* A record and what its headers say: the envelope's attempts, the rest of its
\* not_before and its origin topic, the replay count and the synthetic-key flag.
Records ==
    [id : Ids, form : Forms, attempts : 0..(Tiers + 1), wait : Nat, origin : Topics,
     replays : 0..MaxReplays, key : {"own", "none", "synthetic"}, flagged : BOOLEAN]

Produced(i, form) ==
    [id |-> i, form |-> form, attempts |-> 0, wait |-> 0, origin |-> 0, replays |-> 0,
     key |-> IF i \in Bare THEN "none" ELSE "own", flagged |-> FALSE]

TypeOK ==
    /\ BrokerTypeOK /\ RunnerTypeOK
    /\ \A p \in Partitions : \A i \in 1..Len(log[p]) : log[p][i] \in Records
    /\ \A m \in Members : outgoing[m] # NoPublish => outgoing[m].record \in Records
    /\ produced \in 0..MaxProduced /\ faults \in 0..MaxFaults
    /\ handled \subseteq Ids /\ tries \in [Ids -> 0..(Tiers + 1)]
    /\ \A p \in Partitions : dealt[p] \subseteq 0..(Len(log[p]) - 1)

Init ==
    /\ BrokerInit /\ RunnerInit
    /\ outgoing = [m \in Members |-> NoPublish]
    /\ produced = 0 /\ faults = 0
    /\ handled = {} /\ tries = [i \in Ids |-> 0] /\ dealt = [p \in Partitions |-> {}]

-----------------------------------------------------------------------------
\* _Topic.partition_for: a stable hash of the key.
PartitionFor(t, i) == <<t, i % Width[t]>>

Fault == faults < MaxFaults /\ faults' = faults + 1

\* The application, or a foreign producer: on the origin topic, or by hand on a tier,
\* with headers that may be unreadable.
Produce(t, form) ==
    /\ produced < MaxProduced
    /\ produced' = produced + 1
    /\ AppendTo(PartitionFor(t, produced'), Produced(produced', form))
    /\ UNCHANGED <<committed, members, position, runnerVars, outgoing, faults, historyVars>>

-----------------------------------------------------------------------------
(* The handler of the record in hand returns or raises.                     *)

\* with_due_time: a record without an envelope is always due.
Due(m) == InHand(m).form # "failed" \/ InHand(m).wait = 0

\* The application's handler gets to see the record.
Reaches(m) ==
    /\ pc[m] = "handle" /\ GroupOf[m] # "replay"
    /\ GroupOf[m] = "retry" => InHand(m).form # "unreadable" /\ Due(m)

DealtWith(m) == dealt' = [dealt EXCEPT ![Current(m)] = @ \cup {CurrentOffset(m)}]

HandlerReturns(m) ==
    /\ Reaches(m)
    /\ Finish(m)
    /\ handled' = handled \cup {InHand(m).id}
    /\ DealtWith(m)
    /\ UNCHANGED <<log, committed, members, outgoing, produced, faults, tries>>

\* mutant: a failed record always starts at the first tier.
DestinationFirst(attempts) == IF Tiers = 0 THEN DeadLetterTopic ELSE 1

\* RetryLadder.destination.
Destination(attempts) == IF attempts > Tiers THEN DeadLetterTopic ELSE attempts

\* _republish_key and stamp: only a record without key and value gets a flag, and
\* stamp strips the flag of an earlier hop with the other x-dlq- headers.
Rekeyed(r) ==
    [r EXCEPT !.key = IF r.key = "none" THEN "synthetic" ELSE r.key,
              !.flagged = r.key = "none"]

\* advance, for a record that fails on its way to topic `to`; an unreadable envelope is
\* replaced by a fresh one about the topic in hand.
Advance(r, from, to) ==
    LET wait == IF to = DeadLetterTopic THEN 0 ELSE Delay[to]
    IN  CASE r.form = "failed" -> [Rekeyed(r) EXCEPT !.attempts = @ + 1, !.wait = wait]
          [] r.form = "plain" -> [Rekeyed(r) EXCEPT !.form = "failed", !.attempts = 1,
                                                    !.wait = wait, !.origin = 0]
          [] OTHER -> [Rekeyed(r) EXCEPT !.form = "failed", !.attempts = 1, !.wait = 0,
                                         !.origin = from, !.replays = 0]

Publishing(m, topic, r) ==
    /\ outgoing' = [outgoing EXCEPT ![m] = [to |-> topic, record |-> r]]
    /\ pc' = [pc EXCEPT ![m] = "publish"]
    /\ UNCHANGED <<brokerVars, todo, earned, produced, faults, handled, dealt>>

\* route, up to its publish: a permanent failure and an unreadable envelope skip the
\* ladder.
RouteOnward(m, permanent) ==
    LET r == InHand(m)
        to == IF permanent \/ r.form = "unreadable" THEN DeadLetterTopic
              ELSE Destination(r.attempts + 1)
    IN  Publishing(m, to, Advance(r, Current(m)[1], to))

HandlerRaises(m, permanent) ==
    /\ Reaches(m)
    /\ RouteOnward(m, permanent)
    /\ tries' = [tries EXCEPT ![InHand(m).id] = IF @ > Tiers THEN @ ELSE @ + 1]

\* MalformedEnvelopeError out of with_due_time, routed without the handler.
CannotRead(m) ==
    /\ pc[m] = "handle" /\ GroupOf[m] = "retry" /\ InHand(m).form = "unreadable"
    /\ RouteOnward(m, FALSE)
    /\ UNCHANGED tries

\* mutant: RetryAfter is routed like any other exception.
RoutesEarly(m) ==
    /\ pc[m] = "handle" /\ GroupOf[m] = "retry" /\ InHand(m).form # "unreadable"
    /\ ~Due(m)
    /\ RouteOnward(m, FALSE)
    /\ UNCHANGED tries

\* RetryAfter out of with_due_time, which with_dead_letter lets through.
Defer(m) ==
    /\ pc[m] = "handle" /\ GroupOf[m] = "retry" /\ InHand(m).form # "unreadable"
    /\ ~Due(m)
    /\ Stall(m)
    /\ UNCHANGED <<log, committed, members, outgoing, produced, faults, historyVars>>

\* The handler, or the publish in it, is cut by wait_for: TimeoutError, not routed.
HandlerTimesOut(m) ==
    /\ Reaches(m) /\ Fault
    /\ Stall(m)
    /\ UNCHANGED <<log, committed, members, outgoing, produced, historyVars>>

-----------------------------------------------------------------------------
(* replay_handler.                                                          *)

\* The refusals of DeadLetterReplayer.replay: no envelope, an unreadable one, a
\* synthesised key, an origin that is itself a ladder topic, too many replays.
Refused(r) ==
    r.form # "failed" \/ r.flagged \/ r.origin # 0 \/ r.replays >= MaxReplays

Replay(m) ==
    LET r == InHand(m)
    IN  /\ pc[m] = "handle" /\ GroupOf[m] = "replay" /\ ~Refused(r)
        /\ Publishing(m, 0, [r EXCEPT !.form = "plain", !.attempts = 0, !.wait = 0,
                                      !.replays = @ + 1, !.flagged = FALSE])
        /\ UNCHANGED tries

ReplayRefused(m) ==
    /\ pc[m] = "handle" /\ GroupOf[m] = "replay" /\ Refused(InHand(m))
    /\ Finish(m)
    /\ DealtWith(m)
    /\ UNCHANGED <<log, committed, members, outgoing, produced, faults, handled, tries>>

-----------------------------------------------------------------------------
(* The publish the handler awaits.                                          *)

\* The broker takes the record.  Nobody may be waiting for it any more.
Land(m) ==
    /\ outgoing[m] # NoPublish
    /\ AppendTo(PartitionFor(outgoing[m].to, outgoing[m].record.id), outgoing[m].record)
    /\ outgoing' = [outgoing EXCEPT ![m] = NoPublish]
    /\ UNCHANGED <<committed, members, position, runnerVars, produced, faults, historyVars>>

\* Acknowledged: the handler returns, so the runner goes past the record.
Published(m) ==
    /\ pc[m] = "publish" /\ outgoing[m] = NoPublish
    /\ Finish(m)
    /\ DealtWith(m)
    /\ UNCHANGED <<log, committed, members, outgoing, produced, faults, handled, tries>>

\* What nobody waits for any more is on its way, or will never land.
Forsake(m) == outgoing' \in {outgoing, [outgoing EXCEPT ![m] = NoPublish]}

\* mutant: the record is taken for routed although the publish failed.
SwallowsError(m) == Finish(m)

\* PublishError, or the handler's timeout, reaches the runner.
OnPublishError(m) == Stall(m)

PublishFails(m) ==
    /\ pc[m] = "publish" /\ Fault
    /\ Forsake(m)
    /\ OnPublishError(m)
    /\ UNCHANGED <<log, committed, members, produced, historyVars>>

-----------------------------------------------------------------------------
Restart(m) ==
    /\ Join(m)
    /\ UNCHANGED <<outgoing, produced, faults, historyVars>>

\* The runner is cancelled or killed.
Leave(m) ==
    /\ Fault
    /\ Quit(m)
    /\ Forsake(m)
    /\ UNCHANGED <<produced, historyVars>>

PollOnce(m) == Poll(m) /\ UNCHANGED <<outgoing, produced, faults, historyVars>>
CommitOnce(m) == Commit(m) /\ UNCHANGED <<outgoing, produced, faults, historyVars>>
CommitLost(m) == CommitFails(m) /\ Fault /\ UNCHANGED <<outgoing, produced, historyVars>>

Aged(r) == [r EXCEPT !.wait = IF @ > 0 THEN @ - 1 ELSE 0]

\* Time passes for every record that is not due yet.
Tick ==
    /\ \/ \E p \in Partitions : \E i \in DOMAIN log[p] : log[p][i].wait > 0
       \/ \E m \in Members : outgoing[m] # NoPublish /\ outgoing[m].record.wait > 0
    /\ log' = [p \in Partitions |-> [i \in DOMAIN log[p] |-> Aged(log[p][i])]]
    /\ outgoing' = [m \in Members |->
            IF outgoing[m] = NoPublish THEN NoPublish
            ELSE [outgoing[m] EXCEPT !.record = Aged(@)]]
    /\ UNCHANGED <<committed, members, position, runnerVars, produced, faults, historyVars>>

\* The record in hand gets an answer.
HandleOne(m) ==
    \/ HandlerReturns(m) \/ Defer(m) \/ CannotRead(m) \/ Replay(m) \/ ReplayRefused(m)
    \/ \E permanent \in BOOLEAN : HandlerRaises(m, permanent)

Next ==
    \/ Tick
    \/ \E t \in 0..Tiers, form \in {"plain", "unreadable"} : Produce(t, form)
    \/ \E m \in Members :
        \/ Restart(m) \/ PollOnce(m) \/ HandleOne(m) \/ Land(m) \/ Published(m)
        \/ CommitOnce(m)
        \/ HandlerTimesOut(m) \/ PublishFails(m) \/ CommitLost(m) \/ Leave(m)

Spec == Init /\ [][Next]_vars

\* The event loop runs every ready step, the broker answers, time passes, and a runner
\* that went away is started again.  Nothing obliges the application to produce, a
\* handler to succeed or a fault to happen.
Fairness ==
    /\ WF_vars(Tick)
    /\ \A m \in Members :
        /\ WF_vars(Restart(m)) /\ WF_vars(PollOnce(m)) /\ WF_vars(HandleOne(m))
        /\ WF_vars(Land(m)) /\ WF_vars(Published(m)) /\ WF_vars(CommitOnce(m))

FairSpec == Spec /\ Fairness

-----------------------------------------------------------------------------
DeadLettered(i) ==
    \E p \in Partitions : p[1] = DeadLetterTopic /\ \E k \in DOMAIN log[p] : log[p][k].id = i

\* Copies of record i that its group still has to read.
Ahead(i) ==
    {p \in Partitions : \E k \in DOMAIN log[p] : log[p][k].id = i /\ k > StartingPosition(p)}

\* "A record is never dropped" (router.py): whatever is cancelled, killed, lost or
\* repeated, and however partitions move, a record was handled, or is ahead of some
\* group, or is kept in the dead-letter topic.
NeverDropped ==
    \A i \in 1..produced : i \in handled \/ DeadLettered(i) \/ Ahead(i) # {}

\* A partition is dealt with in offset order and committed only as far as that: no
\* record is handled or routed before the ones in front of it, and no commit covers
\* one that was neither.
InOffsetOrder ==
    \A p \in Partitions :
        /\ \A o \in dealt[p] : 0..o \subseteq dealt[p]
        /\ committed[p] <= Cardinality(dealt[p])

\* A record has moved down the ladder only as often as its handler has failed: waiting
\* for its due time, or being looked at, costs no attempt.
AttemptsWereMade ==
    \A p \in Partitions : \A k \in DOMAIN log[p] :
        LET r == log[p][k]
        IN  r.form = "failed" /\ r.origin = 0 => r.attempts <= tries[r.id]

\* Every record is handled or dead-lettered in the end, once the faults are over: the
\* ladder has an end, and no failing record stalls its partition for good.
EverythingSettles ==
    \A i \in Ids : (produced >= i) ~> (i \in handled \/ DeadLettered(i))

\* "replay refuses to put a flagged record back": a record is never back on the origin
\* topic under a key it was given by the router.
ReplayKeepsKeys ==
    \A p \in Partitions : \A k \in DOMAIN log[p] :
        p[1] = 0 => log[p][k].key # "synthetic"
=============================================================================
