------------------------------ MODULE Bulkhead ------------------------------
(***************************************************************************)
(* One origin's compartment (src/resilience/bulkhead.py): `limit` calls in  *)
(* flight, `max_queue` waiting on futures, a slot handed from the caller    *)
(* that releases it to the head of the queue.                               *)
(*                                                                         *)
(* A waiting call ends in two steps of the event loop.  First its future is *)
(* done: served ("handed"), failed by reset ("failed"), or cancelled by the *)
(* acquire timeout, an enclosing deadline or the caller ("cancelled", still *)
(* in the deque).  Later its task resumes and sees which.                   *)
(***************************************************************************)
EXTENDS OutboundTasks

CONSTANTS
    Limit,      \* BulkheadConfig.limit
    MaxQueue    \* .max_queue

\* BulkheadConfig.__post_init__ refuses anything else.
ASSUME LimitAssumption == Limit \in Nat \ {0}
ASSUME QueueAssumption == MaxQueue \in Nat

VARIABLES
    inFlight,   \* _in_flight
    waiters,    \* _waiters, each future named by the task that awaits it
    slot,       \* what each task has of the compartment
    overridden  \* history: an operator has called a reset

bulkheadVars == <<inFlight, waiters, slot, overridden>>

SlotStates == {"none", "waiting", "cancelled", "failed", "handed", "held"}

BulkheadTypeOK ==
    /\ inFlight \in 0..Limit
    /\ waiters \in Seq(Tasks) /\ Len(waiters) <= MaxQueue
    /\ slot \in [Tasks -> SlotStates]
    /\ overridden \in BOOLEAN

BulkheadInit ==
    /\ inFlight = 0 /\ waiters = <<>>
    /\ slot = [t \in Tasks |-> "none"]
    /\ overridden = FALSE

-----------------------------------------------------------------------------
\* The fast path of acquire.
HasRoom == inFlight < Limit /\ waiters = <<>>

TakeSlot(t) ==
    /\ slot[t] = "none" /\ HasRoom
    /\ inFlight' = inFlight + 1
    /\ slot' = [slot EXCEPT ![t] = "held"]
    /\ UNCHANGED <<waiters, overridden>>

JoinQueue(t) ==
    /\ slot[t] = "none" /\ ~HasRoom /\ Len(waiters) < MaxQueue
    /\ waiters' = Append(waiters, t)
    /\ slot' = [slot EXCEPT ![t] = "waiting"]
    /\ UNCHANGED <<inFlight, overridden>>

\* acquire refuses: the queue is full, or the enclosing deadline is spent.
RefusesSlot == ~HasRoom

\* mutant: the slot goes to whoever came last.
LastServed ==
    {i \in DOMAIN waiters :
        /\ slot[waiters[i]] = "waiting"
        /\ \A j \in (i + 1)..Len(waiters) : slot[waiters[j]] # "waiting"}

\* Where a slot may go: the first future of the deque that is not done.
NextServed ==
    {i \in DOMAIN waiters :
        /\ slot[waiters[i]] = "waiting"
        /\ \A j \in 1..(i - 1) : slot[waiters[j]] # "waiting"}

\* mutant: the slot goes back to the pool and whoever waits is left waiting.
ReturnsToPool(t) ==
    /\ slot' = [slot EXCEPT ![t] = "none"]
    /\ inFlight' = IF inFlight > 0 THEN inFlight - 1 ELSE 0
    /\ UNCHANGED <<waiters, overridden>>

\* _release, for a slot of t: hand it on, or return it to the pool.  The cancelled
\* futures in front are popped on the way.
ReleaseSlot(t) ==
    /\ \/ \E i \in NextServed :
            /\ waiters' = SubSeq(waiters, i + 1, Len(waiters))
            /\ slot' = [slot EXCEPT ![t] = "none", ![waiters[i]] = "handed"]
            /\ UNCHANGED inFlight
       \/ /\ NextServed = {}
          /\ waiters' = <<>>
          /\ slot' = [slot EXCEPT ![t] = "none"]
          /\ inFlight' = IF inFlight > 0 THEN inFlight - 1 ELSE 0
    /\ UNCHANGED overridden

\* mutant: the slot is not given back.
KeepsSlot(t) == slot[t] = "held" /\ UNCHANGED bulkheadVars

\* BulkheadSlot.release.
GiveSlotBack(t) == slot[t] = "held" /\ ReleaseSlot(t)

\* The served task resumes; so does one whose timer fired in the same iteration.
TakeHanded(t) ==
    /\ slot[t] = "handed"
    /\ slot' = [slot EXCEPT ![t] = "held"]
    /\ UNCHANGED <<inFlight, waiters, overridden>>

\* Task.cancel, by asyncio.timeout or from outside, cancels the awaited future.
CancelWait(t) ==
    /\ slot[t] = "waiting"
    /\ slot' = [slot EXCEPT ![t] = "cancelled"]
    /\ UNCHANGED <<inFlight, waiters, overridden>>

\* mutant: the slot that arrived with the cancellation is dropped.
DropsHanded(t) ==
    /\ slot[t] = "handed"
    /\ slot' = [slot EXCEPT ![t] = "none"]
    /\ UNCHANGED <<inFlight, waiters, overridden>>

\* The task is cancelled from outside after it was served: it passes the slot on.
PassOn(t) == slot[t] = "handed" /\ ReleaseSlot(t)

\* _discard: deque.remove of the task's future, if it is still there.
Discard(t) ==
    \/ /\ \A i \in DOMAIN waiters : waiters[i] # t
       /\ UNCHANGED waiters
    \/ \E i \in DOMAIN waiters :
        /\ waiters[i] = t /\ \A j \in 1..(i - 1) : waiters[j] # t
        /\ waiters' = SubSeq(waiters, 1, i - 1) \o SubSeq(waiters, i + 1, Len(waiters))

\* The task whose wait was cancelled, or failed by reset, resumes and leaves the deque.
LeaveQueue(t) ==
    /\ slot[t] \in {"cancelled", "failed"}
    /\ Discard(t)
    /\ slot' = [slot EXCEPT ![t] = "none"]
    /\ UNCHANGED <<inFlight, overridden>>

\* reset: fail everyone who waits and forget who is inside.
ResetBulkhead ==
    /\ waiters' = <<>>
    /\ slot' = [t \in Tasks |-> IF slot[t] = "waiting" THEN "failed" ELSE slot[t]]
    /\ inFlight' = 0
    /\ overridden' = TRUE

BulkheadNext ==
    \/ \E t \in Tasks :
        \/ TakeSlot(t) \/ JoinQueue(t) \/ GiveSlotBack(t) \/ TakeHanded(t)
        \/ CancelWait(t) \/ PassOn(t) \/ LeaveQueue(t)
    \/ ResetBulkhead

BulkheadSpec == BulkheadInit /\ [][BulkheadNext]_bulkheadVars

-----------------------------------------------------------------------------
\* Who has a slot, whether or not its task has resumed to use it.
Holders == {t \in Tasks : slot[t] \in {"handed", "held"}}

\* Until an operator overrides it the counter is the number of slots given out: none
\* is lost or given out twice when a timeout or a cancellation meets a hand-over.  And
\* nobody waits while there is room, reset or not: a caller in the queue is always there
\* because the compartment is full.
SlotsConserved ==
    /\ ~overridden => inFlight = Cardinality(Holders)
    /\ waiters # <<>> => inFlight = Limit

\* The tasks whose futures are not done, and which of two came first.
Waiting == {t \in Tasks : slot[t] = "waiting"}
Ahead ==
    {p \in Waiting \X Waiting :
        \E i, j \in DOMAIN waiters : i < j /\ waiters[i] = p[1] /\ waiters[j] = p[2]}

Semaphore == INSTANCE FifoSemaphore WITH
    inside <- Holders, waiting <- Waiting, ahead <- Ahead

\* Until an operator overrides it a compartment is a first-come first-served
\* semaphore with a bounded queue.
ImplementsSemaphore ==
    /\ Semaphore!SemaphoreInit
    /\ [][overridden' \/ Semaphore!SemaphoreNext]_(Semaphore!semaphoreVars)
=============================================================================
