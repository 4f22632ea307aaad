------------------------- MODULE ResilientTransport -------------------------
(***************************************************************************)
(* ResilientTransport over BulkheadTransport over the network               *)
(* (src/resilience/transport.py): retry, then breaker, then bulkhead, for   *)
(* one origin.  Each task runs one request at a time; every await is a      *)
(* place where another task may run or the caller may cancel.               *)
(*                                                                         *)
(* Delays and timeouts are not timed here: an acquire timeout, the hard     *)
(* execution timeout, a backoff or a deadline may end at any moment.        *)
(***************************************************************************)
EXTENDS CircuitBreaker, Bulkhead

CONSTANT Attempts   \* RetryPolicy.attempts

\* RetryPolicy.__post_init__.
ASSUME AttemptsAssumption == Attempts \in Nat \ {0}

VARIABLES
    pc,         \* where each task awaits
    attempt,    \* the loop variable of handle_async_request
    kind,       \* what may be done with its request twice
    delivered   \* history: an earlier attempt may have reached the far end

requestVars == <<pc, attempt, kind, delivered>>
vars == <<breakerVars, bulkheadVars, requestVars>>

\* repeatable: replayable and idempotent, by its method or by an idempotency key.
Kinds == {"repeatable", "not_idempotent", "not_replayable"}

TypeOK ==
    /\ BreakerTypeOK /\ BulkheadTypeOK
    /\ pc \in [Tasks -> {"idle", "queued", "sending", "closing", "backoff", "body"}]
    /\ attempt \in [Tasks -> 0..Attempts]
    /\ kind \in [Tasks -> Kinds]
    /\ delivered \in [Tasks -> BOOLEAN]

Init ==
    /\ BreakerInit /\ BulkheadInit
    /\ pc = [t \in Tasks |-> "idle"]
    /\ attempt = [t \in Tasks |-> 0]
    /\ kind = [t \in Tasks |-> "repeatable"]
    /\ delivered = [t \in Tasks |-> FALSE]

-----------------------------------------------------------------------------
GoTo(t, place) == pc' = [pc EXCEPT ![t] = place]

\* The request is over: handle_async_request returned or raised, and no body is
\* left to read.  Its locals are gone.
Finish(t) ==
    /\ GoTo(t, "idle")
    /\ attempt' = [attempt EXCEPT ![t] = 0]
    /\ kind' = [kind EXCEPT ![t] = "repeatable"]
    /\ delivered' = [delivered EXCEPT ![t] = FALSE]

\* One pass of the loop up to its first await: the breaker, then the compartment.
\* `begin` is what the pass does to the task's own variables when it goes on.
Attempt(t, begin) ==
    \/ /\ Admit(t) /\ TakeSlot(t)
       /\ GoTo(t, "sending") /\ begin
    \/ /\ Admit(t) /\ JoinQueue(t)
       /\ GoTo(t, "queued") /\ begin
    \/ \* BulkheadFullError: a local shortage, released and raised
       /\ AdmitAndRelease /\ RefusesSlot
       /\ Finish(t)
       /\ UNCHANGED bulkheadVars
    \/ \* CircuitOpenError
       /\ ~Admissible
       /\ Finish(t)
       /\ UNCHANGED <<breakerVars, bulkheadVars>>

Start(t) ==
    /\ pc[t] = "idle"
    /\ \E k \in Kinds :
        Attempt(t, /\ attempt' = [attempt EXCEPT ![t] = 1]
                   /\ kind' = [kind EXCEPT ![t] = k]
                   /\ UNCHANGED delivered)

\* The backoff is over.
Retry(t) ==
    /\ pc[t] = "backoff"
    /\ Attempt(t, /\ attempt' = [attempt EXCEPT ![t] = @ + 1]
                  /\ UNCHANGED <<kind, delivered>>)

\* The queued task resumes with a slot.
Served(t) ==
    /\ pc[t] = "queued" /\ TakeHanded(t)
    /\ GoTo(t, "sending")
    /\ UNCHANGED <<breakerVars, attempt, kind, delivered>>

\* The acquire timeout, a deadline or the caller cancels the wait.
WaitCancelled(t) ==
    /\ pc[t] = "queued" /\ CancelWait(t)
    /\ UNCHANGED <<breakerVars, requestVars>>

\* The queued task resumes without a slot, or passes on the one it got: in every
\* case its call is released and the error raised.
WaitEnds(t) ==
    /\ pc[t] = "queued"
    /\ LeaveQueue(t) \/ PassOn(t)
    /\ ReleaseCall(t)
    /\ Finish(t)

-----------------------------------------------------------------------------
(* The send returns or raises.                                             *)

\* A response below 500 that is not 429; its body in memory, or still to be read.
Succeeds(t) ==
    /\ pc[t] = "sending"
    /\ Settle(t, FALSE)
    /\ \/ GiveSlotBack(t) /\ Finish(t)
       \/ GoTo(t, "body") /\ UNCHANGED <<bulkheadVars, attempt, kind, delivered>>

\* mutant: whatever failed may be sent again.
MayRetryAnything(t, sent) == attempt[t] < Attempts

\* _refusal_reason: whether another attempt may follow.
MayRetry(t, sent) ==
    /\ attempt[t] < Attempts
    /\ kind[t] # "not_replayable"
    /\ sent => kind[t] = "repeatable"

\* A failure status: the breaker is told, then the response is returned (the retry is
\* refused, or the delay is too long for the header's ceiling or the deadline) or
\* closed before the backoff.
FailureStatus(t) ==
    /\ pc[t] = "sending"
    /\ Settle(t, TRUE)
    /\ \/ GiveSlotBack(t) /\ Finish(t)
       \/ GoTo(t, "body") /\ UNCHANGED <<bulkheadVars, attempt, kind, delivered>>
       \/ /\ MayRetry(t, TRUE)
          /\ delivered' = [delivered EXCEPT ![t] = TRUE]
          /\ \/ GiveSlotBack(t) /\ GoTo(t, "backoff")
             \/ GoTo(t, "closing") /\ UNCHANGED bulkheadVars
          /\ UNCHANGED <<attempt, kind>>

\* An httpx.TransportError of the dependency, BulkheadTimeoutError included; `sent`
\* is request_was_sent.
TransportError(t, sent) ==
    /\ pc[t] = "sending"
    /\ Settle(t, TRUE)
    /\ GiveSlotBack(t)
    /\ \/ Finish(t)
       \/ /\ MayRetry(t, sent)
          /\ GoTo(t, "backoff")
          /\ delivered' = [delivered EXCEPT ![t] = @ \/ sent]
          /\ UNCHANGED <<attempt, kind>>

\* PoolTimeout, a cancellation, or an exception that is no TransportError.
NoVerdict(t) ==
    /\ pc[t] = "sending"
    /\ ReleaseCall(t)
    /\ GiveSlotBack(t)
    /\ Finish(t)

\* response.aclose() ends, well (then the backoff begins) or not.
Closed(t) ==
    /\ pc[t] = "closing"
    /\ GiveSlotBack(t)
    /\ Finish(t) \/ (GoTo(t, "backoff") /\ UNCHANGED <<attempt, kind, delivered>>)
    /\ UNCHANGED breakerVars

\* The sleep is cancelled.
BackoffCancelled(t) ==
    /\ pc[t] = "backoff"
    /\ Finish(t)
    /\ UNCHANGED <<breakerVars, bulkheadVars>>

\* The caller has read or abandoned the body: _SlotBoundStream.aclose.
BodyClosed(t) ==
    /\ pc[t] = "body"
    /\ GiveSlotBack(t)
    /\ Finish(t)
    /\ UNCHANGED breakerVars

-----------------------------------------------------------------------------
\* The two registries' reset, which an operator calls together or apart.
Override ==
    /\ \/ ResetBulkhead /\ (ResetBreaker \/ UNCHANGED breakerVars)
       \/ /\ ResetBreaker
          /\ overridden' = TRUE
          /\ UNCHANGED <<inFlight, waiters, slot>>
    /\ UNCHANGED requestVars

Time == (BreakerTick \/ ReadState) /\ UNCHANGED <<bulkheadVars, requestVars>>

TaskStep(t) ==
    \/ Start(t) \/ Retry(t) \/ Served(t) \/ WaitCancelled(t) \/ WaitEnds(t)
    \/ Succeeds(t) \/ FailureStatus(t) \/ NoVerdict(t) \/ Closed(t)
    \/ BackoffCancelled(t) \/ BodyClosed(t)
    \/ \E sent \in BOOLEAN : TransportError(t, sent)

Next == Time \/ Override \/ \E t \in Tasks : TaskStep(t)

Spec == Init /\ [][Next]_vars

-----------------------------------------------------------------------------
\* No more requests probe a half-open circuit at once than half_open_max_calls
\* ("Probes allowed through at once while half-open").
ProbesWithinLimit == ~overridden => Cardinality(FreshProbes) <= HalfOpenMaxCalls

\* A request that may have been received is sent again only if that is harmless, and
\* a body that can be read once is sent once.
RepeatsAreSafe ==
    \A t \in Tasks :
        /\ pc[t] \in {"queued", "sending"} /\ delivered[t] => kind[t] = "repeatable"
        /\ attempt[t] > 1 => kind[t] # "not_replayable"

\* The backoff is slept through with nothing held: no slot of the compartment and no
\* unsettled call ("the sleep happens with the compartment given back").
NothingHeldInBackoff ==
    \A t \in Tasks : pc[t] \in {"idle", "backoff"} => slot[t] = "none" /\ call[t] = "none"
=============================================================================
