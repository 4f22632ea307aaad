--------------------------- MODULE CircuitBreaker ---------------------------
(***************************************************************************)
(* The circuit breaker of one origin (src/resilience/circuit.py).  Every    *)
(* method is synchronous, so each is one step.                              *)
(*                                                                         *)
(* The code compares generations only for equality, and only with the       *)
(* current one: `fresh[t]` says that the generation stamped on t's call is  *)
(* still the breaker's, and `_generation += 1` makes every call stale.      *)
(* `_open_until` is kept as the time still to go, `openFor`.  Both keep the *)
(* state space finite without a bound.                                      *)
(***************************************************************************)
EXTENDS OutboundTasks

CONSTANTS
    FailureThreshold,    \* CircuitBreakerConfig.failure_threshold
    WindowSize,          \* .window_size
    ResetTimeout,        \* .reset_timeout
    SuccessThreshold,    \* .success_threshold
    HalfOpenMaxCalls     \* .half_open_max_calls

\* CircuitBreakerConfig.__post_init__ refuses anything else.
ASSUME FailureAssumption == FailureThreshold \in Nat \ {0}
ASSUME WindowAssumption == WindowSize \in Nat /\ WindowSize >= FailureThreshold
ASSUME ResetAssumption == ResetTimeout \in Nat \ {0}
ASSUME SuccessAssumption == SuccessThreshold \in Nat \ {0}
ASSUME ProbeAssumption == HalfOpenMaxCalls \in Nat \ {0}

VARIABLES
    state,           \* _state
    window,          \* _window: TRUE for a failure
    openFor,         \* _open_until, from now
    probesInFlight,  \* _probes_in_flight
    probeSuccesses,  \* _probe_successes
    call,            \* each task's unsettled CircuitCall
    fresh            \* its generation is the breaker's

breakerVars == <<state, window, openFor, probesInFlight, probeSuccesses, call, fresh>>

BreakerTypeOK ==
    /\ state \in {"closed", "open", "half_open"}
    /\ window \in Seq(BOOLEAN) /\ Len(window) <= WindowSize
    /\ openFor \in 0..ResetTimeout
    /\ probesInFlight \in Nat /\ probeSuccesses \in Nat
    /\ call \in [Tasks -> {"none", "call", "probe"}]
    /\ fresh \in [Tasks -> BOOLEAN]

BreakerInit ==
    /\ state = "closed" /\ window = <<>> /\ openFor = 0
    /\ probesInFlight = 0 /\ probeSuccesses = 0
    /\ call = [t \in Tasks |-> "none"]
    /\ fresh = [t \in Tasks |-> FALSE]

-----------------------------------------------------------------------------
(* _expire_open_period, which acquire and the `state` property run first.   *)

Elapsed == state = "open" /\ openFor = 0
stateNow == IF Elapsed THEN "half_open" ELSE state
probesNow == IF Elapsed THEN 0 ELSE probesInFlight
successesNow == IF Elapsed THEN 0 ELSE probeSuccesses

\* mutant: one probe too many.
AdmissibleOneMore ==
    /\ stateNow # "open"
    /\ stateNow = "half_open" => probesNow <= HalfOpenMaxCalls

\* The two refusals of acquire.
Admissible ==
    /\ stateNow # "open"
    /\ stateNow = "half_open" => probesNow < HalfOpenMaxCalls

ExpireOpenPeriod ==
    /\ state' = stateNow /\ probesInFlight' = probesNow /\ probeSuccesses' = successesNow

\* CircuitBreaker.acquire, admitting t.
Admit(t) ==
    /\ Admissible /\ call[t] = "none"
    /\ state' = stateNow /\ probeSuccesses' = successesNow
    /\ IF stateNow = "half_open"
       THEN probesInFlight' = probesNow + 1 /\ call' = [call EXCEPT ![t] = "probe"]
       ELSE probesInFlight' = probesNow /\ call' = [call EXCEPT ![t] = "call"]
    /\ fresh' = [fresh EXCEPT ![t] = TRUE]
    /\ UNCHANGED <<window, openFor>>

\* acquire followed at once by CircuitCall.release: a probe slot taken and given back.
AdmitAndRelease ==
    /\ Admissible
    /\ ExpireOpenPeriod
    /\ UNCHANGED <<window, openFor, call, fresh>>

\* The `state` property, as a health endpoint reads it.
ReadState ==
    /\ Elapsed
    /\ ExpireOpenPeriod
    /\ UNCHANGED <<window, openFor, call, fresh>>

\* mutant: the slot of a probe is kept.
KeepsProbe(t) == probesInFlight

\* _release_probe, when t's call is a probe.
ReleaseProbe(t) ==
    IF call[t] = "probe" /\ probesInFlight > 0 THEN probesInFlight - 1 ELSE probesInFlight

\* CircuitCall.release: the call ends without an outcome.
ReleaseCall(t) ==
    /\ call[t] # "none"
    /\ probesInFlight' = ReleaseProbe(t)
    /\ call' = [call EXCEPT ![t] = "none"]
    /\ fresh' = [fresh EXCEPT ![t] = FALSE]
    /\ UNCHANGED <<state, window, openFor, probeSuccesses>>

\* _open.
Open ==
    /\ state' = "open" /\ openFor' = ResetTimeout /\ window' = <<>>
    /\ probesInFlight' = 0 /\ probeSuccesses' = 0
    /\ fresh' = [u \in Tasks |-> FALSE]

\* mutant: a list instead of a bounded deque.
RememberAll(failed) == Append(window, failed)

\* deque(maxlen=window_size).append.
Remember(failed) ==
    Append(IF Len(window) = WindowSize THEN Tail(window) ELSE window, failed)

FailuresIn(w) == Cardinality({i \in DOMAIN w : w[i]})

\* _record_probe.
RecordProbe(t, failed) ==
    \/ failed /\ Open
    \/ /\ ~failed /\ probeSuccesses + 1 < SuccessThreshold
       /\ probeSuccesses' = probeSuccesses + 1
       /\ probesInFlight' = ReleaseProbe(t)
       /\ fresh' = [fresh EXCEPT ![t] = FALSE]
       /\ UNCHANGED <<state, window, openFor>>
    \/ /\ ~failed /\ probeSuccesses + 1 >= SuccessThreshold
       /\ state' = "closed" /\ window' = <<>> /\ probeSuccesses' = 0
       /\ probesInFlight' = ReleaseProbe(t)
       /\ fresh' = [u \in Tasks |-> FALSE]
       /\ UNCHANGED openFor

\* _record of a call of the current generation outside the half-open state.
RecordCall(t, failed) ==
    \/ /\ failed /\ FailuresIn(Remember(failed)) >= FailureThreshold
       /\ Open
    \/ /\ ~(failed /\ FailuresIn(Remember(failed)) >= FailureThreshold)
       /\ window' = Remember(failed)
       /\ probesInFlight' = ReleaseProbe(t)
       /\ fresh' = [fresh EXCEPT ![t] = FALSE]
       /\ UNCHANGED <<state, openFor, probeSuccesses>>

\* CircuitCall._settle: succeeded and failed.
Settle(t, failed) ==
    /\ call[t] # "none"
    /\ call' = [call EXCEPT ![t] = "none"]
    /\ \/ /\ ~fresh[t]
          /\ probesInFlight' = ReleaseProbe(t)
          /\ UNCHANGED <<state, window, openFor, probeSuccesses, fresh>>
       \/ fresh[t] /\ state = "half_open" /\ RecordProbe(t, failed)
       \/ fresh[t] /\ state # "half_open" /\ RecordCall(t, failed)

\* CircuitBreaker.reset, the operator's override.
ResetBreaker ==
    /\ state' = "closed" /\ window' = <<>>
    /\ probesInFlight' = 0 /\ probeSuccesses' = 0
    /\ fresh' = [u \in Tasks |-> FALSE]
    /\ UNCHANGED <<openFor, call>>

BreakerTick ==
    /\ openFor > 0
    /\ openFor' = openFor - 1
    /\ UNCHANGED <<state, window, probesInFlight, probeSuccesses, call, fresh>>

\* What the breaker's users can make it do, one step each.
BreakerNext ==
    \/ \E t \in Tasks :
        Admit(t) \/ ReleaseCall(t) \/ \E failed \in BOOLEAN : Settle(t, failed)
    \/ AdmitAndRelease \/ ReadState \/ BreakerTick

BreakerSpec == BreakerInit /\ [][BreakerNext]_breakerVars

-----------------------------------------------------------------------------
\* The probes in flight that were admitted in this half-open period.
FreshProbes == {t \in Tasks : call[t] = "probe" /\ fresh[t]}

\* Every probe slot taken belongs to a call that will still settle, so a half-open
\* circuit is never left with no slot and nobody to report (CircuitCall's docstring).
NoProbeLeak == state = "half_open" => probesInFlight <= Cardinality(FreshProbes)
=============================================================================
