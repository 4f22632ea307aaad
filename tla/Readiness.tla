------------------------------- MODULE Readiness -------------------------------
(***************************************************************************)
(* GET /health/ready: HealthRegistry (src/health/registry.py), the checks    *)
(* (checks.py) as wired from the settings (wiring.py), and the readiness     *)
(* route (router.py).                                                        *)
(*                                                                          *)
(* A check is a server; it is required when a subsystem that requires it     *)
(* uses it.  Time is counted in ticks; asyncio.timeout ends every probe      *)
(* ProbeTimeout ticks after the run began at the latest, and a run whose     *)
(* probes have ended is stored in the same tick.                             *)
(***************************************************************************)
EXTENDS Integers, FiniteSets

CONSTANTS
    Uses,          \* redis_uses and the database: records server, required
    Pollers,       \* requests for /health/ready, one after another
    ReportTtl,     \* HEALTH_CACHE_TTL_SECONDS
    ProbeTimeout,  \* HEALTH_CHECK_TIMEOUT_SECONDS
    MaxHealthTime  \* bound: clock ticks

\* The settings' ranges.
ASSUME ReadinessAssumption == ReportTtl \in Nat \ {0} /\ ProbeTimeout \in Nat \ {0}

VARIABLES
    healthNow, \* the clock
    up,        \* whether each server answers
    lastUp,    \* history: when each server last answered
    probes,    \* outcome of each check in the current run: none, running, ok, failed
    runSince,  \* when the current run began
    report,    \* _cached: at, outcomes; at = NoReport when there is none
    polls      \* each request: state, arrival time, outcomes it was given

healthVars == <<healthNow, up, lastUp, probes, runSince, report, polls>>

Checks == {u.server : u \in Uses}
NoReport == -1
AllDown == [c \in Checks |-> "failed"]

\* build_redis_checks: one check for each server, required if any of its uses is.
Required == {c \in Checks : \E u \in Uses : u.server = c /\ u.required}

ReadinessTypeOK ==
    /\ healthNow \in 0..MaxHealthTime /\ runSince \in 0..MaxHealthTime
    /\ up \in [Checks -> BOOLEAN] /\ lastUp \in [Checks -> 0..MaxHealthTime]
    /\ probes \in [Checks -> {"none", "running", "ok", "failed"}]
    /\ report \in [at : NoReport..MaxHealthTime, outcomes : [Checks -> {"ok", "failed"}]]
    /\ polls \in [Pollers -> [state : {"idle", "waiting", "running", "answered"},
                              since : 0..MaxHealthTime,
                              outcomes : [Checks -> {"ok", "failed"}]]]

ReadinessInit ==
    /\ healthNow = 0 /\ runSince = 0
    /\ up = [c \in Checks |-> TRUE] /\ lastUp = [c \in Checks |-> 0]
    /\ probes = [c \in Checks |-> "none"]
    /\ report = [at |-> NoReport, outcomes |-> AllDown]
    /\ polls = [p \in Pollers |-> [state |-> "idle", since |-> 0, outcomes |-> AllDown]]

\* aggregate: the status, of which only "unavailable" answers 503.
Status(outcomes) ==
    IF \E c \in Required : outcomes[c] = "failed" THEN "unavailable"
    ELSE IF \E c \in Checks : outcomes[c] = "failed" THEN "degraded" ELSE "ready"

\* mutant: a report is fresh for one tick too many.
FreshOneMore == report.at # NoReport /\ healthNow - report.at <= ReportTtl

\* _fresh_report.
Fresh == report.at # NoReport /\ healthNow - report.at < ReportTtl

Give(p, since, outcomes) ==
    polls' = [polls EXCEPT ![p] = [state |-> "answered", since |-> since, outcomes |-> outcomes]]

\* report(): a fresh one is given at once, or the lock is waited for.
Poll(p) ==
    /\ polls[p].state \in {"idle", "answered"}
    /\ IF Fresh THEN Give(p, healthNow, report.outcomes)
       ELSE polls' = [polls EXCEPT ![p] = [state |-> "waiting", since |-> healthNow, outcomes |-> AllDown]]
    /\ UNCHANGED <<healthNow, up, lastUp, probes, runSince, report>>

LockFree == \A p \in Pollers : polls[p].state # "running"

\* The lock: a second look, then _run_all starts every probe.
Run(p) ==
    /\ polls[p].state = "waiting" /\ LockFree
    /\ IF Fresh THEN Give(p, polls[p].since, report.outcomes) /\ UNCHANGED <<probes, runSince>>
       ELSE /\ polls' = [polls EXCEPT ![p].state = "running"]
            /\ probes' = [c \in Checks |-> "running"] /\ runSince' = healthNow
    /\ UNCHANGED <<healthNow, up, lastUp, report>>

\* _run_one: the probe answers as the server is, or raises TimeoutError.
ProbeEnds(c) ==
    /\ probes[c] = "running"
    /\ \E o \in {"ok", "failed"} :
         /\ o = "ok" => up[c]
         /\ probes' = [probes EXCEPT ![c] = o]
    /\ UNCHANGED <<healthNow, up, lastUp, runSince, report, polls>>

\* mutant: a run that was cut short is kept as a report.
KeepPartial == report' = [at |-> healthNow,
                          outcomes |-> [c \in Checks |-> IF probes[c] = "failed" THEN "failed" ELSE "ok"]]

KeepNothing == UNCHANGED report

\* The run is over: the report is stored and given.
FinishRun(p) ==
    /\ polls[p].state = "running" /\ \A c \in Checks : probes[c] \in {"ok", "failed"}
    /\ report' = [at |-> healthNow, outcomes |-> probes]
    /\ Give(p, polls[p].since, probes)
    /\ probes' = [c \in Checks |-> "none"]
    /\ UNCHANGED <<healthNow, up, lastUp, runSince>>

\* The client of a request leaves: its gather cancels the probes, and the lock is free.
CancelPoll(p) ==
    /\ polls[p].state \in {"waiting", "running"}
    /\ polls' = [polls EXCEPT ![p] = [state |-> "idle", since |-> 0, outcomes |-> AllDown]]
    /\ IF polls[p].state = "running" THEN probes' = [c \in Checks |-> "none"] /\ KeepNothing
       ELSE UNCHANGED <<probes, report>>
    /\ UNCHANGED <<healthNow, up, lastUp, runSince>>

\* invalidate().
InvalidateReport ==
    /\ report.at # NoReport
    /\ report' = [at |-> NoReport, outcomes |-> AllDown]
    /\ UNCHANGED <<healthNow, up, lastUp, probes, runSince, polls>>

\* A server stops or starts to answer.
Flip(c) ==
    /\ up' = [up EXCEPT ![c] = ~@]
    /\ lastUp' = [lastUp EXCEPT ![c] = healthNow]
    /\ UNCHANGED <<healthNow, probes, runSince, report, polls>>

HealthTick ==
    /\ healthNow < MaxHealthTime
    /\ (\E c \in Checks : probes[c] = "running") => healthNow < runSince + ProbeTimeout
    /\ ~\E p \in Pollers : polls[p].state = "running" /\ \A c \in Checks : probes[c] # "running"
    /\ healthNow' = healthNow + 1
    /\ lastUp' = [c \in Checks |-> IF up[c] THEN healthNow + 1 ELSE lastUp[c]]
    /\ UNCHANGED <<up, probes, runSince, report, polls>>

ReadinessNext ==
    \/ HealthTick \/ InvalidateReport
    \/ \E c \in Checks : ProbeEnds(c) \/ Flip(c)
    \/ \E p \in Pollers : Poll(p) \/ Run(p) \/ FinishRun(p) \/ CancelPoll(p)

ReadinessSpec == ReadinessInit /\ [][ReadinessNext]_healthVars

-----------------------------------------------------------------------------
(* Properties.                                                             *)

\* A check reported "ok" answered less than the cache's ttl plus one probe timeout before the
\* request came, whichever request ran it and whoever was cancelled meanwhile; so traffic is
\* sent on ("ready" or "degraded") only if every required server answered that recently.
ReadinessIsRecent ==
    \A p \in Pollers : polls[p].state = "answered" =>
        /\ \A c \in Checks : polls[p].outcomes[c] = "ok" =>
               lastUp[c] > polls[p].since - ReportTtl - ProbeTimeout
        /\ Status(polls[p].outcomes) # "unavailable" =>
               \A c \in Required : lastUp[c] > polls[p].since - ReportTtl - ProbeTimeout
=============================================================================
