--------------------------- MODULE DistributedLock ---------------------------
(***************************************************************************)
(* One name of the distributed lock: the store (src/distributed_lock/      *)
(* redis_backend.py and memory.py, which keep the same state) and the      *)
(* clients that run `async with DistributedLock(...)` (lock.py).           *)
(*                                                                         *)
(* Every call to the store is a request and a reply.  A request that has   *)
(* been sent sits in `net` until the store runs its script; the client may *)
(* be told RedisError, be cancelled or crash at any point in between, and  *)
(* the request may then still run later with nobody waiting for the answer *)
(* (`live` is FALSE).  Names are independent of one another in the code,   *)
(* so one name is modelled.  Time is a single discrete monotonic clock.    *)
(***************************************************************************)
EXTENDS Integers, FiniteSets

CONSTANTS
    Clients,        \* DistributedLock instances, one task each
    TTL,            \* ttl_seconds
    RenewInterval,  \* renew_interval; 0 stands for None (no renewal task)
    WaitTimeout,    \* wait_timeout
    MaxClock,       \* bound: the clock stops here
    MaxCounter,     \* bound: grants of the name
    MaxOrphans      \* bound: requests in flight nobody waits for

\* DistributedLock.__init__ refuses anything else (lock.py:130-144).
ASSUME TTLAssumption == TTL \in Nat \ {0}
ASSUME RenewAssumption == RenewInterval \in 0..(TTL - 1)
ASSUME WaitAssumption == WaitTimeout \in Nat
ASSUME BoundAssumption ==
    MaxClock \in Nat /\ MaxCounter \in Nat /\ MaxOrphans \in Nat

VARIABLES
    clock,
    heldToken, heldUntil,  \* the store's claim: its token (0 = no key), its expiry
    counter,               \* the store's fence counter, never reset
    net,                   \* requests sent and not yet run by the store
    main,                  \* where each client's task is
    since,                 \* when its last acquire request was sent
    deadline,              \* until when _acquire keeps trying
    answer,                \* the store's answer its task has not read yet
    leaseToken, leaseExpires,  \* self._lease (token 0 = None)
    lost,                  \* self._lost
    renewer,               \* the renewal task
    rsince,                \* when its sleep began or its extend was sent
    ranswer,               \* the store's answer it has not read yet
    bodyExit,              \* how the body of the `async with` ended
    outcome,               \* how the last `async with` ended for the caller
    overlapped,            \* history: somebody else was granted the name meanwhile
    cancelled              \* history: the caller's task was cancelled

storeVars == <<heldToken, heldUntil, counter>>
renewVars == <<renewer, rsince, ranswer>>
leaseVars == <<leaseToken, leaseExpires, lost>>
callVars == <<main, since, deadline, answer, bodyExit, outcome, cancelled>>
vars == <<clock, storeVars, net, callVars, leaseVars, renewVars, overlapped>>

Ops == {"acquire", "extend", "release"}
Requests == [op : Ops, client : Clients, token : Nat, live : BOOLEAN]

\* Answers, as the Lua scripts encode them: an acquire is answered by its token
\* or Refused, an extend and a release by Gone, NotOwner or Done.
NoAnswer == -2
NotOwner == -1
Gone == 0
Refused == 0
Done == 1

Phases == {"idle", "acquire", "sleep", "body", "stop_renewer", "release"}
Section == {"body", "stop_renewer", "release"}
Outcomes == {"none", "clean", "lost", "unconfirmed", "raised", "busy",
             "unavailable", "cancelled"}

TypeOK ==
    /\ clock \in Nat /\ heldToken \in Nat /\ heldUntil \in Nat /\ counter \in Nat
    /\ net \subseteq Requests
    /\ main \in [Clients -> Phases]
    /\ since \in [Clients -> Nat] /\ deadline \in [Clients -> Nat]
    /\ answer \in [Clients -> Int]
    /\ leaseToken \in [Clients -> Nat] /\ leaseExpires \in [Clients -> Nat]
    /\ lost \in [Clients -> BOOLEAN]
    /\ renewer \in [Clients -> {"off", "sleep", "extend", "ended"}]
    /\ rsince \in [Clients -> Nat] /\ ranswer \in [Clients -> Int]
    /\ bodyExit \in [Clients -> {"returned", "raised", "cancelled"}]
    /\ outcome \in [Clients -> Outcomes]
    /\ overlapped \in [Clients -> BOOLEAN] /\ cancelled \in [Clients -> BOOLEAN]

Init ==
    /\ clock = 0 /\ heldToken = 0 /\ heldUntil = 0 /\ counter = 0 /\ net = {}
    /\ main = [c \in Clients |-> "idle"]
    /\ since = [c \in Clients |-> 0] /\ deadline = [c \in Clients |-> 0]
    /\ answer = [c \in Clients |-> NoAnswer]
    /\ leaseToken = [c \in Clients |-> 0] /\ leaseExpires = [c \in Clients |-> 0]
    /\ lost = [c \in Clients |-> FALSE]
    /\ renewer = [c \in Clients |-> "off"]
    /\ rsince = [c \in Clients |-> 0] /\ ranswer = [c \in Clients |-> NoAnswer]
    /\ bodyExit = [c \in Clients |-> "returned"]
    /\ outcome = [c \in Clients |-> "none"]
    /\ overlapped = [c \in Clients |-> FALSE]
    /\ cancelled = [c \in Clients |-> FALSE]

Request(o, c, t) == [op |-> o, client |-> c, token |-> t, live |-> TRUE]

\* What may become of c's request among `ops` when c stops waiting for it: it
\* has already run (it is no longer in net), it never runs, or it runs later.
Abandon(c, ops) ==
    LET mine == {r \in net : r.client = c /\ r.op \in ops /\ r.live}
        late == {[r EXCEPT !.live = FALSE] : r \in mine}
        orphans == {r \in net : ~r.live}
    IN  {net \ mine} \cup
        (IF Cardinality(orphans \cup late) <= MaxOrphans
         THEN {(net \ mine) \cup late} ELSE {})

-----------------------------------------------------------------------------
(* The store.                                                              *)

\* mutant: a claim lapses one unit before its expiry.
LiveEarly == heldToken # 0 /\ heldUntil > clock + 1

\* `_live`: a claim whose expiry has come is as good as absent.
Live == heldToken # 0 /\ heldUntil > clock

\* _ACQUIRE_LUA / InMemoryLockBackend.acquire.
StoreAcquire(r) ==
    /\ r \in net /\ r.op = "acquire"
    /\ net' = net \ {r}
    /\ \/ /\ Live
          /\ answer' = IF r.live THEN [answer EXCEPT ![r.client] = Refused] ELSE answer
          /\ UNCHANGED <<storeVars, overlapped>>
       \/ /\ ~Live /\ counter < MaxCounter
          /\ counter' = counter + 1
          /\ heldToken' = counter'
          /\ heldUntil' = clock + TTL
          /\ answer' = IF r.live THEN [answer EXCEPT ![r.client] = counter'] ELSE answer
          /\ overlapped' = [c \in Clients |->
                overlapped[c] \/ (c # r.client /\ main[c] \in Section
                                  /\ ~(main[c] = "release" /\ answer[c] = Done))]
    /\ UNCHANGED <<clock, main, since, deadline, bodyExit, outcome, cancelled,
                   leaseVars, renewVars>>

\* mutant: compare nothing, as a bare PEXPIRE or DEL would.
AnyClaim(t) == Live

\* The comparison both scripts and both methods make before they act.
OwnClaim(t) == Live /\ heldToken = t

ClaimAnswer(t) == IF ~Live THEN Gone ELSE IF OwnClaim(t) THEN Done ELSE NotOwner

\* _EXTEND_LUA / InMemoryLockBackend.extend.
StoreExtend(r) ==
    /\ r \in net /\ r.op = "extend"
    /\ net' = net \ {r}
    /\ heldUntil' = IF OwnClaim(r.token) THEN clock + TTL ELSE heldUntil
    /\ ranswer' = IF r.live THEN [ranswer EXCEPT ![r.client] = ClaimAnswer(r.token)]
                            ELSE ranswer
    /\ UNCHANGED <<clock, heldToken, counter, callVars, leaseVars, renewer, rsince,
                   overlapped>>

\* _RELEASE_LUA / InMemoryLockBackend.release.
StoreRelease(r) ==
    /\ r \in net /\ r.op = "release"
    /\ net' = net \ {r}
    /\ heldToken' = IF OwnClaim(r.token) THEN 0 ELSE heldToken
    /\ answer' = IF r.live THEN [answer EXCEPT ![r.client] = ClaimAnswer(r.token)]
                           ELSE answer
    /\ UNCHANGED <<clock, heldUntil, counter, main, since, deadline, bodyExit, outcome,
                   cancelled, leaseVars, renewVars, overlapped>>

-----------------------------------------------------------------------------
(* The caller's task: __aenter__, the body, __aexit__.                      *)

SendAcquire(c) ==
    /\ main' = [main EXCEPT ![c] = "acquire"]
    /\ since' = [since EXCEPT ![c] = clock]
    /\ answer' = [answer EXCEPT ![c] = NoAnswer]
    /\ net' = net \cup {Request("acquire", c, 0)}

\* _acquire returns or raises: its locals are gone (0 stands for no value).
EndAcquire(c) ==
    /\ since' = [since EXCEPT ![c] = 0]
    /\ deadline' = [deadline EXCEPT ![c] = 0]
    /\ answer' = [answer EXCEPT ![c] = NoAnswer]

\* __aenter__ up to its first request.
Enter(c) ==
    /\ main[c] = "idle" /\ clock + WaitTimeout <= MaxClock
    /\ SendAcquire(c)
    /\ deadline' = [deadline EXCEPT ![c] = clock + WaitTimeout]
    /\ outcome' = [outcome EXCEPT ![c] = "none"]
    /\ overlapped' = [overlapped EXCEPT ![c] = FALSE]
    /\ cancelled' = [cancelled EXCEPT ![c] = FALSE]
    /\ UNCHANGED <<clock, storeVars, bodyExit, leaseVars, renewVars>>

\* mutant: the deadline taken when the reply arrives.
ExpiryFromReply(start) == clock + TTL

\* mutant: the TTL subtracted.
ExpiryBackwards(start) == start - TTL

\* Lease.expires_at: measured from before the request went out.
ExpiryFrom(start) == start + TTL

\* The request succeeded: the lease is kept and the renewal task started.
Acquired(c) ==
    /\ main[c] = "acquire" /\ answer[c] > Refused
    /\ main' = [main EXCEPT ![c] = "body"]
    /\ leaseToken' = [leaseToken EXCEPT ![c] = answer[c]]
    /\ leaseExpires' = [leaseExpires EXCEPT ![c] = ExpiryFrom(since[c])]
    /\ lost' = [lost EXCEPT ![c] = FALSE]
    /\ renewer' = [renewer EXCEPT ![c] = IF RenewInterval = 0 THEN "off" ELSE "sleep"]
    /\ rsince' = [rsince EXCEPT ![c] = clock]
    /\ EndAcquire(c)
    /\ UNCHANGED <<clock, storeVars, net, bodyExit, outcome, ranswer, overlapped,
                   cancelled>>

\* mutant: the deadline is never looked at.
NeverGivesUp(c) == FALSE

GivesUp(c) == clock >= deadline[c]

\* The name is taken: sleep and try again, or after the deadline answer 409, or
\* 503 when the store cannot be asked who holds it (_unavailable).
RefusedAcquire(c) ==
    /\ main[c] = "acquire" /\ answer[c] = Refused
    /\ \/ /\ GivesUp(c)
          /\ main' = [main EXCEPT ![c] = "idle"]
          /\ \E o \in {"busy", "unavailable"} : outcome' = [outcome EXCEPT ![c] = o]
          /\ EndAcquire(c)
       \/ /\ ~GivesUp(c)
          /\ main' = [main EXCEPT ![c] = "sleep"]
          /\ since' = [since EXCEPT ![c] = 0]
          /\ answer' = [answer EXCEPT ![c] = NoAnswer]
          /\ UNCHANGED <<outcome, deadline>>
    /\ UNCHANGED <<clock, storeVars, net, bodyExit, leaseVars, renewVars,
                   overlapped, cancelled>>

\* The jittered sleep may be arbitrarily short and never passes the deadline.
Retry(c) ==
    /\ main[c] = "sleep"
    /\ SendAcquire(c)
    /\ UNCHANGED <<clock, storeVars, deadline, bodyExit, outcome, leaseVars, renewVars,
                   overlapped, cancelled>>

\* LockBackendUnavailableError out of acquire: no body runs.
AcquireFails(c) ==
    /\ main[c] = "acquire"
    /\ net' \in Abandon(c, {"acquire"})
    /\ main' = [main EXCEPT ![c] = "idle"]
    /\ outcome' = [outcome EXCEPT ![c] = "unavailable"]
    /\ EndAcquire(c)
    /\ UNCHANGED <<clock, storeVars, bodyExit, leaseVars, renewVars,
                   overlapped, cancelled>>

\* __aexit__ after the renewer has stopped: drop the lease, then send the release.
DropAndRelease(c, requests) ==
    /\ main' = [main EXCEPT ![c] = "release"]
    /\ answer' = [answer EXCEPT ![c] = NoAnswer]
    /\ net' = requests \cup {Request("release", c, leaseToken[c])}
    /\ leaseToken' = [leaseToken EXCEPT ![c] = 0]
    /\ renewer' = [renewer EXCEPT ![c] = "off"]
    /\ rsince' = [rsince EXCEPT ![c] = 0]
    /\ ranswer' = [ranswer EXCEPT ![c] = NoAnswer]
    /\ UNCHANGED <<leaseExpires, lost>>

\* The body ends; with a running renewal task __aexit__ cancels it and waits.
BodyEnds(c, how) ==
    /\ main[c] = "body"
    /\ bodyExit' = [bodyExit EXCEPT ![c] = how]
    /\ cancelled' = [cancelled EXCEPT ![c] = how = "cancelled"]
    /\ \/ /\ renewer[c] \in {"off", "ended"}
          /\ DropAndRelease(c, net)
       \/ /\ renewer[c] \in {"sleep", "extend"}
          /\ main' = [main EXCEPT ![c] = "stop_renewer"]
          /\ UNCHANGED <<net, answer, leaseVars, renewVars>>
    /\ UNCHANGED <<clock, storeVars, since, deadline, outcome, overlapped>>

\* _stop_renewer returns: the cancelled task is gone, its extend may still run.
RenewerStopped(c) ==
    /\ main[c] = "stop_renewer"
    /\ \E requests \in Abandon(c, {"extend"}) : DropAndRelease(c, requests)
    /\ UNCHANGED <<clock, storeVars, since, deadline, bodyExit, outcome, overlapped,
                   cancelled>>

\* mutant: what the store answered to the release is not looked at.
IgnoresOutcome(c, a) == lost[c]

\* mutant: a release the store did not confirm counts as a lost lease.
UnconfirmedIsLost(c, a) == lost[c] \/ a # Done

\* `_lost`, or the store said the lease had already ended.
SectionLost(c, a) == lost[c] \/ a \notin {NoAnswer, Done}

ExitOutcome(c, a) ==
    CASE bodyExit[c] # "returned" -> bodyExit[c]
      [] SectionLost(c, a) -> "lost"
      [] OTHER -> IF a = NoAnswer THEN "unconfirmed" ELSE "clean"

\* The release was answered, or RedisError came instead of an answer (NoAnswer).
Exit(c) ==
    /\ main[c] = "release"
    /\ net' \in Abandon(c, {"release"})
    /\ main' = [main EXCEPT ![c] = "idle"]
    /\ \E a \in {answer[c], NoAnswer} :
          outcome' = [outcome EXCEPT ![c] = ExitOutcome(c, a)]
    /\ answer' = [answer EXCEPT ![c] = NoAnswer]
    /\ bodyExit' = [bodyExit EXCEPT ![c] = "returned"]
    /\ UNCHANGED <<clock, storeVars, since, deadline, leaseVars, renewVars, overlapped,
                   cancelled>>

-----------------------------------------------------------------------------
(* The renewal task.                                                       *)

RenewSend(c) ==
    /\ renewer[c] = "sleep" /\ main[c] = "body"
    /\ clock >= rsince[c] + RenewInterval
    /\ renewer' = [renewer EXCEPT ![c] = "extend"]
    /\ rsince' = [rsince EXCEPT ![c] = clock]
    /\ net' = net \cup {Request("extend", c, leaseToken[c])}
    /\ UNCHANGED <<clock, storeVars, callVars, leaseVars, ranswer, overlapped>>

\* The extend was answered: keep the renewed lease, or report it lost and end.
RenewAnswered(c) ==
    /\ renewer[c] = "extend" /\ main[c] = "body" /\ ranswer[c] # NoAnswer
    /\ ranswer' = [ranswer EXCEPT ![c] = NoAnswer]
    /\ \/ /\ ranswer[c] = Done
          /\ leaseExpires' = [leaseExpires EXCEPT ![c] = ExpiryFrom(rsince[c])]
          /\ renewer' = [renewer EXCEPT ![c] = "sleep"]
          /\ rsince' = [rsince EXCEPT ![c] = clock]
          /\ UNCHANGED lost
       \/ /\ ranswer[c] # Done
          /\ lost' = [lost EXCEPT ![c] = TRUE]
          /\ renewer' = [renewer EXCEPT ![c] = "ended"]
          /\ UNCHANGED <<leaseExpires, rsince>>
    /\ UNCHANGED <<clock, storeVars, net, callVars, leaseToken, overlapped>>

\* LockBackendUnavailableError out of extend: sleep and try again.
RenewFails(c) ==
    /\ renewer[c] = "extend" /\ main[c] = "body"
    /\ net' \in Abandon(c, {"extend"})
    /\ renewer' = [renewer EXCEPT ![c] = "sleep"]
    /\ rsince' = [rsince EXCEPT ![c] = clock]
    /\ ranswer' = [ranswer EXCEPT ![c] = NoAnswer]
    /\ UNCHANGED <<clock, storeVars, callVars, leaseVars, overlapped>>

-----------------------------------------------------------------------------
(* What the environment does.                                              *)

\* The caller's task is cancelled at an await of lock.py.  While it waits for the
\* renewal task the CancelledError surfaces at `await renewer`, where it is taken
\* for the renewer's own and dropped.
Cancel(c) ==
    /\ cancelled' = [cancelled EXCEPT ![c] = TRUE]
    /\ \/ /\ main[c] \in {"acquire", "sleep", "release"}
          /\ net' \in Abandon(c, {"acquire", "release"})
          /\ main' = [main EXCEPT ![c] = "idle"]
          /\ outcome' = [outcome EXCEPT ![c] = "cancelled"]
          /\ bodyExit' = [bodyExit EXCEPT ![c] = "returned"]
          /\ EndAcquire(c)
          /\ UNCHANGED <<leaseVars, renewVars>>
       \/ /\ main[c] = "stop_renewer"
          /\ \E requests \in Abandon(c, {"extend"}) : DropAndRelease(c, requests)
          /\ UNCHANGED <<outcome, bodyExit, since, deadline>>
    /\ UNCHANGED <<clock, storeVars, overlapped>>

\* The client's process dies: what it knew is gone, what it sent may still run.
Crash(c) ==
    /\ main[c] # "idle"
    /\ net' \in Abandon(c, Ops)
    /\ main' = [main EXCEPT ![c] = "idle"]
    /\ EndAcquire(c)
    /\ outcome' = [outcome EXCEPT ![c] = "none"]
    /\ bodyExit' = [bodyExit EXCEPT ![c] = "returned"]
    /\ overlapped' = [overlapped EXCEPT ![c] = FALSE]
    /\ cancelled' = [cancelled EXCEPT ![c] = FALSE]
    /\ leaseToken' = [leaseToken EXCEPT ![c] = 0]
    /\ lost' = [lost EXCEPT ![c] = FALSE]
    /\ leaseExpires' = [leaseExpires EXCEPT ![c] = 0]
    /\ renewer' = [renewer EXCEPT ![c] = "off"]
    /\ rsince' = [rsince EXCEPT ![c] = 0]
    /\ ranswer' = [ranswer EXCEPT ![c] = NoAnswer]
    /\ UNCHANGED <<clock, storeVars>>

Tick ==
    /\ clock < MaxClock
    /\ clock' = clock + 1
    /\ UNCHANGED <<storeVars, net, callVars, leaseVars, renewVars, overlapped>>

StoreStep == \E r \in net : StoreAcquire(r) \/ StoreExtend(r) \/ StoreRelease(r)

ClientStep(c) ==
    \/ Acquired(c) \/ RefusedAcquire(c) \/ Retry(c) \/ AcquireFails(c)
    \/ RenewerStopped(c) \/ Exit(c)
    \/ RenewSend(c) \/ RenewAnswered(c) \/ RenewFails(c)

Next ==
    \/ StoreStep
    \/ \E c \in Clients :
        \/ Enter(c) \/ ClientStep(c) \/ Cancel(c) \/ Crash(c)
        \/ \E how \in {"returned", "raised", "cancelled"} : BodyEnds(c, how)
    \/ Tick

Spec == Init /\ [][Next]_vars

\* The name is taken and the deadline ahead: the task goes to sleep by itself.
TriesAgain(c) == RefusedAcquire(c) /\ ~GivesUp(c)

\* The event loop runs every ready task and time passes.  Nothing obliges a body to end, or
\* the store to answer: RedisLockBackend.from_url sets no socket timeout.
Fairness ==
    /\ WF_vars(Tick)
    /\ \A c \in Clients : WF_vars(Acquired(c)) /\ WF_vars(TriesAgain(c)) /\ WF_vars(Retry(c))

FairSpec == Spec /\ Fairness

-----------------------------------------------------------------------------
(* Properties.                                                             *)

\* As far as its own clock can tell, c holds the lock (not Lease.is_expired).
LocallyLive(c) == leaseToken[c] # 0 /\ clock < leaseExpires[c]

\* At most one client holds an unexpired lease, whatever is lost, delayed,
\* cancelled or crashed: the exclusion `async with DistributedLock` is for.
MutualExclusion ==
    \A c, d \in Clients : LocallyLive(c) /\ LocallyLive(d) => c = d

\* A lease a client believes in is backed by the store's claim for at least as
\* long: Lease.expires_at errs on the pessimistic side, renewals included.
LeaseIsBacked ==
    \A c \in Clients :
        LocallyLive(c) => heldToken = leaseToken[c] /\ heldUntil >= leaseExpires[c]

\* An `async with` that ends without LockLostError and with its release confirmed
\* ran beside no other holder.
CleanExitWasExclusive ==
    \A c \in Clients : outcome[c] = "clean" => ~overlapped[c]

\* LockLostError is never a false alarm: the lease really had run out.
LossIsReal ==
    \A c \in Clients : lost[c] \/ outcome[c] = "lost" => clock >= leaseExpires[c]

\* c waits for the store: for its acquire, or past the deadline for the inspect that
\* names the holder (_unavailable).
AwaitsStore(c) ==
    /\ main[c] = "acquire"
    /\ answer[c] = NoAnswer \/ (answer[c] = Refused /\ GivesUp(c))

\* Whoever holds the name and for however long, _acquire ends: with a lease, a 409, a 503
\* or a cancellation.  One thing can hold it past wait_timeout, a single call that the
\* store never answers.
AcquireTerminates ==
    \A c \in Clients :
        \/ []<>(main[c] \notin {"acquire", "sleep"})
        \/ <>[]AwaitsStore(c)

\* "A cancellation aimed at the *caller* arrives on the caller's task and is
\* unaffected by this" (_stop_renewer): a cancelled caller ends cancelled.
CancellationReachesCaller ==
    \A c \in Clients : main[c] = "idle" /\ cancelled[c] => outcome[c] = "cancelled"
=============================================================================
