------------------------ MODULE DistributedLockProofs ------------------------
(***************************************************************************)
(* The invariants of DistributedLock, for every set of clients, TTL,        *)
(* renewal interval and bound.                                              *)
(*                                                                         *)
(* LeaseIsBacked is not inductive: a lease comes into being when an answer  *)
(* is read, long after the store decided.  IInv therefore also says what    *)
(* answers not yet read are worth, who may own a token, and that a release  *)
(* in flight carries a token nobody relies on any more.                     *)
(*                                                                         *)
(* LossIsReal and CleanExitWasExclusive, what an `async with` reports when  *)
(* it ends, rest on a second invariant on top of it.  OutcomeInv says what  *)
(* the answers to extends and releases, and an overlap with another holder, *)
(* say about the lease they concern.                                        *)
(***************************************************************************)
EXTENDS TLAPS, DistributedLock

\* c relies on token t, or will once it reads the answer to its acquire.
Owns(c, t) == leaseToken[c] = t \/ (main[c] = "acquire" /\ answer[c] = t)

TokensBounded ==
    /\ heldToken <= counter
    /\ \A c \in Clients : leaseToken[c] <= counter
    /\ \A c \in Clients : main[c] = "acquire" => answer[c] <= counter
    /\ \A r \in net : r.token <= counter

TokensDistinct ==
    \A c, d \in Clients : \A t \in 1..counter : Owns(c, t) /\ Owns(d, t) => c = d

PhasesConsistent ==
    \A c \in Clients :
        /\ leaseToken[c] # 0 <=> main[c] \in {"body", "stop_renewer"}
        /\ renewer[c] = "extend" => main[c] \in {"body", "stop_renewer"}
        /\ renewer[c] # "extend" => ranswer[c] = NoAnswer

RequestsConsistent ==
    \A r \in net :
        /\ r.op = "release" => r.token # 0 /\ \A c \in Clients : ~Owns(c, r.token)
        /\ r.live /\ r.op = "release" => main[r.client] = "release"
        /\ r.op = "acquire" => r.token = 0
        /\ r.live /\ r.op = "acquire" =>
                main[r.client] = "acquire" /\ answer[r.client] = NoAnswer
        /\ r.live /\ r.op = "extend" =>
                /\ renewer[r.client] = "extend" /\ ranswer[r.client] = NoAnswer
                /\ r.token = leaseToken[r.client]

TimesConsistent ==
    /\ heldUntil <= clock + TTL
    /\ \A c \in Clients : since[c] <= clock /\ rsince[c] <= clock

\* The store's claim carries token t and lasts at least until e.
Claimed(t, e) == heldToken = t /\ heldUntil >= e

AnswersBacked ==
    \A c \in Clients :
        /\ main[c] = "acquire" /\ answer[c] > Refused /\ clock < since[c] + TTL
              => Claimed(answer[c], since[c] + TTL)
        /\ renewer[c] = "extend" /\ ranswer[c] = Done /\ clock < rsince[c] + TTL
              => Claimed(leaseToken[c], rsince[c] + TTL)

IInv ==
    /\ TypeOK /\ TokensBounded /\ TokensDistinct /\ PhasesConsistent
    /\ RequestsConsistent /\ TimesConsistent /\ LeaseIsBacked /\ AnswersBacked

-----------------------------------------------------------------------------
(* Proofs.                                                                 *)

USE DEF NoAnswer, NotOwner, Gone, Refused, Done, Ops, Phases

\* Abandon leaves requests that were in flight before, and none of `ops` that c
\* still waits for.
LEMMA AbandonedRequests ==
    ASSUME TypeOK, NEW c \in Clients, NEW ops, NEW requests \in Abandon(c, ops),
           NEW r \in requests
    PROVE  /\ r \in Requests
           /\ \E q \in net : /\ r.op = q.op /\ r.client = q.client /\ r.token = q.token
                             /\ r.live => r = q /\ ~(q.client = c /\ q.op \in ops)
  <1> DEFINE mine == {q \in net : q.client = c /\ q.op \in ops /\ q.live}
             late == {[q EXCEPT !.live = FALSE] : q \in mine}
  <1>1. r \in (net \ mine) \/ r \in late
    BY Zenon DEF Abandon
  <1>2. CASE r \in net \ mine
    BY Zenon, <1>2 DEF TypeOK
  <1>3. CASE r \in late
    <2>1. PICK q \in net : r = [q EXCEPT !.live = FALSE]
      BY Zenon, <1>3
    <2>2. q \in Requests
      BY Zenon, <2>1 DEF TypeOK
    <2> QED BY Zenon, <2>1, <2>2 DEF Requests
  <1> QED BY Zenon, <1>1, <1>2, <1>3

\* What is still in flight was sent before, and nothing of it has become live.
LEMMA AbandonedLive ==
    ASSUME TypeOK, NEW c \in Clients, NEW ops, NEW requests \in Abandon(c, ops)
    PROVE  /\ \A r \in requests :
                 \E q \in net : /\ r.op = q.op /\ r.client = q.client /\ r.token = q.token
                                /\ r.live => r = q
           /\ \A r \in requests : r.live => r \in net
  BY AbandonedRequests

\* A request built by Request is one.
LEMMA RequestTyped ==
    ASSUME NEW o \in Ops, NEW c \in Clients, NEW t \in Nat
    PROVE  Request(o, c, t) \in Requests
  BY Zenon DEF Request, Requests

\* A grant goes to a name nobody can still believe to hold, under a fresh token.
LEMMA StoreAcquireStep ==
    ASSUME IInv, NEW r \in net, StoreAcquire(r)
    PROVE  IInv'
  <1> USE TTLAssumption DEF IInv
  <1>1. TypeOK'
    <2>1. CASE Live
      BY <2>1 DEF StoreAcquire, TypeOK, storeVars, renewVars, leaseVars
    <2>2. CASE ~Live
      <3>1. counter' \in Nat /\ heldToken' \in Nat /\ heldUntil' \in Nat
        BY <2>2 DEF StoreAcquire, TypeOK
      <3>2. answer' \in [Clients -> Int]
        BY <2>2, <3>1 DEF StoreAcquire, TypeOK
      <3>3. overlapped' \in [Clients -> BOOLEAN]
        BY <2>2, Zenon DEF StoreAcquire
      <3> QED BY Zenon, <2>2, <3>1, <3>2, <3>3 DEF StoreAcquire, TypeOK, renewVars, leaseVars
    <2> QED BY Zenon, <2>1, <2>2
  <1>2. TokensBounded'
    BY DEF StoreAcquire, TokensBounded, storeVars, leaseVars, TypeOK, Requests
  <1>3. TokensDistinct'
    BY DEF StoreAcquire, TokensDistinct, TokensBounded, Owns, leaseVars, TypeOK
  <1>4. PhasesConsistent'
    BY Zenon DEF StoreAcquire, PhasesConsistent, renewVars, leaseVars
  <1>5. RequestsConsistent'
    <2>1. ASSUME NEW q \in net', q.op = "release", NEW c \in Clients, Owns(c, q.token)'
          PROVE  FALSE
      <3>1. q \in net /\ q.token \in Nat \ {0} /\ q.token <= counter /\ ~Owns(c, q.token)
        BY Zenon, <2>1 DEF StoreAcquire, RequestsConsistent, TokensBounded, TypeOK, Requests
      <3> QED BY <2>1, <3>1 DEF StoreAcquire, Owns, leaseVars, TypeOK
    <2>2. ASSUME NEW q \in net', q.op = "acquire", q.live
          PROVE  main'[q.client] = "acquire" /\ answer'[q.client] = NoAnswer
      <3>1. ASSUME r.live  PROVE q.client # r.client
        BY <2>2, <3>1 DEF StoreAcquire, RequestsConsistent, TypeOK, Requests
      <3> QED BY <2>2, <3>1 DEF StoreAcquire, RequestsConsistent, TypeOK, Requests
    <2> QED BY Zenon, <2>1, <2>2 DEF StoreAcquire, RequestsConsistent, leaseVars, renewVars
  <1>6. TimesConsistent'
    BY DEF StoreAcquire, TimesConsistent, storeVars, renewVars, TypeOK
  <1>7. LeaseIsBacked'
    BY DEF StoreAcquire, Live, LeaseIsBacked, LocallyLive, storeVars, leaseVars, TypeOK
  <1>8. AnswersBacked'
    BY DEF StoreAcquire, Live, AnswersBacked, Claimed, TimesConsistent,
       PhasesConsistent, storeVars, renewVars, leaseVars, TypeOK
  <1> QED BY Zenon, <1>1, <1>2, <1>3, <1>4, <1>5, <1>6, <1>7, <1>8

\* An extend lengthens only the claim it names.
LEMMA StoreExtendStep ==
    ASSUME IInv, NEW r \in net, StoreExtend(r)
    PROVE  IInv'
  <1> USE TTLAssumption DEF IInv
  <1>1. TypeOK'
    BY DEF StoreExtend, ClaimAnswer, TypeOK, Requests, leaseVars, callVars
  <1>2. TokensBounded'
    BY Zenon DEF StoreExtend, TokensBounded, leaseVars, callVars
  <1>3. TokensDistinct'
    BY Zenon DEF StoreExtend, TokensDistinct, Owns, leaseVars, callVars
  <1>4. PhasesConsistent'
    BY DEF StoreExtend, PhasesConsistent, RequestsConsistent, callVars, leaseVars, TypeOK
  <1>5. RequestsConsistent'
    <2>1. ASSUME NEW q \in net', q.op = "extend", q.live
          PROVE  ranswer'[q.client] = NoAnswer
      <3>1. ASSUME r.live  PROVE q.client # r.client
        BY <2>1, <3>1 DEF StoreExtend, RequestsConsistent, TypeOK, Requests
      <3> QED BY <2>1, <3>1 DEF StoreExtend, RequestsConsistent, TypeOK
    <2> QED BY Zenon, <2>1 DEF StoreExtend, RequestsConsistent, Owns, callVars, leaseVars
  <1>6. TimesConsistent'
    BY DEF StoreExtend, TimesConsistent, callVars, TypeOK
  <1>7. LeaseIsBacked'
    BY DEF StoreExtend, LeaseIsBacked, LocallyLive, TimesConsistent, leaseVars, TypeOK
  <1>8. AnswersBacked'
    BY DEF StoreExtend, OwnClaim, ClaimAnswer, AnswersBacked, Claimed,
       TimesConsistent, RequestsConsistent, leaseVars, callVars, TypeOK
  <1> QED BY Zenon, <1>1, <1>2, <1>3, <1>4, <1>5, <1>6, <1>7, <1>8

\* A release ends only the claim it names, which nobody relies on.
LEMMA StoreReleaseStep ==
    ASSUME IInv, NEW r \in net, StoreRelease(r)
    PROVE  IInv'
  <1> USE TTLAssumption DEF IInv
  <1>1. TypeOK'
    BY DEF StoreRelease, ClaimAnswer, TypeOK, Requests, renewVars, leaseVars
  <1>2. TokensBounded'
    BY DEF StoreRelease, Live, ClaimAnswer, TokensBounded, leaseVars, TypeOK
  <1>3. TokensDistinct'
    BY DEF StoreRelease, TokensDistinct, RequestsConsistent, Owns, leaseVars, TypeOK
  <1>4. PhasesConsistent'
    BY Zenon DEF StoreRelease, PhasesConsistent, renewVars, leaseVars
  <1>5. RequestsConsistent'
    BY DEF StoreRelease, RequestsConsistent, Owns, renewVars, leaseVars, TypeOK
  <1>6. TimesConsistent'
    BY Zenon DEF StoreRelease, TimesConsistent, renewVars
  <1>7. LeaseIsBacked'
    BY Zenon DEF StoreRelease, OwnClaim, LeaseIsBacked, LocallyLive, RequestsConsistent,
       Owns, leaseVars
  <1>8. AnswersBacked'
    BY DEF StoreRelease, OwnClaim, AnswersBacked, Claimed, RequestsConsistent, Owns,
       renewVars, leaseVars, TypeOK
  <1> QED BY Zenon, <1>1, <1>2, <1>3, <1>4, <1>5, <1>6, <1>7, <1>8

\* A first request promises nothing yet.
LEMMA EnterStep ==
    ASSUME IInv, NEW c \in Clients, Enter(c)
    PROVE  IInv'
  <1> USE TTLAssumption DEF IInv
  <1>1. TypeOK'
    BY RequestTyped, WaitAssumption DEF Enter, SendAcquire, TypeOK, Outcomes,
       storeVars, renewVars, leaseVars
  <1>2. TokensBounded'
    BY DEF Enter, SendAcquire, Request, TokensBounded, storeVars, leaseVars, TypeOK
  <1>3. TokensDistinct'
    BY DEF Enter, SendAcquire, TokensDistinct, Owns, storeVars, leaseVars, TypeOK
  <1>4. PhasesConsistent'
    BY DEF Enter, SendAcquire, PhasesConsistent, renewVars, leaseVars, TypeOK
  <1>5. RequestsConsistent'
    BY DEF Enter, SendAcquire, Request, RequestsConsistent, Owns, renewVars,
       leaseVars, TypeOK, Requests
  <1>6. TimesConsistent'
    BY DEF Enter, SendAcquire, TimesConsistent, storeVars, renewVars, TypeOK
  <1>7. LeaseIsBacked'
    BY Zenon DEF Enter, LeaseIsBacked, LocallyLive, storeVars, leaseVars
  <1>8. AnswersBacked'
    BY DEF Enter, SendAcquire, AnswersBacked, Claimed, storeVars, renewVars,
       leaseVars, TypeOK
  <1> QED BY Zenon, <1>1, <1>2, <1>3, <1>4, <1>5, <1>6, <1>7, <1>8

\* Reading the answer turns what it was worth into a lease.
LEMMA AcquiredStep ==
    ASSUME IInv, NEW c \in Clients, Acquired(c)
    PROVE  IInv'
  <1> USE TTLAssumption DEF IInv
  <1>1. TypeOK'
    BY DEF Acquired, EndAcquire, ExpiryFrom, TypeOK, storeVars
  <1>2. TokensBounded'
    BY Zenon DEF Acquired, EndAcquire, TokensBounded, storeVars, TypeOK
  <1>3. TokensDistinct'
    BY DEF Acquired, EndAcquire, TokensDistinct, Owns, storeVars, TypeOK
  <1>4. PhasesConsistent'
    BY DEF Acquired, PhasesConsistent, TypeOK
  <1>5. RequestsConsistent'
    <2>1. ASSUME NEW d \in Clients, NEW t \in Nat, t # 0, Owns(d, t)'
          PROVE  Owns(d, t)
      BY <2>1 DEF Acquired, EndAcquire, Owns, TypeOK
    <2>2. ASSUME NEW r \in net, r.live, r.client = c
          PROVE  r.op \notin {"acquire", "extend", "release"}
      BY <2>2 DEF Acquired, RequestsConsistent, PhasesConsistent, TypeOK
    <2> QED BY <2>1, <2>2 DEF Acquired, EndAcquire, RequestsConsistent, TypeOK, Requests
  <1>6. TimesConsistent'
    BY DEF Acquired, EndAcquire, TimesConsistent, storeVars, TypeOK
  <1>7. LeaseIsBacked'
    BY Zenon DEF Acquired, ExpiryFrom, LeaseIsBacked, LocallyLive, AnswersBacked, Claimed,
       storeVars, TypeOK
  <1>8. AnswersBacked'
    BY Zenon DEF Acquired, EndAcquire, AnswersBacked, Claimed, storeVars, TypeOK
  <1> QED BY Zenon, <1>1, <1>2, <1>3, <1>4, <1>5, <1>6, <1>7, <1>8

\* A refusal leaves nothing behind.
LEMMA RefusedAcquireStep ==
    ASSUME IInv, NEW c \in Clients, RefusedAcquire(c)
    PROVE  IInv'
  <1> USE TTLAssumption DEF IInv
  <1>1. TypeOK'
    BY DEF RefusedAcquire, EndAcquire, TypeOK, Outcomes, storeVars, renewVars, leaseVars
  <1>2. TokensBounded'
    BY Zenon DEF RefusedAcquire, EndAcquire, TokensBounded, storeVars, leaseVars, TypeOK
  <1>3. TokensDistinct'
    BY DEF RefusedAcquire, EndAcquire, TokensDistinct, Owns, storeVars, renewVars,
       leaseVars, TypeOK
  <1>4. PhasesConsistent'
    BY Zenon DEF RefusedAcquire, PhasesConsistent, renewVars, leaseVars, TypeOK
  <1>5. RequestsConsistent'
    <2>1. ASSUME NEW d \in Clients, NEW t \in Nat, t # 0, Owns(d, t)'
          PROVE  Owns(d, t)
      BY Zenon, <2>1 DEF RefusedAcquire, EndAcquire, leaseVars, Owns, TypeOK
    <2>2. ASSUME NEW r \in net, r.live, r.client = c
          PROVE  r.op \notin {"acquire", "extend", "release"}
      BY <2>2 DEF RefusedAcquire, RequestsConsistent, PhasesConsistent, TypeOK, Requests
    <2> QED BY <2>1, <2>2 DEF RefusedAcquire, EndAcquire, RequestsConsistent, TypeOK,
       Requests, leaseVars, renewVars
  <1>6. TimesConsistent'
    BY DEF RefusedAcquire, EndAcquire, TimesConsistent, storeVars, renewVars, TypeOK
  <1>7. LeaseIsBacked'
    BY Zenon DEF RefusedAcquire, LeaseIsBacked, LocallyLive, storeVars, leaseVars
  <1>8. AnswersBacked'
    BY DEF RefusedAcquire, EndAcquire, AnswersBacked, Claimed, storeVars, renewVars,
       leaseVars, TypeOK
  <1> QED BY Zenon, <1>1, <1>2, <1>3, <1>4, <1>5, <1>6, <1>7, <1>8

\* Another request promises nothing yet.
LEMMA RetryStep ==
    ASSUME IInv, NEW c \in Clients, Retry(c)
    PROVE  IInv'
  <1> USE TTLAssumption DEF IInv
  <1>1. TypeOK'
    BY RequestTyped, WaitAssumption DEF Retry, SendAcquire, TypeOK, storeVars,
       renewVars, leaseVars
  <1>2. TokensBounded'
    BY DEF Retry, SendAcquire, Request, TokensBounded, storeVars, leaseVars, TypeOK
  <1>3. TokensDistinct'
    BY DEF Retry, SendAcquire, TokensDistinct, Owns, storeVars, leaseVars, TypeOK
  <1>4. PhasesConsistent'
    BY Zenon DEF Retry, SendAcquire, PhasesConsistent, renewVars, leaseVars, TypeOK
  <1>5. RequestsConsistent'
    BY DEF Retry, SendAcquire, Request, RequestsConsistent, Owns, renewVars,
       leaseVars, TypeOK, Requests
  <1>6. TimesConsistent'
    BY DEF Retry, SendAcquire, TimesConsistent, storeVars, renewVars, TypeOK
  <1>7. LeaseIsBacked'
    BY Zenon DEF Retry, LeaseIsBacked, LocallyLive, storeVars, leaseVars
  <1>8. AnswersBacked'
    BY DEF Retry, SendAcquire, AnswersBacked, Claimed, storeVars, renewVars,
       leaseVars, TypeOK
  <1> QED BY Zenon, <1>1, <1>2, <1>3, <1>4, <1>5, <1>6, <1>7, <1>8

\* A grant whose answer was lost belongs to nobody.
LEMMA AcquireFailsStep ==
    ASSUME IInv, NEW c \in Clients, AcquireFails(c)
    PROVE  IInv'
  <1> USE TTLAssumption DEF IInv
  <1>1. TypeOK'
    BY AbandonedRequests DEF AcquireFails, EndAcquire, TypeOK, Outcomes, storeVars,
       renewVars, leaseVars
  <1>2. TokensBounded'
    BY AbandonedRequests DEF AcquireFails, EndAcquire, TokensBounded, storeVars,
       leaseVars, TypeOK
  <1>3. TokensDistinct'
    BY DEF AcquireFails, EndAcquire, TokensDistinct, Owns, storeVars, leaseVars, TypeOK
  <1>4. PhasesConsistent'
    BY Zenon DEF AcquireFails, PhasesConsistent, renewVars, leaseVars, TypeOK
  <1>5. RequestsConsistent'
    BY AbandonedRequests DEF AcquireFails, EndAcquire, RequestsConsistent, Owns,
       renewVars, leaseVars, TypeOK, Requests
  <1>6. TimesConsistent'
    BY DEF AcquireFails, EndAcquire, TimesConsistent, storeVars, renewVars, TypeOK
  <1>7. LeaseIsBacked'
    BY Zenon DEF AcquireFails, LeaseIsBacked, LocallyLive, storeVars, leaseVars
  <1>8. AnswersBacked'
    BY Zenon DEF AcquireFails, EndAcquire, AnswersBacked, Claimed, storeVars, renewVars,
       leaseVars, TypeOK
  <1> QED BY Zenon, <1>1, <1>2, <1>3, <1>4, <1>5, <1>6, <1>7, <1>8

\* The lease is dropped before its release is sent.
LEMMA BodyEndsStep ==
    ASSUME IInv, NEW c \in Clients, NEW how \in {"returned", "raised", "cancelled"},
           BodyEnds(c, how)
    PROVE  IInv'
  <1> USE TTLAssumption DEF IInv
  <1>1. TypeOK'
    <2>1. CASE DropAndRelease(c, net)
      BY <2>1, RequestTyped DEF BodyEnds, DropAndRelease, TypeOK, storeVars
    <2>2. CASE UNCHANGED <<net, answer, leaseVars, renewVars>>
               /\ main' = [main EXCEPT ![c] = "stop_renewer"]
      BY Zenon, <2>2 DEF BodyEnds, TypeOK, storeVars, leaseVars, renewVars
    <2> QED BY Zenon, <2>1, <2>2 DEF BodyEnds
  <1>2. TokensBounded'
    BY DEF BodyEnds, DropAndRelease, Request, TokensBounded, storeVars, leaseVars,
       TypeOK
  <1>3. TokensDistinct'
    BY DEF BodyEnds, DropAndRelease, TokensDistinct, Owns, storeVars, leaseVars, TypeOK
  <1>4. PhasesConsistent'
    BY DEF BodyEnds, DropAndRelease, PhasesConsistent, renewVars, leaseVars, TypeOK
  <1>5. RequestsConsistent'
    <2>1. ASSUME NEW d \in Clients, NEW t \in Nat, t # 0, Owns(d, t)'
          PROVE  Owns(d, t)
      BY <2>1 DEF BodyEnds, DropAndRelease, leaseVars, Owns, TypeOK
    <2>2. CASE renewer[c] \in {"off", "ended"} /\ DropAndRelease(c, net)
      <3>1. PICK t \in Nat : t = leaseToken[c] /\ t # 0 /\ t <= counter
        BY Zenon DEF BodyEnds, PhasesConsistent, TokensBounded, TypeOK
      <3>2. \A d \in Clients : ~Owns(d, t)'
        BY <2>2, <3>1 DEF DropAndRelease, TokensDistinct, Owns, TypeOK
      <3>3. ASSUME NEW r \in net, r.live  PROVE  r.client # c
        BY Zenon, <2>2, <3>3 DEF BodyEnds, RequestsConsistent, TypeOK, Requests
      <3> QED BY <2>1, <2>2, <3>1, <3>2, <3>3 DEF DropAndRelease, Request,
         RequestsConsistent, TypeOK, Requests
    <2>3. CASE UNCHANGED <<net, answer, leaseVars, renewVars>>
               /\ main' = [main EXCEPT ![c] = "stop_renewer"]
      BY <2>1, <2>3 DEF BodyEnds, RequestsConsistent, TypeOK, Requests, leaseVars,
         renewVars
    <2> QED BY Zenon, <2>2, <2>3 DEF BodyEnds
  <1>6. TimesConsistent'
    BY DEF BodyEnds, DropAndRelease, TimesConsistent, storeVars, renewVars, TypeOK
  <1>7. LeaseIsBacked'
    BY Zenon DEF BodyEnds, DropAndRelease, LeaseIsBacked, LocallyLive, storeVars, leaseVars,
       TypeOK
  <1>8. AnswersBacked'
    BY DEF BodyEnds, DropAndRelease, AnswersBacked, Claimed, storeVars, renewVars,
       leaseVars, TypeOK
  <1> QED BY Zenon, <1>1, <1>2, <1>3, <1>4, <1>5, <1>6, <1>7, <1>8

\* Giving up the lease after the renewal task was waited for: the release names a
\* token that nobody owns any more, and no extend of c is waited for.
LEMMA ReleaseRequests ==
    ASSUME IInv, NEW c \in Clients, main[c] = "stop_renewer",
           NEW requests \in Abandon(c, {"extend"}), DropAndRelease(c, requests)
    PROVE  RequestsConsistent'
  <1> USE DEF IInv
  <1>1. ASSUME NEW d \in Clients, NEW t \in Nat, t # 0, Owns(d, t)'
        PROVE  Owns(d, t) /\ d # c
    BY Zenon, <1>1 DEF DropAndRelease, Owns, TypeOK
  <1>2. PICK token \in 1..counter : token = leaseToken[c]
    BY DEF PhasesConsistent, TokensBounded, TypeOK
  <1>3. ASSUME NEW d \in Clients, Owns(d, token)'  PROVE FALSE
    <2>1. Owns(d, token) /\ d # c
      BY <1>1, <1>3 DEF TypeOK
    <2>2. Owns(c, token)
      BY Zenon, <1>2 DEF Owns
    <2> QED BY Zenon, <2>1, <2>2 DEF TokensDistinct
  <1>4. net' = requests \cup {Request("release", c, token)}
    BY Zenon, <1>2 DEF DropAndRelease
  <1>5. ASSUME NEW r \in requests
        PROVE  RequestsConsistent!(r)'
    BY <1>1, AbandonedRequests DEF DropAndRelease, RequestsConsistent, TypeOK, Requests
  <1>6. RequestsConsistent!(Request("release", c, token))'
    BY <1>2, <1>3 DEF DropAndRelease, Request, TypeOK
  <1> QED BY Zenon, <1>4, <1>5, <1>6 DEF RequestsConsistent

\* The same after the renewal task has been waited for.
LEMMA RenewerStoppedStep ==
    ASSUME IInv, NEW c \in Clients, RenewerStopped(c)
    PROVE  IInv'
  <1> USE TTLAssumption DEF IInv
  <1>1. TypeOK'
    <2>1. PICK requests \in Abandon(c, {"extend"}) : DropAndRelease(c, requests)
      BY Zenon DEF RenewerStopped
    <2>2. requests \subseteq Requests
      BY Zenon, AbandonedRequests
    <2> QED BY <2>1, <2>2, RequestTyped DEF RenewerStopped, DropAndRelease, TypeOK,
       storeVars
  <1>2. TokensBounded'
    BY AbandonedRequests DEF RenewerStopped, DropAndRelease, Request, TokensBounded,
       storeVars, TypeOK
  <1>3. TokensDistinct'
    BY DEF RenewerStopped, DropAndRelease, TokensDistinct, Owns, storeVars, TypeOK
  <1>4. PhasesConsistent'
    BY DEF RenewerStopped, DropAndRelease, PhasesConsistent, TypeOK
  <1>5. RequestsConsistent'
    BY Zenon, ReleaseRequests DEF RenewerStopped
  <1>6. TimesConsistent'
    BY DEF RenewerStopped, DropAndRelease, TimesConsistent, storeVars, TypeOK
  <1>7. LeaseIsBacked'
    BY Zenon DEF RenewerStopped, DropAndRelease, LeaseIsBacked, LocallyLive, storeVars, TypeOK
  <1>8. AnswersBacked'
    BY DEF RenewerStopped, DropAndRelease, AnswersBacked, Claimed, storeVars, TypeOK
  <1> QED BY Zenon, <1>1, <1>2, <1>3, <1>4, <1>5, <1>6, <1>7, <1>8

\* The end of the release leaves no request of the caller waited for.
LEMMA ExitStep ==
    ASSUME IInv, NEW c \in Clients, Exit(c)
    PROVE  IInv'
  <1> USE TTLAssumption DEF IInv
  <1>1. TypeOK'
    BY AbandonedRequests DEF Exit, ExitOutcome, Outcomes, TypeOK, storeVars,
       renewVars, leaseVars
  <1>2. TokensBounded'
    BY AbandonedRequests DEF Exit, TokensBounded, storeVars, leaseVars, TypeOK
  <1>3. TokensDistinct'
    BY DEF Exit, TokensDistinct, Owns, storeVars, leaseVars, TypeOK
  <1>4. PhasesConsistent'
    BY DEF Exit, PhasesConsistent, renewVars, leaseVars, TypeOK
  <1>5. RequestsConsistent'
    BY AbandonedRequests DEF Exit, RequestsConsistent, Owns, renewVars, leaseVars,
       TypeOK, Requests
  <1>6. TimesConsistent'
    BY Zenon DEF Exit, TimesConsistent, storeVars, renewVars
  <1>7. LeaseIsBacked'
    BY Zenon DEF Exit, LeaseIsBacked, LocallyLive, storeVars, leaseVars
  <1>8. AnswersBacked'
    BY DEF Exit, AnswersBacked, Claimed, storeVars, renewVars, leaseVars, TypeOK
  <1> QED BY Zenon, <1>1, <1>2, <1>3, <1>4, <1>5, <1>6, <1>7, <1>8

\* An extend in flight is worth nothing until it is answered.
LEMMA RenewSendStep ==
    ASSUME IInv, NEW c \in Clients, RenewSend(c)
    PROVE  IInv'
  <1> USE TTLAssumption DEF IInv
  <1>1. TypeOK'
    BY Zenon, RequestTyped DEF RenewSend, TypeOK, storeVars, leaseVars, callVars
  <1>2. TokensBounded'
    <2>1. PICK q : q = Request("extend", c, leaseToken[c])
      BY Zenon
    <2>2. q.token = leaseToken[c] /\ net' = net \cup {q}
      BY Zenon, <2>1 DEF RenewSend, Request
    <2>3. /\ heldToken' = heldToken /\ counter' = counter /\ leaseToken' = leaseToken
          /\ main' = main /\ answer' = answer
      BY Zenon DEF RenewSend, storeVars, leaseVars, callVars
    <2> QED BY Zenon, <2>2, <2>3 DEF TokensBounded
  <1>3. TokensDistinct'
    BY Zenon DEF RenewSend, TokensDistinct, Owns, storeVars, leaseVars, callVars
  <1>4. PhasesConsistent'
    BY DEF RenewSend, PhasesConsistent, leaseVars, callVars, TypeOK
  <1>5. RequestsConsistent'
    BY DEF RenewSend, Request, RequestsConsistent, Owns, PhasesConsistent, leaseVars,
       callVars, TypeOK, Requests
  <1>6. TimesConsistent'
    BY DEF RenewSend, TimesConsistent, storeVars, callVars, TypeOK
  <1>7. LeaseIsBacked'
    BY Zenon DEF RenewSend, LeaseIsBacked, LocallyLive, storeVars, leaseVars
  <1>8. AnswersBacked'
    BY DEF RenewSend, AnswersBacked, Claimed, PhasesConsistent, storeVars, leaseVars,
       callVars, TypeOK
  <1> QED BY Zenon, <1>1, <1>2, <1>3, <1>4, <1>5, <1>6, <1>7, <1>8

\* A confirmed extend lengthens the lease no further than the claim.
LEMMA RenewAnsweredStep ==
    ASSUME IInv, NEW c \in Clients, RenewAnswered(c)
    PROVE  IInv'
  <1> USE TTLAssumption DEF IInv
  <1>1. TypeOK'
    <2>1. lost' \in [Clients -> BOOLEAN]
      BY Zenon DEF RenewAnswered, TypeOK
    <2>2. leaseExpires' \in [Clients -> Nat] /\ rsince' \in [Clients -> Nat]
      BY DEF RenewAnswered, ExpiryFrom, TypeOK
    <2> QED BY <2>1, <2>2 DEF RenewAnswered, TypeOK, storeVars, callVars
  <1>2. TokensBounded'
    BY Zenon DEF RenewAnswered, TokensBounded, storeVars, callVars
  <1>3. TokensDistinct'
    BY Zenon DEF RenewAnswered, TokensDistinct, Owns, storeVars, callVars
  <1>4. PhasesConsistent'
    BY DEF RenewAnswered, PhasesConsistent, callVars, TypeOK
  <1>5. RequestsConsistent'
    BY DEF RenewAnswered, RequestsConsistent, Owns, callVars, TypeOK, Requests
  <1>6. TimesConsistent'
    BY DEF RenewAnswered, TimesConsistent, storeVars, callVars, TypeOK
  <1>7. LeaseIsBacked'
    BY DEF RenewAnswered, ExpiryFrom, LeaseIsBacked, LocallyLive, AnswersBacked,
       Claimed, storeVars, TypeOK
  <1>8. AnswersBacked'
    BY DEF RenewAnswered, AnswersBacked, Claimed, storeVars, callVars, TypeOK
  <1> QED BY Zenon, <1>1, <1>2, <1>3, <1>4, <1>5, <1>6, <1>7, <1>8

\* An extend without an answer leaves the lease as it was.
LEMMA RenewFailsStep ==
    ASSUME IInv, NEW c \in Clients, RenewFails(c)
    PROVE  IInv'
  <1> USE TTLAssumption DEF IInv
  <1>1. TypeOK'
    BY AbandonedRequests DEF RenewFails, TypeOK, storeVars, leaseVars, callVars
  <1>2. TokensBounded'
    BY AbandonedRequests DEF RenewFails, TokensBounded, storeVars, leaseVars, callVars, TypeOK
  <1>3. TokensDistinct'
    BY Zenon DEF RenewFails, TokensDistinct, Owns, storeVars, leaseVars, callVars
  <1>4. PhasesConsistent'
    BY Zenon DEF RenewFails, PhasesConsistent, leaseVars, callVars, TypeOK
  <1>5. RequestsConsistent'
    BY AbandonedRequests DEF RenewFails, RequestsConsistent, Owns, leaseVars, callVars,
       TypeOK, Requests
  <1>6. TimesConsistent'
    BY DEF RenewFails, TimesConsistent, storeVars, callVars, TypeOK
  <1>7. LeaseIsBacked'
    BY Zenon DEF RenewFails, LeaseIsBacked, LocallyLive, storeVars, leaseVars
  <1>8. AnswersBacked'
    BY Zenon DEF RenewFails, AnswersBacked, Claimed, storeVars, leaseVars, callVars, TypeOK
  <1> QED BY Zenon, <1>1, <1>2, <1>3, <1>4, <1>5, <1>6, <1>7, <1>8

\* A cancelled task relies on nothing any more.
LEMMA CancelStep ==
    ASSUME IInv, NEW c \in Clients, Cancel(c)
    PROVE  IInv'
  <1> USE TTLAssumption DEF IInv
  <1>1. TypeOK'
    <2>1. CASE main[c] # "stop_renewer"
      <3>1. net' \subseteq Requests
        BY Zenon, <2>1, AbandonedRequests DEF Cancel
      <3> QED BY <2>1, <3>1 DEF Cancel, EndAcquire, TypeOK, Outcomes, storeVars,
         leaseVars, renewVars
    <2>2. CASE main[c] = "stop_renewer"
      <3>1. PICK requests \in Abandon(c, {"extend"}) : DropAndRelease(c, requests)
        BY Zenon, <2>2 DEF Cancel
      <3>2. requests \subseteq Requests
        BY Zenon, AbandonedRequests
      <3> QED BY <2>2, <3>1, <3>2, RequestTyped DEF Cancel, DropAndRelease, TypeOK,
         storeVars
    <2> QED BY Zenon, <2>1, <2>2
  <1>2. TokensBounded'
    <2>1. \A r \in net' : r.token <= counter
      BY AbandonedRequests DEF Cancel, DropAndRelease, Request, TokensBounded, TypeOK
    <2> QED BY <2>1 DEF Cancel, EndAcquire, DropAndRelease, TokensBounded, storeVars,
       leaseVars, TypeOK
  <1>3. TokensDistinct'
    BY DEF Cancel, EndAcquire, DropAndRelease, TokensDistinct, Owns, storeVars,
       leaseVars, TypeOK
  <1>4. PhasesConsistent'
    BY DEF Cancel, DropAndRelease, PhasesConsistent, renewVars, leaseVars, TypeOK
  <1>5. RequestsConsistent'
    <2>1. CASE main[c] # "stop_renewer"
      BY <2>1, AbandonedRequests DEF Cancel, EndAcquire, RequestsConsistent, Owns,
         TypeOK, Requests, leaseVars, renewVars
    <2>2. CASE main[c] = "stop_renewer"
      BY Zenon, <2>2, ReleaseRequests DEF Cancel
    <2> QED BY Zenon, <2>1, <2>2
  <1>6. TimesConsistent'
    BY DEF Cancel, EndAcquire, DropAndRelease, TimesConsistent, storeVars, renewVars,
       TypeOK
  <1>7. LeaseIsBacked'
    BY Zenon DEF Cancel, DropAndRelease, LeaseIsBacked, LocallyLive, storeVars, leaseVars,
       TypeOK
  <1>8. AnswersBacked'
    BY DEF Cancel, EndAcquire, DropAndRelease, AnswersBacked, Claimed, storeVars,
       renewVars, leaseVars, TypeOK
  <1> QED BY Zenon, <1>1, <1>2, <1>3, <1>4, <1>5, <1>6, <1>7, <1>8

\* A crashed client relies on nothing any more.
LEMMA CrashStep ==
    ASSUME IInv, NEW c \in Clients, Crash(c)
    PROVE  IInv'
  <1> USE TTLAssumption DEF IInv
  <1>1. TypeOK'
    <2>1. net' \subseteq Requests
      BY Zenon, AbandonedRequests DEF Crash
    <2> QED BY <2>1 DEF Crash, EndAcquire, TypeOK, Outcomes, storeVars
  <1>2. TokensBounded'
    <2>1. \A r \in net' : r.token <= counter
      BY AbandonedRequests DEF Crash, TokensBounded, TypeOK
    <2> QED BY <2>1 DEF Crash, EndAcquire, TokensBounded, storeVars, TypeOK
  <1>3. TokensDistinct'
    BY DEF Crash, EndAcquire, TokensDistinct, Owns, storeVars, TypeOK
  <1>4. PhasesConsistent'
    BY Zenon DEF Crash, PhasesConsistent, TypeOK
  <1>5. RequestsConsistent'
    BY AbandonedRequests DEF Crash, EndAcquire, RequestsConsistent, Owns, Requests, TypeOK
  <1>6. TimesConsistent'
    BY DEF Crash, EndAcquire, TimesConsistent, storeVars, TypeOK
  <1>7. LeaseIsBacked'
    BY Zenon DEF Crash, LeaseIsBacked, LocallyLive, storeVars, TypeOK
  <1>8. AnswersBacked'
    BY Zenon DEF Crash, EndAcquire, AnswersBacked, Claimed, storeVars, TypeOK
  <1> QED BY Zenon, <1>1, <1>2, <1>3, <1>4, <1>5, <1>6, <1>7, <1>8

\* Time only ends what was promised.
LEMMA TickStep ==
    ASSUME IInv, Tick
    PROVE  IInv'
  <1> USE TTLAssumption DEF IInv
  <1>1. TypeOK'
    BY DEF Tick, TypeOK, storeVars, renewVars, leaseVars, callVars
  <1>2. TokensBounded'
    BY Zenon DEF Tick, TokensBounded, storeVars, leaseVars, callVars
  <1>3. TokensDistinct'
    BY Zenon DEF Tick, TokensDistinct, Owns, storeVars, leaseVars, callVars
  <1>4. PhasesConsistent'
    BY Zenon DEF Tick, PhasesConsistent, renewVars, leaseVars, callVars
  <1>5. RequestsConsistent'
    BY Zenon DEF Tick, RequestsConsistent, Owns, renewVars, leaseVars, callVars
  <1>6. TimesConsistent'
    BY DEF Tick, TimesConsistent, storeVars, renewVars, callVars, TypeOK
  <1>7. LeaseIsBacked'
    BY DEF Tick, LeaseIsBacked, LocallyLive, storeVars, leaseVars, TypeOK
  <1>8. AnswersBacked'
    BY DEF Tick, AnswersBacked, Claimed, storeVars, renewVars, leaseVars, callVars,
       TypeOK
  <1> QED BY Zenon, <1>1, <1>2, <1>3, <1>4, <1>5, <1>6, <1>7, <1>8

\* The invariant holds initially.
LEMMA InitIInv == Init => IInv
  BY TTLAssumption DEF Init, IInv, TypeOK, TokensBounded, TokensDistinct,
     PhasesConsistent, RequestsConsistent, TimesConsistent, LeaseIsBacked,
     AnswersBacked, Outcomes

\* A step that changes nothing preserves the invariant.
LEMMA StutterStep == IInv /\ UNCHANGED vars => IInv'
  <1> SUFFICES ASSUME IInv, UNCHANGED vars  PROVE IInv'
    BY Zenon
  <1> USE DEF vars, storeVars, renewVars, leaseVars, callVars, IInv
  <1>1. TypeOK' /\ TokensBounded' /\ TimesConsistent' /\ PhasesConsistent'
    BY Zenon DEF TypeOK, TokensBounded, TimesConsistent, PhasesConsistent
  <1>2. TokensDistinct' /\ RequestsConsistent'
    BY Zenon DEF TokensDistinct, RequestsConsistent, Owns
  <1>3. LeaseIsBacked' /\ AnswersBacked'
    BY Zenon DEF LeaseIsBacked, LocallyLive, AnswersBacked, Claimed
  <1> QED BY Zenon, <1>1, <1>2, <1>3

\* Every step of the store, of a client, of its renewal task or of the environment
\* preserves the invariant.
LEMMA NextIInv == IInv /\ [Next]_vars => IInv'
  <1> SUFFICES ASSUME IInv, [Next]_vars  PROVE IInv'
    BY Zenon
  <1>1. CASE StoreStep
    BY Zenon, <1>1, StoreAcquireStep, StoreExtendStep, StoreReleaseStep DEF StoreStep
  <1>2. ASSUME NEW c \in Clients, ClientStep(c)  PROVE IInv'
    BY Zenon, <1>2, AcquiredStep, RefusedAcquireStep, RetryStep, AcquireFailsStep,
       RenewerStoppedStep, ExitStep, RenewSendStep, RenewAnsweredStep, RenewFailsStep
       DEF ClientStep
  <1>3. ASSUME NEW c \in Clients,
               \E how \in {"returned", "raised", "cancelled"} : BodyEnds(c, how)
        PROVE  IInv'
    BY Zenon, <1>3, BodyEndsStep
  <1>4. ASSUME NEW c \in Clients, Enter(c) \/ Cancel(c) \/ Crash(c)  PROVE IInv'
    BY Zenon, <1>4, EnterStep, CancelStep, CrashStep
  <1>5. CASE Tick
    BY Zenon, <1>5, TickStep
  <1>6. CASE UNCHANGED vars
    BY Zenon, <1>6, StutterStep
  <1> QED BY Zenon, <1>1, <1>2, <1>3, <1>4, <1>5, <1>6 DEF Next

\* Along every behaviour the invariant holds.
THEOREM Invariance == Spec => []IInv
  BY InitIInv, NextIInv, PTL DEF Spec

\* Every variable of the store, the clients and the requests keeps its type.
THEOREM TypeCorrect == Spec => []TypeOK
  <1>1. IInv => TypeOK
    BY Zenon DEF IInv
  <1> QED BY <1>1, Invariance, PTL

\* Whatever is lost, delayed, cancelled or crashed, a lease that has not run out by
\* its holder's clock is the store's current claim and ends no later than it:
\* Lease.expires_at is pessimistic for every TTL and renewal interval.
THEOREM LeasesAreBacked == Spec => []LeaseIsBacked
  <1>1. IInv => LeaseIsBacked
    BY Zenon DEF IInv
  <1> QED BY <1>1, Invariance, PTL

\* No two of any number of clients are inside `async with DistributedLock` with an
\* unexpired lease: two such leases would both carry the store's one token.
THEOREM Exclusion == Spec => []MutualExclusion
  <1>1. IInv => MutualExclusion
    <2> SUFFICES ASSUME IInv, NEW c \in Clients, NEW d \in Clients,
                        LocallyLive(c), LocallyLive(d)
                 PROVE  c = d
      BY Zenon DEF MutualExclusion
    <2>1. leaseToken[c] = heldToken /\ leaseToken[d] = heldToken /\ heldToken \in 1..counter
      BY DEF IInv, LeaseIsBacked, LocallyLive, TokensBounded, TypeOK
    <2> QED BY Zenon, <2>1 DEF IInv, TokensDistinct, Owns
  <1> QED BY <1>1, Invariance, PTL

-----------------------------------------------------------------------------
(* What an exit reports.                                                   *)

\* A caller inside `async with` has no outcome yet, and a lease reported lost is
\* not renewed any more.
OutcomesFresh ==
    \A c \in Clients :
        /\ main[c] # "idle" => outcome[c] = "none"
        /\ lost[c] => renewer[c] \in {"off", "ended"}

\* A token is released once.
ReleasesDistinct ==
    \A q, r \in net :
        q.op = "release" /\ r.op = "release" /\ q.token = r.token => q = r

\* Until its release runs, a lease given up early is still backed.
ReleasesBacked ==
    \A r \in net :
        r.op = "release" /\ r.live /\ clock < leaseExpires[r.client]
            => Claimed(r.token, leaseExpires[r.client])

\* The store says no to an extend or a release only after the lease has run out.
RefusalsAreReal ==
    \A c \in Clients :
        \/ main[c] = "release" /\ answer[c] \notin {NoAnswer, Done}
        \/ renewer[c] = "extend" /\ ranswer[c] \notin {NoAnswer, Done}
        => clock >= leaseExpires[c]

\* Once somebody else was granted the name, the claim never again carries the token
\* of the section that was overlapped, and its release is not confirmed.
OverlapsAreFinal ==
    \A c \in Clients :
        overlapped[c] =>
            /\ main[c] \notin {"acquire", "sleep"}
            /\ main[c] \in {"body", "stop_renewer"} => heldToken # leaseToken[c]
            /\ main[c] = "release" => answer[c] # Done
            /\ \A r \in net :
                  r.op = "release" /\ r.live /\ r.client = c => heldToken # r.token

OutcomeInv ==
    /\ OutcomesFresh /\ ReleasesDistinct /\ ReleasesBacked /\ RefusalsAreReal
    /\ LossIsReal /\ OverlapsAreFinal /\ CleanExitWasExclusive

\* Sending an acquire or an extend leaves the releases in flight as they are.
LEMMA OtherSent ==
    ASSUME ReleasesDistinct, ReleasesBacked,
           \/ \E q : q.op = "acquire" /\ net' = net \cup {q}
           \/ \E q : q.op = "extend" /\ net' = net \cup {q},
           clock' = clock, heldToken' = heldToken, heldUntil' = heldUntil,
           leaseExpires' = leaseExpires
    PROVE  ReleasesDistinct' /\ ReleasesBacked'
  <1>1. \A r \in net' : r.op = "release" => r \in net
    BY Zenon
  <1> QED BY Zenon, <1>1 DEF ReleasesDistinct, ReleasesBacked, Claimed

\* Abandoning keeps the releases in flight distinct.
LEMMA AbandonedReleases ==
    ASSUME TypeOK, ReleasesDistinct, NEW c \in Clients, NEW ops,
           NEW requests \in Abandon(c, ops), NEW q \in requests, NEW r \in requests,
           q.op = "release", r.op = "release", q.token = r.token
    PROVE  q = r
  <1> DEFINE mine == {x \in net : x.client = c /\ x.op \in ops /\ x.live}
             late == {[x EXCEPT !.live = FALSE] : x \in mine}
  <1>1. requests \subseteq (net \ mine) \cup late
    BY Zenon DEF Abandon
  <1>2. ASSUME NEW x \in late
        PROVE  \E y \in mine : x = [y EXCEPT !.live = FALSE] /\ x.op = y.op /\ x.token = y.token
    BY DEF TypeOK, Requests
  <1>3. \A x, y \in net : x.op = "release" /\ y.op = "release" /\ x.token = y.token => x = y
    BY Zenon DEF ReleasesDistinct
  <1> HIDE DEF late
  <1>4. CASE q \in net \ mine /\ r \in net \ mine
    BY Zenon, <1>3, <1>4
  <1>5. CASE q \in late /\ r \in late
    <2>1. PICK x \in mine : q = [x EXCEPT !.live = FALSE] /\ q.op = x.op /\ q.token = x.token
      BY Zenon, <1>2, <1>5
    <2>2. PICK y \in mine : r = [y EXCEPT !.live = FALSE] /\ r.op = y.op /\ r.token = y.token
      BY Zenon, <1>2, <1>5
    <2>3. x = y
      BY Zenon, <1>3, <2>1, <2>2
    <2> QED BY Zenon, <2>1, <2>2, <2>3
  <1>6. ASSUME NEW x \in net \ mine, NEW y \in late,
               x.op = "release", y.op = "release", x.token = y.token
        PROVE  FALSE
    BY <1>2, <1>3, <1>6
  <1> HIDE DEF mine
  <1> QED BY Zenon, <1>1, <1>4, <1>5, <1>6

\* Abandoning keeps every release in flight backed by the claim it gives up.
LEMMA AbandonedBacked ==
    ASSUME TypeOK, ReleasesBacked, NEW c \in Clients, NEW ops, net' \in Abandon(c, ops),
           UNCHANGED <<clock, heldToken, heldUntil, leaseExpires>>
    PROVE  ReleasesBacked'
  <1> SUFFICES ASSUME NEW r \in net', r.op = "release", r.live, clock < leaseExpires[r.client]
               PROVE  Claimed(r.token, leaseExpires[r.client])
    BY Zenon DEF ReleasesBacked, Claimed
  <1>1. r \in net
    BY AbandonedRequests
  <1> QED BY Zenon, <1>1 DEF ReleasesBacked

\* A lease given up early is released once and is still backed until then.
LEMMA DroppedLease ==
    ASSUME IInv, OutcomeInv, NEW c \in Clients, main[c] \in {"body", "stop_renewer"},
           NEW requests, DropAndRelease(c, requests), UNCHANGED <<clock, storeVars>>,
           \A r \in requests :
              \E q \in net : /\ r.op = q.op /\ r.client = q.client /\ r.token = q.token
                             /\ r.live => r = q,
           \A q, r \in requests :
              q.op = "release" /\ r.op = "release" /\ q.token = r.token => q = r
    PROVE  ReleasesDistinct' /\ ReleasesBacked'
  <1> USE DEF IInv, OutcomeInv
  <1> DEFINE new == Request("release", c, leaseToken[c])
  <1>1. net' = requests \cup {new} /\ new.op = "release" /\ new.token = leaseToken[c]
        /\ new.client = c
    BY Zenon DEF DropAndRelease, Request
  <1>2. ASSUME NEW r \in requests, r.op = "release"  PROVE r.token # leaseToken[c]
    <2>1. PICK q \in net : q.op = "release" /\ q.token = r.token
      BY Zenon, <1>2
    <2>2. ~Owns(c, q.token)
      BY Zenon, <2>1 DEF RequestsConsistent
    <2> QED BY Zenon, <2>1, <2>2 DEF Owns
  <1> HIDE DEF new
  <1>3. ReleasesDistinct'
    <2>1. \A r \in requests : r.op = "release" => r.token # new.token
      BY Zenon, <1>1, <1>2
    <2>2. ASSUME NEW q \in net', NEW r \in net',
                 q.op = "release", r.op = "release", q.token = r.token
          PROVE  q = r
      <3>1. CASE q \in requests /\ r \in requests
        BY Zenon, <2>2, <3>1
      <3>2. CASE q = new \/ r = new
        BY Zenon, <1>1, <2>1, <2>2, <3>2
      <3> QED BY Zenon, <1>1, <3>1, <3>2
    <2> QED BY Zenon, <2>2 DEF ReleasesDistinct
  <1>4. ReleasesBacked'
    <2>1. clock < leaseExpires[c] => Claimed(leaseToken[c], leaseExpires[c])
      BY Zenon DEF LeaseIsBacked, LocallyLive, PhasesConsistent, Claimed
    <2>2. UNCHANGED <<clock, heldToken, heldUntil, leaseExpires>>
      BY Zenon DEF DropAndRelease, storeVars
    <2>3. ASSUME NEW r \in requests, r.op = "release", r.live,
                 clock < leaseExpires[r.client]
          PROVE  Claimed(r.token, leaseExpires[r.client])
      BY Zenon, <2>3 DEF ReleasesBacked
    <2> QED BY Zenon, <1>1, <2>1, <2>2 DEF ReleasesBacked, Claimed
  <1> QED BY Zenon, <1>3, <1>4

\* The same once the renewer is stopped: its extend may still arrive, and the release finds
\* the claim of somebody else if the section was overlapped.
LEMMA DroppedReleases ==
    ASSUME IInv, OutcomeInv, NEW c \in Clients, main[c] = "stop_renewer",
           \E requests \in Abandon(c, {"extend"}) : DropAndRelease(c, requests),
           clock' = clock, UNCHANGED storeVars, overlapped' = overlapped
    PROVE  ReleasesDistinct' /\ ReleasesBacked' /\ OverlapsAreFinal'
  <1>0. /\ TypeOK /\ ReleasesDistinct /\ OverlapsAreFinal
        /\ main[c] \in {"body", "stop_renewer"} /\ heldToken' = heldToken
    BY Zenon DEF IInv, OutcomeInv, storeVars
  <1>1. PICK requests \in Abandon(c, {"extend"}) : DropAndRelease(c, requests)
    BY Zenon
  <1>2. \A r \in requests :
           \E q \in net : /\ r.op = q.op /\ r.client = q.client /\ r.token = q.token
                          /\ r.live => r = q
    BY Zenon, <1>0, <1>1, AbandonedLive
  <1>3. \A q, r \in requests :
           q.op = "release" /\ r.op = "release" /\ q.token = r.token => q = r
    BY Zenon, <1>0, <1>1, AbandonedReleases
  <1>4. ReleasesDistinct' /\ ReleasesBacked'
    BY Zenon, <1>0, <1>1, <1>2, <1>3, DroppedLease
  <1>5. OverlapsAreFinal'
    <2>2. PICK q : q = Request("release", c, leaseToken[c])
      BY Zenon
    <2>3. q.client = c /\ q.token = leaseToken[c] /\ net' = requests \cup {q}
      BY Zenon, <1>1, <2>2 DEF DropAndRelease, Request
    <2>4. /\ main' = [main EXCEPT ![c] = "release"] /\ answer' = [answer EXCEPT ![c] = NoAnswer]
          /\ leaseToken' = [leaseToken EXCEPT ![c] = 0]
      BY Zenon, <1>1 DEF DropAndRelease
    <2>5. \A d \in Clients : d # c =>
            main'[d] = main[d] /\ answer'[d] = answer[d] /\ leaseToken'[d] = leaseToken[d]
      BY Zenon, <1>0, <2>4 DEF TypeOK
    <2>6. main'[c] = "release" /\ answer'[c] = NoAnswer
      BY Zenon, <1>0, <2>4 DEF TypeOK
    <2>7. overlapped[c] => heldToken # leaseToken[c]
      BY Zenon, <1>0 DEF OverlapsAreFinal
    <2>8. NoAnswer # Done
      BY ONLY DEF NoAnswer, Done
    <2>9. ASSUME NEW d \in Clients, overlapped[d],
                 NEW r \in net', r.op = "release", r.live, r.client = d
          PROVE  heldToken # r.token
      BY Zenon, <1>0, <1>2, <2>3, <2>7, <2>9 DEF OverlapsAreFinal
    <2> QED BY Zenon, <1>0, <2>5, <2>6, <2>8, <2>9 DEF OverlapsAreFinal
  <1> QED BY Zenon, <1>4, <1>5

\* A caller that is gone, or gives up, is out of every section; what it sent may still arrive.
LEMMA EndedOverlaps ==
    ASSUME TypeOK, OverlapsAreFinal, NEW c \in Clients, NEW ops, net' \in Abandon(c, ops),
           main' = [main EXCEPT ![c] = "idle"], heldToken' = heldToken,
           \A d \in Clients \ {c} :
              /\ answer'[d] = answer[d] /\ leaseToken'[d] = leaseToken[d]
              /\ overlapped'[d] = overlapped[d],
           overlapped'[c] => overlapped[c]
    PROVE  OverlapsAreFinal'
  <1>1. main'[c] = "idle" /\ \A d \in Clients : d # c => main'[d] = main[d]
    BY Zenon DEF TypeOK
  <1>2. \A r \in net' : r.live => r \in net
    BY Zenon, AbandonedLive
  <1>3. \A d \in Clients : overlapped'[d] => overlapped[d]
    BY Zenon
  <1>4. ASSUME NEW d \in Clients, overlapped'[d],
               NEW r \in net', r.op = "release", r.live, r.client = d
        PROVE  heldToken' # r.token
    BY Zenon, <1>2, <1>3, <1>4 DEF OverlapsAreFinal
  <1>5. ASSUME NEW d \in Clients, overlapped'[d]
        PROVE  /\ main'[d] \notin {"acquire", "sleep"}
               /\ main'[d] \in {"body", "stop_renewer"} => heldToken' # leaseToken'[d]
               /\ main'[d] = "release" => answer'[d] # Done
    <2>1. CASE d = c
      BY Zenon, <1>1, <2>1
    <2>2. CASE d # c
      <3>1. /\ main'[d] = main[d] /\ answer'[d] = answer[d] /\ leaseToken'[d] = leaseToken[d]
            /\ heldToken' = heldToken
        BY Zenon, <1>1, <2>2
      <3>2. overlapped[d]
        BY Zenon, <1>3, <1>5
      <3>3. /\ main[d] \notin {"acquire", "sleep"}
            /\ main[d] \in {"body", "stop_renewer"} => heldToken # leaseToken[d]
            /\ main[d] = "release" => answer[d] # Done
        BY Zenon, <3>2 DEF OverlapsAreFinal
      <3> QED BY Zenon, <3>1, <3>3
    <2> QED BY Zenon, <2>1, <2>2
  <1> QED BY Zenon, <1>4, <1>5 DEF OverlapsAreFinal

\* A grant ends every section whose lease ran out: it is overlapped, its token gone.
LEMMA StoreAcquireOutcomes ==
    ASSUME IInv, OutcomeInv, NEW r \in net, StoreAcquire(r)
    PROVE  OutcomeInv'
  <1> USE TTLAssumption DEF IInv, OutcomeInv
  <1>1. OutcomesFresh'
    BY Zenon DEF StoreAcquire, renewVars, leaseVars, OutcomesFresh
  <1>2. ReleasesDistinct'
    BY Zenon DEF StoreAcquire, ReleasesDistinct
  <1>3. ReleasesBacked'
    BY DEF StoreAcquire, Live, storeVars, leaseVars, ReleasesBacked, Claimed,
       RequestsConsistent, Live, TypeOK, Requests
  <1>4. RefusalsAreReal'
    BY Zenon DEF StoreAcquire, Live, renewVars, leaseVars, RefusalsAreReal,
       RequestsConsistent, Live, TypeOK
  <1>5. LossIsReal'
    BY Zenon DEF StoreAcquire, leaseVars, LossIsReal
  <1>6. OverlapsAreFinal'
    BY DEF StoreAcquire, storeVars, leaseVars, OverlapsAreFinal, RequestsConsistent,
       TokensBounded, Section, TypeOK
  <1>7. CleanExitWasExclusive'
    BY Zenon DEF StoreAcquire, CleanExitWasExclusive, OutcomesFresh, Section
  <1> QED BY Zenon, <1>1, <1>2, <1>3, <1>4, <1>5, <1>6, <1>7

\* The store extends the claim of its own token only, and refuses a lease run out.
LEMMA StoreExtendOutcomes ==
    ASSUME IInv, OutcomeInv, NEW r \in net, StoreExtend(r)
    PROVE  OutcomeInv'
  <1> USE TTLAssumption DEF IInv, OutcomeInv
  <1>1. OutcomesFresh'
    BY Zenon DEF StoreExtend, callVars, leaseVars, OutcomesFresh
  <1>2. ReleasesDistinct'
    BY Zenon DEF StoreExtend, ReleasesDistinct
  <1>3. ReleasesBacked'
    BY DEF StoreExtend, leaseVars, ReleasesBacked, Claimed, TimesConsistent, TypeOK,
       Requests
  <1>4. RefusalsAreReal'
    BY DEF StoreExtend, OwnClaim, ClaimAnswer, callVars, leaseVars, RefusalsAreReal,
       RequestsConsistent, PhasesConsistent, LeaseIsBacked, LocallyLive, Live, TypeOK
  <1>5. LossIsReal'
    BY Zenon DEF StoreExtend, callVars, leaseVars, LossIsReal
  <1>6. OverlapsAreFinal'
    BY Zenon DEF StoreExtend, callVars, leaseVars, OverlapsAreFinal
  <1>7. CleanExitWasExclusive'
    BY Zenon DEF StoreExtend, callVars, CleanExitWasExclusive
  <1> QED BY Zenon, <1>1, <1>2, <1>3, <1>4, <1>5, <1>6, <1>7

\* The store confirms a release only while the claim still carries its token.
LEMMA StoreReleaseOutcomes ==
    ASSUME IInv, OutcomeInv, NEW r \in net, StoreRelease(r)
    PROVE  OutcomeInv'
  <1> USE TTLAssumption DEF IInv, OutcomeInv
  <1>1. OutcomesFresh'
    BY Zenon DEF StoreRelease, renewVars, leaseVars, OutcomesFresh
  <1>2. ReleasesDistinct'
    BY Zenon DEF StoreRelease, ReleasesDistinct
  <1>3. ReleasesBacked'
    BY Zenon DEF StoreRelease, OwnClaim, leaseVars, ReleasesBacked, ReleasesDistinct, Claimed
  <1>4. RefusalsAreReal'
    BY DEF StoreRelease, OwnClaim, ClaimAnswer, renewVars, leaseVars, PhasesConsistent,
       RefusalsAreReal, RequestsConsistent, PhasesConsistent, ReleasesBacked, Claimed,
       Live, TypeOK
  <1>5. LossIsReal'
    BY Zenon DEF StoreRelease, leaseVars, LossIsReal
  <1>6. OverlapsAreFinal'
    <2>1. /\ main' = main /\ leaseToken' = leaseToken /\ overlapped' = overlapped
          /\ net' = net \ {r} /\ (heldToken' = heldToken \/ heldToken' = 0)
      BY Zenon DEF StoreRelease, leaseVars
    <2>2. ASSUME NEW d \in Clients, overlapped[d], main[d] \in {"body", "stop_renewer"}
          PROVE  heldToken' # leaseToken[d]
      BY Zenon, <2>1, <2>2 DEF OverlapsAreFinal, PhasesConsistent
    <2>3. ASSUME NEW d \in Clients, overlapped[d], main[d] = "release"
          PROVE  answer'[d] # Done
      <3>1. CASE r.live /\ r.client = d
        <4>1. heldToken # r.token
          BY Zenon, <2>3, <3>1 DEF StoreRelease, OverlapsAreFinal
        <4>2. ClaimAnswer(r.token) # Done
          BY ONLY <4>1 DEF ClaimAnswer, OwnClaim, Gone, NotOwner, Done
        <4> QED BY Zenon, <3>1, <4>2 DEF StoreRelease, TypeOK
      <3>2. CASE ~(r.live /\ r.client = d)
        BY Zenon, <2>3, <3>2 DEF StoreRelease, OverlapsAreFinal, TypeOK
      <3> QED BY Zenon, <3>1, <3>2
    <2>4. ASSUME NEW d \in Clients, overlapped[d],
                 NEW q \in net', q.op = "release", q.live, q.client = d
          PROVE  heldToken' # q.token
      BY Zenon, <2>1, <2>4 DEF OverlapsAreFinal, RequestsConsistent
    <2> QED BY Zenon, <2>1, <2>2, <2>3, <2>4 DEF OverlapsAreFinal
  <1>7. CleanExitWasExclusive'
    BY Zenon DEF StoreRelease, CleanExitWasExclusive
  <1> QED BY Zenon, <1>1, <1>2, <1>3, <1>4, <1>5, <1>6, <1>7

\* __aenter__ starts with no outcome, no loss and no overlap.
LEMMA EnterOutcomes ==
    ASSUME IInv, OutcomeInv, NEW c \in Clients, Enter(c)
    PROVE  OutcomeInv'
  <1> USE TTLAssumption DEF IInv, OutcomeInv
  <1>0. /\ \E q : q.op = "acquire" /\ net' = net \cup {q}
        /\ clock' = clock /\ heldToken' = heldToken /\ heldUntil' = heldUntil
        /\ leaseExpires' = leaseExpires
    BY Zenon DEF Enter, SendAcquire, Request, storeVars, leaseVars
  <1>1. OutcomesFresh'
    BY Zenon DEF Enter, SendAcquire, leaseVars, renewVars, OutcomesFresh, TypeOK
  <1>2. ReleasesDistinct'
    BY Zenon, <1>0, OtherSent
  <1>3. ReleasesBacked'
    BY Zenon, <1>0, OtherSent
  <1>4. RefusalsAreReal'
    BY DEF Enter, SendAcquire, leaseVars, renewVars, RefusalsAreReal, TypeOK
  <1>5. LossIsReal'
    <2>1. lost' = lost /\ outcome' = [outcome EXCEPT ![c] = "none"]
      BY Zenon DEF Enter, leaseVars
    <2>2. \A d \in Clients : outcome'[d] = "lost" => outcome[d] = "lost"
      BY Zenon, <2>1 DEF TypeOK
    <2> QED BY Zenon, <1>0, <2>1, <2>2 DEF LossIsReal
  <1>6. OverlapsAreFinal'
    <2>0. leaseToken' = leaseToken
      BY Zenon DEF Enter, leaseVars
    <2>1. /\ main' = [main EXCEPT ![c] = "acquire"] /\ answer' = [answer EXCEPT ![c] = NoAnswer]
          /\ overlapped' = [overlapped EXCEPT ![c] = FALSE]
      BY Zenon DEF Enter, SendAcquire
    <2>2. ~overlapped'[c]
      BY Zenon, <2>1 DEF TypeOK
    <2>3. \A d \in Clients : d # c =>
            main'[d] = main[d] /\ answer'[d] = answer[d] /\ overlapped'[d] = overlapped[d]
      BY Zenon, <2>1 DEF TypeOK
    <2>4. \A r \in net' : r.op = "release" => r \in net
      BY Zenon, <1>0
    <2> QED BY Zenon, <1>0, <2>0, <2>2, <2>3, <2>4 DEF OverlapsAreFinal
  <1>7. CleanExitWasExclusive'
    BY DEF Enter, CleanExitWasExclusive, TypeOK
  <1> QED BY Zenon, <1>1, <1>2, <1>3, <1>4, <1>5, <1>6, <1>7

\* A fresh lease carries a token no release in flight has.
LEMMA AcquiredOutcomes ==
    ASSUME IInv, OutcomeInv, NEW c \in Clients, Acquired(c)
    PROVE  OutcomeInv'
  <1> USE TTLAssumption DEF IInv, OutcomeInv
  <1>1. OutcomesFresh'
    BY Zenon DEF Acquired, OutcomesFresh, TypeOK
  <1>2. ReleasesDistinct'
    BY Zenon DEF Acquired, ReleasesDistinct
  <1>3. ReleasesBacked'
    <2>1. /\ main[c] = "acquire" /\ net' = net /\ clock' = clock
          /\ heldToken' = heldToken /\ heldUntil' = heldUntil
      BY Zenon DEF Acquired, storeVars
    <2>2. \A r \in net : r.op = "release" /\ r.live => r.client # c
      BY Zenon, <2>1 DEF RequestsConsistent
    <2>3. \A r \in net : r.client \in Clients
      BY Zenon DEF TypeOK, Requests
    <2>4. \A d \in Clients : d # c => leaseExpires'[d] = leaseExpires[d]
      BY Zenon DEF Acquired, TypeOK
    <2> QED BY Zenon, <2>1, <2>2, <2>3, <2>4 DEF ReleasesBacked, Claimed
  <1>4. RefusalsAreReal'
    BY Zenon DEF Acquired, EndAcquire, RefusalsAreReal, TypeOK
  <1>5. LossIsReal'
    BY Zenon DEF Acquired, LossIsReal, OutcomesFresh, TypeOK
  <1>6. OverlapsAreFinal'
    <2>0. heldToken' = heldToken /\ net' = net /\ overlapped' = overlapped
      BY Zenon DEF Acquired, storeVars
    <2>1. /\ main' = [main EXCEPT ![c] = "body"] /\ answer' = [answer EXCEPT ![c] = NoAnswer]
          /\ leaseToken' = [leaseToken EXCEPT ![c] = answer[c]]
      BY Zenon DEF Acquired, EndAcquire
    <2>2. ~overlapped[c]
      BY Zenon DEF Acquired, OverlapsAreFinal
    <2>3. \A d \in Clients : d # c =>
            main'[d] = main[d] /\ answer'[d] = answer[d] /\ leaseToken'[d] = leaseToken[d]
      BY Zenon, <2>1 DEF TypeOK
    <2> QED BY Zenon, <2>0, <2>2, <2>3 DEF OverlapsAreFinal
  <1>7. CleanExitWasExclusive'
    BY Zenon DEF Acquired, CleanExitWasExclusive
  <1> QED BY Zenon, <1>1, <1>2, <1>3, <1>4, <1>5, <1>6, <1>7

\* A refusal leaves the caller without a lease, or waiting to try again.
LEMMA RefusedAcquireOutcomes ==
    ASSUME IInv, OutcomeInv, NEW c \in Clients, RefusedAcquire(c)
    PROVE  OutcomeInv'
  <1> USE TTLAssumption DEF IInv, OutcomeInv
  <1>1. OutcomesFresh'
    BY Zenon DEF RefusedAcquire, leaseVars, renewVars, OutcomesFresh, TypeOK
  <1>2. ReleasesDistinct'
    BY Zenon DEF RefusedAcquire, ReleasesDistinct
  <1>3. ReleasesBacked'
    BY Zenon DEF RefusedAcquire, storeVars, leaseVars, ReleasesBacked, Claimed
  <1>4. RefusalsAreReal'
    BY Zenon DEF RefusedAcquire, EndAcquire, leaseVars, renewVars, RefusalsAreReal, TypeOK
  <1>5. LossIsReal'
    BY Zenon DEF RefusedAcquire, leaseVars, LossIsReal, TypeOK
  <1>6. OverlapsAreFinal'
    BY DEF RefusedAcquire, EndAcquire, storeVars, leaseVars, OverlapsAreFinal, TypeOK
  <1>7. CleanExitWasExclusive'
    BY Zenon DEF RefusedAcquire, CleanExitWasExclusive, TypeOK
  <1> QED BY Zenon, <1>1, <1>2, <1>3, <1>4, <1>5, <1>6, <1>7

\* A retry sends an acquire, which releases nothing.
LEMMA RetryOutcomes ==
    ASSUME IInv, OutcomeInv, NEW c \in Clients, Retry(c)
    PROVE  OutcomeInv'
  <1> USE TTLAssumption DEF IInv, OutcomeInv
  <1>1. OutcomesFresh'
    BY Zenon DEF Retry, SendAcquire, leaseVars, renewVars, OutcomesFresh, TypeOK
  <1>2. ReleasesDistinct'
    BY DEF Retry, SendAcquire, Request, ReleasesDistinct, TypeOK
  <1>3. ReleasesBacked'
    BY DEF Retry, SendAcquire, Request, storeVars, leaseVars, ReleasesBacked, Claimed, TypeOK
  <1>4. RefusalsAreReal'
    BY DEF Retry, SendAcquire, leaseVars, renewVars, RefusalsAreReal, TypeOK
  <1>5. LossIsReal'
    BY Zenon DEF Retry, leaseVars, LossIsReal
  <1>6. OverlapsAreFinal'
    BY DEF Retry, SendAcquire, Request, storeVars, leaseVars, OverlapsAreFinal, TypeOK
  <1>7. CleanExitWasExclusive'
    BY Zenon DEF Retry, CleanExitWasExclusive
  <1> QED BY Zenon, <1>1, <1>2, <1>3, <1>4, <1>5, <1>6, <1>7

\* An acquire whose answer never comes reports an error, not a clean exit.
LEMMA AcquireFailsOutcomes ==
    ASSUME IInv, OutcomeInv, NEW c \in Clients, AcquireFails(c)
    PROVE  OutcomeInv'
  <1> USE TTLAssumption DEF IInv, OutcomeInv
  <1>1. OutcomesFresh'
    BY Zenon DEF AcquireFails, leaseVars, renewVars, OutcomesFresh, TypeOK
  <1>2. ReleasesDistinct'
    BY Zenon, AbandonedReleases DEF AcquireFails, ReleasesDistinct
  <1>3. ReleasesBacked'
    BY Zenon, AbandonedBacked DEF AcquireFails, storeVars, leaseVars
  <1>4. RefusalsAreReal'
    BY DEF AcquireFails, EndAcquire, leaseVars, renewVars, RefusalsAreReal, TypeOK
  <1>5. LossIsReal'
    <2>1. /\ lost' = lost /\ clock' = clock /\ leaseExpires' = leaseExpires
          /\ outcome' = [outcome EXCEPT ![c] = "unavailable"]
      BY Zenon DEF AcquireFails, leaseVars
    <2>2. \A d \in Clients : outcome'[d] = "lost" => outcome[d] = "lost"
      BY Zenon, <2>1 DEF TypeOK
    <2> QED BY Zenon, <2>1, <2>2 DEF LossIsReal
  <1>6. OverlapsAreFinal'
    <2>0. heldToken' = heldToken /\ leaseToken' = leaseToken /\ overlapped' = overlapped
      BY Zenon DEF AcquireFails, storeVars, leaseVars
    <2>1. main' = [main EXCEPT ![c] = "idle"] /\ answer' = [answer EXCEPT ![c] = NoAnswer]
      BY Zenon DEF AcquireFails, EndAcquire
    <2>2. ~overlapped[c]
      BY Zenon DEF AcquireFails, OverlapsAreFinal
    <2>3. \A d \in Clients : d # c => main'[d] = main[d] /\ answer'[d] = answer[d]
      BY Zenon, <2>1 DEF TypeOK
    <2>4. \A r \in net' : r.live => r \in net
      BY Zenon, AbandonedLive DEF AcquireFails
    <2> QED BY Zenon, <2>0, <2>2, <2>3, <2>4 DEF OverlapsAreFinal
  <1>7. CleanExitWasExclusive'
    <2>1. overlapped' = overlapped /\ outcome' = [outcome EXCEPT ![c] = "unavailable"]
      BY Zenon DEF AcquireFails
    <2>2. \A d \in Clients : outcome'[d] = "clean" => outcome[d] = "clean"
      BY Zenon, <2>1 DEF TypeOK
    <2> QED BY Zenon, <2>1, <2>2 DEF CleanExitWasExclusive
  <1> QED BY Zenon, <1>1, <1>2, <1>3, <1>4, <1>5, <1>6, <1>7

\* Leaving the body gives the lease up early, or waits for the renewer first.
LEMMA BodyEndsOutcomes ==
    ASSUME IInv, OutcomeInv, NEW c \in Clients, NEW how \in {"returned", "raised", "cancelled"},
           BodyEnds(c, how)
    PROVE  OutcomeInv'
  <1> USE TTLAssumption DEF IInv, OutcomeInv
  <1>1. OutcomesFresh'
    BY DEF BodyEnds, DropAndRelease, leaseVars, renewVars, OutcomesFresh, TypeOK
  <1>2. ReleasesDistinct'
    <2>1. CASE DropAndRelease(c, net)
      BY DroppedLease DEF BodyEnds, ReleasesDistinct, TypeOK
    <2>2. CASE UNCHANGED <<net, answer, leaseVars, renewVars>>
      BY Zenon, <2>2 DEF ReleasesDistinct
    <2> QED BY Zenon, <2>1, <2>2 DEF BodyEnds
  <1>3. ReleasesBacked'
    <2>1. CASE DropAndRelease(c, net)
      BY <2>1, DroppedLease DEF BodyEnds, ReleasesDistinct, TypeOK
    <2>2. CASE UNCHANGED <<net, answer, leaseVars, renewVars>>
      BY Zenon, <2>2 DEF BodyEnds, ReleasesBacked, Claimed, storeVars, leaseVars
    <2> QED BY Zenon, <2>1, <2>2 DEF BodyEnds
  <1>4. RefusalsAreReal'
    BY DEF BodyEnds, DropAndRelease, leaseVars, renewVars, RefusalsAreReal, TypeOK
  <1>5. LossIsReal'
    BY Zenon DEF BodyEnds, DropAndRelease, leaseVars, LossIsReal
  <1>6. OverlapsAreFinal'
    BY DEF BodyEnds, DropAndRelease, Request, storeVars, leaseVars, OverlapsAreFinal,
       TypeOK
  <1>7. CleanExitWasExclusive'
    BY Zenon DEF BodyEnds, CleanExitWasExclusive
  <1> QED BY Zenon, <1>1, <1>2, <1>3, <1>4, <1>5, <1>6, <1>7

\* With the renewer stopped, __aexit__ gives the lease up.
LEMMA RenewerStoppedOutcomes ==
    ASSUME IInv, OutcomeInv, NEW c \in Clients, RenewerStopped(c)
    PROVE  OutcomeInv'
  <1> USE TTLAssumption DEF IInv, OutcomeInv
  <1>0. /\ main[c] = "stop_renewer" /\ clock' = clock /\ UNCHANGED storeVars
        /\ overlapped' = overlapped /\ IInv /\ OutcomeInv
        /\ \E requests \in Abandon(c, {"extend"}) : DropAndRelease(c, requests)
    BY Zenon DEF RenewerStopped
  <1>1. OutcomesFresh'
    BY DEF RenewerStopped, DropAndRelease, OutcomesFresh, TypeOK
  <1>2. ReleasesDistinct'
    BY Zenon, <1>0, DroppedReleases
  <1>3. ReleasesBacked'
    BY Zenon, <1>0, DroppedReleases
  <1>4. RefusalsAreReal'
    BY DEF RenewerStopped, DropAndRelease, RefusalsAreReal, TypeOK
  <1>5. LossIsReal'
    BY Zenon DEF RenewerStopped, DropAndRelease, LossIsReal
  <1>6. OverlapsAreFinal'
    BY Zenon, <1>0, DroppedReleases
  <1>7. CleanExitWasExclusive'
    BY Zenon DEF RenewerStopped, CleanExitWasExclusive
  <1> QED BY Zenon, <1>1, <1>2, <1>3, <1>4, <1>5, <1>6, <1>7

\* __aexit__ reports a clean exit, or a loss, by the answer to its release.
LEMMA ExitOutcomes ==
    ASSUME IInv, OutcomeInv, NEW c \in Clients, Exit(c)
    PROVE  OutcomeInv'
  <1> USE TTLAssumption DEF IInv, OutcomeInv
  <1>1. OutcomesFresh'
    BY Zenon DEF Exit, leaseVars, renewVars, OutcomesFresh, TypeOK
  <1>2. ReleasesDistinct'
    BY Zenon, AbandonedReleases DEF Exit, ReleasesDistinct
  <1>3. ReleasesBacked'
    BY Zenon, AbandonedBacked DEF Exit, storeVars, leaseVars
  <1>4. RefusalsAreReal'
    <2>1. leaseExpires' = leaseExpires /\ clock' = clock /\ renewer' = renewer /\ ranswer' = ranswer
      BY Zenon DEF Exit, leaseVars, renewVars
    <2>2. main'[c] = "idle" /\ \A d \in Clients : d # c => main'[d] = main[d] /\ answer'[d] = answer[d]
      BY Zenon DEF Exit, TypeOK
    <2> QED BY Zenon, <2>1, <2>2 DEF RefusalsAreReal
  <1>5. LossIsReal'
    BY Zenon DEF Exit, ExitOutcome, SectionLost, leaseVars, LossIsReal, RefusalsAreReal,
       TypeOK
  <1>6. OverlapsAreFinal'
    <2>1. heldToken' = heldToken /\ overlapped' = overlapped /\ leaseToken' = leaseToken
      BY Zenon DEF Exit, storeVars, leaseVars
    <2>2. main'[c] = "idle" /\ \A d \in Clients : d # c => main'[d] = main[d] /\ answer'[d] = answer[d]
      BY Zenon DEF Exit, TypeOK
    <2>3. \A r \in net' : r.live => r \in net
      BY Zenon, AbandonedLive DEF Exit
    <2> QED BY Zenon, <2>1, <2>2, <2>3 DEF OverlapsAreFinal
  <1>7. CleanExitWasExclusive'
    BY Zenon DEF Exit, ExitOutcome, SectionLost, CleanExitWasExclusive, OverlapsAreFinal,
       TypeOK
  <1> QED BY Zenon, <1>1, <1>2, <1>3, <1>4, <1>5, <1>6, <1>7

\* A renewal sends an extend, which releases nothing.
LEMMA RenewSendOutcomes ==
    ASSUME IInv, OutcomeInv, NEW c \in Clients, RenewSend(c)
    PROVE  OutcomeInv'
  <1> USE TTLAssumption DEF IInv, OutcomeInv
  <1>0. /\ \E q : q.op = "extend" /\ net' = net \cup {q}
        /\ clock' = clock /\ heldToken' = heldToken /\ heldUntil' = heldUntil
        /\ leaseExpires' = leaseExpires
    BY Zenon DEF RenewSend, Request, storeVars, leaseVars
  <1>1. OutcomesFresh'
    BY Zenon DEF RenewSend, callVars, leaseVars, OutcomesFresh, TypeOK
  <1>2. ReleasesDistinct'
    BY Zenon, <1>0, OtherSent
  <1>3. ReleasesBacked'
    BY Zenon, <1>0, OtherSent
  <1>4. RefusalsAreReal'
    BY Zenon DEF RenewSend, callVars, leaseVars, RefusalsAreReal, PhasesConsistent
  <1>5. LossIsReal'
    BY Zenon DEF RenewSend, callVars, leaseVars, LossIsReal
  <1>6. OverlapsAreFinal'
    <2>1. main' = main /\ answer' = answer /\ leaseToken' = leaseToken /\ overlapped' = overlapped
      BY Zenon DEF RenewSend, callVars, leaseVars
    <2>2. \A r \in net' : r.op = "release" => r \in net
      BY Zenon, <1>0
    <2> QED BY Zenon, <1>0, <2>1, <2>2 DEF OverlapsAreFinal
  <1>7. CleanExitWasExclusive'
    BY Zenon DEF RenewSend, callVars, CleanExitWasExclusive
  <1> QED BY Zenon, <1>1, <1>2, <1>3, <1>4, <1>5, <1>6, <1>7

\* A refused extend sets `lost`: the lease has run out.
LEMMA RenewAnsweredOutcomes ==
    ASSUME IInv, OutcomeInv, NEW c \in Clients, RenewAnswered(c)
    PROVE  OutcomeInv'
  <1> USE TTLAssumption DEF IInv, OutcomeInv
  <1>1. OutcomesFresh'
    BY DEF RenewAnswered, callVars, OutcomesFresh, TypeOK
  <1>2. ReleasesDistinct'
    BY Zenon DEF RenewAnswered, ReleasesDistinct
  <1>3. ReleasesBacked'
    BY Zenon DEF RenewAnswered, storeVars, ReleasesBacked, Claimed, RequestsConsistent,
       TypeOK, Requests
  <1>4. RefusalsAreReal'
    BY DEF RenewAnswered, callVars, RefusalsAreReal, TypeOK
  <1>5. LossIsReal'
    BY DEF RenewAnswered, callVars, LossIsReal, OutcomesFresh, RefusalsAreReal, TypeOK
  <1>6. OverlapsAreFinal'
    BY Zenon DEF RenewAnswered, storeVars, callVars, OverlapsAreFinal
  <1>7. CleanExitWasExclusive'
    BY Zenon DEF RenewAnswered, callVars, CleanExitWasExclusive
  <1> QED BY Zenon, <1>1, <1>2, <1>3, <1>4, <1>5, <1>6, <1>7

\* A renewal that fails leaves the lease as it is; the next one may settle it.
LEMMA RenewFailsOutcomes ==
    ASSUME IInv, OutcomeInv, NEW c \in Clients, RenewFails(c)
    PROVE  OutcomeInv'
  <1> USE TTLAssumption DEF IInv, OutcomeInv
  <1>1. OutcomesFresh'
    BY Zenon DEF RenewFails, callVars, leaseVars, OutcomesFresh, TypeOK
  <1>2. ReleasesDistinct'
    BY Zenon, AbandonedReleases DEF RenewFails, ReleasesDistinct
  <1>3. ReleasesBacked'
    BY Zenon, AbandonedBacked DEF RenewFails, storeVars, leaseVars
  <1>4. RefusalsAreReal'
    <2>1. leaseExpires' = leaseExpires /\ clock' = clock /\ main' = main /\ answer' = answer
      BY Zenon DEF RenewFails, callVars, leaseVars
    <2>2. renewer'[c] = "sleep" /\ \A d \in Clients : d # c => renewer'[d] = renewer[d] /\ ranswer'[d] = ranswer[d]
      BY Zenon DEF RenewFails, TypeOK
    <2> QED BY Zenon, <2>1, <2>2 DEF RefusalsAreReal
  <1>5. LossIsReal'
    BY Zenon DEF RenewFails, callVars, leaseVars, LossIsReal
  <1>6. OverlapsAreFinal'
    <2>1. /\ heldToken' = heldToken /\ overlapped' = overlapped /\ leaseToken' = leaseToken
          /\ main' = main /\ answer' = answer
      BY Zenon DEF RenewFails, storeVars, callVars, leaseVars
    <2>2. \A r \in net' : r.live => r \in net
      BY Zenon, AbandonedLive DEF RenewFails
    <2> QED BY Zenon, <2>1, <2>2 DEF OverlapsAreFinal
  <1>7. CleanExitWasExclusive'
    BY Zenon DEF RenewFails, callVars, CleanExitWasExclusive
  <1> QED BY Zenon, <1>1, <1>2, <1>3, <1>4, <1>5, <1>6, <1>7

\* A cancelled caller reports cancellation or goes on to its release; what it sent may
\* still arrive.
LEMMA CancelOutcomes ==
    ASSUME IInv, OutcomeInv, NEW c \in Clients, Cancel(c)
    PROVE  OutcomeInv'
  <1> USE TTLAssumption DEF IInv, OutcomeInv
  <1>1. OutcomesFresh'
    BY DEF Cancel, DropAndRelease, leaseVars, renewVars, OutcomesFresh, TypeOK
  <1>2. ASSUME main[c] = "stop_renewer"
        PROVE  ReleasesDistinct' /\ ReleasesBacked' /\ OverlapsAreFinal'
    <2>1. /\ \E requests \in Abandon(c, {"extend"}) : DropAndRelease(c, requests)
          /\ clock' = clock /\ UNCHANGED storeVars /\ overlapped' = overlapped
          /\ IInv /\ OutcomeInv
      BY Zenon, <1>2 DEF Cancel
    <2> QED BY Zenon, <1>2, <2>1, DroppedReleases
  <1>3. ASSUME main[c] # "stop_renewer"
        PROVE  ReleasesDistinct' /\ ReleasesBacked' /\ OverlapsAreFinal'
    <2>1. ReleasesDistinct'
      BY Zenon, <1>3, AbandonedReleases DEF Cancel, ReleasesDistinct
    <2>2. ReleasesBacked'
      BY Zenon, <1>3, AbandonedBacked DEF Cancel, storeVars, leaseVars
    <2>3. /\ net' \in Abandon(c, {"acquire", "release"})
          /\ main' = [main EXCEPT ![c] = "idle"] /\ heldToken' = heldToken
          /\ answer' = [answer EXCEPT ![c] = NoAnswer]
          /\ leaseToken' = leaseToken /\ overlapped' = overlapped
      BY Zenon, <1>3 DEF Cancel, EndAcquire, storeVars, leaseVars
    <2>4. \A d \in Clients \ {c} : answer'[d] = answer[d]
      BY Zenon, <2>3 DEF TypeOK
    <2>5. OverlapsAreFinal'
      BY Zenon, <2>3, <2>4, EndedOverlaps
    <2> QED BY Zenon, <2>1, <2>2, <2>5
  <1>4. RefusalsAreReal'
    BY DEF Cancel, EndAcquire, DropAndRelease, leaseVars, renewVars, RefusalsAreReal,
       TypeOK
  <1>5. LossIsReal'
    <2>1. lost' = lost /\ clock' = clock /\ leaseExpires' = leaseExpires
      BY Zenon DEF Cancel, DropAndRelease, leaseVars
    <2>2. \A d \in Clients : outcome'[d] = "lost" => outcome[d] = "lost"
      BY Zenon DEF Cancel, TypeOK
    <2> QED BY Zenon, <2>1, <2>2 DEF LossIsReal
  <1>6. CleanExitWasExclusive'
    BY DEF Cancel, CleanExitWasExclusive, TypeOK
  <1> QED BY Zenon, <1>1, <1>2, <1>3, <1>4, <1>5, <1>6

\* A crashed client reports nothing; what it sent may still arrive.
LEMMA CrashOutcomes ==
    ASSUME IInv, OutcomeInv, NEW c \in Clients, Crash(c)
    PROVE  OutcomeInv'
  <1> USE TTLAssumption DEF IInv, OutcomeInv
  <1>1. OutcomesFresh'
    BY DEF Crash, OutcomesFresh, TypeOK
  <1>2. ReleasesDistinct'
    BY Zenon, AbandonedReleases DEF Crash, ReleasesDistinct
  <1>3. ReleasesBacked'
    <2>1. ~(clock < 0)
      BY DEF TypeOK
    <2>2. /\ clock' = clock /\ heldToken' = heldToken /\ heldUntil' = heldUntil
          /\ leaseExpires' = [leaseExpires EXCEPT ![c] = 0]
      BY Zenon DEF Crash, storeVars
    <2>3. leaseExpires'[c] = 0 /\ \A d \in Clients : d # c => leaseExpires'[d] = leaseExpires[d]
      BY Zenon, <2>2 DEF TypeOK
    <2>4. net' \in Abandon(c, Ops) /\ TypeOK
      BY Zenon DEF Crash
    <2>5. \A r \in net' : r.live => r \in net
      BY Zenon, <2>4, AbandonedLive
    <2>6. \A r \in net : r.client \in Clients
      BY DEF TypeOK, Requests
    <2> QED BY Zenon, <2>1, <2>2, <2>3, <2>5, <2>6 DEF ReleasesBacked, Claimed
  <1>4. RefusalsAreReal'
    BY Zenon DEF Crash, EndAcquire, RefusalsAreReal, TypeOK
  <1>5. LossIsReal'
    BY Zenon DEF Crash, LossIsReal, TypeOK
  <1>6. OverlapsAreFinal'
    <2>1. /\ net' \in Abandon(c, Ops) /\ main' = [main EXCEPT ![c] = "idle"]
          /\ heldToken' = heldToken /\ answer' = [answer EXCEPT ![c] = NoAnswer]
          /\ leaseToken' = [leaseToken EXCEPT ![c] = 0]
          /\ overlapped' = [overlapped EXCEPT ![c] = FALSE]
      BY Zenon DEF Crash, EndAcquire, storeVars
    <2>2. /\ ~overlapped'[c]
          /\ \A d \in Clients \ {c} :
                /\ answer'[d] = answer[d] /\ leaseToken'[d] = leaseToken[d]
                /\ overlapped'[d] = overlapped[d]
      BY Zenon, <2>1 DEF TypeOK
    <2> QED BY Zenon, <2>1, <2>2, EndedOverlaps
  <1>7. CleanExitWasExclusive'
    BY DEF Crash, CleanExitWasExclusive, TypeOK
  <1> QED BY Zenon, <1>1, <1>2, <1>3, <1>4, <1>5, <1>6, <1>7

\* Time only brings leases nearer to their end.
LEMMA TickOutcomes ==
    ASSUME IInv, OutcomeInv, Tick
    PROVE  OutcomeInv'
  <1> USE TTLAssumption DEF IInv, OutcomeInv
  <1>1. OutcomesFresh'
    BY Zenon DEF Tick, callVars, leaseVars, renewVars, OutcomesFresh
  <1>2. ReleasesDistinct'
    BY Zenon DEF Tick, ReleasesDistinct
  <1>3. ReleasesBacked'
    BY DEF Tick, storeVars, leaseVars, ReleasesBacked, Claimed, TypeOK, Requests
  <1>4. RefusalsAreReal'
    BY DEF Tick, callVars, leaseVars, renewVars, RefusalsAreReal, TypeOK
  <1>5. LossIsReal'
    BY DEF Tick, callVars, leaseVars, LossIsReal, TypeOK
  <1>6. OverlapsAreFinal'
    BY Zenon DEF Tick, storeVars, callVars, leaseVars, OverlapsAreFinal
  <1>7. CleanExitWasExclusive'
    BY Zenon DEF Tick, callVars, CleanExitWasExclusive
  <1> QED BY Zenon, <1>1, <1>2, <1>3, <1>4, <1>5, <1>6, <1>7

\* Every step preserves what outcomes rest on.
LEMMA NextOutcomes == IInv /\ OutcomeInv /\ [Next]_vars => OutcomeInv'
  <1> SUFFICES ASSUME IInv, OutcomeInv, [Next]_vars  PROVE OutcomeInv'
    BY Zenon
  <1>1. CASE StoreStep
    BY Zenon, <1>1, StoreAcquireOutcomes, StoreExtendOutcomes, StoreReleaseOutcomes DEF StoreStep
  <1>2. ASSUME NEW c \in Clients, ClientStep(c)  PROVE OutcomeInv'
    BY Zenon, <1>2, AcquiredOutcomes, RefusedAcquireOutcomes, RetryOutcomes,
       AcquireFailsOutcomes, RenewerStoppedOutcomes, ExitOutcomes, RenewSendOutcomes,
       RenewAnsweredOutcomes, RenewFailsOutcomes DEF ClientStep
  <1>3. ASSUME NEW c \in Clients,
               \E how \in {"returned", "raised", "cancelled"} : BodyEnds(c, how)
        PROVE  OutcomeInv'
    BY Zenon, <1>3, BodyEndsOutcomes
  <1>4. ASSUME NEW c \in Clients, Enter(c) \/ Cancel(c) \/ Crash(c)
        PROVE  OutcomeInv'
    BY Zenon, <1>4, EnterOutcomes, CancelOutcomes, CrashOutcomes
  <1>5. CASE Tick
    BY Zenon, <1>5, TickOutcomes
  <1>6. CASE UNCHANGED vars
    BY Zenon, <1>6 DEF vars, storeVars, renewVars, leaseVars, callVars, OutcomeInv,
       OutcomesFresh, ReleasesDistinct, ReleasesBacked, Claimed, RefusalsAreReal,
       LossIsReal, OverlapsAreFinal, CleanExitWasExclusive
  <1> QED BY Zenon, <1>1, <1>2, <1>3, <1>4, <1>5, <1>6 DEF Next

\* Along every behaviour an `async with` reports what really happened to its lease.
LEMMA OutcomesInvariant == Spec => []OutcomeInv
  <1>1. Init => OutcomeInv
    BY Zenon DEF Init, OutcomeInv, OutcomesFresh, ReleasesDistinct, ReleasesBacked,
       RefusalsAreReal, LossIsReal, OverlapsAreFinal, CleanExitWasExclusive
  <1> QED BY <1>1, NextOutcomes, Invariance, PTL DEF Spec

\* LockLostError is never a false alarm, for any number of clients: it is raised, and
\* `lost` set, only when the lease had run out by the clock it is measured with.
THEOREM LossesAreReal == Spec => []LossIsReal
  <1>1. OutcomeInv => LossIsReal
    BY Zenon DEF OutcomeInv
  <1> QED BY <1>1, OutcomesInvariant, PTL

\* An `async with` whose release was confirmed and which raised nothing ran beside no
\* other holder: the claim it released carried its own token, and a token is granted once.
THEOREM CleanExitsWereExclusive == Spec => []CleanExitWasExclusive
  <1>1. OutcomeInv => CleanExitWasExclusive
    BY Zenon DEF OutcomeInv
  <1> QED BY <1>1, OutcomesInvariant, PTL
=============================================================================
