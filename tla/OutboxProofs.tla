---------------------------- MODULE OutboxProofs ----------------------------
(***************************************************************************)
(* Proofs about the transactional outbox, for every set of events, relays   *)
(* and subscribers, every batch size, every backoff and any number of       *)
(* faults.                                                                  *)
(*                                                                         *)
(* The invariant has three parts.  RowsInv says which rows the list of      *)
(* available rows holds.  RelayInv says what a relay's transaction holds:   *)
(* available rows, each once, and none that another relay holds.            *)
(* DeliveryInv says what the outcomes written so far stand for, and where   *)
(* the one delivery of an undisturbed event is accounted for.               *)
(***************************************************************************)
EXTENDS FiniteSetTheorems, TLAPS, Outbox

RowsInv ==
    /\ row \in [Events -> {"absent", "uncommitted", "stored", "delivered", "rolled_back"}]
    /\ wait \in [Events -> 0..MaxDelay]
    /\ ready \in Seq(Events) /\ IsInjective(ready)
    /\ Range(ready) = {e \in Events : row[e] = "stored" /\ wait[e] = 0}
    /\ \A e \in Events : wait[e] > 0 => row[e] = "stored"

\* One relay: its process and its transaction.
OneRelay(r) ==
    /\ proc[r] = "relaying" => bus[r] = Subscribers
    /\ proc[r] # "relaying" => batch[r] = <<>>
    /\ Len(batch[r]) <= BatchSize /\ Len(verdicts[r]) <= Len(batch[r])
    /\ IsInjective(batch[r]) /\ Range(batch[r]) \subseteq Range(ready)
    /\ IF Len(verdicts[r]) < Len(batch[r])
       THEN running[r] \subseteq Dispatched(r, InHand(r))
       ELSE running[r] = {} /\ ~failed[r]

RelayInv ==
    /\ proc \in [Relays -> {"down", "relaying", "stopped"}]
    /\ bus \in [Relays -> SUBSET Subscribers]
    /\ batch \in [Relays -> Seq(Events)]
    /\ verdicts \in [Relays -> Seq({"complete", "fail"})]
    /\ seen \in [Relays -> SUBSET Events]
    /\ running \in [Relays -> SUBSET Subscribers]
    /\ failed \in [Relays -> BOOLEAN]
    /\ \A r \in Relays : OneRelay(r)
    /\ \A q, r \in Relays : q # r => Range(batch[q]) \cap Range(batch[r]) = {}

\* What a relay's transaction has achieved so far.
Achieved(r) ==
    /\ \A i \in 1..Len(verdicts[r]) :
        IF verdicts[r][i] = "complete"
        THEN \A s \in Wants[batch[r][i]] : got[batch[r][i]][s] > 0
        ELSE batch[r][i] \in excused
    /\ Dispatching(r) /\ ~failed[r] /\ InHand(r) \notin Undecodable =>
        \A s \in Wants[InHand(r)] \ running[r] : got[InHand(r)][s] > 0

\* Relay r's transaction holds event e and is past its delivery to s.
Past(r, e, s) ==
    \E i \in 1..Len(batch[r]) :
        /\ batch[r][i] = e
        /\ i <= Len(verdicts[r]) \/ (i = Len(verdicts[r]) + 1 /\ s \notin running[r])

\* Unless disturbed, a delivery happens once, and is then known: its row is deleted or
\* a transaction holds the row and is past it.
Once(e, s) ==
    /\ got[e][s] <= 1
    /\ got[e][s] = 1 => row[e] = "delivered" \/ \E r \in Relays : Past(r, e, s)

DeliveryInv ==
    /\ got \in [Events -> [Subscribers -> 0..2]]
    /\ excused \subseteq Events /\ faults \in 0..MaxFaults
    /\ DeliveredToAll /\ OnlyCommitted
    /\ \A r \in Relays : Achieved(r)
    /\ \A e \in Events \ excused, s \in Subscribers : Once(e, s)

IInv == RowsInv /\ RelayInv /\ DeliveryInv

-----------------------------------------------------------------------------
(* Sequences that list a set.                                              *)

\* A listing of a finite set holds each of its members once, and nothing else.
LEMMA Listing ==
    ASSUME NEW S, IsFiniteSet(S), NEW q \in Bijection(1..Cardinality(S), S)
    PROVE  q \in Seq(S) /\ IsInjective(q) /\ Range(q) = S
PROOF
<1> DEFINE n == Cardinality(S)
<1>1. n \in Nat
    BY Zenon, FS_CardinalityType
<1>2. /\ q \in [1..n -> S] /\ IsInjective(q)
      /\ \A y \in S : \E i \in 1..n : q[i] = y
    BY Zenon DEF Bijection, Injection, Surjection
<1>3. q \in Seq(S) /\ DOMAIN q = 1..n
    BY <1>1, <1>2
<1> QED
    BY Zenon, <1>2, <1>3 DEF Range

\* What joins the list of available rows: the rows kept and the new ones.
LEMMA Merged ==
    ASSUME NEW kept, NEW new, NEW first, kept \cup new \subseteq Events,
           NEW q \in Merges(kept, new, first)
    PROVE  q \in Seq(Events) /\ IsInjective(q) /\ Range(q) = kept \cup new
PROOF
<1>1. IsFiniteSet(kept \cup new)
    BY Zenon, EventsFinite, FS_Subset
<1>2. q \in Bijection(1..Cardinality(kept \cup new), kept \cup new)
    BY Zenon DEF Merges
<1>3. q \in Seq(kept \cup new) /\ IsInjective(q) /\ Range(q) = kept \cup new
    BY Zenon, <1>1, <1>2, Listing
<1> QED
    BY <1>3

-----------------------------------------------------------------------------
(* What a step leaves alone.                                               *)

\* The types of what a relay's transaction holds.
LEMMA RelayTypes ==
    ASSUME RowsInv, RelayInv, NEW r \in Relays
    PROVE  /\ batch[r] \in Seq(Events) /\ Len(batch[r]) \in Nat
           /\ DOMAIN batch[r] = 1..Len(batch[r])
           /\ \A i \in 1..Len(batch[r]) : batch[r][i] \in Events
           /\ Range(batch[r]) = {batch[r][i] : i \in 1..Len(batch[r])}
           /\ \A i \in 1..Len(batch[r]) : batch[r][i] \in Range(batch[r])
           /\ Range(batch[r]) \subseteq Events
           /\ verdicts[r] \in Seq({"complete", "fail"}) /\ Len(verdicts[r]) \in Nat
           /\ \A i \in 1..Len(verdicts[r]) : verdicts[r][i] \in {"complete", "fail"}
           /\ Len(verdicts[r]) <= Len(batch[r])
           /\ running[r] \subseteq Subscribers
PROOF
<1>1. batch[r] \in Seq(Events) /\ verdicts[r] \in Seq({"complete", "fail"})
    BY Zenon DEF RelayInv
<1>2. Len(verdicts[r]) <= Len(batch[r]) /\ running[r] \subseteq Subscribers
    BY Zenon DEF RelayInv, OneRelay
<1>3. DOMAIN batch[r] = 1..Len(batch[r])
    BY ONLY <1>1
<1>4. Range(batch[r]) = {batch[r][i] : i \in 1..Len(batch[r])}
    BY ONLY <1>3, Zenon DEF Range
<1>5. \A i \in 1..Len(batch[r]) : batch[r][i] \in Range(batch[r])
    BY ONLY <1>4, Zenon
<1>6. \A i \in 1..Len(batch[r]) : batch[r][i] \in Events
    BY ONLY <1>1
<1>7. Range(batch[r]) \subseteq Events
    BY ONLY <1>4, <1>6, Zenon
<1> QED
    BY ONLY <1>1, <1>2, <1>3, <1>4, <1>5, <1>6, <1>7

\* The row in hand is one of the rows claimed, and one that is available.
LEMMA InHandTypes ==
    ASSUME RowsInv, RelayInv, NEW r \in Relays, Len(verdicts[r]) < Len(batch[r])
    PROVE  /\ InHand(r) \in Events /\ InHand(r) \in Range(batch[r])
           /\ row[InHand(r)] = "stored" /\ wait[InHand(r)] = 0
           /\ Wants[InHand(r)] \subseteq Subscribers
PROOF
<1>1. Len(verdicts[r]) + 1 \in 1..Len(batch[r])
    BY RelayTypes
<1>2. InHand(r) \in Events /\ InHand(r) \in Range(batch[r])
    BY Zenon, <1>1, RelayTypes DEF InHand
<1>3. Range(batch[r]) \subseteq Range(ready)
    BY Zenon DEF RelayInv, OneRelay
<1> QED
    BY Zenon, <1>2, <1>3, WantsAssumption DEF RowsInv

\* A relay that a step does not touch keeps its invariant while no available row goes.
LEMMA OtherRelay ==
    ASSUME NEW q \in Relays, OneRelay(q),
           proc'[q] = proc[q], bus'[q] = bus[q], batch'[q] = batch[q],
           verdicts'[q] = verdicts[q], running'[q] = running[q], failed'[q] = failed[q],
           Range(batch[q]) \subseteq Range(ready)'
    PROVE  OneRelay(q)'
PROOF
    BY Zenon DEF OneRelay, InHand, Dispatched, Range

\* So does what its transaction has achieved, while its own deliveries are not undone.
LEMMA OtherAchieved ==
    ASSUME RowsInv, RelayInv, NEW q \in Relays, Achieved(q),
           proc'[q] = proc[q], batch'[q] = batch[q], verdicts'[q] = verdicts[q],
           running'[q] = running[q], failed'[q] = failed[q],
           \A e \in Range(batch[q]) : got'[e] = got[e],
           excused \subseteq excused'
    PROVE  Achieved(q)'
PROOF
<1>1. \A i \in 1..Len(verdicts[q]) : got'[batch[q][i]] = got[batch[q][i]]
  <2>1. \A i \in 1..Len(verdicts[q]) : i \in 1..Len(batch[q])
    BY RelayTypes
  <2>2. \A i \in 1..Len(batch[q]) : batch[q][i] \in Range(batch[q])
    BY Zenon, RelayTypes
  <2> QED
    BY Zenon, <2>1, <2>2
<1>2. \A i \in 1..Len(verdicts[q])' :
        (IF verdicts[q][i] = "complete"
         THEN \A s \in Wants[batch[q][i]] : got[batch[q][i]][s] > 0
         ELSE batch[q][i] \in excused)'
    BY <1>1, Zenon DEF Achieved
<1>3. ASSUME Dispatching(q)', ~failed'[q], InHand(q)' \notin Undecodable,
             NEW s \in (Wants[InHand(q)] \ running[q])'
      PROVE  got'[InHand(q)'][s] > 0
  <2>1. InHand(q)' = InHand(q) /\ Dispatching(q)
    BY <1>3, Zenon DEF InHand, Dispatching, Claimed
  <2>2. Len(verdicts[q]) < Len(batch[q])
    BY ONLY Zenon, <2>1 DEF Dispatching, Claimed
  <2>3. got'[InHand(q)] = got[InHand(q)]
    BY Zenon, <2>2, InHandTypes
  <2>4. s \in Wants[InHand(q)] \ running[q] /\ ~failed[q] /\ InHand(q) \notin Undecodable
    BY <1>3, <2>1, Zenon
  <2> QED
    BY Zenon, <2>1, <2>3, <2>4 DEF Achieved
<1> QED
    BY ONLY <1>2, <1>3, Zenon DEF Achieved

\* A step of a request or of the clock: the relays stay as they are.
LEMMA RelaysUntouched ==
    ASSUME RelayInv, Range(ready) \subseteq Range(ready)', UNCHANGED <<procVars, relayVars>>
    PROVE  RelayInv'
PROOF
<1> USE DEF RelayInv, procVars, relayVars
<1>1. \A q \in Relays : OneRelay(q)'
  <2> SUFFICES ASSUME NEW q \in Relays PROVE OneRelay(q)'
    BY Zenon
  <2>1. OneRelay(q) /\ Range(batch[q]) \subseteq Range(ready)'
    BY Zenon DEF OneRelay
  <2> QED
    BY Zenon, <2>1, OtherRelay
<1>2. \A q, r \in Relays : q # r => (Range(batch[q]) \cap Range(batch[r]) = {})'
  <2>1. \A q \in Relays : Range(batch[q])' = Range(batch[q])
    BY Zenon DEF Range
  <2> QED
    BY Zenon, <2>1
<1> QED
    BY Zenon, <1>1, <1>2

\* The deliveries stay as they are while no row that was committed changes.
LEMMA DeliveriesUntouched ==
    ASSUME RowsInv, RelayInv, DeliveryInv,
           UNCHANGED <<procVars, relayVars, got, excused, faults>>,
           \A e \in Events : \/ row'[e] = row[e]
                             \/ row[e] \notin {"stored", "delivered"} /\ row'[e] # "delivered"
    PROVE  DeliveryInv'
PROOF
<1> USE DEF DeliveryInv, procVars, relayVars
<1>1. DeliveredToAll' /\ OnlyCommitted'
    BY Zenon DEF DeliveredToAll, OnlyCommitted
<1>2. ASSUME NEW q \in Relays PROVE Achieved(q)'
    BY Zenon, OtherAchieved
<1>3. ASSUME NEW e \in Events \ excused, NEW s \in Subscribers
      PROVE  Once(e, s)'
  <2>1. Once(e, s) /\ got'[e][s] = got[e][s]
    BY Zenon
  <2>2. \A r \in Relays : Past(r, e, s) => Past(r, e, s)'
    BY Zenon DEF Past
  <2>3. row[e] = "delivered" => row'[e] = "delivered"
    BY Zenon
  <2> QED
    BY ONLY Zenon, <2>1, <2>2, <2>3 DEF Once
<1> QED
    BY Zenon, <1>1, <1>2, <1>3

\* OutboxPublisher.publish.
LEMMA PublishKeeps ==
    ASSUME IInv, NEW e \in Events, Publish(e)
    PROVE  IInv'
PROOF
<1> USE DEF IInv, Publish
<1>1. RowsInv'
    BY Zenon DEF RowsInv
<1>2. RelayInv'
    BY Zenon, RelaysUntouched DEF Range
<1>3. DeliveryInv'
  <2>1. \A x \in Events : \/ row'[x] = row[x]
                          \/ row[x] \notin {"stored", "delivered"} /\ row'[x] # "delivered"
    BY Zenon DEF RowsInv
  <2> QED
    BY Zenon, <2>1, DeliveriesUntouched
<1> QED
    BY ONLY Zenon, <1>1, <1>2, <1>3

\* The end of the transaction that published.
LEMMA EndRequestKeeps ==
    ASSUME IInv, NEW e \in Events, EndRequest(e)
    PROVE  IInv'
PROOF
<1> USE DEF IInv
<1>1. row[e] = "uncommitted" /\ wait[e] = 0
    BY DEF EndRequest, RowsInv
<1>2. RowsInv' /\ Range(ready) \subseteq Range(ready)'
  <2>1. CASE row' = [row EXCEPT ![e] = "stored"] /\ ready' \in Merges(Range(ready), {e}, {})
    <3>1. Range(ready) \cup {e} \subseteq Events
        BY Zenon DEF RowsInv
    <3>2. ready' \in Seq(Events) /\ IsInjective(ready') /\ Range(ready') = Range(ready) \cup {e}
        BY ONLY Zenon, <2>1, <3>1, Merged
    <3> HIDE <2>1
    <3>3. row' = [row EXCEPT ![e] = "stored"] /\ wait' = wait
        BY Zenon, <2>1 DEF EndRequest
    <3>4. Range(ready') = {x \in Events : row'[x] = "stored" /\ wait'[x] = 0}
        BY Zenon, <1>1, <3>2, <3>3 DEF RowsInv
    <3>5. \A x \in Events : wait'[x] > 0 => row'[x] = "stored"
        BY Zenon, <3>3 DEF RowsInv
    <3> QED
        BY Zenon, <3>2, <3>3, <3>4, <3>5 DEF RowsInv
  <2>2. CASE row' = [row EXCEPT ![e] = "rolled_back"] /\ UNCHANGED ready
    BY Zenon, <1>1, <2>2 DEF EndRequest, RowsInv
  <2> QED
    BY Zenon, <2>1, <2>2 DEF EndRequest
<1>3. RelayInv'
    BY Zenon, <1>2, RelaysUntouched DEF EndRequest
<1>4. DeliveryInv'
  <2>1. \A x \in Events : \/ row'[x] = row[x]
                          \/ row[x] \notin {"stored", "delivered"} /\ row'[x] # "delivered"
    BY Zenon, <1>1 DEF EndRequest, RowsInv
  <2> QED
    BY Zenon, <2>1, DeliveriesUntouched DEF EndRequest
<1> QED
    BY ONLY Zenon, <1>2, <1>3, <1>4

\* The database's clock.
LEMMA TickKeeps ==
    ASSUME IInv, Tick
    PROVE  IInv'
PROOF
<1> USE DEF IInv
<1> DEFINE due == {e \in Events : wait[e] = 1}
<1>1. ready' \in Merges(Range(ready), due, Range(ready))
    BY Zenon DEF Tick
<1>2. Range(ready) \cup due \subseteq Events
    BY Zenon DEF RowsInv
<1>3. ready' \in Seq(Events) /\ IsInjective(ready') /\ Range(ready') = Range(ready) \cup due
    BY ONLY Zenon, <1>1, <1>2, Merged
<1>4. wait' = [e \in Events |-> IF wait[e] > 0 THEN wait[e] - 1 ELSE 0] /\ row' = row
    BY Zenon DEF Tick
<1> HIDE <1>1
<1>5. RowsInv'
  <2>1. \A e \in Events : wait[e] \in 0..MaxDelay /\ (wait[e] > 0 => row[e] = "stored")
    BY Zenon DEF RowsInv
  <2>2. wait' \in [Events -> 0..MaxDelay]
    BY ONLY <1>4, <2>1, RelayAssumption
  <2>3. Range(ready') = {e \in Events : row'[e] = "stored" /\ wait'[e] = 0}
    BY <1>3, <1>4, <2>1, RelayAssumption DEF RowsInv
  <2>4. \A e \in Events : wait'[e] > 0 => row'[e] = "stored"
    BY ONLY <1>4, <2>1, RelayAssumption
  <2> QED
    BY Zenon, <1>3, <1>4, <2>2, <2>3, <2>4 DEF RowsInv
<1>6. RelayInv'
  <2>1. Range(ready) \subseteq Range(ready)' /\ UNCHANGED <<procVars, relayVars>>
    BY Zenon, <1>3 DEF Tick
  <2> QED
    BY Zenon, <2>1, RelaysUntouched
<1>7. DeliveryInv'
  <2>1. UNCHANGED <<procVars, relayVars, got, excused, faults>>
    BY Zenon DEF Tick
  <2> QED
    BY Zenon, <1>4, <2>1, DeliveriesUntouched
<1> QED
    BY ONLY Zenon, <1>5, <1>6, <1>7

-----------------------------------------------------------------------------
(* The claim.                                                              *)

\* A batch holds available rows, each once, that nobody has locked.
LEMMA Taken ==
    ASSUME IInv, NEW r \in Relays, Claimable(r) # {}, NEW taken \in Firsts(Claimable(r))
    PROVE  /\ taken \in Seq(Events) /\ IsInjective(taken)
           /\ Len(taken) \in 1..BatchSize
           /\ Range(taken) \subseteq Range(ready) \ Locked
PROOF
<1> DEFINE rows == Claimable(r)
           n == IF BatchSize < Cardinality(rows) THEN BatchSize ELSE Cardinality(rows)
<1>1. rows \subseteq Events /\ rows = Range(ready) \ Locked
    BY Zenon DEF IInv, RowsInv, Claimable
<1>2. IsFiniteSet(rows)
    BY ONLY Zenon, <1>1, EventsFinite, FS_Subset
<1>3. Cardinality(rows) \in Nat \ {0}
    BY Zenon, <1>2, FS_CardinalityType, FS_EmptySet
<1>4. n \in 1..BatchSize
    BY ONLY <1>3, RelayAssumption
<1>5. /\ taken \in [1..n -> rows]
      /\ \A i, j \in 1..n : i < j => Precedes(ready, taken[i], taken[j])
    BY Zenon DEF Firsts
<1>6. \A a, b : Precedes(ready, a, b) => a # b
  <2>1. IsInjective(ready) /\ DOMAIN ready = 1..Len(ready) /\ Len(ready) \in Nat
    BY DEF IInv, RowsInv
  <2> QED
    BY ONLY <2>1 DEF Precedes, IsInjective
<1> HIDE DEF rows, n
<1>7. taken \in Seq(rows) /\ Len(taken) = n /\ DOMAIN taken = 1..n
    BY ONLY <1>4, <1>5
<1>8. taken \in Seq(Events)
    BY ONLY <1>1, <1>7
<1>9. \A i, j \in 1..n : i < j => taken[i] # taken[j]
    BY ONLY Zenon, <1>5, <1>6
<1>10. IsInjective(taken)
  <2>1. \A i, j \in 1..n : taken[i] = taken[j] => i = j
    BY ONLY <1>4, <1>9
  <2> QED
    BY ONLY <1>7, <2>1, Zenon DEF IsInjective
<1>11. Range(taken) \subseteq rows
    BY ONLY Zenon, <1>5, <1>7 DEF Range
<1> QED
    BY ONLY Zenon, <1>1, <1>4, <1>7, <1>8, <1>10, <1>11

\* drain_once claims a batch.
LEMMA ClaimKeeps ==
    ASSUME IInv, NEW r \in Relays, Claim(r)
    PROVE  IInv'
PROOF
<1>1. PICK taken \in Firsts(Claimable(r)) :
        /\ batch' = [batch EXCEPT ![r] = taken]
        /\ running' = [running EXCEPT ![r] = Dispatched(r, taken[1])]
    BY Zenon DEF Claim
<1>2. /\ taken \in Seq(Events) /\ IsInjective(taken)
      /\ Len(taken) \in 1..BatchSize
      /\ Range(taken) \subseteq Range(ready) \ Locked
    BY Zenon, Taken DEF Claim
<1>3. /\ row' = row /\ wait' = wait /\ ready' = ready /\ proc' = proc /\ bus' = bus
      /\ verdicts' = verdicts /\ failed' = failed /\ got' = got /\ excused' = excused
      /\ faults' = faults /\ seen' = [seen EXCEPT ![r] = Range(ready)]
      /\ proc[r] = "relaying" /\ batch[r] = <<>>
    BY Zenon DEF Claim, rowVars, procVars
<1>4. RowsInv /\ RelayInv /\ DeliveryInv
    BY Zenon DEF IInv
<1>5. bus[r] = Subscribers /\ Len(verdicts[r]) = 0 /\ ~failed[r]
  <2>1. Len(batch[r]) = 0
    BY ONLY <1>3
  <2> QED
    BY ONLY <1>3, <1>4, <2>1, RelayTypes DEF RelayInv, OneRelay
<1>6. batch'[r] = taken /\ running'[r] = Dispatched(r, taken[1])
    BY ONLY Zenon, <1>1, <1>4 DEF RelayInv
<1>7. \A q \in Relays : q # r => batch'[q] = batch[q] /\ running'[q] = running[q]
    BY ONLY Zenon, <1>1, <1>4 DEF RelayInv
<1>8. taken[1] \in Events /\ Wants[taken[1]] \subseteq Subscribers
    BY ONLY <1>2, WantsAssumption
<1>9. InHand(r)' = taken[1] /\ Dispatched(r, taken[1])' = Dispatched(r, taken[1])
    BY ONLY <1>3, <1>5, <1>6 DEF InHand, Dispatched
<1>10. RowsInv'
    BY ONLY Zenon, <1>3, <1>4 DEF RowsInv
<1>11. RelayInv'
  <2>1. OneRelay(r)'
    BY ONLY <1>2, <1>3, <1>4, <1>5, <1>6, <1>9 DEF OneRelay
  <2>2. \A q \in Relays : OneRelay(q)'
    <3> SUFFICES ASSUME NEW q \in Relays, q # r PROVE OneRelay(q)'
        BY Zenon, <2>1
    <3>1. OneRelay(q) /\ Range(batch[q]) \subseteq Range(ready)'
        BY ONLY Zenon, <1>3, <1>4 DEF RelayInv, OneRelay
    <3> QED
        BY Zenon, <1>3, <1>7, <3>1, OtherRelay
  <2>3. \A q \in Relays : q # r => (Range(batch[q]) \cap Range(batch[r]) = {})'
    BY ONLY Zenon, <1>2, <1>6, <1>7 DEF Locked
  <2>4. \A q, p \in Relays : q # p => (Range(batch[q]) \cap Range(batch[p]) = {})'
    BY ONLY <1>4, <1>7, <2>3, Zenon DEF RelayInv
  <2>5. batch' \in [Relays -> Seq(Events)]
    BY ONLY Zenon, <1>1, <1>2, <1>4 DEF RelayInv
  <2>6. running' \in [Relays -> SUBSET Subscribers]
    BY ONLY Zenon, <1>1, <1>4, <1>8 DEF RelayInv, Dispatched
  <2>7. seen' \in [Relays -> SUBSET Events]
    BY ONLY Zenon, <1>3, <1>4 DEF RelayInv, RowsInv
  <2> QED
    BY ONLY Zenon, <1>3, <1>4, <2>2, <2>4, <2>5, <2>6, <2>7 DEF RelayInv
<1>12. DeliveryInv'
  <2>1. DeliveredToAll' /\ OnlyCommitted'
    BY ONLY Zenon, <1>3, <1>4 DEF DeliveryInv, DeliveredToAll, OnlyCommitted
  <2>2. Achieved(r)'
    BY ONLY <1>3, <1>5, <1>6, <1>8, <1>9 DEF Achieved, Dispatched
  <2>3. \A q \in Relays : Achieved(q)'
    <3> SUFFICES ASSUME NEW q \in Relays, q # r PROVE Achieved(q)'
        BY Zenon, <2>2
    <3> QED
        BY Zenon, <1>3, <1>4, <1>7, OtherAchieved DEF DeliveryInv
  <2>4. ASSUME NEW e \in Events \ excused, NEW s \in Subscribers PROVE Once(e, s)'
    <3>1. Once(e, s)
        BY ONLY Zenon, <1>4 DEF DeliveryInv
    <3>2. ~Past(r, e, s)
        BY ONLY <1>3 DEF Past
    <3>3. \A q \in Relays : Past(q, e, s) => Past(q, e, s)'
        BY ONLY Zenon, <1>3, <1>7, <3>2 DEF Past
    <3> QED
        BY ONLY Zenon, <1>3, <3>1, <3>3 DEF Once
  <2> QED
    BY ONLY Zenon, <1>3, <1>4, <2>1, <2>3, <2>4 DEF DeliveryInv
<1> QED
    BY ONLY Zenon, <1>10, <1>11, <1>12 DEF IInv

-----------------------------------------------------------------------------
(* The dispatch of the row in hand.                                        *)

\* What a handler's effect counts.
LEMMA GotCounts ==
    ASSUME DeliveryInv, NEW e \in Events, NEW ss, Got(e, ss)
    PROVE  /\ got' \in [Events -> [Subscribers -> 0..2]]
           /\ \A x \in Events : x # e => got'[x] = got[x]
           /\ \A s \in Subscribers :
                got'[e][s] = IF s \in ss /\ got[e][s] < 2 THEN got[e][s] + 1 ELSE got[e][s]
PROOF
    BY DEF DeliveryInv, Got

\* What got counts only grows, and grows for a committed row only.
LEMMA CountsGrow ==
    ASSUME DeliveryInv, NEW e \in Events, row[e] = "stored", row' = row,
           got' \in [Events -> [Subscribers -> 0..2]],
           \A x \in Events : x # e => got'[x] = got[x],
           \A s \in Subscribers : got'[e][s] >= got[e][s]
    PROVE  DeliveredToAll' /\ OnlyCommitted'
PROOF
<1>1. DeliveredToAll'
    BY Zenon DEF DeliveryInv, DeliveredToAll
<1>2. OnlyCommitted'
  <2> SUFFICES ASSUME NEW x \in Events, NEW s \in Subscribers, got'[x][s] > 0
               PROVE  row[x] \in {"stored", "delivered"}
    BY Zenon DEF OnlyCommitted
  <2>1. CASE x = e
    BY Zenon, <2>1
  <2>2. CASE x # e
    BY Zenon, <2>2 DEF DeliveryInv, OnlyCommitted
  <2> QED
    BY ONLY Zenon, <2>1, <2>2
<1> QED
    BY ONLY Zenon, <1>1, <1>2

\* The one place of an event among what relays hold.
LEMMA OnePlace ==
    ASSUME RowsInv, RelayInv, NEW r \in Relays, NEW q \in Relays,
           NEW i \in 1..Len(batch[r]), NEW j \in 1..Len(batch[q]), batch[r][i] = batch[q][j]
    PROVE  q = r /\ i = j
PROOF
<1>1. batch[r][i] \in Range(batch[r]) /\ batch[q][j] \in Range(batch[q])
    BY Zenon, RelayTypes
<1>2. q = r
    BY Zenon, <1>1 DEF RelayInv
<1>3. IsInjective(batch[r]) /\ DOMAIN batch[r] = 1..Len(batch[r])
    BY Zenon, RelayTypes DEF RelayInv, OneRelay
<1> QED
    BY Zenon, <1>2, <1>3 DEF IsInjective

\* An undisturbed row in hand has not been handled by a subscriber that still runs.
LEMMA NotYetHandled ==
    ASSUME IInv, NEW r \in Relays, Len(verdicts[r]) < Len(batch[r]),
           InHand(r) \notin excused, NEW s \in running[r]
    PROVE  got[InHand(r)][s] = 0
PROOF
<1> DEFINE e == InHand(r)
           k == Len(verdicts[r]) + 1
<1>1. RowsInv /\ RelayInv /\ DeliveryInv
    BY Zenon DEF IInv
<1>2. e \in Events /\ row[e] = "stored" /\ s \in Subscribers
    BY Zenon, <1>1, InHandTypes, RelayTypes
<1>3. k \in 1..Len(batch[r]) /\ batch[r][k] = e
    BY <1>1, RelayTypes DEF InHand
<1>4. Once(e, s) /\ got[e][s] \in 0..2
    BY Zenon, <1>1, <1>2 DEF DeliveryInv
<1>5. ASSUME NEW q \in Relays, Past(q, e, s) PROVE FALSE
  <2>1. PICK i \in 1..Len(batch[q]) :
            /\ batch[q][i] = e
            /\ i <= Len(verdicts[q]) \/ (i = Len(verdicts[q]) + 1 /\ s \notin running[q])
    BY ONLY Zenon, <1>5 DEF Past
  <2>2. q = r /\ i = k
    BY ONLY <1>1, <1>3, <2>1, OnePlace
  <2> QED
    BY ONLY <1>1, <2>1, <2>2, RelayTypes
<1> QED
    BY ONLY <1>2, <1>4, <1>5 DEF Once

\* A handler ends: it has had its effect, or it has failed.
LEMMA HandlerKeeps ==
    ASSUME IInv, NEW r \in Relays, Dispatching(r), NEW s \in running[r],
           running' = [running EXCEPT ![r] = @ \ {s}],
           \/ Got(InHand(r), {s}) /\ failed' = failed
           \/ Got(InHand(r), {s}) /\ failed' = [failed EXCEPT ![r] = TRUE]
           \/ got' = got /\ failed' = [failed EXCEPT ![r] = TRUE],
           UNCHANGED <<rowVars, procVars, batch, verdicts, seen, excused>>,
           faults' \in 0..MaxFaults
    PROVE  IInv'
PROOF
<1> DEFINE e == InHand(r)
           k == Len(verdicts[r]) + 1
<1>1. RowsInv /\ RelayInv /\ DeliveryInv
    BY Zenon DEF IInv
<1>2. /\ row' = row /\ wait' = wait /\ ready' = ready /\ proc' = proc /\ bus' = bus
      /\ batch' = batch /\ verdicts' = verdicts /\ seen' = seen /\ excused' = excused
    BY Zenon DEF rowVars, procVars
<1>3. Len(verdicts[r]) < Len(batch[r]) /\ proc[r] = "relaying"
    BY Zenon DEF Dispatching, Claimed
<1>4. /\ e \in Events /\ e \in Range(batch[r]) /\ row[e] = "stored"
      /\ Wants[e] \subseteq Subscribers
    BY ONLY Zenon, <1>1, <1>3, InHandTypes
<1>5. k \in 1..Len(batch[r]) /\ batch[r][k] = e
    BY ONLY <1>1, <1>3, RelayTypes DEF InHand
<1>6. s \in Subscribers /\ running[r] \subseteq Subscribers
    BY ONLY Zenon, <1>1, RelayTypes
<1>7. running'[r] = running[r] \ {s} /\ \A q \in Relays : q # r => running'[q] = running[q]
    BY Zenon, <1>1 DEF RelayInv
<1>8. \A q \in Relays : running'[q] \subseteq running[q]
    BY ONLY Zenon, <1>7
<1>9. /\ failed' \in [Relays -> BOOLEAN]
      /\ \A q \in Relays : q # r => failed'[q] = failed[q]
      /\ ~failed'[r] => ~failed[r] /\ Got(e, {s})
  <2>1. failed \in [Relays -> BOOLEAN]
    BY ONLY Zenon, <1>1 DEF RelayInv
  <2> QED
    BY <2>1, Zenon
<1>10. InHand(r)' = e
    BY ONLY Zenon, <1>2 DEF InHand
<1>11. /\ got' \in [Events -> [Subscribers -> 0..2]]
       /\ \A x \in Events : x # e => got'[x] = got[x]
       /\ \A t \in Subscribers : t # s => got'[e][t] = got[e][t]
       /\ \/ got'[e][s] = got[e][s]
          \/ got[e][s] = 0 /\ got'[e][s] = 1
          \/ e \in excused
       /\ got'[e][s] >= got[e][s]
       /\ ~failed'[r] => got'[e][s] > 0
  <2>1. got \in [Events -> [Subscribers -> 0..2]]
    BY ONLY Zenon, <1>1 DEF DeliveryInv
  <2>2. e \notin excused => got[e][s] = 0
    BY Zenon, <1>3, NotYetHandled
  <2>3. CASE Got(e, {s})
    <3>1. /\ got' \in [Events -> [Subscribers -> 0..2]]
          /\ \A x \in Events : x # e => got'[x] = got[x]
          /\ \A t \in Subscribers :
                got'[e][t] = IF t \in {s} /\ got[e][t] < 2 THEN got[e][t] + 1 ELSE got[e][t]
        BY ONLY Zenon, <1>1, <1>4, <2>3, GotCounts
    <3>2. got[e][s] \in 0..2
        BY ONLY Zenon, <1>4, <1>6, <2>1
    <3>3. /\ \A t \in Subscribers : t # s => got'[e][t] = got[e][t]
          /\ got'[e][s] = IF got[e][s] < 2 THEN got[e][s] + 1 ELSE got[e][s]
        BY ONLY Zenon, <1>6, <3>1
    <3> QED
        BY ONLY <2>2, <3>1, <3>2, <3>3
  <2>4. CASE got' = got /\ ~Got(e, {s})
    BY ONLY <1>4, <1>6, <1>9, <2>1, <2>4
  <2> QED
    BY Zenon, <2>3, <2>4
<1>12. RowsInv'
    BY ONLY Zenon, <1>1, <1>2 DEF RowsInv
<1>13. RelayInv'
  <2>1. OneRelay(r)'
    <3>1. OneRelay(r) /\ running[r] \subseteq Dispatched(r, e)
        BY ONLY Zenon, <1>1, <1>3 DEF RelayInv, OneRelay
    <3>2. running'[r] \subseteq Dispatched(r, e)' /\ Len(verdicts'[r]) < Len(batch'[r])
        BY ONLY Zenon, <1>2, <1>3, <1>8, <1>10, <3>1 DEF Dispatched
    <3> QED
        BY ONLY Zenon, <1>2, <1>10, <3>1, <3>2 DEF OneRelay
  <2>2. \A q \in Relays : OneRelay(q)'
    <3> SUFFICES ASSUME NEW q \in Relays, q # r PROVE OneRelay(q)'
        BY Zenon, <2>1
    <3>1. OneRelay(q) /\ Range(batch[q]) \subseteq Range(ready)'
        BY ONLY Zenon, <1>1, <1>2 DEF RelayInv, OneRelay
    <3> QED
        BY Zenon, <1>2, <1>7, <1>9, <3>1, OtherRelay
  <2>3. running' \in [Relays -> SUBSET Subscribers]
    BY Zenon, <1>1 DEF RelayInv
  <2> QED
    BY ONLY Zenon, <1>1, <1>2, <1>9, <2>2, <2>3 DEF RelayInv
<1>14. DeliveryInv'
  <2>1. DeliveredToAll' /\ OnlyCommitted'
    <3>1. \A t \in Subscribers : got'[e][t] >= got[e][t]
        BY ONLY <1>1, <1>4, <1>11 DEF DeliveryInv
    <3> QED
        BY ONLY Zenon, <1>1, <1>2, <1>4, <1>11, <3>1, CountsGrow
  <2>2. Achieved(r)'
    <3>1. \A i \in 1..Len(verdicts[r]) : batch[r][i] # e /\ batch[r][i] \in Events
      <4> SUFFICES ASSUME NEW i \in 1..Len(verdicts[r])
                   PROVE  batch[r][i] # e /\ batch[r][i] \in Events
        BY Zenon
      <4>1. i \in 1..Len(batch[r]) /\ i # k
        BY ONLY <1>1, RelayTypes
      <4>2. batch[r][i] \in Events
        BY ONLY Zenon, <1>1, <4>1, RelayTypes
      <4>3. batch[r][i] # batch[r][k]
        BY ONLY <1>1, <1>5, <4>1, OnePlace
      <4> QED
        BY ONLY Zenon, <1>5, <4>2, <4>3
    <3>2. \A i \in 1..Len(verdicts'[r]) :
            (IF verdicts[r][i] = "complete"
             THEN \A t \in Wants[batch[r][i]] : got[batch[r][i]][t] > 0
             ELSE batch[r][i] \in excused)'
        BY ONLY <1>1, <1>2, <1>11, <3>1 DEF DeliveryInv, Achieved
    <3>3. ASSUME ~failed'[r], e \notin Undecodable, NEW t \in Wants[e] \ running'[r]
          PROVE  got'[e][t] > 0
      <4>1. t \in Subscribers
        BY ONLY Zenon, <1>4
      <4>2. CASE t = s
        BY ONLY Zenon, <1>11, <3>3, <4>2
      <4>3. CASE t # s
        BY <1>1, <1>7, <1>9, <1>11, <3>3, <4>1, <4>3, Zenon DEF DeliveryInv, Achieved
      <4> QED
        BY ONLY Zenon, <4>2, <4>3
    <3> QED
        BY ONLY <1>10, <3>2, <3>3, Zenon DEF Achieved
  <2>3. \A q \in Relays : Achieved(q)'
    <3> SUFFICES ASSUME NEW q \in Relays, q # r PROVE Achieved(q)'
        BY Zenon, <2>2
    <3>1. \A x \in Range(batch[q]) : got'[x] = got[x]
      <4>1. e \notin Range(batch[q]) /\ Range(batch[q]) \subseteq Events
        BY Zenon, <1>1, <1>4, RelayTypes DEF RelayInv
      <4> QED
        BY ONLY Zenon, <1>11, <4>1
    <3> QED
        BY <1>1, <1>2, <1>7, <1>9, <3>1, OtherAchieved, Zenon DEF DeliveryInv
  <2>4. ASSUME NEW x \in Events \ excused, NEW t \in Subscribers PROVE Once(x, t)'
    <3>1. Once(x, t)
        BY ONLY Zenon, <1>1 DEF DeliveryInv
    <3>2. \A q \in Relays : Past(q, x, t) => Past(q, x, t)'
        BY ONLY Zenon, <1>2, <1>8 DEF Past
    <3>3. CASE got'[x][t] = got[x][t]
        BY ONLY Zenon, <1>2, <3>1, <3>2, <3>3 DEF Once
    <3>4. CASE x = e /\ t = s /\ got'[e][s] = 1
      <4>1. Past(r, e, s)'
        BY ONLY Zenon, <1>2, <1>5, <1>7, <1>10 DEF Past
      <4>2. Past(r, x, t)'
        BY ONLY Zenon, <1>10, <3>4, <4>1
      <4> QED
        BY ONLY <3>4, <4>2 DEF Once
    <3> QED
        BY ONLY Zenon, <1>11, <3>3, <3>4
  <2> QED
    BY Zenon, <1>1, <1>2, <1>11, <2>1, <2>3, <2>4 DEF DeliveryInv
<1> QED
    BY ONLY Zenon, <1>12, <1>13, <1>14 DEF IInv

\* A subscriber returns.
LEMMA SubscriberEndsKeeps ==
    ASSUME IInv, NEW r \in Relays, NEW s \in Subscribers, SubscriberEnds(r, s)
    PROVE  IInv'
PROOF
<1>1. faults' \in 0..MaxFaults
    BY Zenon DEF SubscriberEnds, IInv, DeliveryInv
<1> QED
    BY <1>1, HandlerKeeps, Zenon DEF SubscriberEnds

\* A subscriber raises or runs into its timeout.
LEMMA SubscriberFailsKeeps ==
    ASSUME IInv, NEW r \in Relays, NEW s \in Subscribers, SubscriberFails(r, s)
    PROVE  IInv'
PROOF
<1>1. faults' \in 0..MaxFaults
    BY FaultAssumption DEF SubscriberFails, Fault, IInv, DeliveryInv
<1> QED
    BY <1>1, HandlerKeeps, Zenon DEF SubscriberFails

\* An outcome is written: as "complete" only after every subscriber has handled the row.
LEMMA OutcomeKeeps ==
    ASSUME IInv, NEW r \in Relays, Dispatching(r), NEW verdict \in {"complete", "fail"},
           Outcome(r, verdict),
           got' \in [Events -> [Subscribers -> 0..2]],
           \A x \in Events : x # InHand(r) => got'[x] = got[x],
           \A s \in Subscribers : got'[InHand(r)][s] >= got[InHand(r)][s],
           verdict = "complete" => got' = got /\ Delivered(r) /\ running[r] = {},
           UNCHANGED <<rowVars, procVars, batch, seen>>,
           faults' \in 0..MaxFaults
    PROVE  IInv'
PROOF
<1> DEFINE e == InHand(r)
           n == Len(verdicts[r])
<1>1. RowsInv /\ RelayInv /\ DeliveryInv
    BY Zenon DEF IInv
<1>2. /\ row' = row /\ wait' = wait /\ ready' = ready /\ proc' = proc /\ bus' = bus
      /\ batch' = batch /\ seen' = seen
    BY Zenon DEF rowVars, procVars
<1>3. n < Len(batch[r]) /\ proc[r] = "relaying" /\ bus[r] = Subscribers
    BY Zenon, <1>1 DEF Dispatching, Claimed, RelayInv, OneRelay
<1>4. /\ e \in Events /\ e \in Range(batch[r]) /\ row[e] = "stored"
      /\ Wants[e] \subseteq Subscribers
    BY ONLY Zenon, <1>1, <1>3, InHandTypes
<1>5. /\ n \in Nat /\ Len(batch[r]) \in Nat /\ n + 1 \in 1..Len(batch[r])
      /\ batch[r][n + 1] = e
    BY ONLY <1>1, <1>3, RelayTypes DEF InHand
<1>6. /\ verdicts'[r] = Append(verdicts[r], verdict)
      /\ \A q \in Relays : q # r => verdicts'[q] = verdicts[q]
      /\ verdicts' \in [Relays -> Seq({"complete", "fail"})]
    BY <1>1 DEF Outcome, RelayInv
<1>7. /\ Len(verdicts'[r]) = n + 1
      /\ \A i \in 1..n : verdicts'[r][i] = verdicts[r][i]
      /\ verdicts'[r][n + 1] = verdict
    BY ONLY <1>1, <1>6, RelayTypes
<1>8. /\ failed'[r] = FALSE
      /\ \A q \in Relays : q # r => failed'[q] = failed[q]
      /\ failed' \in [Relays -> BOOLEAN]
    BY Zenon, <1>1 DEF Outcome, RelayInv
<1>9. \A i \in 1..Len(batch[r]) :
        batch[r][i] \in Events /\ Wants[batch[r][i]] \subseteq Subscribers
    BY ONLY Zenon, <1>1, RelayTypes, WantsAssumption
<1>10. /\ n + 1 = Len(batch[r]) => running'[r] = {}
       /\ n + 1 < Len(batch[r]) => running'[r] = Dispatched(r, batch[r][n + 2])
       /\ \A q \in Relays : q # r => running'[q] = running[q]
    BY <1>1, <1>5 DEF Outcome, Claimed, RelayInv
<1>11. running' \in [Relays -> SUBSET Subscribers]
  <2>1. running'[r] \subseteq Subscribers
    BY ONLY <1>3, <1>5, <1>9, <1>10 DEF Dispatched
  <2>2. running \in [Relays -> SUBSET Subscribers]
    BY ONLY Zenon, <1>1 DEF RelayInv
  <2>3. PICK x : running' = [running EXCEPT ![r] = x]
    BY Zenon DEF Outcome
  <2> QED
    BY ONLY Zenon, <2>1, <2>2, <2>3
<1>12. InHand(r)' = batch[r][n + 2]
    BY ONLY <1>2, <1>5, <1>7 DEF InHand
<1>13. excused' = IF verdict = "fail" THEN excused \cup {e} ELSE excused
    BY Zenon DEF Outcome
<1>14. RowsInv'
    BY ONLY Zenon, <1>1, <1>2 DEF RowsInv
<1>15. RelayInv'
  <2>1. OneRelay(r)'
    <3>1. OneRelay(r)
        BY ONLY Zenon, <1>1 DEF RelayInv
    <3>2. Len(verdicts'[r]) <= Len(batch'[r])
        BY ONLY <1>2, <1>5, <1>7
    <3>3. IF Len(verdicts'[r]) < Len(batch'[r])
          THEN running'[r] \subseteq Dispatched(r, InHand(r))'
          ELSE running'[r] = {} /\ ~failed'[r]
      <4>1. Dispatched(r, InHand(r))' = Dispatched(r, batch[r][n + 2])
        BY ONLY <1>2, <1>12, Zenon DEF Dispatched
      <4> QED
        BY ONLY <1>2, <1>5, <1>7, <1>8, <1>10, <4>1
    <3> QED
        BY ONLY <1>2, <3>1, <3>2, <3>3, Zenon DEF OneRelay
  <2>2. \A q \in Relays : OneRelay(q)'
    <3> SUFFICES ASSUME NEW q \in Relays, q # r PROVE OneRelay(q)'
        BY Zenon, <2>1
    <3>1. OneRelay(q) /\ Range(batch[q]) \subseteq Range(ready)'
        BY ONLY Zenon, <1>1, <1>2 DEF RelayInv, OneRelay
    <3> QED
        BY <1>2, <1>6, <1>8, <1>10, <3>1, OtherRelay, Zenon
  <2> QED
    BY ONLY Zenon, <1>1, <1>2, <1>6, <1>8, <1>11, <2>2 DEF RelayInv
<1>16. DeliveryInv'
  <2>1. DeliveredToAll' /\ OnlyCommitted'
    BY Zenon, <1>1, <1>2, <1>4, CountsGrow
  <2>2. excused \subseteq excused' /\ excused' \subseteq Events
    BY ONLY Zenon, <1>1, <1>4, <1>13 DEF DeliveryInv
  <2>3. Achieved(r)'
    <3>1. ASSUME NEW i \in 1..n
          PROVE  IF verdicts'[r][i] = "complete"
                 THEN \A s \in Wants[batch[r][i]] : got'[batch[r][i]][s] > 0
                 ELSE batch[r][i] \in excused'
      <4>1. i \in 1..Len(batch[r]) /\ i # n + 1
        BY ONLY <1>5
      <4>2. batch[r][i] # e /\ batch[r][i] \in Events
        BY ONLY <1>1, <1>5, <1>9, <4>1, OnePlace
      <4>3. verdicts'[r][i] = verdicts[r][i] /\ got'[batch[r][i]] = got[batch[r][i]]
        BY Zenon, <1>7, <4>2
      <4> QED
        BY ONLY <1>1, <2>2, <4>3, Zenon DEF DeliveryInv, Achieved
    <3>2. IF verdict = "complete"
          THEN \A s \in Wants[e] : got'[e][s] > 0
          ELSE e \in excused'
        BY Zenon, <1>1, <1>13 DEF DeliveryInv, Achieved, Delivered
    <3>3. \A i \in 1..Len(verdicts'[r]) :
            (IF verdicts[r][i] = "complete"
             THEN \A s \in Wants[batch[r][i]] : got[batch[r][i]][s] > 0
             ELSE batch[r][i] \in excused)'
      <4> SUFFICES ASSUME NEW i \in 1..(n + 1)
                   PROVE  (IF verdicts[r][i] = "complete"
                           THEN \A s \in Wants[batch[r][i]] : got[batch[r][i]][s] > 0
                           ELSE batch[r][i] \in excused)'
        BY <1>7, Zenon
      <4>1. CASE i \in 1..n
        BY ONLY Zenon, <1>2, <3>1, <4>1
      <4>2. CASE i = n + 1
        BY ONLY Zenon, <1>2, <1>5, <1>7, <3>2, <4>2
      <4> QED
        BY ONLY <1>5, <4>1, <4>2
    <3>4. ASSUME Dispatching(r)', InHand(r)' \notin Undecodable
          PROVE  Wants[InHand(r)'] \ running'[r] = {}
      <4>1. n + 1 < Len(batch[r])
        BY ONLY Zenon, <1>2, <1>7, <3>4 DEF Dispatching, Claimed
      <4>2. running'[r] = Wants[InHand(r)'] \cap Subscribers
        BY ONLY Zenon, <1>3, <1>10, <1>12, <3>4, <4>1 DEF Dispatched
      <4>3. n + 2 \in 1..Len(batch[r])
        BY ONLY <1>5, <4>1
      <4>4. Wants[batch[r][n + 2]] \subseteq Subscribers
        BY ONLY Zenon, <1>9, <4>3
      <4> QED
        BY ONLY Zenon, <1>12, <4>2, <4>4
    <3> QED
        BY ONLY <3>3, <3>4, Zenon DEF Achieved
  <2>4. \A q \in Relays : Achieved(q)'
    <3> SUFFICES ASSUME NEW q \in Relays, q # r PROVE Achieved(q)'
        BY Zenon, <2>3
    <3>1. \A x \in Range(batch[q]) : got'[x] = got[x]
      <4>1. Range(batch[q]) \subseteq Events
        BY ONLY Zenon, <1>1, RelayTypes
      <4>2. Range(batch[q]) \cap Range(batch[r]) = {}
        BY Zenon, <1>1 DEF RelayInv
      <4> QED
        BY <1>4, <4>1, <4>2, Zenon
    <3> QED
        BY <1>1, <1>2, <1>6, <1>8, <1>10, <2>2, <3>1, OtherAchieved, Zenon DEF DeliveryInv
  <2>5. ASSUME NEW x \in Events \ excused', NEW s \in Subscribers PROVE Once(x, s)'
    <3>1. x \notin excused /\ Once(x, s)
        BY ONLY Zenon, <1>1, <2>2 DEF DeliveryInv
    <3>2. got'[x][s] = got[x][s]
        BY Zenon, <1>13
    <3>3. ASSUME NEW q \in Relays, Past(q, x, s) PROVE Past(q, x, s)'
      <4>1. CASE q # r
        BY ONLY <1>2, <1>6, <1>10, <3>3, <4>1, Zenon DEF Past
      <4>2. CASE q = r
        <5>1. PICK i \in 1..Len(batch[r]) : batch[r][i] = x /\ i <= n + 1
            BY ONLY <1>5, <3>3, <4>2 DEF Past
        <5>2. batch'[r] = batch[r] /\ i <= Len(verdicts'[r])
            BY ONLY Zenon, <1>2, <1>5, <1>7, <5>1
        <5> QED
            BY ONLY Zenon, <4>2, <5>1, <5>2 DEF Past
      <4> QED
        BY ONLY Zenon, <4>1, <4>2
    <3> QED
        BY ONLY Zenon, <1>2, <3>1, <3>2, <3>3 DEF Once
  <2> QED
    BY <2>1, <2>2, <2>4, <2>5, Zenon DEF DeliveryInv
<1> QED
    BY ONLY Zenon, <1>14, <1>15, <1>16 DEF IInv

\* _handle writes the outcome of a dispatch that has ended.
LEMMA ConcludeKeeps ==
    ASSUME IInv, NEW r \in Relays, Conclude(r)
    PROVE  IInv'
PROOF
<1> DEFINE verdict == IF Delivered(r) THEN "complete" ELSE "fail"
<1>1. Dispatching(r) /\ running[r] = {} /\ Outcome(r, verdict) /\ got' = got
    BY Zenon DEF Conclude
<1>2. verdict \in {"complete", "fail"} /\ (verdict = "complete" => Delivered(r))
    BY Zenon
<1>3. faults' \in 0..MaxFaults /\ UNCHANGED <<rowVars, procVars, batch, seen>>
    BY Zenon DEF Conclude, IInv, DeliveryInv
<1>4. InHand(r) \in Events
    BY Zenon, <1>1, InHandTypes DEF IInv, Dispatching, Claimed
<1>5. got' \in [Events -> [Subscribers -> 0..2]]
    BY <1>1, Zenon DEF IInv, DeliveryInv
<1>6. /\ \A x \in Events : x # InHand(r) => got'[x] = got[x]
      /\ \A s \in Subscribers : got'[InHand(r)][s] >= got[InHand(r)][s]
    BY ONLY <1>1, <1>4, <1>5
<1> HIDE DEF verdict
<1> QED
    BY Zenon, <1>1, <1>2, <1>3, <1>5, <1>6, OutcomeKeeps

\* wait_for gives up on the dispatch.
LEMMA DispatchTimesOutKeeps ==
    ASSUME IInv, NEW r \in Relays, DispatchTimesOut(r)
    PROVE  IInv'
PROOF
<1>1. PICK ss \in SUBSET running[r] : Got(InHand(r), ss)
    BY Zenon DEF DispatchTimesOut
<1>2. Dispatching(r) /\ Outcome(r, "fail") /\ UNCHANGED <<rowVars, procVars, batch, seen>>
    BY Zenon DEF DispatchTimesOut
<1>3. faults' \in 0..MaxFaults
    BY FaultAssumption DEF DispatchTimesOut, Fault, IInv, DeliveryInv
<1>4. InHand(r) \in Events /\ DeliveryInv
    BY Zenon, <1>2, InHandTypes DEF IInv, Dispatching, Claimed
<1>5. /\ got' \in [Events -> [Subscribers -> 0..2]]
      /\ \A x \in Events : x # InHand(r) => got'[x] = got[x]
      /\ \A s \in Subscribers : got'[InHand(r)][s] >= got[InHand(r)][s]
    BY ONLY <1>1, <1>4, GotCounts DEF DeliveryInv
<1> QED
    BY Zenon, <1>2, <1>3, <1>5, OutcomeKeeps

-----------------------------------------------------------------------------
(* The end of a batch.                                                     *)

\* The relay's transaction afterwards: nothing claimed, nothing written.
LEMMA BatchEnded ==
    ASSUME RelayInv, NEW r \in Relays, EndBatch(r)
    PROVE  /\ batch' \in [Relays -> Seq(Events)]
           /\ verdicts' \in [Relays -> Seq({"complete", "fail"})]
           /\ seen' \in [Relays -> SUBSET Events]
           /\ running' \in [Relays -> SUBSET Subscribers]
           /\ failed' \in [Relays -> BOOLEAN]
           /\ batch'[r] = <<>> /\ verdicts'[r] = <<>> /\ running'[r] = {} /\ ~failed'[r]
           /\ \A q \in Relays : q # r =>
                /\ batch'[q] = batch[q] /\ verdicts'[q] = verdicts[q]
                /\ running'[q] = running[q] /\ failed'[q] = failed[q]
PROOF
<1>1. /\ batch' \in [Relays -> Seq(Events)] /\ batch'[r] = <<>>
      /\ \A q \in Relays : q # r => batch'[q] = batch[q]
    BY DEF RelayInv, EndBatch
<1>2. /\ verdicts' \in [Relays -> Seq({"complete", "fail"})] /\ verdicts'[r] = <<>>
      /\ \A q \in Relays : q # r => verdicts'[q] = verdicts[q]
    BY DEF RelayInv, EndBatch
<1>3. /\ seen' \in [Relays -> SUBSET Events]
      /\ running' \in [Relays -> SUBSET Subscribers] /\ running'[r] = {}
      /\ \A q \in Relays : q # r => running'[q] = running[q]
    BY Zenon DEF RelayInv, EndBatch
<1>4. /\ failed' \in [Relays -> BOOLEAN] /\ ~failed'[r]
      /\ \A q \in Relays : q # r => failed'[q] = failed[q]
    BY Zenon DEF RelayInv, EndBatch
<1> QED
    BY ONLY Zenon, <1>1, <1>2, <1>3, <1>4

\* The relays afterwards, when no row of another relay has gone from the list.
LEMMA RelaysAfterBatch ==
    ASSUME RowsInv, RelayInv, NEW r \in Relays, EndBatch(r),
           proc' \in [Relays -> {"down", "relaying", "stopped"}],
           bus' \in [Relays -> SUBSET Subscribers],
           proc'[r] = "relaying" => bus'[r] = Subscribers,
           \A q \in Relays : q # r => /\ proc'[q] = proc[q] /\ bus'[q] = bus[q]
                                      /\ Range(batch[q]) \subseteq Range(ready)'
    PROVE  RelayInv'
PROOF
<1>1. /\ batch' \in [Relays -> Seq(Events)]
      /\ verdicts' \in [Relays -> Seq({"complete", "fail"})]
      /\ seen' \in [Relays -> SUBSET Events]
      /\ running' \in [Relays -> SUBSET Subscribers]
      /\ failed' \in [Relays -> BOOLEAN]
      /\ batch'[r] = <<>> /\ verdicts'[r] = <<>> /\ running'[r] = {} /\ ~failed'[r]
      /\ \A q \in Relays : q # r =>
            /\ batch'[q] = batch[q] /\ verdicts'[q] = verdicts[q]
            /\ running'[q] = running[q] /\ failed'[q] = failed[q]
    BY Zenon, BatchEnded
<1>2. Range(batch'[r]) = {}
    BY ONLY <1>1 DEF Range
<1>3. OneRelay(r)'
    BY <1>1, <1>2, RelayAssumption DEF OneRelay, IsInjective
<1>4. \A q \in Relays : OneRelay(q)'
  <2> SUFFICES ASSUME NEW q \in Relays, q # r PROVE OneRelay(q)'
    BY Zenon, <1>3
  <2>1. OneRelay(q) /\ Range(batch[q]) \subseteq Range(ready)'
    BY Zenon DEF RelayInv
  <2> QED
    BY <1>1, <2>1, OtherRelay, Zenon
<1>5. \A q, p \in Relays : q # p => (Range(batch[q]) \cap Range(batch[p]) = {})'
    BY <1>1, <1>2, Zenon DEF RelayInv
<1> QED
    BY Zenon, <1>1, <1>4, <1>5 DEF RelayInv

\* What the transactions have achieved afterwards.
LEMMA AchievedAfterBatch ==
    ASSUME RowsInv, RelayInv, DeliveryInv, NEW r \in Relays, EndBatch(r), got' = got,
           excused \subseteq excused', \A q \in Relays : q # r => proc'[q] = proc[q]
    PROVE  \A q \in Relays : Achieved(q)'
PROOF
<1>1. /\ batch'[r] = <<>> /\ verdicts'[r] = <<>>
      /\ \A q \in Relays : q # r =>
            /\ batch'[q] = batch[q] /\ verdicts'[q] = verdicts[q]
            /\ running'[q] = running[q] /\ failed'[q] = failed[q]
    BY Zenon, BatchEnded
<1>2. Achieved(r)'
    BY ONLY <1>1 DEF Achieved, Dispatching, Claimed
<1> SUFFICES ASSUME NEW q \in Relays, q # r PROVE Achieved(q)'
    BY Zenon, <1>2
<1> QED
    BY Zenon, <1>1, OtherAchieved DEF DeliveryInv

\* The transaction is rolled back, with the process going away or not.
LEMMA RollbackKeeps ==
    ASSUME IInv, NEW r \in Relays, Rollback(r), UNCHANGED <<rowVars, got>>,
           faults' \in 0..MaxFaults,
           proc' \in [Relays -> {"down", "relaying", "stopped"}],
           bus' \in [Relays -> SUBSET Subscribers],
           proc'[r] = "relaying" => bus'[r] = Subscribers,
           \A q \in Relays : q # r => proc'[q] = proc[q] /\ bus'[q] = bus[q]
    PROVE  IInv'
PROOF
<1>1. RowsInv /\ RelayInv /\ DeliveryInv
    BY Zenon DEF IInv
<1>2. /\ row' = row /\ wait' = wait /\ ready' = ready /\ got' = got
      /\ EndBatch(r) /\ excused' = excused \cup Range(batch[r])
    BY Zenon DEF rowVars, Rollback
<1>3. excused \subseteq excused' /\ excused' \subseteq Events
  <2>1. excused \subseteq Events
    BY ONLY Zenon, <1>1 DEF DeliveryInv
  <2>2. Range(batch[r]) \subseteq Events
    BY ONLY Zenon, <1>1, RelayTypes
  <2> QED
    BY ONLY Zenon, <1>2, <2>1, <2>2
<1>4. RowsInv'
    BY ONLY Zenon, <1>1, <1>2 DEF RowsInv
<1>5. RelayInv'
  <2>1. \A q \in Relays : Range(batch[q]) \subseteq Range(ready)'
    BY ONLY Zenon, <1>1, <1>2 DEF RelayInv, OneRelay
  <2> QED
    BY Zenon, <1>1, <1>2, <2>1, RelaysAfterBatch
<1>6. DeliveryInv'
  <2>1. DeliveredToAll' /\ OnlyCommitted'
    BY ONLY <1>1, <1>2, Zenon DEF DeliveryInv, DeliveredToAll, OnlyCommitted
  <2>2. \A q \in Relays : Achieved(q)'
    BY <1>1, <1>2, <1>3, AchievedAfterBatch, Zenon
  <2>3. ASSUME NEW e \in Events \ excused', NEW s \in Subscribers PROVE Once(e, s)'
    <3>1. Once(e, s) /\ e \notin Range(batch[r])
        BY ONLY Zenon, <1>1, <1>2 DEF DeliveryInv
    <3>2. ~Past(r, e, s)
      <4>1. \A i \in 1..Len(batch[r]) : batch[r][i] \in Range(batch[r])
        BY ONLY Zenon, <1>1, RelayTypes
      <4> QED
        BY ONLY <3>1, <4>1, Zenon DEF Past
    <3>3. \A q \in Relays : Past(q, e, s) => Past(q, e, s)'
      <4>1. \A q \in Relays : q # r =>
                batch'[q] = batch[q] /\ verdicts'[q] = verdicts[q] /\ running'[q] = running[q]
        BY ONLY <1>1, <1>2, BatchEnded, Zenon
      <4> QED
        BY ONLY Zenon, <3>2, <4>1 DEF Past
    <3> QED
        BY ONLY Zenon, <1>2, <3>1, <3>3 DEF Once
  <2> QED
    BY <1>1, <1>2, <1>3, <2>1, <2>2, <2>3, Zenon DEF DeliveryInv
<1> QED
    BY ONLY Zenon, <1>4, <1>5, <1>6 DEF IInv

\* A statement or the commit fails.
LEMMA BatchFailsKeeps ==
    ASSUME IInv, NEW r \in Relays, BatchFails(r)
    PROVE  IInv'
PROOF
<1>1. faults' \in 0..MaxFaults
    BY FaultAssumption DEF BatchFails, Fault, IInv, DeliveryInv
<1>2. proc' = proc /\ bus' = bus /\ Rollback(r) /\ UNCHANGED <<rowVars, got>>
    BY Zenon DEF BatchFails, procVars
<1> QED
    BY <1>1, <1>2, RollbackKeeps, Zenon DEF IInv, RelayInv, OneRelay

\* OutboxRelay.stop.
LEMMA StopRelayKeeps ==
    ASSUME IInv, NEW r \in Relays, StopRelay(r)
    PROVE  IInv'
PROOF
<1>1. faults' \in 0..MaxFaults
    BY FaultAssumption DEF StopRelay, Fault, IInv, DeliveryInv
<1>2. /\ proc' = [proc EXCEPT ![r] = "stopped"] /\ bus' = bus
      /\ Rollback(r) /\ UNCHANGED <<rowVars, got>>
    BY Zenon DEF StopRelay
<1> QED
    BY <1>1, <1>2, RollbackKeeps, Zenon DEF IInv, RelayInv

\* The process dies.
LEMMA CrashKeeps ==
    ASSUME IInv, NEW r \in Relays, Crash(r)
    PROVE  IInv'
PROOF
<1>1. faults' \in 0..MaxFaults
    BY FaultAssumption DEF Crash, Fault, IInv, DeliveryInv
<1>2. /\ proc' = [proc EXCEPT ![r] = "down"] /\ bus' = [bus EXCEPT ![r] = {}]
      /\ Rollback(r) /\ UNCHANGED <<rowVars, got>>
    BY Zenon DEF Crash
<1> QED
    BY <1>1, <1>2, RollbackKeeps, Zenon DEF IInv, RelayInv

\* session_batches commits: the rows delivered go, the others come back or wait.
LEMMA CommitBatchKeeps ==
    ASSUME IInv, NEW r \in Relays, CommitBatch(r)
    PROVE  IInv'
PROOF
<1> DEFINE n == Len(batch[r])
           With(v) == {batch[r][i] : i \in {j \in 1..n : verdicts[r][j] = v}}
           done == With("complete")
           undone == With("fail")
<1>1. RowsInv /\ RelayInv /\ DeliveryInv
    BY Zenon DEF IInv
<1>2. /\ proc[r] = "relaying" /\ Len(verdicts[r]) = n /\ EndBatch(r)
      /\ proc' = proc /\ bus' = bus /\ got' = got /\ excused' = excused /\ faults' = faults
      /\ row' = [e \in Events |-> IF e \in done THEN "delivered" ELSE row[e]]
    BY Zenon DEF CommitBatch, Claimed, procVars
<1>0. PICK again \in SUBSET undone :
        \E later \in [undone \ again -> 1..MaxDelay] : Reschedule(r, again, later)
    BY Zenon DEF CommitBatch, Claimed
<1>3. PICK later \in [undone \ again -> 1..MaxDelay] : Reschedule(r, again, later)
    BY ONLY <1>0, Zenon
<1>4. \A i \in 1..n : verdicts[r][i] \in {"complete", "fail"} /\ batch[r][i] \in Events
    BY ONLY <1>1, <1>2, RelayTypes, Zenon
<1>5. /\ \A i \in 1..n : verdicts[r][i] = "complete" => batch[r][i] \in done
      /\ \A i \in 1..n : verdicts[r][i] = "fail" => batch[r][i] \in undone
      /\ \A e \in done : \E i \in 1..n : verdicts[r][i] = "complete" /\ batch[r][i] = e
      /\ \A e \in undone : \E i \in 1..n : verdicts[r][i] = "fail" /\ batch[r][i] = e
    BY Zenon
<1> HIDE DEF With, done, undone
<1>6. Range(batch[r]) = done \cup undone
  <2>1. Range(batch[r]) = {batch[r][i] : i \in 1..n}
    BY ONLY Zenon, <1>1, RelayTypes
  <2>2. \A e \in Range(batch[r]) : e \in done \cup undone
    BY ONLY <1>4, <1>5, <2>1
  <2>3. \A e \in done \cup undone : e \in Range(batch[r])
    BY ONLY <1>5, <2>1
  <2> QED
    BY ONLY Zenon, <2>2, <2>3
<1>7. done \cap undone = {}
  <2>1. \A i, j \in 1..n : batch[r][i] = batch[r][j] => i = j
    BY ONLY Zenon, <1>1, OnePlace
  <2> QED
    BY ONLY <1>5, <2>1
<1>8. Range(batch[r]) \subseteq Range(ready) /\ Range(ready) \subseteq Events
    BY ONLY Zenon, <1>1 DEF RelayInv, OneRelay, RowsInv
<1>9. \A e \in done \cup undone : e \in Events /\ row[e] = "stored" /\ wait[e] = 0
    BY ONLY Zenon, <1>1, <1>6, <1>8 DEF RowsInv
<1>10. /\ ready' \in Seq(Events) /\ IsInjective(ready')
       /\ Range(ready') = (Range(ready) \ Range(batch[r])) \cup again
  <2>1. (Range(ready) \ Range(batch[r])) \cup again \subseteq Events
    BY ONLY Zenon, <1>8, <1>9
  <2>2. ready' \in Merges(Range(ready) \ Range(batch[r]), again, seen[r])
    BY ONLY Zenon, <1>3 DEF Reschedule
  <2> QED
    BY ONLY Zenon, <2>1, <2>2, Merged
<1>11. wait' = [e \in Events |-> IF e \in undone \ again THEN later[e] ELSE wait[e]]
    BY ONLY Zenon, <1>3 DEF Reschedule
<1>12. \A e \in done : \A s \in Wants[e] : got[e][s] > 0
  <2>1. \A i \in 1..n : verdicts[r][i] = "complete" =>
            \A s \in Wants[batch[r][i]] : got[batch[r][i]][s] > 0
    BY ONLY <1>1, <1>2, Zenon DEF DeliveryInv, Achieved
  <2> SUFFICES ASSUME NEW e \in done PROVE \A s \in Wants[e] : got[e][s] > 0
    BY Zenon
  <2>2. PICK i \in 1..n : verdicts[r][i] = "complete" /\ batch[r][i] = e
    BY ONLY Zenon, <1>5
  <2> QED
    BY ONLY Zenon, <2>1, <2>2
<1>13. undone \subseteq excused
  <2>1. Achieved(r)
    BY ONLY Zenon, <1>1 DEF DeliveryInv
  <2>2. \A i \in 1..n : verdicts[r][i] = "fail" => batch[r][i] \in excused
    BY ONLY Zenon, <1>2, <2>1 DEF Achieved
  <2> QED
    BY ONLY <1>5, <2>2
<1>14. RowsInv'
  <2>1. row' \in [Events -> {"absent", "uncommitted", "stored", "delivered", "rolled_back"}]
    BY ONLY Zenon, <1>1, <1>2 DEF RowsInv
  <2>2. wait' \in [Events -> 0..MaxDelay]
    BY ONLY <1>1, <1>3, <1>11, RelayAssumption DEF RowsInv
  <2>3. \A e \in undone \ again : later[e] \in 1..MaxDelay
    BY ONLY Zenon, <1>3
  <2>4. Range(ready') = {e \in Events : row'[e] = "stored" /\ wait'[e] = 0}
    <3>1. Range(ready) = {e \in Events : row[e] = "stored" /\ wait[e] = 0}
        BY ONLY Zenon, <1>1 DEF RowsInv
    <3>2. \A e \in Events : e \in done => row'[e] # "stored"
        BY ONLY Zenon, <1>2
    <3>3. \A e \in Events : e \in undone \ again => wait'[e] # 0
        BY ONLY <1>11, <2>3
    <3>4. \A e \in Events : e \in again => row'[e] = "stored" /\ wait'[e] = 0
        BY ONLY Zenon, <1>2, <1>7, <1>9, <1>11
    <3>5. \A e \in Events : e \notin done \cup undone => row'[e] = row[e] /\ wait'[e] = wait[e]
        BY ONLY Zenon, <1>2, <1>11
    <3> QED
        BY ONLY Zenon, <1>6, <1>8, <1>9, <1>10, <3>1, <3>2, <3>3, <3>4, <3>5
  <2>5. \A e \in Events : wait'[e] > 0 => row'[e] = "stored"
    <3>1. \A e \in Events : e \in undone => row'[e] = "stored"
        BY ONLY Zenon, <1>2, <1>7, <1>9
    <3>2. \A e \in Events : e \in done => wait'[e] = 0
        BY ONLY Zenon, <1>7, <1>9, <1>11
    <3>3. \A e \in Events : e \notin done \cup undone => row'[e] = row[e] /\ wait'[e] = wait[e]
        BY ONLY Zenon, <1>2, <1>11
    <3> QED
        BY ONLY <1>1, <3>1, <3>2, <3>3 DEF RowsInv
  <2> QED
    BY ONLY Zenon, <1>10, <2>1, <2>2, <2>4, <2>5 DEF RowsInv
<1>15. RelayInv'
  <2>1. \A q \in Relays : q # r => Range(batch[q]) \subseteq Range(ready)'
    BY ONLY Zenon, <1>1, <1>10 DEF RelayInv, OneRelay
  <2>2. /\ proc' \in [Relays -> {"down", "relaying", "stopped"}]
        /\ bus' \in [Relays -> SUBSET Subscribers]
        /\ proc'[r] = "relaying" => bus'[r] = Subscribers
    BY ONLY Zenon, <1>1, <1>2 DEF RelayInv, OneRelay
  <2> QED
    BY ONLY Zenon, <1>1, <1>2, <2>1, <2>2, RelaysAfterBatch
<1>16. DeliveryInv'
  <2>1. DeliveredToAll'
    BY ONLY Zenon, <1>1, <1>2, <1>12 DEF DeliveryInv, DeliveredToAll
  <2>2. OnlyCommitted'
    BY ONLY Zenon, <1>1, <1>2 DEF DeliveryInv, OnlyCommitted
  <2>3. \A q \in Relays : Achieved(q)'
    BY ONLY Zenon, <1>1, <1>2, AchievedAfterBatch
  <2>4. ASSUME NEW e \in Events \ excused, NEW s \in Subscribers PROVE Once(e, s)'
    <3>1. Once(e, s)
        BY ONLY Zenon, <1>1 DEF DeliveryInv
    <3>2. row[e] = "delivered" => row'[e] = "delivered"
        BY ONLY Zenon, <1>2
    <3>3. Past(r, e, s) => row'[e] = "delivered"
        BY ONLY <1>2, <1>4, <1>5, <1>13 DEF Past
    <3>4. \A q \in Relays : q # r => (Past(q, e, s) => Past(q, e, s)')
      <4>1. \A q \in Relays : q # r =>
                batch'[q] = batch[q] /\ verdicts'[q] = verdicts[q] /\ running'[q] = running[q]
        BY ONLY Zenon, <1>1, <1>2, BatchEnded
      <4> QED
        BY ONLY Zenon, <4>1 DEF Past
    <3> QED
        BY ONLY Zenon, <1>2, <3>1, <3>2, <3>3, <3>4 DEF Once
  <2> QED
    BY ONLY Zenon, <1>1, <1>2, <2>1, <2>2, <2>3, <2>4 DEF DeliveryInv
<1> QED
    BY ONLY Zenon, <1>14, <1>15, <1>16 DEF IInv

-----------------------------------------------------------------------------
(* Processes.                                                              *)

\* A process whose relay has no batch starts, or clears its bus and ends.
LEMMA ProcessKeeps ==
    ASSUME IInv, NEW r \in Relays, batch[r] = <<>>,
           UNCHANGED <<rowVars, relayVars, got, excused, faults>>,
           proc' \in [Relays -> {"down", "relaying", "stopped"}],
           bus' \in [Relays -> SUBSET Subscribers],
           proc'[r] = "relaying" => bus'[r] = Subscribers,
           \A q \in Relays : q # r => proc'[q] = proc[q] /\ bus'[q] = bus[q]
    PROVE  IInv'
PROOF
<1>1. RowsInv /\ RelayInv /\ DeliveryInv
    BY Zenon DEF IInv
<1>2. /\ row' = row /\ wait' = wait /\ ready' = ready /\ got' = got /\ excused' = excused
      /\ batch' = batch /\ verdicts' = verdicts /\ seen' = seen /\ running' = running
      /\ failed' = failed /\ faults' = faults
    BY Zenon DEF rowVars, relayVars
<1>3. RowsInv'
    BY ONLY Zenon, <1>1, <1>2 DEF RowsInv
<1>4. OneRelay(r)'
    BY <1>1, <1>2 DEF RelayInv, OneRelay
<1>5. \A q \in Relays : OneRelay(q)'
  <2> SUFFICES ASSUME NEW q \in Relays, q # r PROVE OneRelay(q)'
    BY Zenon, <1>4
  <2>1. OneRelay(q) /\ Range(batch[q]) \subseteq Range(ready)'
    BY ONLY Zenon, <1>1, <1>2 DEF RelayInv, OneRelay
  <2> QED
    BY <1>2, <2>1, OtherRelay, Zenon
<1>6. RelayInv'
    BY Zenon, <1>1, <1>2, <1>5 DEF RelayInv
<1>7. Achieved(r)'
  <2>1. Len(verdicts[r]) = 0 /\ Len(batch[r]) = 0
    BY <1>1, RelayTypes
  <2>2. Len(verdicts'[r]) = 0 /\ ~Dispatching(r)'
    BY ONLY <1>2, <2>1 DEF Dispatching, Claimed
  <2> QED
    BY ONLY <2>2 DEF Achieved
<1>8. \A q \in Relays : Achieved(q)'
  <2> SUFFICES ASSUME NEW q \in Relays, q # r PROVE Achieved(q)'
    BY Zenon, <1>7
  <2> QED
    BY Zenon, <1>1, <1>2, OtherAchieved DEF DeliveryInv
<1>9. DeliveredToAll' /\ OnlyCommitted'
    BY ONLY Zenon, <1>1, <1>2 DEF DeliveryInv, DeliveredToAll, OnlyCommitted
<1>10. \A e \in Events \ excused, s \in Subscribers : Once(e, s)'
    BY ONLY <1>1, <1>2 DEF DeliveryInv, Once, Past
<1> QED
    BY ONLY Zenon, <1>1, <1>2, <1>3, <1>6, <1>8, <1>9, <1>10 DEF IInv, DeliveryInv

\* register_default_subscribers and the start of the relay.
LEMMA StartupKeeps ==
    ASSUME IInv, NEW r \in Relays, Startup(r)
    PROVE  IInv'
PROOF
<1>1. batch[r] = <<>>
    BY Zenon DEF Startup, IInv, RelayInv, OneRelay
<1>2. /\ proc' = [proc EXCEPT ![r] = "relaying"] /\ bus' = [bus EXCEPT ![r] = Subscribers]
      /\ UNCHANGED <<rowVars, relayVars, got, excused, faults>>
    BY Zenon DEF Startup
<1> QED
    BY <1>1, <1>2, ProcessKeeps, Zenon DEF IInv, RelayInv

\* event_bus.clear.
LEMMA ClearBusKeeps ==
    ASSUME IInv, NEW r \in Relays, ClearBus(r)
    PROVE  IInv'
PROOF
<1>1. batch[r] = <<>>
    BY Zenon DEF ClearBus, IInv, RelayInv, OneRelay
<1>2. /\ proc' = [proc EXCEPT ![r] = "down"] /\ bus' = [bus EXCEPT ![r] = {}]
      /\ UNCHANGED <<rowVars, relayVars, got, excused, faults>>
    BY Zenon DEF ClearBus
<1> QED
    BY <1>1, <1>2, ProcessKeeps, Zenon DEF IInv, RelayInv

-----------------------------------------------------------------------------

\* The invariant holds at first: no rows, no process.
LEMMA InitIInv == Init => IInv
PROOF
<1> SUFFICES ASSUME Init PROVE IInv
    BY Zenon
<1>1. Range(ready) = {} /\ IsInjective(ready)
    BY DEF Init, Range, IsInjective
<1>2. RowsInv
    BY <1>1, RelayAssumption DEF Init, RowsInv
<1>3. RelayInv
  <2>1. \A r \in Relays : batch[r] = <<>> /\ verdicts[r] = <<>> /\ running[r] = {} /\ ~failed[r]
    BY Zenon DEF Init
  <2>2. \A r \in Relays : Range(batch[r]) = {} /\ IsInjective(batch[r])
    BY ONLY <2>1 DEF Range, IsInjective
  <2>3. \A r \in Relays : OneRelay(r)
    BY <2>1, <2>2, RelayAssumption DEF Init, OneRelay
  <2> QED
    BY <2>2, <2>3 DEF Init, RelayInv
<1>4. DeliveryInv
  <2>1. \A r \in Relays : Len(verdicts[r]) = 0 /\ ~Dispatching(r)
    BY Zenon DEF Init, Dispatching
  <2>2. \A r \in Relays : Achieved(r)
    BY ONLY <2>1 DEF Achieved
  <2> QED
    BY <2>2, FaultAssumption, WantsAssumption
       DEF Init, DeliveryInv, DeliveredToAll, OnlyCommitted, Once
<1> QED
    BY ONLY Zenon, <1>2, <1>3, <1>4 DEF IInv

\* Every step keeps the invariant.
LEMMA NextIInv == IInv /\ [Next]_vars => IInv'
PROOF
<1> SUFFICES ASSUME IInv, [Next]_vars PROVE IInv'
    BY Zenon
<1>1. CASE Tick
    BY Zenon, <1>1, TickKeeps
<1>2. ASSUME NEW e \in Events, Publish(e) \/ EndRequest(e) PROVE IInv'
    BY Zenon, <1>2, PublishKeeps, EndRequestKeeps
<1>3. ASSUME NEW r \in Relays, Startup(r) \/ StopRelay(r) \/ ClearBus(r) \/ Crash(r)
      PROVE  IInv'
    BY Zenon, <1>3, StartupKeeps, StopRelayKeeps, ClearBusKeeps, CrashKeeps
<1>4. ASSUME NEW r \in Relays, Claim(r) \/ CommitBatch(r) \/ BatchFails(r) PROVE IInv'
    BY Zenon, <1>4, ClaimKeeps, CommitBatchKeeps, BatchFailsKeeps
<1>5. ASSUME NEW r \in Relays, DispatchStep(r) PROVE IInv'
    BY Zenon, <1>5, ConcludeKeeps, DispatchTimesOutKeeps, SubscriberEndsKeeps DEF DispatchStep
<1>6. ASSUME NEW r \in Relays, NEW s \in Subscribers, SubscriberFails(r, s) PROVE IInv'
    BY Zenon, <1>6, SubscriberFailsKeeps
<1>7. CASE UNCHANGED vars
  <2>1. /\ row' = row /\ wait' = wait /\ ready' = ready /\ proc' = proc /\ bus' = bus
        /\ UNCHANGED <<procVars, relayVars, got, excused, faults>>
    BY ONLY Zenon, <1>7 DEF vars, rowVars, procVars
  <2>2. RowsInv /\ RelayInv /\ DeliveryInv
    BY Zenon DEF IInv
  <2>3. RowsInv'
    BY ONLY Zenon, <2>1, <2>2 DEF RowsInv
  <2>4. RelayInv'
    BY ONLY Zenon, <2>1, <2>2, RelaysUntouched
  <2>5. DeliveryInv'
    BY ONLY Zenon, <2>1, <2>2, DeliveriesUntouched
  <2> QED
    BY ONLY Zenon, <2>3, <2>4, <2>5 DEF IInv
<1> QED
    BY Zenon, <1>1, <1>2, <1>3, <1>4, <1>5, <1>6, <1>7 DEF Next

\* The inductive invariant holds throughout.
THEOREM Invariance == Spec => []IInv
PROOF
    BY InitIInv, NextIInv, PTL DEF Spec

\* The list of available rows holds each committed row that is due exactly once,
\* whatever relays claim, delete and reschedule, and no batch outgrows its limit.
THEOREM TypeCorrect == Spec => []TypeOK
PROOF
<1>1. IInv => TypeOK
  <2> SUFFICES ASSUME IInv PROVE TypeOK
    BY Zenon
  <2>1. RowsInv /\ RelayInv /\ DeliveryInv
    BY Zenon DEF IInv
  <2>2. ASSUME NEW r \in Relays
        PROVE  /\ Range(batch[r]) \subseteq Events /\ Len(batch[r]) <= BatchSize
               /\ Range(verdicts[r]) \subseteq {"complete", "fail"}
               /\ Len(verdicts[r]) <= Len(batch[r])
               /\ seen[r] \subseteq Events /\ running[r] \subseteq bus[r]
    <3>1. Range(batch[r]) \subseteq Events /\ verdicts[r] \in Seq({"complete", "fail"})
        BY ONLY Zenon, <2>1, RelayTypes
    <3>2. Range(verdicts[r]) \subseteq {"complete", "fail"}
        BY ONLY <3>1 DEF Range
    <3>3. running[r] \subseteq bus[r]
        BY ONLY <2>1, Zenon DEF RelayInv, OneRelay, Dispatched
    <3> QED
        BY ONLY Zenon, <2>1, <3>1, <3>2, <3>3 DEF RelayInv, OneRelay
  <2> QED
    BY ONLY Zenon, <2>1, <2>2 DEF TypeOK, RowsInv, RelayInv, DeliveryInv
<1> QED
    BY <1>1, Invariance, PTL

\* complete deletes a row only after every subscriber of its event has handled it,
\* whatever failed, timed out, crashed or was shut down meanwhile.
THEOREM DeletedAfterDelivery == Spec => []DeliveredToAll
PROOF
<1>1. IInv => DeliveredToAll
    BY Zenon DEF IInv, DeliveryInv
<1> QED
    BY <1>1, Invariance, PTL

\* The claim never hands a subscriber an event whose transaction is open or rolled back.
THEOREM NothingUncommittedIsSeen == Spec => []OnlyCommitted
PROOF
<1>1. IInv => OnlyCommitted
    BY Zenon DEF IInv, DeliveryInv
<1> QED
    BY <1>1, Invariance, PTL

\* However many relays drain the table side by side, a subscriber handles an event twice
\* only after a delivery of it failed or a batch that held it was interrupted.
THEOREM RepeatsHaveACause == Spec => []RepeatsAreExplained
PROOF
<1>1. IInv => RepeatsAreExplained
  <2> SUFFICES ASSUME IInv, NEW e \in Events, NEW s \in Subscribers, got[e][s] > 1,
                      e \notin excused
               PROVE  FALSE
    BY Zenon DEF RepeatsAreExplained
  <2> QED
    BY DEF IInv, DeliveryInv, Once
<1> QED
    BY <1>1, Invariance, PTL
=============================================================================
