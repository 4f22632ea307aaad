--------------------------- MODULE TransportProofs ---------------------------
(***************************************************************************)
(* A compartment conserves its slots and implements FifoSemaphore, alone and *)
(* inside ResilientTransport, whose other invariants are proved here too: for *)
(* any number of tasks and any configuration the three __post_init__ methods *)
(* accept.                                                                  *)
(*                                                                         *)
(* SlotsConserved is not inductive alone: a slot is handed on rather than    *)
(* lost because the deque holds every waiting task, once, and otherwise only *)
(* cancelled ones.  In the transport it is, besides, that at every await the *)
(* request's place says which slot and which call it has, and that the loop  *)
(* goes on only with a request it may send again.                            *)
(***************************************************************************)
EXTENDS SequenceTheorems, FiniteSetTheorems, TLAPS, ResilientTransport

\* The deque holds every waiting task, once, and otherwise only cancelled ones.
QueueConsistent ==
    /\ \A i, j \in DOMAIN waiters : waiters[i] = waiters[j] => i = j
    /\ \A i \in DOMAIN waiters : slot[waiters[i]] \in {"waiting", "cancelled"}
    /\ \A t \in Tasks : slot[t] = "waiting" => \E i \in DOMAIN waiters : waiters[i] = t

BulkheadInv == BulkheadTypeOK /\ QueueConsistent /\ SlotsConserved

-----------------------------------------------------------------------------
(* Sequences and sets.                                                     *)

\* A set of positions that is not empty has a first one.
LEMMA FirstPosition ==
    ASSUME NEW S \in SUBSET Nat, S # {}
    PROVE  \E i \in S : \A j \in S : i <= j
  <1> DEFINE Less == {p \in Nat \X Nat : p[1] < p[2]}
  <1>1. IsWellFoundedOn(Less, Nat)
    BY ONLY NatLessThanWellFounded, Zenon DEF OpToRel
  <1> HIDE DEF Less
  <1>2. PICK i \in S : \A j \in S : ~(<<j, i>> \in Less)
    BY Zenon, <1>1, WFMin
  <1>3. ASSUME NEW j \in S  PROVE i <= j
    <2>1. <<j, i>> \in Nat \X Nat /\ <<j, i>>[1] = j /\ <<j, i>>[2] = i
      BY Zenon
    <2>2. ~(j < i)
      BY Zenon, <1>2, <2>1 DEF Less
    <2> QED BY <2>2
  <1> QED BY Zenon, <1>3

\* What is left of a sequence when its first i elements are gone.
LEMMA Dropped ==
    ASSUME NEW S, NEW s \in Seq(S), NEW i \in 1..Len(s), NEW r,
           r = SubSeq(s, i + 1, Len(s))
    PROVE  /\ r \in Seq(S) /\ Len(r) = Len(s) - i /\ DOMAIN r = 1..Len(r)
           /\ \A k \in 1..Len(r) : r[k] = s[k + i]
  <1>1. /\ SubSeq(s, i + 1, Len(s)) \in Seq(S)
        /\ Len(SubSeq(s, i + 1, Len(s))) = IF i + 1 <= Len(s) THEN Len(s) - (i + 1) + 1 ELSE 0
        /\ \A k \in 1..(Len(s) - (i + 1) + 1) : SubSeq(s, i + 1, Len(s))[k] = s[i + 1 + k - 1]
    <2>1. i + 1 \in Int /\ Len(s) \in Int /\ \A k \in (i + 1)..Len(s) : s[k] \in S
      OBVIOUS
    <2> QED BY ONLY <2>1, SubSeqProperties
  <1>2. Len(r) = Len(s) - i
    BY <1>1
  <1> QED BY <1>1, <1>2

\* What is left of a sequence when its i-th element is gone.
LEMMA Removed ==
    ASSUME NEW S, NEW s \in Seq(S), NEW i \in 1..Len(s), NEW r,
           r = SubSeq(s, 1, i - 1) \o SubSeq(s, i + 1, Len(s))
    PROVE  /\ r \in Seq(S) /\ Len(r) = Len(s) - 1 /\ DOMAIN r = 1..Len(r)
           /\ \A k \in 1..Len(r) : r[k] = IF k < i THEN s[k] ELSE s[k + 1]
  <1> DEFINE a == SubSeq(s, 1, i - 1)
             b == SubSeq(s, i + 1, Len(s))
  <1>1. /\ a \in Seq(S) /\ Len(a) = i - 1
        /\ \A k \in 1..(i - 1) : a[k] = s[k]
    <2>1. 1 \in Int /\ i - 1 \in Int /\ \A k \in 1..(i - 1) : s[k] \in S
      OBVIOUS
    <2>2. /\ a \in Seq(S)
          /\ Len(a) = IF 1 <= i - 1 THEN i - 1 - 1 + 1 ELSE 0
          /\ \A k \in 1..(i - 1 - 1 + 1) : a[k] = s[1 + k - 1]
      BY ONLY <2>1, SubSeqProperties
    <2> QED BY <2>2
  <1>2. /\ b \in Seq(S) /\ Len(b) = Len(s) - i
        /\ \A k \in 1..Len(b) : b[k] = s[k + i]
    BY Dropped
  <1> HIDE DEF a, b
  <1>3. r = a \o b
    BY Zenon DEF a, b
  <1>4. /\ a \o b \in Seq(S) /\ Len(a \o b) = Len(a) + Len(b)
        /\ \A k \in 1..(Len(a) + Len(b)) :
              (a \o b)[k] = IF k <= Len(a) THEN a[k] ELSE b[k - Len(a)]
    BY ONLY Zenon, <1>1, <1>2, ConcatProperties
  <1>5. /\ r \in Seq(S) /\ Len(r) = Len(s) - 1
        /\ \A k \in 1..Len(r) : r[k] = IF k < i THEN a[k] ELSE b[k - (i - 1)]
    <2>1. Len(s) \in Nat /\ i \in 1..Len(s)
      OBVIOUS
    <2> QED BY ONLY <1>1, <1>2, <1>3, <1>4, <2>1
  <1>6. ASSUME NEW k \in 1..Len(r)  PROVE r[k] = IF k < i THEN s[k] ELSE s[k + 1]
    <2>1. Len(s) \in Nat /\ i \in 1..Len(s)
      OBVIOUS
    <2>2. CASE k < i
      BY ONLY <1>1, <1>5, <1>6, <2>1, <2>2
    <2>3. CASE ~(k < i)
      <3>1. k - (i - 1) \in 1..Len(b) /\ k - (i - 1) + i = k + 1
        BY ONLY <1>2, <1>5, <1>6, <2>1, <2>3
      <3>2. b[k - (i - 1)] = s[k + 1]
        BY ONLY Zenon, <1>2, <3>1
      <3> QED BY ONLY Zenon, <1>5, <1>6, <2>3, <3>2
    <2> QED BY Zenon, <2>2, <2>3
  <1>7. DOMAIN r = 1..Len(r)
    BY ONLY <1>5
  <1> QED BY ONLY Zenon, <1>5, <1>6, <1>7

-----------------------------------------------------------------------------
(* The compartment.                                                        *)

\* Who holds a slot is a finite set, as is every set of tasks.
LEMMA TaskSets ==
    ASSUME NEW S \in SUBSET Tasks
    PROVE  IsFiniteSet(S) /\ Cardinality(S) \in Nat
  BY Zenon, TasksFinite, FS_Subset, FS_CardinalityType

\* One task more is one more, one task less is one less.
LEMMA OneMore ==
    ASSUME NEW S \in SUBSET Tasks, NEW t \in Tasks
    PROVE  /\ t \notin S => Cardinality(S \cup {t}) = Cardinality(S) + 1
           /\ t \in S => Cardinality(S \ {t}) = Cardinality(S) - 1
  BY Zenon, TaskSets, FS_AddElement, FS_RemoveElement

USE TasksFinite, LimitAssumption, QueueAssumption

\* The fast path counts the caller it lets in.
LEMMA TakeSlotKeeps ==
    ASSUME BulkheadInv, NEW t \in Tasks, TakeSlot(t)
    PROVE  BulkheadInv'
  <1> USE DEF BulkheadInv
  <1>1. BulkheadTypeOK'
    BY DEF TakeSlot, HasRoom, BulkheadTypeOK, SlotStates
  <1>2. QueueConsistent'
    BY DEF TakeSlot, HasRoom, QueueConsistent, BulkheadTypeOK
  <1>3. SlotsConserved'
    <2>1. t \notin Holders /\ Holders' = Holders \cup {t}
      BY Zenon DEF TakeSlot, Holders, BulkheadTypeOK
    <2>2. Cardinality(Holders') = Cardinality(Holders) + 1
      BY Zenon, <2>1, OneMore DEF Holders
    <2> QED BY Zenon, <2>2 DEF TakeSlot, HasRoom, SlotsConserved
  <1> QED BY Zenon, <1>1, <1>2, <1>3

\* A caller queues only behind a full compartment.
LEMMA JoinQueueKeeps ==
    ASSUME BulkheadInv, NEW t \in Tasks, JoinQueue(t)
    PROVE  BulkheadInv'
  <1> USE DEF BulkheadInv
  <1>1. BulkheadTypeOK'
    BY DEF JoinQueue, BulkheadTypeOK, SlotStates
  <1>2. QueueConsistent'
    BY DEF JoinQueue, QueueConsistent, BulkheadTypeOK
  <1>3. SlotsConserved'
    <2>1. Holders' = Holders
      BY Zenon DEF JoinQueue, Holders, BulkheadTypeOK
    <2> QED BY <2>1 DEF JoinQueue, HasRoom, SlotsConserved, BulkheadTypeOK
  <1> QED BY Zenon, <1>1, <1>2, <1>3

\* If release finds nobody to serve, nobody waits.
LEMMA NobodyWaits ==
    ASSUME BulkheadTypeOK, QueueConsistent, NextServed = {} \/ waiters = <<>>
    PROVE  Waiting = {} /\ Ahead = {}
  <1>1. ASSUME NEW u \in Waiting  PROVE FALSE
    <2> DEFINE pending == {i \in DOMAIN waiters : slot[waiters[i]] = "waiting"}
    <2>1. pending # {} /\ pending \in SUBSET Nat
      BY DEF QueueConsistent, BulkheadTypeOK, Waiting
    <2>2. PICK i \in pending : \A j \in pending : i <= j
      BY ONLY Zenon, <2>1, FirstPosition
    <2>3. i \in NextServed /\ waiters # <<>>
      BY <2>2 DEF NextServed, BulkheadTypeOK
    <2> QED BY Zenon, <2>3
  <1> QED BY Zenon, <1>1 DEF Ahead

\* A slot given up goes to the head of the queue or back to the pool, whole.
LEMMA ReleaseSlotKeeps ==
    ASSUME BulkheadInv, NEW t \in Tasks, slot[t] \in {"held", "handed"}, ReleaseSlot(t)
    PROVE  BulkheadInv'
  <1> USE DEF BulkheadInv
  <1>1. ASSUME NEW i \in NextServed,
               waiters' = SubSeq(waiters, i + 1, Len(waiters)),
               slot' = [slot EXCEPT ![t] = "none", ![waiters[i]] = "handed"],
               UNCHANGED <<inFlight, overridden>>
        PROVE  BulkheadInv'
    <2>1. i \in 1..Len(waiters) /\ waiters[i] \in Tasks /\ slot[waiters[i]] = "waiting"
      BY DEF NextServed, BulkheadTypeOK
    <2>2. /\ Len(waiters') = Len(waiters) - i /\ waiters' \in Seq(Tasks)
          /\ DOMAIN waiters' = 1..Len(waiters')
          /\ \A k \in 1..Len(waiters') : waiters'[k] = waiters[k + i]
      BY <1>1, <2>1, Dropped DEF BulkheadTypeOK
    <2>3. waiters[i] # t /\ slot'[t] = "none" /\ slot'[waiters[i]] = "handed"
          /\ \A u \in Tasks \ {t, waiters[i]} : slot'[u] = slot[u]
      BY Zenon, <1>1, <2>1 DEF BulkheadTypeOK
    <2>4. BulkheadTypeOK'
      BY <1>1, <2>1, <2>2 DEF BulkheadTypeOK, SlotStates
    <2>5. QueueConsistent'
      <3>0. /\ DOMAIN waiters = 1..Len(waiters) /\ Len(waiters) \in Nat
            /\ \A k \in 1..Len(waiters') : k + i \in 1..Len(waiters) /\ k + i # i
        BY <2>1, <2>2 DEF BulkheadTypeOK
      <3>1. ASSUME NEW j \in DOMAIN waiters', NEW k \in DOMAIN waiters',
                   waiters'[j] = waiters'[k]
            PROVE  j = k
        <4>1. waiters[j + i] = waiters[k + i] /\ j + i \in DOMAIN waiters
              /\ k + i \in DOMAIN waiters
          BY Zenon, <2>2, <3>0, <3>1
        <4>2. j + i = k + i
          BY Zenon, <4>1 DEF QueueConsistent
        <4> QED BY <2>1, <2>2, <4>2
      <3>2. ASSUME NEW k \in DOMAIN waiters'
            PROVE  slot'[waiters'[k]] \in {"waiting", "cancelled"}
        <4>1. waiters'[k] = waiters[k + i] /\ k + i \in DOMAIN waiters /\ k + i # i
          BY Zenon, <2>2, <3>0, <3>2
        <4>2. slot[waiters[k + i]] \in {"waiting", "cancelled"} /\ waiters[k + i] \in Tasks
              /\ waiters[k + i] # waiters[i]
          BY <2>1, <3>0, <4>1 DEF QueueConsistent, BulkheadTypeOK
        <4> QED BY Zenon, <2>3, <4>1, <4>2
      <3>3. ASSUME NEW u \in Tasks, slot'[u] = "waiting"
            PROVE  \E k \in DOMAIN waiters' : waiters'[k] = u
        <4>1. slot[u] = "waiting" /\ u # waiters[i]
          BY Zenon, <2>3, <3>3
        <4>2. PICK j \in 1..Len(waiters) : waiters[j] = u
          BY <4>1 DEF QueueConsistent, BulkheadTypeOK
        <4>3. j > i
          <5>1. \A k \in 1..(i - 1) : slot[waiters[k]] # "waiting"
            BY Zenon, <1>1 DEF NextServed
          <5>2. j \notin 1..(i - 1) /\ j # i
            BY Zenon, <4>1, <4>2, <5>1
          <5> QED BY <2>1, <4>2, <5>2
        <4>a. j - i \in 1..Len(waiters') /\ (j - i) + i = j
          BY ONLY <2>1, <2>2, <3>0, <4>2, <4>3
        <4>4. j - i \in 1..Len(waiters') /\ waiters'[j - i] = u
          BY Zenon, <2>2, <4>2, <4>a
        <4> QED BY Zenon, <2>2, <4>4
      <3> QED BY Zenon, <3>1, <3>2, <3>3 DEF QueueConsistent
    <2>6. SlotsConserved'
      <3>1. t \in Holders /\ waiters[i] \notin Holders \ {t}
            /\ Holders' = (Holders \ {t}) \cup {waiters[i]}
        BY Zenon, <2>1, <2>3 DEF Holders
      <3>2. Cardinality(Holders') = Cardinality(Holders)
        <4>1. Cardinality(Holders \ {t}) = Cardinality(Holders) - 1
          BY Zenon, <3>1, OneMore DEF Holders
        <4>2. Cardinality((Holders \ {t}) \cup {waiters[i]}) = Cardinality(Holders \ {t}) + 1
          BY Zenon, <2>1, <3>1, OneMore DEF Holders
        <4>3. Cardinality(Holders) \in Nat
          BY Zenon, TaskSets DEF Holders
        <4> QED BY <3>1, <4>1, <4>2, <4>3
      <3>3. waiters # <<>>
        BY <2>1
      <3> QED BY Zenon, <1>1, <3>2, <3>3 DEF SlotsConserved
    <2> QED BY Zenon, <2>4, <2>5, <2>6
  <1>2. ASSUME NextServed = {}, waiters' = <<>>, slot' = [slot EXCEPT ![t] = "none"],
               inFlight' = IF inFlight > 0 THEN inFlight - 1 ELSE 0,
               UNCHANGED overridden
        PROVE  BulkheadInv'
    <2>1. BulkheadTypeOK'
      BY <1>2 DEF BulkheadTypeOK, SlotStates
    <2>2. Waiting = {}
      BY Zenon, <1>2, NobodyWaits
    <2>3. QueueConsistent'
      BY <1>2, <2>2 DEF QueueConsistent, BulkheadTypeOK, Waiting
    <2>4. SlotsConserved'
      <3>1. t \in Holders /\ Holders' = Holders \ {t}
        BY Zenon, <1>2 DEF Holders, BulkheadTypeOK
      <3>2. Cardinality(Holders') = Cardinality(Holders) - 1 /\ Cardinality(Holders) \in Nat
        BY Zenon, <3>1, OneMore, TaskSets DEF Holders
      <3>3. Cardinality(Holders') \in Nat
        BY Zenon, TaskSets DEF Holders
      <3> QED BY <1>2, <3>2, <3>3 DEF SlotsConserved
    <2> QED BY Zenon, <2>1, <2>3, <2>4
  <1> QED BY Zenon, <1>1, <1>2 DEF ReleaseSlot

\* A task resumes with its slot.
LEMMA TakeHandedKeeps ==
    ASSUME BulkheadInv, NEW t \in Tasks, TakeHanded(t)
    PROVE  BulkheadInv'
  <1> USE DEF BulkheadInv
  <1>1. BulkheadTypeOK'
    BY Zenon DEF TakeHanded, BulkheadTypeOK, SlotStates
  <1>2. QueueConsistent'
    BY DEF TakeHanded, QueueConsistent, BulkheadTypeOK
  <1>3. Holders' = Holders
    BY Zenon DEF TakeHanded, Holders, BulkheadTypeOK
  <1> QED BY Zenon, <1>1, <1>2, <1>3 DEF TakeHanded, SlotsConserved

\* A cancelled wait leaves its future in the deque.
LEMMA CancelWaitKeeps ==
    ASSUME BulkheadInv, NEW t \in Tasks, CancelWait(t)
    PROVE  BulkheadInv'
  <1> USE DEF BulkheadInv
  <1>1. BulkheadTypeOK'
    BY Zenon DEF CancelWait, BulkheadTypeOK, SlotStates
  <1>2. QueueConsistent'
    BY DEF CancelWait, QueueConsistent, BulkheadTypeOK
  <1>3. Holders' = Holders
    BY Zenon DEF CancelWait, Holders, BulkheadTypeOK
  <1> QED BY Zenon, <1>1, <1>2, <1>3 DEF CancelWait, SlotsConserved

\* What deque.remove leaves: the others, in their order.
LEMMA DiscardRemoves ==
    ASSUME BulkheadTypeOK, QueueConsistent, NEW t \in Tasks, Discard(t)
    PROVE  /\ waiters' \in Seq(Tasks) /\ Len(waiters') <= Len(waiters)
           /\ DOMAIN waiters' = 1..Len(waiters')
           /\ \A i \in DOMAIN waiters' : waiters'[i] # t
           /\ \A i \in DOMAIN waiters' : \E j \in DOMAIN waiters : waiters'[i] = waiters[j]
           /\ \A i, j \in DOMAIN waiters' :
                 i < j => \E k, m \in DOMAIN waiters :
                             /\ k < m /\ waiters'[i] = waiters[k] /\ waiters'[j] = waiters[m]
           /\ \A i, j \in DOMAIN waiters' : waiters'[i] = waiters'[j] => i = j
           /\ \A k, m \in DOMAIN waiters :
                 k < m /\ waiters[k] # t /\ waiters[m] # t =>
                     \E i, j \in DOMAIN waiters' :
                         i < j /\ waiters'[i] = waiters[k] /\ waiters'[j] = waiters[m]
           /\ \A k \in DOMAIN waiters :
                 waiters[k] # t => \E i \in DOMAIN waiters' : waiters'[i] = waiters[k]
  <1>0. waiters \in Seq(Tasks) /\ Len(waiters) \in Nat /\ DOMAIN waiters = 1..Len(waiters)
    BY DEF BulkheadTypeOK
  <1>00. \A i, j \in DOMAIN waiters : waiters[i] = waiters[j] => i = j
    BY Zenon DEF QueueConsistent
  <1>1. CASE (\A i \in DOMAIN waiters : waiters[i] # t) /\ waiters' = waiters
    BY <1>0, <1>1 DEF QueueConsistent
  <1>2. ASSUME NEW r \in DOMAIN waiters, waiters[r] = t,
               waiters' = SubSeq(waiters, 1, r - 1) \o SubSeq(waiters, r + 1, Len(waiters))
        PROVE  /\ waiters' \in Seq(Tasks) /\ Len(waiters') = Len(waiters) - 1
               /\ DOMAIN waiters' = 1..Len(waiters')
               /\ \A k \in 1..Len(waiters') :
                     waiters'[k] = IF k < r THEN waiters[k] ELSE waiters[k + 1]
    <2>1. r \in 1..Len(waiters)
      BY Zenon, <1>0, <1>2
    <2> QED BY ONLY <1>0, <1>2, <2>1, Removed, Zenon
  <1>3. ASSUME NEW r \in DOMAIN waiters, waiters[r] = t,
               waiters' = SubSeq(waiters, 1, r - 1) \o SubSeq(waiters, r + 1, Len(waiters))
        PROVE  /\ \A k \in DOMAIN waiters' : waiters'[k] # t
               /\ \A i \in DOMAIN waiters' : \E j \in DOMAIN waiters : waiters'[i] = waiters[j]
               /\ \A i, j \in DOMAIN waiters' : waiters'[i] = waiters'[j] => i = j
               /\ \A i, j \in DOMAIN waiters' :
                     i < j => \E k, m \in DOMAIN waiters :
                                 /\ k < m /\ waiters'[i] = waiters[k] /\ waiters'[j] = waiters[m]
               /\ \A k, m \in DOMAIN waiters :
                     k < m /\ waiters[k] # t /\ waiters[m] # t =>
                         \E i, j \in DOMAIN waiters' :
                             i < j /\ waiters'[i] = waiters[k] /\ waiters'[j] = waiters[m]
               /\ \A k \in DOMAIN waiters :
                     waiters[k] # t => \E i \in DOMAIN waiters' : waiters'[i] = waiters[k]
    <2> DEFINE was(k) == IF k < r THEN k ELSE k + 1
               is(k) == IF k < r THEN k ELSE k - 1
    <2>1. /\ waiters' \in Seq(Tasks) /\ Len(waiters') = Len(waiters) - 1
          /\ DOMAIN waiters' = 1..Len(waiters')
          /\ \A k \in 1..Len(waiters') : waiters'[k] = waiters[was(k)]
      BY <1>2, <1>3, Zenon
    <2>2. /\ \A k \in 1..Len(waiters') : was(k) \in 1..Len(waiters) /\ was(k) # r
          /\ \A k \in 1..Len(waiters) : k # r => is(k) \in 1..Len(waiters') /\ was(is(k)) = k
          /\ \A i, j \in 1..Len(waiters') : (i < j <=> was(i) < was(j)) /\ (was(i) = was(j) => i = j)
          /\ \A k, m \in 1..Len(waiters) : k # r /\ m # r /\ k < m => is(k) < is(m)
      <3>1. r \in 1..Len(waiters)
        BY Zenon, <1>0, <1>3
      <3>2. \A k \in 1..Len(waiters') : was(k) \in 1..Len(waiters) /\ was(k) # r
        BY ONLY <1>0, <2>1, <3>1
      <3>3. \A k \in 1..Len(waiters) : k # r => is(k) \in 1..Len(waiters') /\ was(is(k)) = k
        BY ONLY <1>0, <2>1, <3>1
      <3>4. \A i, j \in 1..Len(waiters') : (i < j <=> was(i) < was(j)) /\ (was(i) = was(j) => i = j)
        BY ONLY <1>0, <2>1, <3>1
      <3>5. \A k, m \in 1..Len(waiters) : k # r /\ m # r /\ k < m => is(k) < is(m)
        BY ONLY <1>0, <3>1
      <3> QED BY ONLY Zenon, <3>2, <3>3, <3>4, <3>5
    <2>3. \A k \in DOMAIN waiters : (waiters[k] = t) <=> (k = r)
      BY Zenon, <1>3 DEF QueueConsistent
    <2> HIDE DEF was, is
    <2>4. \A k \in DOMAIN waiters' : waiters'[k] # t
      BY ONLY <1>0, <2>1, <2>2, <2>3, Zenon
    <2>5. \A i \in DOMAIN waiters' : \E j \in DOMAIN waiters : waiters'[i] = waiters[j]
      BY ONLY Zenon, <1>0, <2>1, <2>2
    <2>6. \A i, j \in DOMAIN waiters' : waiters'[i] = waiters'[j] => i = j
      BY ONLY <1>00, <1>0, <2>1, <2>2, Zenon
    <2>7. \A i, j \in DOMAIN waiters' :
             i < j => \E k, m \in DOMAIN waiters :
                         /\ k < m /\ waiters'[i] = waiters[k] /\ waiters'[j] = waiters[m]
      BY ONLY <1>0, <2>1, <2>2
    <2>8. ASSUME NEW k \in DOMAIN waiters, NEW m \in DOMAIN waiters,
                 k < m, waiters[k] # t, waiters[m] # t
          PROVE  \E i, j \in DOMAIN waiters' :
                    i < j /\ waiters'[i] = waiters[k] /\ waiters'[j] = waiters[m]
      <3>1. /\ is(k) \in DOMAIN waiters' /\ is(m) \in DOMAIN waiters' /\ is(k) < is(m)
            /\ was(is(k)) = k /\ was(is(m)) = m
        BY ONLY Zenon, <1>0, <2>1, <2>2, <2>3, <2>8
      <3>2. waiters'[is(k)] = waiters[k] /\ waiters'[is(m)] = waiters[m]
        BY ONLY Zenon, <2>1, <3>1
      <3> QED BY Zenon, <3>1, <3>2
    <2>9. ASSUME NEW k \in DOMAIN waiters, waiters[k] # t
          PROVE  \E i \in DOMAIN waiters' : waiters'[i] = waiters[k]
      <3>1. is(k) \in DOMAIN waiters' /\ was(is(k)) = k
        BY ONLY Zenon, <1>0, <2>1, <2>2, <2>3, <2>9
      <3>2. waiters'[is(k)] = waiters[k]
        BY ONLY Zenon, <2>1, <3>1
      <3> QED BY Zenon, <3>1, <3>2
    <2> QED BY Zenon, <2>4, <2>5, <2>6, <2>7, <2>8, <2>9
  <1>4. CASE \E r \in DOMAIN waiters :
                /\ waiters[r] = t
                /\ waiters' = SubSeq(waiters, 1, r - 1) \o SubSeq(waiters, r + 1, Len(waiters))
    <2>1. PICK r \in DOMAIN waiters :
             /\ waiters[r] = t
             /\ waiters' = SubSeq(waiters, 1, r - 1) \o SubSeq(waiters, r + 1, Len(waiters))
      BY <1>4, Zenon
    <2>2. /\ waiters' \in Seq(Tasks) /\ Len(waiters') = Len(waiters) - 1
          /\ DOMAIN waiters' = 1..Len(waiters')
      BY Zenon, <1>2, <2>1
    <2>3. Len(waiters') <= Len(waiters)
      BY ONLY <1>0, <2>2
    <2> QED BY <1>3, <2>1, <2>2, <2>3, Zenon
  <1> QED BY <1>1, <1>4, Zenon DEF Discard

\* A task that gave up waiting takes only itself out of the deque.
LEMMA LeaveQueueKeeps ==
    ASSUME BulkheadInv, NEW t \in Tasks, LeaveQueue(t)
    PROVE  BulkheadInv'
  <1> USE DEF BulkheadInv
  <1>1. Discard(t) /\ slot[t] \in {"cancelled", "failed"} /\ UNCHANGED <<inFlight, overridden>>
        /\ slot' = [slot EXCEPT ![t] = "none"]
    BY Zenon DEF LeaveQueue
  <1>2. /\ waiters' \in Seq(Tasks) /\ Len(waiters') <= Len(waiters)
        /\ DOMAIN waiters' = 1..Len(waiters')
        /\ \A i \in DOMAIN waiters' : waiters'[i] # t
        /\ \A i \in DOMAIN waiters' : \E j \in DOMAIN waiters : waiters'[i] = waiters[j]
        /\ \A i, j \in DOMAIN waiters' : waiters'[i] = waiters'[j] => i = j
        /\ \A k \in DOMAIN waiters :
              waiters[k] # t => \E i \in DOMAIN waiters' : waiters'[i] = waiters[k]
    BY Zenon, <1>1, DiscardRemoves
  <1>3. BulkheadTypeOK'
    BY <1>1, <1>2 DEF BulkheadTypeOK, SlotStates
  <1>4. QueueConsistent'
    <2>1. \A i \in DOMAIN waiters' : slot'[waiters'[i]] \in {"waiting", "cancelled"}
      BY <1>1, <1>2 DEF QueueConsistent, BulkheadTypeOK
    <2>2. \A u \in Tasks : slot'[u] = "waiting" => \E i \in DOMAIN waiters' : waiters'[i] = u
      BY <1>1, <1>2 DEF QueueConsistent, BulkheadTypeOK
    <2> QED BY Zenon, <1>2, <2>1, <2>2 DEF QueueConsistent
  <1>5. Holders' = Holders
    BY Zenon, <1>1 DEF Holders, BulkheadTypeOK
  <1>6. waiters' # <<>> => waiters # <<>>
    BY <1>2 DEF BulkheadTypeOK
  <1> QED BY Zenon, <1>1, <1>3, <1>4, <1>5, <1>6 DEF SlotsConserved

\* The operator's override empties the queue with the counter.
LEMMA ResetBulkheadKeeps ==
    ASSUME BulkheadInv, ResetBulkhead
    PROVE  BulkheadInv'
  <1> USE DEF BulkheadInv
  <1>1. BulkheadTypeOK'
    BY DEF ResetBulkhead, BulkheadTypeOK, SlotStates
  <1>2. QueueConsistent'
    BY DEF ResetBulkhead, QueueConsistent, BulkheadTypeOK
  <1>3. SlotsConserved'
    BY Zenon DEF ResetBulkhead, SlotsConserved
  <1> QED BY Zenon, <1>1, <1>2, <1>3

\* A new compartment.
LEMMA BulkheadStarts == BulkheadInit => BulkheadInv
  <1> SUFFICES ASSUME BulkheadInit  PROVE BulkheadInv
    BY Zenon
  <1>1. BulkheadTypeOK
    <2>1. waiters \in Seq(Tasks) /\ Len(waiters) = 0
      BY DEF BulkheadInit
    <2>2. slot \in [Tasks -> SlotStates]
      BY Zenon DEF BulkheadInit, SlotStates
    <2>3. overridden \in BOOLEAN
      BY Zenon DEF BulkheadInit
    <2>4. inFlight \in 0..Limit
      BY DEF BulkheadInit
    <2> QED BY <2>1, <2>2, <2>3, <2>4 DEF BulkheadTypeOK
  <1>2. QueueConsistent
    BY DEF BulkheadInit, QueueConsistent
  <1>3. Holders = {}
    BY Zenon DEF BulkheadInit, Holders
  <1>4. SlotsConserved
    BY Zenon, <1>3, FS_EmptySet DEF BulkheadInit, SlotsConserved
  <1> QED BY Zenon, <1>1, <1>2, <1>4 DEF BulkheadInv

\* Every operation keeps the invariant.
LEMMA BulkheadNextKeeps ==
    ASSUME BulkheadInv, [BulkheadNext]_bulkheadVars
    PROVE  BulkheadInv'
  <1>1. ASSUME NEW t \in Tasks, GiveSlotBack(t) \/ PassOn(t)  PROVE BulkheadInv'
    BY Zenon, <1>1, ReleaseSlotKeeps DEF GiveSlotBack, PassOn
  <1>2. CASE UNCHANGED bulkheadVars
    BY Zenon, <1>2 DEF BulkheadInv, BulkheadTypeOK, QueueConsistent, SlotsConserved, Holders, bulkheadVars
  <1> QED BY Zenon, <1>1, <1>2, TakeSlotKeeps, JoinQueueKeeps, TakeHandedKeeps, CancelWaitKeeps,
             LeaveQueueKeeps, ResetBulkheadKeeps DEF BulkheadNext

-----------------------------------------------------------------------------
(* A compartment is a first-come first-served semaphore.                   *)

\* FifoSemaphore counts as this module does.
LEMMA SameCardinality == \A S : Semaphore!Cardinality(S) = Cardinality(S)
  BY Zenon DEF Semaphore!Cardinality, Cardinality

\* There are no more waiting tasks than places in the deque.
LEMMA WaitingBounded ==
    ASSUME BulkheadTypeOK, QueueConsistent
    PROVE  Cardinality(Waiting) <= Len(waiters)
  <1> DEFINE place == [t \in Waiting |-> CHOOSE i \in DOMAIN waiters : waiters[i] = t]
  <1>1. Len(waiters) \in Nat /\ DOMAIN waiters = 1..Len(waiters)
    BY DEF BulkheadTypeOK
  <1>2. ASSUME NEW t \in Waiting
        PROVE  place[t] \in 1..Len(waiters) /\ waiters[place[t]] = t
    <2>1. \E i \in DOMAIN waiters : waiters[i] = t
      BY Zenon DEF QueueConsistent, Waiting
    <2> QED BY Zenon, <1>1, <2>1
  <1>3. place \in [Waiting -> 1..Len(waiters)]
    BY Zenon, <1>2
  <1>4. \A t, u \in Waiting : place[t] = place[u] => t = u
    BY <1>2
  <1> HIDE DEF place
  <1>5. place \in Injection(Waiting, 1..Len(waiters))
    BY Zenon, <1>3, <1>4 DEF Injection, IsInjective
  <1>6. IsFiniteSet(1..Len(waiters)) /\ Cardinality(1..Len(waiters)) = Len(waiters)
    <2>1. 1 \in Int /\ Len(waiters) \in Int
      BY <1>1
    <2>2. /\ IsFiniteSet(1..Len(waiters))
          /\ Cardinality(1..Len(waiters)) = IF 1 > Len(waiters) THEN 0 ELSE Len(waiters) - 1 + 1
      BY ONLY Zenon, <2>1, FS_Interval
    <2> QED BY <1>1, <2>2
  <1> QED BY <1>5, <1>6, FS_Injection

\* The fast path is Arrive.
LEMMA TakeSlotArrives ==
    ASSUME BulkheadInv, NEW t \in Tasks, TakeSlot(t), ~overridden
    PROVE  Semaphore!Arrive(t)
  <1> USE DEF BulkheadInv
  <1>1. t \notin Holders /\ Holders' = Holders \cup {t}
    BY Zenon DEF TakeSlot, Holders, BulkheadTypeOK
  <1>2. Cardinality(Holders) < Limit
    BY Zenon DEF TakeSlot, HasRoom, SlotsConserved
  <1>3. Waiting = {} /\ Ahead = {}
    BY Zenon, NobodyWaits DEF TakeSlot, HasRoom
  <1>4. BulkheadTypeOK' /\ QueueConsistent' /\ waiters' = <<>>
    BY Zenon, TakeSlotKeeps DEF TakeSlot, HasRoom
  <1>5. Waiting' = {} /\ Ahead' = {}
    <2>1. Waiting' = {}
      BY Zenon, <1>3 DEF TakeSlot, Waiting, BulkheadTypeOK
    <2> QED BY Zenon, <2>1 DEF Ahead
  <1> QED BY Zenon, <1>1, <1>2, <1>3, <1>5, SameCardinality DEF Semaphore!Arrive

\* Joining the queue is Wait.
LEMMA JoinQueueWaits ==
    ASSUME BulkheadInv, NEW t \in Tasks, JoinQueue(t), ~overridden
    PROVE  Semaphore!Wait(t)
  <1> USE DEF BulkheadInv
  <1>0. /\ waiters \in Seq(Tasks) /\ Len(waiters) \in Nat /\ DOMAIN waiters = 1..Len(waiters)
        /\ waiters' \in Seq(Tasks) /\ Len(waiters') = Len(waiters) + 1
        /\ DOMAIN waiters' = 1..Len(waiters') /\ waiters'[Len(waiters')] = t
        /\ \A i \in DOMAIN waiters : waiters'[i] = waiters[i]
    BY DEF JoinQueue, BulkheadTypeOK
  <1>1. t \notin Holders \cup Waiting /\ Holders' = Holders /\ Waiting' = Waiting \cup {t}
    BY Zenon DEF JoinQueue, Holders, Waiting, BulkheadTypeOK
  <1>2. Cardinality(Holders) = Limit
    BY DEF JoinQueue, HasRoom, SlotsConserved, BulkheadTypeOK
  <1>3. Cardinality(Waiting) < MaxQueue
    <2>1. Cardinality(Waiting) \in Nat
      BY Zenon, TaskSets DEF Waiting
    <2> QED BY <1>0, <2>1, WaitingBounded DEF JoinQueue
  <1>4. \A i \in DOMAIN waiters : waiters[i] # t
    BY Zenon DEF JoinQueue, QueueConsistent
  <1>5. Ahead' = Ahead \cup (Waiting \X {t})
    <2>1. ASSUME NEW a \in Waiting', NEW b \in Waiting', NEW i \in DOMAIN waiters',
                 NEW j \in DOMAIN waiters', i < j, waiters'[i] = a, waiters'[j] = b
          PROVE  <<a, b>> \in Ahead \cup (Waiting \X {t})
      <3>1. i \in DOMAIN waiters /\ waiters[i] = a /\ a # t /\ a \in Waiting
        BY <1>0, <1>1, <1>4, <2>1
      <3>2. CASE j \in DOMAIN waiters
        <4>1. waiters[j] = b /\ b # t /\ b \in Waiting
          BY Zenon, <1>0, <1>1, <1>4, <2>1, <3>2
        <4> QED BY Zenon, <2>1, <3>1, <3>2, <4>1 DEF Ahead
      <3>3. CASE j \notin DOMAIN waiters
        <4>1. b = t
          BY <1>0, <2>1, <3>3
        <4> QED BY Zenon, <3>1, <4>1
      <3> QED BY Zenon, <3>2, <3>3
    <2>2. ASSUME NEW p \in Ahead  PROVE p \in Ahead'
      <3>1. p \in Waiting \X Waiting /\ \E i, j \in DOMAIN waiters :
               i < j /\ waiters[i] = p[1] /\ waiters[j] = p[2]
        BY Zenon DEF Ahead
      <3>2. p \in Waiting' \X Waiting' /\ \E i, j \in DOMAIN waiters' :
               i < j /\ waiters'[i] = p[1] /\ waiters'[j] = p[2]
        BY <1>0, <1>1, <3>1
      <3> QED BY Zenon, <3>2 DEF Ahead
    <2>3. ASSUME NEW a \in Waiting  PROVE <<a, t>> \in Ahead'
      <3>1. PICK i \in DOMAIN waiters : waiters[i] = a
        BY Zenon DEF QueueConsistent, Waiting
      <3>2. i \in DOMAIN waiters' /\ Len(waiters') \in DOMAIN waiters' /\ i < Len(waiters')
            /\ waiters'[i] = a
        BY <1>0, <3>1
      <3>3. <<a, t>> \in Waiting' \X Waiting'
        BY Zenon, <1>1
      <3> QED BY Zenon, <1>0, <3>2, <3>3 DEF Ahead
    <2>4. Ahead' \subseteq Ahead \cup (Waiting \X {t})
      <3> SUFFICES ASSUME NEW p \in Ahead'  PROVE p \in Ahead \cup (Waiting \X {t})
        BY Zenon
      <3>1. /\ p \in Waiting' \X Waiting'
            /\ \E i, j \in DOMAIN waiters' : i < j /\ waiters'[i] = p[1] /\ waiters'[j] = p[2]
        BY Zenon DEF Ahead
      <3>2. p = <<p[1], p[2]>> /\ p[1] \in Waiting' /\ p[2] \in Waiting'
        BY <3>1
      <3> QED BY Zenon, <2>1, <3>1, <3>2
    <2>5. Ahead \cup (Waiting \X {t}) \subseteq Ahead'
      BY <2>2, <2>3
    <2> QED BY Zenon, <2>4, <2>5
  <1> QED BY Zenon, <1>1, <1>2, <1>3, <1>5, SameCardinality DEF Semaphore!Wait

\* Handing a slot on is Leave: it goes to the one that all others are behind.
LEMMA HandOverServes ==
    ASSUME BulkheadInv, NEW t \in Tasks, slot[t] \in {"held", "handed"}, NEW i \in NextServed,
           waiters' = SubSeq(waiters, i + 1, Len(waiters)),
           slot' = [slot EXCEPT ![t] = "none", ![waiters[i]] = "handed"]
    PROVE  Semaphore!Leave(t)
  <1> USE DEF BulkheadInv
  <1> DEFINE u == waiters[i]
  <1>0. /\ waiters \in Seq(Tasks) /\ Len(waiters) \in Nat /\ DOMAIN waiters = 1..Len(waiters)
        /\ i \in 1..Len(waiters)
    BY DEF NextServed, BulkheadTypeOK
  <1>1. u \in Waiting /\ t \in Holders /\ u # t
    BY <1>0 DEF NextServed, BulkheadTypeOK, Waiting, Holders
  <1>2. /\ DOMAIN waiters' = 1..Len(waiters') /\ Len(waiters') = Len(waiters) - i
        /\ \A k \in 1..Len(waiters') : waiters'[k] = waiters[k + i]
    <2>1. waiters' = SubSeq(waiters, i + 1, Len(waiters))
      BY Zenon
    <2>2. /\ waiters' \in Seq(Tasks) /\ Len(waiters') = Len(waiters) - i
          /\ DOMAIN waiters' = 1..Len(waiters')
          /\ \A k \in 1..Len(waiters') : waiters'[k] = waiters[k + i]
      BY ONLY <1>0, <2>1, Dropped
    <2> QED BY Zenon, <2>2
  <1>3. Holders' = (Holders \ {t}) \cup {u} /\ Waiting' = Waiting \ {u}
    BY Zenon, <1>1 DEF Holders, Waiting, BulkheadTypeOK
  <1>4. ASSUME NEW w \in Waiting \ {u}, NEW j \in DOMAIN waiters, waiters[j] = w
        PROVE  j > i
    <2>1. j \notin 1..(i - 1) /\ j # i
      BY Zenon, <1>4 DEF NextServed, Waiting
    <2> QED BY <1>0, <2>1
  <1>5. ASSUME NEW w \in Waiting \ {u}  PROVE <<u, w>> \in Ahead
    <2>1. PICK j \in DOMAIN waiters : waiters[j] = w
      BY Zenon DEF QueueConsistent, Waiting
    <2>2. i < j /\ i \in DOMAIN waiters
      BY Zenon, <1>0, <1>4, <2>1
    <2> QED BY Zenon, <1>1, <2>1, <2>2 DEF Ahead
  <1>6. Ahead' = {p \in Ahead : p[1] # u /\ p[2] # u}
    <2>1. ASSUME NEW a \in Waiting', NEW b \in Waiting', NEW j \in DOMAIN waiters',
                 NEW k \in DOMAIN waiters', j < k, waiters'[j] = a, waiters'[k] = b
          PROVE  <<a, b>> \in Ahead
      <3>1. /\ j + i \in DOMAIN waiters /\ k + i \in DOMAIN waiters /\ j + i < k + i
            /\ waiters[j + i] = a /\ waiters[k + i] = b
        BY ONLY <1>0, <1>2, <2>1
      <3>2. a \in Waiting /\ b \in Waiting
        BY Zenon, <1>3
      <3> QED BY Zenon, <3>1, <3>2 DEF Ahead
    <2>2. ASSUME NEW a \in Waiting \ {u}, NEW b \in Waiting \ {u}, NEW j \in DOMAIN waiters,
                 NEW k \in DOMAIN waiters, j < k, waiters[j] = a, waiters[k] = b
          PROVE  <<a, b>> \in Ahead'
      <3>1. j > i /\ k > i
        BY Zenon, <1>4, <2>2
      <3>a. /\ j - i \in DOMAIN waiters' /\ k - i \in DOMAIN waiters' /\ j - i < k - i
            /\ (j - i) + i = j /\ (k - i) + i = k
        <4>1. /\ i \in 1..Len(waiters) /\ j \in 1..Len(waiters) /\ k \in 1..Len(waiters)
              /\ Len(waiters) \in Nat /\ DOMAIN waiters' = 1..(Len(waiters) - i) /\ j < k
          BY Zenon, <1>0, <1>2, <2>2
        <4> QED BY ONLY <3>1, <4>1
      <3>2. /\ j - i \in DOMAIN waiters' /\ k - i \in DOMAIN waiters' /\ j - i < k - i
            /\ waiters'[j - i] = a /\ waiters'[k - i] = b
        BY ONLY Zenon, <1>2, <2>2, <3>a
      <3>3. a \in Waiting' /\ b \in Waiting'
        BY Zenon, <1>3
      <3> QED BY <3>2, <3>3, Zenon DEF Ahead
    <2> HIDE DEF u
    <2>3. ASSUME NEW p \in Ahead'  PROVE p \in Ahead /\ p[1] # u /\ p[2] # u
      <3>1. /\ p \in Waiting' \X Waiting'
            /\ \E j, k \in DOMAIN waiters' : j < k /\ waiters'[j] = p[1] /\ waiters'[k] = p[2]
        BY ONLY Zenon, <2>3 DEF Ahead
      <3>2. p[1] \in Waiting' /\ p[2] \in Waiting' /\ p = <<p[1], p[2]>>
        BY ONLY <3>1
      <3> QED BY <1>3, <2>1, <3>1, <3>2, Zenon
    <2>4. ASSUME NEW p \in Ahead, p[1] # u, p[2] # u  PROVE p \in Ahead'
      <3>1. /\ p[1] \in Waiting /\ p[2] \in Waiting /\ p = <<p[1], p[2]>>
            /\ \E j, k \in DOMAIN waiters : j < k /\ waiters[j] = p[1] /\ waiters[k] = p[2]
        BY DEF Ahead
      <3> QED BY <2>2, <2>4, <3>1
    <2> QED BY Zenon, <2>3, <2>4
  <1> HIDE DEF u
  <1> QED BY Zenon, <1>1, <1>3, <1>5, <1>6 DEF Semaphore!Leave, Semaphore!Without

\* A release, to the head of the queue or to the pool, is Leave.
LEMMA ReleaseSlotLeaves ==
    ASSUME BulkheadInv, NEW t \in Tasks, slot[t] \in {"held", "handed"}, ReleaseSlot(t)
    PROVE  Semaphore!Leave(t)
  <1> USE DEF BulkheadInv
  <1>1. CASE NextServed = {} /\ waiters' = <<>> /\ slot' = [slot EXCEPT ![t] = "none"]
    <2>1. Waiting = {} /\ Ahead = {}
      BY Zenon, <1>1, NobodyWaits
    <2>2. t \in Holders /\ Holders' = Holders \ {t}
      BY Zenon, <1>1 DEF Holders, BulkheadTypeOK
    <2>3. Waiting' = {}
      BY Zenon, <1>1, <2>1 DEF Waiting, BulkheadTypeOK
    <2>4. Ahead' = {}
      BY Zenon, <2>3 DEF Ahead
    <2> QED BY Zenon, <2>1, <2>2, <2>3, <2>4 DEF Semaphore!Leave
  <1> QED BY Zenon, <1>1, HandOverServes DEF ReleaseSlot

\* Cancelling a wait is GiveUp, though the future stays in the deque.
LEMMA CancelWaitGivesUp ==
    ASSUME BulkheadInv, NEW t \in Tasks, CancelWait(t)
    PROVE  Semaphore!GiveUp(t)
  <1> USE DEF BulkheadInv
  <1>1. t \in Waiting /\ Waiting' = Waiting \ {t} /\ Holders' = Holders /\ waiters' = waiters
    BY Zenon DEF CancelWait, Waiting, Holders, BulkheadTypeOK
  <1>2. Ahead' = {p \in Ahead : p[1] # t /\ p[2] # t}
    BY Zenon, <1>1 DEF Ahead
  <1> QED BY Zenon, <1>1, <1>2 DEF Semaphore!GiveUp, Semaphore!Without

\* A task that resumes, with its slot or without, changes nothing for the others.
LEMMA ResumeStutters ==
    ASSUME BulkheadInv, NEW t \in Tasks, TakeHanded(t) \/ LeaveQueue(t)
    PROVE  UNCHANGED <<Holders, Waiting, Ahead>>
  <1> USE DEF BulkheadInv
  <1>1. CASE TakeHanded(t)
    <2>1. Holders' = Holders /\ Waiting' = Waiting /\ waiters' = waiters
      BY Zenon, <1>1 DEF TakeHanded, Holders, Waiting, BulkheadTypeOK
    <2> QED BY <2>1 DEF Ahead
  <1>2. CASE LeaveQueue(t)
    <2>1. Holders' = Holders /\ Waiting' = Waiting /\ t \notin Waiting
      BY Zenon, <1>2 DEF LeaveQueue, Holders, Waiting, BulkheadTypeOK
    <2>2. /\ \A i, j \in DOMAIN waiters' :
                i < j => \E k, m \in DOMAIN waiters :
                            /\ k < m /\ waiters'[i] = waiters[k] /\ waiters'[j] = waiters[m]
          /\ \A k, m \in DOMAIN waiters :
                k < m /\ waiters[k] # t /\ waiters[m] # t =>
                    \E i, j \in DOMAIN waiters' :
                        i < j /\ waiters'[i] = waiters[k] /\ waiters'[j] = waiters[m]
      <3>1. Discard(t)
        BY Zenon, <1>2 DEF LeaveQueue
      <3> QED BY Zenon, <3>1, DiscardRemoves
    <2>3. ASSUME NEW p \in Waiting \X Waiting
          PROVE  (\E i, j \in DOMAIN waiters' : i < j /\ waiters'[i] = p[1] /\ waiters'[j] = p[2])
                 <=> \E i, j \in DOMAIN waiters : i < j /\ waiters[i] = p[1] /\ waiters[j] = p[2]
      <3>1. p[1] # t /\ p[2] # t
        BY Zenon, <2>1
      <3> QED BY ONLY <2>2, <3>1
    <2>4. Ahead' = Ahead
      BY Zenon, <2>1, <2>3 DEF Ahead
    <2> QED BY Zenon, <2>1, <2>4
  <1> QED BY Zenon, <1>1, <1>2

\* Every step of a compartment that no operator has overridden is a step of the
\* semaphore, or none.
LEMMA StepRefines ==
    ASSUME BulkheadInv, [BulkheadNext]_bulkheadVars
    PROVE  [overridden' \/ Semaphore!SemaphoreNext]_(Semaphore!semaphoreVars)
  <1> SUFFICES ASSUME ~overridden'
               PROVE  Semaphore!SemaphoreNext \/ UNCHANGED <<Holders, Waiting, Ahead>>
    BY Zenon DEF Semaphore!semaphoreVars
  <1>1. ASSUME NEW t \in Tasks, TakeSlot(t)  PROVE Semaphore!Arrive(t)
    BY Zenon, <1>1, TakeSlotArrives DEF TakeSlot
  <1>2. ASSUME NEW t \in Tasks, JoinQueue(t)  PROVE Semaphore!Wait(t)
    BY <1>2, JoinQueueWaits, Zenon DEF JoinQueue
  <1>3. ASSUME NEW t \in Tasks, GiveSlotBack(t) \/ PassOn(t)  PROVE Semaphore!Leave(t)
    BY Zenon, <1>3, ReleaseSlotLeaves DEF GiveSlotBack, PassOn
  <1>4. ASSUME NEW t \in Tasks, CancelWait(t)  PROVE Semaphore!GiveUp(t)
    BY Zenon, <1>4, CancelWaitGivesUp
  <1>5. ASSUME NEW t \in Tasks, TakeHanded(t) \/ LeaveQueue(t)
        PROVE  UNCHANGED <<Holders, Waiting, Ahead>>
    BY Zenon, <1>5, ResumeStutters
  <1>6. ~ResetBulkhead
    BY Zenon DEF ResetBulkhead
  <1>7. CASE UNCHANGED bulkheadVars
    BY Zenon, <1>7 DEF bulkheadVars, Holders, Waiting, Ahead
  <1> QED BY Zenon, <1>1, <1>2, <1>3, <1>4, <1>5, <1>6, <1>7 DEF BulkheadNext, Semaphore!SemaphoreNext

\* A new compartment is an empty semaphore.
LEMMA InitRefines == BulkheadInit => Semaphore!SemaphoreInit
  BY Zenon DEF BulkheadInit, Semaphore!SemaphoreInit, Holders, Waiting, Ahead

\* A compartment used in any way its methods allow conserves its slots.
THEOREM CompartmentConserves == BulkheadSpec => []SlotsConserved
  <1>1. BulkheadInv /\ [BulkheadNext]_bulkheadVars => BulkheadInv'
    BY Zenon, BulkheadNextKeeps
  <1>2. BulkheadInv => SlotsConserved
    BY Zenon DEF BulkheadInv
  <1> QED BY <1>1, <1>2, BulkheadStarts, PTL DEF BulkheadSpec

\* A compartment used in any way its methods allow is, until an operator overrides it,
\* a first-come first-served semaphore.
THEOREM CompartmentRefines == BulkheadSpec => ImplementsSemaphore
  <1>1. BulkheadInv /\ [BulkheadNext]_bulkheadVars => BulkheadInv'
    BY Zenon, BulkheadNextKeeps
  <1>2. BulkheadInv /\ [BulkheadNext]_bulkheadVars =>
           [overridden' \/ Semaphore!SemaphoreNext]_(Semaphore!semaphoreVars)
    BY Zenon, StepRefines
  <1> QED BY <1>1, <1>2, BulkheadStarts, InitRefines, PTL DEF BulkheadSpec, ImplementsSemaphore
-----------------------------------------------------------------------------

BreakerInv == BreakerTypeOK /\ NoProbeLeak

\* What a request holds at each of its awaits.
Placed(t) ==
    /\ pc[t] \in {"idle", "backoff"} => slot[t] = "none" /\ call[t] = "none"
    /\ pc[t] = "queued" => /\ slot[t] \in {"waiting", "cancelled", "failed", "handed"}
                           /\ call[t] # "none"
    /\ pc[t] = "sending" => slot[t] = "held" /\ call[t] # "none"
    /\ pc[t] \in {"closing", "body"} => slot[t] = "held" /\ call[t] = "none"

\* What the loop knows of its request when it may send it again.
Repeatable(t) ==
    /\ pc[t] = "idle" => ~delivered[t]
    /\ delivered[t] => kind[t] = "repeatable"
    /\ attempt[t] > 1 => kind[t] # "not_replayable"
    /\ pc[t] \in {"closing", "backoff"} => attempt[t] < Attempts /\ kind[t] # "not_replayable"

PlacesConsistent == \A t \in Tasks : Placed(t)
RepeatsConsistent == \A t \in Tasks : Repeatable(t)

RequestTypeOK ==
    /\ pc \in [Tasks -> {"idle", "queued", "sending", "closing", "backoff", "body"}]
    /\ attempt \in [Tasks -> 0..Attempts]
    /\ kind \in [Tasks -> Kinds]
    /\ delivered \in [Tasks -> BOOLEAN]

RequestInv == RequestTypeOK /\ RepeatsConsistent

IInv == BreakerInv /\ BulkheadInv /\ RequestInv /\ PlacesConsistent

-----------------------------------------------------------------------------
(* The breaker.                                                            *)

\* A call that ends gives back the probe slot it took, and only that.
LEMMA ProbeReleased ==
    ASSUME BreakerInv, NEW t \in Tasks, call[t] # "none",
           call' = [call EXCEPT ![t] = "none"], probesInFlight' = ReleaseProbe(t),
           \A u \in Tasks \ {t} : fresh'[u] = fresh[u], state' = "half_open" => state = "half_open"
    PROVE  NoProbeLeak' /\ probesInFlight' \in Nat
  <1> USE DEF BreakerInv
  <1>1. probesInFlight \in Nat
    BY Zenon DEF BreakerTypeOK
  <1>2. FreshProbes' = FreshProbes \ {t}
    BY Zenon DEF FreshProbes, BreakerTypeOK
  <1>3. Cardinality(FreshProbes) \in Nat /\ Cardinality(FreshProbes') \in Nat
    BY Zenon, TaskSets DEF FreshProbes
  <1>4. CASE t \in FreshProbes
    <2>1. Cardinality(FreshProbes') = Cardinality(FreshProbes) - 1
      BY Zenon, <1>2, <1>4, OneMore DEF FreshProbes
    <2>2. call[t] = "probe"
      BY Zenon, <1>4 DEF FreshProbes
    <2> QED BY <1>1, <1>3, <2>1, <2>2 DEF ReleaseProbe, NoProbeLeak
  <1>5. CASE t \notin FreshProbes
    <2>1. FreshProbes' = FreshProbes
      BY Zenon, <1>2, <1>5
    <2> QED BY <1>1, <1>3, <2>1 DEF ReleaseProbe, NoProbeLeak
  <1> QED BY Zenon, <1>4, <1>5

\* acquire takes a probe slot for the call it admits to a half-open circuit.
LEMMA AdmitKeeps ==
    ASSUME BreakerInv, NEW t \in Tasks, Admit(t)
    PROVE  BreakerInv'
  <1> USE DEF BreakerInv
  <1>1. BreakerTypeOK'
    <2>1. call' \in [Tasks -> {"none", "call", "probe"}]
      BY Zenon DEF Admit, BreakerTypeOK
    <2>2. fresh' \in [Tasks -> BOOLEAN]
      BY Zenon DEF Admit, BreakerTypeOK
    <2>3. state' \in {"closed", "open", "half_open"}
      BY Zenon DEF Admit, BreakerTypeOK, stateNow
    <2>4. probesInFlight' \in Nat /\ probeSuccesses' \in Nat
      BY DEF Admit, BreakerTypeOK, probesNow, successesNow
    <2> QED BY Zenon, <2>1, <2>2, <2>3, <2>4 DEF Admit, BreakerTypeOK
  <1>2. NoProbeLeak'
    <2> SUFFICES ASSUME state' = "half_open"
                 PROVE  probesInFlight' <= Cardinality(FreshProbes')
      BY Zenon DEF NoProbeLeak
    <2>1. /\ stateNow = "half_open" /\ probesInFlight' = probesNow + 1
          /\ call' = [call EXCEPT ![t] = "probe"] /\ fresh' = [fresh EXCEPT ![t] = TRUE]
          /\ call[t] = "none"
      BY Zenon DEF Admit
    <2>2. t \notin FreshProbes /\ FreshProbes' = FreshProbes \cup {t}
      <3>1. \A u \in Tasks \ {t} : fresh'[u] = fresh[u] /\ call'[u] = call[u]
        BY Zenon, <2>1 DEF BreakerTypeOK
      <3>2. fresh'[t] /\ call'[t] = "probe"
        BY Zenon, <2>1 DEF BreakerTypeOK
      <3> QED BY Zenon, <2>1, <3>1, <3>2 DEF FreshProbes
    <2>3. Cardinality(FreshProbes') = Cardinality(FreshProbes) + 1 /\ Cardinality(FreshProbes) \in Nat
      BY Zenon, <2>2, OneMore, TaskSets DEF FreshProbes
    <2>4. probesNow \in Nat /\ probesNow <= Cardinality(FreshProbes)
      BY <2>1, <2>3 DEF probesNow, stateNow, NoProbeLeak, BreakerTypeOK
    <2> QED BY <2>1, <2>3, <2>4
  <1> QED BY Zenon, <1>1, <1>2

\* A new half-open period begins with no probe slot taken.
LEMMA ExpireKeeps ==
    ASSUME BreakerInv, ExpireOpenPeriod, UNCHANGED <<window, openFor, call, fresh>>
    PROVE  BreakerInv'
  <1> USE DEF BreakerInv
  <1>1. BreakerTypeOK'
    BY Zenon DEF ExpireOpenPeriod, stateNow, probesNow, successesNow, BreakerTypeOK
  <1>2. FreshProbes' = FreshProbes /\ Cardinality(FreshProbes) \in Nat
    BY Zenon, TaskSets DEF FreshProbes
  <1>3. NoProbeLeak'
    BY <1>2 DEF ExpireOpenPeriod, stateNow, probesNow, NoProbeLeak
  <1> QED BY Zenon, <1>1, <1>3

\* CircuitCall.release.
LEMMA ReleaseCallKeeps ==
    ASSUME BreakerInv, NEW t \in Tasks, ReleaseCall(t)
    PROVE  BreakerInv'
  <1> USE DEF BreakerInv
  <1>1. NoProbeLeak' /\ probesInFlight' \in Nat
    <2>1. \A u \in Tasks \ {t} : fresh'[u] = fresh[u]
      BY Zenon DEF ReleaseCall, BreakerTypeOK
    <2> QED BY <2>1, ProbeReleased, Zenon DEF ReleaseCall
  <1>2. fresh' \in [Tasks -> BOOLEAN]
    BY Zenon DEF ReleaseCall, BreakerTypeOK
  <1>3. call' \in [Tasks -> {"none", "call", "probe"}]
    BY Zenon DEF ReleaseCall, BreakerTypeOK
  <1> QED BY Zenon, <1>1, <1>2, <1>3 DEF ReleaseCall, BreakerTypeOK

\* The window stays within its deque's maxlen.
LEMMA Remembered ==
    ASSUME BreakerTypeOK, NEW failed \in BOOLEAN
    PROVE  Remember(failed) \in Seq(BOOLEAN) /\ Len(Remember(failed)) <= WindowSize
  <1>1. /\ window \in Seq(BOOLEAN) /\ Len(window) \in Nat /\ Len(window) <= WindowSize
        /\ WindowSize \in Nat /\ WindowSize >= 1
    BY FailureAssumption, WindowAssumption DEF BreakerTypeOK
  <1>2. CASE Len(window) = WindowSize
    <2>1. window # <<>>
      BY <1>1, <1>2
    <2>2. Tail(window) \in Seq(BOOLEAN) /\ Len(Tail(window)) = Len(window) - 1
      BY Zenon, <1>1, <2>1, HeadTailProperties
    <2>3. /\ Append(Tail(window), failed) \in Seq(BOOLEAN)
          /\ Len(Append(Tail(window), failed)) = Len(Tail(window)) + 1
      BY <2>2, AppendProperties
    <2> QED BY <1>1, <1>2, <2>2, <2>3 DEF Remember
  <1>3. CASE Len(window) # WindowSize
    <2>1. Append(window, failed) \in Seq(BOOLEAN) /\ Len(Append(window, failed)) = Len(window) + 1
      BY <1>1, AppendProperties
    <2> QED BY <1>1, <1>3, <2>1 DEF Remember
  <1> QED BY Zenon, <1>2, <1>3

\* An opened circuit holds no probe.
LEMMA OpenKeeps ==
    ASSUME BreakerInv, NEW t \in Tasks, call' = [call EXCEPT ![t] = "none"], Open
    PROVE  BreakerInv'
  <1> USE DEF BreakerInv
  <1>1. call' \in [Tasks -> {"none", "call", "probe"}]
    BY Zenon DEF BreakerTypeOK
  <1>2. fresh' \in [Tasks -> BOOLEAN]
    BY Zenon DEF Open
  <1>3. window' \in Seq(BOOLEAN) /\ Len(window') = 0
    BY DEF Open
  <1>4. /\ state' \in {"closed", "open", "half_open"} /\ openFor' \in 0..ResetTimeout
        /\ probesInFlight' \in Nat /\ probeSuccesses' \in Nat /\ WindowSize \in Nat
    BY ResetAssumption, WindowAssumption DEF Open
  <1> QED BY <1>1, <1>2, <1>3, <1>4 DEF Open, NoProbeLeak, BreakerTypeOK

\* CircuitCall._settle, for a call of this generation or of an earlier one.
LEMMA SettleKeeps ==
    ASSUME BreakerInv, NEW t \in Tasks, NEW failed \in BOOLEAN, Settle(t, failed)
    PROVE  BreakerInv'
  <1> USE DEF BreakerInv
  <1>1. call[t] # "none" /\ call' = [call EXCEPT ![t] = "none"]
        /\ call' \in [Tasks -> {"none", "call", "probe"}]
    BY Zenon DEF Settle, BreakerTypeOK
  <1>2. ASSUME probesInFlight' = ReleaseProbe(t), \A u \in Tasks \ {t} : fresh'[u] = fresh[u],
               state' = "half_open" => state = "half_open"
        PROVE  NoProbeLeak' /\ probesInFlight' \in Nat
    BY <1>1, <1>2, ProbeReleased, Zenon
  <1>3. CASE /\ probesInFlight' = ReleaseProbe(t)
             /\ UNCHANGED <<state, window, openFor, probeSuccesses, fresh>>
    <2>1. NoProbeLeak' /\ probesInFlight' \in Nat
      BY Zenon, <1>2, <1>3
    <2> QED BY Zenon, <1>1, <1>3, <2>1 DEF BreakerTypeOK
  <1>4. CASE RecordProbe(t, failed)
    <2>1. CASE Open
      BY <1>1, <2>1, OpenKeeps, Zenon
    <2>2. CASE /\ probeSuccesses' = probeSuccesses + 1 /\ probesInFlight' = ReleaseProbe(t)
               /\ fresh' = [fresh EXCEPT ![t] = FALSE]
               /\ UNCHANGED <<state, window, openFor>>
      <3>1. \A u \in Tasks \ {t} : fresh'[u] = fresh[u]
        BY Zenon, <2>2 DEF BreakerTypeOK
      <3>2. fresh' \in [Tasks -> BOOLEAN]
        BY Zenon, <2>2 DEF BreakerTypeOK
      <3>3. NoProbeLeak' /\ probesInFlight' \in Nat
        BY Zenon, <1>2, <2>2, <3>1
      <3>4. probeSuccesses' \in Nat
        BY <2>2 DEF BreakerTypeOK
      <3> QED BY Zenon, <1>1, <2>2, <3>2, <3>3, <3>4 DEF BreakerTypeOK
    <2>3. CASE /\ state' = "closed" /\ window' = <<>> /\ probeSuccesses' = 0
               /\ probesInFlight' = ReleaseProbe(t)
               /\ fresh' = [u \in Tasks |-> FALSE]
               /\ UNCHANGED openFor
      <3>1. fresh' \in [Tasks -> BOOLEAN]
        BY Zenon, <2>3
      <3>2. probesInFlight' \in Nat /\ NoProbeLeak'
        BY <2>3 DEF ReleaseProbe, BreakerTypeOK, NoProbeLeak
      <3>3. window' \in Seq(BOOLEAN) /\ Len(window') <= WindowSize
        BY <2>3, WindowAssumption
      <3>4. state' \in {"closed", "open", "half_open"} /\ probeSuccesses' \in Nat
        BY Zenon, <2>3
      <3> QED BY Zenon, <1>1, <2>3, <3>1, <3>2, <3>3, <3>4 DEF BreakerTypeOK
    <2> QED BY Zenon, <1>4, <2>1, <2>2, <2>3 DEF RecordProbe
  <1>5. CASE state # "half_open" /\ RecordCall(t, failed)
    <2>1. CASE Open
      BY Zenon, <1>1, <2>1, OpenKeeps
    <2>2. CASE /\ window' = Remember(failed) /\ probesInFlight' = ReleaseProbe(t)
               /\ fresh' = [fresh EXCEPT ![t] = FALSE]
               /\ UNCHANGED <<state, openFor, probeSuccesses>>
      <3>1. fresh' \in [Tasks -> BOOLEAN]
        BY Zenon, <2>2 DEF BreakerTypeOK
      <3>2. window' \in Seq(BOOLEAN) /\ Len(window') <= WindowSize
        BY Zenon, <2>2, Remembered
      <3>3. probesInFlight' \in Nat /\ NoProbeLeak'
        BY <1>5, <2>2 DEF ReleaseProbe, BreakerTypeOK, NoProbeLeak
      <3> QED BY Zenon, <1>1, <2>2, <3>1, <3>2, <3>3 DEF BreakerTypeOK
    <2> QED BY Zenon, <1>5, <2>1, <2>2 DEF RecordCall
  <1> QED BY Zenon, <1>3, <1>4, <1>5 DEF Settle

\* The override makes every call stale and forgets the probes.
LEMMA ResetBreakerKeeps ==
    ASSUME BreakerInv, ResetBreaker
    PROVE  BreakerInv'
  <1> USE DEF BreakerInv
  <1>1. fresh' \in [Tasks -> BOOLEAN]
    BY Zenon DEF ResetBreaker
  <1>2. window' \in Seq(BOOLEAN) /\ Len(window') <= WindowSize
    BY WindowAssumption DEF ResetBreaker
  <1> QED BY Zenon, <1>1, <1>2 DEF ResetBreaker, NoProbeLeak, BreakerTypeOK

\* The clock.
LEMMA BreakerTickKeeps ==
    ASSUME BreakerInv, BreakerTick
    PROVE  BreakerInv'
  <1> USE DEF BreakerInv
  <1>1. FreshProbes' = FreshProbes
    BY Zenon DEF BreakerTick, FreshProbes
  <1> QED BY <1>1, ResetAssumption DEF BreakerTick, NoProbeLeak, BreakerTypeOK

-----------------------------------------------------------------------------
(* The request.                                                            *)

USE AttemptsAssumption

\* The task of a step is where the step put it, and every other one where it was:
\* at most its wait has been served.
LEMMA OthersPlaced ==
    ASSUME IInv, NEW t \in Tasks, Placed(t)',
           \A u \in Tasks \ {t} :
               /\ pc'[u] = pc[u] /\ call'[u] = call[u]
               /\ \/ slot'[u] = slot[u]
                  \/ slot[u] = "waiting" /\ slot'[u] \in {"handed", "failed"}
    PROVE  PlacesConsistent'
  <1> SUFFICES ASSUME NEW u \in Tasks \ {t}  PROVE Placed(u)'
    BY Zenon DEF PlacesConsistent
  <1>1. Placed(u) /\ pc[u] \in {"idle", "queued", "sending", "closing", "backoff", "body"}
    BY Zenon DEF IInv, PlacesConsistent, RequestInv, RequestTypeOK
  <1> QED BY Zenon, <1>1 DEF Placed

\* A request that is over leaves nothing behind.
LEMMA FinishKeeps ==
    ASSUME RequestInv, NEW t \in Tasks, Finish(t)
    PROVE  RequestInv' /\ pc'[t] = "idle" /\ \A u \in Tasks \ {t} : pc'[u] = pc[u]
  <1> USE DEF RequestInv
  <1>1. RequestTypeOK'
    <2>1. delivered' \in [Tasks -> BOOLEAN]
      BY Zenon DEF Finish, RequestTypeOK
    <2> QED BY <2>1 DEF Finish, GoTo, RequestTypeOK, Kinds
  <1>2. RepeatsConsistent'
    <2>1. Repeatable(t)'
      BY Zenon DEF Finish, GoTo, RequestTypeOK, Repeatable
    <2>2. ASSUME NEW u \in Tasks \ {t}  PROVE Repeatable(u)'
      <3>1. /\ pc'[u] = pc[u] /\ attempt'[u] = attempt[u] /\ kind'[u] = kind[u]
            /\ delivered'[u] = delivered[u]
        BY Zenon DEF Finish, GoTo, RequestTypeOK
      <3>2. Repeatable(u)
        BY Zenon DEF RepeatsConsistent
      <3> QED BY Zenon, <3>1, <3>2 DEF Repeatable
    <2> QED BY Zenon, <2>1, <2>2 DEF RepeatsConsistent
  <1> QED BY Zenon, <1>1, <1>2 DEF Finish, GoTo, RequestTypeOK

\* A request that goes on to a place where nothing is asked about sending it again.
LEMMA GoToKeeps ==
    ASSUME RequestInv, NEW t \in Tasks, NEW place \in {"sending", "queued", "body"},
           GoTo(t, place), UNCHANGED <<attempt, kind, delivered>>
    PROVE  RequestInv' /\ pc'[t] = place /\ \A u \in Tasks \ {t} : pc'[u] = pc[u]
  <1> USE DEF RequestInv
  <1>1. RequestTypeOK' /\ pc'[t] = place /\ \A u \in Tasks \ {t} : pc'[u] = pc[u]
    BY Zenon DEF GoTo, RequestTypeOK
  <1>2. ASSUME NEW u \in Tasks  PROVE Repeatable(u)'
    <2>1. Repeatable(u)
      BY Zenon DEF RepeatsConsistent
    <2> QED BY Zenon, <1>1, <2>1 DEF Repeatable
  <1> QED BY Zenon, <1>1, <1>2 DEF RepeatsConsistent

\* A request that will be sent again may be.
LEMMA RetryKeeps ==
    ASSUME RequestInv, NEW t \in Tasks, NEW sent \in BOOLEAN, MayRetry(t, sent),
           NEW place \in {"closing", "backoff"}, GoTo(t, place), UNCHANGED <<attempt, kind>>,
           delivered' = [delivered EXCEPT ![t] = delivered[t] \/ sent]
    PROVE  RequestInv' /\ pc'[t] = place /\ \A u \in Tasks \ {t} : pc'[u] = pc[u]
  <1> USE DEF RequestInv
  <1>1. pc' \in [Tasks -> {"idle", "queued", "sending", "closing", "backoff", "body"}]
        /\ pc'[t] = place /\ \A u \in Tasks \ {t} : pc'[u] = pc[u]
    BY Zenon DEF GoTo, RequestTypeOK
  <1>2. /\ delivered' \in [Tasks -> BOOLEAN]
        /\ \A u \in Tasks \ {t} : delivered'[u] = delivered[u]
        /\ delivered'[t] <=> (delivered[t] \/ sent)
    BY Zenon DEF RequestTypeOK
  <1>3. Repeatable(t)'
    <2>1. Repeatable(t)
      BY Zenon DEF RepeatsConsistent
    <2>2. delivered'[t] => kind[t] = "repeatable"
      BY Zenon, <1>2, <2>1 DEF MayRetry, Repeatable
    <2> QED BY Zenon, <1>1, <2>1, <2>2 DEF MayRetry, Repeatable
  <1>4. ASSUME NEW u \in Tasks \ {t}  PROVE Repeatable(u)'
    <2>1. Repeatable(u)
      BY Zenon DEF RepeatsConsistent
    <2> QED BY Zenon, <1>1, <1>2, <2>1 DEF Repeatable
  <1> QED BY Zenon, <1>1, <1>2, <1>3, <1>4 DEF RequestTypeOK, RepeatsConsistent

\* What a release does to the slots: the task's is gone, and at most one other task
\* has been served.
LEMMA ReleaseServes ==
    ASSUME BulkheadInv, NEW t \in Tasks, slot[t] \in {"held", "handed"}, ReleaseSlot(t)
    PROVE  /\ slot'[t] = "none"
           /\ \A u \in Tasks \ {t} :
                 slot'[u] = slot[u] \/ (slot[u] = "waiting" /\ slot'[u] = "handed")
  <1> USE DEF BulkheadInv
  <1>1. ASSUME NEW i \in NextServed,
               slot' = [slot EXCEPT ![t] = "none", ![waiters[i]] = "handed"]
        PROVE  /\ slot'[t] = "none"
               /\ \A u \in Tasks \ {t} :
                     slot'[u] = slot[u] \/ (slot[u] = "waiting" /\ slot'[u] = "handed")
    <2>1. waiters[i] \in Tasks /\ slot[waiters[i]] = "waiting"
      BY DEF NextServed, BulkheadTypeOK
    <2> QED BY Zenon, <1>1, <2>1 DEF BulkheadTypeOK
  <1> QED BY Zenon, <1>1 DEF ReleaseSlot, BulkheadTypeOK

\* What the breaker's operations do to the calls: only the task's own.
LEMMA CallsApart ==
    ASSUME BreakerInv, NEW t \in Tasks
    PROVE  /\ Admit(t) => /\ call[t] = "none" /\ call'[t] # "none"
                          /\ \A u \in Tasks \ {t} : call'[u] = call[u]
           /\ ReleaseCall(t) => call'[t] = "none" /\ \A u \in Tasks \ {t} : call'[u] = call[u]
           /\ \A failed \in BOOLEAN : Settle(t, failed) =>
                 call'[t] = "none" /\ \A u \in Tasks \ {t} : call'[u] = call[u]
  <1> USE DEF BreakerInv
  <1>1. Admit(t) => /\ call[t] = "none" /\ call'[t] # "none"
                    /\ \A u \in Tasks \ {t} : call'[u] = call[u]
    BY Zenon DEF Admit, BreakerTypeOK
  <1>2. ReleaseCall(t) => call'[t] = "none" /\ \A u \in Tasks \ {t} : call'[u] = call[u]
    BY Zenon DEF ReleaseCall, BreakerTypeOK
  <1>3. ASSUME NEW failed \in BOOLEAN, Settle(t, failed)
        PROVE  call'[t] = "none" /\ \A u \in Tasks \ {t} : call'[u] = call[u]
    <2>1. call' = [call EXCEPT ![t] = "none"]
      BY Zenon, <1>3 DEF Settle
    <2> QED BY Zenon, <2>1 DEF BreakerTypeOK
  <1> QED BY Zenon, <1>1, <1>2, <1>3

\* One pass of the loop up to its first await, from a request that holds nothing.
LEMMA AttemptKeeps ==
    ASSUME IInv, NEW t \in Tasks, NEW n \in 1..Attempts, NEW k \in Kinds,
           pc[t] \in {"idle", "backoff"}, n > 1 => k # "not_replayable",
           delivered[t] => k = "repeatable",
           Attempt(t, /\ attempt' = [attempt EXCEPT ![t] = n]
                      /\ kind' = [kind EXCEPT ![t] = k]
                      /\ UNCHANGED delivered)
    PROVE  IInv'
  <1> USE DEF IInv
  <1>1. slot[t] = "none" /\ call[t] = "none"
    BY Zenon DEF PlacesConsistent, Placed
  <1>2. ASSUME Admit(t), TakeSlot(t) \/ JoinQueue(t), NEW place \in {"sending", "queued"},
               TakeSlot(t) => place = "sending", JoinQueue(t) => place = "queued",
               GoTo(t, place), attempt' = [attempt EXCEPT ![t] = n],
               kind' = [kind EXCEPT ![t] = k], UNCHANGED delivered
        PROVE  IInv'
    <2>1. BreakerInv' /\ BulkheadInv'
      BY Zenon, <1>2, AdmitKeeps, TakeSlotKeeps, JoinQueueKeeps
    <2>2. RequestTypeOK' /\ pc'[t] = place /\ \A u \in Tasks \ {t} : pc'[u] = pc[u]
      BY <1>2 DEF GoTo, RequestInv, RequestTypeOK
    <2>3. RepeatsConsistent'
      <3>1. ASSUME NEW u \in Tasks \ {t}  PROVE Repeatable(u)'
        <4>1. attempt'[u] = attempt[u] /\ kind'[u] = kind[u] /\ Repeatable(u)
          BY Zenon, <1>2 DEF RequestInv, RequestTypeOK, RepeatsConsistent
        <4> QED BY Zenon, <1>2, <2>2, <4>1 DEF Repeatable
      <3>2. attempt'[t] = n /\ kind'[t] = k
        BY Zenon, <1>2 DEF RequestInv, RequestTypeOK
      <3>3. Repeatable(t)'
        BY Zenon, <1>2, <2>2, <3>2 DEF Repeatable
      <3> QED BY Zenon, <3>1, <3>3 DEF RepeatsConsistent
    <2>4. /\ slot'[t] = IF place = "sending" THEN "held" ELSE "waiting"
          /\ \A u \in Tasks \ {t} : slot'[u] = slot[u]
      BY Zenon, <1>2 DEF TakeSlot, JoinQueue, BulkheadInv, BulkheadTypeOK
    <2>5. call'[t] # "none" /\ \A u \in Tasks \ {t} : call'[u] = call[u]
      BY Zenon, <1>2, CallsApart
    <2>6. Placed(t)'
      BY Zenon, <2>2, <2>4, <2>5 DEF Placed
    <2>7. PlacesConsistent'
      BY Zenon, <2>2, <2>4, <2>5, <2>6, OthersPlaced
    <2> QED BY Zenon, <2>1, <2>2, <2>3, <2>7 DEF RequestInv
  <1>3. ASSUME Finish(t), UNCHANGED <<bulkheadVars, call>>, BreakerInv'
        PROVE  IInv'
    <2>1. RequestInv' /\ pc'[t] = "idle" /\ \A u \in Tasks \ {t} : pc'[u] = pc[u]
      BY Zenon, <1>3, FinishKeeps
    <2>2. BulkheadInv'
      BY Zenon, <1>3 DEF BulkheadInv, BulkheadTypeOK, QueueConsistent, SlotsConserved, Holders, bulkheadVars
    <2>3. Placed(t)'
      BY Zenon, <1>1, <1>3, <2>1 DEF Placed, bulkheadVars
    <2>4. PlacesConsistent'
      BY Zenon, <1>3, <2>1, <2>3, OthersPlaced DEF bulkheadVars
    <2> QED BY Zenon, <1>3, <2>1, <2>2, <2>4
  <1>4. CASE AdmitAndRelease /\ Finish(t) /\ UNCHANGED bulkheadVars
    <2>1. BreakerInv' /\ call' = call
      BY Zenon, <1>4, ExpireKeeps DEF AdmitAndRelease
    <2> QED BY Zenon, <1>3, <1>4, <2>1
  <1>5. CASE Finish(t) /\ UNCHANGED <<breakerVars, bulkheadVars>>
    <2>1. BreakerInv' /\ call' = call
      BY Zenon, <1>5 DEF BreakerInv, BreakerTypeOK, NoProbeLeak, FreshProbes, breakerVars
    <2> QED BY Zenon, <1>3, <1>5, <2>1
  <1>6. ~(TakeSlot(t) /\ JoinQueue(t))
    BY Zenon DEF TakeSlot, JoinQueue
  <1> QED BY Zenon, <1>2, <1>4, <1>5, <1>6 DEF Attempt

\* The slot of a request that gives it back, or passes it on.
LEMMA SlotGone ==
    ASSUME BulkheadInv, NEW t \in Tasks, GiveSlotBack(t) \/ PassOn(t) \/ LeaveQueue(t)
    PROVE  /\ BulkheadInv' /\ slot'[t] = "none"
           /\ \A u \in Tasks \ {t} :
                 slot'[u] = slot[u] \/ (slot[u] = "waiting" /\ slot'[u] = "handed")
  <1>1. CASE GiveSlotBack(t) \/ PassOn(t)
    <2>1. slot[t] \in {"held", "handed"} /\ ReleaseSlot(t)
      BY Zenon, <1>1 DEF GiveSlotBack, PassOn
    <2> QED BY Zenon, <2>1, ReleaseSlotKeeps, ReleaseServes
  <1>2. CASE LeaveQueue(t)
    <2>1. slot'[t] = "none" /\ \A u \in Tasks \ {t} : slot'[u] = slot[u]
      BY Zenon, <1>2 DEF LeaveQueue, BulkheadInv, BulkheadTypeOK
    <2> QED BY Zenon, <1>2, <2>1, LeaveQueueKeeps
  <1> QED BY Zenon, <1>1, <1>2

\* The breaker is left alone.
LEMMA BreakerUntouched ==
    ASSUME BreakerInv, UNCHANGED breakerVars
    PROVE  BreakerInv' /\ call' = call
  BY Zenon DEF BreakerInv, BreakerTypeOK, NoProbeLeak, FreshProbes, breakerVars

\* The compartment is left alone.
LEMMA BulkheadUntouched ==
    ASSUME BulkheadInv, UNCHANGED bulkheadVars
    PROVE  BulkheadInv' /\ slot' = slot
  BY Zenon DEF BulkheadInv, BulkheadTypeOK, QueueConsistent, SlotsConserved, Holders, bulkheadVars

\* The request's variables are left alone.
LEMMA RequestUntouched ==
    ASSUME RequestInv, UNCHANGED requestVars
    PROVE  RequestInv' /\ pc' = pc
  <1>1. RequestTypeOK'
    BY Zenon DEF RequestInv, RequestTypeOK, requestVars
  <1>2. RepeatsConsistent'
    BY Zenon DEF RequestInv, RepeatsConsistent, Repeatable, requestVars
  <1> QED BY Zenon, <1>1, <1>2 DEF RequestInv, requestVars

\* A step that ends with its request nowhere and holding nothing.
LEMMA EndedStep ==
    ASSUME IInv, NEW t \in Tasks, NEW place \in {"idle", "backoff"}, pc'[t] = place,
           BreakerInv', RequestInv', call'[t] = "none",
           GiveSlotBack(t) \/ PassOn(t) \/ LeaveQueue(t),
           \A u \in Tasks \ {t} : pc'[u] = pc[u] /\ call'[u] = call[u]
    PROVE  IInv'
  <1>1. /\ BulkheadInv' /\ slot'[t] = "none"
        /\ \A u \in Tasks \ {t} :
              slot'[u] = slot[u] \/ (slot[u] = "waiting" /\ slot'[u] = "handed")
    BY Zenon, SlotGone DEF IInv
  <1>2. Placed(t)'
    BY Zenon, <1>1 DEF Placed
  <1>3. PlacesConsistent'
    BY Zenon, <1>1, <1>2, OthersPlaced
  <1> QED BY Zenon, <1>1, <1>3 DEF IInv

\* The first attempt.
LEMMA StartStep ==
    ASSUME IInv, NEW t \in Tasks, Start(t)
    PROVE  IInv'
  <1>1. PICK k \in Kinds : Attempt(t, /\ attempt' = [attempt EXCEPT ![t] = 1]
                                     /\ kind' = [kind EXCEPT ![t] = k]
                                     /\ UNCHANGED delivered)
    BY Zenon DEF Start
  <1>2. pc[t] = "idle" /\ ~delivered[t]
    BY Zenon DEF Start, IInv, RequestInv, RepeatsConsistent, Repeatable
  <1>3. /\ 1 \in 1..Attempts /\ (1 > 1 => k # "not_replayable") /\ pc[t] \in {"idle", "backoff"}
        /\ delivered[t] => k = "repeatable"
    BY <1>2
  <1> QED BY <1>1, <1>2, <1>3, AttemptKeeps, Zenon

\* A further attempt.
LEMMA RetryStep ==
    ASSUME IInv, NEW t \in Tasks, Retry(t)
    PROVE  IInv'
  <1> DEFINE n == attempt[t] + 1
  <1>1. /\ pc[t] = "backoff" /\ kind[t] \in Kinds /\ kind[t] # "not_replayable"
        /\ n \in 1..Attempts /\ (delivered[t] => kind[t] = "repeatable")
    BY DEF Retry, IInv, RequestInv, RequestTypeOK, RepeatsConsistent, Repeatable
  <1>2. [attempt EXCEPT ![t] = @ + 1] = [attempt EXCEPT ![t] = n]
    BY Zenon
  <1>3. kind' = kind => kind' = [kind EXCEPT ![t] = kind[t]]
    BY Zenon DEF IInv, RequestInv, RequestTypeOK
  <1>4. Attempt(t, /\ attempt' = [attempt EXCEPT ![t] = n]
                   /\ kind' = [kind EXCEPT ![t] = kind[t]]
                   /\ UNCHANGED delivered)
    BY Zenon, <1>3 DEF Retry, Attempt
  <1> HIDE DEF n
  <1> QED BY <1>1, <1>4, AttemptKeeps, Zenon

\* The queued task resumes with a slot.
LEMMA ServedStep ==
    ASSUME IInv, NEW t \in Tasks, Served(t)
    PROVE  IInv'
  <1> USE DEF IInv
  <1>1. BulkheadInv'
    BY Zenon, TakeHandedKeeps DEF Served
  <1>2. BreakerInv' /\ call' = call
    BY Zenon, BreakerUntouched DEF Served
  <1>3. RequestInv' /\ pc'[t] = "sending" /\ \A u \in Tasks \ {t} : pc'[u] = pc[u]
    BY Zenon, GoToKeeps DEF Served
  <1>4. slot'[t] = "held" /\ \A u \in Tasks \ {t} : slot'[u] = slot[u]
    BY Zenon DEF Served, TakeHanded, BulkheadInv, BulkheadTypeOK
  <1>5. call[t] # "none"
    BY Zenon DEF Served, PlacesConsistent, Placed
  <1>6. Placed(t)'
    BY Zenon, <1>2, <1>3, <1>4, <1>5 DEF Placed
  <1>7. PlacesConsistent'
    BY Zenon, <1>2, <1>3, <1>4, <1>6, OthersPlaced
  <1> QED BY Zenon, <1>1, <1>2, <1>3, <1>7

\* The wait is cancelled, the task not yet resumed.
LEMMA WaitCancelledStep ==
    ASSUME IInv, NEW t \in Tasks, WaitCancelled(t)
    PROVE  IInv'
  <1> USE DEF IInv
  <1>1. BulkheadInv'
    BY Zenon, CancelWaitKeeps DEF WaitCancelled
  <1>2. BreakerInv' /\ call' = call
    BY Zenon, BreakerUntouched DEF WaitCancelled
  <1>3. RequestInv' /\ pc' = pc
    BY Zenon, RequestUntouched DEF WaitCancelled
  <1>4. slot'[t] = "cancelled" /\ \A u \in Tasks \ {t} : slot'[u] = slot[u]
    BY Zenon DEF WaitCancelled, CancelWait, BulkheadInv, BulkheadTypeOK
  <1>5. Placed(t)'
    BY Zenon, <1>2, <1>3, <1>4 DEF WaitCancelled, PlacesConsistent, Placed
  <1>6. PlacesConsistent'
    BY Zenon, <1>2, <1>3, <1>4, <1>5, OthersPlaced
  <1> QED BY Zenon, <1>1, <1>2, <1>3, <1>6

\* The queued task resumes without a slot, or passes on the one it got.
LEMMA WaitEndsStep ==
    ASSUME IInv, NEW t \in Tasks, WaitEnds(t)
    PROVE  IInv'
  <1>1. BreakerInv' /\ call'[t] = "none" /\ \A u \in Tasks \ {t} : call'[u] = call[u]
    BY Zenon, ReleaseCallKeeps, CallsApart DEF WaitEnds, IInv
  <1>2. RequestInv' /\ pc'[t] = "idle" /\ \A u \in Tasks \ {t} : pc'[u] = pc[u]
    BY Zenon, FinishKeeps DEF WaitEnds, IInv
  <1> QED BY Zenon, <1>1, <1>2, EndedStep DEF WaitEnds

\* The response is returned, its body read or still to be read.
LEMMA ReturnedStep ==
    ASSUME IInv, NEW t \in Tasks, NEW failed \in BOOLEAN, pc[t] = "sending", Settle(t, failed),
           \/ GiveSlotBack(t) /\ Finish(t)
           \/ GoTo(t, "body") /\ UNCHANGED <<bulkheadVars, attempt, kind, delivered>>
    PROVE  IInv'
  <1>1. BreakerInv' /\ call'[t] = "none" /\ \A u \in Tasks \ {t} : call'[u] = call[u]
    BY Zenon, SettleKeeps, CallsApart DEF IInv
  <1>2. CASE GiveSlotBack(t) /\ Finish(t)
    <2>1. RequestInv' /\ pc'[t] = "idle" /\ \A u \in Tasks \ {t} : pc'[u] = pc[u]
      BY Zenon, <1>2, FinishKeeps DEF IInv
    <2> QED BY Zenon, <1>1, <1>2, <2>1, EndedStep
  <1>3. CASE GoTo(t, "body") /\ UNCHANGED <<bulkheadVars, attempt, kind, delivered>>
    <2>1. RequestInv' /\ pc'[t] = "body" /\ \A u \in Tasks \ {t} : pc'[u] = pc[u]
      BY Zenon, <1>3, GoToKeeps DEF IInv
    <2>2. BulkheadInv' /\ slot' = slot
      BY Zenon, <1>3, BulkheadUntouched DEF IInv
    <2>3. Placed(t)'
      BY Zenon, <1>1, <2>1, <2>2 DEF IInv, PlacesConsistent, Placed
    <2>4. PlacesConsistent'
      BY Zenon, <1>1, <2>1, <2>2, <2>3, OthersPlaced
    <2> QED BY Zenon, <1>1, <2>1, <2>2, <2>4 DEF IInv
  <1> QED BY Zenon, <1>2, <1>3

\* A success.
LEMMA SucceedsStep ==
    ASSUME IInv, NEW t \in Tasks, Succeeds(t)
    PROVE  IInv'
  BY ReturnedStep, Zenon DEF Succeeds

\* A failure status.
LEMMA FailureStatusStep ==
    ASSUME IInv, NEW t \in Tasks, FailureStatus(t)
    PROVE  IInv'
  <1>1. BreakerInv' /\ call'[t] = "none" /\ \A u \in Tasks \ {t} : call'[u] = call[u]
    BY SettleKeeps, CallsApart, Zenon DEF IInv, FailureStatus
  <1>2. CASE \/ GiveSlotBack(t) /\ Finish(t)
             \/ GoTo(t, "body") /\ UNCHANGED <<bulkheadVars, attempt, kind, delivered>>
    BY <1>2, ReturnedStep, Zenon DEF FailureStatus
  <1>3. ASSUME NEW place \in {"closing", "backoff"}, GoTo(t, place), MayRetry(t, TRUE),
               delivered' = [delivered EXCEPT ![t] = TRUE], UNCHANGED <<attempt, kind>>
        PROVE  RequestInv' /\ pc'[t] = place /\ \A u \in Tasks \ {t} : pc'[u] = pc[u]
    <2>1. delivered' = [delivered EXCEPT ![t] = delivered[t] \/ TRUE]
      BY <1>3, Zenon
    <2> QED BY <1>3, <2>1, RetryKeeps, Zenon DEF IInv
  <1>4. CASE /\ MayRetry(t, TRUE) /\ delivered' = [delivered EXCEPT ![t] = TRUE]
             /\ GiveSlotBack(t) /\ GoTo(t, "backoff") /\ UNCHANGED <<attempt, kind>>
    BY Zenon, <1>1, <1>3, <1>4, EndedStep
  <1>5. CASE /\ MayRetry(t, TRUE) /\ delivered' = [delivered EXCEPT ![t] = TRUE]
             /\ GoTo(t, "closing") /\ UNCHANGED bulkheadVars /\ UNCHANGED <<attempt, kind>>
    <2>1. RequestInv' /\ pc'[t] = "closing" /\ \A u \in Tasks \ {t} : pc'[u] = pc[u]
      BY Zenon, <1>3, <1>5
    <2>2. BulkheadInv' /\ slot' = slot
      BY Zenon, <1>5, BulkheadUntouched DEF IInv
    <2>3. Placed(t)'
      BY Zenon, <1>1, <2>1, <2>2 DEF FailureStatus, IInv, PlacesConsistent, Placed
    <2>4. PlacesConsistent'
      BY Zenon, <1>1, <2>1, <2>2, <2>3, OthersPlaced
    <2> QED BY Zenon, <1>1, <2>1, <2>2, <2>4 DEF IInv
  <1> QED BY <1>2, <1>4, <1>5, Zenon DEF FailureStatus

\* A transport error.
LEMMA TransportErrorStep ==
    ASSUME IInv, NEW t \in Tasks, NEW sent \in BOOLEAN, TransportError(t, sent)
    PROVE  IInv'
  <1>1. BreakerInv' /\ call'[t] = "none" /\ \A u \in Tasks \ {t} : call'[u] = call[u]
    BY SettleKeeps, CallsApart, Zenon DEF IInv, TransportError
  <1>2. CASE Finish(t)
    <2>1. RequestInv' /\ pc'[t] = "idle" /\ \A u \in Tasks \ {t} : pc'[u] = pc[u]
      BY Zenon, <1>2, FinishKeeps DEF IInv
    <2> QED BY Zenon, <1>1, <2>1, EndedStep DEF TransportError
  <1>3. CASE /\ MayRetry(t, sent) /\ GoTo(t, "backoff") /\ UNCHANGED <<attempt, kind>>
             /\ delivered' = [delivered EXCEPT ![t] = delivered[t] \/ sent]
    <2>1. RequestInv' /\ pc'[t] = "backoff" /\ \A u \in Tasks \ {t} : pc'[u] = pc[u]
      BY <1>3, RetryKeeps, Zenon DEF IInv
    <2> QED BY Zenon, <1>1, <2>1, EndedStep DEF TransportError
  <1> QED BY Zenon, <1>2, <1>3 DEF TransportError

\* A cancellation, or an exception that is nobody's verdict.
LEMMA NoVerdictStep ==
    ASSUME IInv, NEW t \in Tasks, NoVerdict(t)
    PROVE  IInv'
  <1>1. BreakerInv' /\ call'[t] = "none" /\ \A u \in Tasks \ {t} : call'[u] = call[u]
    BY Zenon, ReleaseCallKeeps, CallsApart DEF NoVerdict, IInv
  <1>2. RequestInv' /\ pc'[t] = "idle" /\ \A u \in Tasks \ {t} : pc'[u] = pc[u]
    BY Zenon, FinishKeeps DEF NoVerdict, IInv
  <1> QED BY Zenon, <1>1, <1>2, EndedStep DEF NoVerdict

\* The failed response is closed.
LEMMA ClosedStep ==
    ASSUME IInv, NEW t \in Tasks, Closed(t)
    PROVE  IInv'
  <1>1. BreakerInv' /\ call' = call
    BY Zenon, BreakerUntouched DEF Closed, IInv
  <1>2. call[t] = "none"
    BY Zenon DEF Closed, IInv, PlacesConsistent, Placed
  <1>3. CASE Finish(t)
    <2>1. RequestInv' /\ pc'[t] = "idle" /\ \A u \in Tasks \ {t} : pc'[u] = pc[u]
      BY Zenon, <1>3, FinishKeeps DEF IInv
    <2> QED BY Zenon, <1>1, <1>2, <2>1, EndedStep DEF Closed
  <1>4. CASE GoTo(t, "backoff") /\ UNCHANGED <<attempt, kind, delivered>>
    <2>1. RequestTypeOK' /\ pc'[t] = "backoff" /\ \A u \in Tasks \ {t} : pc'[u] = pc[u]
      BY Zenon, <1>4 DEF GoTo, IInv, RequestInv, RequestTypeOK
    <2>2. ASSUME NEW u \in Tasks  PROVE Repeatable(u)'
      <3>1. Repeatable(u) /\ pc[t] = "closing"
        BY Zenon DEF IInv, RequestInv, RepeatsConsistent, Closed
      <3> QED BY Zenon, <1>4, <2>1, <3>1 DEF Repeatable
    <2>3. RequestInv'
      BY Zenon, <2>1, <2>2 DEF RequestInv, RepeatsConsistent
    <2> QED BY Zenon, <1>1, <1>2, <2>1, <2>3, EndedStep DEF Closed
  <1> QED BY Zenon, <1>3, <1>4 DEF Closed

\* The sleep is cancelled.
LEMMA BackoffCancelledStep ==
    ASSUME IInv, NEW t \in Tasks, BackoffCancelled(t)
    PROVE  IInv'
  <1>1. BreakerInv' /\ call' = call
    BY Zenon, BreakerUntouched DEF BackoffCancelled, IInv
  <1>2. BulkheadInv' /\ slot' = slot
    BY Zenon, BulkheadUntouched DEF BackoffCancelled, IInv
  <1>3. RequestInv' /\ pc'[t] = "idle" /\ \A u \in Tasks \ {t} : pc'[u] = pc[u]
    BY Zenon, FinishKeeps DEF BackoffCancelled, IInv
  <1>4. Placed(t)'
    BY Zenon, <1>1, <1>2, <1>3 DEF BackoffCancelled, IInv, PlacesConsistent, Placed
  <1>5. PlacesConsistent'
    BY Zenon, <1>1, <1>2, <1>3, <1>4, OthersPlaced
  <1> QED BY Zenon, <1>1, <1>2, <1>3, <1>5 DEF IInv

\* The body is read or abandoned.
LEMMA BodyClosedStep ==
    ASSUME IInv, NEW t \in Tasks, BodyClosed(t)
    PROVE  IInv'
  <1>1. BreakerInv' /\ call' = call
    BY Zenon, BreakerUntouched DEF BodyClosed, IInv
  <1>2. call[t] = "none"
    BY Zenon DEF BodyClosed, IInv, PlacesConsistent, Placed
  <1>3. RequestInv' /\ pc'[t] = "idle" /\ \A u \in Tasks \ {t} : pc'[u] = pc[u]
    BY Zenon, FinishKeeps DEF BodyClosed, IInv
  <1> QED BY Zenon, <1>1, <1>2, <1>3, EndedStep DEF BodyClosed

\* An operator's resets.
LEMMA OverrideStep ==
    ASSUME IInv, Override
    PROVE  IInv'
  <1>1. BreakerInv' /\ call' = call
    BY Zenon, ResetBreakerKeeps, BreakerUntouched DEF Override, ResetBreaker, IInv
  <1>2. BulkheadInv' /\ \A u \in Tasks :
           slot'[u] = slot[u] \/ (slot[u] = "waiting" /\ slot'[u] = "failed")
    <2>1. CASE ResetBulkhead
      BY Zenon, <2>1, ResetBulkheadKeeps DEF IInv, ResetBulkhead
    <2>2. CASE overridden' = TRUE /\ UNCHANGED <<inFlight, waiters, slot>>
      BY Zenon, <2>2 DEF IInv, BulkheadInv, BulkheadTypeOK, QueueConsistent, SlotsConserved
    <2> QED BY <2>1, <2>2, Zenon DEF Override
  <1>3. RequestInv' /\ pc' = pc
    BY Zenon, RequestUntouched DEF Override, IInv
  <1>4. ASSUME NEW u \in Tasks  PROVE Placed(u)'
    <2>1. Placed(u) /\ pc[u] \in {"idle", "queued", "sending", "closing", "backoff", "body"}
      BY Zenon DEF IInv, PlacesConsistent, RequestInv, RequestTypeOK
    <2> QED BY Zenon, <1>1, <1>2, <1>3, <2>1 DEF Placed
  <1> QED BY Zenon, <1>1, <1>2, <1>3, <1>4 DEF IInv, PlacesConsistent

\* Time, and whoever reads the state.
LEMMA TimeStep ==
    ASSUME IInv, Time
    PROVE  IInv'
  <1>1. BreakerInv' /\ call' = call
    BY Zenon, BreakerTickKeeps, ExpireKeeps DEF Time, BreakerTick, ReadState, IInv
  <1>2. BulkheadInv' /\ slot' = slot
    BY Zenon, BulkheadUntouched DEF Time, IInv
  <1>3. RequestInv' /\ pc' = pc
    BY Zenon, RequestUntouched DEF Time, IInv
  <1> QED BY Zenon, <1>1, <1>2, <1>3 DEF IInv, PlacesConsistent, Placed

-----------------------------------------------------------------------------
(* The theorems.                                                           *)

\* The invariant holds at the start.
LEMMA InitIInv == Init => IInv
  <1> SUFFICES ASSUME Init  PROVE IInv
    BY Zenon
  <1>1. BreakerInv
    <2>1. fresh \in [Tasks -> BOOLEAN]
      BY Zenon DEF Init, BreakerInit
    <2>2. call \in [Tasks -> {"none", "call", "probe"}]
      BY Zenon DEF Init, BreakerInit
    <2>3. window \in Seq(BOOLEAN) /\ Len(window) <= WindowSize
      BY WindowAssumption DEF Init, BreakerInit
    <2>4. openFor \in 0..ResetTimeout
      BY ResetAssumption DEF Init, BreakerInit
    <2> QED BY Zenon, <2>1, <2>2, <2>3, <2>4 DEF Init, BreakerInit, BreakerInv, BreakerTypeOK, NoProbeLeak
  <1>2. BulkheadInv
    BY Zenon, BulkheadStarts DEF Init
  <1>3. RequestInv
    BY DEF Init, RequestInv, RequestTypeOK, Kinds, RepeatsConsistent, Repeatable
  <1>4. PlacesConsistent
    BY Zenon DEF Init, BreakerInit, BulkheadInit, PlacesConsistent, Placed
  <1> QED BY Zenon, <1>1, <1>2, <1>3, <1>4 DEF IInv

\* Every step keeps it.
LEMMA NextIInv == IInv /\ [Next]_vars => IInv'
  <1> SUFFICES ASSUME IInv, [Next]_vars  PROVE IInv'
    BY Zenon
  <1>1. CASE Time
    BY Zenon, <1>1, TimeStep
  <1>2. CASE Override
    BY Zenon, <1>2, OverrideStep
  <1>3. ASSUME NEW t \in Tasks, TaskStep(t)  PROVE IInv'
    BY Zenon, <1>3, StartStep, RetryStep, ServedStep, WaitCancelledStep, WaitEndsStep, SucceedsStep,
       FailureStatusStep, NoVerdictStep, ClosedStep, BackoffCancelledStep, BodyClosedStep,
       TransportErrorStep DEF TaskStep
  <1>4. CASE UNCHANGED vars
    <2>1. BreakerInv' /\ BulkheadInv' /\ RequestInv' /\ pc' = pc /\ slot' = slot /\ call' = call
      BY Zenon, <1>4, BreakerUntouched, BulkheadUntouched, RequestUntouched DEF IInv, vars
    <2> QED BY Zenon, <2>1 DEF IInv, PlacesConsistent, Placed
  <1> QED BY Zenon, <1>1, <1>2, <1>3, <1>4 DEF Next

\* The inductive invariant holds in every reachable state.
THEOREM Invariance == Spec => []IInv
  BY InitIInv, NextIInv, PTL DEF Spec

\* Every variable keeps its type: in_flight never exceeds limit, whatever an operator
\* does, and the window and the queue keep within their bounds.
THEOREM TypeCorrect == Spec => []TypeOK
  <1>1. IInv => TypeOK
    BY Zenon DEF IInv, BreakerInv, BulkheadInv, RequestInv, RequestTypeOK, TypeOK
  <1> QED BY <1>1, Invariance, PTL

\* A half-open circuit is never left with a probe slot taken and nobody to report on it.
THEOREM ProbesNotLeaked == Spec => []NoProbeLeak
  <1>1. IInv => NoProbeLeak
    BY Zenon DEF IInv, BreakerInv
  <1> QED BY <1>1, Invariance, PTL

\* No slot is lost or given out twice, and nobody waits while there is room.
THEOREM SlotsAreConserved == Spec => []SlotsConserved
  <1>1. IInv => SlotsConserved
    BY Zenon DEF IInv, BulkheadInv
  <1> QED BY <1>1, Invariance, PTL

\* A request that may have been received is repeated only if that is harmless, and a
\* body that can be read once is sent once.
THEOREM RepeatsSafe == Spec => []RepeatsAreSafe
  <1>1. IInv => RepeatsAreSafe
    BY Zenon DEF IInv, RequestInv, RepeatsConsistent, Repeatable, RepeatsAreSafe
  <1> QED BY <1>1, Invariance, PTL

\* The backoff is slept through with no slot and no unsettled call.
THEOREM BackoffHoldsNothing == Spec => []NothingHeldInBackoff
  <1>1. IInv => NothingHeldInBackoff
    BY Zenon DEF IInv, PlacesConsistent, Placed, NothingHeldInBackoff
  <1> QED BY <1>1, Invariance, PTL

-----------------------------------------------------------------------------
(* The transport uses its breaker and its compartment only through their    *)
(* operations.                                                             *)

\* Unless an operator overrides them, each step of the transport is one operation of
\* the breaker, or none.
LEMMA BreakerSteps ==
    ASSUME [Next]_vars, ~overridden'
    PROVE  ~overridden /\ [BreakerNext]_breakerVars
  <1>1. ASSUME NEW t \in Tasks, ReleaseSlot(t)  PROVE overridden' = overridden
    BY Zenon, <1>1 DEF ReleaseSlot
  <1>2. ASSUME NEW t \in Tasks, NEW begin, Attempt(t, begin)
        PROVE  overridden' = overridden /\ [BreakerNext]_breakerVars
    BY Zenon, <1>2 DEF Attempt, TakeSlot, JoinQueue, bulkheadVars, BreakerNext
  <1>3. ASSUME NEW t \in Tasks, Served(t) \/ WaitCancelled(t) \/ BackoffCancelled(t)
        PROVE  overridden' = overridden /\ [BreakerNext]_breakerVars
    BY Zenon, <1>3 DEF Served, WaitCancelled, BackoffCancelled, TakeHanded, CancelWait, bulkheadVars
  <1>4. ASSUME NEW t \in Tasks, WaitEnds(t) \/ NoVerdict(t)
        PROVE  overridden' = overridden /\ [BreakerNext]_breakerVars
    BY Zenon, <1>1, <1>4 DEF WaitEnds, NoVerdict, LeaveQueue, PassOn, GiveSlotBack, BreakerNext
  <1>5. ASSUME NEW t \in Tasks, Succeeds(t) \/ FailureStatus(t)
        PROVE  overridden' = overridden /\ [BreakerNext]_breakerVars
    <2>1. \E failed \in BOOLEAN : Settle(t, failed)
      BY <1>5, Zenon DEF Succeeds, FailureStatus
    <2>2. overridden' = overridden
      BY <1>1, <1>5, Zenon DEF Succeeds, FailureStatus, GiveSlotBack, bulkheadVars
    <2> QED BY Zenon, <2>1, <2>2 DEF BreakerNext
  <1>6. ASSUME NEW t \in Tasks, NEW sent \in BOOLEAN, TransportError(t, sent)
        PROVE  overridden' = overridden /\ [BreakerNext]_breakerVars
    <2>1. \E failed \in BOOLEAN : Settle(t, failed)
      BY <1>6, Zenon DEF TransportError
    <2> QED BY Zenon, <1>1, <1>6, <2>1 DEF TransportError, GiveSlotBack, BreakerNext
  <1>7. ASSUME NEW t \in Tasks, Closed(t) \/ BodyClosed(t)
        PROVE  overridden' = overridden /\ [BreakerNext]_breakerVars
    BY Zenon, <1>1, <1>7 DEF Closed, BodyClosed, GiveSlotBack
  <1>8. CASE Time
    BY Zenon, <1>8 DEF Time, bulkheadVars, BreakerNext
  <1>9. ~Override
    BY Zenon DEF Override, ResetBulkhead
  <1>10. CASE UNCHANGED vars
    BY Zenon, <1>10 DEF vars, bulkheadVars
  <1> QED BY <1>2, <1>3, <1>4, <1>5, <1>6, <1>7, <1>8, <1>9, <1>10, Zenon
          DEF Next, TaskStep, Start, Retry

\* Unless an operator overrides them, each step of the transport is one operation of
\* the compartment, or none.
LEMMA BulkheadSteps ==
    ASSUME [Next]_vars, ~overridden'
    PROVE  [BulkheadNext]_bulkheadVars
  <1>1. ASSUME NEW t \in Tasks, NEW begin, Attempt(t, begin)
        PROVE  [BulkheadNext]_bulkheadVars
    BY Zenon, <1>1 DEF Attempt, BulkheadNext
  <1>2. ASSUME NEW t \in Tasks,
               \/ Served(t) \/ WaitCancelled(t) \/ BackoffCancelled(t) \/ WaitEnds(t) \/ NoVerdict(t)
               \/ Succeeds(t) \/ FailureStatus(t) \/ Closed(t) \/ BodyClosed(t)
               \/ \E sent \in BOOLEAN : TransportError(t, sent)
        PROVE  [BulkheadNext]_bulkheadVars
    BY <1>2, Zenon DEF Served, WaitCancelled, BackoffCancelled, WaitEnds, NoVerdict, Succeeds,
                FailureStatus, Closed, BodyClosed, TransportError, BulkheadNext
  <1>3. CASE Time
    BY Zenon, <1>3 DEF Time
  <1>4. ~Override
    BY Zenon DEF Override, ResetBulkhead
  <1>5. CASE UNCHANGED vars
    BY Zenon, <1>5 DEF vars
  <1> QED BY <1>1, <1>2, <1>3, <1>4, <1>5, Zenon DEF Next, TaskStep, Start, Retry

\* In the transport, too, a compartment is a first-come first-served semaphore until an
\* operator overrides it, whatever times out, fails or is cancelled around it.
THEOREM TransportRefines == Spec => ImplementsSemaphore
  <1>1. IInv /\ [Next]_vars => [overridden' \/ Semaphore!SemaphoreNext]_(Semaphore!semaphoreVars)
    <2> SUFFICES ASSUME IInv, [Next]_vars, ~overridden'
                 PROVE  [overridden' \/ Semaphore!SemaphoreNext]_(Semaphore!semaphoreVars)
      BY Zenon
    <2> QED BY Zenon, BulkheadSteps, StepRefines DEF IInv
  <1>2. Init => Semaphore!SemaphoreInit
    BY Zenon, InitRefines DEF Init
  <1> QED BY <1>1, <1>2, Invariance, PTL DEF Spec, ImplementsSemaphore

-----------------------------------------------------------------------------
(* Probes, when the configuration allows one at a time.                    *)

\* A probe in flight belongs to the current half-open period, is alone, and is counted;
\* every call of the current generation was admitted in the state the breaker is in.
ProbeInv ==
    /\ \A t \in Tasks : call[t] = "probe" =>
          fresh[t] /\ state = "half_open" /\ probesInFlight >= 1
    /\ \A t, u \in Tasks : call[t] = "probe" /\ call[u] = "probe" => t = u
    /\ \A t \in Tasks : fresh[t] => state # "open" /\ (state = "half_open" => call[t] = "probe")

SingleProbe == HalfOpenMaxCalls = 1 /\ ~overridden => ProbeInv

\* Each operation of the breaker keeps the probe single.
LEMMA BreakerKeepsProbe ==
    ASSUME BreakerTypeOK, ProbeInv, HalfOpenMaxCalls = 1, [BreakerNext]_breakerVars
    PROVE  ProbeInv'
  <1>1. ASSUME NEW t \in Tasks, Admit(t)  PROVE ProbeInv'
    <2>1. /\ \A u \in Tasks \ {t} : fresh'[u] = fresh[u] /\ call'[u] = call[u]
          /\ fresh'[t] /\ state' = stateNow /\ Admissible
      BY Zenon, <1>1 DEF Admit, BreakerTypeOK
    <2>2. CASE stateNow = "half_open"
      <3>1. /\ probesInFlight' = probesNow + 1 /\ call'[t] = "probe" /\ probesNow = 0
        BY <1>1, <2>1, <2>2 DEF Admit, Admissible, BreakerTypeOK, probesNow
      <3>2. ASSUME NEW u \in Tasks  PROVE call[u] # "probe"
        BY <2>2, <3>1 DEF ProbeInv, stateNow, probesNow, Elapsed
      <3>3. ASSUME NEW u \in Tasks  PROVE ~fresh[u]
        BY Zenon, <2>2, <3>2 DEF ProbeInv, stateNow, Elapsed
      <3> QED BY <2>1, <2>2, <3>1, <3>2, <3>3 DEF ProbeInv
    <2>3. CASE stateNow # "half_open"
      <3>1. state' = state /\ state = "closed" /\ call'[t] = "call" /\ probesInFlight' = probesInFlight
        BY Zenon, <1>1, <2>1, <2>3 DEF Admit, Admissible, BreakerTypeOK, stateNow, probesNow
      <3> QED BY Zenon, <2>1, <3>1 DEF ProbeInv
    <2> QED BY Zenon, <2>2, <2>3
  <1>2. ASSUME ExpireOpenPeriod, UNCHANGED <<call, fresh>>  PROVE ProbeInv'
    <2>1. CASE Elapsed
      BY Zenon, <1>2, <2>1 DEF ExpireOpenPeriod, stateNow, probesNow, Elapsed, ProbeInv
    <2>2. CASE ~Elapsed
      BY Zenon, <1>2, <2>2 DEF ExpireOpenPeriod, stateNow, probesNow, ProbeInv
    <2> QED BY Zenon, <2>1, <2>2
  <1>3. ASSUME NEW t \in Tasks, call[t] # "none", call' = [call EXCEPT ![t] = "none"],
               probesInFlight' = ReleaseProbe(t), state' = state,
               fresh' = [fresh EXCEPT ![t] = FALSE] \/ (fresh' = fresh /\ ~fresh[t])
        PROVE  ProbeInv'
    <2>1. /\ \A u \in Tasks \ {t} : fresh'[u] = fresh[u] /\ call'[u] = call[u]
          /\ ~fresh'[t] /\ call'[t] = "none"
      BY Zenon, <1>3 DEF BreakerTypeOK
    <2>2. ASSUME NEW u \in Tasks \ {t}, call[u] = "probe"  PROVE probesInFlight' = probesInFlight
      BY Zenon, <1>3, <2>2 DEF ProbeInv, ReleaseProbe
    <2> QED BY <1>3, <2>1, <2>2 DEF ProbeInv
  <1>4. ASSUME NEW t \in Tasks, NEW failed \in BOOLEAN, Settle(t, failed)  PROVE ProbeInv'
    <2>1. call[t] # "none" /\ call' = [call EXCEPT ![t] = "none"]
      BY Zenon, <1>4 DEF Settle
    <2>2. ASSUME fresh[t], state' # "half_open", fresh' = [u \in Tasks |-> FALSE]
          PROVE  ProbeInv'
      <3>1. \A u \in Tasks : call'[u] # "probe" \/ call[u] = "probe"
        BY Zenon, <2>1 DEF BreakerTypeOK
      <3>2. ASSUME NEW u \in Tasks, call'[u] = "probe"  PROVE FALSE
        <4>1. call[u] = "probe" /\ state = "half_open" /\ u # t
          BY Zenon, <2>1, <3>1, <3>2 DEF ProbeInv, BreakerTypeOK
        <4>2. call[t] = "probe"
          BY Zenon, <2>2, <4>1 DEF ProbeInv
        <4> QED BY Zenon, <4>1, <4>2 DEF ProbeInv
      <3>3. \A u \in Tasks : ~fresh'[u]
        BY Zenon, <2>2
      <3> QED BY Zenon, <3>2, <3>3 DEF ProbeInv
    <2>3. CASE ~fresh[t] /\ probesInFlight' = ReleaseProbe(t) /\ UNCHANGED <<state, fresh>>
      BY <1>3, <2>1, <2>3, Zenon
    <2>4. CASE fresh[t] /\ RecordProbe(t, failed)
      <3>1. CASE state' # "half_open" /\ fresh' = [u \in Tasks |-> FALSE]
        BY Zenon, <2>2, <2>4, <3>1
      <3>2. CASE /\ probesInFlight' = ReleaseProbe(t) /\ fresh' = [fresh EXCEPT ![t] = FALSE]
                 /\ UNCHANGED state
        BY <1>3, <2>1, <3>2, Zenon
      <3> QED BY Zenon, <2>4, <3>1, <3>2 DEF RecordProbe, Open
    <2>5. CASE fresh[t] /\ RecordCall(t, failed)
      <3>1. CASE state' # "half_open" /\ fresh' = [u \in Tasks |-> FALSE]
        BY Zenon, <2>2, <2>5, <3>1
      <3>2. CASE /\ probesInFlight' = ReleaseProbe(t) /\ fresh' = [fresh EXCEPT ![t] = FALSE]
                 /\ UNCHANGED state
        BY Zenon, <1>3, <2>1, <3>2
      <3> QED BY Zenon, <2>5, <3>1, <3>2 DEF RecordCall, Open
    <2> QED BY Zenon, <1>4, <2>3, <2>4, <2>5 DEF Settle
  <1>5. ASSUME NEW t \in Tasks, ReleaseCall(t)  PROVE ProbeInv'
    BY <1>3, <1>5, Zenon DEF ReleaseCall
  <1>6. CASE AdmitAndRelease \/ ReadState
    BY Zenon, <1>2, <1>6 DEF AdmitAndRelease, ReadState
  <1>7. CASE BreakerTick \/ UNCHANGED breakerVars
    BY Zenon, <1>7 DEF BreakerTick, breakerVars, ProbeInv
  <1> QED BY Zenon, <1>1, <1>4, <1>5, <1>6, <1>7 DEF BreakerNext

\* If half_open_max_calls is 1, no two requests probe a half-open circuit at once, until
\* an operator overrides it.
THEOREM OneProbeAtATime ==
    ASSUME HalfOpenMaxCalls = 1
    PROVE  Spec => []ProbesWithinLimit
  <1>1. Init => SingleProbe
    BY Zenon DEF Init, BreakerInit, SingleProbe, ProbeInv
  <1>2. IInv /\ SingleProbe /\ [Next]_vars => SingleProbe'
    <2> SUFFICES ASSUME IInv, SingleProbe, [Next]_vars, HalfOpenMaxCalls = 1, ~overridden'
                 PROVE  ProbeInv'
      BY Zenon DEF SingleProbe
    <2>1. ~overridden /\ [BreakerNext]_breakerVars
      BY Zenon, BreakerSteps
    <2> QED BY Zenon, <2>1, BreakerKeepsProbe DEF SingleProbe, IInv, BreakerInv
  <1>3. SingleProbe => ProbesWithinLimit
    <2> SUFFICES ASSUME ProbeInv  PROVE Cardinality(FreshProbes) <= 1
      BY Zenon DEF SingleProbe, ProbesWithinLimit
    <2>1. CASE FreshProbes = {}
      BY <2>1, FS_EmptySet
    <2>2. ASSUME NEW t \in FreshProbes  PROVE Cardinality(FreshProbes) = 1
      <3>1. FreshProbes = {t}
        BY Zenon, <2>2 DEF FreshProbes, ProbeInv
      <3> QED BY Zenon, <3>1, FS_Singleton
    <2> QED BY <2>1, <2>2
  <1> QED BY <1>1, <1>2, <1>3, Invariance, PTL DEF Spec
=============================================================================
