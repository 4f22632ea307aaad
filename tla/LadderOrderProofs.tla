-------------------------- MODULE LadderOrderProofs --------------------------
(***************************************************************************)
(* A partition's records are dealt with in offset order and none is dropped, *)
(* for any number of tiers, partitions, members and records, however members *)
(* join, leave, crash and rebalance, as long as auto_offset_reset is not     *)
(* "latest": a group that starts at the end skips what is before it.         *)
(*                                                                         *)
(* NeverDropped says of every record that it is handled, dead-lettered or    *)
(* still to be read.  It is kept across a hop because the router publishes   *)
(* the copy before the runner counts the record as dealt with, and because   *)
(* the copy has more attempts than the record in hand: it is another record  *)
(* than the one the runner is done with next.                               *)
(***************************************************************************)
EXTENDS RetryLadderProofs

-----------------------------------------------------------------------------
(* The invariant.                                                          *)

\* The first n offsets are in d.
Covered(d, n) == 0..(n - 1) \subseteq d

\* Everything before what m still handles, may commit or reads next was dealt with,
\* except what its batch still holds.
OneOrder(m) ==
    /\ \A p \in DOMAIN todo[m] : Covered(dealt[p], todo[m][p].from)
    /\ \A p \in DOMAIN earned[m] : Covered(dealt[p], earned[m][p])
    /\ \A p \in Assigned(m) :
        \/ Covered(dealt[p], position[m][p])
        \/ p \in DOMAIN todo[m] /\ position[m][p] <= todo[m][p].to

\* Everything before a committed offset, or before one that was dealt with, was dealt with.
CommitsInOrder ==
    \A p \in Partitions :
        Covered(dealt[p], committed[p]) /\ \A o \in dealt[p] : Covered(dealt[p], o + 1)

OrderInv == CommitsInOrder /\ \A m \in Members : OneOrder(m)

\* Record i needs nobody who has read a copy with `a` attempts or fewer.
Kept(i, a) ==
    \/ i \in handled \/ DeadLettered(i)
    \/ \E p \in Partitions : \E k \in 1..Len(log[p]) :
        log[p][k].id = i /\ log[p][k].attempts > a /\ k - 1 \notin dealt[p]

\* While m publishes, the copy on its way outranks the record in its hand, or the record
\* is kept without it.
OneRouted(m) ==
    pc[m] = "publish" =>
        /\ outgoing[m] = NoPublish => Kept(InHand(m).id, InHand(m).attempts)
        /\ outgoing[m] # NoPublish =>
            /\ outgoing[m].record.id = InHand(m).id
            /\ \/ outgoing[m].to = DeadLetterTopic \/ GroupOf[m] = "replay"
               \/ outgoing[m].record.attempts > InHand(m).attempts

\* Every produced record is kept.
KeptInv ==
    /\ \A i \in 1..produced : Kept(i, -1)
    /\ \A m \in Members : OneRouted(m)

\* The inductive invariant.
IInv == TypeInv /\ OrderInv /\ KeptInv

-----------------------------------------------------------------------------
(* Offsets in order.                                                       *)

\* What was dealt with stays dealt with.
DealtGrows == \A p \in Partitions : dealt[p] \subseteq dealt'[p]

\* A larger set covers as much.
LEMMA CoveredMore ==
    ASSUME NEW d, NEW e, NEW n, Covered(d, n), d \subseteq e
    PROVE  Covered(e, n)
  BY Zenon DEF Covered

\* A shorter stretch is covered.
LEMMA CoveredLess ==
    ASSUME NEW d, NEW n \in Int, NEW k \in Int, Covered(d, n), k <= n
    PROVE  Covered(d, k)
  BY DEF Covered

\* The next offset extends the stretch by one.
LEMMA CoveredNext ==
    ASSUME NEW d, NEW o \in Nat, Covered(d, o)
    PROVE  Covered(d \cup {o}, o + 1)
  BY DEF Covered

\* A runner nobody touches keeps its order.
LEMMA SameOrder ==
    ASSUME TypeInv, NEW n \in Members, OneOrder(n), DealtGrows,
           todo'[n] = todo[n], earned'[n] = earned[n], position'[n] = position[n]
    PROVE  OneOrder(n)'
  <1>1. /\ DOMAIN todo[n] \subseteq Partitions /\ DOMAIN earned[n] \subseteq Partitions
        /\ Assigned(n) \subseteq Partitions /\ Assigned(n)' = Assigned(n)
    BY Zenon DEF TypeInv, OneBatch, OnePosition, Assigned
  <1>2. \A p \in DOMAIN todo'[n] : Covered(dealt'[p], todo'[n][p].from)
    BY <1>1, CoveredMore DEF OneOrder, DealtGrows
  <1>3. \A p \in DOMAIN earned'[n] : Covered(dealt'[p], earned'[n][p])
    BY Zenon, <1>1, CoveredMore DEF OneOrder, DealtGrows
  <1>4. \A p \in Assigned(n)' :
            \/ Covered(dealt'[p], position'[n][p])
            \/ p \in DOMAIN todo'[n] /\ position'[n][p] <= todo'[n][p].to
    BY Zenon, <1>1, CoveredMore DEF OneOrder, DealtGrows
  <1> QED BY <1>2, <1>3, <1>4, Zenon DEF OneOrder

\* A step that moves no position and deals with nothing keeps the order.
LEMMA QuietOrder ==
    ASSUME OrderInv, UNCHANGED <<dealt, committed, position, todo, earned>>
    PROVE  OrderInv'
  BY Zenon DEF OrderInv, CommitsInOrder, OneOrder, Assigned

\* Nobody deals with anything when dealt stays.
LEMMA SameDealt ==
    ASSUME dealt' = dealt
    PROVE  DealtGrows
  BY Zenon DEF DealtGrows

\* The record in hand is dealt with: everything in front of it has been.
LEMMA DealOrder ==
    ASSUME TypeInv, OrderInv, NEW m \in Members, pc[m] \in {"handle", "publish"},
           Finish(m), DealtWith(m), committed' = committed
    PROVE  OrderInv'
  <1>1. PICK p : p = Current(m)
    BY Zenon
  <1>2. PICK o : o = CurrentOffset(m)
    BY Zenon
  <1>3. Finished(m, p, o)
    BY Zenon, <1>1, <1>2, FinishEffect
  <1>4. /\ p \in DOMAIN todo[m] /\ p \in Partitions /\ o \in Nat
        /\ o = todo[m][p].from /\ o < todo[m][p].to
    BY Zenon, <1>1, <1>2, InHandFacts DEF CurrentOffset
  <1>5. /\ dealt'[p] = dealt[p] \cup {o}
        /\ \A q \in Partitions : q # p => dealt'[q] = dealt[q]
    <2>1. DOMAIN dealt = Partitions
      BY Zenon DEF TypeInv, CountsInv
    <2> QED BY Zenon, <1>1, <1>2, <1>4, <2>1 DEF DealtWith
  <1>6. DealtGrows
    BY Zenon, <1>5 DEF DealtGrows
  <1>7. OneOrder(m) /\ OneBatch(m) /\ OnePosition(m) /\ CommitsInOrder
    BY Zenon DEF OrderInv, TypeInv
  <1>8. Covered(dealt'[p], o + 1)
    <2>1. Covered(dealt[p], o)
      BY Zenon, <1>4, <1>7 DEF OneOrder
    <2> QED BY <1>4, <1>5, <2>1, CoveredNext
  <1>9. CommitsInOrder'
    <2> SUFFICES ASSUME NEW q \in Partitions
                 PROVE  /\ Covered(dealt'[q], committed'[q])
                        /\ \A x \in dealt'[q] : Covered(dealt'[q], x + 1)
      BY Zenon DEF CommitsInOrder
    <2>1. Covered(dealt'[q], committed'[q])
      BY Zenon, <1>6, <1>7, CoveredMore DEF CommitsInOrder, DealtGrows
    <2>2. ASSUME NEW x \in dealt[q]  PROVE Covered(dealt'[q], x + 1)
      BY Zenon, <1>6, <1>7, CoveredMore DEF CommitsInOrder, DealtGrows
    <2> QED BY Zenon, <1>5, <1>8, <2>1, <2>2
  <1>10. ASSUME NEW n \in Members, n # m  PROVE OneOrder(n)'
    <2>1. todo'[n] = todo[n] /\ earned'[n] = earned[n] /\ position'[n] = position[n]
      BY Zenon, <1>3, <1>10 DEF Finished, OthersGoOn
    <2> QED BY Zenon, <1>6, <2>1, SameOrder DEF OrderInv
  <1>11. OneOrder(m)'
    <2>1. ASSUME NEW q \in DOMAIN todo'[m]  PROVE Covered(dealt'[q], todo'[m][q].from)
      <3>1. /\ q \in DOMAIN todo[m] /\ q \in Partitions
            /\ todo'[m][q].from = IF q = p THEN o + 1 ELSE todo[m][q].from
        BY Zenon, <1>3, <1>7 DEF Finished, OneBatch
      <3>2. Covered(dealt[q], todo[m][q].from)
        BY Zenon, <1>7, <3>1 DEF OneOrder
      <3> QED BY <1>6, <1>8, <3>1, <3>2, CoveredMore DEF DealtGrows
    <2>2. ASSUME NEW q \in DOMAIN earned'[m]  PROVE Covered(dealt'[q], earned'[m][q])
      <3>1. q = p \/ q \in DOMAIN earned[m]
        BY Zenon, <1>3 DEF Finished
      <3>2. CASE q = p
        BY Zenon, <1>3, <1>8, <3>2 DEF Finished
      <3>3. CASE q # p
        <4>1. q \in DOMAIN earned[m] /\ q \in Partitions /\ earned'[m][q] = earned[m][q]
          BY Zenon, <1>3, <1>7, <3>1, <3>3 DEF Finished, OneBatch
        <4>2. Covered(dealt[q], earned[m][q])
          BY Zenon, <1>7, <4>1 DEF OneOrder
        <4> QED BY Zenon, <1>6, <4>1, <4>2, CoveredMore DEF DealtGrows
      <3> QED BY Zenon, <3>2, <3>3
    <2>3. ASSUME NEW q \in Assigned(m)'
          PROVE  \/ Covered(dealt'[q], position'[m][q])
                 \/ q \in DOMAIN todo'[m] /\ position'[m][q] <= todo'[m][q].to
      <3>1. /\ q \in Assigned(m) /\ q \in Partitions /\ position'[m][q] = position[m][q]
            /\ position[m][q] \in Nat
        BY Zenon, <1>3, <1>7 DEF Finished, OnePosition, Assigned
      <3>2. CASE Covered(dealt[q], position[m][q])
        BY Zenon, <1>6, <3>1, <3>2, CoveredMore DEF DealtGrows
      <3>3. CASE q \in DOMAIN todo[m] /\ position[m][q] <= todo[m][q].to
        <4>1. CASE q \in DOMAIN todo'[m]
          BY Zenon, <1>3, <3>1, <3>3, <4>1 DEF Finished
        <4>2. CASE q \notin DOMAIN todo'[m]
          <5>1. q = p /\ o + 1 = todo[m][p].to
            BY Zenon, <1>3, <3>3, <4>2 DEF Finished
          <5>2. position'[m][q] <= o + 1
            BY Zenon, <3>1, <3>3, <5>1
          <5> QED BY <1>4, <1>8, <3>1, <5>1, <5>2, CoveredLess
        <4> QED BY Zenon, <4>1, <4>2
      <3> QED BY Zenon, <1>7, <3>1, <3>2, <3>3 DEF OneOrder
    <2> QED BY <2>1, <2>2, <2>3, Zenon DEF OneOrder
  <1> QED BY <1>9, <1>10, <1>11, Zenon DEF OrderInv

\* The runner goes back to a record: everything in front of it has been dealt with.
LEMMA StallOrder ==
    ASSUME TypeInv, OrderInv, NEW m \in Members, pc[m] \in {"handle", "publish"}, Stall(m),
           committed' = committed, dealt' = dealt
    PROVE  OrderInv'
  <1>1. PICK p : p = Current(m)
    BY Zenon
  <1>2. PICK o : o = CurrentOffset(m)
    BY Zenon
  <1>3. Stalled(m, p, o)
    BY Zenon, <1>1, <1>2, StallEffect
  <1>4. p \in DOMAIN todo[m] /\ o = todo[m][p].from
    BY Zenon, <1>1, <1>2, InHandFacts DEF CurrentOffset
  <1>5. OneOrder(m) /\ CommitsInOrder /\ DealtGrows
    BY Zenon, SameDealt DEF OrderInv
  <1>6. CommitsInOrder'
    BY Zenon, <1>5 DEF CommitsInOrder
  <1>7. ASSUME NEW n \in Members, n # m  PROVE OneOrder(n)'
    <2>1. todo'[n] = todo[n] /\ earned'[n] = earned[n] /\ position'[n] = position[n]
      BY Zenon, <1>3, <1>7 DEF Stalled, OthersGoOn
    <2> QED BY Zenon, <1>5, <2>1, SameOrder DEF OrderInv
  <1>8. OneOrder(m)'
    <2>1. \A q \in DOMAIN todo'[m] : Covered(dealt'[q], todo'[m][q].from)
      BY Zenon, <1>3, <1>5 DEF OneOrder, Stalled
    <2>2. \A q \in DOMAIN earned'[m] : Covered(dealt'[q], earned'[m][q])
      BY Zenon, <1>3, <1>5 DEF OneOrder, Stalled
    <2>3. ASSUME NEW q \in Assigned(m)'
          PROVE  \/ Covered(dealt'[q], position'[m][q])
                 \/ q \in DOMAIN todo'[m] /\ position'[m][q] <= todo'[m][q].to
      <3>1. q \in Assigned(m) /\ position'[m][q] = IF q = p THEN o ELSE position[m][q]
        BY Zenon, <1>3 DEF Stalled
      <3>2. CASE q = p
        BY Zenon, <1>4, <1>5, <3>1, <3>2 DEF OneOrder
      <3>3. CASE q # p
        <4>1. q \in DOMAIN todo[m] => q \in DOMAIN todo'[m] /\ todo'[m][q] = todo[m][q]
          BY Zenon, <1>3, <3>3 DEF Stalled
        <4> QED BY Zenon, <1>5, <3>1, <3>3, <4>1 DEF OneOrder
      <3> QED BY Zenon, <3>2, <3>3
    <2> QED BY <2>1, <2>2, <2>3, Zenon DEF OneOrder
  <1> QED BY <1>6, <1>7, <1>8, Zenon DEF OrderInv

\* A poll goes on where everything before has been dealt with.
LEMMA PollOrder ==
    ASSUME TypeInv, OrderInv, NEW m \in Members, Poll(m), dealt' = dealt
    PROVE  OrderInv'
  <1>1. /\ pc[m] = "poll" /\ committed' = committed /\ earned' = earned
        /\ \A n \in Members : n # m => todo'[n] = todo[n] /\ position'[n] = position[n]
    BY Zenon, PollEffect DEF Poll
  <1>2. OneOrder(m) /\ CommitsInOrder /\ DealtGrows
    BY Zenon, SameDealt DEF OrderInv
  <1>3. CommitsInOrder'
    BY Zenon, <1>1, <1>2 DEF CommitsInOrder
  <1>4. ASSUME NEW n \in Members, n # m  PROVE OneOrder(n)'
    BY Zenon, <1>1, <1>2, <1>4, SameOrder DEF OrderInv
  <1>5. \A q \in Assigned(m) : Covered(dealt'[q], position[m][q])
    <2>1. todo[m] = <<>>
      BY Zenon, <1>1 DEF TypeInv, OnePlace
    <2>2. DOMAIN todo[m] = {}
      BY <2>1
    <2> QED BY Zenon, <1>2, <2>2 DEF OneOrder
  <1>6. OneOrder(m)'
    <2>1. ASSUME NEW q \in DOMAIN todo'[m]  PROVE Covered(dealt'[q], todo'[m][q].from)
      <3>1. q \in Assigned(m) /\ todo'[m][q].from = position[m][q]
        BY Zenon, PollEffect
      <3> QED BY Zenon, <1>5, <3>1
    <2>2. \A q \in DOMAIN earned'[m] : Covered(dealt'[q], earned'[m][q])
      BY Zenon, <1>1, <1>2 DEF OneOrder
    <2>3. ASSUME NEW q \in Assigned(m)'
          PROVE  \/ Covered(dealt'[q], position'[m][q])
                 \/ q \in DOMAIN todo'[m] /\ position'[m][q] <= todo'[m][q].to
      <3>1. q \in Assigned(m) /\ position'[m][q] \in Nat
        BY PollEffect
      <3>2. CASE q \in DOMAIN todo'[m]
        <4>1. todo'[m][q].to = position'[m][q]
          BY Zenon, <3>2, PollEffect
        <4> QED BY <3>1, <3>2, <4>1
      <3>3. CASE q \notin DOMAIN todo'[m]
        <4>1. position'[m][q] = position[m][q]
          BY Zenon, <3>1, <3>3, PollEffect
        <4> QED BY Zenon, <1>5, <3>1, <4>1
      <3> QED BY Zenon, <3>2, <3>3
    <2> QED BY <2>1, <2>2, <2>3, Zenon DEF OneOrder
  <1> QED BY <1>3, <1>4, <1>6, Zenon DEF OrderInv

\* A commit stores what was earned, or nothing.
LEMMA CommitOrder ==
    ASSUME TypeInv, OrderInv, NEW m \in Members, Committed(m), dealt' = dealt,
           \A p \in Partitions : \/ committed'[p] = committed[p]
                                 \/ p \in DOMAIN earned[m] /\ committed'[p] = earned[m][p]
    PROVE  OrderInv'
  <1>1. /\ earned' = [earned EXCEPT ![m] = <<>>] /\ position' = position /\ todo' = todo
        /\ DOMAIN earned = Members
    BY Zenon DEF Committed, TypeInv, PlacesInv
  <1>2. OneOrder(m) /\ CommitsInOrder /\ DealtGrows
    BY Zenon, SameDealt DEF OrderInv
  <1>3. CommitsInOrder'
    <2> SUFFICES ASSUME NEW q \in Partitions
                 PROVE  /\ Covered(dealt'[q], committed'[q])
                        /\ \A x \in dealt'[q] : Covered(dealt'[q], x + 1)
      BY Zenon DEF CommitsInOrder
    <2> QED BY Zenon, <1>2 DEF CommitsInOrder, OneOrder
  <1>4. ASSUME NEW n \in Members, n # m  PROVE OneOrder(n)'
    <2>1. earned'[n] = earned[n] /\ todo'[n] = todo[n] /\ position'[n] = position[n]
      BY Zenon, <1>1, <1>4
    <2> QED BY Zenon, <1>2, <2>1, SameOrder DEF OrderInv
  <1>5. OneOrder(m)'
    <2>1. DOMAIN earned'[m] = {}
      BY <1>1
    <2>2. \A q \in DOMAIN todo'[m] : Covered(dealt'[q], todo'[m][q].from)
      BY Zenon, <1>1, <1>2 DEF OneOrder
    <2>3. \A q \in Assigned(m)' :
            \/ Covered(dealt'[q], position'[m][q])
            \/ q \in DOMAIN todo'[m] /\ position'[m][q] <= todo'[m][q].to
      BY Zenon, <1>1, <1>2 DEF OneOrder, Assigned
    <2> QED BY Zenon, <2>1, <2>2, <2>3 DEF OneOrder
  <1> QED BY <1>3, <1>4, <1>5, Zenon DEF OrderInv

\* A rebalance sends everybody back to what was committed.
LEMMA RebalanceOrder ==
    ASSUME TypeInv, OrderInv, ~Latest, NEW g, NEW ms, Rebalance(g, ms), dealt' = dealt,
           \A n \in Members : \/ todo'[n] = todo[n] /\ earned'[n] = earned[n]
                              \/ GroupOf[n] = g /\ todo'[n] = <<>> /\ earned'[n] = <<>>
    PROVE  OrderInv'
  <1>1. committed' = committed
    BY Zenon DEF Rebalance
  <1>2. CommitsInOrder /\ DealtGrows
    BY Zenon, SameDealt DEF OrderInv
  <1>3. CommitsInOrder'
    BY Zenon, <1>1, <1>2 DEF CommitsInOrder
  <1>4. ASSUME NEW n \in Members  PROVE OneOrder(n)'
    <2>1. OneOrder(n)
      BY Zenon DEF OrderInv
    <2>2. CASE GroupOf[n] # g
      <3>1. position'[n] = position[n] /\ todo'[n] = todo[n] /\ earned'[n] = earned[n]
        BY Zenon, <2>2, RebalancedPositions
      <3> QED BY Zenon, <1>2, <2>1, <3>1, SameOrder
    <2>3. CASE GroupOf[n] = g
      <3>1. \A p \in Assigned(n)' : Covered(dealt'[p], position'[n][p])
        <4> SUFFICES ASSUME NEW p \in Assigned(n)'  PROVE Covered(dealt'[p], position'[n][p])
          BY Zenon
        <4>1. p \in Partitions /\ position'[n][p] = StartingPosition(p)
          BY Zenon, <2>3, RebalancedPositions
        <4>2. Covered(dealt[p], committed[p])
          BY Zenon, <1>2, <4>1 DEF CommitsInOrder
        <4>3. Covered(dealt[p], 0)
          BY DEF Covered
        <4>4. StartingPosition(p) \in {committed[p], 0}
          BY Zenon DEF StartingPosition
        <4> QED BY Zenon, <4>1, <4>2, <4>3, <4>4
      <3>2. \A p \in DOMAIN todo'[n] : Covered(dealt'[p], todo'[n][p].from)
        <4>1. CASE todo'[n] = todo[n]
          BY Zenon, <2>1, <4>1 DEF OneOrder
        <4>2. CASE todo'[n] = <<>>
          BY <4>2
        <4> QED BY Zenon, <4>1, <4>2
      <3>3. \A p \in DOMAIN earned'[n] : Covered(dealt'[p], earned'[n][p])
        <4>1. CASE earned'[n] = earned[n]
          BY Zenon, <2>1, <4>1 DEF OneOrder
        <4>2. CASE earned'[n] = <<>>
          BY <4>2
        <4> QED BY Zenon, <4>1, <4>2
      <3> QED BY <3>1, <3>2, <3>3, Zenon DEF OneOrder
    <2> QED BY Zenon, <2>2, <2>3
  <1> QED BY <1>3, <1>4, Zenon DEF OrderInv
-----------------------------------------------------------------------------
(* Records are kept.                                                       *)

\* Nothing that is kept gets lost.
KeptStays == \A i : \A a \in Int : Kept(i, a) => Kept(i, a)'

\* What is on its way is the same but for what is left of its wait.
SameSending(n) ==
    /\ outgoing'[n] = NoPublish <=> outgoing[n] = NoPublish
    /\ outgoing[n] # NoPublish =>
        /\ outgoing'[n].to = outgoing[n].to
        /\ outgoing'[n].record.id = outgoing[n].record.id
        /\ outgoing'[n].record.attempts = outgoing[n].record.attempts

\* Logs that do not change keep their records.
LEMMA SameLogsKept ==
    ASSUME log' = log
    PROVE  LogsKept
  BY Zenon DEF LogsKept

\* A log is a sequence of records.
LEMMA LogFacts ==
    ASSUME LogsInv, NEW p \in Partitions
    PROVE  /\ log[p] \in Seq(Records) /\ Len(log[p]) \in Nat /\ DOMAIN log[p] = 1..Len(log[p])
           /\ \A k \in 1..Len(log[p]) : log[p][k] \in Records /\ log[p][k].attempts \in Nat
  <1>1. log[p] \in Seq(Records) /\ Len(log[p]) \in Nat /\ DOMAIN log[p] = 1..Len(log[p])
    BY DEF LogsInv
  <1>2. \A r \in Records : r.attempts \in Nat
    BY LadderAssumption DEF Records
  <1> QED BY <1>1, <1>2

\* A dead letter stays in its topic.
LEMMA SameDeadLetters ==
    ASSUME LogsInv, LogsInv', LogGrows, LogsKept, NEW i, DeadLettered(i)
    PROVE  DeadLettered(i)'
  <1>0. PICK p \in Partitions :
            p[1] = DeadLetterTopic /\ \E k \in DOMAIN log[p] : log[p][k].id = i
    BY Zenon DEF DeadLettered
  <1>1. PICK k \in DOMAIN log[p] : log[p][k].id = i
    BY Zenon, <1>0
  <1>2. k \in 1..Len(log[p])
    BY Zenon, <1>1, LogFacts
  <1>3. k \in 1..Len(log'[p]) /\ log'[p][k].id = i
    BY <1>1, <1>2 DEF LogGrows, LogsKept
  <1>4. DOMAIN log'[p] = 1..Len(log'[p])
    BY DEF LogsInv
  <1> QED BY Zenon, <1>0, <1>3, <1>4 DEF DeadLettered

\* A step that deals with nothing keeps every record.
LEMMA SameKept ==
    ASSUME LogsInv, LogsInv', LogGrows, LogsKept, handled' = handled, dealt' = dealt
    PROVE  KeptStays
  <1> SUFFICES ASSUME NEW i, NEW a \in Int, Kept(i, a)  PROVE Kept(i, a)'
    BY Zenon DEF KeptStays
  <1>1. CASE i \in handled
    BY Zenon, <1>1 DEF Kept
  <1>2. CASE DeadLettered(i)
    BY Zenon, <1>2, SameDeadLetters DEF Kept
  <1>3. ASSUME NEW p \in Partitions, NEW k \in 1..Len(log[p]), log[p][k].id = i,
               log[p][k].attempts > a, k - 1 \notin dealt[p]
        PROVE  Kept(i, a)'
    <2>1. k \in 1..Len(log'[p]) /\ log'[p][k].id = i /\ log'[p][k].attempts > a
          /\ k - 1 \notin dealt'[p]
      BY <1>3 DEF LogGrows, LogsKept
    <2> QED BY Zenon, <2>1 DEF Kept
  <1> QED BY Zenon, <1>1, <1>2, <1>3 DEF Kept

\* The record in hand may be dealt with when it was handled or is kept further on.
LEMMA DealKept ==
    ASSUME TypeInv, NEW m \in Members, pc[m] \in {"handle", "publish"}, DealtWith(m),
           log' = log, handled \subseteq handled',
           InHand(m).id \in handled' \/ Kept(InHand(m).id, InHand(m).attempts)
    PROVE  KeptStays
  <1>1. PICK p : p = Current(m)
    BY Zenon
  <1>2. PICK o : o = CurrentOffset(m)
    BY Zenon
  <1>3. PICK r : r = InHand(m)
    BY Zenon
  <1>4. p \in Partitions /\ o \in Nat /\ r = log[p][o + 1] /\ o + 1 \in 1..Len(log[p])
    BY Zenon, <1>1, <1>2, <1>3, InHandFacts
  <1>5. /\ dealt'[p] = dealt[p] \cup {o}
        /\ \A q \in Partitions : q # p => dealt'[q] = dealt[q]
    <2>1. DOMAIN dealt = Partitions
      BY Zenon DEF TypeInv, CountsInv
    <2> QED BY Zenon, <1>1, <1>2, <1>4, <2>1 DEF DealtWith
  <1>6. \A i : DeadLettered(i) => DeadLettered(i)'
    BY Zenon DEF DeadLettered
  <1>7. r.id \in handled' \/ Kept(r.id, r.attempts)
    BY Zenon, <1>3
  <1>8. \A q \in Partitions : \A k \in 1..Len(log[q]) : k \in Int /\ log[q][k].attempts \in Int
    BY LogFacts DEF TypeInv
  <1>9. r.attempts \in Int
    BY Zenon, <1>4, <1>8
  <1> SUFFICES ASSUME NEW i, NEW a \in Int, Kept(i, a)  PROVE Kept(i, a)'
    BY Zenon DEF KeptStays
  <1>10. CASE i \in handled \/ DeadLettered(i)
    BY Zenon, <1>6, <1>10 DEF Kept
  <1>11. ASSUME NEW q \in Partitions, NEW k \in 1..Len(log[q]), log[q][k].id = i,
                log[q][k].attempts > a, k - 1 \notin dealt[q], q # p \/ k # o + 1
         PROVE  Kept(i, a)'
    <2>1. k - 1 \notin dealt'[q]
      BY <1>4, <1>5, <1>8, <1>11
    <2> QED BY Zenon, <1>11, <2>1 DEF Kept
  <1>12. ASSUME i = r.id, r.attempts > a  PROVE Kept(i, a)'
    <2>1. CASE i \in handled' \/ DeadLettered(i)
      BY Zenon, <1>6, <2>1 DEF Kept
    <2>2. CASE ~(i \in handled' \/ DeadLettered(i))
      <3>0. PICK q \in Partitions : \E k \in 1..Len(log[q]) :
                log[q][k].id = i /\ log[q][k].attempts > r.attempts /\ k - 1 \notin dealt[q]
        BY Zenon, <1>7, <1>12, <2>2 DEF Kept
      <3>1. PICK k \in 1..Len(log[q]) :
                log[q][k].id = i /\ log[q][k].attempts > r.attempts /\ k - 1 \notin dealt[q]
        BY Zenon, <3>0
      <3>2. log[q][k].attempts > a /\ log[q][k] # r
        BY <1>8, <1>9, <1>12, <3>1
      <3>3. q # p \/ k # o + 1
        BY Zenon, <1>4, <3>2
      <3> QED BY Zenon, <1>11, <3>1, <3>2, <3>3
    <2> QED BY Zenon, <2>1, <2>2
  <1>13. CASE \E q \in Partitions : \E k \in 1..Len(log[q]) :
                log[q][k].id = i /\ log[q][k].attempts > a /\ k - 1 \notin dealt[q]
    <2>0. PICK q \in Partitions : \E k \in 1..Len(log[q]) :
                log[q][k].id = i /\ log[q][k].attempts > a /\ k - 1 \notin dealt[q]
      BY Zenon, <1>13
    <2>1. PICK k \in 1..Len(log[q]) :
                log[q][k].id = i /\ log[q][k].attempts > a /\ k - 1 \notin dealt[q]
      BY Zenon, <2>0
    <2>2. CASE q = p /\ k = o + 1
      BY Zenon, <1>4, <1>12, <2>1, <2>2
    <2>3. CASE q # p \/ k # o + 1
      BY Zenon, <1>11, <2>1, <2>3
    <2> QED BY Zenon, <2>2, <2>3
  <1> QED BY Zenon, <1>10, <1>13 DEF Kept

\* The first partition of a batch f.
FirstOf(f) == CHOOSE p \in DOMAIN f : \A q \in DOMAIN f : ~Before(q, p)

\* A batch that stays has the same record in hand.
LEMMA SameInHand ==
    ASSUME TypeInv, NEW n \in Members, pc[n] \in {"handle", "publish"}, todo'[n] = todo[n], LogsKept
    PROVE  InHand(n)'.id = InHand(n).id /\ InHand(n)'.attempts = InHand(n).attempts
  <1>1. Current(n) = FirstOf(todo[n]) /\ Current(n)' = FirstOf(todo'[n])
    BY DEF Current, FirstOf
  <1>2. Current(n)' = Current(n)
    BY Zenon, <1>1
  <1>3. CurrentOffset(n)' = CurrentOffset(n)
    BY <1>2 DEF CurrentOffset
  <1>4. InHand(n)' = log'[Current(n)][CurrentOffset(n) + 1]
    BY Zenon, <1>2, <1>3 DEF InHand, Record
  <1>5. /\ Current(n) \in Partitions /\ CurrentOffset(n) + 1 \in 1..Len(log[Current(n)])
        /\ InHand(n) = log[Current(n)][CurrentOffset(n) + 1]
    BY Zenon, InHandFacts
  <1> QED BY Zenon, <1>4, <1>5 DEF LogsKept

\* A runner nobody touches knows as much about its record.
LEMMA SameRouted ==
    ASSUME TypeInv, NEW n \in Members, OneRouted(n), pc'[n] = pc[n], todo'[n] = todo[n],
           SameSending(n), LogsKept, KeptStays
    PROVE  OneRouted(n)'
  <1> SUFFICES ASSUME pc[n] = "publish"  PROVE OneRouted(n)'
    BY DEF OneRouted
  <1>1. PICK i : i = InHand(n).id
    BY Zenon
  <1>2. PICK a : a = InHand(n).attempts
    BY Zenon
  <1>3. InHand(n)'.id = i /\ InHand(n)'.attempts = a
    BY Zenon, <1>1, <1>2, SameInHand
  <1>4. a \in Int
    <2>1. InHand(n) \in Records
      BY Zenon, InHandFacts
    <2> QED BY <1>2, <2>1, LadderAssumption DEF Records
  <1>5. /\ outgoing[n] = NoPublish => Kept(i, a)
        /\ outgoing[n] # NoPublish =>
            /\ outgoing[n].record.id = i
            /\ \/ outgoing[n].to = DeadLetterTopic \/ GroupOf[n] = "replay"
               \/ outgoing[n].record.attempts > a
    BY Zenon, <1>1, <1>2 DEF OneRouted
  <1>6. outgoing'[n] = NoPublish => Kept(i, a)'
    BY Zenon, <1>4, <1>5 DEF SameSending, KeptStays
  <1>7. Kept(i, a)' => Kept(InHand(n).id, InHand(n).attempts)'
    BY Zenon, <1>3 DEF Kept, DeadLettered
  <1>8. outgoing'[n] # NoPublish =>
            /\ outgoing'[n].record.id = InHand(n)'.id
            /\ \/ outgoing'[n].to = DeadLetterTopic \/ GroupOf[n] = "replay"
               \/ outgoing'[n].record.attempts > InHand(n)'.attempts
    BY Zenon, <1>3, <1>5 DEF SameSending
  <1> QED BY Zenon, <1>6, <1>7, <1>8 DEF OneRouted

\* What stays on its way is the same.
LEMMA SameSends ==
    ASSUME NEW n \in Members, outgoing'[n] = outgoing[n]
    PROVE  SameSending(n)
  BY Zenon DEF SameSending

\* A step of m that ends outside a publish, and touches nobody else's batch.
LEMMA RunnerKept ==
    ASSUME TypeInv, KeptInv, KeptStays, NEW m \in Members, pc'[m] # "publish", LogsKept,
           \A n \in Members : n # m => /\ pc'[n] = pc[n] /\ todo'[n] = todo[n]
                                       /\ outgoing'[n] = outgoing[n],
           produced' = produced
    PROVE  KeptInv'
  <1>1. \A i \in 1..produced' : Kept(i, -1)'
    <2>1. -1 \in Int
      OBVIOUS
    <2> QED BY Zenon, <2>1 DEF KeptInv, KeptStays
  <1>2. OneRouted(m)'
    BY Zenon DEF OneRouted
  <1>3. ASSUME NEW n \in Members, n # m  PROVE OneRouted(n)'
    <2>1. SameSending(n)
      BY Zenon, <1>3, SameSends
    <2>2. OneRouted(n)
      BY Zenon DEF KeptInv
    <2> QED BY Zenon, <1>3, <2>1, <2>2, SameRouted
  <1> QED BY <1>1, <1>2, <1>3, Zenon DEF KeptInv

\* A new record is the last of its partition, and nobody has dealt with it.
LEMMA NewCopy ==
    ASSUME TypeInv, NEW p \in Partitions, NEW r, AppendTo(p, r), dealt' = dealt, NEW k,
           k = Len(log[p]) + 1
    PROVE  k \in 1..Len(log'[p]) /\ log'[p][k] = r /\ k - 1 \notin dealt'[p]
  <1>1. log[p] \in Seq(Records) /\ DOMAIN log = Partitions
    BY Zenon DEF TypeInv, LogsInv
  <1>2. log'[p] = Append(log[p], r)
    BY Zenon, <1>1 DEF AppendTo
  <1>3. Len(log[p]) \in Nat /\ Len(log'[p]) = k /\ log'[p][k] = r
    BY <1>1, <1>2
  <1>4. dealt[p] \subseteq 0..(Len(log[p]) - 1)
    BY Zenon DEF TypeInv, CountsInv
  <1> QED BY <1>3, <1>4

\* A record handed to the publisher goes further than the one in hand, or to its end.
LEMMA PublishingKept ==
    ASSUME TypeInv, TypeInv', KeptInv, NEW m \in Members, pc[m] = "handle",
           NEW t, NEW r \in Records, Publishing(m, t, r), r.id = InHand(m).id,
           t = DeadLetterTopic \/ GroupOf[m] = "replay" \/ r.attempts > InHand(m).attempts
    PROVE  KeptInv'
  <1>1. /\ outgoing' = [outgoing EXCEPT ![m] = [to |-> t, record |-> r]]
        /\ pc' = [pc EXCEPT ![m] = "publish"] /\ DOMAIN outgoing = Members /\ DOMAIN pc = Members
        /\ UNCHANGED <<log, todo, produced, handled, dealt>>
    BY Zenon DEF Publishing, brokerVars, TypeInv, PlacesInv
  <1>2. LogGrows /\ LogsKept
    BY Zenon, <1>1, SameLogs, SameLogsKept DEF TypeInv
  <1>3. KeptStays
    BY Zenon, <1>1, <1>2, SameKept DEF TypeInv
  <1>4. \A i \in 1..produced' : Kept(i, -1)'
    <2>1. -1 \in Int
      OBVIOUS
    <2> QED BY Zenon, <1>1, <1>3, <2>1 DEF KeptInv, KeptStays
  <1>5. ASSUME NEW n \in Members, n # m  PROVE OneRouted(n)'
    <2>1. pc'[n] = pc[n] /\ todo'[n] = todo[n] /\ outgoing'[n] = outgoing[n]
      BY Zenon, <1>1, <1>5
    <2>2. SameSending(n) /\ OneRouted(n)
      BY Zenon, <2>1, SameSends DEF KeptInv
    <2> QED BY Zenon, <1>2, <1>3, <2>1, <2>2, SameRouted
  <1>6. OneRouted(m)'
    <2>1. outgoing'[m] = [to |-> t, record |-> r]
      BY Zenon, <1>1
    <2>2. outgoing'[m] # NoPublish
      BY Zenon, <2>1, SomePublish
    <2>3. InHand(m)'.id = InHand(m).id /\ InHand(m)'.attempts = InHand(m).attempts
      BY Zenon, <1>1, <1>2, SameInHand
    <2> QED BY <2>1, <2>2, <2>3 DEF OneRouted
  <1> QED BY <1>4, <1>5, <1>6, Zenon DEF KeptInv

\* A failed record is routed.
LEMMA RouteKept ==
    ASSUME TypeInv, TypeInv', KeptInv, NEW m \in Members, NEW permanent \in BOOLEAN,
           pc[m] = "handle", GroupOf[m] # "replay", RouteOnward(m, permanent)
    PROVE  KeptInv'
  <1> DEFINE r == InHand(m)
             from == Current(m)[1]
             to == IF permanent \/ r.form = "unreadable" THEN DeadLetterTopic
                   ELSE Destination(r.attempts + 1)
             a == Advance(r, from, to)
  <1>1. Publishing(m, to, a)
    BY Zenon DEF RouteOnward
  <1>2. r \in Records /\ Fits(from, r, tries) /\ from \in Subscription[GroupOf[m]]
    BY Zenon, InHandFacts
  <1>3. from \in Topics /\ from # DeadLetterTopic
    BY <1>2, TopicsOfMember, LadderAssumption DEF DeadLetterTopic
  <1>4. r.id = InHand(m).id /\ r.attempts = InHand(m).attempts
    BY Zenon
  <1> HIDE DEF from, r
  <1>5. r.attempts <= Tiers /\ (r.form # "failed" => r.attempts = 0)
    BY Zenon, <1>2, <1>3 DEF Fits
  <1>6. to = IF permanent \/ r.form = "unreadable" THEN DeadLetterTopic
             ELSE Destination(r.attempts + 1)
    BY Zenon
  <1>7. a = Advance(r, from, to)
    BY Zenon
  <1> HIDE DEF a, to
  <1>8. a \in Records /\ a.id = r.id /\ a.attempts = r.attempts + 1
    BY <1>2, <1>3, <1>5, <1>6, <1>7, AdvanceFacts
  <1>9. r.attempts \in Nat
    BY <1>2, LadderAssumption DEF Records
  <1>10. a.id = InHand(m).id /\ a.attempts > InHand(m).attempts
    BY <1>4, <1>8, <1>9
  <1> QED BY Zenon, <1>1, <1>8, <1>10, PublishingKept

\* A dead letter is replayed, and stays in its topic.
LEMMA ReplayKept ==
    ASSUME TypeInv, TypeInv', KeptInv, NEW m \in Members, Replay(m)
    PROVE  KeptInv'
  <1> DEFINE r == InHand(m)
             a == [r EXCEPT !.form = "plain", !.attempts = 0, !.wait = 0,
                            !.replays = @ + 1, !.flagged = FALSE]
  <1>1. pc[m] = "handle" /\ GroupOf[m] = "replay" /\ ~Refused(r) /\ Publishing(m, 0, a)
    BY DEF Replay
  <1>2. r \in Records /\ r.id = InHand(m).id
    BY Zenon, <1>1, InHandFacts
  <1> HIDE DEF r
  <1>3. a \in Records /\ a.id = r.id
    BY <1>1, <1>2, ReplayedFacts, Zenon
  <1> HIDE DEF a
  <1> QED BY Zenon, <1>1, <1>2, <1>3, PublishingKept

\* The drain has only dead letters in hand.
LEMMA DrainInHand ==
    ASSUME TypeInv, NEW m \in Members, pc[m] \in {"handle", "publish"}, GroupOf[m] = "replay"
    PROVE  DeadLettered(InHand(m).id)
  <1>1. PICK p : p = Current(m)
    BY Zenon
  <1>2. PICK k : k = CurrentOffset(m) + 1
    BY Zenon
  <1>3. /\ p \in Partitions /\ p[1] \in Subscription[GroupOf[m]]
        /\ InHand(m) = log[p][k] /\ k \in 1..Len(log[p])
    BY Zenon, <1>1, <1>2, InHandFacts
  <1>4. p[1] = DeadLetterTopic
    BY <1>3, TopicsOfMember, Zenon
  <1>5. k \in DOMAIN log[p]
    BY Zenon, <1>3, LogFacts DEF TypeInv
  <1> QED BY <1>3, <1>4, <1>5 DEF DeadLettered

\* What was published lands further on, or in the dead-letter topic.
LEMMA LandKept ==
    ASSUME TypeInv, TypeInv', LogGrows, LogsKept, KeptInv, NEW m \in Members, Land(m)
    PROVE  KeptInv'
  <1> DEFINE r == outgoing[m].record
             p == PartitionFor(outgoing[m].to, r.id)
  <1>1. /\ outgoing[m] # NoPublish /\ AppendTo(p, r)
        /\ outgoing' = [outgoing EXCEPT ![m] = NoPublish] /\ DOMAIN outgoing = Members
        /\ UNCHANGED <<produced, pc, todo, handled, dealt>>
    BY Zenon DEF Land, historyVars, runnerVars, TypeInv, PlacesInv
  <1>2. outgoing[m].to \in Topics /\ r \in Records /\ r.id \in Ids
    BY Zenon, <1>1 DEF TypeInv, OneOutgoing, Records
  <1>3. p \in Partitions /\ p[1] = outgoing[m].to
    BY Zenon, <1>2, PartitionForTopic
  <1>4. KeptStays
    BY Zenon, <1>1, SameKept DEF TypeInv
  <1>5. \A i \in 1..produced' : Kept(i, -1)'
    <2>1. -1 \in Int
      OBVIOUS
    <2> QED BY Zenon, <1>1, <1>4, <2>1 DEF KeptInv, KeptStays
  <1>6. ASSUME NEW n \in Members, n # m  PROVE OneRouted(n)'
    <2>1. pc'[n] = pc[n] /\ todo'[n] = todo[n] /\ outgoing'[n] = outgoing[n]
      BY Zenon, <1>1, <1>6
    <2>2. SameSending(n) /\ OneRouted(n)
      BY Zenon, <2>1, SameSends DEF KeptInv
    <2> QED BY Zenon, <1>4, <2>1, <2>2, SameRouted
  <1>7. ASSUME pc[m] = "publish"  PROVE Kept(InHand(m).id, InHand(m).attempts)'
    <2>1. PICK i : i = InHand(m).id
      BY Zenon
    <2>2. PICK a : a = InHand(m).attempts
      BY Zenon
    <2>3. InHand(m)'.id = i /\ InHand(m)'.attempts = a
      BY Zenon, <1>1, <1>7, <2>1, <2>2, SameInHand
    <2>4. /\ r.id = i
          /\ outgoing[m].to = DeadLetterTopic \/ GroupOf[m] = "replay" \/ r.attempts > a
      BY Zenon, <1>1, <1>7, <2>1, <2>2 DEF KeptInv, OneRouted
    <2> HIDE DEF r, p
    <2>5. PICK k : k = Len(log[p]) + 1
      BY Zenon
    <2>6. k \in 1..Len(log'[p]) /\ log'[p][k] = r /\ k - 1 \notin dealt'[p]
      BY <1>1, <1>3, <2>5, NewCopy
    <2>7. Kept(i, a)'
      <3>1. CASE outgoing[m].to = DeadLetterTopic
        <4>1. DOMAIN log'[p] = 1..Len(log'[p])
          BY <1>3 DEF TypeInv, LogsInv
        <4>2. DeadLettered(i)'
          BY Zenon, <1>3, <2>4, <2>6, <3>1, <4>1 DEF DeadLettered
        <4> QED BY Zenon, <4>2 DEF Kept
      <3>2. CASE GroupOf[m] = "replay"
        <4>1. DeadLettered(i)
          BY Zenon, <1>7, <2>1, <3>2, DrainInHand
        <4>2. DeadLettered(i)'
          BY Zenon, <4>1, SameDeadLetters DEF TypeInv
        <4> QED BY Zenon, <4>2 DEF Kept
      <3>3. CASE r.attempts > a
        BY Zenon, <1>3, <2>4, <2>6, <3>3 DEF Kept
      <3> QED BY Zenon, <2>4, <3>1, <3>2, <3>3
    <2> QED BY Zenon, <2>3, <2>7 DEF Kept, DeadLettered
  <1>8. OneRouted(m)'
    <2>1. outgoing'[m] = NoPublish /\ pc'[m] = pc[m]
      BY Zenon, <1>1
    <2> QED BY Zenon, <1>7, <2>1 DEF OneRouted
  <1> QED BY <1>5, <1>6, <1>8, Zenon DEF KeptInv

\* A record that is produced has a copy nobody has dealt with.
LEMMA ProduceKept ==
    ASSUME TypeInv, TypeInv', LogGrows, LogsKept, KeptInv,
           NEW t \in 0..Tiers, NEW form \in {"plain", "unreadable"}, Produce(t, form)
    PROVE  KeptInv'
  <1>0. PICK i : i = produced + 1
    BY Zenon
  <1> DEFINE r == Produced(i, form)
             p == PartitionFor(t, i)
  <1>1. /\ produced < MaxProduced /\ produced' = i /\ AppendTo(p, r)
        /\ UNCHANGED <<pc, todo, outgoing, handled, dealt>>
    BY Zenon, <1>0 DEF Produce, runnerVars, historyVars
  <1>2. i \in Ids /\ t \in Topics /\ produced \in Nat
    BY <1>0, <1>1, LadderBounds, LadderAssumption DEF TypeInv, CountsInv, Ids
  <1>3. r.id = i /\ r.attempts = 0
    BY Zenon DEF Produced
  <1>4. p \in Partitions
    BY Zenon, <1>2, PartitionForTopic
  <1>5. KeptStays
    BY Zenon, <1>1, SameKept DEF TypeInv
  <1>6. \A n \in Members : OneRouted(n)'
    <2> SUFFICES ASSUME NEW n \in Members  PROVE OneRouted(n)'
      BY Zenon
    <2>1. SameSending(n) /\ OneRouted(n)
      BY Zenon, <1>1, SameSends DEF KeptInv
    <2> QED BY Zenon, <1>1, <1>5, <2>1, SameRouted
  <1>7. Kept(i, -1)'
    <2> HIDE DEF r, p
    <2>1. PICK k : k = Len(log[p]) + 1
      BY Zenon
    <2>2. k \in 1..Len(log'[p]) /\ log'[p][k] = r /\ k - 1 \notin dealt'[p]
      BY Zenon, <1>1, <1>4, <2>1, NewCopy
    <2>3. log'[p][k].id = i /\ log'[p][k].attempts > -1
      BY <1>3, <2>2
    <2> QED BY Zenon, <1>4, <2>2, <2>3 DEF Kept
  <1>8. \A j \in 1..produced' : Kept(j, -1)'
    <2>1. -1 \in Int
      OBVIOUS
    <2>2. \A j \in 1..produced : Kept(j, -1)'
      BY Zenon, <1>5, <2>1 DEF KeptInv, KeptStays
    <2>3. \A j \in 1..produced' : j \in 1..produced \/ j = i
      BY <1>0, <1>1, <1>2
    <2> QED BY Zenon, <1>7, <2>2, <2>3
  <1> QED BY <1>6, <1>8, Zenon DEF KeptInv

\* Time drops no record.
LEMMA TickKept ==
    ASSUME TypeInv, TypeInv', LogGrows, LogsKept, KeptInv, Tick
    PROVE  KeptInv'
  <1>1. /\ outgoing' = [m \in Members |-> IF outgoing[m] = NoPublish THEN NoPublish
                                          ELSE [outgoing[m] EXCEPT !.record = Aged(@)]]
        /\ UNCHANGED <<produced, pc, todo, handled, dealt>>
    BY Zenon DEF Tick, runnerVars, historyVars
  <1>2. KeptStays
    BY Zenon, <1>1, SameKept DEF TypeInv
  <1>3. ASSUME NEW n \in Members  PROVE SameSending(n)
    <2>1. CASE outgoing[n] = NoPublish
      BY Zenon, <1>1, <2>1 DEF SameSending
    <2>2. CASE outgoing[n] # NoPublish
      <3>1. outgoing[n] \in [to : Topics, record : Records]
        BY Zenon, <2>2 DEF TypeInv, OneOutgoing
      <3>2. PICK r : r = outgoing[n].record
        BY Zenon
      <3>3. outgoing'[n] = [to |-> outgoing[n].to, record |-> Aged(r)] /\ r \in Records
        BY Zenon, <1>1, <2>2, <3>1, <3>2
      <3>4. Aged(r) \in Records /\ Aged(r).id = r.id /\ Aged(r).attempts = r.attempts
        BY Zenon, <3>3, AgedFacts
      <3>5. outgoing'[n] # NoPublish
        BY Zenon, <3>3, <3>4, SomePublish
      <3> QED BY <2>2, <3>2, <3>3, <3>4, <3>5 DEF SameSending
    <2> QED BY Zenon, <2>1, <2>2
  <1>4. ASSUME NEW n \in Members  PROVE OneRouted(n)'
    <2>1. SameSending(n) /\ OneRouted(n)
      BY Zenon, <1>3 DEF KeptInv
    <2> QED BY Zenon, <1>1, <1>2, <2>1, SameRouted
  <1>5. \A i \in 1..produced' : Kept(i, -1)'
    <2>1. -1 \in Int
      OBVIOUS
    <2> QED BY Zenon, <1>1, <1>2, <2>1 DEF KeptInv, KeptStays
  <1> QED BY <1>4, <1>5, Zenon DEF KeptInv

-----------------------------------------------------------------------------
(* The invariant of every step.                                            *)

\* Nothing is dealt with, committed or produced before the first step.
LEMMA InitOrderKept ==
    ASSUME Init
    PROVE  OrderInv /\ KeptInv
  <1>1. /\ committed = [p \in Partitions |-> -1] /\ dealt = [p \in Partitions |-> {}]
        /\ todo = [m \in Members |-> <<>>] /\ earned = [m \in Members |-> <<>>]
        /\ pc = [m \in Members |-> "poll"] /\ produced = 0
        /\ position = [m \in Members |-> [p \in Share(GroupOf[m], m, Roster[GroupOf[m]]) |-> 0]]
    BY Zenon DEF Init, BrokerInit, RunnerInit, NoOffset
  <1>2. CommitsInOrder
    BY <1>1 DEF CommitsInOrder, Covered
  <1>3. ASSUME NEW m \in Members  PROVE OneOrder(m)
    <2>1. DOMAIN todo[m] = {} /\ DOMAIN earned[m] = {}
      BY <1>1
    <2>2. \A p \in Assigned(m) : position[m][p] = 0
      BY Zenon, <1>1 DEF Assigned
    <2>3. \A d : Covered(d, 0)
      BY DEF Covered
    <2> QED BY Zenon, <2>1, <2>2, <2>3 DEF OneOrder
  <1>4. KeptInv
    BY <1>1 DEF KeptInv, OneRouted
  <1> QED BY Zenon, <1>2, <1>3, <1>4 DEF OrderInv

\* A record is gone past once it was handled, routed or refused.
LEMMA DealStep ==
    ASSUME TypeInv, OrderInv, KeptInv, NEW m \in Members, pc[m] \in {"handle", "publish"},
           Finish(m), DealtWith(m), handled \subseteq handled',
           InHand(m).id \in handled' \/ Kept(InHand(m).id, InHand(m).attempts),
           UNCHANGED <<log, committed, outgoing, produced>>
    PROVE  OrderInv' /\ KeptInv'
  <1>1. OrderInv'
    BY Zenon, DealOrder
  <1>2. KeptStays /\ LogsKept
    BY Zenon, DealKept, SameLogsKept
  <1>3. PICK p : p = Current(m)
    BY Zenon
  <1>4. PICK o : o = CurrentOffset(m)
    BY Zenon
  <1>5. Finished(m, p, o)
    BY Zenon, <1>3, <1>4, FinishEffect
  <1>6. /\ pc'[m] # "publish"
        /\ \A n \in Members : n # m => pc'[n] = pc[n] /\ todo'[n] = todo[n]
    BY Zenon, <1>5 DEF Finished, OthersGoOn
  <1> QED BY Zenon, <1>1, <1>2, <1>6, RunnerKept

\* A record that is not gone past stays where it is.
LEMMA StallStep ==
    ASSUME TypeInv, TypeInv', OrderInv, KeptInv, NEW m \in Members,
           pc[m] \in {"handle", "publish"}, Stall(m), Forsake(m),
           UNCHANGED <<log, committed, produced, handled, dealt>>
    PROVE  OrderInv' /\ KeptInv'
  <1>1. OrderInv'
    BY Zenon, StallOrder
  <1>2. KeptStays /\ LogsKept
    BY Zenon, SameLogs, SameLogsKept, SameKept DEF TypeInv
  <1>3. PICK p : p = Current(m)
    BY Zenon
  <1>4. PICK o : o = CurrentOffset(m)
    BY Zenon
  <1>5. Stalled(m, p, o)
    BY Zenon, <1>3, <1>4, StallEffect
  <1>6. /\ pc'[m] # "publish"
        /\ \A n \in Members : n # m => pc'[n] = pc[n] /\ todo'[n] = todo[n]
    BY Zenon, <1>5 DEF Stalled, OthersGoOn
  <1>7. \A n \in Members : n # m => outgoing'[n] = outgoing[n]
    BY Zenon DEF Forsake, TypeInv, PlacesInv
  <1> QED BY Zenon, <1>1, <1>2, <1>6, <1>7, RunnerKept

\* A step of the consumer that looks at no record.
LEMMA ConsumerKept ==
    ASSUME TypeInv, TypeInv', KeptInv, NEW m \in Members, NEW place,
           place # "publish", pc' = [pc EXCEPT ![m] = place],
           \A n \in Members : n # m => todo'[n] = todo[n] /\ outgoing'[n] = outgoing[n],
           UNCHANGED <<log, produced, handled, dealt>>
    PROVE  KeptInv'
  <1>1. KeptStays /\ LogsKept
    BY Zenon, SameLogs, SameLogsKept, SameKept DEF TypeInv
  <1>2. pc'[m] # "publish" /\ \A n \in Members : n # m => pc'[n] = pc[n]
    BY Zenon DEF TypeInv, PlacesInv
  <1> QED BY Zenon, <1>1, <1>2, RunnerKept

\* A runner starts, or goes away.
LEMMA MembershipSteps ==
    ASSUME TypeInv, TypeInv', OrderInv, KeptInv, ~Latest, NEW m \in Members,
           Restart(m) \/ Leave(m)
    PROVE  OrderInv' /\ KeptInv'
  <1>1. CASE Restart(m)
    <2>1. PICK g, ms : Rebalance(g, ms)
      BY Zenon, <1>1 DEF Restart, Join, JoinGroup
    <2>2. /\ pc' = [pc EXCEPT ![m] = "poll"]
          /\ UNCHANGED <<todo, earned, outgoing, produced, handled, dealt>>
      BY Zenon, <1>1 DEF Restart, Join, historyVars
    <2>3. log' = log
      BY Zenon, <2>1 DEF Rebalance
    <2>4. OrderInv'
      BY Zenon, <2>1, <2>2, RebalanceOrder
    <2>5. KeptInv'
      BY <2>2, <2>3, ConsumerKept, Zenon
    <2> QED BY Zenon, <2>4, <2>5
  <1>2. CASE Leave(m)
    <2>1. PICK ms : Rebalance(GroupOf[m], ms)
      BY Zenon, <1>2 DEF Leave, Quit, LeaveGroup
    <2>2. /\ pc' = [pc EXCEPT ![m] = "off"] /\ todo' = [todo EXCEPT ![m] = <<>>]
          /\ earned' = [earned EXCEPT ![m] = <<>>] /\ Forsake(m)
          /\ UNCHANGED <<produced, handled, dealt>>
      BY Zenon, <1>2 DEF Leave, Quit, historyVars
    <2>3. log' = log
      BY Zenon, <2>1 DEF Rebalance
    <2>4. DOMAIN todo = Members /\ DOMAIN earned = Members /\ DOMAIN outgoing = Members
      BY Zenon DEF TypeInv, PlacesInv
    <2>5. /\ todo'[m] = <<>> /\ earned'[m] = <<>>
          /\ \A n \in Members : n # m => todo'[n] = todo[n] /\ earned'[n] = earned[n]
      BY Zenon, <2>2, <2>4
    <2>6. \A n \in Members : n # m => outgoing'[n] = outgoing[n]
      BY Zenon, <2>2, <2>4 DEF Forsake
    <2>7. OrderInv'
      BY Zenon, <2>1, <2>2, <2>5, RebalanceOrder
    <2>8. KeptInv'
      BY Zenon, <2>2, <2>3, <2>5, <2>6, ConsumerKept
    <2> QED BY Zenon, <2>7, <2>8
  <1> QED BY Zenon, <1>1, <1>2

\* A member polls, or commits its batch.
LEMMA PollCommitSteps ==
    ASSUME TypeInv, TypeInv', OrderInv, KeptInv, NEW m \in Members,
           PollOnce(m) \/ CommitOnce(m) \/ CommitLost(m)
    PROVE  OrderInv' /\ KeptInv'
  <1>1. CASE PollOnce(m)
    <2>1. Poll(m) /\ UNCHANGED <<outgoing, produced, handled, dealt>>
      BY Zenon, <1>1 DEF PollOnce, historyVars
    <2>2. /\ log' = log /\ pc' = [pc EXCEPT ![m] = "handle"]
          /\ \A n \in Members : n # m => todo'[n] = todo[n]
      BY Zenon, <2>1, PollEffect DEF Poll
    <2>3. OrderInv'
      BY Zenon, <2>1, PollOrder
    <2>4. KeptInv'
      BY Zenon, <2>1, <2>2, ConsumerKept
    <2> QED BY Zenon, <2>3, <2>4
  <1>2. CASE CommitOnce(m) \/ CommitLost(m)
    <2>1. Committed(m) /\ UNCHANGED <<outgoing, produced, handled, dealt>>
      BY Zenon, <1>2 DEF CommitOnce, CommitLost, Commit, CommitFails, historyVars
    <2>2. log' = log /\ pc' = [pc EXCEPT ![m] = "poll"] /\ todo' = todo
      BY Zenon, <2>1 DEF Committed
    <2>3. \A p \in Partitions : \/ committed'[p] = committed[p]
                                \/ p \in DOMAIN earned[m] /\ committed'[p] = earned[m][p]
      <3>1. CASE CommitOnce(m)
        <4>1. CommitOffsets(m, earned[m])
          BY Zenon, <3>1 DEF CommitOnce, Commit
        <4> QED BY Zenon, <2>2, <4>1, CommitOffsetsTypes
      <3>2. CASE CommitLost(m)
        BY Zenon, <3>2 DEF CommitLost, CommitFails
      <3> QED BY Zenon, <1>2, <3>1, <3>2
    <2>4. OrderInv'
      BY Zenon, <2>1, <2>3, CommitOrder
    <2>5. KeptInv'
      BY Zenon, <2>1, <2>2, ConsumerKept
    <2> QED BY Zenon, <2>4, <2>5
  <1> QED BY Zenon, <1>1, <1>2

\* The record in hand gets an answer.
LEMMA HandleSteps ==
    ASSUME TypeInv, TypeInv', OrderInv, KeptInv, NEW m \in Members, HandleOne(m)
    PROVE  OrderInv' /\ KeptInv'
  <1>1. CASE HandlerReturns(m)
    <2>1. /\ pc[m] = "handle" /\ Finish(m) /\ DealtWith(m)
          /\ handled' = handled \cup {InHand(m).id}
          /\ UNCHANGED <<log, committed, outgoing, produced>>
      BY Zenon, <1>1 DEF HandlerReturns, Reaches
    <2>2. handled \subseteq handled' /\ InHand(m).id \in handled'
      BY Zenon, <2>1
    <2> QED BY Zenon, <2>1, <2>2, DealStep
  <1>2. CASE Defer(m)
    <2>1. /\ pc[m] = "handle" /\ Stall(m) /\ outgoing' = outgoing
          /\ UNCHANGED <<log, committed, produced, handled, dealt>>
      BY Zenon, <1>2 DEF Defer, historyVars
    <2>2. Forsake(m)
      BY Zenon, <2>1 DEF Forsake
    <2> QED BY Zenon, <2>1, <2>2, StallStep
  <1>3. CASE CannotRead(m)
    <2>1. /\ pc[m] = "handle" /\ GroupOf[m] # "replay" /\ RouteOnward(m, FALSE)
      BY <1>3, Zenon DEF CannotRead
    <2>2. UNCHANGED <<dealt, committed, position, todo, earned>>
      BY Zenon, <2>1 DEF RouteOnward, Publishing, brokerVars
    <2>3. PICK permanent \in BOOLEAN : RouteOnward(m, permanent)
      BY <2>1, Zenon
    <2> QED BY Zenon, <2>1, <2>2, <2>3, QuietOrder, RouteKept
  <1>4. CASE Replay(m)
    <2>1. UNCHANGED <<dealt, committed, position, todo, earned>>
      BY Zenon, <1>4 DEF Replay, Publishing, brokerVars
    <2> QED BY Zenon, <1>4, <2>1, QuietOrder, ReplayKept
  <1>5. CASE ReplayRefused(m)
    <2>1. /\ pc[m] = "handle" /\ GroupOf[m] = "replay" /\ Finish(m) /\ DealtWith(m)
          /\ UNCHANGED <<log, committed, outgoing, produced, handled>>
      BY Zenon, <1>5 DEF ReplayRefused
    <2>2. Kept(InHand(m).id, InHand(m).attempts)
      BY Zenon, <2>1, DrainInHand DEF Kept
    <2> QED BY Zenon, <2>1, <2>2, DealStep
  <1>6. ASSUME NEW permanent \in BOOLEAN, HandlerRaises(m, permanent)
        PROVE  OrderInv' /\ KeptInv'
    <2>1. /\ pc[m] = "handle" /\ GroupOf[m] # "replay" /\ RouteOnward(m, permanent)
      BY Zenon, <1>6 DEF HandlerRaises, Reaches
    <2>2. UNCHANGED <<dealt, committed, position, todo, earned>>
      BY Zenon, <2>1 DEF RouteOnward, Publishing, brokerVars
    <2> QED BY Zenon, <2>1, <2>2, QuietOrder, RouteKept
  <1> QED BY Zenon, <1>1, <1>2, <1>3, <1>4, <1>5, <1>6 DEF HandleOne

\* Every step keeps the order of offsets and every record.
LEMMA NextIInv ==
    ASSUME IInv, [Next]_vars, ~Latest
    PROVE  IInv'
  <1>1. TypeInv /\ OrderInv /\ KeptInv
    BY Zenon DEF IInv
  <1>2. TypeInv'
    BY Zenon, <1>1, NextTypes
  <1>3. CASE Tick
    <2>1. UNCHANGED <<dealt, committed, position, todo, earned>>
      BY Zenon, <1>3 DEF Tick, runnerVars, historyVars
    <2>2. LogGrows /\ LogsKept
      BY Zenon, <1>1, <1>3, TickTypes
    <2> QED BY Zenon, <1>1, <1>2, <1>3, <2>1, <2>2, QuietOrder, TickKept DEF IInv
  <1>4. ASSUME NEW t \in 0..Tiers, NEW form \in {"plain", "unreadable"}, Produce(t, form)
        PROVE  IInv'
    <2>1. UNCHANGED <<dealt, committed, position, todo, earned>>
      BY Zenon, <1>4 DEF Produce, runnerVars, historyVars
    <2>2. LogGrows /\ LogsKept
      BY Zenon, <1>1, <1>4, ProduceTypes
    <2> QED BY Zenon, <1>1, <1>2, <1>4, <2>1, <2>2, QuietOrder, ProduceKept DEF IInv
  <1>5. ASSUME NEW m \in Members, Land(m)  PROVE IInv'
    <2>1. UNCHANGED <<dealt, committed, position, todo, earned>>
      BY Zenon, <1>5 DEF Land, runnerVars, historyVars
    <2>2. LogGrows /\ LogsKept
      BY Zenon, <1>1, <1>5, LandTypes
    <2> QED BY Zenon, <1>1, <1>2, <1>5, <2>1, <2>2, QuietOrder, LandKept DEF IInv
  <1>6. ASSUME NEW m \in Members, Published(m)  PROVE IInv'
    <2>1. /\ pc[m] = "publish" /\ outgoing[m] = NoPublish /\ Finish(m) /\ DealtWith(m)
          /\ UNCHANGED <<log, committed, outgoing, produced, handled>>
      BY Zenon, <1>6 DEF Published
    <2>2. Kept(InHand(m).id, InHand(m).attempts)
      BY Zenon, <1>1, <2>1 DEF KeptInv, OneRouted
    <2> QED BY Zenon, <1>1, <1>2, <2>1, <2>2, DealStep DEF IInv
  <1>7. ASSUME NEW m \in Members, HandlerTimesOut(m) \/ PublishFails(m)  PROVE IInv'
    <2>1. /\ pc[m] \in {"handle", "publish"} /\ Stall(m) /\ Forsake(m)
          /\ UNCHANGED <<log, committed, produced, handled, dealt>>
      BY Zenon, <1>7 DEF HandlerTimesOut, Reaches, PublishFails, OnPublishError, Forsake, historyVars
    <2> QED BY Zenon, <1>1, <1>2, <2>1, StallStep DEF IInv
  <1>8. ASSUME NEW m \in Members, HandleOne(m)  PROVE IInv'
    BY Zenon, <1>1, <1>2, <1>8, HandleSteps DEF IInv
  <1>9. ASSUME NEW m \in Members, Restart(m) \/ Leave(m)  PROVE IInv'
    BY Zenon, <1>1, <1>2, <1>9, MembershipSteps DEF IInv
  <1>10. ASSUME NEW m \in Members, PollOnce(m) \/ CommitOnce(m) \/ CommitLost(m)  PROVE IInv'
    BY Zenon, <1>1, <1>2, <1>10, PollCommitSteps DEF IInv
  <1>11. CASE UNCHANGED vars
    <2>1. /\ UNCHANGED <<dealt, committed, position, todo, earned>>
          /\ UNCHANGED <<log, pc, outgoing, produced, handled>>
      BY Zenon, <1>11 DEF vars, brokerVars, runnerVars, historyVars
    <2>2. KeptStays /\ LogsKept
      BY Zenon, <1>1, <1>2, <2>1, SameLogs, SameLogsKept, SameKept DEF TypeInv
    <2>3. \A n \in Members : OneRouted(n)'
      BY Zenon, <1>1, <2>1, <2>2, SameSends, SameRouted DEF KeptInv
    <2>4. \A i \in 1..produced' : Kept(i, -1)'
      <3>1. -1 \in Int
        OBVIOUS
      <3> QED BY Zenon, <1>1, <2>1, <2>2, <3>1 DEF KeptInv, KeptStays
    <2>5. KeptInv'
      BY <2>3, <2>4, Zenon DEF KeptInv
    <2> QED BY Zenon, <1>1, <1>2, <2>1, <2>5, QuietOrder DEF IInv
  <1> QED BY Zenon, <1>3, <1>4, <1>5, <1>6, <1>7, <1>8, <1>9, <1>10, <1>11 DEF Next

\* With auto_offset_reset = "earliest" the invariant holds in every reachable state.
THEOREM LadderInvariance ==
    ASSUME ~Latest
    PROVE  Spec => []IInv
  <1>1. Init => IInv
    BY Zenon, InitTypes, InitOrderKept DEF IInv
  <1>2. IInv /\ [Next]_vars => IInv'
    BY Zenon, NextIInv
  <1> QED BY <1>1, <1>2, PTL DEF Spec

\* InOffsetOrder: a partition is dealt with in offset order, and no commit goes further.
THEOREM DealtInOffsetOrder ==
    ASSUME ~Latest
    PROVE  Spec => []InOffsetOrder
  <1>1. IInv => InOffsetOrder
    <2> SUFFICES ASSUME IInv, NEW p \in Partitions
                 PROVE  /\ \A o \in dealt[p] : 0..o \subseteq dealt[p]
                        /\ committed[p] <= Cardinality(dealt[p])
      BY Zenon DEF InOffsetOrder
    <2>1. /\ dealt[p] \subseteq 0..(Len(log[p]) - 1) /\ Len(log[p]) \in Nat
          /\ committed[p] \in Int /\ committed[p] >= -1
      BY DEF IInv, TypeInv, CountsInv, CommittedInv, LogsInv, EndOffset, NoOffset
    <2>2. Covered(dealt[p], committed[p]) /\ \A o \in dealt[p] : Covered(dealt[p], o + 1)
      BY Zenon DEF IInv, OrderInv, CommitsInOrder
    <2>3. \A o \in dealt[p] : 0..o \subseteq dealt[p]
      <3> SUFFICES ASSUME NEW o \in dealt[p]  PROVE 0..o \subseteq dealt[p]
        BY Zenon
      <3>1. o \in Int /\ (o + 1) - 1 = o
        BY <2>1
      <3> QED BY Zenon, <2>2, <3>1 DEF Covered
    <2>4. committed[p] <= Cardinality(dealt[p])
      <3>0. IsFiniteSet(0..(Len(log[p]) - 1))
        <4>1. 0 \in Int /\ Len(log[p]) - 1 \in Int
          BY <2>1
        <4> QED BY Zenon, <4>1, FS_Interval
      <3>1. IsFiniteSet(dealt[p]) /\ Cardinality(dealt[p]) \in Nat
        BY Zenon, <2>1, <3>0, FS_Subset, FS_CardinalityType
      <3>2. CASE committed[p] < 1
        BY <2>1, <3>1, <3>2
      <3>3. CASE committed[p] >= 1
        <4>1. 0..(committed[p] - 1) \subseteq dealt[p]
          BY Zenon, <2>2 DEF Covered
        <4>2. Cardinality(0..(committed[p] - 1)) = committed[p]
          BY <2>1, <3>3, FS_Interval
        <4> QED BY Zenon, <3>1, <4>1, <4>2, FS_Subset
      <3> QED BY <2>1, <3>2, <3>3
    <2> QED BY Zenon, <2>3, <2>4
  <1> QED BY <1>1, LadderInvariance, PTL

\* NeverDropped: "A record is never dropped" by the ladder, whatever is cancelled, lost
\* or repeated and however partitions move.
THEOREM RecordsAreKept ==
    ASSUME ~Latest
    PROVE  Spec => []NeverDropped
  <1>1. IInv => NeverDropped
    <2> SUFFICES ASSUME IInv, NEW i \in 1..produced, i \notin handled, ~DeadLettered(i)
                 PROVE  Ahead(i) # {}
      BY Zenon DEF NeverDropped
    <2>1. PICK p \in Partitions : \E k \in 1..Len(log[p]) :
              log[p][k].id = i /\ log[p][k].attempts > -1 /\ k - 1 \notin dealt[p]
      BY Zenon DEF IInv, KeptInv, Kept
    <2>2. PICK k \in 1..Len(log[p]) : log[p][k].id = i /\ k - 1 \notin dealt[p]
      BY Zenon, <2>1
    <2>3. Len(log[p]) \in Nat /\ DOMAIN log[p] = 1..Len(log[p]) /\ committed[p] \in Int
      BY Zenon, LogFacts DEF IInv, TypeInv, CommittedInv
    <2>4. 0..(committed[p] - 1) \subseteq dealt[p]
      BY Zenon DEF IInv, OrderInv, CommitsInOrder, Covered
    <2>5. k > committed[p] /\ k > 0
      BY <2>2, <2>3, <2>4
    <2>6. k > StartingPosition(p)
      BY Zenon, <2>5 DEF StartingPosition
    <2> QED BY Zenon, <2>2, <2>3, <2>6 DEF Ahead
  <1> QED BY <1>1, LadderInvariance, PTL
=============================================================================
