-------------------------- MODULE RetryLadderProofs --------------------------
(***************************************************************************)
(* The types of the retry ladder, and that no record is dead-lettered before *)
(* its attempts were made, for any number of tiers, partitions, group        *)
(* members and records.                                                    *)
(*                                                                         *)
(* TypeOK is not inductive alone.  A runner keeps offsets across an await:   *)
(* in its positions, in the batch it handles and in the offsets it has       *)
(* earned.  They stay inside the logs because the logs only grow.  The       *)
(* attempts in a record's headers stay below what its handlers have failed   *)
(* because the router stamps a copy only after one more failure.            *)
(***************************************************************************)
EXTENDS FiniteSetTheorems, SequenceTheorems, TLAPS, RetryLadder

-----------------------------------------------------------------------------
(* The invariant.                                                          *)

\* Headers of a record in topic t, when the handlers have failed so often.
Fits(t, r, failures) ==
    /\ t # DeadLetterTopic => r.attempts <= Tiers
    /\ r.form # "failed" => r.attempts = 0
    /\ r.form = "failed" /\ r.origin = 0 => r.attempts <= failures[r.id]

\* The logs hold records whose headers fit their topic.
LogsInv ==
    /\ log \in [Partitions -> Seq(Records)]
    /\ \A p \in Partitions : \A k \in 1..Len(log[p]) : Fits(p[1], log[p][k], tries)

\* The counters are within their bounds, and only offsets of the log are dealt with.
CountsInv ==
    /\ produced \in 0..MaxProduced /\ faults \in 0..MaxFaults
    /\ handled \subseteq Ids /\ tries \in [Ids -> 0..(Tiers + 1)]
    /\ dealt \in [Partitions -> SUBSET Nat]
    /\ \A p \in Partitions : dealt[p] \subseteq 0..(Len(log[p]) - 1)

\* What a group has committed is in the log.
CommittedInv ==
    /\ committed \in [Partitions -> Int]
    /\ \A p \in Partitions : committed[p] \in NoOffset..EndOffset(p)

\* A group lists each of its members once.
MembersInv ==
    /\ DOMAIN members = Groups
    /\ \A g \in Groups : members[g] \in Seq(Members) /\ IsInjective(members[g])

\* Where m reads on: in its own topics, not past the end.
OnePosition(m) ==
    /\ position[m] \in [Assigned(m) -> Nat] /\ Assigned(m) \subseteq Partitions
    /\ \A p \in Assigned(m) :
        p[1] \in Subscription[GroupOf[m]] /\ position[m][p] <= EndOffset(p)

\* What m has polled and not finished, and what it may commit, is in the log.
OneBatch(m) ==
    /\ todo[m] \in [DOMAIN todo[m] -> [from : Nat, to : Nat]]
    /\ DOMAIN todo[m] \subseteq Partitions
    /\ \A p \in DOMAIN todo[m] :
        /\ p[1] \in Subscription[GroupOf[m]]
        /\ todo[m][p].from < todo[m][p].to /\ todo[m][p].to <= EndOffset(p)
    /\ earned[m] \in [DOMAIN earned[m] -> Nat]
    /\ DOMAIN earned[m] \subseteq Partitions
    /\ \A p \in DOMAIN earned[m] : 1 <= earned[m][p] /\ earned[m][p] <= EndOffset(p)

\* m is off when its group does not list it, and has work left while it handles.
OnePlace(m) ==
    /\ (pc[m] = "off") <=> ~Joined(m)
    /\ (pc[m] \in {"handle", "publish"}) <=> (todo[m] # <<>>)

\* What m is about to publish fits the topic it goes to.
OneOutgoing(m) ==
    outgoing[m] # NoPublish => /\ outgoing[m] \in [to : Topics, record : Records]
                               /\ Fits(outgoing[m].to, outgoing[m].record, tries)

\* Every member has its part of the state.
PlacesInv ==
    /\ DOMAIN position = Members /\ DOMAIN todo = Members /\ DOMAIN earned = Members
    /\ DOMAIN outgoing = Members
    /\ pc \in [Members -> {"off", "poll", "handle", "publish", "commit"}]

\* The inductive invariant of this module.
TypeInv ==
    /\ LogsInv /\ CountsInv /\ CommittedInv /\ MembersInv /\ PlacesInv
    /\ \A m \in Members : OnePosition(m) /\ OneBatch(m) /\ OnePlace(m) /\ OneOutgoing(m)

-----------------------------------------------------------------------------
(* Groups, topics, partitions.                                             *)

\* A member belongs to a group that lists it.
LEMMA GroupOfMember ==
    ASSUME NEW m \in Members
    PROVE  GroupOf[m] \in Groups /\ \E i \in DOMAIN Roster[GroupOf[m]] : Roster[GroupOf[m]][i] = m
  BY Zenon DEF Members, GroupOf

\* Whoever a group lists belongs to it.
LEMMA RosterMembers ==
    ASSUME NEW g \in Groups
    PROVE  Roster[g] \in Seq(Members) /\ IsInjective(Roster[g])
  <1>1. Roster[g] \in Seq(Range(Roster[g])) /\ IsInjective(Roster[g])
    BY Zenon, GroupAssumption
  <1>2. \A i \in 1..Len(Roster[g]) : Roster[g][i] \in Members
    BY <1>1 DEF Members
  <1> QED BY <1>1, <1>2

\* Only the drain reads the dead-letter topic.
LEMMA TopicsOfMember ==
    ASSUME NEW m \in Members, NEW t \in Subscription[GroupOf[m]]
    PROVE  /\ t \in Topics /\ t \in Nat
           /\ GroupOf[m] = "replay" => t = DeadLetterTopic
           /\ GroupOf[m] # "replay" => t \in 0..Tiers
           /\ GroupOf[m] = "retry" => t # 0
  <1>1. GroupOf[m] \in {"origin", "retry", "replay"}
    BY Zenon, GroupOfMember, LadderGroups
  <1>2. Subscription[GroupOf[m]] = CASE GroupOf[m] = "origin" -> {0}
                                     [] GroupOf[m] = "retry" -> 1..Tiers
                                     [] GroupOf[m] = "replay" -> {Tiers + 1}
    BY Zenon, GroupOfMember, LadderGroups
  <1> QED BY <1>1, <1>2, LadderAssumption DEF DeadLetterTopic

\* A partition is a topic with a number.
LEMMA PartitionParts ==
    ASSUME NEW p \in Partitions
    PROVE  p[1] \in Topics /\ p[1] \in Nat /\ p[2] \in Nat
  <1>1. PICK t \in Topics : p \in {t} \X (0..(Width[t] - 1))
    BY Zenon DEF Partitions
  <1> QED BY <1>1, TopicAssumption

\* A record goes to a partition of its topic.
LEMMA PartitionForTopic ==
    ASSUME NEW t \in Topics, NEW i \in Ids
    PROVE  PartitionFor(t, i) \in Partitions /\ PartitionFor(t, i)[1] = t
  <1>1. Width[t] \in Nat \ {0} /\ i \in Nat
    BY TopicAssumption, LadderBounds DEF Ids
  <1>2. i % Width[t] \in 0..(Width[t] - 1)
    BY <1>1
  <1>3. <<t, i % Width[t]>> \in {t} \X (0..(Width[t] - 1))
    BY Zenon, <1>2
  <1> QED BY Zenon, <1>3 DEF Partitions, PartitionFor

\* A set of numbers that is not empty has a least one.
LEMMA LeastNumber ==
    ASSUME NEW S \in SUBSET Nat, S # {}
    PROVE  \E i \in S : \A j \in S : i <= j
  <1> DEFINE Less == {p \in Nat \X Nat : p[1] < p[2]}
  <1>1. IsWellFoundedOn(Less, Nat)
    BY ONLY NatLessThanWellFounded, Zenon DEF OpToRel
  <1> HIDE DEF Less
  <1>2. PICK i \in S : \A j \in S : ~(<<j, i>> \in Less)
    BY Zenon, <1>1, WFMin
  <1>3. ASSUME NEW j \in S  PROVE i <= j
    <2>1. <<j, i>> \in Nat \X Nat /\ <<j, i>>[1] = j /\ <<j, i>>[2] = i
      BY Zenon
    <2>2. ~(j < i)
      BY Zenon, <1>2, <2>1 DEF Less
    <2> QED BY <2>2
  <1> QED BY Zenon, <1>3

\* Some partition comes first.
LEMMA FirstPartition ==
    ASSUME NEW S \in SUBSET Partitions, S # {}
    PROVE  \E p \in S : \A q \in S : ~Before(q, p)
  <1>1. \A p \in S : p[1] \in Nat /\ p[2] \in Nat
    BY Zenon, PartitionParts
  <1>2. PICK t \in {p[1] : p \in S} : \A u \in {p[1] : p \in S} : t <= u
    <2>1. {p[1] : p \in S} \in SUBSET Nat /\ {p[1] : p \in S} # {}
      BY Zenon, <1>1
    <2> QED BY <2>1, LeastNumber, Zenon
  <1> DEFINE here == {p \in S : p[1] = t}
  <1>3. PICK n \in {p[2] : p \in here} : \A u \in {p[2] : p \in here} : n <= u
    <2>1. {p[2] : p \in here} \in SUBSET Nat /\ {p[2] : p \in here} # {}
      BY Zenon, <1>1, <1>2
    <2> QED BY <2>1, LeastNumber, Zenon
  <1>4. PICK p \in here : p[2] = n
    BY Zenon, <1>3
  <1>5. ASSUME NEW q \in S  PROVE ~Before(q, p)
    <2>1. p \in S /\ p[1] = t /\ t \in Nat /\ n \in Nat /\ p[2] = n
      BY Zenon, <1>1, <1>4
    <2>2. q[1] \in Nat /\ q[2] \in Nat /\ t <= q[1]
      BY Zenon, <1>1, <1>2
    <2>3. q[1] = t => n <= q[2]
      BY Zenon, <1>3
    <2> QED BY <2>1, <2>2, <2>3 DEF Before
  <1> QED BY Zenon, <1>4, <1>5

\* A function without arguments is the empty sequence.
LEMMA EmptyFunction ==
    ASSUME NEW S, NEW f, f \in [DOMAIN f -> S]
    PROVE  f = <<>> <=> DOMAIN f = {}
  OBVIOUS

\* A record handed to the publisher is told from none.
LEMMA SomePublish ==
    ASSUME NEW t, NEW r \in Records
    PROVE  [to |-> t, record |-> r] # NoPublish
  <1>1. "id" \in DOMAIN r
    BY Zenon DEF Records
  <1>2. r # <<>>
    BY <1>1
  <1> QED BY Zenon, <1>2 DEF NoPublish

-----------------------------------------------------------------------------
(* The record in hand.                                                     *)

\* A runner inside a batch has a record of its group's topics in hand.
LEMMA InHandFacts ==
    ASSUME TypeInv, NEW m \in Members, pc[m] \in {"handle", "publish"}
    PROVE  /\ Current(m) \in DOMAIN todo[m] /\ Current(m) \in Partitions
           /\ Current(m)[1] \in Subscription[GroupOf[m]]
           /\ CurrentOffset(m) \in Nat /\ CurrentOffset(m) + 1 \in 1..Len(log[Current(m)])
           /\ CurrentOffset(m) < todo[m][Current(m)].to
           /\ InHand(m) = log[Current(m)][CurrentOffset(m) + 1]
           /\ InHand(m) \in Records /\ Fits(Current(m)[1], InHand(m), tries)
  <1>1. OneBatch(m) /\ todo[m] # <<>> /\ LogsInv
    BY Zenon DEF TypeInv, OnePlace
  <1>2. DOMAIN todo[m] # {} /\ DOMAIN todo[m] \in SUBSET Partitions
    BY Zenon, <1>1, EmptyFunction DEF OneBatch
  <1>3. \E p \in DOMAIN todo[m] : \A q \in DOMAIN todo[m] : ~Before(q, p)
    BY Zenon, <1>2, FirstPartition
  <1>4. Current(m) \in DOMAIN todo[m]
    BY Zenon, <1>3 DEF Current
  <1> DEFINE p == Current(m)
  <1> HIDE DEF p
  <1>5. p \in DOMAIN todo[m] /\ p \in Partitions
    BY Zenon, <1>2, <1>4 DEF p
  <1>6. /\ p[1] \in Subscription[GroupOf[m]] /\ todo[m][p] \in [from : Nat, to : Nat]
        /\ todo[m][p].from < todo[m][p].to /\ todo[m][p].to <= Len(log[p])
    BY Zenon, <1>1, <1>5 DEF OneBatch, EndOffset
  <1>7. log[p] \in Seq(Records) /\ Len(log[p]) \in Nat
    BY <1>1, <1>5 DEF LogsInv
  <1>8. todo[m][p].from \in Nat /\ todo[m][p].from + 1 \in 1..Len(log[p])
    BY <1>6, <1>7
  <1>9. log[p][todo[m][p].from + 1] \in Records /\ Fits(p[1], log[p][todo[m][p].from + 1], tries)
    BY <1>1, <1>5, <1>7, <1>8 DEF LogsInv
  <1> QED BY Zenon, <1>4, <1>5, <1>6, <1>8, <1>9 DEF p, CurrentOffset, InHand, Record

-----------------------------------------------------------------------------
(* What a step leaves alone stays as it was.                               *)

\* No log shrinks.
LogGrows == \A p \in Partitions : Len(log[p]) \in Nat /\ Len(log'[p]) \in Nat
                                  /\ Len(log[p]) <= Len(log'[p])

\* No failure is forgotten.
TriesGrow == \A i \in Ids : tries[i] \in Int /\ tries'[i] \in Int /\ tries[i] <= tries'[i]

\* Lengths are numbers.
LEMMA SameLogs ==
    ASSUME LogsInv, log' = log
    PROVE  LogGrows
  BY DEF LogsInv, LogGrows

\* Counters are numbers.
LEMMA SameTries ==
    ASSUME CountsInv, tries' = tries
    PROVE  TriesGrow
  <1>1. \A i \in Ids : tries[i] \in 0..(Tiers + 1)
    BY Zenon DEF CountsInv
  <1> QED BY <1>1, LadderAssumption DEF TriesGrow

\* A position stays within a log that grows.
LEMMA SamePosition ==
    ASSUME NEW m \in Members, OnePosition(m), LogGrows, position'[m] = position[m]
    PROVE  OnePosition(m)'
  <1>1. position[m] \in [Assigned(m) -> Nat] /\ Assigned(m) \subseteq Partitions
    BY Zenon DEF OnePosition
  <1>2. Assigned(m)' = Assigned(m)
    BY Zenon DEF Assigned
  <1>3. ASSUME NEW p \in Assigned(m)
        PROVE  p[1] \in Subscription[GroupOf[m]] /\ position[m][p] <= Len(log'[p])
    <2>1. /\ p \in Partitions /\ position[m][p] \in Nat /\ p[1] \in Subscription[GroupOf[m]]
          /\ position[m][p] <= Len(log[p])
      BY Zenon, <1>1, <1>3 DEF OnePosition, EndOffset
    <2>2. Len(log[p]) \in Nat /\ Len(log'[p]) \in Nat /\ Len(log[p]) <= Len(log'[p])
      BY Zenon, <2>1 DEF LogGrows
    <2> QED BY <2>1, <2>2
  <1> QED BY Zenon, <1>1, <1>2, <1>3 DEF OnePosition, EndOffset

\* So does a batch.
LEMMA SameBatch ==
    ASSUME NEW m \in Members, OneBatch(m), LogGrows,
           todo'[m] = todo[m], earned'[m] = earned[m]
    PROVE  OneBatch(m)'
  <1>1. ASSUME NEW p \in DOMAIN todo[m]
        PROVE  /\ p[1] \in Subscription[GroupOf[m]]
               /\ todo[m][p].from < todo[m][p].to /\ todo[m][p].to <= Len(log'[p])
    <2>1. /\ p \in Partitions /\ todo[m][p] \in [from : Nat, to : Nat]
          /\ p[1] \in Subscription[GroupOf[m]]
          /\ todo[m][p].from < todo[m][p].to /\ todo[m][p].to <= Len(log[p])
      BY Zenon, <1>1 DEF OneBatch, EndOffset
    <2>2. Len(log[p]) \in Nat /\ Len(log'[p]) \in Nat /\ Len(log[p]) <= Len(log'[p])
      BY Zenon, <2>1 DEF LogGrows
    <2>3. todo[m][p].to \in Nat
      BY Zenon, <2>1
    <2> QED BY <2>1, <2>2, <2>3
  <1>2. ASSUME NEW p \in DOMAIN earned[m]
        PROVE  1 <= earned[m][p] /\ earned[m][p] <= Len(log'[p])
    <2>1. /\ p \in Partitions /\ earned[m][p] \in Nat
          /\ 1 <= earned[m][p] /\ earned[m][p] <= Len(log[p])
      BY Zenon, <1>2 DEF OneBatch, EndOffset
    <2>2. Len(log[p]) \in Nat /\ Len(log'[p]) \in Nat /\ Len(log[p]) <= Len(log'[p])
      BY Zenon, <2>1 DEF LogGrows
    <2> QED BY <2>1, <2>2
  <1> QED BY Zenon, <1>1, <1>2 DEF OneBatch, EndOffset

\* A runner nobody touches stays where it is.
LEMMA SamePlace ==
    ASSUME NEW m \in Members, OnePlace(m), members' = members,
           todo'[m] = todo[m], pc'[m] = pc[m]
    PROVE  OnePlace(m)'
  <1>1. Joined(m)' <=> Joined(m)
    BY Zenon DEF Joined
  <1> QED BY <1>1, Zenon DEF OnePlace

\* Headers stay right when more failures are counted.
LEMMA SameFit ==
    ASSUME NEW t, NEW r \in Records, Fits(t, r, tries), TriesGrow
    PROVE  Fits(t, r, tries')
  <1>1. r.id \in Ids /\ r.attempts \in Int
    BY LadderAssumption DEF Records
  <1>2. tries[r.id] \in Int /\ tries'[r.id] \in Int /\ tries[r.id] <= tries'[r.id]
    BY Zenon, <1>1 DEF TriesGrow
  <1>3. r.attempts <= tries[r.id] => r.attempts <= tries'[r.id]
    BY <1>1, <1>2
  <1> QED BY <1>3, Zenon DEF Fits

\* What is on its way stays as it is, or never lands.
LEMMA SameOutgoing ==
    ASSUME NEW m \in Members, OneOutgoing(m), TriesGrow,
           outgoing'[m] \in {outgoing[m], NoPublish}
    PROVE  OneOutgoing(m)'
  <1>1. CASE outgoing'[m] = NoPublish
    BY Zenon, <1>1 DEF OneOutgoing, NoPublish
  <1>2. CASE outgoing'[m] = outgoing[m] /\ outgoing[m] # NoPublish
    <2>1. /\ outgoing[m] \in [to : Topics, record : Records]
          /\ Fits(outgoing[m].to, outgoing[m].record, tries)
      BY Zenon, <1>2 DEF OneOutgoing
    <2>2. outgoing[m].record \in Records
      BY Zenon, <2>1
    <2>3. Fits(outgoing[m].to, outgoing[m].record, tries')
      BY Zenon, <2>1, <2>2, SameFit
    <2> QED BY <1>2, <2>1, <2>3, Zenon DEF OneOutgoing
  <1> QED BY <1>1, <1>2, Zenon

\* Nor do the logs change by themselves.
LEMMA SameRecords ==
    ASSUME LogsInv, log' = log, TriesGrow
    PROVE  LogsInv'
  <1>1. ASSUME NEW p \in Partitions, NEW k \in 1..Len(log[p])
        PROVE  Fits(p[1], log[p][k], tries')
    <2>1. Fits(p[1], log[p][k], tries) /\ log[p][k] \in Records
      BY <1>1 DEF LogsInv
    <2> QED BY Zenon, <2>1, SameFit
  <1> QED BY <1>1, Zenon DEF LogsInv

\* Committed offsets stay within a log that grows.
LEMMA SameCommitted ==
    ASSUME CommittedInv, LogGrows, committed' = committed
    PROVE  CommittedInv'
  <1>1. ASSUME NEW p \in Partitions  PROVE committed[p] \in NoOffset..Len(log'[p])
    <2>1. committed[p] \in Int /\ committed[p] \in NoOffset..Len(log[p])
      BY Zenon, <1>1 DEF CommittedInv, EndOffset
    <2>2. Len(log[p]) \in Nat /\ Len(log'[p]) \in Nat /\ Len(log[p]) <= Len(log'[p])
      BY Zenon, <1>1 DEF LogGrows
    <2> QED BY <2>1, <2>2 DEF NoOffset
  <1> QED BY Zenon, <1>1 DEF CommittedInv, EndOffset, NoOffset

-----------------------------------------------------------------------------
(* The end of a record.                                                    *)

\* The other runners have their batches and places.
OthersGoOn(m) ==
    /\ DOMAIN todo' = Members /\ DOMAIN earned' = Members
    /\ pc' \in [Members -> {"off", "poll", "handle", "publish", "commit"}]
    /\ \A n \in Members : n # m => todo'[n] = todo[n] /\ earned'[n] = earned[n] /\ pc'[n] = pc[n]

\* m goes past the record o of p and notes its offset.
Finished(m, p, o) ==
    /\ OthersGoOn(m) /\ position' = position
    /\ pc'[m] \in {"handle", "poll", "commit"} /\ (pc'[m] = "handle" <=> todo'[m] # <<>>)
    /\ DOMAIN todo'[m] \subseteq DOMAIN todo[m]
    /\ \A q \in DOMAIN todo[m] : q \notin DOMAIN todo'[m] => q = p /\ o + 1 = todo[m][p].to
    /\ todo'[m] \in [DOMAIN todo'[m] -> [from : Nat, to : Nat]]
    /\ \A q \in DOMAIN todo'[m] :
         /\ todo'[m][q].to = todo[m][q].to
         /\ todo'[m][q].from = IF q = p THEN o + 1 ELSE todo[m][q].from
         /\ todo'[m][q].from < todo'[m][q].to
    /\ earned'[m] \in [DOMAIN earned[m] \cup {p} -> Nat]
    /\ \A q \in DOMAIN earned[m] : q # p => earned'[m][q] = earned[m][q]
    /\ earned'[m][p] = o + 1

\* m goes back to the record o of p and drops the rest of p.
Stalled(m, p, o) ==
    /\ OthersGoOn(m) /\ earned' = earned
    /\ pc'[m] \in {"handle", "poll", "commit"} /\ (pc'[m] = "handle" <=> todo'[m] # <<>>)
    /\ DOMAIN todo'[m] = DOMAIN todo[m] \ {p}
    /\ todo'[m] \in [DOMAIN todo'[m] -> [from : Nat, to : Nat]]
    /\ \A q \in DOMAIN todo'[m] : todo'[m][q] = todo[m][q]
    /\ DOMAIN position' = Members
    /\ \A n \in Members : n # m => position'[n] = position[n]
    /\ Assigned(m)' = Assigned(m) /\ position'[m] \in [Assigned(m) -> Nat]
    /\ \A q \in Assigned(m) : position'[m][q] = IF q = p THEN o ELSE position[m][q]

\* Where a runner goes after a record.
LEMMA GoesOn ==
    ASSUME TypeInv, NEW m \in Members, GoOn(m), NEW t, NEW e,
           todo' = [todo EXCEPT ![m] = t], earned' = [earned EXCEPT ![m] = e] \/ earned' = earned
    PROVE  /\ OthersGoOn(m) /\ todo'[m] = t
           /\ pc'[m] \in {"handle", "poll", "commit"} /\ (pc'[m] = "handle" <=> t # <<>>)
  <1>1. PlacesInv
    BY Zenon DEF TypeInv
  <1>2. todo'[m] = t
    BY Zenon, <1>1 DEF PlacesInv
  <1> DEFINE v == IF todo'[m] # <<>> THEN "handle" ELSE IF earned'[m] # <<>> THEN "commit" ELSE "poll"
  <1>3. pc' = [pc EXCEPT ![m] = v]
    BY Zenon DEF GoOn
  <1>4. v \in {"handle", "poll", "commit"} /\ (v = "handle" <=> t # <<>>)
    BY Zenon, <1>2
  <1> HIDE DEF v
  <1> QED BY Zenon, <1>1, <1>2, <1>3, <1>4 DEF PlacesInv, OthersGoOn

\* Finish goes past the record and notes its offset.
LEMMA FinishEffect ==
    ASSUME TypeInv, NEW m \in Members, pc[m] \in {"handle", "publish"}, Finish(m),
           NEW p, p = Current(m), NEW o, o = CurrentOffset(m)
    PROVE  Finished(m, p, o)
  <1>1. OneBatch(m) /\ PlacesInv
    BY Zenon DEF TypeInv
  <1>2. /\ p \in DOMAIN todo[m] /\ o \in Nat /\ o < todo[m][p].to /\ todo[m][p].from = o
    BY Zenon, InHandFacts DEF CurrentOffset
  <1>3. todo[m] \in [DOMAIN todo[m] -> [from : Nat, to : Nat]]
    BY Zenon, <1>1 DEF OneBatch
  <1> DEFINE t == IF o + 1 = todo[m][p].to THEN Without(todo[m], p)
                  ELSE [todo[m] EXCEPT ![p].from = o + 1]
             e == [q \in DOMAIN earned[m] \cup {p} |-> IF q = p THEN o + 1 ELSE earned[m][q]]
  <1>4. todo' = [todo EXCEPT ![m] = t] /\ earned' = [earned EXCEPT ![m] = e] /\ GoOn(m)
        /\ position' = position
    BY Zenon, <1>1 DEF Finish, PlacesInv
  <1> HIDE DEF t, e
  <1>5. /\ OthersGoOn(m) /\ todo'[m] = t
        /\ pc'[m] \in {"handle", "poll", "commit"} /\ (pc'[m] = "handle" <=> t # <<>>)
    BY Zenon, <1>4, GoesOn
  <1>6. earned'[m] = e
    BY Zenon, <1>1, <1>4 DEF PlacesInv
  <1>7. /\ DOMAIN t \subseteq DOMAIN todo[m] /\ t \in [DOMAIN t -> [from : Nat, to : Nat]]
        /\ \A q \in DOMAIN todo[m] : q \notin DOMAIN t => q = p /\ o + 1 = todo[m][p].to
        /\ \A q \in DOMAIN t : q # p => t[q] = todo[m][q]
        /\ p \in DOMAIN t => /\ t[p].from = o + 1 /\ t[p].to = todo[m][p].to
                             /\ o + 1 # todo[m][p].to
    <2>1. CASE o + 1 = todo[m][p].to
      <3>1. t = [q \in DOMAIN todo[m] \ {p} |-> todo[m][q]]
        BY Zenon, <2>1 DEF t, Without
      <3>2. /\ DOMAIN t = DOMAIN todo[m] \ {p} /\ t \in [DOMAIN t -> [from : Nat, to : Nat]]
            /\ \A q \in DOMAIN t : t[q] = todo[m][q]
        BY Zenon, <1>3, <3>1
      <3> QED BY Zenon, <2>1, <3>2
    <2>2. CASE o + 1 # todo[m][p].to
      <3>1. t = [todo[m] EXCEPT ![p].from = o + 1]
        BY Zenon, <2>2 DEF t
      <3>2. todo[m][p] \in [from : Nat, to : Nat] /\ o + 1 \in Nat
        BY <1>2, <1>3
      <3>3. /\ DOMAIN t = DOMAIN todo[m] /\ t[p] = [todo[m][p] EXCEPT !.from = o + 1]
            /\ \A q \in DOMAIN t : q # p => t[q] = todo[m][q]
        BY Zenon, <1>2, <3>1
      <3>4. t[p].from = o + 1 /\ t[p].to = todo[m][p].to
        BY Zenon, <3>2, <3>3
      <3>5. t \in [DOMAIN t -> [from : Nat, to : Nat]]
        BY Zenon, <1>2, <1>3, <3>1, <3>2
      <3> QED BY Zenon, <2>2, <3>3, <3>4, <3>5
    <2> QED BY Zenon, <2>1, <2>2
  <1>8. ASSUME NEW q \in DOMAIN t
        PROVE  /\ t[q].to = todo[m][q].to
               /\ t[q].from = IF q = p THEN o + 1 ELSE todo[m][q].from
               /\ t[q].from < t[q].to
    <2>1. todo[m][q].from < todo[m][q].to /\ todo[m][p].to \in Nat
      BY Zenon, <1>1, <1>2, <1>3, <1>7, <1>8 DEF OneBatch
    <2> QED BY <1>2, <1>7, <2>1
  <1>9. /\ e \in [DOMAIN earned[m] \cup {p} -> Nat] /\ e[p] = o + 1
        /\ \A q \in DOMAIN earned[m] : q # p => e[q] = earned[m][q]
    BY <1>1, <1>2 DEF e, OneBatch
  <1>10. \A q \in DOMAIN todo'[m] :
            /\ todo'[m][q].to = todo[m][q].to
            /\ todo'[m][q].from = IF q = p THEN o + 1 ELSE todo[m][q].from
            /\ todo'[m][q].from < todo'[m][q].to
    BY Zenon, <1>5, <1>8
  <1>11. /\ DOMAIN todo'[m] \subseteq DOMAIN todo[m]
         /\ \A q \in DOMAIN todo[m] : q \notin DOMAIN todo'[m] => q = p /\ o + 1 = todo[m][p].to
         /\ todo'[m] \in [DOMAIN todo'[m] -> [from : Nat, to : Nat]]
    BY Zenon, <1>5, <1>7
  <1>12. /\ earned'[m] \in [DOMAIN earned[m] \cup {p} -> Nat] /\ earned'[m][p] = o + 1
         /\ \A q \in DOMAIN earned[m] : q # p => earned'[m][q] = earned[m][q]
    BY Zenon, <1>6, <1>9
  <1>13. /\ OthersGoOn(m) /\ position' = position /\ pc'[m] \in {"handle", "poll", "commit"}
         /\ (pc'[m] = "handle" <=> todo'[m] # <<>>)
    BY Zenon, <1>4, <1>5
  <1> QED BY Zenon, <1>10, <1>11, <1>12, <1>13 DEF Finished

\* Stall goes back to the record and drops the rest of its partition.
LEMMA StallEffect ==
    ASSUME TypeInv, NEW m \in Members, pc[m] \in {"handle", "publish"}, Stall(m),
           NEW p, p = Current(m), NEW o, o = CurrentOffset(m)
    PROVE  Stalled(m, p, o)
  <1>1. OneBatch(m) /\ PlacesInv /\ OnePosition(m)
    BY Zenon DEF TypeInv
  <1>2. p \in DOMAIN todo[m] /\ o \in Nat
    BY Zenon, InHandFacts
  <1>3. todo[m] \in [DOMAIN todo[m] -> [from : Nat, to : Nat]]
    BY Zenon, <1>1 DEF OneBatch
  <1> DEFINE t == Without(todo[m], p)
  <1>4. /\ todo' = [todo EXCEPT ![m] = t] /\ earned' = earned /\ GoOn(m)
        /\ position' = IF p \in Assigned(m) THEN [position EXCEPT ![m][p] = o] ELSE position
    BY Zenon, <1>1 DEF Stall, Seek, PlacesInv
  <1>5. /\ DOMAIN t = DOMAIN todo[m] \ {p} /\ t \in [DOMAIN t -> [from : Nat, to : Nat]]
        /\ \A q \in DOMAIN t : t[q] = todo[m][q]
    BY Zenon, <1>3 DEF Without
  <1> HIDE DEF t
  <1>6. /\ OthersGoOn(m) /\ todo'[m] = t
        /\ pc'[m] \in {"handle", "poll", "commit"} /\ (pc'[m] = "handle" <=> t # <<>>)
    BY <1>4, GoesOn, Zenon
  <1>7. /\ DOMAIN position' = Members
        /\ \A n \in Members : n # m => position'[n] = position[n]
        /\ position'[m] = IF p \in Assigned(m) THEN [position[m] EXCEPT ![p] = o] ELSE position[m]
    BY Zenon, <1>1, <1>4 DEF PlacesInv
  <1>8. position[m] \in [Assigned(m) -> Nat]
    BY Zenon, <1>1 DEF OnePosition
  <1>9. /\ DOMAIN position'[m] = Assigned(m) /\ position'[m] \in [Assigned(m) -> Nat]
        /\ \A q \in Assigned(m) : position'[m][q] = IF q = p THEN o ELSE position[m][q]
    BY Zenon, <1>2, <1>7, <1>8
  <1> QED BY Zenon, <1>4, <1>5, <1>6, <1>7, <1>9 DEF Assigned, Stalled

\* A batch and a place are right after Finish.
LEMMA FinishTypes ==
    ASSUME TypeInv, NEW m \in Members, pc[m] \in {"handle", "publish"}, Finish(m),
           log' = log, members' = members
    PROVE  \A n \in Members : OnePosition(n)' /\ OneBatch(n)' /\ OnePlace(n)'
  <1> DEFINE p == Current(m)
             o == CurrentOffset(m)
  <1>a. p = Current(m) /\ o = CurrentOffset(m)
    BY Zenon
  <1>1. /\ p \in DOMAIN todo[m] /\ p \in Partitions /\ o \in Nat /\ o + 1 \in 1..Len(log[p])
        /\ p[1] \in Subscription[GroupOf[m]]
    BY Zenon, InHandFacts
  <1> HIDE DEF p, o
  <1>2. Finished(m, p, o)
    BY Zenon, <1>a, FinishEffect
  <1>3. LogGrows
    BY Zenon, SameLogs DEF TypeInv
  <1>4. \A n \in Members : OnePosition(n)'
    BY Zenon, <1>2, <1>3, SamePosition DEF TypeInv, Finished
  <1>5. \A n \in Members : n # m => OneBatch(n)' /\ OnePlace(n)'
    BY Zenon, <1>2, <1>3, SameBatch, SamePlace DEF TypeInv, OthersGoOn, Finished
  <1>6. OneBatch(m)
    BY Zenon DEF TypeInv
  <1>7. OneBatch(m)'
    <2>1. \A q \in DOMAIN todo'[m] :
            /\ q \in Partitions /\ q[1] \in Subscription[GroupOf[m]]
            /\ todo'[m][q].from < todo'[m][q].to /\ todo'[m][q].to <= Len(log[q])
      BY Zenon, <1>2, <1>6 DEF OneBatch, EndOffset, Finished
    <2>2. earned'[m] \in [DOMAIN earned'[m] -> Nat] /\ DOMAIN earned'[m] \subseteq Partitions
      BY Zenon, <1>1, <1>2, <1>6 DEF OneBatch, Finished
    <2>3. ASSUME NEW q \in DOMAIN earned'[m]
          PROVE  1 <= earned'[m][q] /\ earned'[m][q] <= Len(log[q])
      <3>1. CASE q = p
        BY <1>1, <1>2, <3>1 DEF Finished
      <3>2. CASE q # p
        BY Zenon, <1>2, <1>6, <2>3, <3>2 DEF OneBatch, EndOffset, Finished
      <3> QED BY Zenon, <3>1, <3>2
    <2> QED BY Zenon, <1>2, <2>1, <2>2, <2>3 DEF OneBatch, EndOffset, Finished
  <1>8. OnePlace(m)'
    <2>1. OnePlace(m) /\ pc[m] # "off"
      BY Zenon DEF TypeInv
    <2>2. Joined(m)
      BY Zenon, <2>1 DEF OnePlace
    <2>3. Joined(m)'
      BY Zenon, <2>2 DEF Joined
    <2>4. pc'[m] # "off" /\ (pc'[m] \in {"handle", "publish"} <=> todo'[m] # <<>>)
      BY Zenon, <1>2 DEF Finished
    <2> QED BY Zenon, <2>3, <2>4 DEF OnePlace
  <1> QED BY Zenon, <1>4, <1>5, <1>7, <1>8

\* And after Stall.
LEMMA StallTypes ==
    ASSUME TypeInv, NEW m \in Members, pc[m] \in {"handle", "publish"}, Stall(m),
           log' = log, members' = members
    PROVE  \A n \in Members : OnePosition(n)' /\ OneBatch(n)' /\ OnePlace(n)'
  <1> DEFINE p == Current(m)
             o == CurrentOffset(m)
  <1>1. /\ p \in DOMAIN todo[m] /\ p \in Partitions /\ o \in Nat /\ o + 1 \in 1..Len(log[p])
    BY Zenon, InHandFacts
  <1>2. Stalled(m, p, o)
    BY Zenon, StallEffect
  <1> HIDE DEF p, o
  <1>3. LogGrows
    BY Zenon, SameLogs DEF TypeInv
  <1>4. \A n \in Members : n # m => OnePosition(n)' /\ OneBatch(n)' /\ OnePlace(n)'
    BY Zenon, <1>2, <1>3, SamePosition, SameBatch, SamePlace DEF TypeInv, OthersGoOn, Stalled
  <1>5. OneBatch(m) /\ OnePosition(m)
    BY Zenon DEF TypeInv
  <1>6. OneBatch(m)'
    BY Zenon, <1>2, <1>5 DEF OneBatch, EndOffset, Stalled
  <1>7. OnePosition(m)'
    <2>1. \A q \in Assigned(m) : position'[m][q] <= Len(log[q])
      <3>1. o <= Len(log[p])
        BY <1>1
      <3> QED BY Zenon, <1>2, <1>5, <3>1 DEF OnePosition, EndOffset, Stalled
    <2> QED BY Zenon, <1>2, <1>5, <2>1 DEF OnePosition, EndOffset, Stalled
  <1>8. OnePlace(m)'
    <2>1. OnePlace(m) /\ pc[m] # "off"
      BY Zenon DEF TypeInv
    <2>2. Joined(m)
      BY Zenon, <2>1 DEF OnePlace
    <2>3. Joined(m)'
      BY Zenon, <2>2 DEF Joined
    <2>4. pc'[m] # "off" /\ (pc'[m] \in {"handle", "publish"} <=> todo'[m] # <<>>)
      BY Zenon, <1>2 DEF Stalled
    <2> QED BY Zenon, <2>3, <2>4 DEF OnePlace
  <1> QED BY Zenon, <1>4, <1>6, <1>7, <1>8

-----------------------------------------------------------------------------
(* Types, step by step.                                                    *)

\* Only offsets that exist are dealt with.
LEMMA DealtWithTypes ==
    ASSUME TypeInv, NEW m \in Members, pc[m] \in {"handle", "publish"}, DealtWith(m), log' = log
    PROVE  /\ dealt' \in [Partitions -> SUBSET Nat]
           /\ \A p \in Partitions : dealt'[p] \subseteq 0..(Len(log'[p]) - 1)
  <1> DEFINE p == Current(m)
             o == CurrentOffset(m)
  <1>1. p \in Partitions /\ o \in Nat /\ o + 1 \in 1..Len(log[p])
    BY Zenon, InHandFacts
  <1>2. dealt' = [dealt EXCEPT ![p] = @ \cup {o}]
    BY Zenon DEF DealtWith
  <1> HIDE DEF p, o
  <1>3. /\ dealt \in [Partitions -> SUBSET Nat]
        /\ \A q \in Partitions : dealt[q] \subseteq 0..(Len(log[q]) - 1)
    BY Zenon DEF TypeInv, CountsInv
  <1>4. o \in 0..(Len(log[p]) - 1)
    <2>1. Len(log[p]) \in Nat
      BY <1>1 DEF TypeInv, LogsInv
    <2> QED BY <1>1, <2>1
  <1>5. dealt' \in [Partitions -> SUBSET Nat]
    BY Zenon, <1>1, <1>2, <1>3
  <1>6. ASSUME NEW q \in Partitions  PROVE dealt'[q] \subseteq 0..(Len(log[q]) - 1)
    <2>1. CASE q = p
      <3>1. dealt'[q] = dealt[q] \cup {o}
        BY Zenon, <1>1, <1>2, <1>3, <2>1
      <3> QED BY Zenon, <1>3, <1>4, <2>1, <3>1
    <2>2. CASE q # p
      BY Zenon, <1>1, <1>2, <1>3, <2>2
    <2> QED BY Zenon, <2>1, <2>2
  <1> QED BY Zenon, <1>5, <1>6

\* What a runner does to itself and the history leaves the rest right.
LEMMA RunnerTypes ==
    ASSUME TypeInv, log' = log, TriesGrow, committed' = committed, members' = members,
           PlacesInv', CountsInv',
           \A n \in Members : outgoing'[n] \in {outgoing[n], NoPublish},
           \A n \in Members : OnePosition(n)' /\ OneBatch(n)' /\ OnePlace(n)'
    PROVE  TypeInv'
  <1>1. LogGrows
    BY Zenon, SameLogs DEF TypeInv
  <1>2. LogsInv'
    BY Zenon, SameRecords DEF TypeInv
  <1>3. CommittedInv'
    BY Zenon, <1>1, SameCommitted DEF TypeInv
  <1>4. MembersInv'
    BY Zenon DEF TypeInv, MembersInv
  <1>5. \A n \in Members : OneOutgoing(n)'
    BY Zenon, SameOutgoing DEF TypeInv
  <1> QED BY <1>2, <1>3, <1>4, <1>5, Zenon DEF TypeInv

\* The handler returns.
LEMMA HandlerReturnsTypes ==
    ASSUME TypeInv, NEW m \in Members, HandlerReturns(m)
    PROVE  TypeInv'
  <1>1. /\ pc[m] = "handle" /\ Finish(m) /\ DealtWith(m)
        /\ handled' = handled \cup {InHand(m).id}
        /\ UNCHANGED <<log, committed, members, outgoing, produced, faults, tries>>
    BY Zenon DEF HandlerReturns, Reaches
  <1>2. \A n \in Members : OnePosition(n)' /\ OneBatch(n)' /\ OnePlace(n)'
    BY Zenon, <1>1, FinishTypes
  <1>3. PlacesInv'
    <2>1. OthersGoOn(m) /\ position' = position
      BY Zenon, <1>1, FinishEffect DEF Finished
    <2> QED BY Zenon, <1>1, <2>1 DEF TypeInv, PlacesInv, OthersGoOn
  <1>4. CountsInv'
    <2>1. InHand(m).id \in Ids
      BY Zenon, <1>1, InHandFacts DEF Records
    <2>2. /\ dealt' \in [Partitions -> SUBSET Nat]
          /\ \A p \in Partitions : dealt'[p] \subseteq 0..(Len(log'[p]) - 1)
      BY Zenon, <1>1, DealtWithTypes
    <2> QED BY Zenon, <1>1, <2>1, <2>2 DEF TypeInv, CountsInv
  <1>5. TriesGrow
    BY Zenon, <1>1, SameTries DEF TypeInv
  <1> QED BY Zenon, <1>1, <1>2, <1>3, <1>4, <1>5, RunnerTypes

\* A record in hand is gone past without the handler.
LEMMA SkippedTypes ==
    ASSUME TypeInv, NEW m \in Members, pc[m] \in {"handle", "publish"}, Finish(m), DealtWith(m),
           UNCHANGED <<log, committed, members, outgoing, produced, faults, handled, tries>>
    PROVE  TypeInv'
  <1>1. \A n \in Members : OnePosition(n)' /\ OneBatch(n)' /\ OnePlace(n)'
    BY Zenon, FinishTypes
  <1>2. PlacesInv'
    <2>1. OthersGoOn(m) /\ position' = position
      BY Zenon, FinishEffect DEF Finished
    <2> QED BY Zenon, <2>1 DEF TypeInv, PlacesInv, OthersGoOn
  <1>3. CountsInv'
    <2>1. /\ dealt' \in [Partitions -> SUBSET Nat]
          /\ \A p \in Partitions : dealt'[p] \subseteq 0..(Len(log'[p]) - 1)
      BY Zenon, DealtWithTypes
    <2> QED BY Zenon, <2>1 DEF TypeInv, CountsInv
  <1>4. TriesGrow
    BY Zenon, SameTries DEF TypeInv
  <1> QED BY Zenon, <1>1, <1>2, <1>3, <1>4, RunnerTypes

\* The handler times out, defers the record, or its publish fails.
LEMMA StallStepTypes ==
    ASSUME TypeInv, NEW m \in Members, pc[m] \in {"handle", "publish"}, Stall(m),
           faults' \in 0..MaxFaults, Forsake(m),
           UNCHANGED <<log, committed, members, produced, historyVars>>
    PROVE  TypeInv'
  <1>1. \A n \in Members : OnePosition(n)' /\ OneBatch(n)' /\ OnePlace(n)'
    BY Zenon, StallTypes
  <1>2. DOMAIN outgoing' = Members /\ \A n \in Members : outgoing'[n] \in {outgoing[n], NoPublish}
    BY Zenon DEF Forsake, TypeInv, PlacesInv
  <1>3. PlacesInv'
    <2>1. OthersGoOn(m) /\ DOMAIN position' = Members
      BY Zenon, StallEffect DEF Stalled
    <2> QED BY Zenon, <1>2, <2>1 DEF PlacesInv, OthersGoOn
  <1>4. CountsInv'
    BY Zenon DEF TypeInv, CountsInv, historyVars
  <1>5. TriesGrow
    BY Zenon, SameTries DEF TypeInv, historyVars
  <1> QED BY Zenon, <1>1, <1>2, <1>3, <1>4, <1>5, RunnerTypes

\* A record that fails moves one attempt on, and never to a tier beyond the last.
LEMMA AdvanceFacts ==
    ASSUME NEW r \in Records, NEW from \in Topics, NEW permanent \in BOOLEAN, NEW to,
           r.attempts <= Tiers, r.form # "failed" => r.attempts = 0,
           to = IF permanent \/ r.form = "unreadable" THEN DeadLetterTopic
                ELSE Destination(r.attempts + 1),
           NEW a, a = Advance(r, from, to)
    PROVE  /\ to \in Topics /\ a \in Records
           /\ a.id = r.id /\ a.form = "failed" /\ a.attempts = r.attempts + 1
           /\ to # DeadLetterTopic => a.attempts <= Tiers
           /\ a.origin = IF r.form = "failed" THEN r.origin ELSE IF r.form = "plain" THEN 0 ELSE from
  <1>1. /\ r.attempts \in 0..Tiers /\ Tiers \in Nat /\ r.form \in Forms /\ r.origin \in Topics
        /\ MaxReplays \in Nat /\ 0 \in Topics
    BY LadderAssumption, ReplayAssumption DEF Records
  <1>2. to \in Topics /\ (to # DeadLetterTopic => to \in 1..Tiers /\ r.attempts + 1 <= Tiers)
    BY <1>1, LadderAssumption DEF Destination, DeadLetterTopic
  <1> DEFINE w == IF to = DeadLetterTopic THEN 0 ELSE Delay[to]
             s == Rekeyed(r)
  <1>3. w \in Nat
    BY Zenon, <1>2, LadderAssumption
  <1>4. s \in Records /\ s.id = r.id /\ s.attempts = r.attempts /\ s.origin = r.origin
    BY Zenon DEF Records, Rekeyed
  <1>5. a = CASE r.form = "failed" -> [s EXCEPT !.attempts = @ + 1, !.wait = w]
              [] r.form = "plain" -> [s EXCEPT !.form = "failed", !.attempts = 1,
                                               !.wait = w, !.origin = 0]
              [] OTHER -> [s EXCEPT !.form = "failed", !.attempts = 1, !.wait = 0,
                                    !.origin = from, !.replays = 0]
    BY Zenon DEF Advance
  <1> HIDE DEF w, s
  <1>6. s.form = r.form
    BY Zenon DEF Records, Rekeyed, s
  <1>7. r.attempts + 1 \in 0..(Tiers + 1) /\ 1 \in 0..(Tiers + 1) /\ 0 \in 0..MaxReplays /\ 0 \in Nat
        /\ "failed" \in Forms
    BY <1>1 DEF Forms
  <1>8. /\ a \in Records
        /\ a.id = r.id /\ a.form = "failed" /\ a.attempts = r.attempts + 1
        /\ a.origin = IF r.form = "failed" THEN r.origin ELSE IF r.form = "plain" THEN 0 ELSE from
    <2>1. CASE r.form = "failed"
      <3>1. a = [s EXCEPT !.attempts = s.attempts + 1, !.wait = w]
        BY Zenon, <1>5, <2>1
      <3>2. s.attempts + 1 \in 0..(Tiers + 1)
        BY Zenon, <1>4, <1>7
      <3>3. a \in Records
        BY ONLY Zenon, <1>3, <1>4, <3>1, <3>2 DEF Records
      <3>4. /\ a.id = s.id /\ a.form = s.form /\ a.attempts = s.attempts + 1
            /\ a.origin = s.origin
        BY ONLY Zenon, <1>4, <3>1 DEF Records
      <3> QED BY Zenon, <1>4, <1>6, <2>1, <3>3, <3>4
    <2>2. CASE r.form = "plain"
      <3>1. a = [s EXCEPT !.form = "failed", !.attempts = 1, !.wait = w, !.origin = 0]
        BY Zenon, <1>5, <2>2
      <3>2. a \in Records
        BY ONLY Zenon, <1>1, <1>3, <1>4, <1>7, <3>1 DEF Records
      <3>3. a.id = s.id /\ a.form = "failed" /\ a.attempts = 1 /\ a.origin = 0
        BY ONLY Zenon, <1>4, <3>1 DEF Records
      <3>4. r.attempts = 0
        BY Zenon, <2>2
      <3> QED BY ONLY <1>4, <2>2, <3>2, <3>3, <3>4
    <2>3. CASE r.form \notin {"failed", "plain"}
      <3>1. a = [s EXCEPT !.form = "failed", !.attempts = 1, !.wait = 0,
                          !.origin = from, !.replays = 0]
        BY Zenon, <1>5, <2>3
      <3>2. a \in Records
        BY ONLY Zenon, <1>1, <1>4, <1>7, <3>1, from \in Topics DEF Records
      <3>3. a.id = s.id /\ a.form = "failed" /\ a.attempts = 1 /\ a.origin = from
        BY ONLY Zenon, <1>4, <3>1 DEF Records
      <3>4. r.attempts = 0
        BY Zenon, <2>3
      <3> QED BY ONLY <1>4, <2>3, <3>2, <3>3, <3>4
    <2> QED BY Zenon, <2>1, <2>2, <2>3
  <1> QED BY Zenon, <1>2, <1>8

\* The handler hands a record with the right headers to the publisher.
LEMMA PublishingTypes ==
    ASSUME TypeInv, NEW m \in Members, pc[m] = "handle", NEW t \in Topics, NEW r \in Records,
           Publishing(m, t, r), Fits(t, r, tries'), TriesGrow, tries' \in [Ids -> 0..(Tiers + 1)]
    PROVE  TypeInv'
  <1>1. /\ outgoing' = [outgoing EXCEPT ![m] = [to |-> t, record |-> r]]
        /\ pc' = [pc EXCEPT ![m] = "publish"]
        /\ log' = log /\ committed' = committed /\ members' = members /\ position' = position
        /\ todo' = todo /\ earned' = earned
        /\ UNCHANGED <<produced, faults, handled, dealt>>
    BY Zenon DEF Publishing, brokerVars
  <1>2. PlacesInv
    BY Zenon DEF TypeInv
  <1>3. PlacesInv'
    BY Zenon, <1>1, <1>2 DEF PlacesInv
  <1>4. CountsInv'
    BY Zenon, <1>1 DEF TypeInv, CountsInv
  <1>5. LogGrows
    BY Zenon, <1>1, SameLogs DEF TypeInv
  <1>6. LogsInv' /\ CommittedInv' /\ MembersInv'
    <2>1. LogsInv'
      BY Zenon, <1>1, SameRecords DEF TypeInv
    <2>2. CommittedInv'
      BY Zenon, <1>1, <1>5, SameCommitted DEF TypeInv
    <2>3. MembersInv'
      BY Zenon, <1>1 DEF TypeInv, MembersInv
    <2> QED BY Zenon, <2>1, <2>2, <2>3
  <1>7. ASSUME NEW n \in Members  PROVE OnePosition(n)' /\ OneBatch(n)'
    BY Zenon, <1>1, <1>5, SamePosition, SameBatch DEF TypeInv
  <1>8. ASSUME NEW n \in Members, n # m  PROVE OnePlace(n)' /\ OneOutgoing(n)'
    <2>1. outgoing'[n] = outgoing[n] /\ pc'[n] = pc[n]
      BY Zenon, <1>1, <1>2, <1>8 DEF PlacesInv
    <2> QED BY Zenon, <1>1, <2>1, SamePlace, SameOutgoing DEF TypeInv
  <1>9. OneOutgoing(m)'
    <2>1. outgoing'[m] = [to |-> t, record |-> r]
      BY Zenon, <1>1, <1>2 DEF PlacesInv
    <2>2. outgoing'[m] \in [to : Topics, record : Records]
          /\ outgoing'[m].to = t /\ outgoing'[m].record = r
      BY <2>1
    <2> QED BY <2>2, Zenon DEF OneOutgoing
  <1>10. OnePlace(m)'
    <2>1. OnePlace(m)
      BY Zenon DEF TypeInv
    <2>2. pc'[m] = "publish" /\ todo'[m] = todo[m]
      BY Zenon, <1>1, <1>2 DEF PlacesInv
    <2>3. Joined(m) /\ todo[m] # <<>>
      BY Zenon, <2>1 DEF OnePlace
    <2>4. Joined(m)'
      BY Zenon, <1>1, <2>3 DEF Joined
    <2> QED BY Zenon, <2>2, <2>3, <2>4 DEF OnePlace
  <1>11. \A n \in Members : OnePlace(n)' /\ OneOutgoing(n)'
    BY Zenon, <1>8, <1>9, <1>10
  <1> QED BY <1>3, <1>4, <1>6, <1>7, <1>11, Zenon DEF TypeInv

\* The handler raises.
LEMMA HandlerRaisesTypes ==
    ASSUME TypeInv, NEW m \in Members, NEW permanent \in BOOLEAN, HandlerRaises(m, permanent)
    PROVE  TypeInv'
  <1> DEFINE r == InHand(m)
             from == Current(m)[1]
             to == IF permanent \/ r.form = "unreadable" THEN DeadLetterTopic
                   ELSE Destination(r.attempts + 1)
             a == Advance(r, from, to)
  <1>1. /\ pc[m] = "handle" /\ GroupOf[m] # "replay" /\ Publishing(m, to, a)
        /\ GroupOf[m] = "retry" => r.form # "unreadable"
        /\ tries' = [tries EXCEPT ![r.id] = IF @ > Tiers THEN @ ELSE @ + 1]
    BY Zenon DEF HandlerRaises, Reaches, RouteOnward
  <1>2. r \in Records /\ Fits(from, r, tries) /\ from \in Subscription[GroupOf[m]]
    BY Zenon, <1>1, InHandFacts
  <1>3. from \in 0..Tiers /\ from \in Topics /\ from # DeadLetterTopic /\ Tiers \in Nat
        /\ (GroupOf[m] = "retry" => from # 0)
    BY <1>1, <1>2, TopicsOfMember, LadderAssumption DEF DeadLetterTopic
  <1> HIDE DEF from, r
  <1>4. /\ r.attempts <= Tiers /\ (r.form # "failed" => r.attempts = 0)
        /\ r.form = "failed" /\ r.origin = 0 => r.attempts <= tries[r.id]
    BY Zenon, <1>2, <1>3 DEF Fits
  <1>5. to = IF permanent \/ r.form = "unreadable" THEN DeadLetterTopic
             ELSE Destination(r.attempts + 1)
    BY Zenon
  <1>6. a = Advance(r, from, to)
    BY Zenon
  <1> HIDE DEF a, to
  <1>7. /\ to \in Topics /\ a \in Records
        /\ a.id = r.id /\ a.form = "failed" /\ a.attempts = r.attempts + 1
        /\ to # DeadLetterTopic => a.attempts <= Tiers
        /\ a.origin = IF r.form = "failed" THEN r.origin ELSE IF r.form = "plain" THEN 0 ELSE from
    BY <1>2, <1>3, <1>4, <1>5, <1>6, AdvanceFacts
  <1>8. r.id \in Ids /\ r.attempts \in Nat
    BY <1>2, LadderAssumption DEF Records
  <1>9. tries \in [Ids -> 0..(Tiers + 1)]
    BY Zenon DEF TypeInv, CountsInv
  <1>10. /\ tries' \in [Ids -> 0..(Tiers + 1)] /\ TriesGrow
         /\ tries'[r.id] = IF tries[r.id] > Tiers THEN tries[r.id] ELSE tries[r.id] + 1
    <2>1. tries'[r.id] = IF tries[r.id] > Tiers THEN tries[r.id] ELSE tries[r.id] + 1
      BY Zenon, <1>1, <1>8, <1>9
    <2>2. tries[r.id] \in 0..(Tiers + 1)
      BY Zenon, <1>8, <1>9
    <2>3. tries'[r.id] \in 0..(Tiers + 1) /\ tries[r.id] <= tries'[r.id]
      BY <1>3, <2>1, <2>2
    <2>4. \A i \in Ids : i # r.id => tries'[i] = tries[i]
      BY Zenon, <1>1, <1>9
    <2>5. DOMAIN tries' = Ids /\ tries' = [i \in Ids |-> tries'[i]]
      BY Zenon, <1>1, <1>9
    <2>6. \A i \in Ids : tries[i] \in 0..(Tiers + 1) /\ tries'[i] \in 0..(Tiers + 1) /\ tries[i] <= tries'[i]
      BY <1>3, <1>9, <2>3, <2>4
    <2>7. tries' \in [Ids -> 0..(Tiers + 1)]
      BY Zenon, <2>5, <2>6
    <2> QED BY <1>3, <2>1, <2>6, <2>7 DEF TriesGrow
  <1>11. Fits(to, a, tries')
    <2>1. ASSUME a.origin = 0  PROVE a.attempts <= tries'[a.id]
      <3>1. r.form \in {"failed", "plain"} \/ from = 0
        BY Zenon, <1>7, <2>1
      <3>2. tries[r.id] \in 0..(Tiers + 1)
        BY Zenon, <1>8, <1>9
      <3>3. r.attempts <= tries[r.id]
        <4>1. CASE r.form = "failed"
          BY Zenon, <1>4, <1>7, <2>1, <4>1
        <4>2. CASE r.form # "failed"
          BY <1>3, <1>4, <3>2, <4>2
        <4> QED BY Zenon, <4>1, <4>2
      <3> QED BY <1>3, <1>4, <1>7, <1>8, <1>10, <3>2, <3>3
    <2> QED BY Zenon, <1>7, <2>1 DEF Fits
  <1> QED BY Zenon, <1>1, <1>7, <1>10, <1>11, PublishingTypes

\* An unreadable envelope is routed without the handler.
LEMMA CannotReadTypes ==
    ASSUME TypeInv, NEW m \in Members, CannotRead(m)
    PROVE  TypeInv'
  <1>a. PICK permanent \in BOOLEAN : permanent = FALSE
    BY Zenon
  <1> DEFINE r == InHand(m)
             from == Current(m)[1]
             to == IF permanent \/ r.form = "unreadable" THEN DeadLetterTopic
                   ELSE Destination(r.attempts + 1)
             a == Advance(r, from, to)
  <1>1. /\ pc[m] = "handle" /\ GroupOf[m] = "retry" /\ r.form = "unreadable"
        /\ Publishing(m, to, a) /\ tries' = tries
    BY Zenon, <1>a DEF CannotRead, RouteOnward
  <1>2. r \in Records /\ Fits(from, r, tries) /\ from \in Subscription[GroupOf[m]]
    BY Zenon, <1>1, InHandFacts
  <1>3. from \in Topics /\ from # DeadLetterTopic /\ from # 0 /\ Tiers \in Nat
    BY <1>1, <1>2, TopicsOfMember, LadderAssumption DEF DeadLetterTopic
  <1> HIDE DEF from, r
  <1>4. r.attempts <= Tiers /\ (r.form # "failed" => r.attempts = 0)
    BY Zenon, <1>2, <1>3 DEF Fits
  <1>5. to = IF permanent \/ r.form = "unreadable" THEN DeadLetterTopic
             ELSE Destination(r.attempts + 1)
    BY Zenon
  <1>6. a = Advance(r, from, to)
    BY Zenon
  <1> HIDE DEF a, to
  <1>7. /\ to \in Topics /\ a \in Records
        /\ to # DeadLetterTopic => a.attempts <= Tiers
        /\ a.form = "failed"
        /\ a.origin = IF r.form = "failed" THEN r.origin ELSE IF r.form = "plain" THEN 0 ELSE from
    BY <1>2, <1>3, <1>4, <1>5, <1>6, AdvanceFacts
  <1>8. Fits(to, a, tries')
    BY Zenon, <1>1, <1>3, <1>7 DEF Fits
  <1>9. TriesGrow /\ tries' \in [Ids -> 0..(Tiers + 1)]
    BY Zenon, <1>1, SameTries DEF TypeInv, CountsInv
  <1> QED BY Zenon, <1>1, <1>7, <1>8, <1>9, PublishingTypes

\* What a replay makes of a dead letter.
LEMMA ReplayedFacts ==
    ASSUME NEW r \in Records, ~Refused(r), NEW a,
           a = [r EXCEPT !.form = "plain", !.attempts = 0, !.wait = 0,
                         !.replays = @ + 1, !.flagged = FALSE]
    PROVE  a \in Records /\ a.id = r.id /\ a.attempts = 0 /\ a.form = "plain"
  <1>1. r.replays \in 0..MaxReplays /\ ~(r.replays >= MaxReplays) /\ MaxReplays \in Nat
    BY Zenon, ReplayAssumption DEF Refused, Records
  <1>2. r.replays + 1 \in 0..MaxReplays /\ 0 \in 0..(Tiers + 1) /\ 0 \in Nat /\ "plain" \in Forms
    BY <1>1, LadderAssumption DEF Forms
  <1> QED BY Zenon, <1>2 DEF Records

\* A dead letter is replayed.
LEMMA ReplayTypes ==
    ASSUME TypeInv, NEW m \in Members, Replay(m)
    PROVE  TypeInv'
  <1> DEFINE r == InHand(m)
             a == [r EXCEPT !.form = "plain", !.attempts = 0, !.wait = 0,
                            !.replays = @ + 1, !.flagged = FALSE]
  <1>1. pc[m] = "handle" /\ ~Refused(r) /\ Publishing(m, 0, a) /\ tries' = tries
    BY Zenon DEF Replay
  <1>2. r \in Records
    BY Zenon, <1>1, InHandFacts
  <1> HIDE DEF r
  <1>3. a \in Records /\ a.attempts = 0 /\ a.form = "plain"
    BY <1>1, <1>2, ReplayedFacts, Zenon
  <1> HIDE DEF a
  <1>4. 0 \in Topics /\ Fits(0, a, tries')
    BY <1>3, LadderAssumption DEF Fits
  <1>5. TriesGrow /\ tries' \in [Ids -> 0..(Tiers + 1)]
    BY Zenon, <1>1, SameTries DEF TypeInv, CountsInv
  <1> QED BY Zenon, <1>1, <1>3, <1>4, <1>5, PublishingTypes

-----------------------------------------------------------------------------
(* Steps of the logs.                                                      *)

\* The logs keep their records; the time a record still waits is not looked at.
LogsKept ==
    \A p \in Partitions : \A k \in 1..Len(log[p]) :
        log'[p][k].id = log[p][k].id /\ log'[p][k].attempts = log[p][k].attempts

\* A record is added to the end of one partition.
LEMMA Appended ==
    ASSUME LogsInv, NEW p \in Partitions, NEW r \in Records, Fits(p[1], r, tries),
           AppendTo(p, r), tries' = tries
    PROVE  /\ LogsInv' /\ LogGrows /\ LogsKept
           /\ Len(log'[p]) = Len(log[p]) + 1 /\ log'[p][Len(log[p]) + 1] = r
  <1>1. log \in [Partitions -> Seq(Records)]
        /\ \A q \in Partitions : \A k \in 1..Len(log[q]) : Fits(q[1], log[q][k], tries)
    BY Zenon DEF LogsInv
  <1>2. log' = [log EXCEPT ![p] = Append(log[p], r)]
    BY Zenon, <1>1 DEF AppendTo
  <1>3. log'[p] = Append(log[p], r) /\ \A q \in Partitions : q # p => log'[q] = log[q]
    BY Zenon, <1>1, <1>2
  <1>4. /\ log[p] \in Seq(Records) /\ Len(log[p]) \in Nat
        /\ log'[p] \in Seq(Records) /\ Len(log'[p]) = Len(log[p]) + 1
        /\ log'[p][Len(log[p]) + 1] = r
        /\ \A k \in 1..Len(log[p]) : log'[p][k] = log[p][k]
    BY <1>1, <1>3
  <1>5. log' \in [Partitions -> Seq(Records)]
    BY Zenon, <1>1, <1>2, <1>3, <1>4
  <1>6. ASSUME NEW q \in Partitions, NEW k \in 1..Len(log'[q])
        PROVE  Fits(q[1], log'[q][k], tries)
    <2>1. CASE q # p
      BY Zenon, <1>1, <1>3, <1>6, <2>1
    <2>2. CASE q = p /\ k # Len(log[p]) + 1
      <3>1. k \in 1..Len(log[p])
        BY <1>4, <1>6, <2>2
      <3> QED BY Zenon, <1>1, <1>4, <2>2, <3>1
    <2>3. CASE q = p /\ k = Len(log[p]) + 1
      BY Zenon, <1>4, <2>3
    <2> QED BY Zenon, <2>1, <2>2, <2>3
  <1>7. LogsInv'
    BY Zenon, <1>5, <1>6 DEF LogsInv
  <1>8. LogGrows
    BY <1>1, <1>3, <1>4 DEF LogGrows
  <1>9. LogsKept
    BY Zenon, <1>3, <1>4 DEF LogsKept
  <1> QED BY Zenon, <1>4, <1>7, <1>8, <1>9

\* A step of the logs leaves positions, batches and places right.
LEMMA LogStepTypes ==
    ASSUME TypeInv, LogsInv', LogGrows, produced' \in 0..MaxProduced,
           UNCHANGED <<committed, members, position, runnerVars, faults, historyVars>>,
           DOMAIN outgoing' = Members, \A m \in Members : OneOutgoing(m)'
    PROVE  TypeInv'
  <1>1. /\ committed' = committed /\ members' = members /\ position' = position
        /\ pc' = pc /\ todo' = todo /\ earned' = earned
        /\ faults' = faults /\ handled' = handled /\ tries' = tries /\ dealt' = dealt
    BY Zenon DEF runnerVars, historyVars
  <1>2. CommittedInv' /\ MembersInv' /\ PlacesInv'
    <2>1. CommittedInv'
      BY Zenon, <1>1, SameCommitted DEF TypeInv
    <2> QED BY Zenon, <1>1, <2>1 DEF TypeInv, MembersInv, PlacesInv
  <1>3. CountsInv'
    <2>1. ASSUME NEW p \in Partitions  PROVE dealt[p] \subseteq 0..(Len(log'[p]) - 1)
      <3>1. Len(log[p]) \in Nat /\ Len(log'[p]) \in Nat /\ Len(log[p]) <= Len(log'[p])
        BY Zenon, <2>1 DEF LogGrows
      <3>2. dealt[p] \subseteq 0..(Len(log[p]) - 1)
        BY Zenon, <2>1 DEF TypeInv, CountsInv
      <3> QED BY <3>1, <3>2
    <2> QED BY Zenon, <1>1, <2>1 DEF TypeInv, CountsInv
  <1>4. ASSUME NEW m \in Members  PROVE OnePosition(m)' /\ OneBatch(m)' /\ OnePlace(m)'
    BY Zenon, <1>1, SamePosition, SameBatch, SamePlace DEF TypeInv
  <1> QED BY <1>2, <1>3, <1>4, Zenon DEF TypeInv

\* Somebody produces a record.
LEMMA ProduceTypes ==
    ASSUME TypeInv, NEW t \in 0..Tiers, NEW form \in {"plain", "unreadable"}, Produce(t, form)
    PROVE  TypeInv' /\ LogGrows /\ LogsKept
  <1> DEFINE i == produced + 1
             r == Produced(i, form)
             p == PartitionFor(t, i)
  <1>1. /\ produced < MaxProduced /\ produced' = i /\ AppendTo(p, r)
        /\ UNCHANGED <<committed, members, position, runnerVars, outgoing, faults, historyVars>>
    BY Zenon DEF Produce
  <1>2. i \in Ids /\ i \in 0..MaxProduced /\ t \in Topics
    BY <1>1, LadderBounds, LadderAssumption DEF TypeInv, CountsInv, Ids
  <1>3. r \in Records /\ r.attempts = 0 /\ r.form # "failed"
    BY <1>2, LadderAssumption, ReplayAssumption DEF Produced, Records, Forms
  <1>4. p \in Partitions
    BY Zenon, <1>2, PartitionForTopic
  <1>5. Fits(p[1], r, tries)
    BY <1>3, LadderAssumption DEF Fits
  <1> HIDE DEF p, r, i
  <1>6. LogsInv' /\ LogGrows /\ LogsKept
    BY Zenon, <1>1, <1>3, <1>4, <1>5, Appended DEF TypeInv, historyVars
  <1>7. TriesGrow
    BY Zenon, <1>1, SameTries DEF TypeInv, historyVars
  <1>8. DOMAIN outgoing' = Members /\ \A m \in Members : OneOutgoing(m)'
    BY Zenon, <1>1, <1>7, SameOutgoing DEF TypeInv, PlacesInv
  <1>9. UNCHANGED <<committed, members, position, runnerVars, faults, historyVars>>
    BY Zenon, <1>1
  <1> QED BY Zenon, <1>1, <1>2, <1>6, <1>8, <1>9, LogStepTypes

\* What was published lands.
LEMMA LandTypes ==
    ASSUME TypeInv, NEW m \in Members, Land(m)
    PROVE  TypeInv' /\ LogGrows /\ LogsKept
  <1> DEFINE r == outgoing[m].record
             p == PartitionFor(outgoing[m].to, r.id)
  <1>1. /\ outgoing[m] # NoPublish /\ AppendTo(p, r)
        /\ outgoing' = [outgoing EXCEPT ![m] = NoPublish]
        /\ UNCHANGED <<committed, members, position, runnerVars, produced, faults, historyVars>>
    BY Zenon DEF Land
  <1>2. outgoing[m] \in [to : Topics, record : Records] /\ Fits(outgoing[m].to, r, tries)
    BY Zenon, <1>1 DEF TypeInv, OneOutgoing
  <1>3. r \in Records /\ r.id \in Ids /\ outgoing[m].to \in Topics
    BY Zenon, <1>2 DEF Records
  <1>4. p \in Partitions /\ p[1] = outgoing[m].to
    BY Zenon, <1>3, PartitionForTopic
  <1>5. Fits(p[1], r, tries)
    BY Zenon, <1>2, <1>4
  <1> HIDE DEF p, r
  <1>6. LogsInv' /\ LogGrows /\ LogsKept
    BY Zenon, <1>1, <1>3, <1>4, <1>5, Appended DEF TypeInv, historyVars
  <1>7. TriesGrow
    BY Zenon, <1>1, SameTries DEF TypeInv, historyVars
  <1>8. DOMAIN outgoing' = Members /\ \A n \in Members : OneOutgoing(n)'
    <2>1. DOMAIN outgoing = Members
      BY Zenon DEF TypeInv, PlacesInv
    <2>2. DOMAIN outgoing' = Members /\ \A n \in Members : outgoing'[n] \in {outgoing[n], NoPublish}
      BY Zenon, <1>1, <2>1
    <2> QED BY Zenon, <1>7, <2>2, SameOutgoing DEF TypeInv
  <1>9. produced' \in 0..MaxProduced
    BY Zenon, <1>1 DEF TypeInv, CountsInv
  <1>10. UNCHANGED <<committed, members, position, runnerVars, faults, historyVars>>
    BY Zenon, <1>1
  <1> QED BY Zenon, <1>6, <1>8, <1>9, <1>10, LogStepTypes

\* Time touches nothing but what is left of a wait.
LEMMA AgedFacts ==
    ASSUME NEW r \in Records
    PROVE  /\ Aged(r) \in Records /\ Aged(r).id = r.id /\ Aged(r).attempts = r.attempts
           /\ Aged(r).form = r.form /\ Aged(r).origin = r.origin
  <1>1. (IF r.wait > 0 THEN r.wait - 1 ELSE 0) \in Nat
    BY DEF Records
  <1> QED BY Zenon, <1>1 DEF Aged, Records

\* Time passes.
LEMMA TickTypes ==
    ASSUME TypeInv, Tick
    PROVE  TypeInv' /\ LogGrows /\ LogsKept
  <1>1. /\ log' = [p \in Partitions |-> [i \in DOMAIN log[p] |-> Aged(log[p][i])]]
        /\ outgoing' = [m \in Members |-> IF outgoing[m] = NoPublish THEN NoPublish
                                          ELSE [outgoing[m] EXCEPT !.record = Aged(@)]]
        /\ UNCHANGED <<committed, members, position, runnerVars, produced, faults, historyVars>>
    BY Zenon DEF Tick
  <1>2. \A p \in Partitions : log[p] \in Seq(Records) /\ Len(log[p]) \in Nat
                              /\ DOMAIN log[p] = 1..Len(log[p])
    BY DEF TypeInv, LogsInv
  <1>3. ASSUME NEW p \in Partitions
        PROVE  /\ log'[p] \in Seq(Records) /\ Len(log'[p]) = Len(log[p])
               /\ \A k \in 1..Len(log[p]) : log'[p][k] = Aged(log[p][k])
    <2>1. log'[p] = [i \in 1..Len(log[p]) |-> Aged(log[p][i])]
      BY Zenon, <1>1, <1>2
    <2>2. \A i \in 1..Len(log[p]) : Aged(log[p][i]) \in Records
      BY <1>2, AgedFacts
    <2>3. log'[p] \in [1..Len(log[p]) -> Records]
      BY Zenon, <2>1, <2>2
    <2> QED BY <1>2, <2>1, <2>3
  <1>4. \A p \in Partitions : \A k \in 1..Len(log[p]) :
            /\ log'[p][k].id = log[p][k].id /\ log'[p][k].attempts = log[p][k].attempts
            /\ log'[p][k].form = log[p][k].form /\ log'[p][k].origin = log[p][k].origin
    BY <1>2, <1>3, AgedFacts
  <1>5. LogGrows /\ LogsKept
    BY <1>2, <1>3, <1>4 DEF LogGrows, LogsKept
  <1>6. LogsInv'
    <2>1. log' \in [Partitions -> Seq(Records)]
      BY Zenon, <1>1, <1>3
    <2>2. tries' = tries
      BY Zenon, <1>1 DEF historyVars
    <2>3. ASSUME NEW p \in Partitions, NEW k \in 1..Len(log'[p])
          PROVE  Fits(p[1], log'[p][k], tries')
      <3>1. k \in 1..Len(log[p])
        BY Zenon, <1>3, <2>3
      <3>2. Fits(p[1], log[p][k], tries)
        BY Zenon, <3>1 DEF TypeInv, LogsInv
      <3>3. /\ log'[p][k].id = log[p][k].id /\ log'[p][k].attempts = log[p][k].attempts
            /\ log'[p][k].form = log[p][k].form /\ log'[p][k].origin = log[p][k].origin
        BY Zenon, <1>4, <3>1
      <3> QED BY <2>2, <3>2, <3>3, Zenon DEF Fits
    <2> QED BY Zenon, <2>1, <2>3 DEF LogsInv
  <1>7. ASSUME NEW m \in Members  PROVE OneOutgoing(m)'
    <2>1. CASE outgoing[m] = NoPublish
      BY Zenon, <1>1, <2>1 DEF OneOutgoing, NoPublish
    <2>2. CASE outgoing[m] # NoPublish
      <3> DEFINE r == outgoing[m].record
      <3>1. outgoing[m] \in [to : Topics, record : Records] /\ Fits(outgoing[m].to, r, tries)
        BY Zenon, <2>2 DEF TypeInv, OneOutgoing
      <3>2. outgoing'[m] = [outgoing[m] EXCEPT !.record = Aged(r)]
        BY Zenon, <1>1, <2>2
      <3>3. r \in Records
        BY Zenon, <3>1
      <3>4. /\ Aged(r) \in Records /\ Aged(r).id = r.id /\ Aged(r).attempts = r.attempts
            /\ Aged(r).form = r.form /\ Aged(r).origin = r.origin
        BY Zenon, <3>3, AgedFacts
      <3>5. /\ outgoing'[m] \in [to : Topics, record : Records]
            /\ outgoing'[m].to = outgoing[m].to /\ outgoing'[m].record = Aged(r)
        BY Zenon, <3>1, <3>2, <3>4
      <3>6. Fits(outgoing[m].to, Aged(r), tries)
        BY <3>1, <3>4, Zenon DEF Fits
      <3>7. tries' = tries
        BY Zenon, <1>1 DEF historyVars
      <3> QED BY <3>5, <3>6, <3>7, Zenon DEF OneOutgoing
    <2> QED BY Zenon, <2>1, <2>2
  <1>8. DOMAIN outgoing' = Members /\ produced' \in 0..MaxProduced
    BY Zenon, <1>1 DEF TypeInv, CountsInv
  <1>9. UNCHANGED <<committed, members, position, runnerVars, faults, historyVars>>
    BY Zenon, <1>1
  <1> QED BY Zenon, <1>5, <1>6, <1>7, <1>8, <1>9, LogStepTypes

-----------------------------------------------------------------------------
(* Polls and commits.                                                      *)

\* A poll takes no more than there is.
LEMMA TakenBounds ==
    ASSUME TypeInv, NEW m \in Members, NEW p \in Assigned(m)
    PROVE  /\ position[m][p] \in Nat /\ Len(log[p]) \in Nat /\ Taken(m, p) \in Nat
           /\ position[m][p] + Taken(m, p) <= Len(log[p])
  <1> DEFINE a == position[m][p]
             n == Len(log[p])
             D == Drained(m, p)
  <1>1. a \in Nat /\ n \in Nat /\ a <= n
    <2>1. p \in Partitions /\ a \in Nat /\ a <= n
      BY Zenon DEF TypeInv, OnePosition, EndOffset
    <2> QED BY <2>1 DEF TypeInv, LogsInv
  <1>2. D \subseteq a..(n - 1)
    BY Zenon DEF Drained, EndOffset
  <1> HIDE DEF a, n, D
  <1>3. IsFiniteSet(a..(n - 1)) /\ Cardinality(a..(n - 1)) = IF a > n - 1 THEN 0 ELSE n - 1 - a + 1
    <2>1. a \in Int /\ n - 1 \in Int
      BY <1>1
    <2> QED BY Zenon, <2>1, FS_Interval
  <1>4. IsFiniteSet(D) /\ Cardinality(D) <= Cardinality(a..(n - 1))
    BY Zenon, <1>2, <1>3, FS_Subset
  <1>5. Cardinality(D) \in Nat
    BY Zenon, <1>4, FS_CardinalityType
  <1>6. a + Cardinality(D) <= n
    BY <1>1, <1>3, <1>4, <1>5
  <1> QED BY Zenon, <1>1, <1>5, <1>6 DEF a, n, D, Taken

\* What a poll does to its member.
LEMMA PollEffect ==
    ASSUME TypeInv, NEW m \in Members, Poll(m)
    PROVE  /\ DOMAIN todo' = Members /\ DOMAIN position' = Members
           /\ pc' = [pc EXCEPT ![m] = "handle"] /\ earned' = earned
           /\ \A n \in Members : n # m => todo'[n] = todo[n] /\ position'[n] = position[n]
           /\ todo'[m] # <<>> /\ todo'[m] \in [DOMAIN todo'[m] -> [from : Nat, to : Nat]]
           /\ DOMAIN todo'[m] \subseteq Assigned(m)
           /\ \A p \in DOMAIN todo'[m] :
                /\ todo'[m][p].from = position[m][p] /\ todo'[m][p].to = position'[m][p]
                /\ todo'[m][p].from < todo'[m][p].to
           /\ Assigned(m)' = Assigned(m) /\ position'[m] \in [Assigned(m) -> Nat]
           /\ \A p \in Assigned(m) : /\ position'[m][p] <= Len(log[p])
                                     /\ p \notin DOMAIN todo'[m] => position'[m][p] = position[m][p]
  <1> DEFINE batch == {p \in Assigned(m) : Taken(m, p) > 0}
             t == [p \in batch |-> [from |-> position[m][p], to |-> position[m][p] + Taken(m, p)]]
             ps == [p \in Assigned(m) |-> position[m][p] + Taken(m, p)]
  <1>1. PlacesInv /\ OnePosition(m)
    BY Zenon DEF TypeInv
  <1>2. /\ batch # {} /\ todo' = [todo EXCEPT ![m] = t] /\ position' = [position EXCEPT ![m] = ps]
        /\ pc' = [pc EXCEPT ![m] = "handle"] /\ earned' = earned
    BY Zenon, <1>1 DEF Poll, DrainPositions, PlacesInv
  <1>3. \A p \in Assigned(m) :
            /\ position[m][p] \in Nat /\ Len(log[p]) \in Nat /\ Taken(m, p) \in Nat
            /\ position[m][p] + Taken(m, p) <= Len(log[p])
    BY Zenon, TakenBounds
  <1>4. /\ DOMAIN t = batch /\ batch \subseteq Assigned(m)
        /\ t \in [DOMAIN t -> [from : Nat, to : Nat]]
        /\ \A p \in batch : /\ t[p].from = position[m][p]
                            /\ t[p].to = position[m][p] + Taken(m, p)
                            /\ t[p].from < t[p].to
    BY <1>3
  <1>5. /\ DOMAIN ps = Assigned(m) /\ ps \in [Assigned(m) -> Nat]
        /\ \A p \in Assigned(m) : /\ ps[p] = position[m][p] + Taken(m, p) /\ ps[p] <= Len(log[p])
                                  /\ p \notin batch => ps[p] = position[m][p]
    BY <1>3
  <1> HIDE DEF t, ps, batch
  <1>6. t # <<>>
    BY Zenon, <1>2, <1>4, EmptyFunction
  <1>7. /\ DOMAIN todo' = Members /\ DOMAIN position' = Members /\ todo'[m] = t /\ position'[m] = ps
        /\ \A n \in Members : n # m => todo'[n] = todo[n] /\ position'[n] = position[n]
    BY Zenon, <1>1, <1>2 DEF PlacesInv
  <1>8. \A p \in DOMAIN t : /\ t[p].from = position[m][p] /\ t[p].to = ps[p]
                            /\ t[p].from < t[p].to
    BY Zenon, <1>4, <1>5
  <1>9. Assigned(m)' = Assigned(m)
    BY Zenon, <1>5, <1>7 DEF Assigned
  <1> QED BY Zenon, <1>2, <1>4, <1>5, <1>6, <1>7, <1>8, <1>9

\* A member polls.
LEMMA PollOnceTypes ==
    ASSUME TypeInv, NEW m \in Members, PollOnce(m)
    PROVE  TypeInv'
  <1>1. /\ Poll(m) /\ pc[m] = "poll"
        /\ UNCHANGED <<log, committed, members, outgoing, produced, faults, historyVars>>
    BY Zenon DEF PollOnce, Poll
  <1>2. /\ DOMAIN todo' = Members /\ DOMAIN position' = Members
        /\ pc' = [pc EXCEPT ![m] = "handle"] /\ earned' = earned
        /\ \A n \in Members : n # m => todo'[n] = todo[n] /\ position'[n] = position[n]
    BY Zenon, <1>1, PollEffect
  <1>3. /\ todo'[m] # <<>> /\ todo'[m] \in [DOMAIN todo'[m] -> [from : Nat, to : Nat]]
        /\ DOMAIN todo'[m] \subseteq Assigned(m)
        /\ \A p \in DOMAIN todo'[m] :
            /\ todo'[m][p].from = position[m][p] /\ todo'[m][p].to = position'[m][p]
            /\ todo'[m][p].from < todo'[m][p].to
        /\ Assigned(m)' = Assigned(m) /\ position'[m] \in [Assigned(m) -> Nat]
        /\ \A p \in Assigned(m) : position'[m][p] <= Len(log[p])
    BY Zenon, <1>1, PollEffect
  <1>4. PlacesInv' /\ pc'[m] = "handle" /\ \A n \in Members : n # m => pc'[n] = pc[n]
    BY Zenon, <1>1, <1>2 DEF TypeInv, PlacesInv
  <1>5. CountsInv'
    BY Zenon, <1>1 DEF TypeInv, CountsInv, historyVars
  <1>6. LogGrows /\ TriesGrow
    BY Zenon, <1>1, SameLogs, SameTries DEF TypeInv, historyVars
  <1>7. \A n \in Members : n # m => OnePosition(n)' /\ OneBatch(n)' /\ OnePlace(n)'
    BY Zenon, <1>1, <1>2, <1>4, <1>6, SamePosition, SameBatch, SamePlace DEF TypeInv
  <1>8. OnePosition(m) /\ OneBatch(m) /\ OnePlace(m)
    BY Zenon DEF TypeInv
  <1>9. OnePosition(m)'
    BY Zenon, <1>1, <1>3, <1>8 DEF OnePosition, EndOffset
  <1>10. OneBatch(m)'
    <2>1. \A p \in DOMAIN todo'[m] : /\ p \in Partitions /\ p[1] \in Subscription[GroupOf[m]]
                                     /\ todo'[m][p].to <= Len(log[p])
      BY Zenon, <1>3, <1>8 DEF OnePosition
    <2> QED BY Zenon, <1>1, <1>2, <1>3, <1>8, <2>1 DEF OneBatch, EndOffset
  <1>11. OnePlace(m)'
    <2>1. Joined(m)
      BY Zenon, <1>1, <1>8 DEF OnePlace
    <2>2. Joined(m)'
      BY Zenon, <1>1, <2>1 DEF Joined
    <2> QED BY Zenon, <1>3, <1>4, <2>2 DEF OnePlace
  <1>12. \A n \in Members : OnePosition(n)' /\ OneBatch(n)' /\ OnePlace(n)'
    BY Zenon, <1>7, <1>9, <1>10, <1>11
  <1> QED BY Zenon, <1>1, <1>4, <1>5, <1>6, <1>12, RunnerTypes

\* A commit ends its batch, whether or not the broker takes it.
LEMMA CommittedTypes ==
    ASSUME TypeInv, NEW m \in Members, pc[m] = "commit", Committed(m), faults' \in 0..MaxFaults,
           CommittedInv', UNCHANGED <<outgoing, produced, historyVars>>
    PROVE  TypeInv'
  <1>1. /\ pc' = [pc EXCEPT ![m] = "poll"] /\ earned' = [earned EXCEPT ![m] = <<>>]
        /\ log' = log /\ members' = members /\ position' = position /\ todo' = todo
        /\ handled' = handled /\ tries' = tries /\ dealt' = dealt
    BY Zenon DEF Committed, historyVars
  <1>2. PlacesInv
    BY Zenon DEF TypeInv
  <1>3. PlacesInv' /\ pc'[m] = "poll" /\ earned'[m] = <<>>
        /\ \A n \in Members : n # m => pc'[n] = pc[n] /\ earned'[n] = earned[n]
    BY Zenon, <1>1, <1>2 DEF PlacesInv
  <1>4. CountsInv' /\ MembersInv'
    BY Zenon, <1>1 DEF TypeInv, CountsInv, MembersInv
  <1>5. LogGrows /\ TriesGrow
    BY Zenon, <1>1, SameLogs, SameTries DEF TypeInv
  <1>6. LogsInv'
    BY Zenon, <1>1, <1>5, SameRecords DEF TypeInv
  <1>7. \A n \in Members : OnePosition(n)' /\ OneOutgoing(n)'
    BY Zenon, <1>1, <1>5, SamePosition, SameOutgoing DEF TypeInv
  <1>8. \A n \in Members : n # m => OneBatch(n)' /\ OnePlace(n)'
    BY Zenon, <1>1, <1>3, <1>5, SameBatch, SamePlace DEF TypeInv
  <1>9. OneBatch(m) /\ OnePlace(m)
    BY Zenon DEF TypeInv
  <1>10. OneBatch(m)'
    <2>1. DOMAIN earned'[m] = {} /\ earned'[m] \in [DOMAIN earned'[m] -> Nat]
      BY <1>3
    <2> QED BY Zenon, <1>1, <1>9, <2>1 DEF OneBatch, EndOffset
  <1>11. OnePlace(m)'
    <2>1. Joined(m) /\ todo[m] = <<>>
      BY Zenon, <1>9 DEF OnePlace
    <2>2. Joined(m)'
      BY Zenon, <1>1, <2>1 DEF Joined
    <2> QED BY Zenon, <1>1, <1>3, <2>1, <2>2 DEF OnePlace
  <1>12. \A n \in Members : OneBatch(n)' /\ OnePlace(n)'
    BY Zenon, <1>8, <1>10, <1>11
  <1> QED BY <1>3, <1>4, <1>6, <1>7, <1>12, Zenon DEF TypeInv

\* The broker stores offsets that were earned.
LEMMA CommitOffsetsTypes ==
    ASSUME TypeInv, NEW m \in Members, CommitOffsets(m, earned[m]), log' = log
    PROVE  /\ CommittedInv'
           /\ \A p \in Partitions : \/ committed'[p] = committed[p]
                                    \/ p \in DOMAIN earned[m] /\ committed'[p] = earned[m][p]
  <1>1. committed' = [p \in Partitions |->
            IF p \in Stored(m, earned[m]) THEN earned[m][p] ELSE committed[p]]
    BY Zenon DEF CommitOffsets
  <1>2. \A p \in Stored(m, earned[m]) : p \in DOMAIN earned[m]
    BY Zenon DEF Stored
  <1>3. \A p \in Partitions : \/ committed'[p] = committed[p]
                              \/ p \in DOMAIN earned[m] /\ committed'[p] = earned[m][p]
    BY Zenon, <1>1, <1>2
  <1>4. ASSUME NEW p \in Partitions
        PROVE  committed'[p] \in Int /\ committed'[p] \in NoOffset..Len(log[p])
    <2>1. CASE committed'[p] = committed[p]
      BY Zenon, <2>1 DEF TypeInv, CommittedInv, EndOffset
    <2>2. CASE p \in DOMAIN earned[m] /\ committed'[p] = earned[m][p]
      <3>1. earned[m][p] \in Nat /\ 1 <= earned[m][p] /\ earned[m][p] <= Len(log[p])
        BY Zenon, <2>2 DEF TypeInv, OneBatch, EndOffset
      <3>2. Len(log[p]) \in Nat
        BY DEF TypeInv, LogsInv
      <3> QED BY <2>2, <3>1, <3>2 DEF NoOffset
    <2> QED BY Zenon, <1>3, <2>1, <2>2
  <1>5. CommittedInv'
    BY Zenon, <1>1, <1>4 DEF CommittedInv, EndOffset, NoOffset
  <1> QED BY Zenon, <1>3, <1>5

-----------------------------------------------------------------------------
(* Rebalances.                                                             *)

\* What is left of a sequence when its first i elements are gone.
LEMMA Dropped ==
    ASSUME NEW S, NEW s \in Seq(S), NEW i \in 1..Len(s), NEW r,
           r = SubSeq(s, i + 1, Len(s))
    PROVE  /\ r \in Seq(S) /\ Len(r) = Len(s) - i /\ DOMAIN r = 1..Len(r)
           /\ \A k \in 1..Len(r) : r[k] = s[k + i]
  <1>1. /\ SubSeq(s, i + 1, Len(s)) \in Seq(S)
        /\ Len(SubSeq(s, i + 1, Len(s))) = IF i + 1 <= Len(s) THEN Len(s) - (i + 1) + 1 ELSE 0
        /\ \A k \in 1..(Len(s) - (i + 1) + 1) : SubSeq(s, i + 1, Len(s))[k] = s[i + 1 + k - 1]
    <2>1. i + 1 \in Int /\ Len(s) \in Int /\ \A k \in (i + 1)..Len(s) : s[k] \in S
      OBVIOUS
    <2> QED BY ONLY <2>1, SubSeqProperties
  <1>2. Len(r) = Len(s) - i
    BY <1>1
  <1> QED BY <1>1, <1>2

\* What is left of a sequence when its i-th element is gone.
LEMMA Removed ==
    ASSUME NEW S, NEW s \in Seq(S), NEW i \in 1..Len(s), NEW r,
           r = SubSeq(s, 1, i - 1) \o SubSeq(s, i + 1, Len(s))
    PROVE  /\ r \in Seq(S) /\ Len(r) = Len(s) - 1 /\ DOMAIN r = 1..Len(r)
           /\ \A k \in 1..Len(r) : r[k] = IF k < i THEN s[k] ELSE s[k + 1]
  <1> DEFINE a == SubSeq(s, 1, i - 1)
             b == SubSeq(s, i + 1, Len(s))
  <1>1. /\ a \in Seq(S) /\ Len(a) = i - 1
        /\ \A k \in 1..(i - 1) : a[k] = s[k]
    <2>1. 1 \in Int /\ i - 1 \in Int /\ \A k \in 1..(i - 1) : s[k] \in S
      OBVIOUS
    <2>2. /\ a \in Seq(S)
          /\ Len(a) = IF 1 <= i - 1 THEN i - 1 - 1 + 1 ELSE 0
          /\ \A k \in 1..(i - 1 - 1 + 1) : a[k] = s[1 + k - 1]
      BY ONLY <2>1, SubSeqProperties
    <2> QED BY <2>2
  <1>2. /\ b \in Seq(S) /\ Len(b) = Len(s) - i
        /\ \A k \in 1..Len(b) : b[k] = s[k + i]
    BY Dropped
  <1> HIDE DEF a, b
  <1>3. r = a \o b
    BY Zenon DEF a, b
  <1>4. /\ a \o b \in Seq(S) /\ Len(a \o b) = Len(a) + Len(b)
        /\ \A k \in 1..(Len(a) + Len(b)) :
              (a \o b)[k] = IF k <= Len(a) THEN a[k] ELSE b[k - Len(a)]
    BY ONLY Zenon, <1>1, <1>2, ConcatProperties
  <1>5. /\ r \in Seq(S) /\ Len(r) = Len(s) - 1
        /\ \A k \in 1..Len(r) : r[k] = IF k < i THEN a[k] ELSE b[k - (i - 1)]
    <2>1. Len(s) \in Nat /\ i \in 1..Len(s)
      OBVIOUS
    <2> QED BY ONLY <1>1, <1>2, <1>3, <1>4, <2>1
  <1>6. ASSUME NEW k \in 1..Len(r)  PROVE r[k] = IF k < i THEN s[k] ELSE s[k + 1]
    <2>1. Len(s) \in Nat /\ i \in 1..Len(s)
      OBVIOUS
    <2>2. CASE k < i
      BY ONLY <1>1, <1>5, <1>6, <2>1, <2>2
    <2>3. CASE ~(k < i)
      <3>1. k - (i - 1) \in 1..Len(b) /\ k - (i - 1) + i = k + 1
        BY ONLY <1>2, <1>5, <1>6, <2>1, <2>3
      <3>2. b[k - (i - 1)] = s[k + 1]
        BY ONLY Zenon, <1>2, <3>1
      <3> QED BY ONLY Zenon, <1>5, <1>6, <2>3, <3>2
    <2> QED BY Zenon, <2>2, <2>3
  <1>7. DOMAIN r = 1..Len(r)
    BY ONLY <1>5
  <1> QED BY ONLY Zenon, <1>5, <1>6, <1>7

\* A member reads a partition from the committed offset, the start or the end.
LEMMA StartingPositionTypes ==
    ASSUME TypeInv, NEW p \in Partitions
    PROVE  StartingPosition(p) \in Nat /\ StartingPosition(p) <= Len(log[p])
  <1>1. Len(log[p]) \in Nat /\ committed[p] \in Int /\ committed[p] \in NoOffset..Len(log[p])
    BY DEF TypeInv, LogsInv, CommittedInv, EndOffset
  <1> QED BY <1>1 DEF StartingPosition, EndOffset, NoOffset

\* A rebalance sends every member of the group to the starting positions.
LEMMA RebalancedPositions ==
    ASSUME NEW g, NEW ms, Rebalance(g, ms), NEW n \in Members
    PROVE  /\ GroupOf[n] # g => position'[n] = position[n]
           /\ GroupOf[n] = g => \A p \in Assigned(n)' :
                p \in Partitions /\ position'[n][p] = StartingPosition(p)
  <1>1. position'[n] = IF GroupOf[n] # g THEN position[n]
                       ELSE IF \E i \in DOMAIN ms : ms[i] = n
                       THEN [p \in Share(g, n, ms) |-> StartingPosition(p)]
                       ELSE <<>>
    BY Zenon DEF Rebalance
  <1>2. Share(g, n, ms) \subseteq Partitions
    BY Zenon DEF Share
  <1>3. CASE GroupOf[n] # g
    BY Zenon, <1>1, <1>3
  <1>4. CASE GroupOf[n] = g /\ \E i \in DOMAIN ms : ms[i] = n
    <2>1. position'[n] = [p \in Share(g, n, ms) |-> StartingPosition(p)]
      BY Zenon, <1>1, <1>4
    <2>2. Assigned(n)' = Share(g, n, ms)
      BY Zenon, <2>1 DEF Assigned
    <2> QED BY Zenon, <1>2, <1>4, <2>1, <2>2
  <1>5. CASE GroupOf[n] = g /\ ~\E i \in DOMAIN ms : ms[i] = n
    <2>1. position'[n] = <<>>
      BY Zenon, <1>1, <1>5
    <2>2. Assigned(n)' = {}
      BY <2>1 DEF Assigned
    <2> QED BY Zenon, <1>5, <2>2
  <1> QED BY Zenon, <1>3, <1>4, <1>5

\* A rebalance gives every member of the group positions in topics of the group.
LEMMA RebalanceTypes ==
    ASSUME TypeInv, NEW g \in Groups, NEW ms \in Seq(Members), IsInjective(ms), Rebalance(g, ms)
    PROVE  /\ log' = log /\ committed' = committed /\ DOMAIN position' = Members
           /\ MembersInv' /\ members'[g] = ms
           /\ \A h \in Groups : h # g => members'[h] = members[h]
           /\ \A n \in Members : OnePosition(n)'
  <1>1. /\ members' = [members EXCEPT ![g] = ms] /\ log' = log /\ committed' = committed
        /\ position' = [m \in Members |->
              IF GroupOf[m] # g THEN position[m]
              ELSE IF \E i \in DOMAIN ms : ms[i] = m
              THEN [p \in Share(g, m, ms) |-> StartingPosition(p)]
              ELSE <<>>]
    BY Zenon DEF Rebalance
  <1>2. MembersInv /\ DOMAIN members = Groups
    BY Zenon DEF TypeInv, MembersInv
  <1>3. /\ DOMAIN members' = Groups /\ members'[g] = ms
        /\ \A h \in Groups : h # g => members'[h] = members[h]
    BY Zenon, <1>1, <1>2
  <1>4. MembersInv'
    <2>1. \A h \in Groups : members'[h] \in Seq(Members) /\ IsInjective(members'[h])
      BY <1>2, <1>3, Zenon DEF MembersInv
    <2> QED BY <1>3, <2>1, Zenon DEF MembersInv, IsInjective
  <1>5. ASSUME NEW n \in Members  PROVE OnePosition(n)'
    <2>1. CASE GroupOf[n] # g
      <3>1. position'[n] = position[n]
        BY Zenon, <1>1, <2>1
      <3>2. LogGrows
        BY Zenon, <1>1, SameLogs DEF TypeInv
      <3> QED BY Zenon, <3>1, <3>2, SamePosition DEF TypeInv
    <2>2. CASE GroupOf[n] = g /\ \E i \in DOMAIN ms : ms[i] = n
      <3> DEFINE S == Share(g, n, ms)
      <3>1. position'[n] = [p \in S |-> StartingPosition(p)]
        BY Zenon, <1>1, <2>2
      <3>2. \A p \in S : p \in Partitions /\ p[1] \in Subscription[g]
        BY Zenon DEF Share
      <3> HIDE DEF S
      <3>3. \A p \in S : StartingPosition(p) \in Nat /\ StartingPosition(p) <= Len(log[p])
        BY Zenon, <3>2, StartingPositionTypes
      <3>4. Assigned(n)' = S /\ \A p \in S : position'[n][p] = StartingPosition(p)
        BY Zenon, <3>1 DEF Assigned
      <3>5. position'[n] \in [S -> Nat]
        BY Zenon, <3>1, <3>3
      <3> QED BY Zenon, <1>1, <2>2, <3>2, <3>3, <3>4, <3>5 DEF OnePosition, EndOffset
    <2>3. CASE GroupOf[n] = g /\ ~\E i \in DOMAIN ms : ms[i] = n
      <3>1. position'[n] = <<>>
        BY Zenon, <1>1, <2>3
      <3>2. Assigned(n)' = {} /\ position'[n] \in [{} -> Nat]
        BY <3>1 DEF Assigned
      <3> QED BY Zenon, <3>2 DEF OnePosition
    <2> QED BY Zenon, <2>1, <2>2, <2>3
  <1>6. DOMAIN position' = Members
    BY Zenon, <1>1
  <1> QED BY Zenon, <1>1, <1>3, <1>4, <1>5, <1>6

\* A runner starts.
LEMMA RestartTypes ==
    ASSUME TypeInv, NEW m \in Members, Restart(m)
    PROVE  TypeInv'
  <1> DEFINE g == GroupOf[m]
             ms == Append(members[g], m)
  <1>1. /\ pc[m] = "off" /\ Rebalance(g, ms) /\ pc' = [pc EXCEPT ![m] = "poll"]
        /\ todo' = todo /\ earned' = earned
        /\ UNCHANGED <<outgoing, produced, faults, historyVars>>
    BY Zenon DEF Restart, Join, JoinGroup
  <1>2. g \in Groups /\ ~Joined(m) /\ members[g] \in Seq(Members) /\ IsInjective(members[g])
    BY Zenon, <1>1, GroupOfMember DEF TypeInv, OnePlace, MembersInv
  <1>3. /\ ms \in Seq(Members) /\ Len(members[g]) \in Nat /\ DOMAIN members[g] = 1..Len(members[g])
        /\ DOMAIN ms = 1..(Len(members[g]) + 1)
        /\ ms[Len(members[g]) + 1] = m
        /\ \A i \in 1..Len(members[g]) : ms[i] = members[g][i]
    BY <1>2
  <1>4. \A i \in 1..Len(members[g]) : members[g][i] # m
    BY Zenon, <1>2, <1>3 DEF Joined
  <1>5. IsInjective(ms)
    <2>1. ASSUME NEW i \in DOMAIN ms, NEW j \in DOMAIN ms, ms[i] = ms[j]  PROVE i = j
      <3>1. CASE i = Len(members[g]) + 1 \/ j = Len(members[g]) + 1
        BY <1>3, <1>4, <2>1, <3>1
      <3>2. CASE i # Len(members[g]) + 1 /\ j # Len(members[g]) + 1
        <4>1. i \in 1..Len(members[g]) /\ j \in 1..Len(members[g])
          BY <1>3, <2>1, <3>2
        <4> QED BY Zenon, <1>2, <1>3, <2>1, <4>1 DEF IsInjective
      <3> QED BY Zenon, <3>1, <3>2
    <2> QED BY Zenon, <2>1 DEF IsInjective
  <1> HIDE DEF ms
  <1>6. /\ log' = log /\ committed' = committed /\ DOMAIN position' = Members
        /\ MembersInv' /\ members'[g] = ms
        /\ \A h \in Groups : h # g => members'[h] = members[h]
        /\ \A n \in Members : OnePosition(n)'
    BY Zenon, <1>1, <1>2, <1>3, <1>5, RebalanceTypes
  <1>7. PlacesInv' /\ pc'[m] = "poll" /\ \A n \in Members : n # m => pc'[n] = pc[n]
    BY Zenon, <1>1, <1>6 DEF TypeInv, PlacesInv
  <1>8. CountsInv'
    BY Zenon, <1>1, <1>6 DEF TypeInv, CountsInv, historyVars
  <1>9. LogGrows /\ TriesGrow
    BY Zenon, <1>1, <1>6, SameLogs, SameTries DEF TypeInv, historyVars
  <1>10. LogsInv' /\ CommittedInv'
    BY Zenon, <1>6, <1>9, SameRecords, SameCommitted DEF TypeInv
  <1>11. \A n \in Members : OneBatch(n)' /\ OneOutgoing(n)'
    BY Zenon, <1>1, <1>9, SameBatch, SameOutgoing DEF TypeInv
  <1>12. ASSUME NEW n \in Members  PROVE OnePlace(n)'
    <2>1. OnePlace(n) /\ OnePlace(m) /\ todo'[n] = todo[n]
      BY Zenon, <1>1 DEF TypeInv
    <2>2. CASE n = m
      <3>1. Joined(m)'
        BY <1>3, <1>6 DEF Joined
      <3>2. todo[m] = <<>>
        BY Zenon, <1>1, <2>1 DEF OnePlace
      <3> QED BY Zenon, <1>7, <2>1, <2>2, <3>1, <3>2 DEF OnePlace
    <2>3. CASE n # m
      <3>1. Joined(n)' <=> Joined(n)
        <4>1. CASE GroupOf[n] # g
          BY Zenon, <1>6, <4>1, GroupOfMember DEF Joined
        <4>2. CASE GroupOf[n] = g
          <5>1. (\E i \in DOMAIN ms : ms[i] = n) <=> \E i \in DOMAIN members[g] : members[g][i] = n
            BY <1>3, <2>3
          <5> QED BY Zenon, <1>6, <4>2, <5>1 DEF Joined
        <4> QED BY Zenon, <4>1, <4>2
      <3> QED BY <1>7, <2>1, <2>3, <3>1, Zenon DEF OnePlace
    <2> QED BY Zenon, <2>2, <2>3
  <1> QED BY <1>6, <1>7, <1>8, <1>10, <1>11, <1>12, Zenon DEF TypeInv

\* A runner goes away.
LEMMA LeaveTypes ==
    ASSUME TypeInv, NEW m \in Members, Leave(m)
    PROVE  TypeInv'
  <1> DEFINE g == GroupOf[m]
             old == members[g]
  <1> DEFINE but(k) == SubSeq(old, 1, k - 1) \o SubSeq(old, k + 1, Len(old))
  <1>1. PICK k \in DOMAIN old : old[k] = m /\ Rebalance(g, but(k))
    BY Zenon DEF Leave, Quit, LeaveGroup
  <1> DEFINE ms == but(k)
  <1>2. /\ Rebalance(g, ms) /\ pc' = [pc EXCEPT ![m] = "off"]
        /\ todo' = [todo EXCEPT ![m] = <<>>] /\ earned' = [earned EXCEPT ![m] = <<>>]
        /\ faults < MaxFaults /\ faults' = faults + 1 /\ Forsake(m)
        /\ UNCHANGED <<produced, historyVars>>
    BY Zenon, <1>1 DEF Leave, Quit, Fault
  <1>3. g \in Groups /\ old \in Seq(Members) /\ IsInjective(old) /\ Len(old) \in Nat
        /\ DOMAIN old = 1..Len(old)
    BY GroupOfMember DEF TypeInv, MembersInv
  <1>a. k \in 1..Len(old) /\ ms = SubSeq(old, 1, k - 1) \o SubSeq(old, k + 1, Len(old))
    BY Zenon, <1>1, <1>3
  <1> HIDE DEF ms, old
  <1>4. /\ ms \in Seq(Members) /\ Len(ms) = Len(old) - 1 /\ DOMAIN ms = 1..Len(ms)
        /\ \A i \in 1..Len(ms) : ms[i] = IF i < k THEN old[i] ELSE old[i + 1]
    <2>1. old \in Seq(Members)
      BY Zenon, <1>3
    <2> QED BY ONLY ZenonT(30), <2>1, <1>a, Removed
  <1>5. \A i, j \in 1..Len(old) : old[i] = old[j] => i = j
    BY Zenon, <1>3 DEF IsInjective
  <1>6. IsInjective(ms)
    <2>1. ASSUME NEW i \in DOMAIN ms, NEW j \in DOMAIN ms, ms[i] = ms[j]  PROVE i = j
      <3>1. /\ i \in 1..(Len(old) - 1) /\ j \in 1..(Len(old) - 1)
            /\ Len(old) \in Nat /\ k \in 1..Len(old)
        BY ONLY Zenon, <1>3, <1>4, <1>a, <2>1
      <3>2. PICK a : a = IF i < k THEN i ELSE i + 1
        BY Zenon
      <3>3. PICK b : b = IF j < k THEN j ELSE j + 1
        BY Zenon
      <3>4. a \in 1..Len(old) /\ b \in 1..Len(old) /\ (a = b => i = j)
        BY ONLY <3>1, <3>2, <3>3
      <3>5. ms[i] = old[a] /\ ms[j] = old[b]
        BY ONLY Zenon, <1>4, <2>1, <3>2, <3>3
      <3> QED BY ONLY Zenon, <1>5, <2>1, <3>4, <3>5
    <2> QED BY Zenon, <2>1 DEF IsInjective
  <1>7. \A n : (\E i \in DOMAIN ms : ms[i] = n) <=> n # m /\ \E i \in DOMAIN old : old[i] = n
    <2>1. ASSUME NEW i \in DOMAIN ms  PROVE ms[i] # m /\ \E j \in DOMAIN old : old[j] = ms[i]
      <3>0. i \in 1..Len(ms) /\ ms[i] = IF i < k THEN old[i] ELSE old[i + 1]
        BY ONLY Zenon, <1>4, <2>1
      <3>a. /\ i < k => i \in 1..Len(old) /\ i # k
            /\ ~(i < k) => i + 1 \in 1..Len(old) /\ i + 1 # k
        <4>1. i \in 1..(Len(old) - 1) /\ Len(old) \in Nat /\ k \in 1..Len(old)
          BY ONLY Zenon, <1>3, <1>4, <1>a, <3>0
        <4> QED BY ONLY <4>1
      <3>1. PICK j \in 1..Len(old) : j # k /\ ms[i] = old[j]
        BY ONLY Zenon, <3>0, <3>a
      <3>2. old[j] # m
        BY Zenon, <1>1, <1>5, <1>a, <3>1
      <3> QED BY Zenon, <1>3, <3>1, <3>2
    <2>2. ASSUME NEW j \in DOMAIN old, old[j] # m  PROVE \E i \in DOMAIN ms : ms[i] = old[j]
      <3>1. CASE j < k
        <4>1. j \in 1..Len(ms) /\ ms[j] = old[j]
          BY <1>1, <1>3, <1>4, <2>2, <3>1
        <4> QED BY Zenon, <1>4, <4>1
      <3>2. CASE j > k
        <4>1. j - 1 \in 1..Len(ms) /\ ms[j - 1] = old[j]
          BY <1>1, <1>3, <1>4, <2>2, <3>2
        <4> QED BY Zenon, <1>4, <4>1
      <3> QED BY <1>1, <1>3, <2>2, <3>1, <3>2
    <2> QED BY Zenon, <2>1, <2>2
  <1>8. /\ log' = log /\ committed' = committed /\ DOMAIN position' = Members
        /\ MembersInv' /\ members'[g] = ms
        /\ \A h \in Groups : h # g => members'[h] = members[h]
        /\ \A n \in Members : OnePosition(n)'
    BY Zenon, <1>2, <1>3, <1>4, <1>6, RebalanceTypes
  <1>9. DOMAIN outgoing' = Members /\ \A n \in Members : outgoing'[n] \in {outgoing[n], NoPublish}
    BY Zenon, <1>2 DEF Forsake, TypeInv, PlacesInv
  <1>10. /\ PlacesInv' /\ pc'[m] = "off" /\ todo'[m] = <<>> /\ earned'[m] = <<>>
         /\ \A n \in Members : n # m => pc'[n] = pc[n] /\ todo'[n] = todo[n] /\ earned'[n] = earned[n]
    BY Zenon, <1>2, <1>8, <1>9 DEF TypeInv, PlacesInv
  <1>11. CountsInv'
    <2>1. faults' \in 0..MaxFaults
      BY <1>2, LadderBounds DEF TypeInv, CountsInv
    <2> QED BY Zenon, <1>2, <1>8, <2>1 DEF TypeInv, CountsInv, historyVars
  <1>12. LogGrows /\ TriesGrow
    BY Zenon, <1>2, <1>8, SameLogs, SameTries DEF TypeInv, historyVars
  <1>13. LogsInv' /\ CommittedInv'
    BY Zenon, <1>8, <1>12, SameRecords, SameCommitted DEF TypeInv
  <1>14. \A n \in Members : OneOutgoing(n)'
    BY Zenon, <1>9, <1>12, SameOutgoing DEF TypeInv
  <1>15. ASSUME NEW n \in Members  PROVE OneBatch(n)' /\ OnePlace(n)'
    <2>1. OneBatch(n) /\ OnePlace(n)
      BY Zenon DEF TypeInv
    <2>2. CASE n = m
      <3>1. ~Joined(m)'
        BY Zenon, <1>7, <1>8 DEF Joined
      <3>2. OnePlace(m)'
        BY Zenon, <1>10, <3>1 DEF OnePlace
      <3>3. DOMAIN todo'[m] = {} /\ DOMAIN earned'[m] = {}
        BY <1>10
      <3>4. todo'[m] \in [DOMAIN todo'[m] -> [from : Nat, to : Nat]]
            /\ earned'[m] \in [DOMAIN earned'[m] -> Nat]
        BY <1>10
      <3> QED BY Zenon, <2>2, <3>2, <3>3, <3>4 DEF OneBatch
    <2>3. CASE n # m
      <3>1. OneBatch(n)'
        BY Zenon, <1>10, <1>12, <2>1, <2>3, SameBatch
      <3>2. Joined(n)' <=> Joined(n)
        <4>1. CASE GroupOf[n] # g
          BY Zenon, <1>8, <4>1, GroupOfMember DEF Joined
        <4>2. CASE GroupOf[n] = g
          BY <1>7, <1>8, <2>3, <4>2 DEF Joined, old
        <4> QED BY Zenon, <4>1, <4>2
      <3>3. OnePlace(n)'
        BY <1>10, <2>1, <2>3, <3>2, Zenon DEF OnePlace
      <3> QED BY Zenon, <3>1, <3>3
    <2> QED BY Zenon, <2>2, <2>3
  <1> QED BY <1>8, <1>10, <1>11, <1>13, <1>14, <1>15, Zenon DEF TypeInv

-----------------------------------------------------------------------------
(* The type theorems.                                                      *)

\* The initial state is well typed.
LEMMA InitTypes ==
    ASSUME Init
    PROVE  TypeInv
  <1>1. /\ log = [p \in Partitions |-> <<>>] /\ committed = [p \in Partitions |-> NoOffset]
        /\ members = Roster
        /\ position = [m \in Members |-> [p \in Share(GroupOf[m], m, Roster[GroupOf[m]]) |-> 0]]
        /\ pc = [m \in Members |-> "poll"] /\ todo = [m \in Members |-> <<>>]
        /\ earned = [m \in Members |-> <<>>] /\ outgoing = [m \in Members |-> NoPublish]
        /\ produced = 0 /\ faults = 0 /\ handled = {}
        /\ tries = [i \in Ids |-> 0] /\ dealt = [p \in Partitions |-> {}]
    BY Zenon DEF Init, BrokerInit, RunnerInit
  <1>2. \A p \in Partitions : log[p] \in Seq(Records) /\ Len(log[p]) = 0
    BY <1>1
  <1>3. LogsInv
    BY <1>1, <1>2 DEF LogsInv
  <1>4. CountsInv
    BY <1>1, LadderBounds, LadderAssumption DEF CountsInv
  <1>5. CommittedInv
    BY <1>1, <1>2 DEF CommittedInv, NoOffset, EndOffset
  <1>6. MembersInv
    <2>1. DOMAIN Roster = Groups /\ \A g \in Groups : Roster[g] \in Seq(Members) /\ IsInjective(Roster[g])
      BY Zenon, GroupAssumption, RosterMembers
    <2> QED BY Zenon, <1>1, <2>1 DEF MembersInv
  <1>7. PlacesInv
    BY Zenon, <1>1 DEF PlacesInv
  <1>8. ASSUME NEW m \in Members  PROVE OnePosition(m)
    <2> DEFINE S == Share(GroupOf[m], m, Roster[GroupOf[m]])
    <2>1. \A p \in S : p \in Partitions /\ p[1] \in Subscription[GroupOf[m]]
      BY Zenon DEF Share
    <2>2. position[m] = [p \in S |-> 0]
      BY Zenon, <1>1
    <2> HIDE DEF S
    <2>3. Assigned(m) = S /\ position[m] \in [S -> Nat] /\ \A p \in S : position[m][p] = 0
      BY <2>2 DEF Assigned
    <2> QED BY <1>2, <2>1, <2>3 DEF OnePosition, EndOffset
  <1>9. ASSUME NEW m \in Members  PROVE OneBatch(m) /\ OneOutgoing(m)
    <2>1. todo[m] = <<>> /\ earned[m] = <<>> /\ outgoing[m] = NoPublish
      BY Zenon, <1>1
    <2>2. DOMAIN todo[m] = {} /\ DOMAIN earned[m] = {}
      BY <2>1
    <2>3. todo[m] \in [DOMAIN todo[m] -> [from : Nat, to : Nat]]
          /\ earned[m] \in [DOMAIN earned[m] -> Nat]
      BY <2>1
    <2> QED BY Zenon, <2>1, <2>2, <2>3 DEF OneBatch, OneOutgoing
  <1>10. ASSUME NEW m \in Members  PROVE OnePlace(m)
    <2>1. Joined(m)
      BY Zenon, <1>1, GroupOfMember DEF Joined
    <2> QED BY Zenon, <1>1, <2>1 DEF OnePlace
  <1> QED BY <1>3, <1>4, <1>5, <1>6, <1>7, <1>8, <1>9, <1>10, Zenon DEF TypeInv

\* Every step keeps the types.
LEMMA NextTypes ==
    ASSUME TypeInv, [Next]_vars
    PROVE  TypeInv'
  <1>1. CASE Tick
    BY Zenon, <1>1, TickTypes
  <1>2. ASSUME NEW t \in 0..Tiers, NEW form \in {"plain", "unreadable"}, Produce(t, form)
        PROVE  TypeInv'
    BY Zenon, <1>2, ProduceTypes
  <1>3. ASSUME NEW m \in Members, HandleOne(m)  PROVE TypeInv'
    <2>1. CASE HandlerReturns(m)
      BY Zenon, <2>1, HandlerReturnsTypes
    <2>2. CASE Defer(m)
      <3>1. /\ pc[m] = "handle" /\ Stall(m) /\ faults' = faults /\ outgoing' = outgoing
            /\ UNCHANGED <<log, committed, members, produced, historyVars>>
        BY Zenon, <2>2 DEF Defer
      <3>2. faults' \in 0..MaxFaults /\ Forsake(m)
        BY Zenon, <3>1 DEF TypeInv, CountsInv, Forsake
      <3> QED BY Zenon, <3>1, <3>2, StallStepTypes
    <2>3. CASE CannotRead(m)
      BY Zenon, <2>3, CannotReadTypes
    <2>4. CASE Replay(m)
      BY Zenon, <2>4, ReplayTypes
    <2>5. CASE ReplayRefused(m)
      <3>1. /\ pc[m] = "handle" /\ Finish(m) /\ DealtWith(m)
            /\ UNCHANGED <<log, committed, members, outgoing, produced, faults, handled, tries>>
        BY Zenon, <2>5 DEF ReplayRefused
      <3> QED BY Zenon, <3>1, SkippedTypes
    <2>6. ASSUME NEW permanent \in BOOLEAN, HandlerRaises(m, permanent)  PROVE TypeInv'
      BY Zenon, <2>6, HandlerRaisesTypes
    <2> QED BY Zenon, <1>3, <2>1, <2>2, <2>3, <2>4, <2>5, <2>6 DEF HandleOne
  <1>4. ASSUME NEW m \in Members, Published(m)  PROVE TypeInv'
    <2>1. /\ pc[m] = "publish" /\ Finish(m) /\ DealtWith(m)
          /\ UNCHANGED <<log, committed, members, outgoing, produced, faults, handled, tries>>
      BY Zenon, <1>4 DEF Published
    <2> QED BY Zenon, <2>1, SkippedTypes
  <1>5. ASSUME NEW m \in Members, HandlerTimesOut(m) \/ PublishFails(m)  PROVE TypeInv'
    <2>1. /\ pc[m] \in {"handle", "publish"} /\ Stall(m) /\ Fault /\ Forsake(m)
          /\ UNCHANGED <<log, committed, members, produced, historyVars>>
      BY Zenon, <1>5 DEF HandlerTimesOut, Reaches, PublishFails, OnPublishError, Forsake
    <2>2. faults' \in 0..MaxFaults
      BY <2>1, LadderBounds DEF TypeInv, CountsInv, Fault
    <2> QED BY Zenon, <2>1, <2>2, StallStepTypes
  <1>6. ASSUME NEW m \in Members, CommitOnce(m)  PROVE TypeInv'
    <2>1. /\ pc[m] = "commit" /\ Committed(m) /\ CommitOffsets(m, earned[m]) /\ log' = log
          /\ faults' = faults /\ UNCHANGED <<outgoing, produced, historyVars>>
      BY Zenon, <1>6 DEF CommitOnce, Commit, Committed
    <2>2. CommittedInv' /\ faults' \in 0..MaxFaults
      BY Zenon, <2>1, CommitOffsetsTypes DEF TypeInv, CountsInv
    <2> QED BY Zenon, <2>1, <2>2, CommittedTypes
  <1>7. ASSUME NEW m \in Members, CommitLost(m)  PROVE TypeInv'
    <2>1. /\ pc[m] = "commit" /\ Committed(m) /\ committed' = committed /\ log' = log
          /\ Fault /\ UNCHANGED <<outgoing, produced, historyVars>>
      BY Zenon, <1>7 DEF CommitLost, CommitFails, Committed
    <2>2. CommittedInv' /\ faults' \in 0..MaxFaults
      BY <2>1, LadderBounds, SameLogs, SameCommitted DEF TypeInv, CountsInv, Fault
    <2> QED BY Zenon, <2>1, <2>2, CommittedTypes
  <1>8. ASSUME NEW m \in Members, Restart(m) \/ PollOnce(m) \/ Land(m) \/ Leave(m)
        PROVE  TypeInv'
    BY Zenon, <1>8, RestartTypes, PollOnceTypes, LandTypes, LeaveTypes
  <1>9. CASE UNCHANGED vars
    <2>1. /\ UNCHANGED <<log, committed, members, position, pc, todo, earned>>
          /\ UNCHANGED <<outgoing, produced, faults, handled, tries, dealt>>
      BY Zenon, <1>9 DEF vars, brokerVars, runnerVars, historyVars
    <2>2. LogsInv' /\ CountsInv' /\ CommittedInv' /\ MembersInv' /\ PlacesInv'
      BY Zenon, <2>1 DEF TypeInv, LogsInv, CountsInv, CommittedInv, MembersInv, PlacesInv, EndOffset
    <2>3. LogGrows /\ TriesGrow
      BY Zenon, <2>1, SameLogs, SameTries DEF TypeInv
    <2>4. ASSUME NEW m \in Members
          PROVE  OnePosition(m)' /\ OneBatch(m)' /\ OnePlace(m)' /\ OneOutgoing(m)'
      BY <2>1, <2>3, SamePosition, SameBatch, SamePlace, SameOutgoing, Zenon DEF TypeInv
    <2> QED BY <2>2, <2>4, Zenon DEF TypeInv
  <1> QED BY Zenon, <1>1, <1>2, <1>3, <1>4, <1>5, <1>6, <1>7, <1>8, <1>9 DEF Next

\* Every reachable state is well typed in the strong sense.
THEOREM TypeInvariance == Spec => []TypeInv
  <1>1. Init => TypeInv
    BY Zenon, InitTypes
  <1>2. TypeInv /\ [Next]_vars => TypeInv'
    BY Zenon, NextTypes
  <1> QED BY <1>1, <1>2, PTL DEF Spec

\* TypeOK of the broker, the runners and the ladder.
THEOREM TypeCorrect == Spec => []TypeOK
  <1>1. TypeInv => TypeOK
    <2> SUFFICES ASSUME TypeInv PROVE TypeOK
      BY Zenon
    <2>1. BrokerTypeOK
      <3>1. \A p \in Partitions : committed[p] \in NoOffset..EndOffset(p)
        BY Zenon DEF TypeInv, CommittedInv
      <3>2. DOMAIN members = Groups
        BY Zenon DEF TypeInv, MembersInv
      <3>3. ASSUME NEW m \in Members, NEW p \in Assigned(m)
            PROVE  /\ p \in Partitions /\ p[1] \in Subscription[GroupOf[m]]
                   /\ position[m][p] \in 0..EndOffset(p)
        <4>1. /\ p \in Partitions /\ p[1] \in Subscription[GroupOf[m]]
              /\ position[m][p] \in Nat /\ position[m][p] <= Len(log[p])
          BY Zenon, <3>3 DEF TypeInv, OnePosition, EndOffset
        <4>2. Len(log[p]) \in Nat
          BY <4>1 DEF TypeInv, LogsInv
        <4> QED BY <4>1, <4>2 DEF EndOffset
      <3> QED BY Zenon, <3>1, <3>2, <3>3 DEF BrokerTypeOK
    <2>2. RunnerTypeOK
      <3>1. pc \in [Members -> {"off", "poll", "handle", "publish", "commit"}]
        BY Zenon DEF TypeInv, PlacesInv
      <3>2. ASSUME NEW m \in Members
            PROVE  /\ \A p \in DOMAIN todo[m] : todo[m][p].from < todo[m][p].to
                   /\ \A p \in DOMAIN earned[m] : earned[m][p] \in 1..EndOffset(p)
        <4>1. \A p \in DOMAIN todo[m] : todo[m][p].from < todo[m][p].to
          BY Zenon, <3>2 DEF TypeInv, OneBatch
        <4>2. ASSUME NEW p \in DOMAIN earned[m]  PROVE earned[m][p] \in 1..EndOffset(p)
          <5>1. /\ p \in Partitions /\ earned[m][p] \in Nat
                /\ 1 <= earned[m][p] /\ earned[m][p] <= Len(log[p])
            BY Zenon, <4>2 DEF TypeInv, OneBatch, EndOffset
          <5>2. Len(log[p]) \in Nat
            BY <5>1 DEF TypeInv, LogsInv
          <5> QED BY <5>1, <5>2 DEF EndOffset
        <4> QED BY Zenon, <4>1, <4>2
      <3>3. \A m \in Members : OnePlace(m)
        BY Zenon DEF TypeInv
      <3> QED BY Zenon, <3>1, <3>2, <3>3 DEF RunnerTypeOK, OnePlace
    <2>3. \A p \in Partitions : \A i \in 1..Len(log[p]) : log[p][i] \in Records
      BY DEF TypeInv, LogsInv
    <2>4. \A m \in Members : outgoing[m] # NoPublish => outgoing[m].record \in Records
      BY Zenon DEF TypeInv, OneOutgoing
    <2> QED BY Zenon, <2>1, <2>2, <2>3, <2>4 DEF TypeInv, CountsInv, TypeOK
  <1> QED BY <1>1, TypeInvariance, PTL

\* A record has moved down the ladder only as often as its handler has failed.
THEOREM AttemptsWereCounted == Spec => []AttemptsWereMade
  <1>1. TypeInv => AttemptsWereMade
    <2> SUFFICES ASSUME TypeInv, NEW p \in Partitions, NEW k \in DOMAIN log[p]
                 PROVE  log[p][k].form = "failed" /\ log[p][k].origin = 0
                        => log[p][k].attempts <= tries[log[p][k].id]
      BY Zenon DEF AttemptsWereMade
    <2>1. k \in 1..Len(log[p])
      BY DEF TypeInv, LogsInv
    <2>2. Fits(p[1], log[p][k], tries)
      BY Zenon, <2>1 DEF TypeInv, LogsInv
    <2> QED BY <2>2, Zenon DEF Fits
  <1> QED BY <1>1, TypeInvariance, PTL
=============================================================================
