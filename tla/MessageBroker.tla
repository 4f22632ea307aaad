---------------------------- MODULE MessageBroker ----------------------------
(***************************************************************************)
(* The broker of src/kafka/memory.py, which stands for Kafka: append-only   *)
(* logs, and per consumer group the committed offsets and the current       *)
(* assignment.  A topic is a number, a partition a topic with a number; each *)
(* topic here is read by one group, for groups share nothing but the logs.  *)
(***************************************************************************)
EXTENDS Integers, Sequences, FiniteSets, Functions

CONSTANTS
    Topics,
    Width,          \* a topic's number of partitions
    Groups,
    Subscription,   \* the topics of each group
    Roster,         \* the members of each group, in the order they first join
    Latest,         \* auto_offset_reset = "latest"
    MaxRecords      \* ConsumerConfig.max_records

ASSUME TopicAssumption == Topics \subseteq Nat /\ Width \in [Topics -> Nat \ {0}]
ASSUME GroupAssumption ==
    /\ DOMAIN Roster = Groups /\ Subscription \in [Groups -> SUBSET Topics]
    /\ \A g \in Groups : Roster[g] \in Seq(Range(Roster[g])) /\ IsInjective(Roster[g])
    /\ \A g, h \in Groups :
        g # h => /\ Subscription[g] \cap Subscription[h] = {}
                 /\ \A i \in DOMAIN Roster[g], j \in DOMAIN Roster[h] :
                        Roster[g][i] # Roster[h][j]
ASSUME PollAssumption == Latest \in BOOLEAN /\ MaxRecords \in Nat \ {0}

VARIABLES
    log,        \* the records of each partition
    committed,  \* the group's next-read position, or NoOffset
    members,    \* each group's members in the order they joined
    position    \* each member's positions; their domain is its assignment

brokerVars == <<log, committed, members, position>>

NoOffset == -1
Members == UNION {{Roster[g][i] : i \in DOMAIN Roster[g]} : g \in Groups}
GroupOf[m \in Members] == CHOOSE g \in Groups : \E i \in DOMAIN Roster[g] : Roster[g][i] = m
Partitions == UNION {{t} \X (0..(Width[t] - 1)) : t \in Topics}

\* Partitions sort by topic, then by number.
Before(p, q) == p[1] < q[1] \/ (p[1] = q[1] /\ p[2] < q[2])

Assigned(m) == DOMAIN position[m]
EndOffset(p) == Len(log[p])
Record(p, o) == log[p][o + 1]

BrokerTypeOK ==
    /\ \A p \in Partitions : committed[p] \in NoOffset..EndOffset(p)
    /\ DOMAIN members = Groups
    /\ \A m \in Members :
        /\ Assigned(m) \subseteq Partitions
        /\ \A p \in Assigned(m) :
            p[1] \in Subscription[GroupOf[m]] /\ position[m][p] \in 0..EndOffset(p)

-----------------------------------------------------------------------------
\* The partitions that round-robin gives to member m of g when its members are ms.
Share(g, m, ms) ==
    LET all == {p \in Partitions : p[1] \in Subscription[g]}
        rank(p) == Cardinality({q \in all : Before(q, p)})
    IN  {p \in all : ms[(rank(p) % Len(ms)) + 1] = m}

\* Every runner has started and nothing is produced yet.
BrokerInit ==
    /\ log = [p \in Partitions |-> <<>>]
    /\ committed = [p \in Partitions |-> NoOffset]
    /\ members = Roster
    /\ position = [m \in Members |->
            [p \in Share(GroupOf[m], m, Roster[GroupOf[m]]) |-> 0]]

\* _starting_position.
StartingPosition(p) ==
    IF committed[p] # NoOffset THEN committed[p]
    ELSE IF Latest THEN EndOffset(p) ELSE 0

\* _rebalance: g has the members ms now.  Everybody's positions are rebuilt from the
\* committed offsets, also those of a member that keeps its partitions.
Rebalance(g, ms) ==
    /\ members' = [members EXCEPT ![g] = ms]
    /\ position' = [m \in Members |->
            IF GroupOf[m] # g THEN position[m]
            ELSE IF \E i \in DOMAIN ms : ms[i] = m
            THEN [p \in Share(g, m, ms) |-> StartingPosition(p)]
            ELSE <<>>]
    /\ UNCHANGED <<log, committed>>

\* InMemoryMessageSource.start and stop.
Joined(m) == \E i \in DOMAIN members[GroupOf[m]] : members[GroupOf[m]][i] = m
JoinGroup(m) == Rebalance(GroupOf[m], Append(members[GroupOf[m]], m))
LeaveGroup(m) ==
    LET ms == members[GroupOf[m]]
    IN  \E i \in DOMAIN ms :
            /\ ms[i] = m
            /\ Rebalance(GroupOf[m], SubSeq(ms, 1, i - 1) \o SubSeq(ms, i + 1, Len(ms)))

-----------------------------------------------------------------------------
\* What is left to read for m.
Unread(m) ==
    UNION {{p} \X (position[m][p]..(EndOffset(p) - 1)) : p \in Assigned(m)}

\* _drain: the offsets of p that a poll returns, partitions in order, at most
\* max_records in all.
Drained(m, p) ==
    LET earlier == {u \in Unread(m) : Before(u[1], p)}
    IN  {o \in position[m][p]..(EndOffset(p) - 1) :
            Cardinality(earlier) + (o - position[m][p]) < MaxRecords}
Taken(m, p) == Cardinality(Drained(m, p))

DrainPositions(m) ==
    position' = [position EXCEPT ![m] = [p \in Assigned(m) |-> @[p] + Taken(m, p)]]

\* commit stores partition by partition and raises at the first one that is no
\* longer assigned: the ones it stores.
Stored(m, offsets) ==
    {p \in DOMAIN offsets :
        \A q \in DOMAIN offsets : ~Before(p, q) => q \in Assigned(m)}

CommitOffsets(m, offsets) ==
    committed' = [p \in Partitions |->
        IF p \in Stored(m, offsets) THEN offsets[p] ELSE committed[p]]

\* seek, whose refusal the runner swallows.
Seek(m, p, o) ==
    position' = IF p \in Assigned(m) THEN [position EXCEPT ![m][p] = o] ELSE position

AppendTo(p, record) == log' = [log EXCEPT ![p] = Append(@, record)]
=============================================================================
