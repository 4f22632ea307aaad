---------------------------- MODULE RedisStreams ----------------------------
(***************************************************************************)
(* A Redis Streams consumer group: StreamConsumerRunner (src/redis_streams/ *)
(* consumer.py) over RedisStreamGroup (redis_group.py), several processes   *)
(* on one stream.  The server's commands are those of the in-process model  *)
(* the repository keeps of it (memory.py).                                  *)
(*                                                                         *)
(* Each await is a step.  A command that fails, or whose caller is          *)
(* cancelled or dies, has run or never runs.  Entry ids are 1, 2, ...; idle *)
(* times stop at MinIdle and delivery counts just above MaxDeliveries,      *)
(* since nothing compares them with more.                                   *)
(***************************************************************************)
EXTENDS Integers, FiniteSets, FiniteSetsExt, Sequences, Functions

CONSTANTS
    Consumers,        \* the processes of the group, under stable names
    BatchSize, ClaimBatch, MinIdle, MaxDeliveries,   \* StreamConsumerConfig
    MaxLen,           \* RedisStreamGroup(maxlen=...): 0 for no trimming
    MaxEntries,       \* bound: entries appended
    MaxStreamFaults   \* bound: failures, cancellations, crashes, deletions

\* StreamConsumerConfig.__post_init__ and RedisStreamGroup.__init__.
ASSUME StreamConfigAssumption ==
    /\ BatchSize \in Nat \ {0} /\ ClaimBatch \in Nat \ {0}
    /\ MinIdle \in Nat \ {0} /\ MaxDeliveries \in Nat \ {0}
    /\ MaxLen \in Nat /\ MaxEntries \in Nat /\ MaxStreamFaults \in Nat

VARIABLES
    entries,        \* the ids in the stream
    lastId,         \* the last id assigned
    lastDelivered,  \* how far the group has read, NoGroup when there is none
    pel,            \* the pending entries list: id -> owner, idle, count
    undecodable,    \* the ids with a field name that is not UTF-8
    deadLetters,    \* the dead-letter stream: the ids copied there, oldest copy first
    streamPc,       \* where each consumer awaits
    started,        \* RedisStreamGroup._started
    scanned,        \* the entries its scan found, with their counts
    batch,          \* the messages of the cycle it has not dealt with
    acked,          \* the ids the cycle will acknowledge
    handled,        \* history: ids a handler returned for
    forfeited,      \* history: ids deleted or trimmed, here or from the dead letters, or
                    \* appended with no group
    streamFaults    \* faults so far

serverVars == <<entries, lastId, lastDelivered, pel, undecodable, deadLetters, forfeited>>
streamsVars == <<serverVars, streamPc, started, scanned, batch, acked, handled, streamFaults>>

Ids == 1..MaxEntries
NoGroup == -1
Counts == 1..(MaxDeliveries + 1)
Messages == [id : Ids, count : Counts]

StreamsTypeOK ==
    /\ entries \in SUBSET Ids /\ lastId \in 0..MaxEntries
    /\ lastDelivered \in {NoGroup} \cup (0..MaxEntries)
    /\ DOMAIN pel \in SUBSET Ids
    /\ Range(pel) \subseteq [owner : Consumers, idle : 0..MinIdle, count : Counts]
    /\ {undecodable, handled, forfeited} \subseteq SUBSET Ids /\ deadLetters \in Seq(Ids)
    /\ streamPc \in [Consumers -> {"down", "cycle", "claim", "read", "work", "ack",
                                   "backoff", "retire", "remove"}]
    /\ started \in [Consumers -> BOOLEAN]
    /\ \A c \in Consumers :
          /\ scanned[c] \subseteq Messages /\ batch[c] \in Seq(Messages)
          /\ Len(batch[c]) <= BatchSize \/ Len(batch[c]) <= ClaimBatch
          /\ acked[c] \in SUBSET Ids
    /\ streamFaults \in 0..MaxStreamFaults

StreamsInit ==
    /\ entries = {} /\ lastId = 0 /\ lastDelivered = NoGroup
    /\ pel = [i \in {} |-> 0] /\ deadLetters = <<>>
    /\ undecodable = {} /\ handled = {} /\ forfeited = {}
    /\ streamPc = [c \in Consumers |-> "down"]
    /\ started = [c \in Consumers |-> FALSE]
    /\ scanned = [c \in Consumers |-> {}]
    /\ batch = [c \in Consumers |-> <<>>]
    /\ acked = [c \in Consumers |-> {}]
    /\ streamFaults = 0

-----------------------------------------------------------------------------
(* The server.                                                             *)

\* The n smallest of the ids S, and messages in the order of their ids.
Oldest(S, n) == {i \in S : Cardinality({j \in S : j < i}) < n}
Listed(M) ==
    {q \in Bijection(1..Cardinality(M), M) :
        \A i, j \in DOMAIN q : i < j => q[i].id < q[j].id}

OneMore(n) == IF n > MaxDeliveries THEN n ELSE n + 1

\* MAXLEN ~ MaxLen: how many of a stream's n entries an XADD may trim.
Trims(n) == 0..(IF MaxLen > 0 /\ n > MaxLen THEN n - MaxLen ELSE 0)

\* append, XADD: the next id, the stream trimmed from its old end, and no group is asked.
\* Any program may append; one that is not this codebase's may use any field names.
AppendEntry ==
    /\ lastId < MaxEntries
    /\ lastId' = lastId + 1
    /\ undecodable' \in {undecodable, undecodable \cup {lastId + 1}}
    /\ LET all == entries \cup {lastId + 1}
       IN \E n \in Trims(Cardinality(all)) :
             /\ entries' = all \ Oldest(all, n)
             /\ forfeited' = forfeited \cup Oldest(all, n)
                                       \cup (IF lastDelivered = NoGroup THEN {lastId + 1} ELSE {})
    /\ UNCHANGED <<lastDelivered, pel, deadLetters, streamPc, started, scanned, batch,
                   acked, handled, streamFaults>>

\* delete, XDEL: the entry goes, a pending entry for it stays.
DeleteEntry(id) ==
    /\ id \in entries /\ streamFaults < MaxStreamFaults
    /\ entries' = entries \ {id} /\ forfeited' = forfeited \cup {id}
    /\ streamFaults' = streamFaults + 1
    /\ UNCHANGED <<lastId, lastDelivered, pel, undecodable, deadLetters, streamPc, started,
                   scanned, batch, acked, handled>>

\* DEL of the stream's key: its groups go with it, commands answer NOGROUP from here on.
DestroyStream ==
    /\ lastDelivered # NoGroup /\ streamFaults < MaxStreamFaults
    /\ forfeited' = forfeited \cup (1..lastId)
    /\ entries' = {} /\ lastDelivered' = NoGroup /\ pel' = [i \in {} |-> 0]
    /\ streamFaults' = streamFaults + 1
    /\ UNCHANGED <<lastId, undecodable, deadLetters, streamPc, started, scanned, batch, acked,
                   handled>>

\* XGROUP CREATE ... $ MKSTREAM, and BUSYGROUP when the group is there.
CreateGroup ==
    /\ lastDelivered' = IF lastDelivered = NoGroup THEN lastId ELSE lastDelivered
    /\ UNCHANGED <<entries, lastId, pel, undecodable, deadLetters, forfeited>>

\* mutant: the first delivery is not counted.
PendingUncounted(c) == [owner |-> c, idle |-> 0, count |-> 0]
\* The row of an entry delivered to c for the first time.
PendingOn(c) == [owner |-> c, idle |-> 0, count |-> 1]

\* _read_now, XREADGROUP >: the n oldest entries never delivered become pending on c.
Unread(n) == Oldest({i \in entries : i > lastDelivered}, n)
ReadGroup(c, n) ==
    LET ids == Unread(n)
    IN /\ lastDelivered' = IF ids = {} THEN lastDelivered ELSE Max(ids)
       /\ pel' = [i \in ids \cup DOMAIN pel |-> IF i \in ids THEN PendingOn(c) ELSE pel[i]]
       /\ UNCHANGED <<entries, lastId, undecodable, deadLetters, forfeited>>

\* stalled, XPENDING IDLE: the oldest entries that are idle, with their counts.
Stalled ==
    {[id |-> i, count |-> pel[i].count] :
        i \in Oldest({j \in DOMAIN pel : pel[j].idle >= MinIdle}, ClaimBatch)}

\* What claim takes of a scan that has aged: still pending, still idle, still in the stream.
Reclaimable(i) == i \in DOMAIN pel /\ pel[i].idle >= MinIdle /\ i \in entries

\* claim, XCLAIM: a row whose entry is gone is dropped.
ClaimEntries(c) ==
    LET ids == {m.id : m \in scanned[c]}
        gone == {i \in ids \cap DOMAIN pel : pel[i].idle >= MinIdle /\ i \notin entries}
    IN /\ pel' = [i \in DOMAIN pel \ gone |->
                     IF i \in ids /\ Reclaimable(i)
                     THEN [owner |-> c, idle |-> 0, count |-> OneMore(pel[i].count)]
                     ELSE pel[i]]
       /\ UNCHANGED <<entries, lastId, lastDelivered, undecodable, deadLetters, forfeited>>

\* ack, XACK.
AckEntries(ids) ==
    /\ pel' = Restrict(pel, DOMAIN pel \ ids)
    /\ UNCHANGED <<entries, lastId, lastDelivered, undecodable, deadLetters, forfeited>>

\* publish, XADD to the dead-letter stream, which is trimmed like the other.
CopyAside(id) ==
    /\ LET all == Append(deadLetters, id)
       IN  \E n \in Trims(Len(all)) :
              /\ deadLetters' = SubSeq(all, n + 1, Len(all))
              /\ forfeited' = forfeited \cup (Range(all) \ Range(deadLetters'))
    /\ UNCHANGED <<entries, lastId, lastDelivered, pel, undecodable>>

-----------------------------------------------------------------------------
(* The runner, cycle after cycle.                                          *)

\* The cycle is left with what it holds; the process goes on at `place`.
LeaveCycle(c, place) ==
    /\ streamPc' = [streamPc EXCEPT ![c] = place]
    /\ scanned' = [scanned EXCEPT ![c] = {}]
    /\ batch' = [batch EXCEPT ![c] = <<>>]
    /\ acked' = [acked EXCEPT ![c] = {}]

\* start() of the runner: a task for the loop.
StartRunner(c) ==
    /\ streamPc[c] = "down"
    /\ LeaveCycle(c, "cycle")
    /\ UNCHANGED <<serverVars, started, handled, streamFaults>>

\* RedisStreamGroup.start, at the top of every pass.
StartGroup(c) ==
    /\ streamPc[c] = "cycle" /\ ~started[c]
    /\ CreateGroup
    /\ started' = [started EXCEPT ![c] = TRUE]
    /\ UNCHANGED <<streamPc, scanned, batch, acked, handled, streamFaults>>

\* _claim_stalled up to the scan's answer.
ScanStalled(c) ==
    /\ streamPc[c] = "cycle" /\ started[c] /\ lastDelivered # NoGroup
    /\ scanned' = [scanned EXCEPT ![c] = Stalled]
    /\ streamPc' = [streamPc EXCEPT ![c] = IF Stalled = {} THEN "read" ELSE "claim"]
    /\ UNCHANGED <<serverVars, started, batch, acked, handled, streamFaults>>

\* decode_fields raises StreamDecodeError on one of the entries the server answered with:
\* they stay delivered to c, and the cycle is abandoned and backed off with all it holds.
DecodeFails(c, ids) ==
    /\ ids \cap undecodable # {}
    /\ LeaveCycle(c, "backoff")

\* RedisStreamGroup.claim: the count is the scan's plus one, whatever the server's is by
\* now.  The read follows when the batch has room left.
ClaimStalled(c) ==
    /\ streamPc[c] = "claim" /\ lastDelivered # NoGroup
    /\ ClaimEntries(c)
    /\ LET mine == {m \in scanned[c] : Reclaimable(m.id)}
           ids == {m.id : m \in mine}
       IN \/ DecodeFails(c, ids)
          \/ /\ ids \cap undecodable = {}
             /\ \E taken \in Listed({[id |-> m.id, count |-> OneMore(m.count)] : m \in mine}) :
                   /\ batch' = [batch EXCEPT ![c] = taken]
                   /\ streamPc' = [streamPc EXCEPT ![c] =
                                      IF Len(taken) < BatchSize THEN "read" ELSE "work"]
             /\ scanned' = [scanned EXCEPT ![c] = {}]
             /\ UNCHANGED acked
    /\ UNCHANGED <<started, handled, streamFaults>>

\* RedisStreamGroup.read of what the budget leaves; an empty answer ends the wait.
Budget(c) == BatchSize - Len(batch[c])
ReadNew(c) ==
    /\ streamPc[c] = "read" /\ lastDelivered # NoGroup
    /\ ReadGroup(c, Budget(c))
    /\ \/ DecodeFails(c, Unread(Budget(c)))
       \/ /\ Unread(Budget(c)) \cap undecodable = {}
          /\ \E new \in Listed({[id |-> i, count |-> 1] : i \in Unread(Budget(c))}) :
                LET all == batch[c] \o new
                IN  /\ batch' = [batch EXCEPT ![c] = all]
                    /\ streamPc' = [streamPc EXCEPT ![c] = IF all = <<>> THEN "cycle" ELSE "work"]
          /\ UNCHANGED <<scanned, acked>>
    /\ UNCHANGED <<started, handled, streamFaults>>

\* The cycle goes to its next message, or to the one acknowledgement it ends with.
\* `done`: the message at the head is to be acknowledged.
NextMessage(c, done) ==
    LET ids == IF done THEN acked[c] \cup {Head(batch[c]).id} ELSE acked[c]
        rest == Tail(batch[c])
    IN /\ batch' = [batch EXCEPT ![c] = rest]
       /\ acked' = [acked EXCEPT ![c] = ids]
       /\ streamPc' = [streamPc EXCEPT ![c] = IF rest # <<>> THEN "work"
                                              ELSE IF ids # {} THEN "ack" ELSE "cycle"]

\* mutant: the cap is never reached.
NeverOverCap(c) == FALSE
OverCap(c) == Head(batch[c]).count > MaxDeliveries

\* _handle: the handler returns, or it raises or runs out of handler_timeout.
HandleMessage(c) ==
    /\ streamPc[c] = "work" /\ ~OverCap(c)
    /\ \/ NextMessage(c, TRUE) /\ handled' = handled \cup {Head(batch[c]).id}
       \/ NextMessage(c, FALSE) /\ UNCHANGED handled
    /\ UNCHANGED <<serverVars, started, scanned, streamFaults>>

\* _dead_letter: a copy that fails leaves the message pending.
DeadLetter(c) ==
    /\ streamPc[c] = "work" /\ OverCap(c)
    /\ \/ CopyAside(Head(batch[c]).id) /\ NextMessage(c, TRUE) /\ UNCHANGED streamFaults
       \/ /\ streamFaults < MaxStreamFaults /\ streamFaults' = streamFaults + 1
          /\ CopyAside(Head(batch[c]).id) \/ UNCHANGED serverVars
          /\ NextMessage(c, FALSE)
    /\ UNCHANGED <<started, scanned, handled>>

\* _ack: one XACK for the cycle; a failure is logged and the cycle ends all the same.
AckCycle(c) ==
    /\ streamPc[c] = "ack"
    /\ \/ AckEntries(acked[c]) /\ UNCHANGED streamFaults
       \/ /\ streamFaults < MaxStreamFaults /\ streamFaults' = streamFaults + 1
          /\ AckEntries(acked[c]) \/ UNCHANGED serverVars
    /\ LeaveCycle(c, "cycle")
    /\ UNCHANGED <<started, handled>>

-----------------------------------------------------------------------------
(* Failures, shutdown and death.                                           *)

\* What the command that c awaits does on the server, if it gets there.
Awaited(c) ==
    \/ UNCHANGED serverVars
    \/ streamPc[c] = "cycle" /\ ~started[c] /\ CreateGroup
    \/ streamPc[c] = "claim" /\ lastDelivered # NoGroup /\ ClaimEntries(c)
    \/ streamPc[c] = "read" /\ lastDelivered # NoGroup /\ ReadGroup(c, Budget(c))
    \/ streamPc[c] = "work" /\ OverCap(c) /\ CopyAside(Head(batch[c]).id)
    \/ streamPc[c] = "ack" /\ AckEntries(acked[c])

\* A command fails with a RedisError: the cycle is abandoned and backed off.
CommandFails(c) ==
    /\ streamPc[c] \in {"cycle", "claim", "read"} /\ streamFaults < MaxStreamFaults
    /\ Awaited(c)
    /\ LeaveCycle(c, "backoff")
    /\ streamFaults' = streamFaults + 1
    /\ UNCHANGED <<started, handled>>

\* _handle_response_error: NOGROUP also unstarts the group, so that start() recreates it.
GroupVanished(c) ==
    /\ lastDelivered = NoGroup
    /\ streamPc[c] \in {"claim", "read"} \/ (streamPc[c] = "cycle" /\ started[c])
    /\ LeaveCycle(c, "backoff")
    /\ started' = [started EXCEPT ![c] = FALSE]
    /\ UNCHANGED <<serverVars, handled, streamFaults>>

\* _loop: backoff_delay slept, the next pass.
BackOffCycle(c) ==
    /\ streamPc[c] = "backoff"
    /\ LeaveCycle(c, "cycle")
    /\ UNCHANGED <<serverVars, started, handled, streamFaults>>

\* stop() of the runner: the task is cancelled where it awaits, and finalize runs
\* RedisStreamGroup.stop.
CancelRunner(c) ==
    /\ streamPc[c] \notin {"down", "retire", "remove"} /\ streamFaults < MaxStreamFaults
    /\ Awaited(c)
    /\ LeaveCycle(c, IF started[c] THEN "retire" ELSE "down")
    /\ streamFaults' = streamFaults + 1
    /\ UNCHANGED <<started, handled>>

CrashRunner(c) ==
    /\ streamPc[c] # "down" /\ streamFaults < MaxStreamFaults
    /\ Awaited(c)
    /\ LeaveCycle(c, "down")
    /\ started' = [started EXCEPT ![c] = FALSE]
    /\ streamFaults' = streamFaults + 1
    /\ UNCHANGED handled

Owed(c) == {i \in DOMAIN pel : pel[i].owner = c}

\* mutant: the consumer is removed whatever it owes.
RetiresAlways(c) == lastDelivered # NoGroup
Retires(c) == lastDelivered # NoGroup /\ Owed(c) = {}

\* _retire_consumer up to the answer of pending_count: one that owes messages, or whose
\* group is gone, is left alone.
RetireConsumer(c) ==
    /\ streamPc[c] = "retire"
    /\ streamPc' = [streamPc EXCEPT ![c] = IF Retires(c) THEN "remove" ELSE "down"]
    /\ started' = [started EXCEPT ![c] = FALSE]
    /\ UNCHANGED <<serverVars, scanned, batch, acked, handled, streamFaults>>

\* XGROUP DELCONSUMER, which takes the consumer's pending entries with it.
RemoveConsumer(c) ==
    /\ streamPc[c] = "remove"
    /\ AckEntries(Owed(c))
    /\ streamPc' = [streamPc EXCEPT ![c] = "down"]
    /\ UNCHANGED <<started, scanned, batch, acked, handled, streamFaults>>

\* Time passes for the pending entries; a handler may take any part of it.
StreamTick ==
    /\ \E i \in DOMAIN pel : pel[i].idle < MinIdle
    /\ pel' = [i \in DOMAIN pel |-> [pel[i] EXCEPT !.idle = IF @ < MinIdle THEN @ + 1 ELSE @]]
    /\ UNCHANGED <<entries, lastId, lastDelivered, undecodable, deadLetters, forfeited, streamPc,
                   started, scanned, batch, acked, handled, streamFaults>>

RunnerStep(c) ==
    \/ StartGroup(c) \/ ScanStalled(c) \/ ClaimStalled(c) \/ ReadNew(c) \/ HandleMessage(c) \/ DeadLetter(c)
    \/ AckCycle(c) \/ GroupVanished(c) \/ BackOffCycle(c) \/ RetireConsumer(c) \/ RemoveConsumer(c) \/ StartRunner(c)

StreamsNext ==
    \/ AppendEntry \/ DestroyStream \/ StreamTick \/ \E i \in Ids : DeleteEntry(i)
    \/ \E c \in Consumers : RunnerStep(c) \/ CommandFails(c) \/ CancelRunner(c) \/ CrashRunner(c)

\* What a process does by itself: handler_timeout bounds every handler and backoff_delay
\* every backoff, and a supervisor starts a process that went away.
OwnStep(c) == HandleMessage(c) \/ BackOffCycle(c) \/ StartRunner(c)

\* Nothing makes Redis answer: RedisStreamGroup.from_url sets no socket timeout.
StreamsFairness ==
    /\ \A c \in Consumers : WF_streamsVars(OwnStep(c))
    /\ WF_streamsVars(StreamTick)

StreamsSpec == StreamsInit /\ [][StreamsNext]_streamsVars /\ StreamsFairness

-----------------------------------------------------------------------------
(* Properties.                                                             *)

\* How an entry may leave the group's books.
Accounted(i) == i \in handled \cup Range(deadLetters) \cup forfeited

\* Failed cycles, lost answers, entries that cannot be decoded, claims from a scan that has
\* aged, shutdowns and crashes lose no message: one that no handler returned for, that is not
\* in the dead-letter stream and that nobody deleted is pending, or still to be read
\* (consumer.py's "left pending rather than dropped", and the check _retire_consumer makes
\* before DELCONSUMER).  MAXLEN deletes without asking, dead letters as well: with a cap, a
\* later dead letter may push an earlier one out.
StreamNothingLost ==
    \A i \in 1..lastId :
        \/ Accounted(i) \/ i \in DOMAIN pel
        \/ i \in entries /\ lastDelivered # NoGroup /\ i > lastDelivered

\* c waits for one answer of Redis and never gets it.
Hung(c) ==
    \E place \in {"cycle", "claim", "read", "work", "ack", "retire", "remove"} :
        <>[](streamPc[c] = place)

\* An entry that cannot be decoded is pending: no claim that includes it gets anywhere.
Blocked == \E i \in undecodable : i \in entries \cap DOMAIN pel

\* Every message is settled: a handler returns for it or the delivery cap moves it aside,
\* and it leaves the pending entries list, although handlers may fail for ever and nothing
\* in Redis redelivers a pending entry by itself.  Two things prevent it, and only these:
\* every consumer waits for ever for an answer of Redis, or an entry that cannot be decoded
\* stays pending for ever.
StreamSettles ==
    \/ \A c \in Consumers : Hung(c)
    \/ <>[]Blocked
    \/ \A i \in Ids : (i <= lastId) ~> (Accounted(i) /\ i \notin DOMAIN pel)
=============================================================================
