---------------------------- MODULE ConsumerRunner ----------------------------
(***************************************************************************)
(* The poll-handle-commit cycle of src/kafka/runner.py, for every member.   *)
(* What the handler makes of a record is left to the module that extends    *)
(* this one: it ends each record in Finish (DONE) or Stall (DEFERRED or     *)
(* FAILED).  Backoffs and waits only delay the next poll and are not timed. *)
(***************************************************************************)
EXTENDS MessageBroker

VARIABLES
    pc,      \* off, poll, handle, publish (inside the handler) or commit
    todo,    \* what is left of the batch: per partition the offsets from, to
    earned   \* `commits`: the offsets to commit at the end of the batch

runnerVars == <<pc, todo, earned>>

RunnerTypeOK ==
    /\ pc \in [Members -> {"off", "poll", "handle", "publish", "commit"}]
    /\ \A m \in Members :
        /\ (pc[m] = "off") <=> ~Joined(m)
        /\ (pc[m] \in {"handle", "publish"}) <=> (todo[m] # <<>>)
        /\ \A p \in DOMAIN todo[m] : todo[m][p].from < todo[m][p].to
        /\ \A p \in DOMAIN earned[m] : earned[m][p] \in 1..EndOffset(p)

RunnerInit ==
    /\ pc = [m \in Members |-> "poll"]
    /\ todo = [m \in Members |-> <<>>]
    /\ earned = [m \in Members |-> <<>>]

-----------------------------------------------------------------------------
\* `source.start()` at the top of the loop.
Join(m) ==
    /\ pc[m] = "off"
    /\ JoinGroup(m)
    /\ pc' = [pc EXCEPT ![m] = "poll"]
    /\ UNCHANGED <<todo, earned>>

\* run is cancelled, or its process dies: nothing of the batch is committed, and the
\* group goes on without the member.
Quit(m) ==
    /\ pc[m] # "off"
    /\ LeaveGroup(m)
    /\ pc' = [pc EXCEPT ![m] = "off"]
    /\ todo' = [todo EXCEPT ![m] = <<>>]
    /\ earned' = [earned EXCEPT ![m] = <<>>]

Poll(m) ==
    /\ pc[m] = "poll"
    /\ LET batch == {p \in Assigned(m) : Taken(m, p) > 0}
       IN  /\ batch # {}
           /\ todo' = [todo EXCEPT ![m] = [p \in batch |->
                  [from |-> position[m][p], to |-> position[m][p] + Taken(m, p)]]]
    /\ DrainPositions(m)
    /\ pc' = [pc EXCEPT ![m] = "handle"]
    /\ UNCHANGED <<log, committed, members, earned>>

-----------------------------------------------------------------------------
(* The record in hand: the first of the first partition not yet through.    *)

Current(m) ==
    CHOOSE p \in DOMAIN todo[m] : \A q \in DOMAIN todo[m] : ~Before(q, p)
CurrentOffset(m) == todo[m][Current(m)].from
InHand(m) == Record(Current(m), CurrentOffset(m))

Without(f, p) == [q \in DOMAIN f \ {p} |-> f[q]]

\* The next record, or the commit, which with nothing earned does nothing.
GoOn(m) ==
    pc' = [pc EXCEPT ![m] =
        IF todo'[m] # <<>> THEN "handle" ELSE IF earned'[m] # <<>> THEN "commit" ELSE "poll"]

\* DONE.
Finish(m) ==
    LET p == Current(m)
        o == CurrentOffset(m)
    IN  /\ earned' = [earned EXCEPT ![m] =
                [q \in DOMAIN @ \cup {p} |-> IF q = p THEN o + 1 ELSE @[q]]]
        /\ todo' = [todo EXCEPT ![m] =
                IF o + 1 = @[p].to THEN Without(@, p) ELSE [@ EXCEPT ![p].from = o + 1]]
        /\ GoOn(m)
        /\ UNCHANGED position

\* mutant: the rest of the partition is handled although its head was not.
CarriesOn(m) ==
    LET p == Current(m)
        o == CurrentOffset(m)
    IN  /\ Seek(m, p, o)
        /\ todo' = [todo EXCEPT ![m] =
                IF o + 1 = @[p].to THEN Without(@, p) ELSE [@ EXCEPT ![p].from = o + 1]]
        /\ UNCHANGED earned
        /\ GoOn(m)

\* mutant: the failed record is not asked for again.
NoSeekBack(m) ==
    /\ todo' = [todo EXCEPT ![m] = Without(@, Current(m))]
    /\ UNCHANGED <<earned, position>>
    /\ GoOn(m)

\* DEFERRED or FAILED: back to the record, and the rest of its partition is dropped.
Stall(m) ==
    /\ Seek(m, Current(m), CurrentOffset(m))
    /\ todo' = [todo EXCEPT ![m] = Without(@, Current(m))]
    /\ UNCHANGED earned
    /\ GoOn(m)

-----------------------------------------------------------------------------
Committed(m) ==
    /\ pc' = [pc EXCEPT ![m] = "poll"]
    /\ earned' = [earned EXCEPT ![m] = <<>>]
    /\ UNCHANGED <<log, members, position, todo>>

Commit(m) ==
    /\ pc[m] = "commit"
    /\ CommitOffsets(m, earned[m])
    /\ Committed(m)

\* The commit fails at the broker and is not tried again.
CommitFails(m) ==
    /\ pc[m] = "commit"
    /\ UNCHANGED committed
    /\ Committed(m)
=============================================================================
