------------------------------- MODULE RowLocks -------------------------------
(***************************************************************************)
(* Concurrent writers of rows: SELECT ... FOR UPDATE and the retry of a      *)
(* deadlocked transaction (src/locking), and the optimistic update of a      *)
(* profile under If-Match and a version column (src/users/service.py,        *)
(* src/concurrency).  A worker is a request with a session of its own;       *)
(* PostgreSQL runs at READ COMMITTED and grants row locks until the end of   *)
(* the transaction.  The work of a transaction adds one to each row it       *)
(* locked.                                                                   *)
(***************************************************************************)
EXTENDS Integers, Sequences, FiniteSets, Functions

CONSTANTS
    Workers,      \* requests; one that ended makes room for the next
    Rows,         \* rows of a table without a version column
    NoWorker,     \* a row nobody has locked
    WorkAttempts, \* DeadlockRetryPolicy._attempts
    MaxWorks,     \* bound: transactions that commit
    MaxVersion    \* bound: the version of the profile

ASSUME RowLocksAssumption == WorkAttempts \in Nat \ {0} /\ NoWorker \notin Workers

VARIABLES
    rowVal,    \* the committed value of a row
    rowLock,   \* the worker whose transaction has the row locked, or NoWorker
    version,   \* User.version
    work,      \* the state of a worker
    plan,      \* the rows a worker has still to lock, in its order
    seen,      \* what a worker's session holds of each row and of the version
    attempt,   \* the attempt of _run a worker is in
    ifMatch,   \* the version named by the If-Match of a patch
    applied,   \* history: committed transactions that wrote a row
    accepted   \* history: the If-Match of each accepted patch, in order

rowVars == <<rowVal, rowLock, version, work, plan, seen, attempt, ifMatch, applied, accepted>>

Values == 0..MaxWorks
Versions == 1..MaxVersion
Plans == {p \in UNION {[1..n -> Rows] : n \in 1..Cardinality(Rows)} : IsInjective(p)}

RowsTypeOK ==
    /\ rowVal \in [Rows -> Values] /\ applied \in [Rows -> Values]
    /\ rowLock \in [Rows -> Workers \cup {NoWorker}]
    /\ version \in Versions
    /\ work \in [Workers -> {"idle", "locking", "backoff", "patching"}]
    /\ plan \in [Workers -> {<<>>} \cup Plans]
    /\ seen \in [Workers -> [rows : [Rows -> Values], version : Versions]]
    /\ attempt \in [Workers -> 0..WorkAttempts]
    /\ ifMatch \in [Workers -> Versions]
    /\ accepted \in Seq(Versions)

RowNow == [rows |-> rowVal, version |-> version]

RowsInit ==
    /\ rowVal = [r \in Rows |-> 0] /\ applied = [r \in Rows |-> 0]
    /\ rowLock = [r \in Rows |-> NoWorker]
    /\ version = 1
    /\ work = [w \in Workers |-> "idle"]
    /\ plan = [w \in Workers |-> <<>>]
    /\ seen = [w \in Workers |-> RowNow]
    /\ attempt = [w \in Workers |-> 0]
    /\ ifMatch = [w \in Workers |-> 1]
    /\ accepted = <<>>

Locked(w) == {r \in Rows : rowLock[r] = w}

\* The end of a transaction: its row locks are gone.
ReleaseLocks(w) == rowLock' = [r \in Rows |-> IF rowLock[r] = w THEN NoWorker ELSE rowLock[r]]

\* A worker answers its caller; its session is closed, which rolls back what is open.
Finish(w) ==
    /\ work' = [work EXCEPT ![w] = "idle"]
    /\ plan' = [plan EXCEPT ![w] = <<>>]
    /\ attempt' = [attempt EXCEPT ![w] = 0]
    /\ seen' = [seen EXCEPT ![w] = [rows |-> [r \in Rows |-> 0], version |-> 1]]
    /\ ReleaseLocks(w)

-----------------------------------------------------------------------------
(* Pessimistic: lock_row, lock_rows and run_with_deadlock_retry.            *)

\* The session may have read the rows before it locks them.
BeginWork(w, p) ==
    /\ work[w] = "idle" /\ \A r \in Rows : applied[r] < MaxWorks
    /\ work' = [work EXCEPT ![w] = "locking"]
    /\ plan' = [plan EXCEPT ![w] = p]
    /\ attempt' = [attempt EXCEPT ![w] = 1]
    /\ seen' = [seen EXCEPT ![w] = RowNow]
    /\ UNCHANGED <<rowVal, rowLock, version, ifMatch, applied, accepted>>

\* mutant: the identity map answers with the copy it already had.
Cached(w, r) == seen[w].rows[r]

\* _fetch_locked runs with populate_existing: what it returns is the locked row.
Fetched(w, r) == rowVal[r]

LockRow(w) ==
    /\ work[w] = "locking" /\ plan[w] # <<>>
    /\ LET r == Head(plan[w]) IN
       /\ rowLock[r] = NoWorker
       /\ rowLock' = [rowLock EXCEPT ![r] = w]
       /\ seen' = [seen EXCEPT ![w].rows[r] = Fetched(w, r)]
    /\ plan' = [plan EXCEPT ![w] = Tail(@)]
    /\ UNCHANGED <<rowVal, version, work, attempt, ifMatch, applied, accepted>>

\* NOWAIT meets a locked row, or lock_timeout passes: LockNotAvailableError, which is not
\* among RETRYABLE_SQLSTATES.
LockUnavailable(w) ==
    /\ work[w] = "locking" /\ plan[w] # <<>> /\ rowLock[Head(plan[w])] # NoWorker
    /\ Finish(w)
    /\ UNCHANGED <<rowVal, version, ifMatch, applied, accepted>>

\* skip_locked: a locked row is left out of the work.
SkipLocked(w) ==
    /\ work[w] = "locking" /\ plan[w] # <<>> /\ rowLock[Head(plan[w])] \notin {NoWorker, w}
    /\ plan' = [plan EXCEPT ![w] = Tail(@)]
    /\ UNCHANGED <<rowVal, rowLock, version, work, seen, attempt, ifMatch, applied, accepted>>

\* The workers a worker waits for, directly.
WaitsFor(w) == IF work[w] = "locking" /\ plan[w] # <<>>
               THEN {rowLock[Head(plan[w])]} \ {NoWorker} ELSE {}

Deadlocked(w) ==
    \E S \in SUBSET Workers :
        w \in S /\ \A v \in S : WaitsFor(v) \cap S # {} /\ \E u \in S : v \in WaitsFor(u)

\* mutant: the statements of the failed attempt stay in the session.
KeepSession(w) == UNCHANGED rowLock

\* _discard: session.rollback.
Discard(w) == ReleaseLocks(w)

\* A retryable SQLSTATE: roll back and back off, or raise after the last attempt.
ConflictRetried(w) ==
    IF attempt[w] >= WorkAttempts THEN Finish(w)
    ELSE /\ Discard(w)
         /\ work' = [work EXCEPT ![w] = "backoff"]
         /\ UNCHANGED <<plan, seen, attempt>>

\* PostgreSQL aborts a transaction of a cycle of waiters (40P01).
DeadlockDetected(w) ==
    /\ Deadlocked(w)
    /\ ConflictRetried(w)
    /\ UNCHANGED <<rowVal, version, ifMatch, applied, accepted>>

\* The commit, or a statement before it, fails with 40001.
SerializationFailure(w) ==
    /\ work[w] = "locking" /\ plan[w] = <<>>
    /\ ConflictRetried(w)
    /\ UNCHANGED <<rowVal, version, ifMatch, applied, accepted>>

\* The next attempt runs the work again from its start, in an order of its own.
RetryWork(w, p) ==
    /\ work[w] = "backoff"
    /\ work' = [work EXCEPT ![w] = "locking"]
    /\ plan' = [plan EXCEPT ![w] = p]
    /\ attempt' = [attempt EXCEPT ![w] = @ + 1]
    /\ seen' = [seen EXCEPT ![w] = RowNow]
    /\ UNCHANGED <<rowVal, rowLock, version, ifMatch, applied, accepted>>

\* The work writes what it computed from the rows it read, and commits.
CommitWork(w) ==
    /\ work[w] = "locking" /\ plan[w] = <<>>
    /\ \A r \in Locked(w) : applied[r] < MaxWorks
    /\ rowVal' = [r \in Rows |-> IF r \in Locked(w) THEN seen[w].rows[r] + 1 ELSE rowVal[r]]
    /\ applied' = [r \in Rows |-> IF r \in Locked(w) THEN applied[r] + 1 ELSE applied[r]]
    /\ Finish(w)
    /\ UNCHANGED <<version, ifMatch, accepted>>

\* Cancelled, or an error that is not retried.
CancelWork(w) ==
    /\ work[w] # "idle"
    /\ Finish(w)
    /\ UNCHANGED <<rowVal, version, ifMatch, applied, accepted>>

-----------------------------------------------------------------------------
(* Optimistic: PATCH /users/me.                                             *)

\* The client's tag against the profile as it was read (a client that sends `*` means the
\* version that is there).
require_match(tag) == tag = version

\* get_current_user reads the profile and the precondition is checked.
BeginPatch(w, tag) ==
    /\ work[w] = "idle" /\ version < MaxVersion
    /\ require_match(tag)
    /\ work' = [work EXCEPT ![w] = "patching"]
    /\ seen' = [seen EXCEPT ![w] = RowNow]
    /\ ifMatch' = [ifMatch EXCEPT ![w] = tag]
    /\ UNCHANGED <<rowVal, rowLock, version, plan, attempt, applied, accepted>>

\* mutant: the update carries no version.
AlwaysCurrent(w) == TRUE

\* UPDATE ... WHERE version = the one that was read.
StillCurrent(w) == seen[w].version = version

\* ProfileService.update commits, or StaleDataError becomes a 412.
CommitPatch(w) ==
    /\ work[w] = "patching"
    /\ Finish(w)
    /\ IF StillCurrent(w) /\ version < MaxVersion
       THEN version' = version + 1 /\ accepted' = Append(accepted, ifMatch[w])
       ELSE UNCHANGED <<version, accepted>>
    /\ UNCHANGED <<rowVal, ifMatch, applied>>

RowsNext ==
    \E w \in Workers :
        \/ \E p \in Plans : BeginWork(w, p) \/ RetryWork(w, p)
        \/ LockRow(w) \/ LockUnavailable(w) \/ SkipLocked(w) \/ CommitWork(w) \/ CancelWork(w)
        \/ DeadlockDetected(w) \/ SerializationFailure(w)
        \/ \E tag \in Versions : BeginPatch(w, tag)
        \/ CommitPatch(w)

RowsSpec == RowsInit /\ [][RowsNext]_rowVars

-----------------------------------------------------------------------------
(* Properties.                                                             *)

\* No update is lost and none is applied twice, whichever transactions deadlocked, were
\* retried, skipped a row or were cancelled: a row counts its committed transactions; and of
\* the patches made from one version of the profile exactly one was accepted.
NoLostUpdate ==
    /\ rowVal = applied
    /\ IsInjective(accepted) /\ version = Len(accepted) + 1
    /\ \A w \in Workers : work[w] \in {"idle", "backoff", "patching"} => Locked(w) = {}
=============================================================================
