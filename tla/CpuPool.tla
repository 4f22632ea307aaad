-------------------------------- MODULE CpuPool --------------------------------
(***************************************************************************)
(* The process pool for CPU-bound work: CpuPool (src/parallel/cpu.py).       *)
(*                                                                          *)
(* A call holds an admission slot from _submit until its wrapped future is   *)
(* done.  Executors are numbered; a broken one fails every call it has and   *)
(* every call it is given, and is replaced by the first caller to notice.    *)
(***************************************************************************)
EXTENDS Integers, FiniteSets

CONSTANTS
    Calls,         \* callers; one that was answered makes room for the next
    Capacity,      \* _capacity: workers * (1 + queue depth)
    MaxExecutors   \* bound: executors created

ASSUME CpuPoolAssumption == Capacity \in Nat \ {0}

VARIABLES
    enforced,   \* constant: deadline_enforced, a worker interrupts itself
    executor,   \* the number of _executor, or NoExecutor
    executors,  \* executors created so far
    broken,     \* executors whose worker died
    slots,      \* _slots
    call,       \* idle, or the state of the wrapped future: pending
    caller,     \* who awaits the call: run, a deadlined run, or nobody (gone)
    job,        \* the executor that has the call, or NoExecutor when its work is over
    unneeded    \* history: a healthy executor was replaced

poolVars == <<enforced, executor, executors, broken, slots, call, caller, job, unneeded>>

NoExecutor == 0
Executors == 1..MaxExecutors

PoolTypeOK ==
    /\ executor \in Executors \cup {NoExecutor} /\ executors \in 0..MaxExecutors
    /\ broken \subseteq Executors
    /\ slots \in 0..Capacity
    /\ call \in [Calls -> {"idle", "pending"}]
    /\ caller \in [Calls -> {"gone", "run", "timed"}]
    /\ job \in [Calls -> Executors \cup {NoExecutor}]
    /\ unneeded \in BOOLEAN /\ enforced \in BOOLEAN

PoolInit ==
    /\ enforced \in BOOLEAN
    /\ executor = NoExecutor /\ executors = 0 /\ broken = {} /\ slots = Capacity
    /\ call = [c \in Calls |-> "idle"]
    /\ caller = [c \in Calls |-> "gone"]
    /\ job = [c \in Calls |-> NoExecutor]
    /\ unneeded = FALSE

\* _new_executor.
NewExecutor ==
    /\ executors < MaxExecutors
    /\ executor' = executors + 1 /\ executors' = executors + 1

\* start.
StartPool ==
    /\ executor = NoExecutor
    /\ NewExecutor
    /\ UNCHANGED <<broken, slots, call, caller, job, unneeded>>

\* mutant: the executor is replaced by everyone who saw it break.
ReplaceAlways(e) == NewExecutor /\ unneeded' = (unneeded \/ executor \notin broken)

\* _replace_broken_executor, guarded by identity.
ReplaceBroken(e) ==
    IF executor # e THEN UNCHANGED <<executor, executors, unneeded>>
    ELSE NewExecutor /\ unneeded' = (unneeded \/ executor \notin broken)

-----------------------------------------------------------------------------
(* _submit.                                                                *)

\* Admitted: the slot is taken without a yield and the future is created.
Submit(c, how) ==
    /\ call[c] = "idle" /\ job[c] = NoExecutor
    /\ executor # NoExecutor /\ executor \notin broken /\ slots > 0
    /\ slots' = slots - 1
    /\ call' = [call EXCEPT ![c] = "pending"]
    /\ caller' = [caller EXCEPT ![c] = how]
    /\ job' = [job EXCEPT ![c] = executor]
    /\ UNCHANGED <<executor, executors, broken, unneeded>>

\* CpuPool.run: no deadline.
RunCall(c) == Submit(c, "run")

\* DeadlinedCpuPool.run: the deadline of with_timeout goes along.
RunDeadlined(c) == Submit(c, "timed")

\* mutant: the slot taken for a submission that failed is forgotten.
KeepSlot == slots' = slots - 1

\* except BrokenExecutor, of executor.submit: the slot goes back.
ReturnSlot == UNCHANGED slots

SubmitToBroken(c) ==
    /\ call[c] = "idle" /\ executor \in broken /\ slots > 0
    /\ ReturnSlot
    /\ ReplaceBroken(executor)
    /\ UNCHANGED <<broken, call, caller, job>>

\* The wrapped future is done: its callback gives the slot back.
Answered(c) ==
    /\ slots' = slots + 1
    /\ call' = [call EXCEPT ![c] = "idle"]
    /\ caller' = [caller EXCEPT ![c] = "gone"]

\* The worker returns, raises, or is interrupted by its own deadline.
WorkEnds(c) ==
    /\ job[c] # NoExecutor /\ job[c] \notin broken
    /\ job' = [job EXCEPT ![c] = NoExecutor]
    /\ IF call[c] = "pending" THEN Answered(c) ELSE UNCHANGED <<slots, call, caller>>
    /\ UNCHANGED <<executor, executors, broken, unneeded>>

\* A worker is killed: BrokenProcessPool for everything the executor has.
WorkerDies(e) ==
    /\ e \in 1..executors /\ e \notin broken
    /\ broken' = broken \cup {e}
    /\ UNCHANGED <<executor, executors, slots, call, caller, job, unneeded>>

\* except BrokenExecutor, of the await.
CallBroke(c) ==
    /\ job[c] \in broken
    /\ job' = [job EXCEPT ![c] = NoExecutor]
    /\ IF call[c] = "pending"
       THEN /\ Answered(c)
            /\ IF caller[c] # "gone" THEN ReplaceBroken(job[c])
               ELSE UNCHANGED <<executor, executors, unneeded>>
       ELSE UNCHANGED <<slots, call, caller, executor, executors, unneeded>>
    /\ UNCHANGED broken

\* The caller is cancelled.  `await wrapped` cancels the wrapped future, whose callback runs
\* whether or not a worker is busy with the call; behind `shield` the call keeps its slot.
CancelCaller(c, queued) ==
    /\ call[c] = "pending" /\ caller[c] # "gone"
    /\ IF enforced \/ caller[c] = "run"
       THEN /\ Answered(c)
            /\ job' = IF queued THEN [job EXCEPT ![c] = NoExecutor] ELSE job
       ELSE /\ caller' = [caller EXCEPT ![c] = "gone"]
            /\ UNCHANGED <<slots, call, job>>
    /\ UNCHANGED <<executor, executors, broken, unneeded>>

\* wait_for's timeout, where a worker cannot be interrupted.
WaitTimeout(c) ==
    /\ ~enforced /\ call[c] = "pending" /\ caller[c] = "timed"
    /\ caller' = [caller EXCEPT ![c] = "gone"]
    /\ UNCHANGED <<executor, executors, broken, slots, call, job, unneeded>>

\* shutdown: later calls are refused, those in flight finish.
ShutdownPool ==
    /\ executor # NoExecutor
    /\ executor' = NoExecutor
    /\ UNCHANGED <<executors, broken, slots, call, caller, job, unneeded>>

PoolStep ==
    \/ StartPool \/ ShutdownPool
    \/ \E e \in Executors : WorkerDies(e)
    \/ \E c \in Calls :
          \/ RunCall(c) \/ RunDeadlined(c) \/ SubmitToBroken(c) \/ WorkEnds(c) \/ CallBroke(c) \/ WaitTimeout(c)
          \/ \E queued \in BOOLEAN : CancelCaller(c, queued)

PoolNext == PoolStep /\ UNCHANGED enforced

PoolSpec == PoolInit /\ [][PoolNext]_poolVars

-----------------------------------------------------------------------------
(* Properties.                                                             *)

\* A slot is taken exactly while a call's future is not done, through broken executors,
\* cancellation, timeouts and shutdown (none is lost, none is given back twice), and no
\* healthy executor is replaced however many callers saw the one before it break.
PoolRecovers ==
    /\ slots + Cardinality({c \in Calls : call[c] = "pending"}) = Capacity
    /\ ~unneeded

\* "The slot is released when the work ends": work in the pool never exceeds its capacity.
WorkWithinCapacity == Cardinality({c \in Calls : job[c] # NoExecutor}) <= Capacity
=============================================================================
