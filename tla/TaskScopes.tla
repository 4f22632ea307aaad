------------------------------ MODULE TaskScopes ------------------------------
(***************************************************************************)
(* A group of tasks and the one that waits for it: gather_bounded            *)
(* (src/parallel/io.py) and TaskScope (src/structured/scope.py).             *)
(*                                                                          *)
(* groupMode chooses between them: WhenOneFails ("cancel_rest", "run_all")   *)
(* for gather_bounded, WhenScopeExits ("wait", "cancel") for TaskScope.  A   *)
(* cancelled task is "cancelling" until what it awaits on its way out is     *)
(* done, and may still end in any way.  A task can also end cancelled though *)
(* the group cancelled nothing, by its own coroutine or through the handle   *)
(* that start_soon returns: it has "quit".                                   *)
(***************************************************************************)
EXTENDS Integers, FiniteSets

CONSTANTS
    Kids,     \* the factories, or the tasks started in the scope
    GateLimit \* gather_bounded's limit

\* gather_bounded refuses a limit below one.
ASSUME TaskScopesAssumption == IsFiniteSet(Kids) /\ GateLimit \in Nat \ {0}

VARIABLES
    groupMode,   \* constant: which helper, with which option
    kid,         \* each task: unborn, gate, running, cancelling, or how it ended
    waiter,      \* body (scope open), joining, draining, left
    aborted,     \* the group has cancelled its tasks
    interrupted, \* the waiter was cancelled from outside
    outcome      \* how the helper ended: none, returned, raised, cancelled

scopeVars == <<groupMode, kid, waiter, aborted, interrupted, outcome>>

Modes == {"cancel_rest", "run_all", "wait", "cancel"}
Ended == {"ok", "failed", "cancelled", "quit"}

ScopesTypeOK ==
    /\ groupMode \in Modes
    /\ kid \in [Kids -> {"unborn", "gate", "running", "cancelling"} \union Ended]
    /\ waiter \in {"body", "joining", "draining", "left"}
    /\ aborted \in BOOLEAN /\ interrupted \in BOOLEAN
    /\ outcome \in {"none", "returned", "raised", "cancelled"}

Gathering == groupMode \in {"cancel_rest", "run_all"}

\* gather_bounded starts one task for each factory; TaskScope starts none.
ScopesInit ==
    /\ groupMode \in Modes
    /\ kid = [k \in Kids |-> IF Gathering THEN "gate" ELSE "unborn"]
    /\ waiter = IF Gathering THEN "joining" ELSE "body"
    /\ aborted = FALSE /\ interrupted = FALSE /\ outcome = "none"

Inside == {k \in Kids : kid[k] \in {"running", "cancelling"}}
AllEnded == \A k \in Kids : kid[k] \in Ended \union {"unborn"}

\* task.cancel() on every task that has not ended: one that waits at the gate ends at once.
Cancelled(s) == [k \in Kids |-> CASE s[k] = "gate" -> "cancelled"
                                  [] s[k] = "running" -> "cancelling"
                                  [] OTHER -> s[k]]

-----------------------------------------------------------------------------
(* The tasks.                                                              *)

\* start_soon: refused unless the scope is open; TaskGroup refuses it while aborting.
StartSoon(k) ==
    /\ ~Gathering /\ waiter = "body" /\ ~aborted /\ kid[k] = "unborn"
    /\ kid' = [kid EXCEPT ![k] = "running"]
    /\ UNCHANGED <<groupMode, waiter, aborted, interrupted, outcome>>

\* mutant: the gate counts nothing.
GateClosed == TRUE

\* `async with gate`.
GateOpen == Cardinality(Inside) < GateLimit

PassGate(k) ==
    /\ kid[k] = "gate" /\ GateOpen
    /\ kid' = [kid EXCEPT ![k] = "running"]
    /\ UNCHANGED <<groupMode, waiter, aborted, interrupted, outcome>>

\* A task ends.  In a TaskGroup the first failure cancels the others and the body; one that
\* ends cancelled is discarded, and the others go on.
EndKid(k) ==
    /\ kid[k] \in {"running", "cancelling"}
    /\ \E e \in (IF kid[k] = "running" THEN {"ok", "failed", "quit"} ELSE {"ok", "failed", "cancelled"}) :
         LET after == [kid EXCEPT ![k] = e]
             abort == ~Gathering /\ e = "failed" /\ ~aborted
         IN /\ kid' = IF abort THEN Cancelled(after) ELSE after
            /\ aborted' = (aborted \/ abort)
            /\ waiter' = IF abort /\ waiter = "body" THEN "draining" ELSE waiter
    /\ UNCHANGED <<groupMode, interrupted, outcome>>

-----------------------------------------------------------------------------
(* TaskScope.__aexit__.                                                    *)

\* The body ends: with CANCEL the children are cancelled, and an exception aborts the group.
BodyEnds ==
    /\ ~Gathering /\ waiter = "body" /\ waiter' = "draining"
    /\ \E raises \in BOOLEAN :
         /\ aborted' = (aborted \/ raises)
         /\ kid' = IF groupMode = "cancel" \/ raises THEN Cancelled(kid) ELSE kid
         /\ outcome' = IF raises THEN "raised" ELSE outcome
    /\ UNCHANGED <<groupMode, interrupted>>

-----------------------------------------------------------------------------
(* gather_bounded.                                                         *)

Failures == {k \in Kids : kid[k] = "failed"}
Quitters == {k \in Kids : kid[k] = "quit"}

\* asyncio.wait(FIRST_EXCEPTION) returns with a failure: the rest is cancelled and drained.
\* The set it returns is searched in no particular order, and task.exception() of one that
\* quit raises CancelledError, which is then what leaves.
SeeFailure ==
    /\ waiter = "joining" /\ groupMode = "cancel_rest" /\ Failures # {}
    /\ kid' = Cancelled(kid) /\ aborted' = TRUE /\ waiter' = "draining"
    /\ outcome' \in {"raised"} \union (IF Quitters # {} THEN {"cancelled"} ELSE {})
    /\ UNCHANGED <<groupMode, interrupted>>

\* The waiter is cancelled, in its body or at any of its awaits: everything is cancelled,
\* then waited for.
CancelWaiter ==
    /\ waiter # "left" /\ ~interrupted
    /\ interrupted' = TRUE
    /\ kid' = Cancelled(kid) /\ aborted' = TRUE /\ waiter' = "draining"
    /\ UNCHANGED <<groupMode, outcome>>

-----------------------------------------------------------------------------
(* The helper returns or raises.                                           *)

\* mutant: the helper raises as soon as it has cancelled the rest.
DrainedAtOnce == TRUE

\* TaskGroup's exit, gather with return_exceptions, or _cancel_and_drain has nothing to wait for.
Drained == AllEnded

\* Without a failure to see, cancel_rest stumbles over one that quit; run_all hands it back.
LeaveScope ==
    /\ waiter \in {"joining", "draining"} /\ Drained
    /\ ~(waiter = "joining" /\ groupMode = "cancel_rest" /\ Failures # {})
    /\ waiter' = "left"
    /\ outcome' = CASE Gathering /\ interrupted -> "cancelled"
                    [] Gathering /\ aborted -> outcome
                    [] groupMode = "cancel_rest" /\ Quitters # {} -> "cancelled"
                    [] Gathering -> "returned"
                    [] ~Gathering /\ (Failures # {} \/ outcome = "raised") -> "raised"
                    [] ~Gathering /\ interrupted -> "cancelled"
                    [] OTHER -> "returned"
    /\ UNCHANGED <<groupMode, kid, aborted, interrupted>>

ScopesNext ==
    \/ \E k \in Kids : StartSoon(k) \/ PassGate(k) \/ EndKid(k)
    \/ BodyEnds \/ SeeFailure \/ CancelWaiter \/ LeaveScope

ScopesSpec == ScopesInit /\ [][ScopesNext]_scopeVars

-----------------------------------------------------------------------------
(* Properties.                                                             *)

\* No task outlives the call that started it, whatever fails and whoever is cancelled; no
\* more than `limit` run at once; and a helper ends truthfully.  It returns only if no failure
\* and no cancellation of its caller was swallowed, except the failures run_all hands back as
\* results, and cancel_rest only with every result; it raises a failure only if there was
\* one; and a CancelledError leaves it only if the caller was cancelled or, in cancel_rest, a
\* task has quit.
NothingOutlivesItsScope ==
    /\ waiter = "left" => AllEnded
    /\ Gathering => Cardinality(Inside) <= GateLimit
    /\ outcome = "returned" =>
          /\ ~interrupted
          /\ groupMode # "run_all" => Failures = {}
          /\ groupMode = "cancel_rest" => \A k \in Kids : kid[k] = "ok"
          /\ groupMode = "wait" => \A k \in Kids : kid[k] \in {"ok", "unborn", "quit"}
          /\ groupMode = "run_all" => \A k \in Kids : kid[k] \in {"ok", "failed", "quit"}
    /\ outcome = "raised" /\ Gathering => Failures # {}
    /\ outcome = "cancelled" => interrupted \/ (groupMode = "cancel_rest" /\ Quitters # {})
=============================================================================
