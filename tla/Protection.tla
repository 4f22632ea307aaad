------------------------------ MODULE Protection ------------------------------
(***************************************************************************)
(* protect and finalize (src/structured/cancel.py) inside a deadline()       *)
(* (src/structured/deadline.py): a section that has to finish although the   *)
(* task that runs it is cancelled meanwhile.                                 *)
(*                                                                          *)
(* The task may be cancelled by the deadline's timer and from outside.  As   *)
(* in asyncio, `cancelling` counts the requests not yet taken back, and the  *)
(* timer turns a cancellation into TimeoutError when the count is back at    *)
(* what it was when the deadline was entered, which is zero here.            *)
(*                                                                          *)
(* finalize is called in an except or a finally block, so its caller may be  *)
(* unwinding an exception, its own cancellation included, which it raises    *)
(* again afterwards, with a further await on the way or (as the callers in   *)
(* src/ do) with none.                                                       *)
(***************************************************************************)
EXTENDS Integers

VARIABLES
    helper,     \* constant: protect or finalize
    inFlight,   \* constant: what the caller unwinds: "normal" (nothing), "error", "cancelled"
    section,    \* the protected task: running, stopping (cancelled), ok, failed, stopped, quit
    drain,      \* _drain: waiting, stopping (its timeout passed), raised, returned
    deferred,   \* a cancellation was absorbed
    timedOut,   \* _drain reports that the protection budget ran out
    cancelling, \* Task.cancelling()
    requests,   \* history: who has cancelled the task: "deadline", "outside"
    ending      \* how the deadline block ended: none, normal, failed, error, cancelled, deadline

protectVars == <<helper, inFlight, section, drain, deferred, timedOut, cancelling, requests, ending>>

ProtectTypeOK ==
    /\ helper \in {"protect", "finalize"}
    /\ inFlight \in {"normal", "error", "cancelled"}
    /\ section \in {"running", "stopping", "ok", "failed", "stopped", "quit"}
    /\ drain \in {"waiting", "stopping", "raised", "returned"}
    /\ deferred \in BOOLEAN /\ timedOut \in BOOLEAN
    /\ cancelling \in 0..2 /\ requests \subseteq {"deadline", "outside"}
    /\ ending \in {"none", "normal", "failed", "error", "cancelled", "deadline"}

ProtectInit ==
    /\ helper \in {"protect", "finalize"}
    /\ inFlight \in (IF helper = "protect" THEN {"normal"} ELSE {"normal", "error", "cancelled"})
    /\ section = "running" /\ drain = "waiting" /\ deferred = FALSE /\ timedOut = FALSE
    /\ IF inFlight = "cancelled"
       THEN cancelling = 1 /\ requests \in {{"deadline"}, {"outside"}}
       ELSE cancelling = 0 /\ requests = {}
    /\ ending = "none"

SectionEnded == section \in {"ok", "failed", "stopped", "quit"}

\* The protected task ends by itself, raising CancelledError included, or after it was cancelled.
EndSection ==
    /\ ~SectionEnded
    /\ section' \in (IF section = "running" THEN {"ok", "failed", "quit"} ELSE {"ok", "failed", "stopped"})
    /\ UNCHANGED <<helper, inFlight, drain, deferred, timedOut, cancelling, requests, ending>>

\* mutant: an absorbed cancellation is not taken back.
Counted == cancelling + 1

\* current.uncancel() for the cancellation that arrived.
Uncancelled == cancelling

\* mutant: the section is cancelled with the task that waits for it.
Awaited == "stopping"

\* asyncio.wait leaves what it waits for alone.
LeftAlone == section

\* A cancellation reaches _drain: absorbed while it waits; while it waits for the section it
\* has cancelled it is kept by gather and raised once the section has ended.  One that comes
\* between the section's end and the task's turn has the effect of one just before that end.
Absorb(who) ==
    /\ drain \in {"waiting", "stopping"} /\ ~SectionEnded /\ who \notin requests
    /\ requests' = requests \union {who}
    /\ IF drain = "waiting"
       THEN /\ deferred' = TRUE /\ cancelling' = Uncancelled /\ section' = LeftAlone
            /\ UNCHANGED <<drain, timedOut>>
       ELSE /\ cancelling' = cancelling + 1 /\ drain' = "raised"
            /\ UNCHANGED <<deferred, section, timedOut>>
    /\ UNCHANGED <<helper, inFlight, ending>>

\* The protection's own timeout: the section is cancelled and waited for.
ProtectionExpires ==
    /\ drain = "waiting" /\ ~SectionEnded
    /\ drain' = "stopping" /\ timedOut' = TRUE /\ section' = "stopping"
    /\ UNCHANGED <<helper, inFlight, deferred, cancelling, requests, ending>>

\* _drain returns what it absorbed; finalize arms it again on the task.
DrainReturns ==
    /\ drain \in {"waiting", "stopping"} /\ SectionEnded
    /\ drain' = "returned"
    /\ cancelling' = IF deferred /\ helper = "finalize" THEN cancelling + 1 ELSE cancelling
    /\ UNCHANGED <<helper, inFlight, section, deferred, timedOut, requests, ending>>

\* What protect ends with: an absorbed cancellation outranks the section's own end, and a
\* section that quit raises CancelledError from task.result().
Protected == CASE deferred -> "cancelled"
               [] ~deferred /\ ~timedOut /\ section = "quit" -> "cancelled"
               [] ~deferred /\ (timedOut \/ section = "failed") -> "failed"
               [] OTHER -> "normal"

\* What reaches the end of the deadline block.  After finalize: the cancellation armed on the
\* task, if the caller awaits once more, or what the caller was unwinding, if it does not.
Leaving == CASE drain = "raised" -> {"cancelled"}
             [] drain # "raised" /\ helper = "protect" -> {Protected}
             [] OTHER -> {inFlight} \union (IF deferred THEN {"cancelled"} ELSE {})

\* The deadline takes its own cancellation back, and converts a CancelledError, and nothing
\* else, when its timer fired and uncancel() brings the count to zero.
LeaveDeadline ==
    /\ ending = "none" /\ drain \in {"returned", "raised"} /\ SectionEnded
    /\ cancelling' = IF "deadline" \in requests /\ cancelling > 0 THEN cancelling - 1 ELSE cancelling
    /\ \E e \in Leaving :
         ending' = IF e = "cancelled" /\ "deadline" \in requests /\ cancelling' = 0
                   THEN "deadline" ELSE e
    /\ UNCHANGED <<helper, inFlight, section, drain, deferred, timedOut, requests>>

ProtectNext ==
    \/ EndSection \/ ProtectionExpires \/ DrainReturns \/ LeaveDeadline
    \/ \E who \in {"deadline", "outside"} : Absorb(who)

ProtectSpec == ProtectInit /\ [][ProtectNext]_protectVars

-----------------------------------------------------------------------------
(* Properties.                                                             *)

\* The section is never cut short but by the protection's own timeout, and it has ended before
\* the helper returns.  A single cancellation that arrived during protect is then honoured as
\* what it was: an expiry as the deadline's error, one from outside as a cancellation.  What
\* the caller of finalize was unwinding is replaced by a cancellation that really arrived and
\* by nothing else, an expiry and a cancellation from outside being told apart; a caller that
\* is being cancelled still ends so; and a single cancellation from outside that is not
\* raised in the block is still counted on the task.
CleanupFinishes ==
    /\ section \in {"stopping", "stopped"} => timedOut
    /\ ending # "none" => SectionEnded
    /\ ending # "none" /\ helper = "protect" =>
          /\ requests = {"outside"} => ending = "cancelled"
          /\ requests = {"deadline"} => ending = "deadline"
          /\ requests = {} /\ section # "quit" => ending \in {"normal", "failed"}
    /\ ending # "none" /\ helper = "finalize" =>
          /\ ending # inFlight => requests # {} /\ ending \in {"cancelled", "deadline"}
          /\ ending = "deadline" => "deadline" \in requests
          /\ ending = "cancelled" => "outside" \in requests
          /\ inFlight = "cancelled" => ending \in {"cancelled", "deadline"}
          /\ ending \in {"normal", "error"} /\ requests = {"outside"} => deferred /\ cancelling > 0

\* "Neither swallows a cancellation." (src/structured/cancel.py)
NoCancellationSwallowed ==
    ending # "none" /\ "outside" \in requests => ending = "cancelled"
=============================================================================
