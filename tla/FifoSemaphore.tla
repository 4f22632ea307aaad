---------------------------- MODULE FifoSemaphore ----------------------------
(***************************************************************************)
(* What a bulkhead compartment promises its callers: at most Limit of them  *)
(* are inside, those who wait are let in in the order they arrived, and     *)
(* nobody waits while there is room.                                        *)
(***************************************************************************)
EXTENDS Integers, FiniteSets

CONSTANTS Tasks, Limit, MaxQueue

VARIABLES
    inside,   \* who has a place
    waiting,  \* who waits for one
    ahead     \* <<t, u>> when both wait and t came first

semaphoreVars == <<inside, waiting, ahead>>

SemaphoreInit == inside = {} /\ waiting = {} /\ ahead = {}

\* Those who wait, without t.
Without(t) ==
    /\ waiting' = waiting \ {t}
    /\ ahead' = {p \in ahead : p[1] # t /\ p[2] # t}

\* A caller walks in: there is room, and it steps over nobody.
Arrive(t) ==
    /\ t \notin inside /\ Cardinality(inside) < Limit /\ waiting = {}
    /\ inside' = inside \cup {t}
    /\ UNCHANGED <<waiting, ahead>>

\* A caller waits behind all others: there is no room, and the queue has some.
Wait(t) ==
    /\ t \notin inside \cup waiting
    /\ Cardinality(inside) = Limit /\ Cardinality(waiting) < MaxQueue
    /\ waiting' = waiting \cup {t}
    /\ ahead' = ahead \cup (waiting \X {t})
    /\ UNCHANGED inside

\* A caller leaves, and whoever has waited longest takes its place.
Leave(t) ==
    /\ t \in inside
    /\ \/ waiting = {} /\ inside' = inside \ {t} /\ UNCHANGED <<waiting, ahead>>
       \/ \E u \in waiting :
            /\ \A w \in waiting \ {u} : <<u, w>> \in ahead
            /\ inside' = (inside \ {t}) \cup {u}
            /\ Without(u)

\* A caller gives up waiting.
GiveUp(t) == t \in waiting /\ Without(t) /\ UNCHANGED inside

SemaphoreNext == \E t \in Tasks : Arrive(t) \/ Wait(t) \/ Leave(t) \/ GiveUp(t)
=============================================================================
