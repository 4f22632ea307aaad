-------------------------------- MODULE MCLive --------------------------------
(***************************************************************************)
(* What must eventually happen, for TLC: the callers of a distributed lock, *)
(* and the consumer group of a Redis stream.  The two share nothing but a   *)
(* Redis server; `part` says which of them a behaviour is about, the other  *)
(* stays in its initial state.                                              *)
(***************************************************************************)
EXTENDS DistributedLock, RedisStreams

VARIABLE part  \* constant: lock or streams

liveVars == <<part, vars, streamsVars>>

LiveInit ==
    /\ part \in {"lock", "streams"}
    /\ Init /\ StreamsInit

LiveNext ==
    \/ part = "lock" /\ Next /\ UNCHANGED <<part, streamsVars>>
    \/ part = "streams" /\ StreamsNext /\ UNCHANGED <<part, vars>>

\* Fairness and StreamsFairness, each for the behaviours that are about its part.
LiveFairness ==
    /\ WF_vars(part = "lock" /\ Tick)
    /\ \A c \in Clients :
          /\ WF_vars(part = "lock" /\ Acquired(c))
          /\ WF_vars(part = "lock" /\ TriesAgain(c))
          /\ WF_vars(part = "lock" /\ Retry(c))
    /\ \A c \in Consumers : WF_streamsVars(part = "streams" /\ OwnStep(c))
    /\ WF_streamsVars(part = "streams" /\ StreamTick)

LiveSpec == LiveInit /\ [][LiveNext]_liveVars /\ LiveFairness
=============================================================================
