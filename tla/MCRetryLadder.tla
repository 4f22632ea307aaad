---- MODULE MCRetryLadder ----
EXTENDS RetryLadder

AllTopics == 0..(Tiers + 1)
Subscriptions == [origin |-> {0}, retry |-> 1..Tiers, replay |-> {Tiers + 1}]
Delays == [i \in 1..Tiers |-> i]

\* One runner for each group, one partition for each topic.
LadderRoster == [origin |-> <<"a">>, retry |-> <<"c">>, replay |-> <<"d">>]
LadderWidth == [t \in AllTopics |-> 1]

\* Two runners that share the two partitions of the origin topic.
GroupRoster == [origin |-> <<"a", "b">>, retry |-> <<>>, replay |-> <<>>]
GroupWidth == [t \in AllTopics |-> IF t = 0 THEN 2 ELSE 1]
==============================
