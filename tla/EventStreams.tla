----------------------------- MODULE EventStreams -----------------------------
(***************************************************************************)
(* Server-sent events: EventStreamHub (src/sse/hub.py), the frames of a      *)
(* stream (src/sse/stream.py) and its heartbeat (src/sse/heartbeat.py), as   *)
(* GET /events/stream (src/api/v1/events.py) puts them together.             *)
(*                                                                          *)
(* A stream keeps one read of its queue pending while heartbeats go out; the *)
(* frame a finished read holds is `pulled`.  Events are numbered.            *)
(***************************************************************************)
EXTENDS Integers, Sequences, Functions

CONSTANTS
    Streams,      \* responses being streamed; an ended one's place is taken by a reconnect
    Topics,       \* user_topic of each user
    StreamBuffer, \* SSE_CLIENT_BUFFER_EVENTS
    MaxEvents     \* bound: events published

\* EventStreamHub.__init__.
ASSUME EventStreamsAssumption == StreamBuffer \in Nat \ {0} /\ MaxEvents \in Nat

VARIABLES
    topicSubs,    \* EventStreamHub._topics
    streamTopic,  \* the topic of a running stream, or NoTopic
    backlog,      \* _Subscriber._queue
    cutOff,       \* _Subscriber._terminated
    pulled,       \* the frame the pending read holds, or Pending
    events,       \* events published so far
    missing       \* history: events of its topic since `ready` the client has not got

sseVars == <<topicSubs, streamTopic, backlog, cutOff, pulled, events, missing>>

NoTopic == "none"
ReadyFrame == 0
OverflowMark == -1
ClosedMark == -2
EndFrame == -3       \* _END, or a generator that has nothing more to yield
NoFrame == -4
EventIds == 1..MaxEvents

SseTypeOK ==
    /\ topicSubs \in [Topics -> Seq(Streams)]
    /\ streamTopic \in [Streams -> Topics \cup {NoTopic}]
    /\ backlog \in [Streams -> Seq(EventIds \cup {OverflowMark, ClosedMark})]
    /\ \A s \in Streams : Len(backlog[s]) <= StreamBuffer + 1
    /\ cutOff \in [Streams -> BOOLEAN]
    /\ pulled \in [Streams -> EventIds \cup {ReadyFrame, OverflowMark, EndFrame, NoFrame}]
    /\ events \in 0..MaxEvents
    /\ missing \in [Streams -> SUBSET EventIds]

SseInit ==
    /\ topicSubs = [t \in Topics |-> <<>>]
    /\ streamTopic = [s \in Streams |-> NoTopic]
    /\ backlog = [s \in Streams |-> <<>>]
    /\ cutOff = [s \in Streams |-> FALSE]
    /\ pulled = [s \in Streams |-> NoFrame]
    /\ events = 0
    /\ missing = [s \in Streams |-> {}]

Streaming(s) == streamTopic[s] # NoTopic

-----------------------------------------------------------------------------
(* The hub.                                                                *)

\* _drop of each of S.
DropSubscribers(S) == topicSubs' = [t \in Topics |-> SelectSeq(topicSubs[t], LAMBDA s : s \notin S)]

\* subscribe, then `ready` as the first event of the stream; the topic is the caller's own.
OpenStream(s, t) ==
    /\ ~Streaming(s)
    /\ topicSubs' = [topicSubs EXCEPT ![t] = Append(@, s)]
    /\ streamTopic' = [streamTopic EXCEPT ![s] = t]
    /\ backlog' = [backlog EXCEPT ![s] = <<>>]
    /\ cutOff' = [cutOff EXCEPT ![s] = FALSE]
    /\ pulled' = [pulled EXCEPT ![s] = ReadyFrame]
    /\ missing' = [missing EXCEPT ![s] = {}]
    /\ UNCHANGED events

BacklogFull(s) == Len(backlog[s]) >= StreamBuffer

\* mutant: an event that does not fit is dropped, and the stream goes on.
OfferOrForget(S, e) ==
    /\ backlog' = [s \in Streams |-> IF s \in S /\ ~BacklogFull(s) THEN Append(backlog[s], e)
                                     ELSE backlog[s]]
    /\ UNCHANGED <<cutOff, topicSubs>>

\* offer to each of S; the reserved slot tells a stream that fell behind, and publish drops it.
OfferEvent(S, e) ==
    /\ backlog' = [s \in Streams |-> IF s \in S
                                     THEN Append(backlog[s], IF BacklogFull(s) THEN OverflowMark ELSE e)
                                     ELSE backlog[s]]
    /\ cutOff' = [s \in Streams |-> cutOff[s] \/ (s \in S /\ BacklogFull(s))]
    /\ DropSubscribers({s \in S : BacklogFull(s)})

\* publish_user_event_to_streams and publish: a snapshot of the topic's subscribers.
PublishEvent(t) ==
    /\ events < MaxEvents
    /\ events' = events + 1
    /\ OfferEvent(Range(topicSubs[t]), events + 1)
    /\ missing' = [s \in Streams |-> IF streamTopic[s] = t THEN missing[s] \cup {events + 1}
                                     ELSE missing[s]]
    /\ UNCHANGED <<streamTopic, pulled>>

\* close of a topic, or of all of them at shutdown.
CloseTopics(T) ==
    LET targets == UNION {Range(topicSubs[t]) : t \in T}
    IN /\ targets # {}
       /\ backlog' = [s \in Streams |-> IF s \in targets THEN Append(backlog[s], ClosedMark)
                                        ELSE backlog[s]]
       /\ cutOff' = [s \in Streams |-> cutOff[s] \/ s \in targets]
       /\ DropSubscribers(targets)
       /\ UNCHANGED <<streamTopic, pulled, events, missing>>

-----------------------------------------------------------------------------
(* A stream.                                                               *)

\* The end of sse_stream: aclosing cancels the pending read and unwinds the subscription.
EndStream(s) ==
    /\ DropSubscribers({s})
    /\ streamTopic' = [streamTopic EXCEPT ![s] = NoTopic]
    /\ pulled' = [pulled EXCEPT ![s] = NoFrame]
    /\ backlog' = [backlog EXCEPT ![s] = <<>>]

\* The pending read finishes: _Subscriber.events turns an envelope into a frame or ends.
FetchEvent(s) ==
    /\ Streaming(s) /\ pulled[s] = NoFrame /\ backlog[s] # <<>>
    /\ LET envelope == Head(backlog[s]) IN
       /\ pulled' = [pulled EXCEPT ![s] = IF envelope = ClosedMark THEN EndFrame ELSE envelope]
       /\ backlog' = [backlog EXCEPT ![s] = Tail(@)]
    /\ UNCHANGED <<topicSubs, streamTopic, cutOff, events, missing>>

\* with_heartbeat yields a frame; after it, the lifetime may be over.  Behind `overflow`
\* the generator returns: the next read finds the end.
YieldFrame(s) ==
    /\ Streaming(s) /\ pulled[s] \in EventIds \cup {ReadyFrame, OverflowMark}
    /\ missing' = [missing EXCEPT ![s] = IF pulled[s] = OverflowMark THEN {} ELSE @ \ {pulled[s]}]
    /\ \/ /\ pulled' = [pulled EXCEPT ![s] = IF @ = OverflowMark THEN EndFrame ELSE NoFrame]
          /\ UNCHANGED <<topicSubs, streamTopic, backlog>>
       \/ EndStream(s)
    /\ UNCHANGED <<cutOff, events>>

\* The read returned _END.
Exhausted(s) ==
    /\ Streaming(s) /\ pulled[s] = EndFrame
    /\ EndStream(s)
    /\ UNCHANGED <<cutOff, events, missing>>

\* mutant: the read is cancelled to send the heartbeat, which closes the subscription.
CancelRead(s) == DropSubscribers({s}) /\ UNCHANGED pulled

\* What a heartbeat does to the pending read: nothing.
KeepRead(s) == UNCHANGED <<topicSubs, pulled>>

\* The interval passes with the read still pending.
Heartbeat(s) ==
    /\ Streaming(s) /\ pulled[s] = NoFrame
    /\ \/ KeepRead(s) /\ UNCHANGED <<streamTopic, backlog>>
       \/ EndStream(s)
    /\ UNCHANGED <<cutOff, events, missing>>

\* The client goes away: the response closes the generator.
Disconnect(s) ==
    /\ Streaming(s)
    /\ EndStream(s)
    /\ UNCHANGED <<cutOff, events, missing>>

SseNext ==
    \/ \E t \in Topics : PublishEvent(t) \/ CloseTopics({t}) \/ \E s \in Streams : OpenStream(s, t)
    \/ CloseTopics(Topics)
    \/ \E s \in Streams :
          FetchEvent(s) \/ YieldFrame(s) \/ Exhausted(s) \/ Heartbeat(s) \/ Disconnect(s)

SseSpec == SseInit /\ [][SseNext]_sseVars

-----------------------------------------------------------------------------
(* Properties.                                                             *)

\* "Everything published after [ready] reaches you": a running stream that is not cut off is
\* registered, and the events of its topic it has not sent are in the read or in the queue,
\* in order, across heartbeats.  One that was cut off is told by `overflow` before the body
\* ends, unless it was the hub that closed it; nothing is queued behind that marker.
StreamIsHonest ==
    \A s \in Streams :
        LET held == <<pulled[s]>> \o backlog[s]
            line == SelectSeq(held, LAMBDA e : e \in EventIds)
            marker == SelectSeq(held, LAMBDA e : e \in {OverflowMark, ClosedMark, EndFrame})
        IN /\ Streaming(s) /\ ~cutOff[s] =>
                 s \in Range(topicSubs[streamTopic[s]]) /\ missing[s] = Range(line)
           /\ Streaming(s) => (cutOff[s] <=> Len(marker) = 1)
           /\ Streaming(s) /\ marker = <<OverflowMark>> => held[Len(held)] = OverflowMark
           /\ \A j, k \in DOMAIN line : j < k => line[j] < line[k]
           /\ \A t \in Topics : s \in Range(topicSubs[t]) => streamTopic[s] = t /\ ~cutOff[s]
=============================================================================
