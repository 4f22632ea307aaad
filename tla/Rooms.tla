-------------------------------- MODULE Rooms --------------------------------
(***************************************************************************)
(* WebSocket connections and the rooms they share: Connection               *)
(* (src/ws/connection.py), RoomRegistry (src/ws/rooms.py) and the endpoint  *)
(* (src/api/v1/ws.py).                                                      *)
(*                                                                         *)
(* A connection is two tasks: its receive loop, in which every frame is     *)
(* handled without an await, and its writer.  The limiter's verdict, the    *)
(* decoder's and the deadlines may fall either way here; RateLimits has the *)
(* limiter.  Frames are the number of the publish they carry, or Control.   *)
(***************************************************************************)
EXTENDS Integers, FiniteSets, Sequences, Functions

CONSTANTS
    Conns,           \* connections; a closed one's place is taken by a new one
    RoomNames,       \* names validate_room_name accepts
    MaxRooms,        \* WS_MAX_ROOMS_PER_CONNECTION
    OutboundBuffer,  \* WS_OUTBOUND_BUFFER_MESSAGES
    MaxPublishes     \* bound: publishes that fan out

\* Connection.__init__.
ASSUME RoomsAssumption ==
    MaxRooms \in Nat \ {0} /\ OutboundBuffer \in Nat \ {0} /\ MaxPublishes \in Nat

VARIABLES
    roomMembers,  \* RoomRegistry._rooms
    joined,       \* RoomRegistry._joined
    conn,         \* new, open (in _receive), flushing, closed
    outbound,     \* Connection._outbound
    terminated,   \* Connection._terminated
    writing,      \* the frame the writer is sending, Idle, or WriterDone
    published,    \* publishes so far
    owed          \* history: publishes to a room it is in, not yet written to its socket

roomsVars == <<roomMembers, joined, conn, outbound, terminated, writing, published, owed>>

Control == 0      \* ready, joined, left, pong, error
StopMark == -1        \* _STOP
Idle == -2
WriterDone == -3
Publishes == 1..MaxPublishes

RoomsTypeOK ==
    /\ roomMembers \in [RoomNames -> Seq(Conns)]
    /\ joined \in [Conns -> SUBSET RoomNames]
    /\ conn \in [Conns -> {"new", "open", "flushing", "closed"}]
    /\ outbound \in [Conns -> Seq(Publishes \cup {Control, StopMark})]
    /\ \A c \in Conns : Len(outbound[c]) <= OutboundBuffer + 1
    /\ terminated \in [Conns -> BOOLEAN]
    /\ writing \in [Conns -> Publishes \cup {Control, Idle, WriterDone}]
    /\ published \in 0..MaxPublishes
    /\ owed \in [Conns -> SUBSET Publishes]

RoomsInit ==
    /\ roomMembers = [r \in RoomNames |-> <<>>]
    /\ joined = [c \in Conns |-> {}]
    /\ conn = [c \in Conns |-> "new"]
    /\ outbound = [c \in Conns |-> <<>>]
    /\ terminated = [c \in Conns |-> FALSE]
    /\ writing = [c \in Conns |-> WriterDone]
    /\ published = 0
    /\ owed = [c \in Conns |-> {}]

-----------------------------------------------------------------------------
(* RoomRegistry.                                                           *)

\* mutant: the list of the room is forgotten.
LeavesIndex(S) == UNCHANGED roomMembers

\* _remove_from_room for every room of each member of S.
RemoveFromRooms(S) ==
    roomMembers' = [r \in RoomNames |-> SelectSeq(roomMembers[r], LAMBDA m : m \notin S)]

\* leave_all.
LeaveAll(S) ==
    /\ joined' = [c \in Conns |-> IF c \in S THEN {} ELSE joined[c]]
    /\ RemoveFromRooms(S)

\* join.
Join(r, c) ==
    IF r \in joined[c] THEN UNCHANGED <<roomMembers, joined>>
    ELSE /\ joined' = [joined EXCEPT ![c] = @ \cup {r}]
         /\ roomMembers' = [roomMembers EXCEPT ![r] = Append(@, c)]

\* leave of a room it is in.
Leave(r, c) ==
    /\ joined' = [joined EXCEPT ![c] = @ \ {r}]
    /\ roomMembers' = [roomMembers EXCEPT ![r] = SelectSeq(@, LAMBDA m : m # c)]

-----------------------------------------------------------------------------
(* offer: a full queue ends the connection, its reserved slot takes _STOP.  *)

Accepts(c) == ~terminated[c] /\ Len(outbound[c]) < OutboundBuffer
Overflows(c) == ~terminated[c] /\ Len(outbound[c]) >= OutboundBuffer

OfferAll(S, frame) ==
    /\ outbound' = [c \in Conns |-> IF c \notin S THEN outbound[c]
                                    ELSE IF Accepts(c) THEN Append(outbound[c], frame)
                                    ELSE IF Overflows(c) THEN Append(outbound[c], StopMark)
                                    ELSE outbound[c]]
    /\ terminated' = [c \in Conns |-> terminated[c] \/ (c \in S /\ Overflows(c))]

\* _on_message's result: an ended connection leaves the loop; its _STOP is queued already.
Continues(c) ==
    conn' = [conn EXCEPT ![c] = IF terminated'[c] THEN "flushing" ELSE "open"]

-----------------------------------------------------------------------------
(* The handling of one inbound frame: _on_message, _admit, _dispatch.       *)

\* send_soon: a frame answered to its sender only.
Answer(c) ==
    /\ conn[c] = "open"
    /\ OfferAll({c}, Control) /\ Continues(c)
    /\ UNCHANGED <<roomMembers, joined, writing, published, owed>>

\* decode_client_message or validate_room_name refuses the frame, or it is a ping.
AnswerFrame(c) == Answer(c)

\* A room too many to join, or one to leave or publish to that it is not in.
RefuseRoom(c, r) ==
    /\ r \notin joined[c]
    /\ Answer(c)

JoinRoom(c, r) ==
    /\ conn[c] = "open"
    /\ r \in joined[c] \/ Cardinality(joined[c]) < MaxRooms
    /\ Join(r, c)
    /\ OfferAll({c}, Control) /\ Continues(c)
    /\ UNCHANGED <<writing, published, owed>>

LeaveRoom(c, r) ==
    /\ conn[c] = "open" /\ r \in joined[c]
    /\ Leave(r, c)
    /\ OfferAll({c}, Control) /\ Continues(c)
    /\ UNCHANGED <<writing, published, owed>>

\* The members broadcast offers to: a copy of the list, without the sender.
Reached(r, c) == Range(roomMembers[r]) \ {c}

\* _publish and broadcast: a member that cannot take the message is removed everywhere.
Publish(c, r) ==
    /\ conn[c] = "open" /\ r \in joined[c] /\ published < MaxPublishes
    /\ published' = published + 1
    /\ OfferAll(Reached(r, c), published + 1)
    /\ LeaveAll({m \in Reached(r, c) : ~Accepts(m)})
    /\ owed' = [m \in Conns |-> IF m # c /\ r \in joined[m] THEN owed[m] \cup {published + 1}
                                ELSE owed[m]]
    /\ Continues(c)
    /\ UNCHANGED writing

-----------------------------------------------------------------------------
(* The ends of a connection.                                                *)

\* mutant: _STOP is queued although the connection was ended already.
FlushAgain(c) ==
    /\ conn' = [conn EXCEPT ![c] = "flushing"]
    /\ terminated' = [terminated EXCEPT ![c] = TRUE]
    /\ outbound' = [outbound EXCEPT ![c] = Append(@, StopMark)]

\* _flush when nothing ended the connection before: room for _STOP is guaranteed.
BeginFlush(c) ==
    /\ conn' = [conn EXCEPT ![c] = "flushing"]
    /\ terminated' = [terminated EXCEPT ![c] = TRUE]
    /\ outbound' = IF terminated[c] THEN outbound ELSE [outbound EXCEPT ![c] = Append(@, StopMark)]

\* _receive ends: the client leaves or sends a binary frame, a deadline of _next_deadline
\* passes, the event offer sets is noticed, or the task is cancelled.
EndReceive(c) ==
    /\ conn[c] = "open"
    /\ BeginFlush(c)
    /\ UNCHANGED <<roomMembers, joined, writing, published, owed>>

\* _admit of a frame the limiter refuses: told to wait, or disconnected.
RefuseFrame(c) == Answer(c) \/ EndReceive(c)

\* mutant: membership is not released on the way out.
StaysInRooms(c) == UNCHANGED <<roomMembers, joined>>
ReleaseRooms(c) == LeaveAll({c})

\* The end of run: the writer finished or _FLUSH_SECONDS passed; the scope cancels it, the
\* rooms are left, the close frame is sent.
EndRun(c) ==
    /\ conn[c] = "flushing"
    /\ ReleaseRooms(c)
    /\ conn' = [conn EXCEPT ![c] = "closed"]
    /\ writing' = [writing EXCEPT ![c] = WriterDone]
    /\ outbound' = [outbound EXCEPT ![c] = <<>>] /\ owed' = [owed EXCEPT ![c] = {}]
    /\ UNCHANGED <<terminated, published>>

\* Connection.__init__: an empty queue, not terminated, and a writer of its own. Its bounds
\* are the constants; its deadline is one of the reasons for which a connection ends.
NewConnection(c, queued) ==
    /\ outbound' = [outbound EXCEPT ![c] = queued]
    /\ terminated' = [terminated EXCEPT ![c] = FALSE]
    /\ writing' = [writing EXCEPT ![c] = Idle]

\* websocket_endpoint and the start of run: the new connection is greeted with `ready`.
OpenConnection(c) ==
    /\ conn[c] \in {"new", "closed"}
    /\ conn' = [conn EXCEPT ![c] = "open"]
    /\ NewConnection(c, <<Control>>)
    /\ UNCHANGED <<roomMembers, joined, published, owed>>

\* authenticate refuses the handshake.
RejectHandshake(c) ==
    /\ conn[c] = "new"
    /\ conn' = [conn EXCEPT ![c] = "closed"]
    /\ UNCHANGED <<roomMembers, joined, outbound, terminated, writing, published, owed>>

\* RoomRegistry.close at shutdown.
CloseRegistry ==
    /\ LeaveAll(Conns)
    /\ UNCHANGED <<conn, outbound, terminated, writing, published, owed>>

-----------------------------------------------------------------------------
(* _write_outbound, the only sender.                                        *)

TakeOutbound(c) ==
    /\ writing[c] = Idle /\ outbound[c] # <<>>
    /\ writing' = [writing EXCEPT ![c] = IF Head(outbound[c]) = StopMark THEN WriterDone
                                         ELSE Head(outbound[c])]
    /\ outbound' = [outbound EXCEPT ![c] = Tail(@)]
    /\ UNCHANGED <<roomMembers, joined, conn, terminated, published, owed>>

\* send_text returns, or fails because the peer is gone.
EndSend(c) ==
    /\ writing[c] >= Control
    /\ \/ writing' = [writing EXCEPT ![c] = Idle]
          /\ owed' = [owed EXCEPT ![c] = @ \ {writing[c]}]
       \/ writing' = [writing EXCEPT ![c] = WriterDone] /\ UNCHANGED owed
    /\ UNCHANGED <<roomMembers, joined, conn, outbound, terminated, published>>

RoomsNext ==
    \/ CloseRegistry
    \/ \E c \in Conns :
          \/ OpenConnection(c) \/ RejectHandshake(c) \/ TakeOutbound(c) \/ EndSend(c)
          \/ AnswerFrame(c) \/ RefuseFrame(c) \/ EndReceive(c) \/ EndRun(c)
          \/ \E r \in RoomNames :
                JoinRoom(c, r) \/ LeaveRoom(c, r) \/ Publish(c, r) \/ RefuseRoom(c, r)

RoomsSpec == RoomsInit /\ [][RoomsNext]_roomsVars

-----------------------------------------------------------------------------
(* Properties.                                                             *)

\* RoomRegistry's list and reverse index agree, a list names nobody twice, and a connection
\* that ended is in no room, whichever of overflow, broadcast, join and shutdown came last:
\* "a member left in a room after its connection is gone is broadcast to on every publish".
RoomIndexesAgree ==
    /\ \A r \in RoomNames, c \in Conns : (r \in joined[c]) <=> (c \in Range(roomMembers[r]))
    /\ \A r \in RoomNames : IsInjective(roomMembers[r])
    /\ \A c \in Conns : conn[c] \in {"new", "closed"} => joined[c] = {}

\* A connection never misses a message in silence: while it has not been ended, every
\* publish to a room it was in has been written, is being written or is queued, in the order
\* of publishing; and _STOP is only ever the last thing in a queue.
NoSilentGap ==
    \A c \in Conns :
        LET queued == SelectSeq(outbound[c], LAMBDA f : f \in Publishes)
            line == IF writing[c] \in Publishes THEN <<writing[c]>> \o queued ELSE queued
        IN /\ ~terminated[c] /\ writing[c] # WriterDone => owed[c] = Range(line)
           /\ \A j, k \in DOMAIN line : j < k => line[j] < line[k]
           /\ \A k \in DOMAIN outbound[c] :
                 outbound[c][k] = StopMark => k = Len(outbound[c]) /\ terminated[c]
=============================================================================
