---------------------------- MODULE WorldSocket ----------------------------
(***************************************************************************)
(* One client connection on a server without IOCP: Socket (shared/          *)
(* Networking/Socket.h), WorldSocket (game/Server/WorldSocket.cpp) and what *)
(* NetworkThread and the session do with it.  The network thread (Reader)   *)
(* runs timer, read and write handlers one at a time; the world thread and  *)
(* the map threads send packets, and the world thread closes the socket and *)
(* deletes the session, at any step of it.                                  *)
(***************************************************************************)
EXTENDS MpscQueue, SequencesExt, Naturals

CONSTANTS
    World,               \* the world thread; the rest of Threads update maps
    Script,              \* per thread other than Reader: the packets it sends
    Challenge, Refusal,  \* packets of the socket itself
    Large, Capacity,     \* packets above m_OutBufferSize; others in one buffer
    MaxBlocks            \* bound: writes the system does not take whole

Others == Threads \ {Reader}

ASSUME ThreadAssumption ==
    World \in Others /\ Script \in [Others -> Seq(Packets)] /\ Null \notin Threads
ASSUME PacketAssumption == {Challenge, Refusal} \cup Large \subseteq Packets
\* A packet object is sent once.
ASSUME OnceAssumption ==
    /\ Challenge # Refusal
    /\ \A t, u \in Others : \A i \in DOMAIN Script[t], j \in DOMAIN Script[u] :
         /\ Script[t][i] \notin {Challenge, Refusal}
         /\ Script[t][i] = Script[u][j] => t = u /\ i = j
ASSUME SizeAssumption == Capacity \in Nat \ {0} /\ MaxBlocks \in Nat

VARIABLES
    closed, closing,     \* _closed, _closing
    shut,                \* send direction: "no", or shut down after a flush ("ended") or not ("cut")
    closer,              \* per thread: where it is in CloseSocket
    place,               \* in NetworkThread: "new", "listed" or "removed"
    npc,                 \* where the network thread is
    buffer, writeQueue, waiting,  \* of Update; _writeQueue, _isWritingAsync
    wire,                \* packets taken by the system, in order
    blocks,
    client,              \* "connected" or "gone"
    said, reading,       \* the authentication packet came; a read is pending
    query,               \* the account query: "none", "asked", "answered", "used"
    session, mSession, lock,  \* the session; m_Session, m_SessionLock
    pos, holding,        \* per thread: packets begun, packet in SendPacket
    due                  \* history: packets sent before DelayedCloseSocket

writeVars == <<buffer, writeQueue, waiting, wire, blocks>>
closeVars == <<closed, closing, shut, closer, due>>
authVars == <<client, said, reading, query>>
sessionVars == <<session, mSession, lock>>
sendVars == <<pos, holding>>
vars == <<queueVars, writeVars, closeVars, authVars, sessionVars, sendVars, place, npc>>

IsOpen == ~closed /\ ~closing

\* Start sent the challenge and asked for a read before AddSocket.
Init ==
    /\ head = Challenge /\ tail = Dummy
    /\ next = [n \in Nodes |-> IF n = Dummy THEN Challenge ELSE Null]
    /\ linking = [t \in Threads |-> NoLink]
    /\ dequeue = "begin" /\ sent = <<Challenge>> /\ out = <<>>
    /\ closed = FALSE /\ closing = FALSE /\ shut = "no" /\ due = 0
    /\ closer = [t \in {Reader, World} |-> "no"]
    /\ place = "new" /\ npc = "idle"
    /\ buffer = <<>> /\ writeQueue = <<>> /\ waiting = FALSE /\ wire = <<>> /\ blocks = 0
    /\ client = "connected" /\ said = FALSE /\ reading = TRUE /\ query = "none"
    /\ session = "none" /\ mSession = FALSE /\ lock = Null
    /\ pos = [t \in Others |-> 0] /\ holding = [t \in Others |-> Null]

----------------------------------------------------------------------------
(* CloseSocket, by whoever exchanges _closed first.                         *)

CloseSocket(t, how) ==
    IF closed THEN UNCHANGED <<closed, closer>>
    ELSE closed' = TRUE /\ closer' = [closer EXCEPT ![t] = how]

Shutdown(t) ==
    /\ closer[t] \in {"ended", "cut"}
    /\ shut' = closer[t]
    /\ closer' = [closer EXCEPT ![t] = "OnClose"]
    /\ UNCHANGED <<queueVars, writeVars, closed, closing, due, authVars, sessionVars, sendVars,
                   place, npc>>

\* Fault: m_Session is reset without m_SessionLock.
OnCloseUnlocked(t) ==
    /\ closer[t] = "OnClose"
    /\ mSession' = FALSE
    /\ closer' = [closer EXCEPT ![t] = "no"]
    /\ UNCHANGED <<queueVars, writeVars, closed, closing, shut, due, authVars, session, lock,
                   sendVars, place, npc>>

OnClose(t) ==
    /\ closer[t] = "OnClose" /\ lock = Null
    /\ mSession' = FALSE
    /\ closer' = [closer EXCEPT ![t] = "no"]
    /\ UNCHANGED <<queueVars, writeVars, closed, closing, shut, due, authVars, session, lock,
                   sendVars, place, npc>>

----------------------------------------------------------------------------
(* The timer of the network thread: WorldSocket::Update.                    *)

AtEvent == npc = "idle" /\ closer[Reader] = "no"
In(where) == npc = where /\ closer[Reader] = "no"

AddNewSockets ==
    /\ AtEvent /\ place = "new"
    /\ place' = IF IsOpen THEN "listed" ELSE "removed"
    /\ UNCHANGED <<queueVars, writeVars, closeVars, authVars, sessionVars, sendVars, npc>>

StartUpdate ==
    /\ AtEvent /\ place = "listed"
    /\ npc' = "drain"
    /\ UNCHANGED <<queueVars, writeVars, closeVars, authVars, sessionVars, sendVars, place>>

DequeuePacket ==
    /\ In("drain") /\ Dequeue
    /\ UNCHANGED <<writeVars, closeVars, authVars, sessionVars, sendVars, place, npc>>

Fits(x) == x \notin Large /\ Len(buffer) < Capacity

\* Fault: a large packet does not wait for the packets in the buffer.
PackLargeFirst(x) ==
    IF Fits(x) THEN buffer' = Append(buffer, x) /\ UNCHANGED writeQueue
    ELSE IF x \in Large THEN writeQueue' = Append(writeQueue, <<x>>) /\ UNCHANGED buffer
    ELSE buffer' = <<x>> /\ writeQueue' = Append(writeQueue, buffer)

\* A buffer that is too full is queued, empty or not; a large packet after it.
Pack(x) ==
    IF Fits(x) THEN buffer' = Append(buffer, x) /\ UNCHANGED writeQueue
    ELSE IF x \in Large
      THEN buffer' = <<>> /\ writeQueue' = writeQueue \o <<buffer, <<x>>>>
      ELSE buffer' = <<x>> /\ writeQueue' = Append(writeQueue, buffer)

MovePacket ==
    /\ In("drain") /\ dequeue = "got" /\ Leave
    /\ Pack(Last(out))
    /\ UNCHANGED <<waiting, wire, blocks, closeVars, authVars, sessionVars, sendVars, place, npc>>

Drained ==
    /\ In("drain") /\ dequeue = "empty" /\ Leave
    /\ writeQueue' = IF buffer = <<>> THEN writeQueue ELSE Append(writeQueue, buffer)
    /\ buffer' = <<>>
    /\ npc' = "update"
    /\ UNCHANGED <<waiting, wire, blocks, closeVars, authVars, sessionVars, sendVars, place>>

\* Socket::Update returns false: the thread forgets the socket.
Forget ==
    /\ In("update") /\ closed
    /\ place' = "removed" /\ npc' = "idle"
    /\ UNCHANGED <<queueVars, writeVars, closeVars, authVars, sessionVars, sendVars>>

Update ==
    /\ In("update") /\ ~closed
    /\ npc' = IF waiting \/ (writeQueue = <<>> /\ ~closing) THEN "callbacks" ELSE "write"
    /\ UNCHANGED <<queueVars, writeVars, closeVars, authVars, sessionVars, sendVars, place>>

----------------------------------------------------------------------------
(* HandleQueue writes the front of the queue; true: there is more.          *)

\* Fault: _closing is not looked at when the queue becomes empty.
PopOnly == writeQueue' = Tail(writeQueue) /\ UNCHANGED <<closed, closer>>

Pop ==
    /\ writeQueue' = Tail(writeQueue)
    /\ IF closing /\ Tail(writeQueue) = <<>>
         THEN CloseSocket(Reader, IF client = "gone" THEN "cut" ELSE "ended")
         ELSE UNCHANGED <<closed, closer>>

Writable == client = "connected" /\ shut = "no"

WriteAll ==
    /\ Writable /\ Head(writeQueue) # <<>>
    /\ wire' = wire \o Head(writeQueue) /\ waiting' = FALSE
    /\ Pop
    /\ UNCHANGED blocks

\* What was written stays out; then wait until the socket can be written.
WriteSome ==
    /\ Writable /\ blocks < MaxBlocks
    /\ \E n \in 0 .. Len(Head(writeQueue)) - 1 :
         /\ wire' = wire \o SubSeq(Head(writeQueue), 1, n)
         /\ writeQueue' = [writeQueue EXCEPT ![1] = SubSeq(@, n + 1, Len(@))]
    /\ waiting' = TRUE /\ blocks' = blocks + 1
    /\ UNCHANGED <<closed, closer>>

\* An error, or an empty message: it is dropped.
WriteNothing ==
    /\ ~Writable \/ Head(writeQueue) = <<>>
    /\ Pop
    /\ waiting' = FALSE /\ UNCHANGED <<wire, blocks>>

\* HandleQueue is true only when a whole message went out and there is more.
More == writeQueue # <<>> /\ WriteAll /\ Tail(writeQueue) # <<>>
NoMore ==
    \/ /\ writeQueue # <<>>
       /\ WriteSome \/ WriteNothing \/ (WriteAll /\ Tail(writeQueue) = <<>>)
    \/ writeQueue = <<>> /\ UNCHANGED <<writeQueue, waiting, wire, blocks, closed, closer>>

Unwritten ==
    UNCHANGED <<queueVars, buffer, closing, shut, due, authVars, sessionVars, sendVars, place>>

HandleQueue ==
    /\ In("write") /\ Unwritten
    /\ (More /\ UNCHANGED npc) \/ (NoMore /\ npc' = "callbacks")

\* WriteHandlerWrapper: one message.
WriteReady == AtEvent /\ waiting /\ (More \/ NoMore) /\ Unwritten /\ UNCHANGED npc

----------------------------------------------------------------------------
(* Authentication: the query callbacks of Update and the read handler.      *)

NothingToWrite == UNCHANGED <<writeVars, sendVars, place>>

\* SendPacket of the network thread; "link" is its second half.
SendRefusal ==
    IF IsOpen THEN EnqueueFirst(Reader, Refusal) ELSE UNCHANGED queueVars

\* HandleAuthAccount, when the account may play.
AcceptAccount ==
    /\ In("callbacks") /\ query = "answered"
    /\ query' = "used" /\ npc' = "idle"
    /\ session' = "new" /\ mSession' = TRUE
    /\ UNCHANGED <<queueVars, closeVars, client, said, reading, lock>> /\ NothingToWrite

RefuseAccount ==
    /\ In("callbacks") /\ query = "answered"
    /\ query' = "used" /\ npc' = IF IsOpen THEN "link" ELSE "idle"
    /\ SendRefusal
    /\ UNCHANGED <<closeVars, client, said, reading, sessionVars>> /\ NothingToWrite

NoCallback ==
    /\ In("callbacks") /\ query # "answered"
    /\ npc' = "idle"
    /\ UNCHANGED <<queueVars, closeVars, authVars, sessionVars>> /\ NothingToWrite

AnswerQuery ==
    /\ query = "asked"
    /\ query' = "answered"
    /\ UNCHANGED <<queueVars, closeVars, client, said, reading, sessionVars, npc>> /\ NothingToWrite

\* ReadHandler of a socket that is not open: no read is asked for again.
ReadTooLate ==
    /\ AtEvent /\ reading /\ client = "connected" /\ ~IsOpen
    /\ reading' = FALSE
    /\ UNCHANGED <<queueVars, closeVars, client, said, query, sessionVars, npc>> /\ NothingToWrite

\* The client authenticates once, when it has the challenge.
AuthArrives ==
    /\ AtEvent /\ reading /\ client = "connected" /\ IsOpen
    /\ ~said /\ Contains(wire, Challenge)
    /\ said' = TRUE
    /\ UNCHANGED <<client, sessionVars>> /\ NothingToWrite

AskAccount ==
    /\ AuthArrives
    /\ query' = "asked"
    /\ UNCHANGED <<queueVars, closeVars, reading, npc>>

DelayedCloseSocket(owed) ==
    /\ closing' = TRUE /\ due' = owed
    /\ reading' = FALSE
    /\ UNCHANGED <<closed, shut, closer>>

\* HandleAuthHello while the world is closed: refuse, then close with a delay.
RefuseClosed ==
    /\ AuthArrives
    /\ SendRefusal /\ npc' = "refuse"
    /\ UNCHANGED <<closeVars, reading, query>>

LinkRefusal ==
    /\ npc \in {"link", "refuse"} /\ EnqueueSecond(Reader)
    /\ IF npc = "refuse" THEN DelayedCloseSocket(Len(sent)) ELSE UNCHANGED <<closeVars, reading>>
    /\ npc' = "idle"
    /\ UNCHANGED <<client, said, query, sessionVars>> /\ NothingToWrite

\* HandleAuthHello for a packet that is too short.
RefuseShort ==
    /\ AuthArrives
    /\ DelayedCloseSocket(Len(sent))
    /\ UNCHANGED <<queueVars, query, npc>>

\* Any later packet, from a client that was let in: under m_SessionLock.
PacketArrives ==
    /\ AtEvent /\ reading /\ client = "connected" /\ IsOpen
    /\ Contains(wire, Script[World][1]) /\ lock = Null
    /\ IF mSession
         THEN lock' = Reader /\ npc' = "session" /\ UNCHANGED <<closed, closer, reading>>
         ELSE CloseSocket(Reader, "cut") /\ reading' = FALSE /\ UNCHANGED <<lock, npc>>
    /\ UNCHANGED <<queueVars, closing, shut, due, client, said, query, session, mSession>>
    /\ NothingToWrite

QueuePacket ==
    /\ npc = "session"
    /\ lock' = Null /\ npc' = "idle"
    /\ reading' = IsOpen
    /\ UNCHANGED <<queueVars, closeVars, client, said, query, session, mSession>> /\ NothingToWrite

ReadError ==
    /\ AtEvent /\ reading /\ client = "gone"
    /\ reading' = FALSE
    /\ CloseSocket(Reader, "cut")
    /\ UNCHANGED <<queueVars, closing, shut, due, client, said, query, sessionVars, npc>>
    /\ NothingToWrite

\* The client, or the net between, is gone.
LoseClient ==
    /\ client = "connected"
    /\ client' = "gone"
    /\ UNCHANGED <<queueVars, closeVars, said, reading, query, sessionVars, npc>> /\ NothingToWrite

----------------------------------------------------------------------------
(* The session, in the world thread and in the threads that update maps.    *)

Free(t) == holding[t] = Null /\ linking[t] = NoLink
WorldFree == Free(World) /\ closer[World] = "no"
Elsewhere == UNCHANGED <<writeVars, authVars, place, npc>>

\* UpdateSessions takes it from m_newSessions.
AddSession ==
    /\ session = "new" /\ WorldFree
    /\ session' = "world"
    /\ UNCHANGED <<queueVars, closeVars, mSession, lock, sendVars>> /\ Elsewhere

\* SendPacket tests IsOpen and enqueues later.
SendPacket(t) ==
    /\ session = "world" /\ IsOpen /\ Free(t) /\ (t = World => WorldFree)
    /\ pos[t] < Len(Script[t]) /\ (t # World => pos[World] > 0)
    /\ pos' = [pos EXCEPT ![t] = @ + 1]
    /\ holding' = [holding EXCEPT ![t] = Script[t][pos'[t]]]
    /\ UNCHANGED <<queueVars, closeVars, sessionVars>> /\ Elsewhere

Enqueue(t) ==
    /\ \/ holding[t] # Null /\ EnqueueFirst(t, holding[t])
       \/ EnqueueSecond(t)
    /\ holding' = [holding EXCEPT ![t] = Null]
    /\ UNCHANGED <<pos, closeVars, sessionVars>> /\ Elsewhere

Kick ==
    /\ session = "world" /\ WorldFree
    /\ CloseSocket(World, "cut")
    /\ UNCHANGED <<queueVars, closing, shut, due, sessionVars, sendVars>> /\ Elsewhere

\* WorldSession::Update found the socket closed; no map is updated meanwhile.
DeleteSession ==
    /\ session = "world" /\ ~IsOpen /\ WorldFree /\ \A t \in Others : Free(t)
    /\ session' = "deleted"
    /\ UNCHANGED <<queueVars, closeVars, mSession, lock, sendVars>> /\ Elsewhere

----------------------------------------------------------------------------
Close(t) == Shutdown(t) \/ OnClose(t)

\* A handler of the network thread, once begun; its other events; the world thread.
Handler ==
    \/ DequeuePacket \/ MovePacket \/ Drained \/ Forget \/ Update \/ HandleQueue
    \/ AcceptAccount \/ RefuseAccount \/ NoCallback \/ LinkRefusal \/ QueuePacket
    \/ Close(Reader)
Timer == AddNewSockets \/ StartUpdate
ReadHandler ==
    \/ ReadTooLate \/ AskAccount \/ RefuseClosed \/ RefuseShort \/ PacketArrives \/ ReadError
WorldThread == AddSession \/ DeleteSession \/ Enqueue(World) \/ Close(World)

Next ==
    \/ Handler \/ Timer \/ WriteReady \/ ReadHandler
    \/ AnswerQuery \/ LoseClient
    \/ WorldThread \/ Kick
    \/ \E t \in Others : SendPacket(t)
    \/ \E t \in Others \ {World} : Enqueue(t)

Spec == Init /\ [][Next]_vars

\* Threads go on; handlers that are ready get their turn; the world thread gets
\* m_SessionLock; what a connected client is sent can be written in the end.
Fairness ==
    /\ WF_vars(Handler) /\ SF_vars(Timer) /\ SF_vars(WriteReady) /\ SF_vars(ReadError)
    /\ SF_vars(WorldThread)
    /\ \A t \in Others \ {World} : WF_vars(Enqueue(t))

FairSpec == Spec /\ Fairness

----------------------------------------------------------------------------
(* Properties.                                                             *)

TypeOK ==
    /\ QueueTypeOK
    /\ closer \in [{Reader, World} -> {"no", "ended", "cut", "OnClose"}]
    /\ shut \in {"no", "ended", "cut"} /\ place \in {"new", "listed", "removed"}
    /\ npc \in {"idle", "drain", "update", "write", "callbacks", "link", "refuse", "session"}
    /\ {closed, closing, waiting, said, reading, mSession} \subseteq BOOLEAN
    /\ buffer \in Seq(Packets) /\ writeQueue \in Seq(Seq(Packets)) /\ wire \in Seq(Packets)
    /\ session \in {"none", "new", "world", "deleted"} /\ lock \in {Null, Reader}
    /\ due <= Len(sent) /\ blocks <= MaxBlocks

\* The session is not deleted while the network thread gives it a packet, and
\* m_Session points to a deleted one only inside the thread's own CloseSocket.
SessionSafe ==
    session = "deleted" => npc # "session" /\ (mSession => closer[Reader] # "no")

Stream == INSTANCE PacketStream
    WITH received <- wire,
         phase <- IF shut # "no" THEN shut ELSE IF closing THEN "flushing" ELSE "open"

\* The connection is the stream the rest of the server takes it for: whole packets
\* in the order of the exchanges, each once, and a delayed close after the last.
ImplementsStream == Stream!Spec

\* What was sent goes out unless the socket closes; a delayed close with something
\* to send closes it, whatever the client does; a closed socket is taken out of
\* the network thread and its session deleted.
SocketEnds ==
    /\ wire # sent ~> wire = sent \/ closed
    /\ closing /\ wire # sent ~> closed
    /\ closed ~> place = "removed" /\ session \notin {"new", "world"}
=============================================================================
