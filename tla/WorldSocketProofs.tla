------------------------- MODULE WorldSocketProofs -------------------------
(***************************************************************************)
(* Theorems about WorldSocket for every set of threads, of packets and of   *)
(* scripts; the last says that the connection implements PacketStream.      *)
(***************************************************************************)
EXTENDS WorldSocket, MpscQueueProofs

\* What the timer calls, and what may come between two timers.
WriteStep == HandleQueue \/ WriteReady
ReadStep ==
    \/ ReadTooLate \/ AskAccount \/ RefuseClosed \/ RefuseShort \/ PacketArrives
    \/ QueuePacket \/ ReadError
PlainStep ==
    \/ AddNewSockets \/ StartUpdate \/ Forget \/ Update \/ NoCallback \/ AnswerQuery
    \/ LoseClient \/ AddSession \/ DeleteSession

LEMMA NextCases ==
    ASSUME [Next]_vars
    PROVE  \/ UNCHANGED vars
           \/ DequeuePacket \/ MovePacket \/ Drained
           \/ WriteStep \/ ReadStep \/ PlainStep
           \/ AcceptAccount \/ RefuseAccount \/ LinkRefusal \/ Kick
           \/ \E t \in {Reader, World} : Shutdown(t) \/ OnClose(t)
           \/ \E t \in Others : SendPacket(t) \/ Enqueue(t)
BY ThreadAssumption DEF Next, Handler, Timer, ReadHandler, WorldThread, Close, WriteStep, ReadStep,
   PlainStep

LEMMA ThreadFacts ==
    /\ Reader \in Threads /\ World \in Threads /\ World # Reader /\ Reader # Null
    /\ Others \subseteq Threads /\ Reader \notin Others /\ World \in Others
BY ThreadAssumption, ReaderAssumption DEF Others

(* ---- The queue as the connection uses it --------------------------------- *)

\* Dequeue runs only while the timer drains the queue.
Calls == npc # "drain" => dequeue = "begin"

\* What was sent is what the threads have been through.
SentBy(x) ==
    \/ x = Challenge
    \/ x = Refusal /\ said /\ query \in {"none", "used"}
    \/ \E t \in Others : \E j \in DOMAIN Script[t] :
         x = Script[t][j] /\ j <= pos[t] /\ (holding[t] # Null => j < pos[t])

Fresh ==
    /\ \A x \in Sent : SentBy(x)
    /\ \A t \in Others : /\ pos[t] \in Nat
                         /\ holding[t] # Null => /\ pos[t] \in DOMAIN Script[t]
                                                 /\ holding[t] = Script[t][pos[t]]
    /\ query # "none" => said
    /\ pos \in [Others -> Nat] /\ holding \in [Others -> Packets \cup {Null}]

\* The refusal is sent once, by the authentication packet or by its answer.
LEMMA RefusalIsNew ==
    ASSUME Fresh, ~said \/ query = "answered"
    PROVE  Refusal \notin Sent /\ Refusal \in Packets
<1>1. Refusal # Challenge /\ Refusal \in Packets
  BY OnceAssumption, PacketAssumption
<1>2. \A t \in Others : \A j \in DOMAIN Script[t] : Script[t][j] # Refusal
  BY OnceAssumption
<1>3. ~SentBy(Refusal)
  BY <1>1, <1>2 DEF SentBy
<1> QED BY <1>1, <1>3 DEF Fresh

\* So is a packet of a script.
LEMMA HoldingIsNew ==
    ASSUME Fresh, NEW t \in Others, holding[t] # Null
    PROVE  holding[t] \notin Sent /\ holding[t] \in Packets
<1>1. /\ pos[t] \in DOMAIN Script[t] /\ holding[t] = Script[t][pos[t]] /\ pos[t] \in Nat
      /\ holding[t] \in Packets
  BY DEF Fresh
<1>2. holding[t] \notin {Challenge, Refusal}
  BY <1>1, OnceAssumption
<1>3. ASSUME NEW u \in Others, NEW j \in DOMAIN Script[u], holding[t] = Script[u][j],
             holding[u] # Null => j < pos[u]
      PROVE  FALSE
  <2>1. u = t /\ j = pos[t]
    <3>1. Script[t][pos[t]] = Script[u][j]
      BY <1>1, <1>3
    <3> QED BY <3>1, <1>1, OnceAssumption
  <2> QED BY <2>1, <1>1, <1>3
<1>4. ~SentBy(holding[t])
  BY <1>2, <1>3 DEF SentBy
<1> QED BY <1>1, <1>4 DEF Fresh

\* Whatever the connection does is a step of the queue.
LEMMA QueueMoves ==
    ASSUME Calls, Fresh, [Next]_vars
    PROVE  [QueueNext]_queueVars
<1>1. CASE DequeuePacket
  BY <1>1 DEF DequeuePacket, QueueNext
<1>2. CASE MovePacket \/ Drained
  BY <1>2 DEF MovePacket, Drained, QueueNext
<1>3. CASE RefuseAccount \/ RefuseClosed
  <2>1. npc # "drain" /\ (~said \/ query = "answered") /\ SendRefusal
    BY <1>3 DEF RefuseAccount, RefuseClosed, AuthArrives, AtEvent, In
  <2>2. Refusal \in Packets \ Sent /\ dequeue = "begin"
    BY <2>1, RefusalIsNew DEF Calls
  <2>3. CASE EnqueueFirst(Reader, Refusal)
    BY <2>2, <2>3, ThreadFacts DEF QueueNext, Sent
  <2> QED BY <2>1, <2>3 DEF SendRefusal
<1>4. CASE LinkRefusal
  <2>1. EnqueueSecond(Reader) /\ dequeue = "begin"
    BY <1>4 DEF LinkRefusal, Calls
  <2> QED BY <2>1, ThreadFacts DEF QueueNext
<1>5. ASSUME NEW t \in Others, Enqueue(t) PROVE [QueueNext]_queueVars
  <2>1. t \in Threads /\ t # Reader
    BY ThreadFacts
  <2>2. CASE holding[t] # Null /\ EnqueueFirst(t, holding[t])
    BY <2>1, <2>2, HoldingIsNew DEF QueueNext, Sent
  <2>3. CASE EnqueueSecond(t)
    BY <2>1, <2>3 DEF QueueNext
  <2> QED BY <1>5, <2>2, <2>3 DEF Enqueue
<1>6. CASE WriteStep
  BY <1>6 DEF WriteStep, HandleQueue, WriteReady, Unwritten
<1>7. CASE ReadStep /\ ~RefuseClosed
  BY <1>7 DEF ReadStep, ReadTooLate, AskAccount, RefuseShort, PacketArrives, QueuePacket, ReadError
<1>8. CASE PlainStep
  BY <1>8 DEF PlainStep, AddNewSockets, StartUpdate, Forget, Update, NoCallback, AnswerQuery,
     LoseClient, AddSession, DeleteSession
<1>9. CASE AcceptAccount \/ Kick
  BY <1>9 DEF AcceptAccount, Kick
<1>10. ASSUME NEW t \in {Reader, World}, Shutdown(t) \/ OnClose(t) PROVE UNCHANGED queueVars
  BY <1>10 DEF Shutdown, OnClose
<1>11. ASSUME NEW t \in Others, SendPacket(t) PROVE UNCHANGED queueVars
  BY <1>11 DEF SendPacket
<1>12. CASE UNCHANGED vars
  BY <1>12 DEF vars
<1> QED BY <1>1, <1>2, <1>3, <1>4, <1>5, <1>6, <1>7, <1>8, <1>9, <1>10, <1>11, <1>12, NextCases

LEMMA CallsKept ==
    ASSUME Calls, [Next]_vars
    PROVE  Calls'
<1>1. CASE DequeuePacket \/ MovePacket \/ Drained
  BY <1>1 DEF Calls, DequeuePacket, MovePacket, Drained, In, Leave
<1>2. CASE RefuseAccount \/ RefuseClosed
  BY <1>2 DEF Calls, RefuseAccount, RefuseClosed, SendRefusal, EnqueueFirst, queueVars, AuthArrives,
     AtEvent, In
<1>3. CASE LinkRefusal
  BY <1>3 DEF Calls, LinkRefusal, EnqueueSecond
<1>4. ASSUME NEW t \in Others, Enqueue(t) \/ SendPacket(t) PROVE Calls'
  BY <1>4 DEF Calls, Enqueue, SendPacket, EnqueueFirst, EnqueueSecond, Elsewhere, queueVars
<1>5. CASE WriteStep
  BY <1>5 DEF Calls, WriteStep, HandleQueue, WriteReady, Unwritten, In, queueVars
<1>6. CASE ReadStep /\ ~RefuseClosed
  BY <1>6 DEF Calls, ReadStep, ReadTooLate, AskAccount, RefuseShort, PacketArrives, QueuePacket,
     ReadError, AtEvent, AuthArrives, queueVars
<1>7. CASE PlainStep
  BY <1>7 DEF Calls, PlainStep, AddNewSockets, StartUpdate, Forget, Update, NoCallback, AnswerQuery,
     LoseClient, AddSession, DeleteSession, In, AtEvent, Elsewhere, queueVars
<1>8. CASE AcceptAccount \/ Kick
  BY <1>8 DEF Calls, AcceptAccount, Kick, In, Elsewhere, queueVars
<1>9. ASSUME NEW t \in {Reader, World}, Shutdown(t) \/ OnClose(t) PROVE Calls'
  BY <1>9 DEF Calls, Shutdown, OnClose, queueVars
<1>10. CASE UNCHANGED vars
  BY <1>10 DEF Calls, vars, queueVars
<1> QED BY <1>1, <1>2, <1>3, <1>4, <1>5, <1>6, <1>7, <1>8, <1>9, <1>10, NextCases

LEMMA SentGrows ==
    ASSUME QueueTypeOK, NEW x \in Packets, sent' = Append(sent, x)
    PROVE  Sent' \subseteq Sent \cup {x}
<1>1. sent \in Seq(Packets)
  BY DEF QueueTypeOK
<1>2. /\ DOMAIN sent' = 1 .. Len(sent) + 1 /\ DOMAIN sent = 1 .. Len(sent)
      /\ \A k \in 1 .. Len(sent) : sent'[k] = sent[k]
      /\ sent'[Len(sent) + 1] = x /\ Len(sent) \in Nat
  BY <1>1
<1> QED BY <1>2 DEF Sent

\* Steps that neither send nor begin to.
LEMMA FreshSame ==
    ASSUME Fresh, UNCHANGED <<sent, pos, holding, query, said>>
    PROVE  Fresh'
BY DEF Fresh, SentBy, Sent

LEMMA FreshKept ==
    ASSUME Fresh, QueueTypeOK, [Next]_vars
    PROVE  Fresh'
<1>1. CASE DequeuePacket \/ MovePacket \/ Drained \/ WriteStep
  <2>1. sent' = sent
    BY <1>1 DEF DequeuePacket, MovePacket, Drained, WriteStep, HandleQueue, WriteReady, Unwritten,
       queueVars, Dequeue, Leave, FindEmpty, PassDummy, TakeTail, TailIsLast, CompareHead,
       ReturnDummy, LinkDummy
  <2>2. UNCHANGED <<pos, holding, query, said>>
    BY <1>1 DEF DequeuePacket, MovePacket, Drained, WriteStep, HandleQueue, WriteReady, Unwritten,
       sendVars, authVars
  <2> QED BY <2>1, <2>2, FreshSame
<1>2. CASE ReadTooLate \/ PacketArrives \/ QueuePacket \/ ReadError
  <2>1. UNCHANGED <<sent, pos, holding, query, said>>
    BY <1>2 DEF ReadTooLate, PacketArrives, QueuePacket, ReadError, NothingToWrite, queueVars, sendVars
  <2> QED BY <2>1, FreshSame
<1>3. CASE AddNewSockets \/ StartUpdate \/ Forget \/ Update \/ NoCallback \/ LoseClient
             \/ AddSession \/ DeleteSession \/ Kick
  <2>1. UNCHANGED <<sent, pos, holding, query, said>>
    BY <1>3 DEF AddNewSockets, StartUpdate, Forget, Update, NoCallback, LoseClient, AddSession,
       DeleteSession, Kick, NothingToWrite, Elsewhere, queueVars, sendVars, authVars
  <2> QED BY <2>1, FreshSame
<1>4. ASSUME NEW t \in {Reader, World}, Shutdown(t) \/ OnClose(t) PROVE Fresh'
  <2>1. UNCHANGED <<sent, pos, holding, query, said>>
    BY <1>4 DEF Shutdown, OnClose, queueVars, sendVars, authVars
  <2> QED BY <2>1, FreshSame
<1>5. CASE AskAccount \/ RefuseShort \/ AnswerQuery \/ AcceptAccount
  <2>1. UNCHANGED <<sent, pos, holding>> /\ (query' # "none" => said')
    BY <1>5 DEF AskAccount, RefuseShort, AnswerQuery, AcceptAccount, AuthArrives, NothingToWrite,
       queueVars, sendVars, Fresh
  <2>2. Refusal \notin Sent \/ (said' /\ query' \in {"none", "used"})
    <3>1. CASE AskAccount \/ RefuseShort \/ AcceptAccount
      BY <3>1, RefusalIsNew DEF AskAccount, RefuseShort, AcceptAccount, AuthArrives
    <3>2. CASE AnswerQuery
      BY <3>2, OnceAssumption DEF AnswerQuery, Fresh, SentBy
    <3> QED BY <1>5, <3>1, <3>2
  <2> QED BY <2>1, <2>2 DEF Fresh, SentBy, Sent
<1>6. CASE RefuseAccount \/ RefuseClosed
  <2>1. /\ UNCHANGED <<pos, holding>>
        /\ said' /\ query' \in {"none", "used"}
    BY <1>6 DEF RefuseAccount, RefuseClosed, AuthArrives, NothingToWrite, sendVars, Fresh
  <2>2. Sent' \subseteq Sent \cup {Refusal}
    BY <1>6, SentGrows, PacketAssumption
    DEF RefuseAccount, RefuseClosed, SendRefusal, EnqueueFirst, queueVars, Sent
  <2> QED BY <2>1, <2>2 DEF Fresh, SentBy
<1>7. CASE LinkRefusal
  <2>1. UNCHANGED <<sent, pos, holding, query, said>>
    BY <1>7 DEF LinkRefusal, EnqueueSecond, NothingToWrite, sendVars
  <2> QED BY <2>1, FreshSame
<1>8. ASSUME NEW t \in Others, SendPacket(t) PROVE Fresh'
  <2>1. /\ UNCHANGED <<sent, query, said>> /\ holding[t] = Null
        /\ pos' = [pos EXCEPT ![t] = @ + 1]
        /\ holding' = [holding EXCEPT ![t] = Script[t][pos[t] + 1]]
        /\ pos[t] + 1 \in DOMAIN Script[t] /\ pos[t] \in Nat
    BY <1>8, ThreadAssumption DEF SendPacket, Free, Elsewhere, queueVars, authVars, Fresh
  <2>2. Script[t][pos[t] + 1] \in Packets
    BY <2>1, ThreadAssumption
  <2>3. \A u \in Others : pos'[u] = IF u = t THEN pos[u] + 1 ELSE pos[u]
    BY <2>1 DEF Fresh
  <2>4. \A u \in Others : holding'[u] = IF u = t THEN Script[t][pos[t] + 1] ELSE holding[u]
    BY <2>1 DEF Fresh
  <2>5. ASSUME NEW x \in Sent PROVE SentBy(x)'
    <3>1. SentBy(x)
      BY DEF Fresh
    <3>2. CASE x = Challenge \/ (x = Refusal /\ said /\ query \in {"none", "used"})
      BY <3>2, <2>1 DEF SentBy
    <3>3. ASSUME NEW u \in Others, NEW j \in DOMAIN Script[u], x = Script[u][j], j <= pos[u],
                 holding[u] # Null => j < pos[u]
          PROVE  SentBy(x)'
      <4>1. j \in Nat /\ pos[u] \in Nat
        BY ThreadAssumption DEF Fresh
      <4>2. j <= pos'[u] /\ (holding'[u] # Null => j < pos'[u])
        BY <2>1, <2>3, <2>4, <3>3, <4>1
      <4> QED BY <3>3, <4>2 DEF SentBy
    <3> QED BY <3>1, <3>2, <3>3 DEF SentBy
  <2>6. Sent' = Sent
    BY <2>1 DEF Sent
  <2>7. pos' \in [Others -> Nat] /\ holding' \in [Others -> Packets \cup {Null}]
    BY <2>1, <2>2 DEF Fresh
  <2> QED BY <2>1, <2>3, <2>4, <2>5, <2>6, <2>7 DEF Fresh
<1>9. ASSUME NEW t \in Others, Enqueue(t) PROVE Fresh'
  <2>1. /\ UNCHANGED <<pos, query, said>>
        /\ holding' = [holding EXCEPT ![t] = Null]
    BY <1>9 DEF Enqueue, Elsewhere, authVars
  <2>2. Sent' = Sent \/ (holding[t] # Null /\ Sent' \subseteq Sent \cup {holding[t]})
    BY <1>9, SentGrows, HoldingIsNew DEF Enqueue, EnqueueFirst, EnqueueSecond, Sent
  <2>3. \A u \in Others : holding'[u] = IF u = t THEN Null ELSE holding[u]
    BY <2>1 DEF Fresh
  <2>4. ASSUME NEW x \in Sent PROVE SentBy(x)'
    BY <2>1, <2>3 DEF Fresh, SentBy
  <2>5. ASSUME NEW x, x = holding[t], x # Null PROVE SentBy(x)'
    <3>1. /\ pos[t] \in DOMAIN Script[t] /\ x = Script[t][pos[t]] /\ pos[t] \in Nat
          /\ pos' = pos /\ holding'[t] = Null
      BY <2>1, <2>3, <2>5 DEF Fresh
    <3> QED BY <3>1 DEF SentBy
  <2>6. holding' \in [Others -> Packets \cup {Null}]
    BY <2>1 DEF Fresh
  <2>7. \A x \in Sent' : SentBy(x)'
    BY <2>2, <2>4, <2>5
  <2> QED BY <2>1, <2>3, <2>6, <2>7 DEF Fresh
<1>10. CASE UNCHANGED vars
  BY <1>10, FreshSame DEF vars, queueVars, sendVars, authVars
<1> QED BY <1>1, <1>2, <1>3, <1>4, <1>5, <1>6, <1>7, <1>8, <1>9, <1>10, NextCases
    DEF ReadStep, PlainStep

\* The challenge is linked when the connection starts.
LEMMA StartsWithChallenge ==
    ASSUME Init
    PROVE  QueueInv /\ Calls /\ Fresh
<1> DEFINE q == <<Dummy, Challenge>>
<1>1. /\ q \in Seq(Nodes) /\ Len(q) = 2 /\ q[1] = Dummy /\ q[2] = Challenge /\ Null \notin Nodes
      /\ Challenge \in Packets /\ Challenge # Dummy /\ Challenge \in Nodes /\ Dummy \in Nodes
  BY NodeAssumption, PacketAssumption DEF Nodes
<1>2. /\ sent = <<Challenge>> /\ out = <<>> /\ Len(sent) = 1 /\ Len(out) = 0 /\ sent[1] = Challenge
      /\ head = Challenge /\ tail = Dummy /\ dequeue = "begin"
      /\ next = [n \in Nodes |-> IF n = Dummy THEN Challenge ELSE Null]
      /\ linking = [t \in Threads |-> NoLink] /\ npc = "idle" /\ query = "none"
      /\ pos = [t \in Others |-> 0] /\ holding = [t \in Others |-> Null]
  BY DEF Init
<1>3. Sent = {Challenge}
  BY <1>2 DEF Sent
<1>4. QueueTypeOK
  BY <1>1, <1>2 DEF QueueTypeOK
<1>5. InOrder /\ SentOnce /\ PastDummy /\ OneLinker
  BY <1>2 DEF InOrder, SentOnce, PastDummy, OneLinker
<1>6. Unlinked
  BY <1>1, <1>2, <1>3, NodeAssumption DEF Unlinked, Nodes
<1>7. Waits(q, 1)
  BY <1>1, <1>2 DEF Waits, Skipped
<1>8. Linked(q)
  BY <1>1, <1>2 DEF Linked
<1>9. Row(q, 1)
  BY <1>2, <1>7, <1>8 DEF Row
<1>10. QueueInv
  BY <1>1, <1>4, <1>5, <1>6, <1>9 DEF QueueInv
<1>11. Calls /\ Fresh
  BY <1>2, <1>3 DEF Calls, Fresh, SentBy
<1> QED BY <1>10, <1>11

(* ---- The session ----------------------------------------------------------- *)

CloserType == closer \in [{Reader, World} -> {"no", "ended", "cut", "OnClose"}]

\* Who may be closing, and how far the connection got before.
Life ==
    /\ CloserType
    /\ closing => said /\ query = "none"
    /\ query # "none" => said
    /\ npc = "refuse" => said /\ query = "none"
    /\ session # "none" => query = "used"
    /\ session = "none" => ~mSession
    /\ session = "none" /\ query # "none" /\ npc \in {"write", "callbacks"} => ~closed
    /\ closed => ~mSession \/ closer[Reader] # "no" \/ closer[World] # "no"
    /\ npc = "session" => lock = Reader /\ mSession /\ closer[Reader] = "no"
    /\ session = "deleted" => closed

LifeInv == Life /\ SessionSafe

\* What CloseSocket does to the closers.
LEMMA CloserFacts ==
    ASSUME CloserType, NEW t \in {Reader, World}, NEW how \in {"no", "ended", "cut", "OnClose"}
    PROVE  closer' = [closer EXCEPT ![t] = how] =>
             /\ CloserType' /\ closer'[t] = how
             /\ \A u \in {Reader, World} : u # t => closer'[u] = closer[u]
BY DEF CloserType

LEMMA CloseFacts ==
    ASSUME CloserType, NEW t \in {Reader, World}, NEW how \in {"ended", "cut"}, CloseSocket(t, how)
    PROVE  /\ CloserType' /\ closed'
           /\ closed => closer' = closer
           /\ ~closed => closer'[t] # "no"
           /\ \A u \in {Reader, World} : u # t => closer'[u] = closer[u]
BY CloserFacts DEF CloseSocket, CloserType

LEMMA LifeKept ==
    ASSUME LifeInv, [Next]_vars
    PROVE  LifeInv'
<1> USE DEF LifeInv, SessionSafe
<1>1. Life /\ CloserType
  BY DEF Life
<1>2. CASE \/ DequeuePacket \/ MovePacket \/ Drained
  BY <1>2 DEF Life, CloserType, DequeuePacket, MovePacket, Drained, In, closeVars, authVars,
     sessionVars
<1>3. CASE WriteStep
  <2>1. /\ UNCHANGED <<closing, said, query, session, mSession, lock>>
        /\ npc' = npc \/ npc' = "callbacks"
        /\ npc \in {"write", "idle"} /\ closer[Reader] = "no"
        /\ npc = "idle" => npc' = "idle"
    BY <1>3 DEF WriteStep, HandleQueue, WriteReady, Unwritten, In, AtEvent, authVars, sessionVars
  <2>2. UNCHANGED <<closed, closer>> \/ (closing /\ closed' /\ CloserType'
           /\ (closed => closer' = closer) /\ (~closed => closer'[Reader] # "no")
           /\ closer'[World] = closer[World])
    <3>1. UNCHANGED <<closed, closer>> \/ Pop
      BY <1>3 DEF WriteStep, HandleQueue, WriteReady, More, NoMore, WriteAll, WriteSome, WriteNothing
    <3>2. CASE Pop
      BY <3>2, <1>1, CloseFacts, ThreadFacts DEF Pop
    <3> QED BY <3>1, <3>2
  <2>3. CASE UNCHANGED <<closed, closer>>
    BY <2>1, <2>3 DEF Life, CloserType
  <2> QED BY <2>1, <2>2, <2>3 DEF Life
<1>4. CASE ReadTooLate \/ AskAccount \/ QueuePacket
  BY <1>4 DEF Life, CloserType, ReadTooLate, AskAccount, QueuePacket, AuthArrives, AtEvent, IsOpen,
     closeVars, sessionVars
<1>5. CASE RefuseClosed \/ RefuseShort
  BY <1>5 DEF Life, CloserType, RefuseClosed, RefuseShort, DelayedCloseSocket, AuthArrives, AtEvent,
     IsOpen, closeVars, sessionVars
<1>6. CASE PacketArrives \/ ReadError
  <2>1. /\ UNCHANGED <<closing, said, query, session, mSession>>
        /\ npc = "idle" /\ closer[Reader] = "no"
    BY <1>6 DEF PacketArrives, ReadError, AtEvent, sessionVars
  <2>2. \/ ~closed /\ mSession /\ lock' = Reader /\ npc' = "session" /\ UNCHANGED <<closed, closer>>
        \/ UNCHANGED npc /\ CloseSocket(Reader, "cut") /\ UNCHANGED lock
    BY <1>6 DEF PacketArrives, ReadError, IsOpen, sessionVars
  <2>3. CASE CloseSocket(Reader, "cut") /\ UNCHANGED <<npc, lock>>
    BY <2>1, <2>3, <1>1, CloseFacts, ThreadFacts DEF Life
  <2>4. CASE ~closed /\ mSession /\ lock' = Reader /\ npc' = "session" /\ UNCHANGED <<closed, closer>>
    BY <2>1, <2>4 DEF Life, CloserType
  <2> QED BY <2>2, <2>3, <2>4
<1>7. CASE PlainStep /\ ~DeleteSession
  BY <1>7 DEF Life, CloserType, PlainStep, AddNewSockets, StartUpdate, Forget, Update, NoCallback,
     AnswerQuery, LoseClient, AddSession, In, AtEvent, Elsewhere, NothingToWrite, closeVars, authVars,
     sessionVars
<1>8. CASE DeleteSession
  <2>1. /\ closed /\ closer[World] = "no" /\ session = "world"
    BY <1>8 DEF DeleteSession, IsOpen, WorldFree, Life
  <2>2. UNCHANGED <<closed, closing, closer, said, query, npc, mSession, lock>> /\ session' = "deleted"
    BY <1>8 DEF DeleteSession, Elsewhere, closeVars, authVars
  <2> QED BY <2>1, <2>2 DEF Life, CloserType
<1>9. CASE AcceptAccount
  BY <1>9 DEF Life, CloserType, AcceptAccount, In, closeVars
<1>10. CASE RefuseAccount \/ LinkRefusal
  BY <1>10 DEF Life, CloserType, RefuseAccount, LinkRefusal, DelayedCloseSocket, In, closeVars,
     sessionVars
<1>11. CASE Kick
  <2>1. /\ UNCHANGED <<closing, said, query, npc, session, mSession, lock>>
        /\ session = "world" /\ CloseSocket(World, "cut")
    BY <1>11 DEF Kick, Elsewhere, authVars, sessionVars
  <2> QED BY <2>1, <1>1, CloseFacts, ThreadFacts DEF Life
<1>12. ASSUME NEW t \in {Reader, World}, Shutdown(t) PROVE LifeInv'
  <2>1. /\ UNCHANGED <<closed, closing, said, query, npc, session, mSession, lock>>
        /\ closer[t] # "no" /\ closer' = [closer EXCEPT ![t] = "OnClose"]
    BY <1>12 DEF Shutdown, authVars, sessionVars
  <2>2. /\ CloserType' /\ closer'[t] = "OnClose"
        /\ \A u \in {Reader, World} : u # t => closer'[u] = closer[u]
    BY <2>1, <1>1, CloserFacts
  <2> QED BY <2>1, <2>2, ThreadFacts DEF Life
<1>13. ASSUME NEW t \in {Reader, World}, OnClose(t) PROVE LifeInv'
  <2>1. /\ UNCHANGED <<closed, closing, said, query, npc, session, lock>>
        /\ ~mSession' /\ lock = Null
        /\ closer[t] # "no" /\ closer' = [closer EXCEPT ![t] = "no"]
    BY <1>13 DEF OnClose, authVars
  <2>2. /\ CloserType' /\ closer'[t] = "no"
        /\ \A u \in {Reader, World} : u # t => closer'[u] = closer[u]
    BY <2>1, <1>1, CloserFacts
  <2> QED BY <2>1, <2>2, ThreadFacts DEF Life
<1>14. ASSUME NEW t \in Others, SendPacket(t) \/ Enqueue(t) PROVE LifeInv'
  BY <1>14 DEF Life, CloserType, SendPacket, Enqueue, Elsewhere, closeVars, authVars, sessionVars
<1>15. CASE UNCHANGED vars
  BY <1>15 DEF Life, CloserType, vars, closeVars, authVars, sessionVars
<1> QED BY <1>2, <1>3, <1>4, <1>5, <1>6, <1>7, <1>8, <1>9, <1>10, <1>11, <1>12, <1>13, <1>14, <1>15,
           NextCases DEF ReadStep

(* ---- Types ------------------------------------------------------------------ *)

\* A packet has been returned where the code uses it.
Got == dequeue = "got" => out # <<>>

WriteTypes ==
    /\ buffer \in Seq(Packets) /\ writeQueue \in Seq(Seq(Packets)) /\ wire \in Seq(Packets)
    /\ blocks \in Nat /\ blocks <= MaxBlocks

ControlTypes ==
    /\ CloserType
    /\ shut \in {"no", "ended", "cut"} /\ place \in {"new", "listed", "removed"}
    /\ npc \in {"idle", "drain", "update", "write", "callbacks", "link", "refuse", "session"}
    /\ session \in {"none", "new", "world", "deleted"} /\ lock \in {Null, Reader}

Flags == /\ closed \in BOOLEAN /\ closing \in BOOLEAN /\ waiting \in BOOLEAN
         /\ said \in BOOLEAN /\ reading \in BOOLEAN /\ mSession \in BOOLEAN

DueType == due \in Nat /\ due <= Len(sent)

LEMMA GotKept ==
    ASSUME QueueTypeOK, Got, [QueueNext]_queueVars
    PROVE  Got'
<1>1. CASE UNCHANGED queueVars
  BY <1>1 DEF Got, queueVars
<1>2. ASSUME NEW t \in Threads, EnqueueSecond(t) \/ \E x \in Packets : EnqueueFirst(t, x)
      PROVE  Got'
  BY <1>2 DEF Got, EnqueueSecond, EnqueueFirst
<1>3. CASE TakeTail
  <2>1. out' = Append(out, tail) /\ out \in Seq(Packets)
    BY <1>3 DEF TakeTail, QueueTypeOK
  <2> QED BY <2>1 DEF Got
<1>4. CASE Leave \/ (Dequeue /\ ~TakeTail)
  BY <1>4 DEF Got, Leave, Dequeue, FindEmpty, PassDummy, TailIsLast, CompareHead, ReturnDummy,
     LinkDummy
<1> QED BY <1>1, <1>2, <1>3, <1>4 DEF QueueNext

LEMMA ConcatProperties ==
    ASSUME NEW S, NEW s \in Seq(S), NEW u \in Seq(S)
    PROVE  s \o u \in Seq(S)
OBVIOUS

LEMMA SubSeqProperties ==
    ASSUME NEW S, NEW s \in Seq(S), NEW m \in Nat, NEW n \in Nat, m >= 1, n <= Len(s)
    PROVE  SubSeq(s, m, n) \in Seq(S)
OBVIOUS

LEMMA ExceptSeq ==
    ASSUME NEW S, NEW s \in Seq(S), NEW i \in DOMAIN s, NEW e \in S
    PROVE  [s EXCEPT ![i] = e] \in Seq(S)
OBVIOUS

\* Packing keeps rows of rows of packets.
LEMMA PackTypes ==
    ASSUME WriteTypes, NEW x \in Packets, Pack(x)
    PROVE  buffer' \in Seq(Packets) /\ writeQueue' \in Seq(Seq(Packets))
<1>1. /\ Append(buffer, x) \in Seq(Packets) /\ <<x>> \in Seq(Packets) /\ <<>> \in Seq(Packets)
      /\ Append(writeQueue, buffer) \in Seq(Seq(Packets))
  BY DEF WriteTypes
<1>2. writeQueue \o <<buffer, <<x>>>> \in Seq(Seq(Packets))
  <2>1. <<buffer, <<x>>>> \in Seq(Seq(Packets))
    BY <1>1 DEF WriteTypes
  <2> QED BY <2>1, ConcatProperties DEF WriteTypes
<1> QED BY <1>1, <1>2 DEF Pack, WriteTypes

LEMMA WriteKept ==
    ASSUME WriteTypes, QueueTypeOK, Got, [Next]_vars
    PROVE  WriteTypes'
<1>1. CASE MovePacket
  <2>1. Last(out) \in Packets
    BY <1>1 DEF MovePacket, Got, QueueTypeOK, Last
  <2> QED BY <1>1, <2>1, PackTypes DEF MovePacket, WriteTypes
<1>2. CASE Drained
  <2>1. Append(writeQueue, buffer) \in Seq(Seq(Packets)) /\ <<>> \in Seq(Packets)
    BY DEF WriteTypes
  <2> QED BY <1>2, <2>1 DEF Drained, WriteTypes
<1>3. CASE WriteStep
  <2>1. CASE UNCHANGED <<writeQueue, wire, blocks>>
    BY <1>3, <2>1 DEF WriteStep, HandleQueue, WriteReady, Unwritten, WriteTypes
  <2>2. CASE writeQueue # <<>> /\ (WriteAll \/ WriteSome \/ WriteNothing)
    <3>1. /\ Tail(writeQueue) \in Seq(Seq(Packets)) /\ Head(writeQueue) \in Seq(Packets)
          /\ buffer' = buffer
      BY <1>3, <2>2 DEF WriteStep, HandleQueue, WriteReady, Unwritten, WriteTypes
    <3>2. CASE WriteAll
      <4>1. wire \o Head(writeQueue) \in Seq(Packets)
        BY <3>1, ConcatProperties DEF WriteTypes
      <4> QED BY <3>1, <3>2, <4>1 DEF WriteAll, Pop, WriteTypes
    <3>3. CASE WriteNothing
      BY <3>1, <3>3 DEF WriteNothing, Pop, WriteTypes
    <3>4. CASE WriteSome
      <4>1. PICK n \in 0 .. Len(Head(writeQueue)) - 1 :
              /\ wire' = wire \o SubSeq(Head(writeQueue), 1, n)
              /\ writeQueue' = [writeQueue EXCEPT
                                  ![1] = SubSeq(@, n + 1, Len(@))]
        BY <3>4 DEF WriteSome
      <4>2. 1 \in DOMAIN writeQueue /\ Head(writeQueue) = writeQueue[1]
        BY <2>2 DEF WriteTypes
      <4>3. /\ SubSeq(Head(writeQueue), 1, n) \in Seq(Packets)
            /\ SubSeq(Head(writeQueue), n + 1, Len(Head(writeQueue))) \in Seq(Packets)
        BY <3>1, SubSeqProperties
      <4>4. wire' \in Seq(Packets)
        BY <4>1, <4>3, ConcatProperties DEF WriteTypes
      <4>5. writeQueue' \in Seq(Seq(Packets))
        BY <4>1, <4>2, <4>3, ExceptSeq DEF WriteTypes
      <4>6. blocks' \in Nat /\ blocks' <= MaxBlocks
        BY <3>4, SizeAssumption DEF WriteSome, WriteTypes
      <4> QED BY <3>1, <4>4, <4>5, <4>6 DEF WriteTypes
    <3> QED BY <2>2, <3>2, <3>3, <3>4
  <2> QED BY <1>3, <2>1, <2>2 DEF WriteStep, HandleQueue, WriteReady, More, NoMore
<1>4. CASE DequeuePacket \/ ReadStep \/ PlainStep \/ AcceptAccount \/ RefuseAccount \/ LinkRefusal
             \/ Kick
  <2>1. UNCHANGED writeVars
    BY <1>4 DEF DequeuePacket, ReadStep, PlainStep, AcceptAccount, RefuseAccount, LinkRefusal, Kick,
       ReadTooLate, AskAccount, RefuseClosed, RefuseShort, PacketArrives, QueuePacket, ReadError,
       AuthArrives, AddNewSockets, StartUpdate, Forget, Update, NoCallback, AnswerQuery, LoseClient,
       AddSession, DeleteSession, NothingToWrite, Elsewhere
  <2> QED BY <2>1 DEF writeVars, WriteTypes
<1>5. ASSUME NEW t \in {Reader, World}, Shutdown(t) \/ OnClose(t) PROVE WriteTypes'
  BY <1>5 DEF Shutdown, OnClose, writeVars, WriteTypes
<1>6. ASSUME NEW t \in Others, SendPacket(t) \/ Enqueue(t) PROVE WriteTypes'
  BY <1>6 DEF SendPacket, Enqueue, Elsewhere, writeVars, WriteTypes
<1>7. CASE UNCHANGED vars
  BY <1>7 DEF vars, writeVars, WriteTypes
<1> QED BY <1>1, <1>2, <1>3, <1>4, <1>5, <1>6, <1>7, NextCases

LEMMA ControlKept ==
    ASSUME ControlTypes, Life', [Next]_vars
    PROVE  ControlTypes'
<1> CloserType'
  BY DEF Life
<1>1. CASE DequeuePacket \/ MovePacket \/ Drained
  BY <1>1 DEF ControlTypes, DequeuePacket, MovePacket, Drained, closeVars, sessionVars
<1>2. CASE WriteStep
  BY <1>2 DEF ControlTypes, WriteStep, HandleQueue, WriteReady, Unwritten, sessionVars
<1>3. CASE ReadStep
  BY <1>3 DEF ControlTypes, ReadStep, ReadTooLate, AskAccount, RefuseClosed, RefuseShort,
     DelayedCloseSocket, PacketArrives, QueuePacket, ReadError, AuthArrives, NothingToWrite,
     closeVars, sessionVars
<1>4. CASE PlainStep
  BY <1>4 DEF ControlTypes, PlainStep, AddNewSockets, StartUpdate, Forget, Update, NoCallback,
     AnswerQuery, LoseClient, AddSession, DeleteSession, NothingToWrite, Elsewhere, closeVars,
     sessionVars
<1>5. CASE AcceptAccount \/ RefuseAccount \/ LinkRefusal \/ Kick
  BY <1>5 DEF ControlTypes, AcceptAccount, RefuseAccount, LinkRefusal, Kick, DelayedCloseSocket,
     NothingToWrite, Elsewhere, closeVars, sessionVars
<1>6. ASSUME NEW t \in {Reader, World}, Shutdown(t) \/ OnClose(t) PROVE ControlTypes'
  BY <1>6 DEF ControlTypes, Shutdown, OnClose, sessionVars
<1>7. ASSUME NEW t \in Others, SendPacket(t) \/ Enqueue(t) PROVE ControlTypes'
  BY <1>7 DEF ControlTypes, SendPacket, Enqueue, Elsewhere, closeVars, sessionVars
<1>8. CASE UNCHANGED vars
  BY <1>8 DEF ControlTypes, vars, closeVars, sessionVars
<1> QED BY <1>1, <1>2, <1>3, <1>4, <1>5, <1>6, <1>7, <1>8, NextCases

LEMMA FlagsKept ==
    ASSUME Flags, [Next]_vars
    PROVE  Flags'
<1>1. CASE DequeuePacket \/ MovePacket \/ Drained
  BY <1>1 DEF Flags, DequeuePacket, MovePacket, Drained, writeVars, closeVars, authVars, sessionVars
<1>2. CASE WriteStep
  BY <1>2 DEF Flags, WriteStep, HandleQueue, WriteReady, Unwritten, More, NoMore, WriteAll,
     WriteSome, WriteNothing, Pop, CloseSocket, authVars, sessionVars
<1>3. CASE ReadStep
  BY <1>3 DEF Flags, ReadStep, ReadTooLate, AskAccount, RefuseClosed, RefuseShort, IsOpen,
     DelayedCloseSocket, PacketArrives, QueuePacket, ReadError, AuthArrives, NothingToWrite,
     CloseSocket, writeVars, closeVars, sessionVars
<1>4. CASE PlainStep
  BY <1>4 DEF Flags, PlainStep, AddNewSockets, StartUpdate, Forget, Update, NoCallback,
     AnswerQuery, LoseClient, AddSession, DeleteSession, NothingToWrite, Elsewhere, writeVars,
     closeVars, authVars, sessionVars
<1>5. CASE AcceptAccount \/ RefuseAccount \/ LinkRefusal \/ Kick
  BY <1>5 DEF Flags, AcceptAccount, RefuseAccount, LinkRefusal, Kick, DelayedCloseSocket,
     CloseSocket, NothingToWrite, Elsewhere, writeVars, closeVars, authVars, sessionVars
<1>6. ASSUME NEW t \in {Reader, World}, Shutdown(t) \/ OnClose(t) PROVE Flags'
  BY <1>6 DEF Flags, Shutdown, OnClose, writeVars, authVars, sessionVars
<1>7. ASSUME NEW t \in Others, SendPacket(t) \/ Enqueue(t) PROVE Flags'
  BY <1>7 DEF Flags, SendPacket, Enqueue, Elsewhere, writeVars, closeVars, authVars, sessionVars
<1>8. CASE UNCHANGED vars
  BY <1>8 DEF Flags, vars, writeVars, closeVars, authVars, sessionVars
<1> QED BY <1>1, <1>2, <1>3, <1>4, <1>5, <1>6, <1>7, <1>8, NextCases

\* Nothing takes back what was sent, so a flush owes no more than that.
LEMMA DueKept ==
    ASSUME DueType, QueueTypeOK, QueueTypeOK', [Next]_vars, [QueueNext]_queueVars
    PROVE  DueType'
<1>1. Len(sent) \in Nat /\ Len(sent') \in Nat /\ Len(sent') >= Len(sent)
  <2>1. sent' = sent \/ \E x \in Packets : sent' = Append(sent, x)
    BY DEF QueueNext, queueVars, EnqueueFirst, EnqueueSecond, Dequeue, Leave, FindEmpty, PassDummy,
       TakeTail, TailIsLast, CompareHead, ReturnDummy, LinkDummy
  <2>2. sent \in Seq(Packets)
    BY DEF QueueTypeOK
  <2> QED BY <2>1, <2>2, AppendFacts
<1>2. due' = due \/ due' = Len(sent)
  <2>1. CASE \/ DequeuePacket \/ MovePacket \/ Drained \/ WriteStep \/ ReadStep \/ PlainStep
             \/ AcceptAccount \/ RefuseAccount \/ LinkRefusal \/ Kick
    BY <2>1 DEF DequeuePacket, MovePacket, Drained, WriteStep, HandleQueue, WriteReady, Unwritten,
       ReadStep, ReadTooLate, AskAccount, RefuseClosed, RefuseShort, DelayedCloseSocket,
       PacketArrives, QueuePacket, ReadError, PlainStep, AddNewSockets, StartUpdate, Forget, Update,
       NoCallback, AnswerQuery, LoseClient, AddSession, DeleteSession, AcceptAccount, RefuseAccount,
       LinkRefusal, Kick, closeVars
  <2>2. ASSUME NEW t \in {Reader, World}, Shutdown(t) \/ OnClose(t) PROVE due' = due
    BY <2>2 DEF Shutdown, OnClose
  <2>3. ASSUME NEW t \in Others, SendPacket(t) \/ Enqueue(t) PROVE due' = due
    BY <2>3 DEF SendPacket, Enqueue, closeVars
  <2>4. CASE UNCHANGED vars
    BY <2>4 DEF vars, closeVars
  <2> QED BY <2>1, <2>2, <2>3, <2>4, NextCases
<1> QED BY <1>1, <1>2 DEF DueType

(* ---- Theorems on types, nodes and the session ------------------------- *)

SocketInv ==
    /\ QueueInv /\ Calls /\ Fresh
    /\ LifeInv
    /\ Got /\ WriteTypes /\ ControlTypes /\ Flags /\ DueType

LEMMA SocketStart ==
    ASSUME Init
    PROVE  SocketInv
<1>1. QueueInv /\ Calls /\ Fresh
  BY StartsWithChallenge
<1>2. LifeInv /\ ControlTypes
  BY ThreadFacts DEF Init, LifeInv, Life, SessionSafe, ControlTypes, CloserType
<1>3. Got /\ Flags
  BY DEF Init, Got, Flags
<1>4. DueType
  <2>1. due = 0 /\ Len(sent) = 1
    BY DEF Init
  <2> QED BY <2>1 DEF DueType
<1>5. WriteTypes
  BY SizeAssumption DEF Init, WriteTypes
<1> QED BY <1>1, <1>2, <1>3, <1>4, <1>5 DEF SocketInv

LEMMA SocketStep ==
    ASSUME SocketInv, [Next]_vars
    PROVE  SocketInv'
<1>1. QueueTypeOK /\ [QueueNext]_queueVars
  BY QueueMoves DEF SocketInv, QueueInv
<1>2. QueueInv' /\ QueueTypeOK'
  BY <1>1, QueueStep DEF SocketInv, QueueInv
<1>3. Calls' /\ Fresh' /\ LifeInv'
  BY <1>1, CallsKept, FreshKept, LifeKept DEF SocketInv
<1>4. Got' /\ WriteTypes' /\ Flags' /\ DueType'
  BY <1>1, <1>2, GotKept, WriteKept, FlagsKept, DueKept DEF SocketInv
<1>5. ControlTypes'
  BY <1>3, ControlKept DEF SocketInv, LifeInv
<1> QED BY <1>2, <1>3, <1>4, <1>5 DEF SocketInv

\* The invariant of a connection.
THEOREM SocketInvariant == Spec => []SocketInv
<1>1. Init => SocketInv
  BY SocketStart
<1>2. SocketInv /\ [Next]_vars => SocketInv'
  BY SocketStep
<1> QED BY <1>1, <1>2, PTL DEF Spec

\* The types of a connection.
THEOREM SocketTypeCorrect == Spec => []TypeOK
<1>1. SocketInv => TypeOK
  BY DEF SocketInv, QueueInv, WriteTypes, ControlTypes, CloserType, Flags, DueType, TypeOK
<1> QED BY <1>1, SocketInvariant, PTL

\* A packet that Update took from the queue may be deleted: no thread in SendPacket
\* still writes to its node, whoever sends, closes or deletes the session meanwhile.
THEOREM SentNodesSafe == Spec => []NodesSafe
<1>1. SocketInv => NodesSafe
  BY InvIsSafe DEF SocketInv
<1> QED BY <1>1, SocketInvariant, PTL

\* Packets leave the queue in the order in which they entered it.
THEOREM SocketInOrder == Spec => []InOrder
<1>1. SocketInv => InOrder
  BY DEF SocketInv, QueueInv
<1> QED BY <1>1, SocketInvariant, PTL

\* The network thread gives no packet to a session that is deleted.
THEOREM SessionIsSafe == Spec => []SessionSafe
<1>1. SocketInv => SessionSafe
  BY DEF SocketInv, LifeInv
<1> QED BY <1>1, SocketInvariant, PTL

(* ---- Messages cut from a row of packets ------------------------------- *)

\* The message m holds what o has behind its first i entries, up to entry j.
Lies(o, m, i, j) ==
    /\ i \in Nat /\ j = i + Len(m) /\ j <= Len(o)
    /\ \A l \in 1 .. Len(m) : m[l] = o[i + l]

\* The messages of q hold, one after the other, the entries of o from i to j; c is
\* where they end.
Cuts(o, q, c) ==
    /\ c \in [0 .. Len(q) -> Nat]
    /\ \A k \in 1 .. Len(q) : Lies(o, q[k], c[k - 1], c[k])
    /\ \A k, l \in 0 .. Len(q) : k <= l => c[k] <= c[l]

Laid(o, q, i, j) ==
    \E c \in [0 .. Len(q) -> Nat] : Cuts(o, q, c) /\ c[0] = i /\ c[Len(q)] = j

LEMMA LiesFacts ==
    ASSUME NEW S, NEW o \in Seq(S), NEW m \in Seq(S), NEW i, NEW j, Lies(o, m, i, j)
    PROVE  /\ i \in Nat /\ j \in Nat /\ Len(m) \in Nat /\ Len(o) \in Nat /\ i <= j /\ j <= Len(o)
           /\ j = i + Len(m)
BY DEF Lies

\* What comes behind moves nothing.
LEMMA LiesGrows ==
    ASSUME NEW S, NEW o \in Seq(S), NEW m \in Seq(S), NEW i, NEW j, Lies(o, m, i, j), NEW x \in S
    PROVE  Lies(Append(o, x), m, i, j)
<1> DEFINE p == Append(o, x)
<1>1. /\ p \in Seq(S) /\ Len(p) = Len(o) + 1 /\ Len(o) \in Nat
      /\ \A k \in 1 .. Len(o) : p[k] = o[k]
  BY AppendFacts
<1>2. /\ i \in Nat /\ j \in Nat /\ Len(m) \in Nat /\ j <= Len(o) /\ j = i + Len(m)
  BY LiesFacts
<1>3. ASSUME NEW l \in 1 .. Len(m) PROVE m[l] = p[i + l]
  <2>1. i + l \in 1 .. Len(o)
    BY <1>2
  <2> QED BY <2>1, <1>1 DEF Lies
<1> HIDE DEF p
<1>4. Lies(o, m, i, j)
  OBVIOUS
<1>5. Lies(p, m, i, j)
  BY <1>1, <1>2, <1>3 DEF Lies
<1> QED BY <1>5 DEF p

\* The same of the messages of a row.
LEMMA CutsGrows ==
    ASSUME NEW S, NEW o \in Seq(S), NEW q \in Seq(Seq(S)), NEW c, Cuts(o, q, c), NEW x \in S
    PROVE  Cuts(Append(o, x), q, c)
<1>1. ASSUME NEW k \in 1 .. Len(q) PROVE Lies(Append(o, x), q[k], c[k - 1], c[k])
  <2>1. q[k] \in Seq(S) /\ Lies(o, q[k], c[k - 1], c[k])
    BY DEF Cuts
  <2> QED BY <2>1, LiesGrows
<1> QED BY <1>1 DEF Cuts

LEMMA LaidGrows ==
    ASSUME NEW S, NEW o \in Seq(S), NEW q \in Seq(Seq(S)), NEW i, NEW j, Laid(o, q, i, j), NEW x \in S
    PROVE  Laid(Append(o, x), q, i, j)
BY CutsGrows DEF Laid

\* A message put behind the others.
LEMMA LaidAppend ==
    ASSUME NEW S, NEW o \in Seq(S), NEW q \in Seq(Seq(S)), NEW i, NEW j, Laid(o, q, i, j),
           NEW m \in Seq(S), NEW n, Lies(o, m, j, n)
    PROVE  Laid(o, Append(q, m), i, n)
<1> DEFINE r == Append(q, m)
<1>1. PICK c \in [0 .. Len(q) -> Nat] : Cuts(o, q, c) /\ c[0] = i /\ c[Len(q)] = j
  BY DEF Laid
<1> DEFINE d == [k \in 0 .. Len(r) |-> IF k <= Len(q) THEN c[k] ELSE n]
<1>2. /\ r \in Seq(Seq(S)) /\ Len(r) = Len(q) + 1 /\ Len(q) \in Nat
      /\ \A k \in 1 .. Len(q) : r[k] = q[k]
      /\ r[Len(q) + 1] = m
  BY AppendFacts
<1>3. /\ n \in Nat /\ j \in Nat /\ j <= n
  BY LiesFacts
<1> HIDE DEF r
<1>4. /\ d \in [0 .. Len(r) -> Nat]
      /\ \A k \in 0 .. Len(q) : d[k] = c[k] /\ c[k] \in Nat
      /\ d[Len(r)] = n
  <2>1. ASSUME NEW k \in 0 .. Len(q) PROVE k \in 0 .. Len(r) /\ k <= Len(q) /\ c[k] \in Nat
    <3>1. c[k] \in Nat
      OBVIOUS
    <3> QED BY <3>1, <1>2
  <2>2. Len(r) \in 0 .. Len(r) /\ ~(Len(r) <= Len(q))
    BY <1>2
  <2>3. ASSUME NEW k \in 0 .. Len(r) PROVE (IF k <= Len(q) THEN c[k] ELSE n) \in Nat
    <3>1. CASE k <= Len(q)
      <4>1. k \in 0 .. Len(q)
        BY <3>1, <1>2
      <4> QED BY <4>1, <2>1, <3>1
    <3> QED BY <3>1, <1>3
  <2>4. d \in [0 .. Len(r) -> Nat]
    BY <2>3
  <2>5. \A k \in 0 .. Len(r) : d[k] = IF k <= Len(q) THEN c[k] ELSE n
    OBVIOUS
  <2> HIDE DEF d
  <2> QED BY <2>1, <2>2, <2>4, <2>5
<1> HIDE DEF d
<1>5. ASSUME NEW k \in 1 .. Len(r) PROVE Lies(o, r[k], d[k - 1], d[k])
  <2>1. CASE k \in 1 .. Len(q)
    <3>1. k - 1 \in 0 .. Len(q) /\ k \in 0 .. Len(q)
      BY <2>1, <1>2
    <3>2. Lies(o, q[k], c[k - 1], c[k])
      BY <2>1, <1>1 DEF Cuts
    <3> QED BY <2>1, <3>1, <3>2, <1>2, <1>4
  <2>2. CASE k = Len(r)
    <3>1. k - 1 = Len(q) /\ Len(q) \in 0 .. Len(q)
      BY <2>2, <1>2
    <3>2. d[k - 1] = j /\ d[k] = n /\ r[k] = m
      BY <3>1, <2>2, <1>1, <1>2, <1>4
    <3> QED BY <3>2
  <2> QED BY <2>1, <2>2, <1>2
<1>6. ASSUME NEW k \in 0 .. Len(r), NEW l \in 0 .. Len(r), k <= l PROVE d[k] <= d[l]
  <2>1. \A a, b \in 0 .. Len(q) : a <= b => c[a] <= c[b]
    BY <1>1 DEF Cuts
  <2>2. CASE l \in 0 .. Len(q)
    <3>1. k \in 0 .. Len(q)
      BY <2>2, <1>2, <1>6
    <3> QED BY <3>1, <2>1, <2>2, <1>4, <1>6
  <2>3. CASE l = Len(r) /\ k \in 0 .. Len(q)
    <3>1. c[k] <= c[Len(q)] /\ c[k] \in Nat
      BY <2>1, <2>3, <1>2, <1>4
    <3> QED BY <3>1, <2>3, <1>1, <1>3, <1>4
  <2>4. CASE l = Len(r) /\ k = Len(r)
    BY <2>4, <1>3, <1>4
  <2> QED BY <2>2, <2>3, <2>4, <1>2
<1>7. Cuts(o, r, d) /\ d[0] = i /\ d[Len(r)] = n
  BY <1>1, <1>2, <1>4, <1>5, <1>6 DEF Cuts
<1> QED BY <1>4, <1>7 DEF Laid, r

\* The message at the front, and what is behind it.
LEMMA LaidTail ==
    ASSUME NEW S, NEW o \in Seq(S), NEW q \in Seq(Seq(S)), NEW i, NEW j, Laid(o, q, i, j), q # <<>>
    PROVE  \E n \in Nat : Lies(o, Head(q), i, n) /\ Laid(o, Tail(q), n, j)
<1> DEFINE r == Tail(q)
<1>1. PICK c \in [0 .. Len(q) -> Nat] : Cuts(o, q, c) /\ c[0] = i /\ c[Len(q)] = j
  BY DEF Laid
<1> DEFINE d == [k \in 0 .. Len(r) |-> c[k + 1]]
<1>2. /\ r \in Seq(Seq(S)) /\ Len(r) = Len(q) - 1 /\ Len(q) \in Nat \ {0} /\ Len(r) \in Nat
      /\ \A k \in 1 .. Len(r) : r[k] = q[k + 1]
      /\ Head(q) = q[1]
  OBVIOUS
<1> HIDE DEF r
<1>3. /\ d \in [0 .. Len(r) -> Nat]
      /\ \A k \in 0 .. Len(r) : d[k] = c[k + 1]
  BY <1>1, <1>2
<1> HIDE DEF d
<1>4. ASSUME NEW k \in 1 .. Len(r) PROVE Lies(o, r[k], d[k - 1], d[k])
  <2>1. k + 1 \in 1 .. Len(q) /\ k - 1 \in 0 .. Len(r) /\ k \in 0 .. Len(r) /\ (k - 1) + 1 = k
        /\ (k + 1) - 1 = k
    BY <1>2
  <2>2. Lies(o, q[k + 1], c[(k + 1) - 1], c[k + 1])
    BY <2>1, <1>1 DEF Cuts
  <2>3. r[k] = q[k + 1] /\ d[k - 1] = c[k] /\ d[k] = c[k + 1]
    BY <2>1, <1>2, <1>3
  <2> QED BY <2>1, <2>2, <2>3
<1>5. ASSUME NEW k \in 0 .. Len(r), NEW l \in 0 .. Len(r), k <= l PROVE d[k] <= d[l]
  <2>1. k + 1 \in 0 .. Len(q) /\ l + 1 \in 0 .. Len(q) /\ k + 1 <= l + 1
    BY <1>2, <1>5
  <2>2. c[k + 1] <= c[l + 1]
    BY <2>1, <1>1 DEF Cuts
  <2> QED BY <2>2, <1>3
<1>6. Cuts(o, r, d)
  BY <1>3, <1>4, <1>5 DEF Cuts
<1>7. d[0] = c[1] /\ d[Len(r)] = j /\ c[1] \in Nat
  <2>1. /\ 0 \in 0 .. Len(r) /\ Len(r) \in 0 .. Len(r) /\ 0 + 1 = 1 /\ Len(r) + 1 = Len(q)
        /\ 1 \in 0 .. Len(q)
    BY <1>2
  <2>2. d[0] = c[0 + 1] /\ d[Len(r)] = c[Len(r) + 1]
    BY <2>1, <1>3
  <2> QED BY <2>1, <2>2, <1>1
<1>8. Laid(o, r, c[1], j)
  BY <1>3, <1>6, <1>7 DEF Laid
<1>9. Lies(o, q[1], c[0], c[1])
  <2>1. 1 \in 1 .. Len(q) /\ 1 - 1 = 0
    BY <1>2
  <2>2. Lies(o, q[1], c[1 - 1], c[1])
    BY <2>1, <1>1 DEF Cuts
  <2> QED BY <2>1, <2>2
<1> QED BY <1>1, <1>2, <1>7, <1>8, <1>9 DEF r

\* Part of a message.
LEMMA LiesCut ==
    ASSUME NEW S, NEW o \in Seq(S), NEW m \in Seq(S), NEW i, NEW j, Lies(o, m, i, j),
           NEW n \in 0 .. Len(m)
    PROVE  /\ Lies(o, SubSeq(m, 1, n), i, i + n)
           /\ Lies(o, SubSeq(m, n + 1, Len(m)), i + n, j)
<1>1. /\ i \in Nat /\ j \in Nat /\ Len(m) \in Nat /\ j <= Len(o) /\ j = i + Len(m) /\ n \in Nat
      /\ Len(o) \in Nat /\ n <= Len(m)
      /\ \A l \in 1 .. Len(m) : m[l] = o[i + l]
  BY LiesFacts DEF Lies
<1>2. /\ Len(SubSeq(m, 1, n)) = n
      /\ \A l \in 1 .. n : SubSeq(m, 1, n)[l] = m[l]
  BY <1>1
<1>3. /\ Len(SubSeq(m, n + 1, Len(m))) = Len(m) - n
      /\ \A l \in 1 .. Len(m) - n : SubSeq(m, n + 1, Len(m))[l] = m[n + l]
  BY <1>1
<1>4. Lies(o, SubSeq(m, 1, n), i, i + n)
  BY <1>1, <1>2 DEF Lies
<1>5. ASSUME NEW l \in 1 .. Len(m) - n PROVE m[n + l] = o[(i + n) + l]
  <2>1. n + l \in 1 .. Len(m) /\ i + (n + l) = (i + n) + l
    BY <1>1
  <2> QED BY <2>1, <1>1
<1> DEFINE t == SubSeq(m, n + 1, Len(m))
<1>6. /\ Len(t) = Len(m) - n /\ i + n \in Nat /\ j = (i + n) + Len(t)
      /\ \A l \in 1 .. Len(t) : t[l] = o[(i + n) + l]
  <2>1. Len(t) = Len(m) - n /\ \A l \in 1 .. Len(m) - n : t[l] = m[n + l]
    BY <1>3
  <2> HIDE DEF t
  <2>2. i + n \in Nat /\ j = (i + n) + Len(t)
    BY <2>1, <1>1
  <2>3. \A l \in 1 .. Len(t) : t[l] = o[(i + n) + l]
    BY <2>1, <1>5
  <2> QED BY <2>1, <2>2, <2>3
<1> HIDE DEF t
<1>7. Lies(o, t, i + n, j)
  BY <1>1, <1>6 DEF Lies
<1> QED BY <1>4, <1>7 DEF t

\* The message at the front loses its first n packets.
LEMMA LaidCut ==
    ASSUME NEW S, NEW o \in Seq(S), NEW q \in Seq(Seq(S)), NEW i, NEW j, Laid(o, q, i, j), q # <<>>,
           NEW n \in 0 .. Len(Head(q)),
           NEW r \in Seq(Seq(S)), r = [q EXCEPT ![1] = SubSeq(@, n + 1, Len(@))]
    PROVE  Laid(o, r, i + n, j)
<1>1. PICK c \in [0 .. Len(q) -> Nat] : Cuts(o, q, c) /\ c[0] = i /\ c[Len(q)] = j
  BY DEF Laid
<1> DEFINE d == [c EXCEPT ![0] = i + n]
<1>2. /\ Len(r) = Len(q) /\ Len(q) \in Nat \ {0} /\ 1 \in 1 .. Len(q)
      /\ \A k \in 1 .. Len(q) : k # 1 => r[k] = q[k]
      /\ r[1] = SubSeq(q[1], n + 1, Len(q[1]))
      /\ Head(q) = q[1] /\ q[1] \in Seq(S) /\ n \in 0 .. Len(q[1]) /\ n \in Nat
  OBVIOUS
<1>3. Lies(o, q[1], i, c[1])
  <2>1. Lies(o, q[1], c[1 - 1], c[1])
    BY <1>1, <1>2 DEF Cuts
  <2> QED BY <2>1, <1>1
<1>4. Lies(o, r[1], i + n, c[1]) /\ i \in Nat /\ i + n <= c[1] /\ c[1] \in Nat
  <2>1. Lies(o, SubSeq(q[1], n + 1, Len(q[1])), i + n, c[1])
    BY <1>2, <1>3, LiesCut
  <2>2. i \in Nat /\ c[1] \in Nat /\ c[1] = i + Len(q[1]) /\ Len(q[1]) \in Nat
    BY <1>2, <1>3, LiesFacts
  <2> QED BY <2>1, <2>2, <1>2
<1>5. /\ d \in [0 .. Len(r) -> Nat] /\ d[0] = i + n
      /\ \A k \in 1 .. Len(q) : d[k] = c[k]
  BY <1>1, <1>2, <1>4
<1> HIDE DEF d
<1>6. ASSUME NEW k \in 1 .. Len(r) PROVE Lies(o, r[k], d[k - 1], d[k])
  <2>1. CASE k = 1
    <3>1. d[k - 1] = i + n /\ d[k] = c[1] /\ r[k] = r[1]
      BY <2>1, <1>2, <1>5
    <3> QED BY <3>1, <1>4
  <2>2. CASE k # 1
    <3>1. k - 1 \in 1 .. Len(q) /\ k \in 1 .. Len(q)
      BY <2>2, <1>2
    <3>2. Lies(o, q[k], c[k - 1], c[k])
      BY <3>1, <1>1 DEF Cuts
    <3>3. r[k] = q[k] /\ d[k - 1] = c[k - 1] /\ d[k] = c[k]
      BY <2>2, <3>1, <1>2, <1>5
    <3> QED BY <3>2, <3>3
  <2> QED BY <2>1, <2>2
<1>7. ASSUME NEW k \in 0 .. Len(r), NEW l \in 0 .. Len(r), k <= l PROVE d[k] <= d[l]
  <2>1. \A a, b \in 0 .. Len(q) : a <= b => c[a] <= c[b]
    BY <1>1 DEF Cuts
  <2>2. CASE k # 0
    <3>1. k \in 1 .. Len(q) /\ l \in 1 .. Len(q) /\ k \in 0 .. Len(q) /\ l \in 0 .. Len(q)
      BY <2>2, <1>2, <1>7
    <3> QED BY <3>1, <2>1, <1>5, <1>7
  <2>3. CASE k = 0 /\ l # 0
    <3>1. l \in 1 .. Len(q) /\ l \in 0 .. Len(q) /\ 1 \in 0 .. Len(q) /\ 1 <= l
      BY <2>3, <1>2
    <3>2. c[1] <= c[l] /\ c[l] \in Nat
      BY <3>1, <2>1, <1>1
    <3> QED BY <2>3, <3>1, <3>2, <1>4, <1>5
  <2>4. CASE k = 0 /\ l = 0
    BY <2>4, <1>4, <1>5, <1>2
  <2> QED BY <2>2, <2>3, <2>4
<1>8. Cuts(o, r, d) /\ d[0] = i + n /\ d[Len(r)] = j
  BY <1>1, <1>2, <1>5, <1>6, <1>7 DEF Cuts
<1> QED BY <1>5, <1>8 DEF Laid

\* Nothing lies between i and i.
LEMMA LaidEmpty ==
    ASSUME NEW o, NEW i \in Nat
    PROVE  Laid(o, <<>>, i, i)
<1> DEFINE c == [k \in 0 .. 0 |-> i]
<1>1. Len(<<>>) = 0 /\ c \in [0 .. 0 -> Nat] /\ c[0] = i
  OBVIOUS
<1> HIDE DEF c
<1>2. Cuts(o, <<>>, c)
  BY <1>1 DEF Cuts
<1> QED BY <1>1, <1>2 DEF Laid

LEMMA EmptyLaid ==
    ASSUME NEW o, NEW i, NEW j, Laid(o, <<>>, i, j)
    PROVE  i = j
<1>1. Len(<<>>) = 0
  OBVIOUS
<1> QED BY <1>1 DEF Laid

\* A last message that is not empty ends behind the first packet.
LEMMA LaidLast ==
    ASSUME NEW S, NEW o \in Seq(S), NEW q \in Seq(Seq(S)), NEW i, NEW j, Laid(o, q, i, j), q # <<>>,
           q[Len(q)] # <<>>
    PROVE  i \in Nat /\ i < Len(o)
<1>1. PICK c \in [0 .. Len(q) -> Nat] : Cuts(o, q, c) /\ c[0] = i /\ c[Len(q)] = j
  BY DEF Laid
<1> DEFINE L == Len(q)
<1>2. L \in Nat \ {0} /\ L \in 1 .. L /\ L - 1 \in 0 .. L /\ 0 \in 0 .. L /\ 0 <= L - 1
      /\ q[L] \in Seq(S)
  OBVIOUS
<1>3. Lies(o, q[L], c[L - 1], c[L]) /\ c[0] <= c[L - 1]
  BY <1>1, <1>2 DEF Cuts
<1>4. c[L - 1] + Len(q[L]) <= Len(o) /\ Len(q[L]) \in Nat /\ c[L - 1] \in Nat /\ Len(o) \in Nat
  BY <1>2, <1>3, LiesFacts
<1>5. Len(q[L]) # 0
  BY <1>2
<1> QED BY <1>1, <1>2, <1>3, <1>4, <1>5

\* A message longer by a packet, an empty one, one of one packet, and two together.
LEMMA LiesAppend ==
    ASSUME NEW S, NEW o \in Seq(S), NEW m \in Seq(S), NEW i, Lies(o, m, i, Len(o) - 1), o # <<>>
    PROVE  Lies(o, Append(m, o[Len(o)]), i, Len(o))
<1> DEFINE x == o[Len(o)]
           p == Append(m, x)
<1>1. Len(o) \in Nat /\ x \in S
  OBVIOUS
<1>2. /\ p \in Seq(S) /\ Len(p) = Len(m) + 1 /\ Len(m) \in Nat
      /\ \A k \in 1 .. Len(m) : p[k] = m[k]
      /\ p[Len(m) + 1] = x
  BY <1>1, AppendFacts
<1> HIDE DEF p
<1>3. i \in Nat /\ Len(o) - 1 = i + Len(m)
  BY LiesFacts
<1>4. Len(o) = i + Len(p)
  BY <1>1, <1>2, <1>3
<1>5. ASSUME NEW l \in 1 .. Len(p) PROVE p[l] = o[i + l]
  <2>1. CASE l \in 1 .. Len(m)
    BY <2>1, <1>2 DEF Lies
  <2>2. CASE l = Len(m) + 1
    <3>1. i + l = Len(o)
      BY <2>2, <1>1, <1>2, <1>3
    <3> QED BY <3>1, <2>2, <1>2
  <2> QED BY <2>1, <2>2, <1>2
<1>6. Lies(o, p, i, Len(o))
  BY <1>1, <1>3, <1>4, <1>5 DEF Lies
<1> QED BY <1>6 DEF p

LEMMA LiesNone ==
    ASSUME NEW o, NEW i \in Nat, i <= Len(o)
    PROVE  Lies(o, <<>>, i, i)
<1>1. Len(<<>>) = 0
  OBVIOUS
<1> QED BY <1>1 DEF Lies

LEMMA LiesOne ==
    ASSUME NEW S, NEW o \in Seq(S), o # <<>>
    PROVE  Lies(o, <<o[Len(o)]>>, Len(o) - 1, Len(o))
<1>1. Len(o) \in Nat \ {0} /\ Len(<<o[Len(o)]>>) = 1 /\ <<o[Len(o)]>>[1] = o[Len(o)]
  OBVIOUS
<1> DEFINE p == <<o[Len(o)]>>
<1> HIDE DEF p
<1>2. Len(p) = 1 /\ p[1] = o[Len(o)]
  BY <1>1 DEF p
<1>3. Lies(o, p, Len(o) - 1, Len(o))
  BY <1>1, <1>2 DEF Lies
<1> QED BY <1>3 DEF p

LEMMA LiesConcat ==
    ASSUME NEW S, NEW o \in Seq(S), NEW m \in Seq(S), NEW p \in Seq(S), NEW i, NEW j, NEW n,
           Lies(o, m, i, j), Lies(o, p, j, n)
    PROVE  Lies(o, m \o p, i, n) /\ Len(m \o p) = Len(m) + Len(p)
<1> DEFINE r == m \o p
<1>1. /\ Len(r) = Len(m) + Len(p) /\ Len(m) \in Nat /\ Len(p) \in Nat
      /\ \A l \in 1 .. Len(m) : r[l] = m[l]
      /\ \A l \in 1 .. Len(p) : r[Len(m) + l] = p[l]
  OBVIOUS
<1> HIDE DEF r
<1>2. /\ i \in Nat /\ j \in Nat /\ j = i + Len(m) /\ n = j + Len(p) /\ n <= Len(o)
  BY LiesFacts
<1>3. ASSUME NEW l \in 1 .. Len(r) PROVE r[l] = o[i + l]
  <2>1. CASE l \in 1 .. Len(m)
    BY <2>1, <1>1 DEF Lies
  <2>2. CASE l - Len(m) \in 1 .. Len(p)
    <3>1. r[Len(m) + (l - Len(m))] = o[j + (l - Len(m))]
      BY <2>2, <1>1 DEF Lies
    <3>2. Len(m) + (l - Len(m)) = l /\ j + (l - Len(m)) = i + l
      BY <1>1, <1>2
    <3> QED BY <3>1, <3>2
  <2> QED BY <2>1, <2>2, <1>1
<1>4. Lies(o, r, i, n)
  BY <1>1, <1>2, <1>3 DEF Lies
<1> QED BY <1>1, <1>4 DEF r

(* ---- What is on its way ----------------------------------------------- *)

\* Of the packets returned by Dequeue, those the timer has packed.
Taken == Len(out) - (IF dequeue = "got" THEN 1 ELSE 0)

\* The wire has the first packets; while it can be written, the messages that wait
\* and the buffer have the others that were packed.
Queued(j) == Laid(out, writeQueue, Len(wire), j) /\ Lies(out, buffer, j, Taken)
LastFull == writeQueue # <<>> => writeQueue[Len(writeQueue)] # <<>>
Account ==
    /\ Lies(out, wire, 0, Len(wire))
    /\ npc # "drain" => buffer = <<>>
    /\ LastFull
    /\ Writable => \E j \in Nat : Queued(j)

\* A step that neither takes nor packs nor writes a packet.
Aside ==
    /\ UNCHANGED writeVars /\ UNCHANGED <<out, dequeue>>
    /\ npc = "drain" => npc' = "drain"
    /\ npc' \in {"update", "write"} => npc \in {"update", "write"}
    /\ Writable' => Writable

LEMMA StepKinds ==
    ASSUME [Next]_vars
    PROVE  DequeuePacket \/ MovePacket \/ Drained \/ WriteStep \/ Aside
<1>1. CASE ReadStep /\ ~RefuseClosed
  BY <1>1 DEF Aside, Writable, ReadStep, ReadTooLate, AskAccount, RefuseShort, PacketArrives,
     QueuePacket, ReadError, AuthArrives, AtEvent, NothingToWrite, queueVars, closeVars,
     DelayedCloseSocket
<1>2. CASE RefuseClosed \/ RefuseAccount
  <2>1. UNCHANGED writeVars /\ UNCHANGED <<out, dequeue>>
    BY <1>2 DEF RefuseClosed, RefuseAccount, AuthArrives, NothingToWrite, SendRefusal, EnqueueFirst,
       queueVars
  <2>2. UNCHANGED <<client, shut>> /\ npc # "drain" /\ npc' \in {"refuse", "link", "idle"}
    BY <1>2 DEF RefuseClosed, RefuseAccount, AuthArrives, AtEvent, In, closeVars
  <2> QED BY <2>1, <2>2 DEF Aside, Writable
<1>3. CASE PlainStep
  BY <1>3 DEF Aside, Writable, PlainStep, AddNewSockets, StartUpdate, Forget, Update, NoCallback,
     AnswerQuery, LoseClient, AddSession, DeleteSession, In, AtEvent, Elsewhere, NothingToWrite,
     queueVars, closeVars, authVars
<1>4. CASE AcceptAccount \/ Kick
  BY <1>4 DEF Aside, Writable, AcceptAccount, Kick, In, Elsewhere, NothingToWrite, queueVars,
     closeVars, authVars
<1>5. CASE LinkRefusal
  <2>1. UNCHANGED writeVars /\ UNCHANGED <<out, dequeue>>
    BY <1>5 DEF LinkRefusal, EnqueueSecond, NothingToWrite
  <2>2. UNCHANGED <<client, shut>> /\ npc # "drain" /\ npc' = "idle"
    BY <1>5 DEF LinkRefusal, DelayedCloseSocket, closeVars
  <2> QED BY <2>1, <2>2 DEF Aside, Writable
<1>6. ASSUME NEW t \in {Reader, World}, Shutdown(t) \/ OnClose(t) PROVE Aside
  BY <1>6 DEF Aside, Writable, Shutdown, OnClose, queueVars, authVars
<1>7. ASSUME NEW t \in Others, SendPacket(t) \/ Enqueue(t) PROVE Aside
  <2>1. UNCHANGED writeVars /\ UNCHANGED <<out, dequeue>>
    BY <1>7 DEF SendPacket, Enqueue, EnqueueFirst, EnqueueSecond, Elsewhere, queueVars
  <2>2. UNCHANGED <<client, shut, npc>>
    BY <1>7 DEF SendPacket, Enqueue, Elsewhere, closeVars, authVars
  <2> QED BY <2>1, <2>2 DEF Aside, Writable
<1>8. CASE UNCHANGED vars
  BY <1>8 DEF Aside, Writable, vars, queueVars, closeVars, authVars
<1> QED BY <1>1, <1>2, <1>3, <1>4, <1>5, <1>6, <1>7, <1>8, NextCases

\* Nothing that the account speaks of changes.
LEMMA AccountSame ==
    ASSUME Account, UNCHANGED <<out, wire, writeQueue, buffer>>,
           dequeue' = "got" <=> dequeue = "got", npc = "drain" => npc' = "drain",
           Writable' => Writable
    PROVE  Account'
<1>1. Taken' = Taken
  BY DEF Taken
<1>2. \A j \in Nat : Queued(j) => Queued(j)'
  BY <1>1 DEF Queued
<1>3. Lies(out, wire, 0, Len(wire))' /\ LastFull' /\ (npc' # "drain" => buffer' = <<>>)
  BY DEF Account, LastFull
<1> QED BY <1>2, <1>3 DEF Account

\* Dequeue returns a packet.
LEMMA AccountTake ==
    ASSUME Account, WriteTypes, out \in Seq(Packets), NEW x \in Packets, out' = Append(out, x),
           dequeue # "got", dequeue' = "got",
           UNCHANGED <<wire, writeQueue, buffer, npc, client, shut>>
    PROVE  Account'
<1>1. Len(out') = Len(out) + 1 /\ Len(out) \in Nat
  BY AppendFacts
<1>2. Taken' = Taken
  BY <1>1 DEF Taken
<1>3. wire \in Seq(Packets) /\ writeQueue \in Seq(Seq(Packets)) /\ buffer \in Seq(Packets)
  BY DEF WriteTypes
<1>4. Lies(out', wire, 0, Len(wire))
  BY <1>3, LiesGrows DEF Account
<1>5. ASSUME NEW j \in Nat, Queued(j) PROVE Queued(j)'
  <2>1. Laid(out', writeQueue, Len(wire), j)
    BY <1>3, <1>5, LaidGrows DEF Queued
  <2>2. Lies(out', buffer, j, Taken)
    BY <1>3, <1>5, LiesGrows DEF Queued
  <2> QED BY <1>2, <2>1, <2>2 DEF Queued
<1>6. LastFull' /\ (npc' # "drain" => buffer' = <<>>) /\ (Writable' => Writable)
  BY DEF Account, LastFull, Writable
<1>7. Lies(out, wire, 0, Len(wire))'
  BY <1>4
<1> QED BY <1>5, <1>6, <1>7 DEF Account

\* A packet is put into the buffer, or the buffer into the row of messages.
LEMMA AccountPack ==
    ASSUME Account, WriteTypes, QueueTypeOK, Got, MovePacket
    PROVE  Account'
<1> DEFINE x == Last(out)
<1>1. /\ out \in Seq(Packets) /\ out # <<>> /\ x = out[Len(out)] /\ Len(out) \in Nat \ {0}
      /\ x \in Packets
  BY DEF QueueTypeOK, Got, MovePacket, Last
<1>2. /\ npc = "drain" /\ UNCHANGED <<out, wire, npc, client, shut>> /\ Pack(x)
      /\ dequeue = "got" /\ dequeue' = "begin"
  BY DEF MovePacket, In, Leave, closeVars, authVars
<1> HIDE DEF x
<1>3. Taken = Len(out) - 1 /\ Taken' = Len(out) /\ Taken \in Nat
  BY <1>1, <1>2 DEF Taken
<1>4. wire \in Seq(Packets) /\ writeQueue \in Seq(Seq(Packets)) /\ buffer \in Seq(Packets)
  BY DEF WriteTypes
<1>5. Lies(out, <<x>>, Taken, Len(out)) /\ Lies(out, <<>>, Len(out), Len(out)) /\ <<x>> # <<>>
  BY <1>1, <1>3, LiesOne, LiesNone
<1>6. /\ Append(writeQueue, buffer) \in Seq(Seq(Packets)) /\ <<x>> \in Seq(Packets)
      /\ Len(Append(writeQueue, buffer)) = Len(writeQueue) + 1
      /\ Append(writeQueue, buffer)[Len(writeQueue) + 1] = buffer
      /\ Len(writeQueue) \in Nat
  BY <1>1, <1>4, AppendFacts
<1>7. Lies(out, wire, 0, Len(wire))' /\ (npc' # "drain" => buffer' = <<>>) /\ (Writable' => Writable)
  BY <1>2 DEF Account, Writable
<1>8. CASE buffer' = Append(buffer, x) /\ UNCHANGED writeQueue
  <2>1. LastFull'
    BY <1>8 DEF Account, LastFull
  <2>2. ASSUME NEW j \in Nat, Queued(j) PROVE Queued(j)'
    <3>1. Laid(out, writeQueue, Len(wire), j) /\ Lies(out, buffer, j, Len(out) - 1)
      BY <2>2, <1>3 DEF Queued
    <3>2. Lies(out, Append(buffer, x), j, Len(out))
      BY <3>1, <1>1, <1>4, LiesAppend
    <3> QED BY <3>1, <3>2, <1>2, <1>3, <1>8 DEF Queued
  <2> QED BY <1>7, <2>1, <2>2 DEF Account
<1>9. ASSUME NEW j \in Nat, Queued(j)
      PROVE  Laid(out, Append(writeQueue, buffer), Len(wire), Taken)
  BY <1>9, <1>1, <1>4, LaidAppend DEF Queued
<1>10. CASE buffer' = <<>> /\ writeQueue' = writeQueue \o <<buffer, <<x>>>>
  <2>1. writeQueue' = Append(Append(writeQueue, buffer), <<x>>)
    <3>1. writeQueue \o <<buffer, <<x>>>> = Append(Append(writeQueue, buffer), <<x>>)
      BY <1>4, <1>6
    <3> QED BY <3>1, <1>10
  <2>2. /\ writeQueue' # <<>>
        /\ writeQueue'[Len(writeQueue')] = <<x>>
    BY <2>1, <1>6, AppendFacts
  <2>3. LastFull'
    BY <2>2, <1>5 DEF LastFull
  <2>4. ASSUME NEW j \in Nat, Queued(j) PROVE Queued(Len(out))'
    <3>1. Laid(out, writeQueue', Len(wire), Len(out))
      BY <2>1, <2>4, <1>1, <1>5, <1>6, <1>9, LaidAppend
    <3> QED BY <3>1, <1>2, <1>3, <1>5, <1>10 DEF Queued
  <2>5. Len(out) \in Nat /\ Len(out)' = Len(out)
    BY <1>1, <1>2
  <2>6. Writable' => \E j \in Nat : Queued(j)'
    BY <1>2, <1>7, <2>4, <2>5 DEF Account
  <2> QED BY <1>7, <2>3, <2>6 DEF Account
<1>11. CASE buffer' = <<x>> /\ writeQueue' = Append(writeQueue, buffer) /\ buffer # <<>>
  <2>1. LastFull'
    BY <1>6, <1>11 DEF LastFull
  <2>2. PICK n \in Nat : n = Taken
    BY <1>3
  <2>3. ASSUME NEW j \in Nat, Queued(j) PROVE Queued(n)'
    <3>1. Laid(out, writeQueue', Len(wire), n) /\ Lies(out, buffer', n, Len(out))
      BY <2>2, <2>3, <1>5, <1>9, <1>11
    <3> QED BY <3>1, <1>2, <1>3 DEF Queued
  <2>4. Writable' => \E j \in Nat : Queued(j)'
    BY <1>7, <2>3 DEF Account
  <2> QED BY <1>7, <2>1, <2>4 DEF Account
<1>12. ~Fits(x) /\ x \notin Large => buffer # <<>>
  BY <1>4, SizeAssumption DEF Fits
<1> QED BY <1>2, <1>8, <1>10, <1>11, <1>12 DEF Pack

\* The rest of the buffer becomes a message.
LEMMA AccountDrained ==
    ASSUME Account, WriteTypes, QueueTypeOK, Drained
    PROVE  Account'
<1>1. /\ UNCHANGED <<out, wire, client, shut>> /\ dequeue = "empty" /\ dequeue' = "begin"
      /\ writeQueue' = IF buffer = <<>> THEN writeQueue ELSE Append(writeQueue, buffer)
      /\ buffer' = <<>>
  BY DEF Drained, Leave, closeVars, authVars
<1>2. /\ wire \in Seq(Packets) /\ writeQueue \in Seq(Seq(Packets)) /\ buffer \in Seq(Packets)
      /\ out \in Seq(Packets) /\ Len(out) \in Nat
  BY DEF WriteTypes, QueueTypeOK
<1>3. Taken = Len(out) /\ Taken' = Len(out)
  BY <1>1, <1>2 DEF Taken
<1>4. Lies(out, wire, 0, Len(wire))' /\ (Writable' => Writable)
  BY <1>1 DEF Account, Writable
<1>5. LastFull'
  <2>1. CASE buffer = <<>>
    BY <2>1, <1>1 DEF Account, LastFull
  <2>2. CASE buffer # <<>>
    BY <2>2, <1>1, <1>2, AppendFacts DEF LastFull
  <2> QED BY <2>1, <2>2
<1>6. ASSUME NEW j \in Nat, Queued(j) PROVE Laid(out, writeQueue', Len(wire), Len(out))
  <2>1. Laid(out, writeQueue, Len(wire), j) /\ Lies(out, buffer, j, Len(out))
    BY <1>3, <1>6 DEF Queued
  <2>2. CASE buffer = <<>>
    <3>1. j = Len(out)
      <4>1. Len(<<>>) = 0
        OBVIOUS
      <4> QED BY <2>1, <2>2, <4>1 DEF Lies
    <3> QED BY <2>1, <2>2, <3>1, <1>1
  <2>3. CASE buffer # <<>>
    <3>1. Laid(out, Append(writeQueue, buffer), Len(wire), Len(out))
      BY <2>1, <1>2, LaidAppend
    <3> QED BY <3>1, <2>3, <1>1
  <2> QED BY <2>2, <2>3
<1>7. Lies(out, <<>>, Len(out), Len(out))
  BY <1>2, LiesNone
<1>8. ASSUME NEW j \in Nat, Queued(j) PROVE Queued(Len(out))'
  BY <1>8, <1>1, <1>3, <1>6, <1>7 DEF Queued
<1>9. Writable' => \E j \in Nat : Queued(j)'
  <2>1. Len(out)' = Len(out)
    BY <1>1
  <2> QED BY <2>1, <1>2, <1>4, <1>8 DEF Account
<1> QED BY <1>1, <1>4, <1>5, <1>9 DEF Account

\* Around a write the buffer is empty, and nothing is taken from the queue.
LEMMA WriteFacts ==
    ASSUME Account, Calls, WriteStep
    PROVE  /\ buffer = <<>> /\ buffer' = <<>> /\ dequeue = "begin" /\ dequeue' = "begin"
           /\ UNCHANGED <<queueVars, client, shut, closing, due, session, query, said, pos, holding>>
           /\ npc \in {"write", "idle"} /\ npc' \in {npc, "callbacks"}
           /\ npc = "idle" => npc' = "idle"
           /\ closer[Reader] = "no"
           /\ \/ UNCHANGED <<writeQueue, wire, closed, closer>>
              \/ writeQueue # <<>> /\ (WriteAll \/ WriteSome \/ WriteNothing)
<1>1. npc \in {"write", "idle"} /\ npc' \in {npc, "callbacks"} /\ (npc = "idle" => npc' = "idle")
      /\ closer[Reader] = "no" /\ Unwritten
  BY DEF WriteStep, HandleQueue, WriteReady, In, AtEvent
<1>2. UNCHANGED <<buffer, queueVars, client, shut, closing, due, session, query, said, pos, holding>>
  BY <1>1 DEF Unwritten, authVars, sessionVars, sendVars
<1>3. buffer = <<>> /\ dequeue = "begin" /\ dequeue' = dequeue
  BY <1>1, <1>2 DEF Account, Calls, queueVars
<1>4. \/ UNCHANGED <<writeQueue, wire, closed, closer>>
      \/ writeQueue # <<>> /\ (WriteAll \/ WriteSome \/ WriteNothing)
  BY DEF WriteStep, HandleQueue, WriteReady, More, NoMore
<1> QED BY <1>1, <1>2, <1>3, <1>4

LEMMA LastOfTail ==
    ASSUME NEW S, NEW q \in Seq(S), q # <<>>, Tail(q) # <<>>
    PROVE  Tail(q)[Len(Tail(q))] = q[Len(q)]
<1> DEFINE r == Tail(q)
<1>1. /\ Len(q) \in Nat \ {0} /\ Len(r) = Len(q) - 1
      /\ \A k \in 1 .. Len(q) - 1 : r[k] = q[k + 1]
  OBVIOUS
<1>2. r \in Seq(S) /\ r # <<>>
  OBVIOUS
<1> HIDE DEF r
<1>3. Len(r) # 0
  BY <1>2
<1>4. Len(r) \in 1 .. Len(q) - 1 /\ Len(r) + 1 = Len(q)
  BY <1>1, <1>3
<1>5. r[Len(r)] = q[Len(q)]
  BY <1>1, <1>4
<1> QED BY <1>5 DEF r

LEMMA AccountWrite ==
    ASSUME Account, WriteTypes, QueueTypeOK, Calls, WriteStep
    PROVE  Account'
<1>1. /\ buffer = <<>> /\ buffer' = <<>> /\ dequeue = "begin" /\ dequeue' = "begin"
      /\ UNCHANGED <<queueVars, client, shut>>
      /\ npc \in {"write", "idle"} /\ npc' \in {npc, "callbacks"}
      /\ \/ UNCHANGED <<writeQueue, wire, closed, closer>>
         \/ writeQueue # <<>> /\ (WriteAll \/ WriteSome \/ WriteNothing)
  BY WriteFacts
<1>2. out' = out /\ Taken' = Taken /\ (Writable' <=> Writable)
  BY <1>1 DEF Taken, queueVars, Writable
<1>3. CASE UNCHANGED <<writeQueue, wire>>
  BY <1>1, <1>2, <1>3, AccountSame
<1>4. /\ wire \in Seq(Packets) /\ writeQueue \in Seq(Seq(Packets)) /\ out \in Seq(Packets)
      /\ Lies(out, wire, 0, Len(wire)) /\ LastFull
  BY DEF WriteTypes, QueueTypeOK, Account
<1> SUFFICES ASSUME writeQueue # <<>>, WriteAll \/ WriteSome \/ WriteNothing PROVE Account'
  BY <1>1, <1>3
<1> DEFINE m == Head(writeQueue)
<1>5. m \in Seq(Packets) /\ m = writeQueue[1] /\ Len(m) \in Nat /\ Len(writeQueue) \in Nat \ {0}
      /\ Tail(writeQueue) \in Seq(Seq(Packets))
  BY <1>4
<1> HIDE DEF m
<1>6. ASSUME writeQueue' = Tail(writeQueue) PROVE LastFull'
  <2>1. Tail(writeQueue) # <<>> =>
           Tail(writeQueue)[Len(Tail(writeQueue))] = writeQueue[Len(writeQueue)]
    BY <1>4, LastOfTail
  <2> QED BY <1>4, <1>6, <2>1 DEF LastFull
<1>7. CASE WriteAll
  <2>1. Writable /\ wire' = wire \o m /\ writeQueue' = Tail(writeQueue)
    BY <1>7 DEF WriteAll, Pop, m
  <2>2. PICK j \in Nat : Queued(j)
    BY <2>1 DEF Account
  <2>3. PICK n \in Nat : Lies(out, m, Len(wire), n) /\ Laid(out, Tail(writeQueue), n, j)
    BY <2>2, <1>4, LaidTail DEF Queued, m
  <2>4. Lies(out, wire', 0, n) /\ Len(wire') = Len(wire) + Len(m)
    BY <2>1, <2>3, <1>4, <1>5, LiesConcat
  <2>5. n = Len(wire')
    BY <2>3, <2>4, <1>5, <1>4, LiesFacts
  <2>6. Queued(j)'
    BY <2>1, <2>2, <2>3, <2>5, <1>1, <1>2 DEF Queued
  <2> QED BY <2>1, <2>4, <2>5, <2>6, <1>1, <1>2, <1>6 DEF Account
<1>8. CASE WriteSome
  <2>1. PICK n \in 0 .. Len(m) - 1 :
          /\ Writable /\ wire' = wire \o SubSeq(m, 1, n)
          /\ writeQueue' = [writeQueue EXCEPT ![1] = SubSeq(@, n + 1, Len(@))]
    BY <1>8 DEF WriteSome, m
  <2>2. /\ n \in 0 .. Len(m) /\ n \in Nat /\ n + 1 \in Nat /\ Len(m) \in Nat /\ n < Len(m)
        /\ SubSeq(m, 1, n) \in Seq(Packets) /\ SubSeq(m, n + 1, Len(m)) \in Seq(Packets)
        /\ Len(SubSeq(m, 1, n)) = n /\ Len(SubSeq(m, n + 1, Len(m))) = Len(m) - n
    BY <1>5, SubSeqProperties
  <2>3. 1 \in DOMAIN writeQueue /\ writeQueue' \in Seq(Seq(Packets))
    <3>1. 1 \in DOMAIN writeQueue
      BY <1>4, <1>5
    <3> QED BY <3>1, <2>1, <2>2, <1>4, <1>5, ExceptSeq
  <2>4. PICK j \in Nat : Queued(j)
    BY <2>1 DEF Account
  <2>5. Laid(out, writeQueue', Len(wire) + n, j)
    <3>1. Laid(out, writeQueue, Len(wire), j) /\ n \in 0 .. Len(Head(writeQueue))
      BY <2>2, <2>4 DEF Queued, m
    <3> QED BY <3>1, <2>1, <2>3, <1>4, LaidCut
  <2>6. PICK e \in Nat : Lies(out, m, Len(wire), e)
    BY <2>4, <1>4, LaidTail DEF Queued, m
  <2>7. Lies(out, SubSeq(m, 1, n), Len(wire), Len(wire) + n)
    BY <2>2, <2>6, <1>4, <1>5, LiesCut
  <2> DEFINE p == SubSeq(m, 1, n)
             r == SubSeq(m, n + 1, Len(m))
  <2>8. /\ p \in Seq(Packets) /\ Len(p) = n /\ r \in Seq(Packets) /\ Len(r) = Len(m) - n
         /\ Lies(out, p, Len(wire), Len(wire) + n) /\ wire' = wire \o p
         /\ writeQueue' = [writeQueue EXCEPT ![1] = r]
    BY <2>1, <2>2, <2>7, <1>5
  <2> HIDE DEF p, r
  <2>9. Lies(out, wire', 0, Len(wire) + n) /\ Len(wire') = Len(wire) + n
    <3>1. Lies(out, wire \o p, 0, Len(wire) + n) /\ Len(wire \o p) = Len(wire) + Len(p)
      BY <2>8, <1>4, LiesConcat
    <3> QED BY <3>1, <2>8
  <2>10. LastFull'
    <3>1. /\ Len(writeQueue') = Len(writeQueue)
          /\ writeQueue'[1] = r
          /\ \A k \in 1 .. Len(writeQueue) : k # 1 => writeQueue'[k] = writeQueue[k]
      BY <2>3, <2>8, <1>4, <1>5
    <3>2. r # <<>>
      BY <2>2, <2>8
    <3> QED BY <3>1, <3>2, <1>4, <1>5 DEF LastFull
  <2>11. Queued(j)'
    BY <2>4, <2>5, <2>9, <1>1, <1>2 DEF Queued
  <2> QED BY <2>9, <2>10, <2>11, <1>1, <1>2 DEF Account
<1>9. CASE WriteNothing
  <2>1. /\ ~Writable \/ m = <<>>
        /\ wire' = wire /\ writeQueue' = Tail(writeQueue)
    BY <1>9 DEF WriteNothing, Pop, m
  <2>2. Writable => \E j \in Nat : Queued(j)'
    <3> SUFFICES ASSUME Writable PROVE \E j \in Nat : Queued(j)'
      OBVIOUS
    <3>1. PICK j \in Nat : Queued(j)
      BY DEF Account
    <3>2. PICK n \in Nat : Lies(out, m, Len(wire), n) /\ Laid(out, Tail(writeQueue), n, j)
      BY <3>1, <1>4, LaidTail DEF Queued, m
    <3>3. n = Len(wire)
      <4>1. Len(m) = 0 /\ Len(wire) \in Nat
        BY <2>1, <1>4
      <4> QED BY <4>1, <3>2 DEF Lies
    <3>4. Queued(j)'
      BY <3>1, <3>2, <3>3, <2>1, <1>1, <1>2 DEF Queued
    <3> QED BY <3>4
  <2> QED BY <2>1, <2>2, <1>1, <1>2, <1>4, <1>6 DEF Account
<1> QED BY <1>7, <1>8, <1>9

LEMMA AccountKept ==
    ASSUME Account, WriteTypes, QueueInv, Got, Calls, [Next]_vars
    PROVE  Account'
<1>1. QueueTypeOK /\ PastDummy
  BY DEF QueueInv
<1>2. CASE DequeuePacket
  <2>1. UNCHANGED <<wire, writeQueue, buffer, npc, client, shut>> /\ Dequeue
    BY <1>2 DEF DequeuePacket, writeVars, closeVars, authVars
  <2>2. CASE TakeTail
    <3>1. out' = Append(out, tail) /\ dequeue' = "got" /\ dequeue # "got" /\ tail # Dummy
      BY <2>2, <1>1 DEF TakeTail, LoadsLink, PastDummy
    <3>2. tail \in Packets /\ out \in Seq(Packets)
      BY <3>1, <1>1 DEF QueueTypeOK, Nodes
    <3> QED BY <2>1, <3>1, <3>2, AccountTake
  <2>3. CASE ~TakeTail
    <3>1. out' = out /\ dequeue # "got" /\ dequeue' # "got"
      BY <2>1, <2>3 DEF Dequeue, FindEmpty, PassDummy, TailIsLast, CompareHead, ReturnDummy,
         LinkDummy, LoadsLink
    <3>2. Writable' => Writable
      BY <2>1 DEF Writable
    <3> QED BY <2>1, <3>1, <3>2, AccountSame
  <2> QED BY <2>2, <2>3
<1>3. CASE MovePacket
  BY <1>3, <1>1, AccountPack
<1>4. CASE Drained
  BY <1>4, <1>1, AccountDrained
<1>5. CASE WriteStep
  BY <1>5, <1>1, AccountWrite
<1>6. CASE Aside
  <2>1. UNCHANGED <<out, wire, writeQueue, buffer>> /\ dequeue' = dequeue
    BY <1>6 DEF Aside, writeVars
  <2> QED BY <1>6, <2>1, AccountSame DEF Aside
<1> QED BY <1>2, <1>3, <1>4, <1>5, <1>6, StepKinds

(* ---- Who may still send ----------------------------------------------- *)

\* Before there is a session only the network thread sends.
Early ==
    session = "none" => \A t \in Others : pos[t] = 0 /\ holding[t] = Null /\ linking[t] = NoLink

\* The network thread has a link to set only in its own SendPacket or Dequeue.
ReaderLinks ==
    linking[Reader] # NoLink => npc \in {"link", "refuse"} \/ dequeue = "link"

\* A step that is neither SendPacket nor Dequeue.
Silent == UNCHANGED <<queueVars, pos, holding>>

LEMMA SendKinds ==
    ASSUME [Next]_vars
    PROVE  \/ DequeuePacket \/ RefuseAccount \/ RefuseClosed \/ LinkRefusal
           \/ \E t \in Others : SendPacket(t) \/ Enqueue(t)
           \/ MovePacket \/ Drained \/ Silent
<1>1. CASE WriteStep
  BY <1>1 DEF Silent, WriteStep, HandleQueue, WriteReady, Unwritten, sendVars
<1>2. CASE ReadStep /\ ~RefuseClosed
  BY <1>2 DEF Silent, ReadStep, ReadTooLate, AskAccount, RefuseShort, PacketArrives, QueuePacket,
     ReadError, AuthArrives, NothingToWrite, sendVars
<1>3. CASE PlainStep
  BY <1>3 DEF Silent, PlainStep, AddNewSockets, StartUpdate, Forget, Update, NoCallback, AnswerQuery,
     LoseClient, AddSession, DeleteSession, NothingToWrite, sendVars
<1>4. CASE AcceptAccount \/ Kick
  BY <1>4 DEF Silent, AcceptAccount, Kick, NothingToWrite, sendVars
<1>5. ASSUME NEW t \in {Reader, World}, Shutdown(t) \/ OnClose(t) PROVE Silent
  BY <1>5 DEF Silent, Shutdown, OnClose, sendVars
<1>6. CASE UNCHANGED vars
  BY <1>6 DEF Silent, vars, sendVars
<1> QED BY <1>1, <1>2, <1>3, <1>4, <1>5, <1>6, NextCases

\* Of the links, a step of the network thread changes its own.
LEMMA OtherLinks ==
    ASSUME QueueTypeOK, [Next]_vars, ~\E t \in Others : Enqueue(t)
    PROVE  \A t \in Others : linking'[t] = linking[t]
<1>1. linking \in [Threads -> {NoLink} \cup [prev : Nodes, node : Nodes]]
  BY DEF QueueTypeOK
<1>2. Reader \in Threads /\ \A t \in Others : t \in Threads /\ t # Reader
  BY ThreadFacts
<1>3. linking' = linking \/ \E v : linking' = [linking EXCEPT ![Reader] = v]
  BY SendKinds DEF Silent, DequeuePacket, RefuseAccount, RefuseClosed, SendRefusal, LinkRefusal,
     MovePacket, Drained, SendPacket, Dequeue, Leave, FindEmpty, PassDummy, TakeTail, TailIsLast,
     CompareHead, ReturnDummy, LinkDummy, EnqueueFirst, EnqueueSecond, Exchange, Link, queueVars
<1> QED BY <1>1, <1>2, <1>3

LEMMA SessionStays ==
    ASSUME [Next]_vars, session # "none"
    PROVE  session' # "none"
<1>1. CASE WriteStep \/ DequeuePacket \/ MovePacket \/ Drained
  BY <1>1 DEF WriteStep, HandleQueue, WriteReady, Unwritten, DequeuePacket, MovePacket, Drained,
     sessionVars
<1>2. CASE ReadStep
  BY <1>2 DEF ReadStep, ReadTooLate, AskAccount, RefuseShort, RefuseClosed, PacketArrives,
     QueuePacket, ReadError, AuthArrives, sessionVars
<1>3. CASE PlainStep
  BY <1>3 DEF PlainStep, AddNewSockets, StartUpdate, Forget, Update, NoCallback, AnswerQuery,
     LoseClient, AddSession, DeleteSession, sessionVars
<1>4. CASE AcceptAccount \/ RefuseAccount \/ LinkRefusal \/ Kick
  BY <1>4 DEF AcceptAccount, RefuseAccount, LinkRefusal, Kick, sessionVars
<1>5. ASSUME NEW t \in {Reader, World}, Shutdown(t) \/ OnClose(t) PROVE session' # "none"
  BY <1>5 DEF Shutdown, OnClose, sessionVars
<1>6. ASSUME NEW t \in Others, SendPacket(t) \/ Enqueue(t) PROVE session' # "none"
  BY <1>6 DEF SendPacket, Enqueue, sessionVars
<1>7. CASE UNCHANGED vars
  BY <1>7 DEF vars, sessionVars
<1> QED BY <1>1, <1>2, <1>3, <1>4, <1>5, <1>6, <1>7, NextCases

\* Without a session no thread but the network thread sends or links.
LEMMA EarlyIsQuiet ==
    ASSUME Early, session = "none", NEW t \in Others
    PROVE  ~SendPacket(t) /\ ~Enqueue(t)
BY DEF Early, SendPacket, Enqueue, EnqueueSecond, Link

LEMMA EarlyKept ==
    ASSUME Early, QueueTypeOK, [Next]_vars
    PROVE  Early'
<1> SUFFICES ASSUME session' = "none"
             PROVE  \A t \in Others : pos'[t] = 0 /\ holding'[t] = Null /\ linking'[t] = NoLink
  BY DEF Early
<1>1. session = "none"
  BY SessionStays
<1>2. \A t \in Others : ~SendPacket(t) /\ ~Enqueue(t)
  BY <1>1, EarlyIsQuiet
<1>3. \A t \in Others : linking'[t] = linking[t]
  BY <1>2, OtherLinks
<1>4. pos' = pos /\ holding' = holding
  BY <1>2, SendKinds DEF Silent, DequeuePacket, RefuseAccount, RefuseClosed, LinkRefusal, MovePacket,
     Drained, NothingToWrite, AuthArrives, sendVars
<1> QED BY <1>1, <1>3, <1>4 DEF Early

LEMMA ReaderLinksKept ==
    ASSUME ReaderLinks, QueueTypeOK, Calls, [Next]_vars
    PROVE  ReaderLinks'
<1>1. linking \in [Threads -> {NoLink} \cup [prev : Nodes, node : Nodes]] /\ Reader \in Threads
  BY ThreadFacts DEF QueueTypeOK
<1>2. CASE DequeuePacket
  <2>1. npc' = npc /\ Dequeue
    BY <1>2 DEF DequeuePacket
  <2>2. CASE ReturnDummy
    BY <2>2 DEF ReturnDummy, ReaderLinks
  <2>3. CASE LinkDummy
    BY <2>3, <1>1 DEF LinkDummy, Link, ReaderLinks
  <2>4. CASE FindEmpty \/ PassDummy \/ TakeTail \/ TailIsLast \/ CompareHead
    BY <2>1, <2>4 DEF FindEmpty, PassDummy, TakeTail, TailIsLast, CompareHead, LoadsLink, ReaderLinks
  <2> QED BY <2>1, <2>2, <2>3, <2>4 DEF Dequeue
<1>3. CASE RefuseAccount \/ RefuseClosed
  <2>1. \/ npc' \in {"link", "refuse"}
        \/ npc' = "idle" /\ npc \notin {"link", "refuse"} /\ UNCHANGED queueVars
    BY <1>3 DEF RefuseAccount, RefuseClosed, SendRefusal, AuthArrives, AtEvent, In
  <2> QED BY <2>1 DEF ReaderLinks, queueVars
<1>4. CASE LinkRefusal
  BY <1>1, <1>4 DEF LinkRefusal, EnqueueSecond, Link, ReaderLinks
<1>5. ASSUME NEW t \in Others, SendPacket(t) \/ Enqueue(t) PROVE ReaderLinks'
  <2>1. t # Reader /\ npc' = npc /\ dequeue' = dequeue
    BY <1>5, ThreadFacts DEF SendPacket, Enqueue, EnqueueFirst, EnqueueSecond, Elsewhere, queueVars
  <2>2. linking' = linking \/ \E v : linking' = [linking EXCEPT ![t] = v]
    BY <1>5 DEF SendPacket, Enqueue, EnqueueFirst, EnqueueSecond, Exchange, Link, queueVars
  <2>3. linking'[Reader] = linking[Reader]
    BY <1>1, <2>1, <2>2
  <2> QED BY <2>1, <2>3 DEF ReaderLinks
<1>6. CASE MovePacket \/ Drained
  BY <1>6 DEF MovePacket, Drained, In, Leave, ReaderLinks
<1>7. CASE Silent /\ ~RefuseClosed /\ ~RefuseAccount /\ ~LinkRefusal
  <2>1. npc \in {"link", "refuse"} => npc' = npc
    <3>1. CASE WriteStep \/ ReadStep \/ PlainStep \/ AcceptAccount
      BY <1>7, <3>1 DEF WriteStep, HandleQueue, WriteReady, ReadStep, ReadTooLate, AskAccount,
         RefuseShort, PacketArrives, QueuePacket, ReadError, AuthArrives, PlainStep, AddNewSockets,
         StartUpdate, Forget, Update, NoCallback, AnswerQuery, LoseClient, AddSession, DeleteSession,
         AcceptAccount, In, AtEvent, Elsewhere
    <3>2. CASE DequeuePacket \/ MovePacket \/ Drained \/ Kick
      BY <3>2 DEF DequeuePacket, MovePacket, Drained, Kick, In, Elsewhere
    <3>3. ASSUME NEW t \in {Reader, World}, Shutdown(t) \/ OnClose(t) PROVE npc' = npc
      BY <3>3 DEF Shutdown, OnClose
    <3>4. ASSUME NEW t \in Others, SendPacket(t) \/ Enqueue(t) PROVE npc' = npc
      BY <3>4 DEF SendPacket, Enqueue, Elsewhere
    <3>5. CASE UNCHANGED vars
      BY <3>5 DEF vars
    <3> QED BY <1>7, <3>1, <3>2, <3>3, <3>4, <3>5, NextCases
  <2> QED BY <1>7, <2>1 DEF ReaderLinks, Silent, queueVars
<1> QED BY <1>2, <1>3, <1>4, <1>5, <1>6, <1>7, SendKinds

(* ---- A connection told to close sends what it has --------------------- *)

\* Nobody sends any more: Dequeue finds the queue empty when it is.
Drains ==
    closing =>
      /\ dequeue \in {"head", "swap"} => tail = head
      /\ dequeue = "link" => linking[Reader] = [prev |-> tail, node |-> Dummy]
      /\ dequeue = "last" => next[tail] = Dummy
      /\ dequeue = "empty" => out = sent

LEMMA TwoPlaces ==
    ASSUME NEW n \in Nat, n >= 1, n # 1
    PROVE  1 \in 1 .. n - 1 /\ 1 + 1 \in 1 .. n /\ 1 \in 1 .. n
OBVIOUS

\* When no link is due the last node is the head, and behind the dummy is nothing.
LEMMA QuietQueue ==
    ASSUME QueueInv, \A t \in Threads : linking[t] = NoLink, next[tail] = Null
    PROVE  tail = head /\ (tail = Dummy => out = sent)
<1>1. PICK q \in Seq(Nodes), d \in Nat : Row(q, d)
  BY DEF QueueInv
<1>2. Waits(q, d) /\ Linked(q) /\ QueueTypeOK /\ InOrder
  BY <1>1 DEF Row, QueueInv
<1>3. /\ q \in Seq(Nodes) /\ Len(q) \in Nat /\ Len(q) >= 1 /\ d \in 0 .. Len(q)
      /\ Len(sent) = Len(out) + Len(q) - (IF d = 0 THEN 0 ELSE 1)
      /\ q[1] = IF 1 = d THEN Dummy ELSE sent[Len(out) + 1 - Skipped(d, 1)]
      /\ \A k \in 1 .. Len(q) : q[k] \in Nodes
  BY <1>2 DEF Waits
<1>4. \A t \in Threads : linking[t].prev = Null
  BY <1>2, LinkingType
<1>5. Len(q) = 1
  <2> SUFFICES ASSUME Len(q) # 1 PROVE FALSE
    OBVIOUS
  <2>1. 1 \in 1 .. Len(q) - 1 /\ 1 + 1 \in 1 .. Len(q) /\ 1 \in 1 .. Len(q)
    <3>1. Len(q) \in Nat /\ Len(q) >= 1
      BY <1>3
    <3> QED BY <3>1, TwoPlaces
  <2>2. \/ next[q[1]] = q[1 + 1]
        \/ \E t \in Threads : linking[t].prev = q[1]
    BY <2>1, <1>2 DEF Linked
  <2>3. tail = q[1] /\ Null \notin Nodes
    BY <1>2, NodeAssumption DEF Linked, Nodes
  <2> QED BY <2>1, <2>2, <2>3, <1>3, <1>4
<1>6. tail = q[1] /\ head = q[1]
  BY <1>2, <1>5 DEF Linked
<1>7. ASSUME tail = Dummy PROVE out = sent
  <2>1. sent \in Seq(Packets) /\ out \in Seq(Packets) /\ Len(out) <= Len(sent)
        /\ \A k \in 1 .. Len(out) : out[k] = sent[k]
    BY <1>2 DEF QueueTypeOK, InOrder
  <2>2. d # 0
    <3> SUFFICES ASSUME d = 0 PROVE FALSE
      OBVIOUS
    <3>1. q[1] = sent[Len(out) + 1] /\ Len(sent) = Len(out) + 1 /\ Len(out) \in Nat
      BY <1>3, <1>5, <2>1 DEF Skipped
    <3>2. sent[Len(out) + 1] \in Packets
      BY <3>1, <2>1
    <3> QED BY <3>1, <3>2, <1>6, <1>7, NodeAssumption
  <2>3. Len(sent) = Len(out)
    BY <2>1, <2>2, <1>3, <1>5
  <2> QED BY <2>1, <2>3
<1> QED BY <1>6, <1>7

\* After DelayedCloseSocket only the network thread has a link to set.
LEMMA ClosingIsQuiet ==
    ASSUME closing, Life, Early, ReaderLinks, Calls
    PROVE  /\ \A t \in Others : linking[t] = NoLink /\ ~SendPacket(t) /\ ~Enqueue(t)
           /\ npc = "drain" /\ dequeue # "link" => \A t \in Threads : linking[t] = NoLink
           /\ ~RefuseAccount /\ ~RefuseClosed
<1>1. session = "none" /\ query = "none" /\ said
  BY DEF Life
<1>2. \A t \in Others : linking[t] = NoLink /\ ~SendPacket(t) /\ ~Enqueue(t)
  BY <1>1, EarlyIsQuiet DEF Early
<1>3. npc = "drain" /\ dequeue # "link" => linking[Reader] = NoLink
  BY DEF ReaderLinks
<1>4. \A t \in Threads : t = Reader \/ t \in Others
  BY DEF Others
<1> QED BY <1>1, <1>2, <1>3, <1>4 DEF RefuseAccount, RefuseClosed, AuthArrives, IsOpen

\* closing changes in DelayedCloseSocket alone, between two timers.
LEMMA ClosingKinds ==
    ASSUME [Next]_vars
    PROVE  \/ UNCHANGED <<closing, due>>
           \/ RefuseShort
           \/ LinkRefusal /\ npc = "refuse"
<1>1. CASE WriteStep \/ DequeuePacket \/ MovePacket \/ Drained
  BY <1>1 DEF WriteStep, HandleQueue, WriteReady, Unwritten, DequeuePacket, MovePacket, Drained,
     closeVars
<1>2. CASE ReadStep /\ ~RefuseShort
  BY <1>2 DEF ReadStep, ReadTooLate, AskAccount, RefuseClosed, PacketArrives, QueuePacket,
     ReadError, AuthArrives, closeVars
<1>3. CASE PlainStep
  BY <1>3 DEF PlainStep, AddNewSockets, StartUpdate, Forget, Update, NoCallback, AnswerQuery,
     LoseClient, AddSession, DeleteSession, closeVars
<1>4. CASE AcceptAccount \/ RefuseAccount \/ (LinkRefusal /\ npc # "refuse") \/ Kick
  BY <1>4 DEF AcceptAccount, RefuseAccount, LinkRefusal, Kick, closeVars
<1>5. ASSUME NEW t \in {Reader, World}, Shutdown(t) \/ OnClose(t) PROVE UNCHANGED <<closing, due>>
  BY <1>5 DEF Shutdown, OnClose
<1>6. ASSUME NEW t \in Others, SendPacket(t) \/ Enqueue(t) PROVE UNCHANGED <<closing, due>>
  BY <1>6 DEF SendPacket, Enqueue, closeVars
<1>7. CASE UNCHANGED vars
  BY <1>7 DEF vars, closeVars
<1> QED BY <1>1, <1>2, <1>3, <1>4, <1>5, <1>6, <1>7, NextCases

LEMMA DrainsKept ==
    ASSUME Drains, QueueInv, Life, Early, ReaderLinks, Calls, [Next]_vars
    PROVE  Drains'
<1>1. CASE LinkRefusal \/ RefuseShort
  <2>1. dequeue' = dequeue /\ dequeue = "begin"
    BY <1>1 DEF LinkRefusal, EnqueueSecond, RefuseShort, AuthArrives, AtEvent, Calls, queueVars
  <2> QED BY <2>1 DEF Drains
<1>2. CASE MovePacket \/ Drained
  BY <1>2 DEF MovePacket, Drained, Leave, Drains
<1> SUFFICES ASSUME closing', ~LinkRefusal, ~RefuseShort, ~MovePacket, ~Drained
             PROVE  Drains'
  BY <1>1, <1>2 DEF Drains
<1>3. closing
  BY ClosingKinds
<1>4. /\ \A t \in Others : ~SendPacket(t) /\ ~Enqueue(t)
      /\ npc = "drain" /\ dequeue # "link" => \A t \in Threads : linking[t] = NoLink
      /\ ~RefuseAccount /\ ~RefuseClosed
  BY <1>3, ClosingIsQuiet
<1>5. CASE Silent
  BY <1>3, <1>5 DEF Silent, Drains, queueVars
<1>6. CASE DequeuePacket
  <2>1. Dequeue /\ npc = "drain"
    BY <1>6 DEF DequeuePacket, In
  <2>2. /\ dequeue \in {"head", "swap"} => tail = head
        /\ dequeue = "link" => linking[Reader] = [prev |-> tail, node |-> Dummy]
        /\ dequeue = "last" => next[tail] = Dummy
        /\ dequeue = "empty" => out = sent
    BY <1>3 DEF Drains
  <2>3. /\ next \in [Nodes -> Nodes \cup {Null}] /\ tail \in Nodes /\ Reader \in Threads
        /\ linking \in [Threads -> {NoLink} \cup [prev : Nodes, node : Nodes]] /\ Dummy # Null
    BY ThreadFacts, NodeAssumption DEF QueueInv, QueueTypeOK
  <2>4. CASE FindEmpty
    <3>1. out = sent
      BY <2>1, <2>4, <1>4, QuietQueue DEF FindEmpty
    <3> QED BY <3>1, <2>4 DEF FindEmpty, Drains
  <2>5. CASE PassDummy \/ TakeTail
    BY <2>5 DEF PassDummy, TakeTail, Drains
  <2>6. CASE TailIsLast
    <3>1. tail = head
      BY <2>1, <2>6, <1>4, QuietQueue DEF TailIsLast, LoadsLink
    <3> QED BY <3>1, <2>2, <2>3, <2>6 DEF TailIsLast, Drains
  <2>7. CASE CompareHead
    BY <2>2, <2>7 DEF CompareHead, Drains
  <2>8. CASE ReturnDummy
    <3>1. linking'[Reader] = [prev |-> tail, node |-> Dummy] /\ tail' = tail /\ dequeue' = "link"
      BY <2>2, <2>3, <2>8 DEF ReturnDummy, Exchange
    <3> QED BY <3>1 DEF Drains
  <2>9. CASE LinkDummy
    <3>1. next'[tail] = Dummy /\ tail' = tail /\ dequeue' = "last"
      BY <2>2, <2>3, <2>9 DEF LinkDummy, Link
    <3> QED BY <3>1 DEF Drains
  <2> QED BY <2>1, <2>4, <2>5, <2>6, <2>7, <2>8, <2>9 DEF Dequeue
<1> QED BY <1>4, <1>5, <1>6, SendKinds

(* ---- How a connection closes ------------------------------------------ *)

Begun(t) == closer[t] \in {"ended", "cut"}

\* One CloseSocket, not before the delayed one of a refusal.
Orderly ==
    /\ client \in {"connected", "gone"}
    /\ \A t \in {Reader, World} : Begun(t) => closed /\ shut = "no"
    /\ Begun(Reader) => ~Begun(World)
    /\ shut # "no" => closed
    /\ npc = "refuse" => ~closed /\ ~closing /\ writeQueue = <<>>
    /\ closer[World] # "ended"

\* What a delayed close owes has left the queue, or the next timer takes it.
Owes ==
    closing => \/ Len(out) >= due
               \/ npc = "drain"
               \/ writeQueue = <<>> /\ npc \notin {"update", "write"}

\* An orderly end comes after what was owed.
Ends == closer[Reader] = "ended" => closing /\ Len(wire) >= due

\* When the client authenticates, it has all that was sent.
LEMMA ChallengeOnly ==
    ASSUME QueueInv, Fresh, Life, WriteTypes, Account, Early, Orderly, AuthArrives
    PROVE  Len(sent) = Len(out) /\ writeQueue = <<>>
<1>1. /\ client = "connected" /\ ~closed /\ ~said /\ \E i \in 1 .. Len(wire) : wire[i] = Challenge
  BY DEF AuthArrives, IsOpen, Contains
<1>2. session = "none"
  BY <1>1 DEF Life
<1>3. /\ sent \in Seq(Packets) /\ out \in Seq(Packets) /\ wire \in Seq(Packets)
      /\ Len(sent) \in Nat /\ Len(out) \in Nat /\ Len(wire) \in Nat /\ Len(out) <= Len(sent)
      /\ writeQueue \in Seq(Seq(Packets))
  BY DEF QueueInv, QueueTypeOK, InOrder, WriteTypes
<1>4. ASSUME NEW k \in 1 .. Len(sent) PROVE sent[k] = Challenge
  <2>1. sent[k] \in Sent
    BY <1>3 DEF Sent
  <2>2. SentBy(sent[k])
    BY <2>1 DEF Fresh
  <2>3. ASSUME NEW t \in Others, NEW j \in DOMAIN Script[t], j <= pos[t] PROVE FALSE
    <3>1. pos[t] = 0
      BY <1>2 DEF Early
    <3>2. j \in Nat \ {0}
      BY ThreadAssumption
    <3> QED BY <2>3, <3>1, <3>2
  <2> QED BY <2>2, <2>3, <1>1 DEF SentBy
<1>5. Len(sent) <= 1
  <2> SUFFICES ASSUME ~(Len(sent) <= 1) PROVE FALSE
    OBVIOUS
  <2>1. 1 \in 1 .. Len(sent) /\ 2 \in 1 .. Len(sent)
    BY <1>3
  <2>2. sent[1] = sent[2]
    BY <2>1, <1>4
  <2> QED BY <2>1, <2>2 DEF QueueInv, SentOnce
<1>6. Len(wire) >= 1 /\ Len(wire) <= Len(out)
  <2>1. Len(wire) >= 1
    BY <1>1, <1>3
  <2>2. Lies(out, wire, 0, Len(wire))
    BY DEF Account
  <2> QED BY <2>1, <2>2, <1>3, LiesFacts
<1>7. Writable
  BY <1>1 DEF Writable, Orderly
<1>8. PICK j \in Nat : Queued(j)
  BY <1>7 DEF Account
<1>9. writeQueue = <<>>
  <2> SUFFICES ASSUME writeQueue # <<>> PROVE FALSE
    OBVIOUS
  <2>1. writeQueue[Len(writeQueue)] # <<>>
    BY DEF Account, LastFull
  <2>2. Len(wire) < Len(out)
    BY <2>1, <1>3, <1>8, LaidLast DEF Queued
  <2> QED BY <2>2, <1>3, <1>5, <1>6
<1> QED BY <1>3, <1>5, <1>6, <1>9

LEMMA OrderlyClose ==
    ASSUME Orderly, CloserType, NEW t \in {Reader, World}, NEW how \in {"ended", "cut"},
           t = World => how = "cut", CloseSocket(t, how),
           UNCHANGED <<client, shut>>, npc' # "refuse"
    PROVE  Orderly'
<1>1. CASE closed
  <2>1. UNCHANGED <<closed, closer>>
    BY <1>1 DEF CloseSocket
  <2> QED BY <2>1 DEF Orderly, Begun
<1>2. CASE ~closed
  <2>1. closed' /\ closer' = [closer EXCEPT ![t] = how]
    BY <1>2 DEF CloseSocket
  <2>2. closer'[t] = how /\ \A u \in {Reader, World} : u # t => closer'[u] = closer[u]
    BY <2>1, CloserFacts
  <2>3. shut' = "no" /\ ~Begun(Reader) /\ ~Begun(World) /\ World # Reader
    BY <1>2, ThreadFacts DEF Orderly
  <2> QED BY <2>1, <2>2, <2>3 DEF Orderly, Begun
<1> QED BY <1>1, <1>2

\* A step that closes nothing.
Leaves ==
    /\ UNCHANGED <<closed, closer, shut>>
    /\ client' \in {client, "gone"}
    /\ \/ npc' # "refuse"
       \/ npc = "refuse" /\ UNCHANGED <<closing, writeQueue>>

LEMMA OrderlyLeft ==
    ASSUME Orderly, Leaves
    PROVE  Orderly'
BY DEF Orderly, Leaves, Begun

LEMMA OrderlyKept ==
    ASSUME Orderly, QueueInv, Calls, Fresh, Life, WriteTypes, Account, Early, [Next]_vars
    PROVE  Orderly'
<1>1. CloserType /\ World # Reader
  BY ThreadFacts DEF Life
<1>2. CASE DequeuePacket \/ MovePacket \/ Drained
  <2>1. Leaves
    BY <1>2 DEF Leaves, DequeuePacket, MovePacket, Drained, In, closeVars, authVars
  <2> QED BY <2>1, OrderlyLeft
<1>3. CASE WriteStep
  <2>1. UNCHANGED <<client, shut>> /\ npc' # "refuse"
    BY <1>3, WriteFacts
  <2>2. UNCHANGED <<closed, closer>> \/ Pop
    BY <1>3, WriteFacts DEF WriteAll, WriteSome, WriteNothing
  <2>3. CASE UNCHANGED <<closed, closer>>
    BY <2>1, <2>3, OrderlyLeft DEF Leaves
  <2>4. CASE Pop /\ ~UNCHANGED <<closed, closer>>
    <3>1. \E how \in {"ended", "cut"} : CloseSocket(Reader, how)
      BY <2>4 DEF Pop
    <3> QED BY <2>1, <3>1, <1>1, OrderlyClose
  <2> QED BY <2>2, <2>3, <2>4
<1>4. CASE PacketArrives \/ ReadError
  <2>1. UNCHANGED <<client, shut>> /\ npc' # "refuse"
    BY <1>4 DEF PacketArrives, ReadError, AtEvent
  <2>2. UNCHANGED <<closed, closer>> \/ CloseSocket(Reader, "cut")
    BY <1>4 DEF PacketArrives, ReadError
  <2>3. CASE UNCHANGED <<closed, closer>>
    BY <2>1, <2>3, OrderlyLeft DEF Leaves
  <2>4. CASE CloseSocket(Reader, "cut")
    BY <2>1, <2>4, <1>1, OrderlyClose
  <2> QED BY <2>2, <2>3, <2>4
<1>5. CASE RefuseClosed
  <2>1. /\ UNCHANGED <<closed, closer, shut, closing, client, writeQueue>>
        /\ ~closed /\ ~closing /\ AuthArrives
    BY <1>5 DEF RefuseClosed, AuthArrives, IsOpen, NothingToWrite, closeVars, writeVars
  <2>2. writeQueue = <<>>
    BY <2>1, ChallengeOnly
  <2> QED BY <2>1, <2>2 DEF Orderly, Begun
<1>6. CASE ReadTooLate \/ AskAccount \/ RefuseShort \/ QueuePacket
  <2>1. Leaves
    BY <1>6 DEF Leaves, ReadTooLate, AskAccount, RefuseShort, QueuePacket, AuthArrives, AtEvent,
       DelayedCloseSocket, closeVars
  <2> QED BY <2>1, OrderlyLeft
<1>7. CASE PlainStep
  <2>1. Leaves
    BY <1>7 DEF Leaves, PlainStep, AddNewSockets, StartUpdate, Forget, Update, NoCallback,
       AnswerQuery, LoseClient, AddSession, DeleteSession, In, AtEvent, Elsewhere, NothingToWrite,
       closeVars, authVars, writeVars
  <2> QED BY <2>1, OrderlyLeft
<1>8. CASE AcceptAccount \/ RefuseAccount \/ LinkRefusal
  <2>1. Leaves
    BY <1>8 DEF Leaves, AcceptAccount, RefuseAccount, LinkRefusal, DelayedCloseSocket, closeVars
  <2> QED BY <2>1, OrderlyLeft
<1>9. CASE Kick
  <2>1. UNCHANGED <<client, shut, npc>> /\ session = "world" /\ CloseSocket(World, "cut")
    BY <1>9 DEF Kick, Elsewhere, authVars
  <2>2. npc # "refuse"
    BY <2>1 DEF Life
  <2> QED BY <2>1, <2>2, <1>1, OrderlyClose
<1>10. ASSUME NEW t \in {Reader, World}, Shutdown(t) PROVE Orderly'
  <2>1. /\ Begun(t) /\ shut' = closer[t] /\ closer' = [closer EXCEPT ![t] = "OnClose"]
        /\ UNCHANGED <<closed, closing, writeQueue, client, npc>>
    BY <1>10 DEF Begun, Shutdown, authVars, writeVars
  <2>2. closer'[t] = "OnClose" /\ \A u \in {Reader, World} : u # t => closer'[u] = closer[u]
    BY <2>1, <1>1, CloserFacts
  <2>3. closed /\ npc # "refuse" /\ \A u \in {Reader, World} : u # t => ~Begun(u)
    BY <2>1 DEF Orderly
  <2>4. \A u \in {Reader, World} : ~Begun(u)'
    BY <2>2, <2>3 DEF Begun
  <2> QED BY <2>1, <2>2, <2>3, <2>4, <1>1 DEF Orderly
<1>11. ASSUME NEW t \in {Reader, World}, OnClose(t) PROVE Orderly'
  <2>1. /\ closer' = [closer EXCEPT ![t] = "no"]
        /\ UNCHANGED <<closed, closing, shut, writeQueue, client, npc>>
    BY <1>11 DEF OnClose, authVars, writeVars
  <2>2. closer'[t] = "no" /\ \A u \in {Reader, World} : u # t => closer'[u] = closer[u]
    BY <2>1, <1>1, CloserFacts
  <2>3. \A u \in {Reader, World} : Begun(u)' => Begun(u)
    BY <2>2 DEF Begun
  <2> QED BY <2>1, <2>2, <2>3 DEF Orderly
<1>12. ASSUME NEW t \in Others, SendPacket(t) \/ Enqueue(t) PROVE Orderly'
  <2>1. Leaves
    BY <1>12 DEF Leaves, SendPacket, Enqueue, Elsewhere, closeVars, authVars, writeVars
  <2> QED BY <2>1, OrderlyLeft
<1>13. CASE UNCHANGED vars
  <2>1. Leaves
    BY <1>13 DEF Leaves, vars, closeVars, authVars, writeVars
  <2> QED BY <2>1, OrderlyLeft
<1> QED BY <1>2, <1>3, <1>4, <1>5, <1>6, <1>7, <1>8, <1>9, <1>10, <1>11, <1>12, <1>13, NextCases
    DEF ReadStep

\* The account of what is sent, and the order in which a connection closes.
StreamInv ==
    /\ Account /\ Early /\ ReaderLinks /\ Drains
    /\ Orderly /\ Owes /\ Ends

LEMMA OwesKept ==
    ASSUME SocketInv, StreamInv, [Next]_vars
    PROVE  Owes'
<1>1. /\ QueueInv /\ QueueTypeOK /\ Calls /\ Fresh /\ Life /\ WriteTypes /\ DueType
      /\ Account /\ Early /\ Orderly /\ Owes /\ Drains
      /\ Len(out) \in Nat /\ Len(sent) \in Nat
  BY DEF SocketInv, StreamInv, LifeInv, QueueInv, QueueTypeOK
<1>2. CASE RefuseShort
  <2>1. AuthArrives /\ due' = Len(sent) /\ out' = out
    BY <1>2 DEF RefuseShort, DelayedCloseSocket, queueVars
  <2>2. Len(out) = Len(sent)
    BY <2>1, <1>1, ChallengeOnly
  <2> QED BY <2>1, <2>2, <1>1 DEF Owes
<1>3. CASE LinkRefusal /\ npc = "refuse"
  <2>1. npc' = "idle" /\ writeQueue' = writeQueue
    BY <1>3 DEF LinkRefusal, NothingToWrite, writeVars
  <2>2. writeQueue = <<>>
    BY <1>1, <1>3 DEF Orderly
  <2> QED BY <2>1, <2>2 DEF Owes
<1>4. CASE UNCHANGED <<closing, due>>
  <2> SUFFICES ASSUME closing
               PROVE  \/ Len(out') >= due
                      \/ npc' = "drain"
                      \/ writeQueue' = <<>> /\ npc' \notin {"update", "write"}
    BY <1>4 DEF Owes
  <2>1. CASE DequeuePacket \/ MovePacket
    BY <2>1 DEF DequeuePacket, MovePacket, In
  <2>2. CASE Drained
    <3>1. out' = out /\ dequeue = "empty"
      BY <2>2 DEF Drained, Leave
    <3>2. Len(out) >= due
      BY <3>1, <1>1 DEF Drains, DueType
    <3> QED BY <3>1, <3>2
  <2>3. CASE WriteStep
    <3>1. /\ out' = out /\ npc \in {"write", "idle"} /\ npc' \in {npc, "callbacks"}
          /\ writeQueue = <<>> => writeQueue' = writeQueue
      BY <2>3, <1>1, WriteFacts DEF queueVars
    <3> QED BY <3>1, <1>1 DEF Owes
  <2>4. CASE Aside
    BY <2>4, <1>1 DEF Aside, Owes, writeVars
  <2> QED BY <2>1, <2>2, <2>3, <2>4, StepKinds
<1> QED BY <1>2, <1>3, <1>4, ClosingKinds

\* With no message and an empty buffer all is out.
LEMMA AllIsOut ==
    ASSUME NEW o, NEW i, NEW j, NEW n, Laid(o, <<>>, i, j), Lies(o, <<>>, j, n)
    PROVE  i = n
<1>1. Len(<<>>) = 0
  OBVIOUS
<1>2. i = j
  BY EmptyLaid
<1> QED BY <1>1, <1>2 DEF Lies

LEMMA EndsKept ==
    ASSUME SocketInv, SocketInv', StreamInv, Account', [Next]_vars
    PROVE  Ends'
<1>1. /\ QueueTypeOK /\ Calls /\ Life /\ CloserType /\ WriteTypes /\ DueType /\ WriteTypes'
      /\ QueueTypeOK' /\ Account /\ Orderly /\ Owes /\ Ends /\ World # Reader
      /\ Len(out) \in Nat
  BY ThreadFacts DEF SocketInv, StreamInv, LifeInv, Life, QueueInv, QueueTypeOK
<1> SUFFICES ASSUME closer'[Reader] = "ended"
             PROVE  closing' /\ Len(wire') >= due'
  BY DEF Ends
<1>2. CASE WriteStep
  <2>1. /\ buffer' = <<>> /\ dequeue' = "begin" /\ closer[Reader] = "no"
        /\ UNCHANGED <<queueVars, client, shut, closing, due>> /\ npc \in {"write", "idle"}
        /\ \/ UNCHANGED <<writeQueue, wire, closed, closer>>
           \/ writeQueue # <<>> /\ (WriteAll \/ WriteSome \/ WriteNothing)
    BY <1>1, <1>2, WriteFacts
  <2>2. writeQueue # <<>> /\ Pop
    BY <2>1 DEF WriteAll, WriteSome, WriteNothing
  <2>3. /\ closing /\ ~closed /\ writeQueue' = <<>> /\ client # "gone"
    <3>1. closer' # closer
      BY <2>1
    <3>2. /\ closing /\ Tail(writeQueue) = <<>>
          /\ CloseSocket(Reader, IF client = "gone" THEN "cut" ELSE "ended")
      BY <2>2, <3>1 DEF Pop
    <3>3. client = "gone" => closer'[Reader] = "cut"
      BY <3>1, <3>2, <1>1, CloserFacts DEF CloseSocket
    <3> QED BY <2>2, <3>1, <3>2, <3>3 DEF Pop, CloseSocket
  <2>4. Writable'
    BY <2>1, <2>3, <1>1 DEF Writable, Orderly
  <2>5. Len(wire') = Len(out')
    <3>1. PICK j \in Nat : Queued(j)'
      BY <2>4 DEF Account
    <3>2. Taken' = Len(out')
      BY <2>1, <1>1 DEF Taken, QueueTypeOK
    <3>3. Laid(out', <<>>, Len(wire'), j) /\ Lies(out', <<>>, j, Len(out'))
      BY <2>1, <2>3, <3>1, <3>2 DEF Queued
    <3> QED BY <3>3, AllIsOut
  <2>6. Len(out) >= due
    BY <2>1, <2>2, <2>3, <1>1 DEF Owes
  <2> QED BY <2>1, <2>3, <2>5, <2>6 DEF queueVars
<1>3. CASE ~WriteStep
  <2>1. closer[Reader] = "ended" /\ wire' = wire
    <3>1. CASE DequeuePacket \/ MovePacket \/ Drained
      BY <3>1 DEF DequeuePacket, MovePacket, Drained, In, closeVars
    <3>2. CASE PacketArrives \/ ReadError
      <4>1. UNCHANGED closer \/ closer' = [closer EXCEPT ![Reader] = "cut"]
        BY <3>2 DEF PacketArrives, ReadError, CloseSocket
      <4>2. UNCHANGED closer
        BY <4>1, <1>1, CloserFacts
      <4> QED BY <3>2, <4>2 DEF PacketArrives, ReadError, NothingToWrite, writeVars
    <3>3. CASE ReadStep /\ ~PacketArrives /\ ~ReadError
      BY <3>3 DEF ReadStep, ReadTooLate, AskAccount, RefuseClosed, RefuseShort, QueuePacket,
         AuthArrives, DelayedCloseSocket, NothingToWrite, closeVars, writeVars
    <3>4. CASE PlainStep
      BY <3>4 DEF PlainStep, AddNewSockets, StartUpdate, Forget, Update, NoCallback, AnswerQuery,
         LoseClient, AddSession, DeleteSession, NothingToWrite, Elsewhere, closeVars, writeVars
    <3>5. CASE AcceptAccount \/ RefuseAccount \/ LinkRefusal
      BY <3>5 DEF AcceptAccount, RefuseAccount, LinkRefusal, DelayedCloseSocket, NothingToWrite,
         closeVars, writeVars
    <3>6. CASE Kick
      <4>1. UNCHANGED closer \/ closer' = [closer EXCEPT ![World] = "cut"]
        BY <3>6 DEF Kick, CloseSocket
      <4>2. closer'[Reader] = closer[Reader]
        BY <4>1, <1>1, CloserFacts
      <4> QED BY <3>6, <4>2 DEF Kick, Elsewhere, writeVars
    <3>7. ASSUME NEW t \in {Reader, World}, Shutdown(t) \/ OnClose(t)
          PROVE  closer[Reader] = "ended" /\ wire' = wire
      <4>1. closer' = [closer EXCEPT ![t] = "OnClose"] \/ closer' = [closer EXCEPT ![t] = "no"]
        BY <3>7 DEF Shutdown, OnClose
      <4>2. closer'[Reader] = closer[Reader]
        BY <4>1, <1>1, CloserFacts
      <4> QED BY <3>7, <4>2 DEF Shutdown, OnClose, writeVars
    <3>8. ASSUME NEW t \in Others, SendPacket(t) \/ Enqueue(t)
          PROVE  closer[Reader] = "ended" /\ wire' = wire
      BY <3>8 DEF SendPacket, Enqueue, Elsewhere, closeVars, writeVars
    <3>9. CASE UNCHANGED vars
      BY <3>9 DEF vars, closeVars, writeVars
    <3> QED BY <3>1, <3>2, <3>3, <3>4, <3>5, <3>6, <3>7, <3>8, <3>9, <1>3, NextCases
  <2>2. closing /\ Len(wire) >= due /\ closed
    BY <2>1, <1>1 DEF Ends, Orderly, Begun
  <2>3. ~RefuseShort /\ ~(LinkRefusal /\ npc = "refuse")
    BY <2>2, <1>1 DEF RefuseShort, AuthArrives, IsOpen, Orderly
  <2> QED BY <2>1, <2>2, <2>3, ClosingKinds
<1> QED BY <1>2, <1>3

LEMMA StreamStart ==
    ASSUME Init
    PROVE  StreamInv
<1>1. /\ out = <<>> /\ wire = <<>> /\ buffer = <<>> /\ writeQueue = <<>> /\ dequeue = "begin"
      /\ ~closing /\ ~closed /\ shut = "no" /\ npc = "idle" /\ client = "connected"
      /\ Len(<<>>) = 0
      /\ linking = [t \in Threads |-> NoLink]
      /\ closer = [t \in {Reader, World} |-> "no"]
      /\ pos = [t \in Others |-> 0] /\ holding = [t \in Others |-> Null]
  BY DEF Init
<1>2. Account
  <2>1. Lies(<<>>, <<>>, 0, 0) /\ Laid(<<>>, <<>>, 0, 0)
    BY <1>1, LiesNone, LaidEmpty
  <2>2. Taken = 0
    BY <1>1 DEF Taken
  <2>3. Queued(0)
    BY <2>1, <2>2, <1>1 DEF Queued
  <2>4. Lies(out, wire, 0, Len(wire)) /\ LastFull
    BY <2>1, <1>1 DEF LastFull
  <2> QED BY <2>3, <2>4, <1>1 DEF Account
<1>3. Early /\ ReaderLinks
  BY <1>1, ThreadFacts DEF Early, ReaderLinks
<1>4. Drains /\ Owes /\ Ends /\ Orderly
  BY <1>1, ThreadFacts DEF Drains, Owes, Ends, Orderly, Begun
<1> QED BY <1>2, <1>3, <1>4 DEF StreamInv

LEMMA StreamStep ==
    ASSUME SocketInv, StreamInv, [Next]_vars
    PROVE  StreamInv'
<1>1. SocketInv'
  BY SocketStep
<1>2. /\ QueueInv /\ QueueTypeOK /\ Calls /\ Fresh /\ Life /\ WriteTypes /\ Got
      /\ Account /\ Early /\ ReaderLinks /\ Drains /\ Orderly
  BY DEF SocketInv, StreamInv, LifeInv, QueueInv
<1>3. Account'
  BY <1>2, AccountKept
<1>4. Early' /\ ReaderLinks' /\ Drains'
  BY <1>2, EarlyKept, ReaderLinksKept, DrainsKept
<1>5. Orderly'
  BY <1>2, OrderlyKept
<1>6. Owes' /\ Ends'
  BY <1>1, <1>3, OwesKept, EndsKept
<1> QED BY <1>3, <1>4, <1>5, <1>6 DEF StreamInv

(* ---- The stream ------------------------------------------------------- *)

Phase == IF shut # "no" THEN shut ELSE IF closing THEN "flushing" ELSE "open"

streamVars == <<sent, wire, Phase, due>>

\* The first entries of a row are the first of a row that goes on.
LEMMA LiesFirst ==
    ASSUME NEW S, NEW s \in Seq(S), NEW o \in Seq(S), NEW w \in Seq(S), Len(o) <= Len(s),
           \A k \in 1 .. Len(o) : o[k] = s[k], Lies(o, w, 0, Len(w))
    PROVE  Len(w) \in 0 .. Len(s) /\ w = SubSeq(s, 1, Len(w))
<1>1. Len(w) \in Nat /\ Len(s) \in Nat /\ Len(o) \in Nat
  OBVIOUS
<1>2. Len(w) <= Len(o) /\ \A l \in 1 .. Len(w) : w[l] = o[0 + l]
  BY DEF Lies
<1>3. \A l \in 1 .. Len(w) : w[l] = s[l]
  <2> SUFFICES ASSUME NEW l \in 1 .. Len(w) PROVE w[l] = s[l]
    OBVIOUS
  <2>1. l \in 1 .. Len(o) /\ 0 + l = l
    BY <1>1, <1>2
  <2> QED BY <2>1, <1>2
<1> DEFINE p == SubSeq(s, 1, Len(w))
<1>4. /\ p \in Seq(S) /\ Len(p) = Len(w)
      /\ \A l \in 1 .. Len(w) : p[l] = s[l]
  BY <1>1, <1>2, SubSeqProperties
<1> HIDE DEF p
<1>5. w = p
  BY <1>1, <1>3, <1>4
<1> QED BY <1>1, <1>2, <1>5 DEF p

\* A packet is sent: it is a new one.
LEMMA SendIsSend ==
    ASSUME NEW x \in Packets, x \notin Sent, sent' = Append(sent, x),
           UNCHANGED <<wire, shut, closing, due>>
    PROVE  Stream!Next
<1>1. \A k \in DOMAIN sent : sent[k] # x
  BY DEF Sent
<1>2. Stream!Send(x)
  BY <1>1 DEF Stream!Send
<1> QED BY <1>2 DEF Stream!Next

\* A message, or part of one, is written.
LEMMA WriteIsReceive ==
    ASSUME SocketInv, SocketInv', StreamInv, StreamInv', WriteStep
    PROVE  Stream!Next \/ UNCHANGED streamVars
<1>1. /\ UNCHANGED <<queueVars, shut, closing, due>>
      /\ \/ UNCHANGED <<writeQueue, wire, closed, closer>>
         \/ writeQueue # <<>> /\ (WriteAll \/ WriteSome \/ WriteNothing)
  BY WriteFacts DEF SocketInv, StreamInv
<1>2. sent' = sent
  BY <1>1 DEF queueVars
<1>3. CASE wire' = wire
  BY <1>1, <1>2, <1>3 DEF streamVars, Phase
<1>4. CASE wire' # wire
  <2>1. shut = "no" /\ writeQueue # <<>> /\ (WriteAll \/ WriteSome)
    BY <1>1, <1>4 DEF WriteAll, WriteSome, WriteNothing, Writable
  <2>2. /\ wire \in Seq(Packets) /\ wire' \in Seq(Packets) /\ writeQueue \in Seq(Seq(Packets))
        /\ Len(wire) \in Nat /\ Len(wire') \in Nat /\ Len(sent) \in Nat
    BY DEF SocketInv, WriteTypes, QueueInv, QueueTypeOK
  <2>3. Len(wire') \in 0 .. Len(sent') /\ wire' = SubSeq(sent', 1, Len(wire'))
    <3>1. /\ sent' \in Seq(Packets) /\ out' \in Seq(Packets) /\ Len(out') <= Len(sent')
          /\ \A k \in 1 .. Len(out') : out'[k] = sent'[k]
          /\ Lies(out', wire', 0, Len(wire'))
      BY DEF SocketInv, StreamInv, QueueInv, QueueTypeOK, InOrder, Account
    <3> QED BY <2>2, <3>1, LiesFirst
  <2>4. Len(wire') > Len(wire)
    <3>1. PICK p \in Seq(Packets) : wire' = wire \o p
      <4>1. Head(writeQueue) \in Seq(Packets)
        BY <2>1, <2>2
      <4>2. CASE WriteAll
        BY <4>1, <4>2 DEF WriteAll
      <4>3. CASE WriteSome
        <5>1. PICK n \in 0 .. Len(Head(writeQueue)) - 1 :
                wire' = wire \o SubSeq(Head(writeQueue), 1, n)
          BY <4>3 DEF WriteSome
        <5>2. SubSeq(Head(writeQueue), 1, n) \in Seq(Packets)
          BY <4>1, SubSeqProperties
        <5> QED BY <5>1, <5>2
      <4> QED BY <2>1, <4>2, <4>3
    <3>2. p # <<>>
      BY <3>1, <2>2, <1>4
    <3>3. Len(p) \in Nat /\ Len(p) # 0 /\ Len(wire \o p) = Len(wire) + Len(p)
      BY <3>1, <3>2, <2>2
    <3> QED BY <3>1, <3>3, <2>2
  <2>5. Len(wire') \in Len(wire) + 1 .. Len(sent)
    BY <2>2, <2>3, <2>4, <1>2
  <2>6. Stream!Receive(Len(wire'))
    BY <2>1, <2>3, <1>1, <1>2 DEF Stream!Receive, Stream!Live
  <2> QED BY <2>5, <2>6 DEF Stream!Next
<1> QED BY <1>3, <1>4

\* The connection is told to close when it has sent what is due.
LEMMA DelayIsFlush ==
    ASSUME SocketInv, StreamInv, RefuseShort \/ (LinkRefusal /\ npc = "refuse")
    PROVE  Stream!Next
<1>1. closing' /\ due' = Len(sent) /\ shut' = shut /\ sent' = sent
  BY DEF RefuseShort, LinkRefusal, EnqueueSecond, DelayedCloseSocket, queueVars
<1>2. wire' = wire
  BY DEF RefuseShort, LinkRefusal, AuthArrives, NothingToWrite, writeVars
<1>3. ~closing /\ shut = "no"
  BY DEF RefuseShort, AuthArrives, IsOpen, StreamInv, Orderly
<1>4. Stream!Flush
  BY <1>1, <1>2, <1>3 DEF Stream!Flush
<1> QED BY <1>4 DEF Stream!Next

\* The socket is shut down: after what was due, or before.
LEMMA ShutdownEnds ==
    ASSUME SocketInv, StreamInv, NEW t \in {Reader, World}, Shutdown(t)
    PROVE  Stream!Next
<1>1. /\ closer[t] \in {"ended", "cut"} /\ shut' = closer[t]
      /\ UNCHANGED <<sent, wire, closing, due>>
  BY DEF Shutdown, queueVars, writeVars
<1>2. shut = "no"
  BY <1>1 DEF StreamInv, Orderly, Begun
<1>3. CASE closer[t] = "cut"
  <2>1. Stream!Cut
    BY <1>1, <1>2, <1>3 DEF Stream!Cut, Stream!Live
  <2> QED BY <2>1 DEF Stream!Next
<1>4. CASE closer[t] = "ended"
  <2>1. closing /\ Len(wire) >= due
    BY <1>4 DEF StreamInv, Orderly, Ends
  <2>2. Stream!End
    BY <1>1, <1>2, <1>4, <2>1 DEF Stream!End
  <2> QED BY <2>2 DEF Stream!Next
<1> QED BY <1>1, <1>3, <1>4

LEMMA StreamSimulation ==
    ASSUME SocketInv, SocketInv', StreamInv, StreamInv', [Next]_vars
    PROVE  Stream!Next \/ UNCHANGED streamVars
<1>1. CASE DequeuePacket \/ MovePacket \/ Drained
  <2>1. UNCHANGED <<sent, wire, shut, closing, due>>
    BY <1>1 DEF DequeuePacket, MovePacket, Drained, Dequeue, Leave, FindEmpty, PassDummy, TakeTail,
       TailIsLast, CompareHead, ReturnDummy, LinkDummy, writeVars, closeVars
  <2> QED BY <2>1 DEF streamVars, Phase
<1>2. CASE WriteStep
  BY <1>2, WriteIsReceive
<1>3. CASE RefuseShort \/ (LinkRefusal /\ npc = "refuse")
  BY <1>3, DelayIsFlush
<1>4. CASE RefuseAccount \/ RefuseClosed
  <2>1. UNCHANGED <<wire, shut, closing, due>>
    BY <1>4 DEF RefuseAccount, RefuseClosed, AuthArrives, NothingToWrite, closeVars, writeVars
  <2>2. Refusal \notin Sent /\ Refusal \in Packets
    BY <1>4, RefusalIsNew DEF RefuseAccount, RefuseClosed, AuthArrives, SocketInv
  <2>3. sent' = Append(sent, Refusal) \/ sent' = sent
    BY <1>4 DEF RefuseAccount, RefuseClosed, SendRefusal, EnqueueFirst, queueVars
  <2>4. CASE sent' = Append(sent, Refusal)
    BY <2>1, <2>2, <2>4, SendIsSend
  <2>5. CASE sent' = sent
    BY <2>1, <2>5 DEF streamVars, Phase
  <2> QED BY <2>3, <2>4, <2>5
<1>5. ASSUME NEW t \in Others, Enqueue(t) PROVE Stream!Next \/ UNCHANGED streamVars
  <2>1. UNCHANGED <<wire, shut, closing, due>>
    BY <1>5 DEF Enqueue, Elsewhere, closeVars, writeVars
  <2>2. CASE holding[t] # Null /\ EnqueueFirst(t, holding[t])
    <3>1. holding[t] \notin Sent /\ holding[t] \in Packets
      BY <2>2, HoldingIsNew DEF SocketInv
    <3> QED BY <2>1, <2>2, <3>1, SendIsSend DEF EnqueueFirst
  <2>3. CASE EnqueueSecond(t)
    BY <2>1, <2>3 DEF EnqueueSecond, streamVars, Phase
  <2> QED BY <1>5, <2>2, <2>3 DEF Enqueue
<1>6. ASSUME NEW t \in {Reader, World}, Shutdown(t) PROVE Stream!Next
  BY <1>6, ShutdownEnds
<1>7. CASE (ReadStep /\ ~RefuseShort /\ ~RefuseClosed) \/ PlainStep \/ AcceptAccount \/ Kick
  <2>1. UNCHANGED <<wire, shut, closing, due>>
    BY <1>7 DEF ReadStep, ReadTooLate, AskAccount, PacketArrives, QueuePacket, ReadError,
       AuthArrives, PlainStep, AddNewSockets, StartUpdate, Forget, Update, NoCallback, AnswerQuery,
       LoseClient, AddSession, DeleteSession, AcceptAccount, Kick, NothingToWrite, Elsewhere,
       closeVars, writeVars
  <2>2. sent' = sent
    BY <1>7 DEF ReadStep, ReadTooLate, AskAccount, PacketArrives, QueuePacket, ReadError,
       AuthArrives, PlainStep, AddNewSockets, StartUpdate, Forget, Update, NoCallback, AnswerQuery,
       LoseClient, AddSession, DeleteSession, AcceptAccount, Kick, queueVars
  <2> QED BY <2>1, <2>2 DEF streamVars, Phase
<1>8. CASE LinkRefusal /\ npc # "refuse"
  BY <1>8 DEF LinkRefusal, EnqueueSecond, NothingToWrite, closeVars, writeVars, streamVars, Phase
<1>9. ASSUME NEW t \in {Reader, World}, OnClose(t) PROVE UNCHANGED streamVars
  BY <1>9 DEF OnClose, queueVars, writeVars, streamVars, Phase
<1>10. ASSUME NEW t \in Others, SendPacket(t) PROVE UNCHANGED streamVars
  BY <1>10 DEF SendPacket, Elsewhere, queueVars, closeVars, writeVars, streamVars, Phase
<1>11. CASE UNCHANGED vars
  BY <1>11 DEF vars, queueVars, closeVars, writeVars, streamVars, Phase
<1> QED BY <1>1, <1>2, <1>3, <1>4, <1>5, <1>6, <1>7, <1>8, <1>9, <1>10, <1>11, NextCases
    DEF ReadStep

\* The inductive invariant of what the connection sends and how it ends.
THEOREM StreamInvariant == Spec => []StreamInv
<1>1. Init => SocketInv /\ StreamInv
  BY SocketStart, StreamStart
<1>2. SocketInv /\ StreamInv /\ [Next]_vars => SocketInv' /\ StreamInv'
  BY SocketStep, StreamStep
<1> QED BY <1>1, <1>2, PTL DEF Spec

\* The connection is the stream the rest of the server takes it for: what SendPacket
\* was given reaches the wire whole, once and in order, and a delayed close shuts the
\* socket down after the last packet it owes, unless it is cut before.
THEOREM StreamIsImplemented == Spec => ImplementsStream
<1>1. Init => Stream!Init
  BY PacketAssumption DEF Init, Stream!Init
<1>2. SocketInv /\ SocketInv' /\ StreamInv /\ StreamInv' /\ [Next]_vars
        => [Stream!Next]_streamVars
  BY StreamSimulation
<1> QED BY <1>1, <1>2, SocketInvariant, StreamInvariant, PTL
    DEF Spec, ImplementsStream, Stream!Spec, streamVars, Phase
=============================================================================
