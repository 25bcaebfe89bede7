---------------------------- MODULE WorldSessions ----------------------------
(***************************************************************************)
(* The life of WorldSession objects (src/server/game: World.cpp,           *)
(* WorldSession.cpp, CharacterHandler.cpp).  Network threads construct      *)
(* sessions and close sockets at any time; the world thread collects new    *)
(* sessions, keeps the login queue and walks over m_sessions and            *)
(* m_offlineSessions once per tick; the worker of the character database     *)
(* answers queries first in, first out (DatabasePool!CommitOrder).           *)
(***************************************************************************)
EXTENDS Naturals, FiniteSets, SequencesExt

CONSTANTS
    Sessions,      \* WorldSession objects
    NoSession,
    Accounts,      \* account ids
    NoAccount,
    Account,       \* Sessions -> Accounts
    Chars,         \* characters
    NoChar,
    Owner,         \* Chars -> Accounts
    Limit,         \* m_playerLimit, 0: none
    Privileged,    \* sessions that skip the queue (GM account, CanSkipQueue)
    OfflineTicks,  \* bound: ticks that stand for the 60 s of an offline session
    MaxBids        \* bound: auction transactions in a behaviour

ASSUME AccountAssumption == Account \in [Sessions -> Accounts]
ASSUME OwnerAssumption == Owner \in [Chars -> Accounts]
ASSUME NoneAssumption ==
    NoSession \notin Sessions /\ NoChar \notin Chars /\ NoAccount \notin Accounts
ASSUME LimitAssumption ==
    /\ Limit \in Nat /\ OfflineTicks \in Nat /\ MaxBids \in Nat
    /\ Privileged \subseteq Sessions

VARIABLES
    born, alive,      \* sessions constructed, not yet destroyed
    ws,               \* the fields of each WorldSession
    newSessions,      \* World::m_newSessions
    sessions,         \* World::m_sessions: account -> session
    offlineSessions,  \* World::m_offlineSessions
    queuedPlayer,     \* World::m_QueuedPlayer
    pc, itr,          \* where World::UpdateSessions stands, and its iterator
    left,             \* the accounts the iterator has still to reach
    stopped,          \* World::IsStopped
    charDB,           \* operations queued for the character database
    online,           \* accounts whose last write to account.online was 1
    bids

objectVars  == <<born, alive, ws>>
worldVars   == <<newSessions, sessions, offlineSessions, queuedPlayer>>
loopVars    == <<pc, itr, left, stopped>>
historyVars == <<online, bids>>
vars == <<objectVars, worldVars, loopVars, charDB, historyVars>>

\* m_Socket, _kicked, m_inQueue, the InitializeSession query, m_playerLoading
\* with its character, whether that load is answered, _player, whether
\* _logoutTime is set, the entry in _transactionCallbacks, ticks since _offlineTime.
Session == [socket : {"open", "closed", "null"}, kicked : BOOLEAN, inQueue : BOOLEAN,
            init : {"no", "asked", "answered", "done"},
            loading : Chars \cup {NoChar}, loaded : BOOLEAN,
            player : Chars \cup {NoChar}, logout : BOOLEAN,
            bid : {"none", "asked", "answered"}, age : Nat]

Blank == [socket |-> "null", kicked |-> FALSE, inQueue |-> FALSE, init |-> "no",
          loading |-> NoChar, loaded |-> FALSE, player |-> NoChar, logout |-> FALSE,
          bid |-> "none", age |-> 0]

Listed == Range(sessions) \ {NoSession}
Offline == Range(offlineSessions) \ {NoSession}

Query(kind, s, c) == [kind |-> kind, session |-> s, char |-> c]

Init ==
    /\ born = {} /\ alive = {} /\ ws = [s \in Sessions |-> Blank]
    /\ newSessions = <<>> /\ queuedPlayer = <<>>
    /\ sessions = [a \in Accounts |-> NoSession]
    /\ offlineSessions = [a \in Accounts |-> NoSession]
    /\ pc = "between" /\ itr = NoAccount /\ left = {} /\ stopped = FALSE
    /\ charDB = <<>> /\ online = {} /\ bids = 0

----------------------------------------------------------------------------
(* Network threads and the database worker.                                *)

\* WorldSocket::HandleAuthAccount: the constructor writes online = 1 before
\* QueueNewSession hands the object to the world thread.
NewSession(s) ==
    /\ s \notin born
    /\ born' = born \cup {s} /\ alive' = alive \cup {s}
    /\ ws' = [ws EXCEPT ![s].socket = "open"]
    /\ online' = online \cup {Account[s]}
    /\ newSessions' = Append(newSessions, s)
    /\ UNCHANGED <<sessions, offlineSessions, queuedPlayer, loopVars, charDB, bids>>

\* The client disconnects, an error occurs or the idle timer fires.
LoseSocket(s) ==
    /\ ws[s].socket = "open"
    /\ ws' = [ws EXCEPT ![s].socket = "closed"]
    /\ UNCHANGED <<born, alive, worldVars, loopVars, charDB, historyVars>>

\* The answer of a session that is gone reaches nobody.
AnswerQuery ==
    /\ charDB # <<>>
    /\ LET q == Head(charDB) IN
         ws' = IF q.session \notin alive THEN ws
               ELSE CASE q.kind = "init" -> [ws EXCEPT ![q.session].init = "answered"]
                      [] q.kind = "load" -> [ws EXCEPT ![q.session].loaded = TRUE]
                      [] q.kind = "bid"  -> [ws EXCEPT ![q.session].bid = "answered"]
    /\ charDB' = Tail(charDB)
    /\ UNCHANGED <<born, alive, worldVars, loopVars, historyVars>>

----------------------------------------------------------------------------
(* What several handlers do.                                               *)

\* LogoutPlayer: a character leaving the world is saved, by ~WorldSession only
\* if no transaction is pending.
Save(s) == IF s # NoSession /\ ws[s].player # NoChar /\ ws[s].bid = "none"
             THEN <<Query("save", NoSession, ws[s].player)>> ELSE <<>>

\* ~WorldSession: the caller pushes Save(s); the account is marked offline unless
\* SetShouldSetOfflineInDB(false).
Destroy(s, setOffline) ==
    /\ alive' = alive \ {s}
    /\ online' = IF s # NoSession /\ setOffline THEN online \ {Account[s]} ELSE online

\* Faults of the next operator: the admitted session stays in the queue; a session
\* that was not queued still counts as active.
RemovalKeeps(s) ==
    LET rest == RemoveFirst(queuedPlayer, s)
        room == Cardinality(Listed) - Len(queuedPlayer)
                  < (IF s \in Range(queuedPlayer) THEN Limit ELSE Limit + 1)
    IN  [admitted |-> IF room /\ rest # <<>> THEN Head(rest) ELSE NoSession,
         queue |-> rest]

RemovalCountsLeaver(s) ==
    LET rest == RemoveFirst(queuedPlayer, s)
        lets == Cardinality(Listed) - Len(queuedPlayer) < Limit /\ rest # <<>>
    IN  [admitted |-> IF lets THEN Head(rest) ELSE NoSession,
         queue |-> IF lets THEN Tail(rest) ELSE rest]

\* RemoveQueuedPlayer(s): s leaves the queue or stops being active, and the
\* first in the queue is let in when the limit allows.
Removal(s) ==
    LET found == s \in Range(queuedPlayer)
        active == Cardinality(Listed) - Len(queuedPlayer)
        rest == RemoveFirst(queuedPlayer, s)
        room == Limit = 0 \/ (IF found THEN active ELSE active - 1) < Limit
        lets == room /\ rest # <<>>
    IN  [admitted |-> IF lets THEN Head(rest) ELSE NoSession,
         queue |-> IF lets THEN Tail(rest) ELSE rest]

\* InitializeSession sends the account query of the session.
Ask(s) == IF s = NoSession THEN <<>> ELSE <<Query("init", s, NoChar)>>

\* The fields of all sessions after some are destroyed, one loses its socket
\* object and becomes offline, and some are initialised.
Fields(gone, detached, asked) ==
    [s \in Sessions |->
        IF s \in gone THEN Blank
        ELSE IF s = detached THEN [ws[s] EXCEPT !.socket = "null", !.inQueue = FALSE, !.age = 0]
        ELSE IF s \in asked THEN [ws[s] EXCEPT !.init = "asked"]
        ELSE ws[s]]

\* HandleSocketClosed keeps the character of a lost connection in the world;
\* it does not when the character flies or is between two maps, which is left open.
MayStay(s) == ~ws[s].kicked /\ ws[s].player # NoChar /\ ~stopped

----------------------------------------------------------------------------
(* World::AddSession.                                                      *)

Newcomer == Head(newSessions)
Previous == sessions[Account[Newcomer]]

Collecting == pc = "collect" /\ newSessions # <<>> /\ newSessions' = Tail(newSessions)

\* KickSession refuses while the old session awaits a transaction or a load.
Busy(s) == ws[s].bid # "none" \/ ws[s].loading # NoChar

\* Fault: the refused session is not deleted.
RefuseAndForget ==
    /\ Collecting
    /\ Previous # NoSession /\ Busy(Previous)
    /\ ws' = Fields({Newcomer}, NoSession, {})
    /\ UNCHANGED <<born, alive, sessions, offlineSessions, queuedPlayer, loopVars, charDB,
                   historyVars>>

RefuseSession ==
    /\ Collecting
    /\ Previous # NoSession /\ Busy(Previous)
    /\ Destroy(Newcomer, TRUE)
    /\ ws' = Fields({Newcomer}, NoSession, {})
    /\ UNCHANGED <<born, sessions, offlineSessions, queuedPlayer, loopVars, charDB, bids>>

\* The other sessions, queued ones included, reach the limit.
\* Fault: one too many.
MustWaitLate(s) ==
    /\ Limit > 0 /\ Cardinality(Listed \ {Previous}) > Limit
    /\ s \notin Privileged

MustWait(s) ==
    /\ Limit > 0 /\ Cardinality(Listed \ {Previous}) >= Limit
    /\ s \notin Privileged

\* Fault: the session that is replaced goes to the queue.
AdmitWrongOne(s, gone, detached, queue, admitted, saves) ==
    /\ sessions' = [sessions EXCEPT ![Account[s]] = s]
    /\ queuedPlayer' = IF MustWait(s) THEN Append(queue, Previous) ELSE queue
    /\ ws' = Fields(gone, detached, IF MustWait(s) THEN {admitted} ELSE {admitted, s})
    /\ charDB' = charDB \o Ask(admitted) \o saves
                   \o (IF MustWait(s) THEN <<>> ELSE Ask(s))

\* The new session s takes its place in m_sessions, and in the queue or not;
\* `queue` and `admitted` are what RemoveQueuedPlayer left, `saves` was pushed before.
Admit(s, gone, detached, queue, admitted, saves) ==
    /\ sessions' = [sessions EXCEPT ![Account[s]] = s]
    /\ queuedPlayer' = IF MustWait(s) THEN Append(queue, s) ELSE queue
    /\ ws' = IF MustWait(s)
               THEN [Fields(gone, detached, {admitted}) EXCEPT ![s].inQueue = TRUE]
               ELSE Fields(gone, detached, {admitted, s})
    /\ charDB' = charDB \o Ask(admitted) \o saves
                   \o (IF MustWait(s) THEN <<>> ELSE Ask(s))

AddFirstSession ==
    /\ Collecting
    /\ Previous = NoSession
    /\ Admit(Newcomer, {}, NoSession, queuedPlayer, NoSession, <<>>)
    /\ UNCHANGED <<born, alive, offlineSessions, loopVars, historyVars>>

\* The old session is kicked without _kicked, so its character may stay; an
\* older offline session of the account is then destroyed.
ReplaceSession ==
    /\ Collecting
    /\ Previous # NoSession /\ ~Busy(Previous)
    /\ LET a == Account[Newcomer]
           r == Removal(Previous)
           older == offlineSessions[a]
       IN  \/ /\ MayStay(Previous)
              /\ Destroy(older, FALSE)
              /\ offlineSessions' = [offlineSessions EXCEPT ![a] = Previous]
              /\ Admit(Newcomer, {older}, Previous, r.queue, r.admitted, Save(older))
           \/ /\ Destroy(Previous, FALSE)
              /\ Admit(Newcomer, {Previous}, NoSession, r.queue, r.admitted, Save(Previous))
              /\ UNCHANGED offlineSessions
    /\ UNCHANGED <<born, loopVars, bids>>

----------------------------------------------------------------------------
(* World::UpdateSessions, the walk over m_sessions.                        *)

\* SessionMap is a hash map: a walk over it meets its entries in any order.
Entries(map) == {a \in Accounts : map[a] # NoSession}

EndTick == IF stopped THEN "halted" ELSE "between"

\* The iterator goes on to one of the accounts `rest`, or stays at end().
Advance(rest, there, end) ==
    IF rest = {} THEN pc' = end /\ itr' = NoAccount /\ left' = {}
    ELSE \E a \in rest : pc' = there /\ itr' = a /\ left' = rest \ {a}

Sweep(rest) == Advance(rest, "sweep", EndTick)

Visit(rest, offline) ==
    IF rest # {} THEN Advance(rest, "visit", EndTick) ELSE Sweep(Entries(offline))

\* A tick begins; the timer decides whether new sessions are collected, and
\* one may arrive after the last Dequeue.
BeginTick ==
    /\ pc = "between" /\ pc' = "collect"
    /\ UNCHANGED <<objectVars, worldVars, itr, left, stopped, charDB, historyVars>>

BeginWalk ==
    /\ pc = "collect"
    /\ Visit(Entries(sessions), offlineSessions)
    /\ UNCHANGED <<objectVars, worldVars, stopped, charDB, historyVars>>

Current == sessions[itr]

KeepOffline ==
    /\ pc = "visit" /\ ws[Current].socket = "closed" /\ MayStay(Current)
    /\ LET r == Removal(Current)
           older == offlineSessions[itr]
       IN  /\ sessions' = [sessions EXCEPT ![itr] = NoSession]
           /\ queuedPlayer' = r.queue
           /\ Destroy(older, FALSE)
           /\ ws' = Fields({older}, Current, {r.admitted})
           /\ charDB' = charDB \o Ask(r.admitted) \o Save(older)
           /\ offlineSessions' = [offlineSessions EXCEPT ![itr] = Current]
    /\ Visit(left, offlineSessions')
    /\ UNCHANGED <<born, newSessions, stopped, bids>>

BeginUpdate ==
    /\ pc = "visit" /\ pc' = "packets"
    /\ UNCHANGED <<objectVars, worldVars, itr, left, stopped, charDB, historyVars>>

----------------------------------------------------------------------------
(* WorldSession::Update: packets, while the socket is open.                 *)

Reading == pc = "packets" /\ ws[Current].socket = "open"

Kicked(r) == [r EXCEPT !.kicked = TRUE, !.socket = IF @ = "open" THEN "closed" ELSE @]

\* AntiDOS or an invalid packet; in a map's thread too, between two walks.
KickPacket(s) ==
    /\ \/ Reading /\ s = Current
       \/ pc = "between" /\ s \in Listed /\ ws[s].player # NoChar
    /\ ws[s].socket = "open"
    /\ ws' = [ws EXCEPT ![s] = Kicked(@)]
    /\ UNCHANGED <<born, alive, worldVars, loopVars, charDB, historyVars>>

\* The character is still in the world: the new session takes it over.
\* Fault: both sessions keep it.
TakeOverShared(s, off, c) == ws' = [ws EXCEPT ![s].player = c]
TakeOver(s, off, c) == ws' = [ws EXCEPT ![off].player = NoChar, ![s].player = c]

\* An offline session with another character is kicked, then c is loaded.
\* Fault: the same character is loaded as well.
MayLoadAny(off, c) == off # NoSession => ws[off].player # NoChar /\ ~ws[off].kicked
MayLoad(off, c) == off # NoSession => ws[off].player \notin {NoChar, c} /\ ~ws[off].kicked

\* HandlePlayerLoginOpcode(c).  A packet that is ignored or answered with an
\* error changes nothing.
LoginPacket(c) ==
    /\ Reading /\ ~ws[Current].inQueue /\ Owner[c] = itr
    /\ LET s == Current
           off == offlineSessions[itr]
       IN  IF ws[s].loading # NoChar \/ ws[s].player # NoChar
             THEN ws' = [ws EXCEPT ![s] = Kicked(@)] /\ UNCHANGED charDB
             ELSE \/ /\ off # NoSession /\ ws[off].player = c /\ ~ws[off].kicked
                     /\ TakeOver(s, off, c)
                     /\ UNCHANGED charDB
                  \/ /\ MayLoad(off, c)
                     /\ ws' = [t \in Sessions |->
                                 IF t = s THEN [ws[s] EXCEPT !.loading = c]
                                 ELSE IF t = off THEN Kicked(ws[off]) ELSE ws[t]]
                     /\ charDB' = Append(charDB, Query("load", s, c))
    /\ UNCHANGED <<born, alive, worldVars, loopVars, historyVars>>

\* A request sets _logoutTime; one that is refused, or a cancel, resets it.
LogoutPacket ==
    /\ Reading /\ ws[Current].player # NoChar
    /\ \E accepted \in BOOLEAN : ws' = [ws EXCEPT ![Current].logout = accepted]
    /\ UNCHANGED <<born, alive, worldVars, loopVars, charDB, historyVars>>

\* Auction handlers: AddTransactionCallback(AsyncCommitTransaction(...)).  One
\* pending transaction per session behaves like several.
BidPacket ==
    /\ Reading /\ ws[Current].player # NoChar /\ ws[Current].bid = "none" /\ bids < MaxBids
    /\ bids' = bids + 1
    /\ ws' = [ws EXCEPT ![Current].bid = "asked"]
    /\ charDB' = Append(charDB, Query("bid", Current, ws[Current].player))
    /\ UNCHANGED <<born, alive, worldVars, loopVars, online>>

----------------------------------------------------------------------------
(* WorldSession::Update: callbacks and the end of the session.             *)

\* HandlePlayerLoginFromDB: the character enters the world (and the caller
\* writes online = 1), or cannot be loaded.
EnterWorld(r, wellLoaded) ==
    LET done == [r EXCEPT !.loading = NoChar, !.loaded = FALSE]
    IN  IF wellLoaded THEN [done EXCEPT !.player = r.loading] ELSE Kicked(done)

QueryCallbacks(r, wellLoaded) ==
    LET inited == IF r.init = "answered"
                    THEN [r EXCEPT !.init = "done", !.inQueue = FALSE] ELSE r
    IN  IF r.loaded THEN EnterWorld(inited, wellLoaded) ELSE inited

\* Query callbacks need an open socket, transaction callbacks do not.
\* Fault: both do.
CalledIfOpen(r, wellLoaded) ==
    IF r.socket # "open" THEN r
    ELSE [QueryCallbacks(r, wellLoaded) EXCEPT !.bid = IF @ = "answered" THEN "none" ELSE @]

Called(r, wellLoaded) ==
    LET asked == IF r.socket = "open" THEN QueryCallbacks(r, wellLoaded) ELSE r
    IN  [asked EXCEPT !.bid = IF @ = "answered" THEN "none" ELSE @]

ProcessCallbacks(wellLoaded) ==
    /\ pc = "packets" /\ pc' = "finish"
    /\ ws' = [ws EXCEPT ![Current] = Called(@, wellLoaded)]
    /\ online' = IF ws[Current].socket = "open" /\ ws[Current].loaded /\ wellLoaded
                   THEN online \cup {Account[Current]} ELSE online
    /\ UNCHANGED <<born, alive, worldVars, itr, left, stopped, charDB, bids>>

\* The session stays: its socket is open or it awaits a transaction.  A due
\* logout happens unless a transaction or a load is pending.
FinishUpdate ==
    /\ pc = "finish"
    /\ LET r == ws[Current] IN
         /\ r.socket = "open" \/ r.bid # "none"
         /\ \/ /\ r.logout /\ r.bid = "none" /\ r.loading = NoChar
               /\ ws' = [ws EXCEPT ![Current].player = NoChar, ![Current].logout = FALSE]
               /\ charDB' = charDB \o Save(Current)
            \/ UNCHANGED <<ws, charDB>>
    /\ Visit(left, offlineSessions)
    /\ UNCHANGED <<born, alive, worldVars, stopped, historyVars>>

\* Update returned false: RemoveQueuedPlayer, erase, delete.
RemoveSession ==
    /\ pc = "finish"
    /\ ws[Current].socket = "closed" /\ ws[Current].bid = "none"
    /\ LET r == Removal(Current) IN
         /\ queuedPlayer' = r.queue
         /\ sessions' = [sessions EXCEPT ![itr] = NoSession]
         /\ Destroy(Current, offlineSessions[itr] = NoSession)
         /\ ws' = Fields({Current}, NoSession, {r.admitted})
         /\ charDB' = charDB \o Ask(r.admitted) \o Save(Current)
    /\ Visit(left, offlineSessions)
    /\ UNCHANGED <<born, newSessions, offlineSessions, stopped, bids>>

----------------------------------------------------------------------------
(* The walk over m_offlineSessions, and the end of the process.            *)

\* Fault: the kick is not looked at.
ExpiredKickIgnored(s) == ws[s].player = NoChar \/ ws[s].age >= OfflineTicks
Expired(s) == ws[s].player = NoChar \/ ws[s].age >= OfflineTicks \/ ws[s].kicked

SweepOffline ==
    /\ pc = "sweep"
    /\ LET s == offlineSessions[itr] IN
         \/ /\ Expired(s)
            /\ Destroy(s, sessions[itr] = NoSession)
            /\ ws' = Fields({s}, NoSession, {})
            /\ charDB' = charDB \o Save(s)
            /\ offlineSessions' = [offlineSessions EXCEPT ![itr] = NoSession]
         \/ /\ ~Expired(s)
            /\ ws' = [ws EXCEPT ![s].age = @ + 1]
            /\ UNCHANGED <<alive, online, charDB, offlineSessions>>
    /\ Sweep(left)
    /\ UNCHANGED <<born, newSessions, sessions, queuedPlayer, stopped, bids>>

\* WorldThread leaves its loop: KickAll, then OnShutdown runs UpdateSessions once.
KickAll ==
    /\ pc = "between" /\ ~stopped
    /\ stopped' = TRUE /\ pc' = "collect"
    /\ queuedPlayer' = <<>>
    /\ ws' = [s \in Sessions |-> IF s \in Listed \cup Offline THEN Kicked(ws[s]) ELSE ws[s]]
    /\ UNCHANGED <<born, alive, newSessions, sessions, offlineSessions, itr, left, charDB, historyVars>>

----------------------------------------------------------------------------
WorldStep ==
    \/ BeginTick \/ RefuseSession \/ AddFirstSession \/ ReplaceSession \/ BeginWalk
    \/ KeepOffline \/ BeginUpdate
    \/ \E wellLoaded \in BOOLEAN : ProcessCallbacks(wellLoaded)
    \/ FinishUpdate \/ RemoveSession \/ SweepOffline

Packet ==
    \/ \E s \in Sessions : KickPacket(s)
    \/ \E c \in Chars : LoginPacket(c)
    \/ LogoutPacket \/ BidPacket

Next ==
    \/ \E s \in Sessions : NewSession(s) \/ LoseSocket(s)
    \/ AnswerQuery
    \/ WorldStep \/ Packet \/ KickAll

Spec == Init /\ [][Next]_vars

\* The world thread loops and the database worker executes what is queued.
Fairness == WF_vars(WorldStep) /\ WF_vars(AnswerQuery)

FairSpec == Spec /\ Fairness

----------------------------------------------------------------------------
(* Properties.                                                             *)

CharQuery ==
    [kind : {"init", "load", "bid"}, session : Sessions, char : Chars \cup {NoChar}]
      \cup [kind : {"save"}, session : {NoSession}, char : Chars]

TypeOK ==
    /\ born \subseteq Sessions /\ alive \subseteq born
    /\ ws \in [Sessions -> Session]
    /\ newSessions \in Seq(Sessions) /\ queuedPlayer \in Seq(Sessions)
    /\ sessions \in [Accounts -> Sessions \cup {NoSession}]
    /\ offlineSessions \in [Accounts -> Sessions \cup {NoSession}]
    /\ pc \in {"between", "collect", "visit", "packets", "finish", "sweep", "halted"}
    /\ itr \in Accounts \cup {NoAccount} /\ left \subseteq Accounts /\ stopped \in BOOLEAN
    /\ charDB \in Seq(CharQuery)
    /\ online \subseteq Accounts /\ bids \in Nat

\* Every session that exists is in exactly one container of the world thread,
\* and no container holds a destroyed one: nothing leaks, nothing dangles.
OneContainer ==
    /\ alive = Range(newSessions) \cup Listed \cup Offline
    /\ Range(newSessions) \cap Listed = {} /\ Range(newSessions) \cap Offline = {}
    /\ Listed \cap Offline = {}

\* m_QueuedPlayer holds listed sessions, each once, and InitializeSession was
\* called for every listed session outside it and for none inside.
QueueSound ==
    /\ \A j, k \in DOMAIN queuedPlayer : queuedPlayer[j] = queuedPlayer[k] => j = k
    /\ Range(queuedPlayer) \subseteq Listed
    /\ ~stopped => \A s \in Listed : s \in Range(queuedPlayer) <=> ws[s].init = "no"

Active == Listed \ Range(queuedPlayer)

\* Nobody waits while there is room, and those who had to respect the limit do
\* not exceed it, whoever left, was replaced or stayed offline in between.
QueueFair ==
    Limit > 0 /\ ~stopped =>
        /\ queuedPlayer # <<>> => Cardinality(Active) >= Limit
        /\ Cardinality(Active \ Privileged) <= Limit

\* A character is in the world once, and is not loaded from the database for one
\* session while another still has it in the world.
NoSecondBody ==
    \A s \in alive : \A t \in alive \ {s} :
        ws[s].player # NoChar => ws[s].player \notin {ws[t].player, ws[t].loading}

\* A load never overtakes the save it has to see.
LoadAfterSave ==
    \A j, k \in DOMAIN charDB :
        /\ charDB[j].kind = "load" /\ charDB[j].session \in alive
        /\ charDB[k].kind = "save" /\ charDB[k].char = charDB[j].char
        => k < j

\* "each account can only have one online character at any given time"
\* (WorldSession.cpp): between two ticks it has.
OneCharacter ==
    pc = "between" => \A s, t \in alive :
        (s # t /\ ws[s].player # NoChar /\ ws[t].player # NoChar) => Account[s] # Account[t]

\* A session whose socket is closed is destroyed: neither a pending transaction,
\* the queue nor the time a character stays in the world keeps it for ever.
ClosedLeaves ==
    \A s \in Sessions :
        (s \in Listed \cup Offline /\ ws[s].socket # "open") ~> (s \notin alive \/ pc = "halted")

\* "sWorld->KickAll(); // save and kick all players" (ServerThreads.cpp:76).
AllSaved == pc = "halted" => \A s \in alive : ws[s].kicked => ws[s].player = NoChar

\* "don't set offline in db because new session for that acc is already created"
\* (World.cpp): the last thing written about an account with a session is online = 1.
OnlineFlag == pc = "between" => \A s \in Listed : Account[s] \in online
=============================================================================
