------------------------ MODULE WorldSessionsProofs ------------------------
(***************************************************************************)
(* Theorems about WorldSessions for every set of sessions, accounts and     *)
(* characters and every limit.                                              *)
(***************************************************************************)
EXTENDS WorldSessions, FiniteSetTheorems, WellFoundedInduction, TLAPS

(* ---- The operators the model is built from --------------------------- *)

\* Min of FiniteSetsExt is what its name says, for any set of numbers.
LEMMA NatMin ==
    ASSUME NEW T \in SUBSET Nat, T # {}
    PROVE  Min(T) \in T /\ \A y \in T : Min(T) <= y
<1>1. \E x \in T : \A y \in T : ~ (<<y, x>> \in OpToRel(<, Nat))
  BY WFMin, NatLessThanWellFounded, Zenon
<1>2. PICK x \in T : \A y \in T : ~ (y < x)
  BY <1>1, Zenon DEF OpToRel
<1>3. \A y \in T : x <= y
  BY <1>2
<1> QED BY <1>3 DEF Min

\* Removing the element at position p closes the gap.
LEMMA RemoveAtFacts ==
    ASSUME NEW S, NEW s \in Seq(S), NEW p \in 1 .. Len(s)
    PROVE  /\ RemoveAt(s, p) \in Seq(S) /\ Len(RemoveAt(s, p)) = Len(s) - 1
           /\ \A k \in 1 .. Len(s) - 1 :
                RemoveAt(s, p)[k] = IF k < p THEN s[k] ELSE s[k + 1]
<1> DEFINE a == SubSeq(s, 1, p - 1)
           b == SubSeq(s, p + 1, Len(s))
<1>1. a \in Seq(S) /\ Len(a) = p - 1 /\ \A k \in 1 .. p - 1 : a[k] = s[k]
  OBVIOUS
<1>2. b \in Seq(S) /\ Len(b) = Len(s) - p /\ \A k \in 1 .. Len(s) - p : b[k] = s[p + k]
  OBVIOUS
<1> HIDE DEF a, b
<1>3. a \o b \in Seq(S) /\ Len(a \o b) = Len(s) - 1
  <2>1. a \o b \in Seq(S) /\ Len(a \o b) = Len(a) + Len(b)
    <3>1. a \in Seq(S) /\ b \in Seq(S)
      BY <1>1, <1>2
    <3> QED BY <3>1
  <2>2. Len(s) \in Nat /\ (p - 1) + (Len(s) - p) = Len(s) - 1
    OBVIOUS
  <2> QED BY <1>1, <1>2, <2>1, <2>2
<1>4. ASSUME NEW k \in 1 .. Len(s) - 1
      PROVE  (a \o b)[k] = IF k < p THEN s[k] ELSE s[k + 1]
  <2>1. CASE k < p
    BY <1>1, <1>2, <2>1
  <2>2. CASE ~(k < p)
    <3>1. (a \o b)[k] = b[k - (p - 1)] /\ k - (p - 1) \in 1 .. Len(s) - p
      BY <1>1, <1>2, <2>2
    <3> QED BY <1>2, <2>2, <3>1
  <2> QED BY <2>1, <2>2
<1> QED BY <1>3, <1>4 DEF RemoveAt, a, b

\* RemoveFirst takes one occurrence out, if there is one.
LEMMA RemoveFirstFacts ==
    ASSUME NEW S, NEW s \in Seq(S), NEW e
    PROVE  \/ e \notin Range(s) /\ RemoveFirst(s, e) = s
           \/ \E p \in 1 .. Len(s) : s[p] = e /\ RemoveFirst(s, e) = RemoveAt(s, p)
<1>1. DOMAIN s = 1 .. Len(s)
  OBVIOUS
<1>2. CASE \A i \in 1 .. Len(s) : s[i] # e
  BY <1>1, <1>2 DEF RemoveFirst, Range
<1>3. CASE \E i \in 1 .. Len(s) : s[i] = e
  <2> DEFINE I == {i \in 1 .. Len(s) : s[i] = e}
  <2>1. I \in SUBSET Nat /\ I # {}
    BY <1>3
  <2>2. Min(I) \in I
    BY <2>1, NatMin
  <2>3. RemoveFirst(s, e) = RemoveAt(s, Min(I))
    BY <1>3, <2>1 DEF RemoveFirst, SelectInSeq
  <2> QED BY <2>2, <2>3
<1> QED BY <1>2, <1>3

\* The elements of a queue without repetition after a removal.
LEMMA RemovedOnce ==
    ASSUME NEW S, NEW s \in Seq(S), NEW e,
           \A j, k \in DOMAIN s : s[j] = s[k] => j = k
    PROVE  LET r == RemoveFirst(s, e)
           IN  /\ r \in Seq(S)
               /\ \A j, k \in DOMAIN r : r[j] = r[k] => j = k
               /\ Range(r) = Range(s) \ {e}
<1> DEFINE r == RemoveFirst(s, e)
<1>1. CASE e \notin Range(s) /\ r = s
  BY <1>1
<1>2. ASSUME NEW p \in 1 .. Len(s), s[p] = e, r = RemoveAt(s, p)
      PROVE  /\ r \in Seq(S)
             /\ \A j, k \in DOMAIN r : r[j] = r[k] => j = k
             /\ Range(r) = Range(s) \ {e}
  <2> HIDE DEF r
  <2>1. /\ r \in Seq(S) /\ Len(r) = Len(s) - 1 /\ DOMAIN r = 1 .. Len(s) - 1
        /\ \A k \in 1 .. Len(s) - 1 : r[k] = IF k < p THEN s[k] ELSE s[k + 1]
    <3>1. r \in Seq(S) /\ Len(r) = Len(s) - 1 /\ DOMAIN r = 1 .. Len(r)
      BY <1>2, RemoveAtFacts
    <3> QED BY <1>2, <3>1, RemoveAtFacts
  <2>2. \A k \in DOMAIN r : /\ k \in Nat
                            /\ k < p => r[k] = s[k] /\ k \in DOMAIN s
                            /\ ~(k < p) => r[k] = s[k + 1] /\ k + 1 \in DOMAIN s
    BY <2>1
  <2>3. ASSUME NEW j \in DOMAIN r, NEW k \in DOMAIN r, r[j] = r[k] PROVE j = k
    <3>1. CASE j < p /\ k < p
      BY <2>2, <2>3, <3>1
    <3>2. CASE j < p /\ ~(k < p)
      <4>1. j = k + 1
        BY <2>2, <2>3, <3>2
      <4> QED BY <2>2, <3>2, <4>1
    <3>3. CASE ~(j < p) /\ k < p
      <4>1. j + 1 = k
        BY <2>2, <2>3, <3>3
      <4> QED BY <2>2, <3>3, <4>1
    <3>4. CASE ~(j < p) /\ ~(k < p)
      <4>1. j + 1 = k + 1
        BY <2>2, <2>3, <3>4
      <4> QED BY <2>2, <4>1
    <3> QED BY <3>1, <3>2, <3>3, <3>4
  <2>4. ASSUME NEW k \in DOMAIN r PROVE r[k] \in Range(s) /\ r[k] # e
    <3>1. CASE k < p
      BY <1>2, <2>2, <3>1 DEF Range
    <3>2. CASE ~(k < p)
      <4>1. k + 1 # p
        BY <2>2, <3>2
      <4> QED BY <1>2, <2>2, <3>2, <4>1 DEF Range
    <3> QED BY <3>1, <3>2
  <2>5. ASSUME NEW i \in DOMAIN s, s[i] # e PROVE s[i] \in Range(r)
    <3>1. i \in 1 .. Len(s) /\ i # p
      BY <1>2, <2>5
    <3>2. CASE i < p
      <4>1. i \in DOMAIN r /\ r[i] = s[i]
        BY <2>1, <3>1, <3>2
      <4> QED BY <4>1 DEF Range
    <3>3. CASE p < i
      <4>1. i - 1 \in DOMAIN r /\ r[i - 1] = s[i]
        BY <2>1, <3>1, <3>3
      <4> QED BY <4>1 DEF Range
    <3> QED BY <3>1, <3>2, <3>3
  <2> QED BY <2>1, <2>3, <2>4, <2>5 DEF Range
<1> QED BY <1>1, <1>2, RemoveFirstFacts

(* ---- Type correctness ------------------------------------------------ *)

\* The iterator of UpdateSessions is at an entry, and what it has still to
\* reach does not change under it.
Walking ==
    /\ pc \in {"visit", "packets", "finish"} =>
         itr \in Accounts /\ sessions[itr] # NoSession /\ left \subseteq Entries(sessions) \ {itr}
    /\ pc = "sweep" =>
         itr \in Accounts /\ offlineSessions[itr] # NoSession
           /\ left \subseteq Entries(offlineSessions) \ {itr}

\* A session is listed under its own account.
Places ==
    \A a \in Accounts : /\ sessions[a] # NoSession => Account[sessions[a]] = a
                        /\ offlineSessions[a] # NoSession => Account[offlineSessions[a]] = a

TypeInv == TypeOK /\ Walking /\ Places

LEMMA FieldsType ==
    ASSUME ws \in [Sessions -> Session], NEW gone, NEW detached, NEW asked
    PROVE  Fields(gone, detached, asked) \in [Sessions -> Session]
<1>1. Blank \in Session
  BY DEF Blank, Session
<1>2. ASSUME NEW r \in Session
      PROVE  /\ [r EXCEPT !.socket = "null", !.inQueue = FALSE, !.age = 0] \in Session
             /\ [r EXCEPT !.init = "asked"] \in Session
  BY DEF Session
<1> QED BY <1>1, <1>2 DEF Fields

\* What WorldSession::Update and Kick do to the fields of one session.
LEMMA CalledType ==
    ASSUME NEW r \in Session, NEW b \in BOOLEAN
    PROVE  Kicked(r) \in Session /\ Called(r, b) \in Session
<1>1. \A t \in Session : Kicked(t) \in Session
  <2>1. ASSUME NEW t \in Session
        PROVE  /\ [t EXCEPT !.kicked = TRUE, !.socket = "closed"] \in Session
               /\ [t EXCEPT !.kicked = TRUE, !.socket = t.socket] \in Session
    BY DEF Session
  <2>2. \A t \in Session : \/ Kicked(t) = [t EXCEPT !.kicked = TRUE, !.socket = "closed"]
                           \/ Kicked(t) = [t EXCEPT !.kicked = TRUE, !.socket = t.socket]
    BY DEF Kicked
  <2> QED BY <2>1, <2>2
<1>2. \A t \in Session : EnterWorld(t, b) \in Session
  <2>1. ASSUME NEW t \in Session PROVE EnterWorld(t, b) \in Session
    <3> DEFINE done == [t EXCEPT !.loading = NoChar, !.loaded = FALSE]
    <3>1. done \in Session
      BY DEF Session
    <3>2. t.loading \in Chars \cup {NoChar}
      BY DEF Session
    <3>3. [done EXCEPT !.player = t.loading] \in Session
      BY <3>1, <3>2 DEF Session
    <3> HIDE DEF done
    <3> QED BY <1>1, <3>1, <3>3 DEF EnterWorld, done
  <2> QED BY <2>1
<1>3. QueryCallbacks(r, b) \in Session
  <2>1. [r EXCEPT !.init = "done", !.inQueue = FALSE] \in Session
    BY DEF Session
  <2> QED BY <1>2, <2>1 DEF QueryCallbacks
<1>4. \A t \in Session : [t EXCEPT !.bid = IF @ = "answered" THEN "none" ELSE @] \in Session
  BY DEF Session
<1> QED BY <1>1, <1>3, <1>4 DEF Called

LEMMA RemovalType ==
    ASSUME NEW s, queuedPlayer \in Seq(Sessions)
    PROVE  /\ Removal(s).queue \in Seq(Sessions)
           /\ Removal(s).admitted \in Sessions \cup {NoSession}
<1> DEFINE rest == RemoveFirst(queuedPlayer, s)
<1>1. rest \in Seq(Sessions)
  BY RemoveFirstFacts, RemoveAtFacts
<1>2. rest # <<>> => Head(rest) \in Sessions /\ Tail(rest) \in Seq(Sessions)
  BY <1>1
<1> HIDE DEF rest
<1> QED BY <1>1, <1>2 DEF Removal, rest

LEMMA QueryType ==
    ASSUME TypeOK
    PROVE  /\ \A s \in Sessions \cup {NoSession} : /\ Save(s) \in Seq(CharQuery)
                                                  /\ Ask(s) \in Seq(CharQuery)
           /\ \A s \in Sessions, c \in Chars \cup {NoChar}, k \in {"load", "bid"} :
                Query(k, s, c) \in CharQuery
<1>1. \A q \in CharQuery : <<q>> \in Seq(CharQuery)
  OBVIOUS
<1>2. <<>> \in Seq(CharQuery)
  OBVIOUS
<1>3. \A s \in Sessions :
        /\ ws[s].player # NoChar => Query("save", NoSession, ws[s].player) \in CharQuery
        /\ Query("init", s, NoChar) \in CharQuery
  BY DEF TypeOK, Session, Query, CharQuery
<1> QED BY <1>1, <1>2, <1>3 DEF Save, Ask, Query, CharQuery

\* Visit and Sweep leave the iterator at an entry of the map they walk.
LEMMA SweepFacts ==
    ASSUME NEW offline, NEW rest \in SUBSET Entries(offline), Sweep(rest)
    PROVE  \/ /\ rest # {} /\ pc' = "sweep" /\ itr' \in Accounts
              /\ itr' \in rest /\ left' = rest \ {itr'}
           \/ rest = {} /\ pc' = EndTick /\ itr' = NoAccount /\ left' = {}
  BY DEF Sweep, Advance, Entries

LEMMA VisitFacts ==
    ASSUME NEW map, NEW offline, NEW rest \in SUBSET Entries(map), Visit(rest, offline)
    PROVE  \/ /\ pc' = "visit" /\ itr' \in Accounts
              /\ itr' \in rest /\ left' = rest \ {itr'}
           \/ /\ pc' = "sweep" /\ itr' \in Accounts
              /\ itr' \in Entries(offline) /\ left' = Entries(offline) \ {itr'}
           \/ /\ Entries(offline) = {} /\ pc' = EndTick /\ itr' = NoAccount /\ left' = {}
  BY SweepFacts DEF Visit, Advance, Entries

LEMMA TypeInit == Init => TypeInv
<1> SUFFICES ASSUME Init PROVE TypeInv
  OBVIOUS
<1>1. Blank \in Session /\ \A S : <<>> \in Seq(S)
  BY DEF Blank, Session
<1> QED BY <1>1 DEF Init, TypeInv, TypeOK, Walking, Places

\* A step that touches no container and leaves the walk where it is, apart
\* from the label inside one visit.
LEMMA FieldStepType ==
    ASSUME TypeInv, UNCHANGED <<worldVars, itr, left, stopped>>,
           born' \subseteq Sessions, alive' \subseteq born', ws' \in [Sessions -> Session],
           charDB' \in Seq(CharQuery), online' \subseteq Accounts, bids' \in Nat,
           \/ pc' = pc
           \/ pc \in {"visit", "packets", "finish"} /\ pc' \in {"visit", "packets", "finish"}
           \/ pc' = "collect"
    PROVE  TypeInv'
<1>1. UNCHANGED <<newSessions, sessions, offlineSessions, queuedPlayer>>
  BY DEF worldVars
<1>2. TypeOK'
  BY <1>1 DEF TypeInv, TypeOK
<1> QED BY <1>1, <1>2 DEF TypeInv, Walking, Places, Entries

LEMMA FieldActionsType ==
    ASSUME TypeInv,
           \/ \E s \in Sessions : LoseSocket(s) \/ KickPacket(s)
           \/ AnswerQuery \/ BeginTick \/ BeginUpdate
           \/ \E b \in BOOLEAN : ProcessCallbacks(b)
           \/ \E c \in Chars : LoginPacket(c)
           \/ LogoutPacket \/ BidPacket
    PROVE  TypeInv'
<1> USE DEF TypeInv
<1>0. /\ born \subseteq Sessions /\ alive \subseteq born /\ ws \in [Sessions -> Session]
      /\ charDB \in Seq(CharQuery) /\ online \subseteq Accounts /\ bids \in Nat
  BY DEF TypeOK
<1>1. pc \in {"visit", "packets", "finish"} => Current \in Sessions /\ itr \in Accounts
  BY DEF TypeOK, Walking, Current
<1>2. ASSUME NEW s \in Sessions, LoseSocket(s) \/ KickPacket(s) PROVE TypeInv'
  <2>1. ws' \in [Sessions -> Session]
    <3>1. [ws[s] EXCEPT !.socket = "closed"] \in Session
      BY <1>0 DEF Session
    <3>2. ws' = [ws EXCEPT ![s] = [ws[s] EXCEPT !.socket = "closed"]] \/ ws' = [ws EXCEPT ![s] = Kicked(ws[s])]
      BY <1>0, <1>2 DEF LoseSocket, KickPacket
    <3> QED BY <1>0, <3>1, <3>2, CalledType
  <2> QED BY <1>0, <1>2, <2>1, FieldStepType
           DEF LoseSocket, KickPacket, loopVars, historyVars
<1>3. CASE AnswerQuery
  <2> DEFINE q == Head(charDB)
  <2>1. q \in CharQuery /\ charDB' \in Seq(CharQuery)
    BY <1>0, <1>3 DEF AnswerQuery
  <2>2. ws' \in [Sessions -> Session]
    <3>1. ASSUME NEW r \in Session
          PROVE  /\ [r EXCEPT !.init = "answered"] \in Session
                 /\ [r EXCEPT !.loaded = TRUE] \in Session
                 /\ [r EXCEPT !.bid = "answered"] \in Session
      BY DEF Session
    <3>2. CASE q.session \notin alive
      BY <1>0, <1>3, <3>2 DEF AnswerQuery
    <3>3. CASE q.session \in alive
      <4>1. q.session \in Sessions
        BY <1>0, <3>3
      <4>2. \/ ws' = [ws EXCEPT ![q.session] = [ws[q.session] EXCEPT !.init = "answered"]]
            \/ ws' = [ws EXCEPT ![q.session] = [ws[q.session] EXCEPT !.loaded = TRUE]]
            \/ ws' = [ws EXCEPT ![q.session] = [ws[q.session] EXCEPT !.bid = "answered"]]
        <5>1. q.kind \in {"init", "load", "bid"}
          BY <2>1, <4>1, NoneAssumption DEF CharQuery
        <5> HIDE DEF q
        <5>2. ws' = CASE q.kind = "init" -> [ws EXCEPT ![q.session].init = "answered"]
                      [] q.kind = "load" -> [ws EXCEPT ![q.session].loaded = TRUE]
                      [] q.kind = "bid"  -> [ws EXCEPT ![q.session].bid = "answered"]
          BY <1>3, <3>3 DEF AnswerQuery, q
        <5> QED BY <1>0, <4>1, <5>1, <5>2
      <4> QED BY <1>0, <3>1, <4>1, <4>2
    <3> QED BY <3>2, <3>3
  <2> QED BY <1>0, <1>3, <2>1, <2>2, FieldStepType DEF AnswerQuery, loopVars, historyVars
<1>4. CASE BeginTick \/ BeginUpdate
  BY <1>0, <1>4, FieldStepType DEF BeginTick, BeginUpdate, objectVars, historyVars
<1>5. ASSUME NEW b \in BOOLEAN, ProcessCallbacks(b) PROVE TypeInv'
  <2>1. ws' \in [Sessions -> Session]
    BY <1>0, <1>1, <1>5, CalledType DEF ProcessCallbacks
  <2>2. online' \subseteq Accounts
    BY <1>0, <1>1, <1>5, AccountAssumption DEF ProcessCallbacks
  <2> QED BY <1>0, <1>5, <2>1, <2>2, FieldStepType DEF ProcessCallbacks
<1>6. ASSUME NEW c \in Chars, LoginPacket(c) PROVE TypeInv'
  <2> DEFINE s == Current
             off == offlineSessions[itr]
  <2>1. s \in Sessions /\ pc = "packets" /\ off \in Sessions \cup {NoSession} /\ s = Current
    BY <1>1, <1>6 DEF LoginPacket, Reading, TypeOK
  <2>2. /\ \A r \in Session : [r EXCEPT !.loading = c] \in Session
        /\ \A r \in Session : [r EXCEPT !.player = c] \in Session
        /\ \A r \in Session : [r EXCEPT !.player = NoChar] \in Session
    BY DEF Session
  <2>3. CASE ws[s].loading # NoChar \/ ws[s].player # NoChar
    <3>1. ws' = [ws EXCEPT ![s] = Kicked(ws[s])] /\ UNCHANGED charDB
      BY <1>0, <1>6, <2>3 DEF LoginPacket
    <3>2. ws' \in [Sessions -> Session]
      BY <1>0, <2>1, <3>1, CalledType
    <3> QED BY <1>0, <1>6, <3>1, <3>2, FieldStepType DEF LoginPacket, loopVars, historyVars
  <2>4. CASE TakeOver(s, off, c) /\ off # NoSession /\ UNCHANGED charDB
    <3>1. ws' \in [Sessions -> Session]
      <4>1. off \in Sessions
        BY <2>1, <2>4
      <4> DEFINE w1 == [ws EXCEPT ![off] = [ws[off] EXCEPT !.player = NoChar]]
      <4>2. w1 \in [Sessions -> Session]
        BY <1>0, <2>2, <4>1
      <4>3. ws' = [w1 EXCEPT ![s] = [w1[s] EXCEPT !.player = c]]
        BY <1>0, <2>1, <2>4, <4>1 DEF TakeOver
      <4> HIDE DEF w1
      <4> QED BY <2>1, <2>2, <4>2, <4>3
    <3> QED BY <1>0, <1>6, <2>4, <3>1, FieldStepType DEF LoginPacket, loopVars, historyVars
  <2>5. CASE /\ ws' = [t \in Sessions |-> IF t = s THEN [ws[s] EXCEPT !.loading = c]
                                          ELSE IF t = off THEN Kicked(ws[off]) ELSE ws[t]]
             /\ charDB' = Append(charDB, Query("load", s, c))
    <3>1. ws' \in [Sessions -> Session]
      BY <1>0, <2>1, <2>2, <2>5, CalledType
    <3>2. charDB' \in Seq(CharQuery)
      BY <1>0, <2>1, <2>5, QueryType
    <3> QED BY <1>0, <1>6, <3>1, <3>2, FieldStepType DEF LoginPacket, loopVars, historyVars
  <2> QED BY <1>6, <2>3, <2>4, <2>5 DEF LoginPacket
<1>7. CASE LogoutPacket
  <2>1. ws' \in [Sessions -> Session]
    <3>1. \A r \in Session, b \in BOOLEAN : [r EXCEPT !.logout = b] \in Session
      BY DEF Session
    <3>2. Current \in Sessions
      BY <1>1, <1>7 DEF LogoutPacket, Reading
    <3>3. PICK b \in BOOLEAN : ws' = [ws EXCEPT ![Current] = [ws[Current] EXCEPT !.logout = b]]
      BY <1>0, <1>7, <3>2 DEF LogoutPacket
    <3> QED BY <1>0, <3>1, <3>2, <3>3
  <2> QED BY <1>0, <1>7, <2>1, FieldStepType DEF LogoutPacket, loopVars, historyVars
<1>8. CASE BidPacket
  <2>1. Current \in Sessions
    BY <1>1, <1>8 DEF BidPacket, Reading
  <2>2. ws' \in [Sessions -> Session]
    <3>1. \A r \in Session : [r EXCEPT !.bid = "asked"] \in Session
      BY DEF Session
    <3>2. ws' = [ws EXCEPT ![Current] = [ws[Current] EXCEPT !.bid = "asked"]]
      BY <1>0, <1>8, <2>1 DEF BidPacket
    <3> QED BY <1>0, <2>1, <3>1, <3>2
  <2>3. charDB' \in Seq(CharQuery)
    <3>1. ws[Current].player \in Chars \cup {NoChar}
      BY <1>0, <2>1 DEF Session
    <3> QED BY <1>0, <1>8, <2>1, <3>1, QueryType DEF BidPacket
  <2> QED BY <1>0, <1>8, <2>2, <2>3, FieldStepType DEF BidPacket, loopVars
<1> QED BY <1>2, <1>3, <1>4, <1>5, <1>6, <1>7, <1>8

\* A session takes its place; what was removed before is an argument.
LEMMA AdmitType ==
    ASSUME TypeInv, NEW s \in Sessions, NEW gone, NEW detached,
           NEW queue \in Seq(Sessions), NEW admitted \in Sessions \cup {NoSession},
           NEW saves \in Seq(CharQuery), Admit(s, gone, detached, queue, admitted, saves)
    PROVE  /\ sessions' = [sessions EXCEPT ![Account[s]] = s] /\ Account[s] \in Accounts
           /\ sessions' \in [Accounts -> Sessions \cup {NoSession}]
           /\ queuedPlayer' \in Seq(Sessions)
           /\ ws' \in [Sessions -> Session] /\ charDB' \in Seq(CharQuery)
<1> USE DEF TypeInv, TypeOK
<1>1. Account[s] \in Accounts
  BY AccountAssumption
<1>2. ws' \in [Sessions -> Session]
  <2>1. \A r \in Session : [r EXCEPT !.inQueue = TRUE] \in Session
    BY DEF Session
  <2> DEFINE f == Fields(gone, detached, {admitted})
  <2>2. f \in [Sessions -> Session]
    BY FieldsType
  <2>3. [f EXCEPT ![s].inQueue = TRUE] \in [Sessions -> Session]
    <3> HIDE DEF f
    <3>1. [f EXCEPT ![s].inQueue = TRUE] = [f EXCEPT ![s] = [f[s] EXCEPT !.inQueue = TRUE]]
      BY <2>2
    <3> QED BY <2>1, <2>2, <3>1
  <2> QED BY <2>3, FieldsType DEF Admit
<1>3. charDB' \in Seq(CharQuery)
  <2>1. Ask(admitted) \in Seq(CharQuery) /\ Ask(s) \in Seq(CharQuery)
        /\ <<>> \in Seq(CharQuery) /\ charDB \in Seq(CharQuery)
    BY QueryType
  <2>2. charDB \o Ask(admitted) \in Seq(CharQuery)
    BY <2>1
  <2>3. (charDB \o Ask(admitted)) \o saves \in Seq(CharQuery)
    BY <2>2
  <2>4. ((charDB \o Ask(admitted)) \o saves) \o Ask(s) \in Seq(CharQuery)
    BY <2>1, <2>3
  <2>5. ((charDB \o Ask(admitted)) \o saves) \o <<>> \in Seq(CharQuery)
    BY <2>1, <2>3
  <2> QED BY <2>4, <2>5 DEF Admit
<1>4. queuedPlayer' \in Seq(Sessions)
  BY DEF Admit
<1> QED BY <1>1, <1>2, <1>3, <1>4 DEF Admit

\* The world thread collects new sessions.
LEMMA CollectType ==
    ASSUME TypeInv, RefuseSession \/ AddFirstSession \/ ReplaceSession
    PROVE  TypeInv'
<1> USE DEF TypeInv
<1>0. /\ pc = "collect" /\ Newcomer \in Sessions /\ newSessions' \in Seq(Sessions)
      /\ Previous \in Sessions \cup {NoSession} /\ Account[Newcomer] \in Accounts
      /\ born \subseteq Sessions /\ alive \subseteq born /\ online \subseteq Accounts
      /\ queuedPlayer \in Seq(Sessions) /\ charDB \in Seq(CharQuery)
      /\ offlineSessions \in [Accounts -> Sessions \cup {NoSession}]
  <2>1. newSessions \in Seq(Sessions) /\ newSessions # <<>> /\ newSessions' = Tail(newSessions)
        /\ pc = "collect"
    BY DEF TypeOK, RefuseSession, AddFirstSession, ReplaceSession, Collecting
  <2>2. Newcomer \in Sessions /\ newSessions' \in Seq(Sessions)
    BY <2>1 DEF Newcomer
  <2>3. Account[Newcomer] \in Accounts
    BY <2>2, AccountAssumption
  <2> QED BY <2>1, <2>2, <2>3 DEF TypeOK, Previous
<1>1. CASE RefuseSession
  <2>1. ws' \in [Sessions -> Session]
    BY <1>1, FieldsType DEF RefuseSession, TypeOK
  <2>2. alive' \subseteq born /\ online' \subseteq Accounts
    BY <1>0, <1>1 DEF RefuseSession, Destroy
  <2> QED BY <1>0, <1>1, <2>1, <2>2 DEF RefuseSession, TypeOK, Walking, Places, loopVars
<1>2. ASSUME NEW gone, NEW detached, NEW queue \in Seq(Sessions),
             NEW admitted \in Sessions \cup {NoSession}, NEW saves \in Seq(CharQuery),
             Admit(Newcomer, gone, detached, queue, admitted, saves),
             alive' \subseteq born, online' \subseteq Accounts, UNCHANGED <<born, loopVars, bids>>,
             \/ UNCHANGED offlineSessions
             \/ /\ offlineSessions' = [offlineSessions EXCEPT ![Account[Newcomer]] = Previous]
                /\ Previous # NoSession
      PROVE  TypeInv'
  <2>1. /\ sessions' = [sessions EXCEPT ![Account[Newcomer]] = Newcomer]
        /\ sessions' \in [Accounts -> Sessions \cup {NoSession}]
        /\ queuedPlayer' \in Seq(Sessions)
        /\ ws' \in [Sessions -> Session] /\ charDB' \in Seq(CharQuery)
    BY <1>0, <1>2, AdmitType
  <2>2. Previous # NoSession => Account[Previous] = Account[Newcomer]
    BY <1>0 DEF Places, Previous
  <2>3. offlineSessions' \in [Accounts -> Sessions \cup {NoSession}]
    BY <1>0, <1>2
  <2>4. Places'
    <3> HIDE DEF Newcomer, Previous
    <3> QED BY <1>0, <1>2, <2>1, <2>2 DEF Places, TypeOK
  <2>5. Walking'
    BY <1>0, <1>2 DEF Walking, loopVars
  <2>6. TypeOK'
    BY <1>0, <1>2, <2>1, <2>3 DEF TypeOK, loopVars
  <2> QED BY <2>4, <2>5, <2>6
<1>3. CASE AddFirstSession
  <2>1. <<>> \in Seq(CharQuery)
    OBVIOUS
  <2> QED BY <1>0, <1>2, <1>3, <2>1 DEF AddFirstSession, historyVars
<1>4. CASE ReplaceSession
  <2> DEFINE r == Removal(Previous)
             older == offlineSessions[Account[Newcomer]]
  <2>1. /\ r.queue \in Seq(Sessions) /\ r.admitted \in Sessions \cup {NoSession}
        /\ Save(Previous) \in Seq(CharQuery) /\ Save(older) \in Seq(CharQuery)
    BY <1>0, RemovalType, QueryType
  <2>2. CASE /\ Destroy(older, FALSE)
             /\ offlineSessions' = [offlineSessions EXCEPT ![Account[Newcomer]] = Previous]
             /\ Admit(Newcomer, {older}, Previous, r.queue, r.admitted, Save(older))
    BY <1>0, <1>2, <1>4, <2>1, <2>2 DEF ReplaceSession, Destroy
  <2>3. CASE /\ Destroy(Previous, FALSE)
             /\ Admit(Newcomer, {Previous}, NoSession, r.queue, r.admitted, Save(Previous))
             /\ UNCHANGED offlineSessions
    BY <1>0, <1>2, <1>4, <2>1, <2>3 DEF ReplaceSession, Destroy
  <2> QED BY <1>4, <2>2, <2>3 DEF ReplaceSession
<1> QED BY <1>1, <1>3, <1>4

\* The walks over m_sessions and m_offlineSessions.
LEMMA WalkType ==
    ASSUME TypeInv, BeginWalk \/ KeepOffline \/ FinishUpdate \/ RemoveSession \/ SweepOffline
    PROVE  TypeInv'
<1> USE DEF TypeInv
<1>0. /\ born \subseteq Sessions /\ alive \subseteq born /\ online \subseteq Accounts
      /\ queuedPlayer \in Seq(Sessions) /\ charDB \in Seq(CharQuery)
      /\ newSessions \in Seq(Sessions) /\ ws \in [Sessions -> Session] /\ bids \in Nat
      /\ sessions \in [Accounts -> Sessions \cup {NoSession}]
      /\ offlineSessions \in [Accounts -> Sessions \cup {NoSession}]
      /\ stopped \in BOOLEAN
      /\ pc \in {"visit", "packets", "finish"} => Current \in Sessions /\ Current # NoSession
      /\ pc \in {"visit", "packets", "finish"} =>
           itr \in Accounts /\ left \subseteq Entries(sessions) \ {itr}
      /\ pc = "sweep" => /\ itr \in Accounts /\ offlineSessions[itr] \in Sessions
                         /\ left \subseteq Entries(offlineSessions) \ {itr}
  BY NoneAssumption DEF TypeOK, Walking, Current
<1>1. ASSUME NEW rest \in SUBSET Entries(sessions'), Visit(rest, offlineSessions'),
             UNCHANGED stopped
      PROVE  /\ pc' \in {"between", "collect", "visit", "packets", "finish", "sweep", "halted"}
             /\ itr' \in Accounts \cup {NoAccount} /\ left' \subseteq Accounts
             /\ Walking'
  <2>1. rest \subseteq Accounts
    BY <1>1 DEF Entries
  <2> QED BY <1>1, <2>1, VisitFacts DEF Walking, Entries, EndTick
<1>2. CASE BeginWalk
  <2>1. UNCHANGED <<born, alive, ws, newSessions, sessions, offlineSessions, queuedPlayer,
                    charDB, online, bids, stopped>>
    BY <1>2 DEF BeginWalk, objectVars, worldVars, historyVars
  <2>2. Visit(Entries(sessions'), offlineSessions') /\ Entries(sessions') \in SUBSET Entries(sessions')
    BY <1>2, <2>1 DEF BeginWalk
  <2> QED BY <1>1, <2>1, <2>2 DEF TypeOK, Places
<1>3. CASE KeepOffline
  <2> DEFINE r == Removal(Current)
             older == offlineSessions[itr]
  <2>1. /\ pc = "visit" /\ itr \in Accounts /\ Current \in Sessions
        /\ r.queue \in Seq(Sessions) /\ r.admitted \in Sessions \cup {NoSession}
    BY <1>0, <1>3, RemovalType DEF KeepOffline
  <2>2. /\ sessions' = [sessions EXCEPT ![itr] = NoSession] /\ queuedPlayer' = r.queue
        /\ offlineSessions' = [offlineSessions EXCEPT ![itr] = Current]
        /\ alive' \subseteq born /\ online' \subseteq Accounts
        /\ ws' \in [Sessions -> Session] /\ UNCHANGED <<born, newSessions, stopped, bids>>
    BY <1>0, <1>3, FieldsType DEF KeepOffline, Destroy
  <2>3. charDB' \in Seq(CharQuery)
    <3>1. Ask(r.admitted) \in Seq(CharQuery) /\ Save(older) \in Seq(CharQuery)
      BY <1>0, <2>1, QueryType
    <3>2. charDB' = charDB \o Ask(r.admitted) \o Save(older)
      BY <1>3 DEF KeepOffline
    <3> QED BY <1>0, <3>1, <3>2
  <2>4. left \subseteq Entries(sessions') /\ Visit(left, offlineSessions')
    BY <1>0, <1>3, <2>1, <2>2 DEF KeepOffline, Entries
  <2>5. Places'
    <3>1. Account[Current] = itr
      BY <1>0, <2>1 DEF Places, Current
    <3> HIDE DEF Current
    <3> QED BY <1>0, <2>1, <2>2, <3>1 DEF Places
  <2> HIDE DEF r, older
  <2>6. TypeOK'
    BY <1>0, <1>1, <2>1, <2>2, <2>3, <2>4 DEF TypeOK
  <2> QED BY <1>1, <2>2, <2>4, <2>5, <2>6
<1>4. CASE FinishUpdate
  <2>1. Current \in Sessions
    BY <1>0, <1>4 DEF FinishUpdate
  <2>2. ws' \in [Sessions -> Session]
    <3>1. \A t \in Session : [[t EXCEPT !.player = NoChar] EXCEPT !.logout = FALSE] \in Session
      BY DEF Session
    <3>2. CASE ws' = [ws EXCEPT ![Current].player = NoChar, ![Current].logout = FALSE]
      <4>1. ws' = [ws EXCEPT ![Current] = [[ws[Current] EXCEPT !.player = NoChar] EXCEPT !.logout = FALSE]]
        BY <1>0, <2>1, <3>2
      <4> QED BY <1>0, <2>1, <3>1, <4>1
    <3> QED BY <1>0, <1>4, <3>2 DEF FinishUpdate
  <2>3. charDB' \in Seq(CharQuery)
    <3>1. Save(Current) \in Seq(CharQuery)
      BY <2>1, QueryType
    <3>2. charDB' = charDB \o Save(Current) \/ charDB' = charDB
      BY <1>4 DEF FinishUpdate
    <3>3. charDB \o Save(Current) \in Seq(CharQuery)
      BY <1>0, <3>1
    <3> QED BY <1>0, <3>2, <3>3
  <2>4. UNCHANGED <<born, alive, newSessions, sessions, offlineSessions, queuedPlayer,
                    online, bids, stopped>>
    BY <1>4 DEF FinishUpdate, worldVars, historyVars
  <2>5. left \subseteq Entries(sessions') /\ Visit(left, offlineSessions')
    BY <1>0, <1>4, <2>4 DEF FinishUpdate
  <2> QED BY <1>0, <1>1, <2>2, <2>3, <2>4, <2>5 DEF TypeOK, Places
<1>5. CASE RemoveSession
  <2> DEFINE r == Removal(Current)
  <2>1. /\ pc = "finish" /\ itr \in Accounts /\ Current \in Sessions
        /\ r.queue \in Seq(Sessions) /\ r.admitted \in Sessions \cup {NoSession}
    BY <1>0, <1>5, RemovalType DEF RemoveSession
  <2>2. /\ sessions' = [sessions EXCEPT ![itr] = NoSession] /\ queuedPlayer' = r.queue
        /\ alive' \subseteq born /\ online' \subseteq Accounts
        /\ ws' \in [Sessions -> Session]
        /\ UNCHANGED <<born, newSessions, offlineSessions, stopped, bids>>
    BY <1>0, <1>5, FieldsType DEF RemoveSession, Destroy
  <2>3. charDB' \in Seq(CharQuery)
    <3>1. Ask(r.admitted) \in Seq(CharQuery) /\ Save(Current) \in Seq(CharQuery)
      BY <1>0, <2>1, QueryType
    <3>2. charDB' = charDB \o Ask(r.admitted) \o Save(Current)
      BY <1>5 DEF RemoveSession
    <3> QED BY <1>0, <3>1, <3>2
  <2>4. left \subseteq Entries(sessions') /\ Visit(left, offlineSessions')
    BY <1>0, <1>5, <2>1, <2>2 DEF RemoveSession, Entries
  <2>5. Places'
    BY <1>0, <2>1, <2>2 DEF Places
  <2> HIDE DEF r
  <2>6. TypeOK'
    BY <1>0, <1>1, <2>1, <2>2, <2>3, <2>4 DEF TypeOK
  <2> QED BY <1>1, <2>2, <2>4, <2>5, <2>6
<1>6. CASE SweepOffline
  <2> DEFINE s == offlineSessions[itr]
  <2>1. s \in Sessions /\ itr \in Accounts /\ UNCHANGED <<born, newSessions, sessions,
                                                          queuedPlayer, stopped, bids>>
    BY <1>0, <1>6 DEF SweepOffline
  <2>2. /\ ws' \in [Sessions -> Session] /\ alive' \subseteq born /\ online' \subseteq Accounts
        /\ charDB' \in Seq(CharQuery)
        /\ offlineSessions' = [offlineSessions EXCEPT ![itr] = NoSession] \/ UNCHANGED offlineSessions
    <3>1. CASE /\ Destroy(s, sessions[itr] = NoSession)
               /\ ws' = Fields({s}, NoSession, {})
               /\ charDB' = charDB \o Save(s)
               /\ offlineSessions' = [offlineSessions EXCEPT ![itr] = NoSession]
      <4>1. Save(s) \in Seq(CharQuery)
        BY <2>1, QueryType
      <4> QED BY <1>0, <3>1, <4>1, FieldsType DEF Destroy
    <3>2. CASE /\ ws' = [ws EXCEPT ![s].age = @ + 1]
               /\ UNCHANGED <<alive, online, charDB, offlineSessions>>
      <4>1. \A t \in Session : [t EXCEPT !.age = t.age + 1] \in Session
        BY DEF Session
      <4>2. ws' = [ws EXCEPT ![s] = [ws[s] EXCEPT !.age = ws[s].age + 1]]
        BY <1>0, <2>1, <3>2
      <4> QED BY <1>0, <2>1, <3>2, <4>1, <4>2
    <3> QED BY <1>6, <3>1, <3>2 DEF SweepOffline
  <2>3. left \in SUBSET Entries(offlineSessions')
    BY <1>0, <1>6, <2>1, <2>2 DEF SweepOffline, Entries
  <2>4. Walking' /\ itr' \in Accounts \cup {NoAccount} /\ left' \subseteq Accounts
        /\ pc' \in {"between", "collect", "visit", "packets", "finish", "sweep", "halted"}
    <3>1. left \subseteq Accounts
      BY <2>3 DEF Entries
    <3> QED BY <1>0, <1>6, <2>1, <2>3, <3>1, SweepFacts DEF SweepOffline, Walking, Entries, EndTick
  <2>5. Places'
    BY <1>0, <2>1, <2>2 DEF Places
  <2> HIDE DEF s
  <2>6. TypeOK'
    BY <1>0, <2>1, <2>2, <2>4 DEF TypeOK
  <2> QED BY <2>4, <2>5, <2>6
<1> QED BY <1>2, <1>3, <1>4, <1>5, <1>6

LEMMA TypeStep == TypeInv /\ [Next]_vars => TypeInv'
<1> SUFFICES ASSUME TypeInv, [Next]_vars PROVE TypeInv'
  OBVIOUS
<1>1. ASSUME NEW s \in Sessions, NewSession(s) PROVE TypeInv'
  <2>1. /\ [ws EXCEPT ![s].socket = "open"] \in [Sessions -> Session]
    <3>1. \A r \in Session : [r EXCEPT !.socket = "open"] \in Session
      BY DEF Session
    <3>2. [ws EXCEPT ![s].socket = "open"] = [ws EXCEPT ![s] = [ws[s] EXCEPT !.socket = "open"]]
      BY DEF TypeInv, TypeOK
    <3> QED BY <3>1, <3>2 DEF TypeInv, TypeOK
  <2>2. Account[s] \in Accounts /\ Append(newSessions, s) \in Seq(Sessions)
    BY AccountAssumption DEF TypeInv, TypeOK
  <2> QED BY <1>1, <2>1, <2>2 DEF TypeInv, TypeOK, NewSession, Walking, Places, loopVars
<1>2. CASE KickAll
  <2>1. ws' \in [Sessions -> Session]
    BY <1>2, CalledType DEF KickAll, TypeInv, TypeOK
  <2>2. <<>> \in Seq(Sessions)
    OBVIOUS
  <2> QED BY <1>2, <2>1, <2>2 DEF KickAll, TypeInv, TypeOK, Walking, Places, historyVars
<1>3. CASE UNCHANGED vars
  BY <1>3 DEF vars, objectVars, worldVars, loopVars, historyVars, TypeInv, TypeOK, Walking, Places
<1> QED BY <1>1, <1>2, <1>3, FieldActionsType, CollectType, WalkType DEF Next, WorldStep, Packet

\* Type correctness: the iterators of both walks stay valid while handlers
\* erase, replace and destroy sessions, and every field keeps its range.
THEOREM TypeCorrect == Spec => []TypeOK
<1>1. TypeInv => TypeOK
  BY DEF TypeInv
<1> QED BY <1>1, TypeInit, TypeStep, PTL DEF Spec

(* ---- Containers ------------------------------------------------------- *)

Distinct(s) == \A j, k \in DOMAIN s : s[j] = s[k] => j = k

\* The head of a queue without repetition is not in its tail.
LEMMA TailDistinct ==
    ASSUME NEW S, NEW s \in Seq(S), s # <<>>, Distinct(s)
    PROVE  /\ Head(s) \in S /\ Tail(s) \in Seq(S) /\ Distinct(Tail(s))
           /\ Head(s) \in Range(s) /\ Range(Tail(s)) = Range(s) \ {Head(s)}
<1>1. /\ Tail(s) \in Seq(S) /\ 1 \in DOMAIN s /\ Head(s) = s[1] /\ Head(s) \in S
      /\ \A k \in DOMAIN Tail(s) : /\ k + 1 \in DOMAIN s /\ Tail(s)[k] = s[k + 1]
                                   /\ k \in Nat /\ k + 1 # 1
      /\ \A k \in DOMAIN s : k = 1 \/ (k - 1 \in DOMAIN Tail(s) /\ Tail(s)[k - 1] = s[k])
  OBVIOUS
<1>2. Distinct(Tail(s))
  <2>1. ASSUME NEW j \in DOMAIN Tail(s), NEW k \in DOMAIN Tail(s), Tail(s)[j] = Tail(s)[k]
        PROVE  j = k
    <3>1. j + 1 = k + 1
      BY <1>1, <2>1 DEF Distinct
    <3> QED BY <1>1, <3>1
  <2> QED BY <2>1 DEF Distinct
<1>3. \A k \in DOMAIN Tail(s) : Tail(s)[k] # Head(s)
  BY <1>1 DEF Distinct
<1>4. \A x \in Range(Tail(s)) : x \in Range(s) \ {Head(s)}
  BY <1>1, <1>3 DEF Range
<1>5. \A x \in Range(s) \ {Head(s)} : x \in Range(Tail(s))
  <2>1. ASSUME NEW k \in DOMAIN s, s[k] # Head(s) PROVE s[k] \in Range(Tail(s))
    <3>1. k - 1 \in DOMAIN Tail(s) /\ Tail(s)[k - 1] = s[k]
      BY <1>1, <2>1
    <3> QED BY <3>1 DEF Range
  <2> QED BY <2>1 DEF Range
<1>6. Head(s) \in Range(s)
  BY <1>1 DEF Range
<1> QED BY <1>1, <1>2, <1>4, <1>5, <1>6

LEMMA AppendDistinct ==
    ASSUME NEW S, NEW s \in Seq(S), NEW e \in S
    PROVE  /\ Append(s, e) \in Seq(S) /\ Range(Append(s, e)) = Range(s) \cup {e}
           /\ Distinct(s) /\ e \notin Range(s) => Distinct(Append(s, e))
<1>1. /\ Append(s, e) \in Seq(S) /\ DOMAIN Append(s, e) = DOMAIN s \cup {Len(s) + 1}
      /\ \A k \in DOMAIN s : Append(s, e)[k] = s[k] /\ k # Len(s) + 1
      /\ Append(s, e)[Len(s) + 1] = e
  OBVIOUS
<1> QED BY <1>1 DEF Range, Distinct

\* What Removal leaves of a queue without repetition.
LEMMA RemovalFacts ==
    ASSUME NEW s, queuedPlayer \in Seq(Sessions), Distinct(queuedPlayer)
    PROVE  /\ Distinct(Removal(s).queue) /\ Removal(s).queue \in Seq(Sessions)
           /\ Range(Removal(s).queue) = Range(queuedPlayer) \ {s, Removal(s).admitted}
           /\ \/ Removal(s).admitted = NoSession
              \/ Removal(s).admitted \in Range(queuedPlayer) \ {s}
<1> DEFINE rest == RemoveFirst(queuedPlayer, s)
<1>1. rest \in Seq(Sessions) /\ Distinct(rest) /\ Range(rest) = Range(queuedPlayer) \ {s}
  BY RemovedOnce DEF Distinct
<1>2. NoSession \notin Range(queuedPlayer)
  BY NoneAssumption DEF Range
<1> HIDE DEF rest
<1>3. \/ Removal(s).admitted = NoSession /\ Removal(s).queue = rest
      \/ Removal(s).admitted = Head(rest) /\ Removal(s).queue = Tail(rest) /\ rest # <<>>
  BY DEF Removal, rest
<1>4. rest # <<>> => /\ Tail(rest) \in Seq(Sessions) /\ Distinct(Tail(rest))
                     /\ Head(rest) \in Range(rest)
                     /\ Range(Tail(rest)) = Range(rest) \ {Head(rest)}
  BY <1>1, TailDistinct
<1> QED BY <1>1, <1>2, <1>3, <1>4

\* r is s with more elements of E at its end.
Grows(s, r, E) ==
    /\ \A k \in DOMAIN s : k \in DOMAIN r /\ r[k] = s[k]
    /\ \A k \in DOMAIN r : k \in DOMAIN s \/ (r[k] \in E /\ \A j \in DOMAIN s : j < k)

LEMMA GrowsMore ==
    ASSUME NEW S, NEW s \in Seq(S), NEW r \in Seq(S), NEW E, Grows(s, r, E),
           NEW t \in Seq(S), Range(t) \subseteq E
    PROVE  Grows(s, r \o t, E) /\ r \o t \in Seq(S)
<1>1. r \o t \in Seq(S) /\ DOMAIN r \subseteq DOMAIN (r \o t)
  OBVIOUS
<1>2. /\ \A k \in DOMAIN r : (r \o t)[k] = r[k]
      /\ \A k \in DOMAIN (r \o t) : k \in DOMAIN r \/ \E i \in DOMAIN t : (r \o t)[k] = t[i]
      /\ \A k \in DOMAIN (r \o t) : k \in DOMAIN r \/ \A j \in DOMAIN r : j < k
  OBVIOUS
<1> QED BY <1>1, <1>2 DEF Grows, Range

\* OneContainer with what makes it inductive: nobody stands in a queue twice,
\* and only listed sessions wait.
Boxes ==
    /\ OneContainer
    /\ Distinct(newSessions) /\ Distinct(queuedPlayer)
    /\ Range(queuedPlayer) \subseteq Listed

SameCharacter(s) ==
    /\ ws'[s].kicked = ws[s].kicked /\ ws'[s].loading = ws[s].loading
    /\ ws'[s].loaded = ws[s].loaded /\ ws'[s].player = ws[s].player

\* What a step may append to the queue of the character database when it asks
\* for the accounts of some sessions and destroys others.
Asks(asked) == {Query("init", s, NoChar) : s \in asked}
Saves(dead) ==
    {Query("save", NoSession, ws[d].player) : d \in {s \in dead : ws[s].player # NoChar}}

\* All that the actions which move sessions between containers have in common:
\* `enters` come from m_newSessions into m_sessions, `leaves` leave it, `kept`
\* go on into m_offlineSessions, `dead` are destroyed, `asked` are initialised.
Change(enters, leaves, kept, dead, asked) ==
    /\ Listed' = (Listed \ leaves) \cup enters
    /\ Offline' = (Offline \ dead) \cup kept
    /\ born' = born /\ alive' = alive \ dead /\ stopped' = stopped
    /\ Range(newSessions') = Range(newSessions) \ (enters \cup dead)
    /\ Distinct(newSessions') /\ Distinct(queuedPlayer')
    /\ enters \subseteq Range(newSessions) /\ leaves \subseteq Listed /\ dead \subseteq alive
    /\ dead \cap enters = {} /\ dead \cap Listed \subseteq leaves
    /\ kept \subseteq leaves \ dead /\ leaves \subseteq kept \cup dead
    /\ asked \subseteq Range(queuedPlayer) \cup enters /\ asked \cap leaves = {}
    /\ Range(queuedPlayer')
         = (Range(queuedPlayer) \ (leaves \cup asked)) \cup (enters \ asked)
    /\ \A s \in Sessions :
         /\ s \in dead => ws'[s] = Blank
         /\ s \notin dead => /\ SameCharacter(s)
                             /\ ws'[s].init = IF s \in asked THEN "asked" ELSE ws[s].init
    /\ \A s \in kept : MayStay(s)
    /\ Grows(charDB, charDB', Asks(asked) \cup Saves(dead))

\* Such a step keeps every session in its one container.
LEMMA ChangeBoxes ==
    ASSUME TypeInv, Boxes, NEW enters, NEW leaves, NEW kept, NEW dead, NEW asked,
           Change(enters, leaves, kept, dead, asked)
    PROVE  Boxes'
<1> DEFINE N == Range(newSessions)
           M == Range(newSessions')
           Q == Range(queuedPlayer)
           R == Range(queuedPlayer')
           L == Listed
           O == Offline
<1>1. /\ Listed' = (L \ leaves) \cup enters /\ Offline' = (O \ dead) \cup kept
      /\ alive' = alive \ dead /\ M = N \ (enters \cup dead)
      /\ enters \subseteq N /\ leaves \subseteq L /\ dead \subseteq alive
      /\ dead \cap enters = {} /\ dead \cap L \subseteq leaves
      /\ kept \subseteq leaves \ dead /\ leaves \subseteq kept \cup dead
      /\ R = (Q \ (leaves \cup asked)) \cup (enters \ asked)
      /\ Distinct(newSessions') /\ Distinct(queuedPlayer')
  BY DEF Change
<1>2. alive = N \cup L \cup O /\ N \cap L = {} /\ N \cap O = {} /\ L \cap O = {} /\ Q \subseteq L
  BY DEF Boxes, OneContainer
<1> HIDE DEF N, M, Q, R, L, O
<1>3. alive' = M \cup Listed' \cup Offline'
  BY <1>1, <1>2
<1>4. M \cap Listed' = {} /\ M \cap Offline' = {} /\ Listed' \cap Offline' = {}
      /\ R \subseteq Listed'
  BY <1>1, <1>2
<1>5. OneContainer'
  BY <1>3, <1>4 DEF OneContainer, M
<1> QED BY <1>1, <1>4, <1>5 DEF Boxes, R

LEMMA FieldsFacts ==
    ASSUME NEW gone, NEW detached, NEW asked, NEW s \in Sessions,
           ws \in [Sessions -> Session]
    PROVE  LET f == Fields(gone, detached, asked)
           IN  /\ s \in gone => f[s] = Blank
               /\ s \notin gone =>
                    /\ f[s].kicked = ws[s].kicked /\ f[s].loading = ws[s].loading
                    /\ f[s].loaded = ws[s].loaded /\ f[s].player = ws[s].player
                    /\ f[s].init = IF s \in asked /\ s # detached THEN "asked" ELSE ws[s].init
                    /\ f[s] \in Session
<1>1. ws[s] \in Session
  OBVIOUS
<1>2. \A r \in Session :
        /\ LET u == [r EXCEPT !.socket = "null", !.inQueue = FALSE, !.age = 0]
           IN  /\ u.kicked = r.kicked /\ u.loading = r.loading /\ u.loaded = r.loaded
               /\ u.player = r.player /\ u.init = r.init
        /\ LET u == [r EXCEPT !.init = "asked"]
           IN  /\ u.kicked = r.kicked /\ u.loading = r.loading /\ u.loaded = r.loaded
               /\ u.player = r.player /\ u.init = "asked"
  BY DEF Session
<1>3. Fields(gone, detached, asked)[s] \in Session
  BY FieldsType
<1> QED BY <1>1, <1>2, <1>3 DEF Fields

\* The answers and orders appended to the database's queue are what they say.
LEMMA PushedQueries ==
    ASSUME TypeInv, NEW asked, NEW dead
    PROVE  /\ \A s \in Sessions \cup {NoSession} :
                /\ s # NoSession => s \in asked
                => Ask(s) \in Seq(CharQuery) /\ Range(Ask(s)) \subseteq Asks(asked) \cup Saves(dead)
           /\ \A s \in Sessions \cup {NoSession} :
                /\ s # NoSession => s \in dead
                => Save(s) \in Seq(CharQuery) /\ Range(Save(s)) \subseteq Asks(asked) \cup Saves(dead)
           /\ Grows(charDB, charDB, Asks(asked) \cup Saves(dead))
           /\ charDB \in Seq(CharQuery)
<1>1. \A q : Range(<<q>>) = {q} /\ Range(<<>>) = {}
  BY DEF Range
<1>2. ASSUME NEW s \in Sessions \cup {NoSession} PROVE Ask(s) \in Seq(CharQuery) /\ Save(s) \in Seq(CharQuery)
  BY QueryType DEF TypeInv
<1>3. ASSUME NEW s \in Sessions \cup {NoSession}, s # NoSession => s \in asked
      PROVE  Range(Ask(s)) \subseteq Asks(asked)
  BY <1>1, <1>3 DEF Ask, Asks
<1>4. ASSUME NEW s \in Sessions \cup {NoSession}, s # NoSession => s \in dead
      PROVE  Range(Save(s)) \subseteq Saves(dead)
  BY <1>1, <1>4 DEF Save, Saves
<1> QED BY <1>2, <1>3, <1>4 DEF Grows, TypeInv, TypeOK

LEMMA NewcomerFacts ==
    ASSUME TypeInv, Boxes, Collecting
    PROVE  /\ Newcomer \in Sessions /\ Newcomer \in Range(newSessions) /\ Newcomer \in alive
           /\ Newcomer \notin Listed /\ Newcomer \notin Offline
           /\ Range(newSessions') = Range(newSessions) \ {Newcomer}
           /\ Distinct(newSessions') /\ Account[Newcomer] \in Accounts
           /\ Previous \in Listed \cup {NoSession} /\ Previous \in Sessions \cup {NoSession}
           /\ Newcomer # NoSession
<1>1. newSessions \in Seq(Sessions) /\ newSessions # <<>> /\ newSessions' = Tail(newSessions)
  BY DEF TypeInv, TypeOK, Collecting
<1>2. /\ Newcomer \in Sessions /\ Newcomer \in Range(newSessions)
      /\ Range(newSessions') = Range(newSessions) \ {Newcomer} /\ Distinct(newSessions')
  BY <1>1, TailDistinct DEF Newcomer, Boxes
<1>3. Account[Newcomer] \in Accounts
  BY <1>2, AccountAssumption
<1>4. Previous \in Listed \cup {NoSession} /\ Previous \in Sessions \cup {NoSession}
  BY <1>3 DEF Previous, Listed, Range, TypeInv, TypeOK
<1> QED BY <1>2, <1>3, <1>4, NoneAssumption DEF Boxes, OneContainer

LEMMA AdmitChange ==
    ASSUME TypeInv, Boxes, Collecting,
           NEW gone, NEW detached, NEW queue \in Seq(Sessions),
           NEW admitted \in Sessions \cup {NoSession}, NEW saves \in Seq(CharQuery),
           NEW leaves, NEW kept, NEW dead,
           Admit(Newcomer, gone, detached, queue, admitted, saves),
           leaves = {Previous} \ {NoSession}, dead = gone \ {NoSession},
           kept = {detached} \ {NoSession}, dead \subseteq Offline \cup leaves,
           kept \subseteq leaves \ dead, leaves \subseteq kept \cup dead,
           \A s \in kept : MayStay(s),
           Distinct(queue), Range(queue) = Range(queuedPlayer) \ {Previous, admitted},
           admitted = NoSession \/ admitted \in Range(queuedPlayer) \ {Previous},
           Range(saves) \subseteq Saves(dead),
           Offline' = (Offline \ dead) \cup kept,
           born' = born, alive' = alive \ dead, stopped' = stopped
    PROVE  Change({Newcomer}, leaves, kept, dead,
                  ({admitted} \ {NoSession})
                    \cup (IF MustWait(Newcomer) THEN {} ELSE {Newcomer}))
<1> DEFINE n == Newcomer
           asked == ({admitted} \ {NoSession}) \cup (IF MustWait(n) THEN {} ELSE {n})
<1>1. /\ n \in Sessions /\ n \in Range(newSessions) /\ n \in alive
      /\ n \notin Listed /\ n \notin Offline /\ n # NoSession
      /\ Range(newSessions') = Range(newSessions) \ {n}
      /\ Distinct(newSessions') /\ Account[n] \in Accounts
      /\ Previous \in Listed \cup {NoSession} /\ Previous \in Sessions \cup {NoSession}
  BY NewcomerFacts
<1>2. /\ alive = Range(newSessions) \cup Listed \cup Offline
      /\ Range(newSessions) \cap Listed = {} /\ Range(newSessions) \cap Offline = {}
      /\ Listed \cap Offline = {} /\ Range(queuedPlayer) \subseteq Listed
      /\ Distinct(queuedPlayer) /\ ws \in [Sessions -> Session]
  BY DEF Boxes, OneContainer, TypeInv, TypeOK
<1> HIDE DEF n
<1>3. Listed' = (Listed \ leaves) \cup {n}
  <2>1. sessions' = [sessions EXCEPT ![Account[n]] = n]
    BY DEF Admit, n
  <2>2. sessions[Account[n]] = Previous
    BY DEF Previous, n
  <2>3. Range(sessions') \ {NoSession}
          = ((Range(sessions) \ {NoSession}) \ {Previous}) \cup ({n} \ {NoSession})
    <3>1. /\ sessions \in [Accounts -> Sessions \cup {NoSession}]
          /\ \A b \in Accounts : sessions[b] # NoSession => Account[sessions[b]] = b
          /\ n \in Sessions \cup {NoSession} /\ Account[n] \in Accounts
      BY <1>1 DEF TypeInv, TypeOK, Places
    <3>2. Range([sessions EXCEPT ![Account[n]] = n]) \ {NoSession}
            = ((Range(sessions) \ {NoSession}) \ {sessions[Account[n]]}) \cup ({n} \ {NoSession})
      BY <3>1 DEF Range
    <3> QED BY <2>1, <2>2, <3>2
  <2> QED BY <1>1, <2>3 DEF Listed
<1>4. /\ Distinct(queuedPlayer')
      /\ Range(queuedPlayer')
           = (Range(queuedPlayer) \ (leaves \cup asked)) \cup ({n} \ asked)
  <2>1. n \notin Range(queuedPlayer) /\ n # admitted /\ NoSession \notin Range(queuedPlayer)
    BY <1>1, <1>2 DEF Listed
  <2>2. CASE MustWait(n)
    <3>1. queuedPlayer' = Append(queue, n)
      BY <2>2 DEF Admit, n
    <3>2. Range(queuedPlayer') = Range(queue) \cup {n} /\ Distinct(queuedPlayer')
      BY <1>1, <2>1, <3>1, AppendDistinct
    <3> QED BY <2>1, <2>2, <3>2
  <2>3. CASE ~MustWait(n)
    <3>1. queuedPlayer' = queue
      BY <2>3 DEF Admit, n
    <3> QED BY <2>1, <2>3, <3>1
  <2> QED BY <2>2, <2>3
<1>5. ASSUME NEW s \in Sessions
      PROVE  /\ s \in dead => ws'[s] = Blank
             /\ s \notin dead => /\ SameCharacter(s)
                                 /\ ws'[s].init = IF s \in asked THEN "asked" ELSE ws[s].init
  <2>1. s # NoSession /\ (s \in gone <=> s \in dead)
    BY NoneAssumption
  <2>2. s \in asked => s # detached
    BY <1>1, <1>2, <2>1
  <2>3. n \notin dead
    BY <1>1
  <2>4. CASE MustWait(n)
    <3> DEFINE f == Fields(gone, detached, {admitted})
    <3>1. ws' = [f EXCEPT ![n].inQueue = TRUE]
      BY <2>4 DEF Admit, n
    <3>2. /\ s \in gone => f[s] = Blank
          /\ s \notin gone =>
               /\ f[s].kicked = ws[s].kicked /\ f[s].loading = ws[s].loading
               /\ f[s].loaded = ws[s].loaded /\ f[s].player = ws[s].player
               /\ f[s].init = IF s \in {admitted} /\ s # detached THEN "asked" ELSE ws[s].init
               /\ f[s] \in Session
      BY <1>2, FieldsFacts
    <3>3. f \in [Sessions -> Session]
      BY <1>2, FieldsType
    <3> HIDE DEF f
    <3>4. s # n => ws'[s] = f[s]
      BY <3>1, <3>3
    <3>5. s = n => ws'[s] = [f[s] EXCEPT !.inQueue = TRUE]
      BY <1>1, <3>1, <3>3
    <3>6. \A r \in Session :
            LET u == [r EXCEPT !.inQueue = TRUE]
            IN  /\ u.kicked = r.kicked /\ u.loading = r.loading /\ u.loaded = r.loaded
                /\ u.player = r.player /\ u.init = r.init
      BY DEF Session
    <3>7. s \in asked <=> s \in {admitted}
      BY <2>1, <2>4
    <3> HIDE DEF asked
    <3>8. CASE s \in dead
      <4>1. ws'[s] = Blank
        BY <2>1, <2>3, <3>2, <3>4, <3>8
      <4> QED BY <3>8, <4>1
    <3>9. CASE s \notin dead
      <4>1. /\ ws'[s].kicked = f[s].kicked /\ ws'[s].loading = f[s].loading
            /\ ws'[s].loaded = f[s].loaded /\ ws'[s].player = f[s].player
            /\ ws'[s].init = f[s].init
        <5>1. f[s] \in Session
          BY <2>1, <3>2, <3>9
        <5> QED BY <3>4, <3>5, <3>6, <5>1
      <4> QED BY <2>1, <2>2, <3>2, <3>7, <3>9, <4>1 DEF SameCharacter
    <3> QED BY <3>8, <3>9
  <2>5. CASE ~MustWait(n)
    <3>1. ws' = Fields(gone, detached, {admitted, n})
      BY <2>5 DEF Admit, n
    <3>2. s \in asked <=> s \in {admitted, n}
      BY <2>1, <2>5
    <3> QED BY <1>2, <2>1, <2>2, <3>1, <3>2, FieldsFacts DEF SameCharacter
  <2> QED BY <2>4, <2>5
<1>6. Grows(charDB, charDB', Asks(asked) \cup Saves(dead))
  <2> DEFINE E == Asks(asked) \cup Saves(dead)
  <2>1. /\ Grows(charDB, charDB, E) /\ charDB \in Seq(CharQuery)
        /\ Ask(admitted) \in Seq(CharQuery) /\ Range(Ask(admitted)) \subseteq E
        /\ n \in asked => Ask(n) \in Seq(CharQuery) /\ Range(Ask(n)) \subseteq E
        /\ Range(saves) \subseteq E
    BY <1>1, PushedQueries
  <2> HIDE DEF E
  <2>2. Grows(charDB, charDB \o Ask(admitted), E) /\ charDB \o Ask(admitted) \in Seq(CharQuery)
    BY <2>1, GrowsMore
  <2>3. /\ Grows(charDB, (charDB \o Ask(admitted)) \o saves, E)
        /\ (charDB \o Ask(admitted)) \o saves \in Seq(CharQuery)
    BY <2>1, <2>2, GrowsMore
  <2>4. CASE MustWait(n)
    <3>1. charDB' = ((charDB \o Ask(admitted)) \o saves) \o <<>>
      BY <2>4 DEF Admit, n
    <3>2. <<>> \in Seq(CharQuery) /\ Range(<<>>) \subseteq E
      BY DEF Range
    <3> QED BY <2>1, <2>3, <3>1, <3>2, GrowsMore DEF E
  <2>5. CASE ~MustWait(n)
    <3>1. charDB' = ((charDB \o Ask(admitted)) \o saves) \o Ask(n)
      BY <2>5 DEF Admit, n
    <3>2. n \in asked
      BY <2>5
    <3> QED BY <2>1, <2>3, <3>1, <3>2, GrowsMore DEF E
  <2> QED BY <2>4, <2>5
<1>7. /\ dead \cap {n} = {} /\ dead \cap Listed \subseteq leaves /\ dead \subseteq alive
      /\ leaves \subseteq Listed /\ asked \subseteq Range(queuedPlayer) \cup {n}
      /\ asked \cap leaves = {} /\ {n} \subseteq Range(newSessions)
      /\ Range(newSessions') = Range(newSessions) \ ({n} \cup dead)
  BY <1>1, <1>2
<1> HIDE DEF asked
<1>8. Change({n}, leaves, kept, dead, asked)
  BY <1>1, <1>3, <1>4, <1>5, <1>6, <1>7 DEF Change
<1> QED BY <1>8 DEF n, asked

LEMMA RefuseChange ==
    ASSUME TypeInv, Boxes, RefuseSession
    PROVE  Change({}, {}, {}, {Newcomer}, {})
<1>1. /\ Newcomer \in Sessions /\ Newcomer \in Range(newSessions) /\ Newcomer \in alive
      /\ Newcomer \notin Listed /\ Newcomer \notin Offline
      /\ Range(newSessions') = Range(newSessions) \ {Newcomer} /\ Distinct(newSessions')
  BY NewcomerFacts DEF RefuseSession
<1>2. /\ UNCHANGED <<born, sessions, offlineSessions, queuedPlayer, stopped, charDB>>
      /\ alive' = alive \ {Newcomer} /\ ws' = Fields({Newcomer}, NoSession, {})
  BY DEF RefuseSession, Destroy, loopVars
<1>3. UNCHANGED <<Listed, Offline>>
  BY <1>2 DEF Listed, Offline
<1> HIDE DEF Newcomer
<1>4. \A s \in Sessions :
        /\ s \in {Newcomer} => ws'[s] = Blank
        /\ s \notin {Newcomer} => /\ SameCharacter(s)
                                  /\ ws'[s].init = IF s \in {} THEN "asked" ELSE ws[s].init
  BY <1>2, FieldsFacts DEF SameCharacter, TypeInv, TypeOK
<1>5. Grows(charDB, charDB', Asks({}) \cup Saves({Newcomer}))
  BY <1>2 DEF Grows
<1> QED BY <1>1, <1>2, <1>3, <1>4, <1>5 DEF Change, Boxes

LEMMA AddFirstChange ==
    ASSUME TypeInv, Boxes, AddFirstSession
    PROVE  Change({Newcomer}, {}, {}, {}, IF MustWait(Newcomer) THEN {} ELSE {Newcomer})
<1>1. /\ Collecting /\ Previous = NoSession
      /\ Admit(Newcomer, {}, NoSession, queuedPlayer, NoSession, <<>>)
      /\ UNCHANGED <<born, alive, offlineSessions, stopped>>
  BY DEF AddFirstSession, loopVars
<1>2. /\ queuedPlayer \in Seq(Sessions) /\ Distinct(queuedPlayer)
      /\ NoSession \in Sessions \cup {NoSession}
  BY DEF TypeInv, TypeOK, Boxes
<1>3. <<>> \in Seq(CharQuery) /\ Range(<<>>) \subseteq Saves({})
  BY DEF Range
<1>4. Range(queuedPlayer) = Range(queuedPlayer) \ {Previous, NoSession}
  BY <1>1, <1>2, NoneAssumption DEF Range
<1>5. Offline' = (Offline \ {}) \cup {}
  BY <1>1 DEF Offline
<1>6. /\ {} = {Previous} \ {NoSession} /\ {} = {} \ {NoSession} /\ {} = {NoSession} \ {NoSession}
      /\ {} \subseteq Offline \cup {} /\ {} \subseteq {} \ {} /\ {} \subseteq {} \cup {}
      /\ \A s \in {} : MayStay(s)
      /\ born' = born /\ alive' = alive \ {} /\ stopped' = stopped
  BY <1>1
<1>7. Change({Newcomer}, {}, {}, {}, ({NoSession} \ {NoSession})
                    \cup (IF MustWait(Newcomer) THEN {} ELSE {Newcomer}))
  BY <1>1, <1>2, <1>3, <1>4, <1>5, <1>6, AdmitChange, ZenonT(60)
<1>8. ({NoSession} \ {NoSession}) \cup (IF MustWait(Newcomer) THEN {} ELSE {Newcomer})
        = IF MustWait(Newcomer) THEN {} ELSE {Newcomer}
  OBVIOUS
<1> QED BY <1>7, <1>8

\* The two outcomes of kicking the previous session of the account.
LEMMA ReplaceChange ==
    ASSUME TypeInv, Boxes, ReplaceSession
    PROVE  LET r == Removal(Previous)
               asked == ({r.admitted} \ {NoSession})
                          \cup (IF MustWait(Newcomer) THEN {} ELSE {Newcomer})
               older == offlineSessions[Account[Newcomer]]
           IN  /\ Previous # NoSession
               /\ \/ /\ Change({Newcomer}, {Previous}, {Previous}, {older} \ {NoSession}, asked)
                     /\ offlineSessions' = [offlineSessions EXCEPT ![Account[Newcomer]] = Previous]
                  \/ /\ Change({Newcomer}, {Previous}, {}, {Previous}, asked)
                     /\ UNCHANGED offlineSessions
<1> DEFINE r == Removal(Previous)
           asked == ({r.admitted} \ {NoSession}) \cup (IF MustWait(Newcomer) THEN {} ELSE {Newcomer})
           older == offlineSessions[Account[Newcomer]]
<1>1. /\ Collecting /\ Previous # NoSession /\ UNCHANGED <<born, stopped>>
      /\ Previous \in Listed /\ Previous \in Sessions /\ Account[Newcomer] \in Accounts
      /\ older \in Sessions \cup {NoSession} /\ older \in Offline \cup {NoSession}
  BY NewcomerFacts DEF ReplaceSession, loopVars, TypeInv, TypeOK, Offline, Range
<1>2. /\ r.queue \in Seq(Sessions) /\ r.admitted \in Sessions \cup {NoSession}
      /\ Distinct(r.queue) /\ Range(r.queue) = Range(queuedPlayer) \ {Previous, r.admitted}
      /\ r.admitted = NoSession \/ r.admitted \in Range(queuedPlayer) \ {Previous}
  BY RemovalType, RemovalFacts DEF TypeInv, TypeOK, Boxes
<1>3. Listed \cap Offline = {} /\ NoSession \notin Listed
  BY DEF Boxes, OneContainer, Listed
<1>4. \A s \in Sessions \cup {NoSession} :
        Save(s) \in Seq(CharQuery) /\ Range(Save(s)) \subseteq Saves({s} \ {NoSession})
  <2>1. \A q : Range(<<q>>) = {q} /\ Range(<<>>) = {}
    BY DEF Range
  <2>2. \A s \in Sessions \cup {NoSession} : Save(s) \in Seq(CharQuery)
    BY QueryType DEF TypeInv
  <2> QED BY <2>1, <2>2 DEF Save, Saves
<1> HIDE DEF r
<1>5. CASE /\ MayStay(Previous)
           /\ Destroy(older, FALSE)
           /\ offlineSessions' = [offlineSessions EXCEPT ![Account[Newcomer]] = Previous]
           /\ Admit(Newcomer, {older}, Previous, r.queue, r.admitted, Save(older))
  <2>1. Offline' = (Offline \ ({older} \ {NoSession})) \cup ({Previous} \ {NoSession})
    <3>1. /\ offlineSessions \in [Accounts -> Sessions \cup {NoSession}]
          /\ \A b \in Accounts : offlineSessions[b] # NoSession => Account[offlineSessions[b]] = b
      BY DEF TypeInv, TypeOK, Places
    <3>2. Range([offlineSessions EXCEPT ![Account[Newcomer]] = Previous]) \ {NoSession}
            = ((Range(offlineSessions) \ {NoSession}) \ {offlineSessions[Account[Newcomer]]})
                 \cup ({Previous} \ {NoSession})
      BY <1>1, <3>1 DEF Range
    <3> QED BY <1>5, <3>2 DEF Offline
  <2>2. alive' = alive \ ({older} \ {NoSession})
    <3>1. NoSession \notin alive
      BY NoneAssumption DEF TypeInv, TypeOK
    <3> QED BY <1>5, <3>1 DEF Destroy
  <2>3. Change({Newcomer}, {Previous} \ {NoSession}, {Previous} \ {NoSession}, {older} \ {NoSession}, asked)
    <3> DEFINE leaves == {Previous} \ {NoSession}
               dead == {older} \ {NoSession}
    <3>1. /\ dead \subseteq Offline \cup leaves /\ leaves \subseteq leaves \ dead
          /\ leaves \subseteq leaves \cup dead /\ \A s \in leaves : MayStay(s)
      BY <1>1, <1>3, <1>5
    <3>2. /\ leaves = {Previous} \ {NoSession} /\ dead = {older} \ {NoSession}
          /\ Save(older) \in Seq(CharQuery) /\ Range(Save(older)) \subseteq Saves(dead)
      BY <1>1, <1>4
    <3>3. /\ Offline' = (Offline \ dead) \cup leaves /\ alive' = alive \ dead
          /\ born' = born /\ stopped' = stopped
      BY <1>1, <2>1, <2>2
    <3> HIDE DEF leaves, dead, older
    <3>4. Change({Newcomer}, leaves, leaves, dead, asked)
      BY <1>1, <1>2, <1>5, <3>1, <3>2, <3>3, AdmitChange, ZenonT(60)
    <3> QED BY <3>4 DEF leaves, dead
  <2>4. {Previous} \ {NoSession} = {Previous}
    BY <1>1
  <2> QED BY <1>1, <1>5, <2>3, <2>4 DEF r
<1>6. CASE /\ Destroy(Previous, FALSE)
           /\ Admit(Newcomer, {Previous}, NoSession, r.queue, r.admitted, Save(Previous))
           /\ UNCHANGED offlineSessions
  <2>1. Offline' = (Offline \ {Previous}) \cup {}
    BY <1>1, <1>3, <1>6 DEF Offline
  <2>2. alive' = alive \ {Previous}
    BY <1>6 DEF Destroy
  <2>3. /\ {Previous} \ {NoSession} = {Previous} /\ {NoSession} \ {NoSession} = {}
    BY <1>1
  <2>4. Change({Newcomer}, {Previous}, {}, {Previous}, asked)
    <3> DEFINE dead == {Previous}
               kept == {NoSession} \ {NoSession}
    <3>1. /\ dead \subseteq Offline \cup dead /\ kept \subseteq dead \ dead
          /\ dead \subseteq kept \cup dead /\ \A s \in kept : MayStay(s)
          /\ dead = {Previous} \ {NoSession} /\ kept = {NoSession} \ {NoSession}
      BY <2>3
    <3>2. Save(Previous) \in Seq(CharQuery) /\ Range(Save(Previous)) \subseteq Saves(dead)
      BY <1>1, <1>4, <2>3
    <3>3. /\ Offline' = (Offline \ dead) \cup kept /\ alive' = alive \ dead
          /\ born' = born /\ stopped' = stopped
      BY <1>1, <2>1, <2>2
    <3> HIDE DEF dead, kept
    <3>4. Change({Newcomer}, dead, kept, dead, asked)
      BY <1>1, <1>2, <1>6, <3>1, <3>2, <3>3, AdmitChange, ZenonT(60)
    <3> QED BY <2>3, <3>4 DEF dead, kept
  <2> QED BY <1>1, <1>6, <2>4 DEF r
<1> QED BY <1>5, <1>6 DEF ReplaceSession, r

\* A session leaves m_sessions and nobody comes in its place.
LEMMA LeaveChange ==
    ASSUME TypeInv, Boxes, pc \in {"visit", "packets", "finish"},
           NEW gone, NEW detached, NEW saves \in Seq(CharQuery), NEW kept, NEW dead,
           sessions' = [sessions EXCEPT ![itr] = NoSession],
           queuedPlayer' = Removal(Current).queue,
           ws' = Fields(gone, detached, {Removal(Current).admitted}),
           charDB' = charDB \o Ask(Removal(Current).admitted) \o saves,
           dead = gone \ {NoSession}, kept = {detached} \ {NoSession},
           dead \subseteq Offline \cup {Current}, kept \subseteq {Current} \ dead,
           {Current} \subseteq kept \cup dead, \A s \in kept : MayStay(s),
           Range(saves) \subseteq Saves(dead),
           Offline' = (Offline \ dead) \cup kept,
           born' = born, alive' = alive \ dead, newSessions' = newSessions, stopped' = stopped
    PROVE  Change({}, {Current}, kept, dead, {Removal(Current).admitted} \ {NoSession})
<1> DEFINE r == Removal(Current)
           asked == {r.admitted} \ {NoSession}
<1>1. /\ Current \in Sessions /\ Current \in Listed /\ itr \in Accounts /\ Current # NoSession
      /\ Current = sessions[itr]
  BY DEF TypeInv, TypeOK, Walking, Current, Listed, Range
<1>2. /\ alive = Range(newSessions) \cup Listed \cup Offline
      /\ Range(newSessions) \cap Listed = {} /\ Range(newSessions) \cap Offline = {}
      /\ Listed \cap Offline = {} /\ Range(queuedPlayer) \subseteq Listed
      /\ Distinct(queuedPlayer) /\ ws \in [Sessions -> Session]
      /\ NoSession \notin Listed /\ Distinct(newSessions)
  BY DEF Boxes, OneContainer, TypeInv, TypeOK, Listed
<1>3. /\ r.admitted \in Sessions \cup {NoSession} /\ Distinct(r.queue)
      /\ Range(r.queue) = Range(queuedPlayer) \ {Current, r.admitted}
      /\ r.admitted = NoSession \/ r.admitted \in Range(queuedPlayer) \ {Current}
  BY RemovalType, RemovalFacts DEF TypeInv, TypeOK, Boxes
<1> HIDE DEF r
<1>4. Listed' = (Listed \ {Current}) \cup {}
  <2>1. /\ sessions \in [Accounts -> Sessions \cup {NoSession}]
        /\ \A b \in Accounts : sessions[b] # NoSession => Account[sessions[b]] = b
    BY DEF TypeInv, TypeOK, Places
  <2>2. Range([sessions EXCEPT ![itr] = NoSession]) \ {NoSession}
          = (Range(sessions) \ {NoSession}) \ {sessions[itr]}
    BY <1>1, <2>1 DEF Range
  <2> QED BY <1>1, <2>2 DEF Listed
<1>5. Range(queuedPlayer') = (Range(queuedPlayer) \ ({Current} \cup asked)) \cup ({} \ asked)
  BY <1>2, <1>3 DEF r
<1>6. ASSUME NEW s \in Sessions
      PROVE  /\ s \in dead => ws'[s] = Blank
             /\ s \notin dead => /\ SameCharacter(s)
                                 /\ ws'[s].init = IF s \in asked THEN "asked" ELSE ws[s].init
  <2>1. s # NoSession /\ (s \in gone <=> s \in dead)
    BY NoneAssumption
  <2>2. s \in asked => s # detached
    BY <1>2, <1>3, <2>1
  <2>3. s \in asked <=> s \in {r.admitted}
    BY <2>1
  <2>4. ws' = Fields(gone, detached, {r.admitted})
    BY DEF r
  <2> QED BY <1>2, <2>1, <2>2, <2>3, <2>4, FieldsFacts DEF SameCharacter
<1>7. Grows(charDB, charDB', Asks(asked) \cup Saves(dead))
  <2> DEFINE E == Asks(asked) \cup Saves(dead)
  <2>1. /\ Grows(charDB, charDB, E) /\ charDB \in Seq(CharQuery)
        /\ Ask(r.admitted) \in Seq(CharQuery) /\ Range(Ask(r.admitted)) \subseteq E
        /\ Range(saves) \subseteq E
    BY <1>3, PushedQueries
  <2> HIDE DEF E
  <2>2. Grows(charDB, charDB \o Ask(r.admitted), E) /\ charDB \o Ask(r.admitted) \in Seq(CharQuery)
    BY <2>1, GrowsMore
  <2>3. Grows(charDB, (charDB \o Ask(r.admitted)) \o saves, E)
    BY <2>1, <2>2, GrowsMore
  <2> QED BY <2>3 DEF E, r
<1>8. /\ dead \cap {} = {} /\ dead \cap Listed \subseteq {Current} /\ dead \subseteq alive
      /\ {Current} \subseteq Listed /\ asked \subseteq Range(queuedPlayer) \cup {}
      /\ asked \cap {Current} = {} /\ {} \subseteq Range(newSessions)
      /\ Range(newSessions') = Range(newSessions) \ ({} \cup dead)
      /\ Distinct(newSessions') /\ Distinct(queuedPlayer')
  BY <1>1, <1>2, <1>3 DEF r
<1> HIDE DEF asked
<1>9. Change({}, {Current}, kept, dead, asked)
  BY <1>4, <1>5, <1>6, <1>7, <1>8 DEF Change
<1> QED BY <1>9 DEF r, asked

LEMMA KeepOfflineChange ==
    ASSUME TypeInv, Boxes, KeepOffline
    PROVE  /\ Change({}, {Current}, {Current}, {offlineSessions[itr]} \ {NoSession},
                     {Removal(Current).admitted} \ {NoSession})
           /\ sessions' = [sessions EXCEPT ![itr] = NoSession]
           /\ offlineSessions' = [offlineSessions EXCEPT ![itr] = Current]
<1> DEFINE older == offlineSessions[itr]
           dead == {older} \ {NoSession}
           kept == {Current} \ {NoSession}
<1>1. /\ Current \in Sessions /\ Current \in Listed /\ itr \in Accounts /\ Current # NoSession
      /\ older \in Sessions \cup {NoSession} /\ older \in Offline \cup {NoSession}
      /\ Listed \cap Offline = {} /\ NoSession \notin alive
  BY NoneAssumption DEF KeepOffline, TypeInv, TypeOK, Walking, Current, Listed, Offline, Range, Boxes,
     OneContainer
<1>2. pc \in {"visit", "packets", "finish"} /\ MayStay(Current)
  BY DEF KeepOffline
<1>3. /\ sessions' = [sessions EXCEPT ![itr] = NoSession]
      /\ queuedPlayer' = Removal(Current).queue
      /\ ws' = Fields({older}, Current, {Removal(Current).admitted})
      /\ charDB' = charDB \o Ask(Removal(Current).admitted) \o Save(older)
      /\ offlineSessions' = [offlineSessions EXCEPT ![itr] = Current]
      /\ born' = born /\ newSessions' = newSessions /\ stopped' = stopped
      /\ alive' = alive \ {older}
  BY DEF KeepOffline, Destroy
<1>4. Save(older) \in Seq(CharQuery) /\ Range(Save(older)) \subseteq Saves(dead)
  <2>1. \A q : Range(<<q>>) = {q} /\ Range(<<>>) = {}
    BY DEF Range
  <2> QED BY <1>1, <2>1, QueryType DEF Save, Saves, TypeInv
<1>5. Offline' = (Offline \ dead) \cup kept
  <2>1. /\ offlineSessions \in [Accounts -> Sessions \cup {NoSession}]
        /\ \A b \in Accounts : offlineSessions[b] # NoSession => Account[offlineSessions[b]] = b
    BY DEF TypeInv, TypeOK, Places
  <2> HIDE DEF Current
  <2>2. Range([offlineSessions EXCEPT ![itr] = Current]) \ {NoSession}
          = ((Range(offlineSessions) \ {NoSession}) \ {offlineSessions[itr]})
               \cup ({Current} \ {NoSession})
    BY <1>1, <2>1 DEF Range
  <2> QED BY <1>3, <2>2 DEF Offline
<1>6. /\ dead \subseteq Offline \cup {Current} /\ kept \subseteq {Current} \ dead
      /\ {Current} \subseteq kept \cup dead /\ \A s \in kept : MayStay(s)
      /\ alive' = alive \ dead
  BY <1>1, <1>2, <1>3
<1>7. dead = {older} \ {NoSession} /\ kept = {Current} \ {NoSession} /\ kept = {Current}
  BY <1>1
<1> HIDE DEF older, dead, kept
<1>8. Change({}, {Current}, kept, dead, {Removal(Current).admitted} \ {NoSession})
  BY <1>2, <1>3, <1>4, <1>5, <1>6, <1>7, LeaveChange, Zenon
<1> QED BY <1>3, <1>7, <1>8 DEF older

LEMMA RemoveSessionChange ==
    ASSUME TypeInv, Boxes, RemoveSession
    PROVE  /\ Change({}, {Current}, {}, {Current}, {Removal(Current).admitted} \ {NoSession})
           /\ sessions' = [sessions EXCEPT ![itr] = NoSession]
           /\ offlineSessions' = offlineSessions
<1> DEFINE dead == {Current}
           kept == {NoSession} \ {NoSession}
<1>1. /\ Current \in Sessions /\ Current \in Listed /\ itr \in Accounts /\ Current # NoSession
      /\ Listed \cap Offline = {}
  BY DEF RemoveSession, TypeInv, TypeOK, Walking, Current, Listed, Range, Boxes, OneContainer
<1>2. pc \in {"visit", "packets", "finish"}
  BY DEF RemoveSession
<1>3. /\ sessions' = [sessions EXCEPT ![itr] = NoSession]
      /\ queuedPlayer' = Removal(Current).queue
      /\ ws' = Fields({Current}, NoSession, {Removal(Current).admitted})
      /\ charDB' = charDB \o Ask(Removal(Current).admitted) \o Save(Current)
      /\ offlineSessions' = offlineSessions
      /\ born' = born /\ newSessions' = newSessions /\ stopped' = stopped
      /\ alive' = alive \ dead
  BY DEF RemoveSession, Destroy
<1>4. Save(Current) \in Seq(CharQuery) /\ Range(Save(Current)) \subseteq Saves(dead)
  <2>1. \A q : Range(<<q>>) = {q} /\ Range(<<>>) = {}
    BY DEF Range
  <2> QED BY <1>1, <2>1, QueryType DEF Save, Saves, TypeInv
<1>5. Offline' = (Offline \ dead) \cup kept
  BY <1>1, <1>3 DEF Offline
<1>6. /\ dead \subseteq Offline \cup {Current} /\ kept \subseteq {Current} \ dead
      /\ {Current} \subseteq kept \cup dead /\ \A s \in kept : MayStay(s)
  BY <1>1
<1>7. dead = {Current} \ {NoSession} /\ kept = {NoSession} \ {NoSession} /\ kept = {}
      /\ dead = {Current}
  BY <1>1
<1> HIDE DEF dead, kept
<1>8. Change({}, {Current}, kept, dead, {Removal(Current).admitted} \ {NoSession})
  BY <1>2, <1>3, <1>4, <1>5, <1>6, <1>7, LeaveChange, Zenon
<1> QED BY <1>3, <1>7, <1>8

\* An offline session whose time is over.
Expires ==
    /\ SweepOffline
    /\ offlineSessions' = [offlineSessions EXCEPT ![itr] = NoSession]
    /\ Expired(offlineSessions[itr])
    /\ alive' = alive \ {offlineSessions[itr]}
    /\ ws' = Fields({offlineSessions[itr]}, NoSession, {})
    /\ charDB' = charDB \o Save(offlineSessions[itr])

LEMMA SweepChange ==
    ASSUME TypeInv, Boxes, Expires
    PROVE  Change({}, {}, {}, {offlineSessions[itr]}, {}) /\ sessions' = sessions
<1> DEFINE x == offlineSessions[itr]
<1>1. /\ x \in Sessions /\ x \in Offline /\ itr \in Accounts /\ x # NoSession
      /\ x \in alive /\ x \notin Listed /\ x \notin Range(newSessions)
      /\ UNCHANGED <<born, newSessions, sessions, queuedPlayer, stopped>>
  <2>1. x \in Sessions /\ itr \in Accounts /\ x # NoSession
    BY NoneAssumption DEF Expires, SweepOffline, TypeInv, TypeOK, Walking
  <2>2. x \in Offline
    BY <2>1 DEF Offline, Range, TypeInv, TypeOK
  <2>3. x \in alive /\ x \notin Listed /\ x \notin Range(newSessions)
    BY <2>2 DEF Boxes, OneContainer
  <2> QED BY <2>1, <2>2, <2>3 DEF Expires, SweepOffline
<1>2. Offline' = (Offline \ {x}) \cup {}
  <2>1. /\ offlineSessions \in [Accounts -> Sessions \cup {NoSession}]
        /\ \A b \in Accounts : offlineSessions[b] # NoSession => Account[offlineSessions[b]] = b
    BY DEF TypeInv, TypeOK, Places
  <2>2. Range([offlineSessions EXCEPT ![itr] = NoSession]) \ {NoSession}
          = (Range(offlineSessions) \ {NoSession}) \ {offlineSessions[itr]}
    BY <1>1, <2>1 DEF Range
  <2> QED BY <2>2 DEF Offline, Expires
<1>3. Listed' = (Listed \ {}) \cup {}
  BY <1>1 DEF Listed
<1> HIDE DEF x
<1>4. \A s \in Sessions :
        /\ s \in {x} => ws'[s] = Blank
        /\ s \notin {x} => /\ SameCharacter(s)
                           /\ ws'[s].init = IF s \in {} THEN "asked" ELSE ws[s].init
  <2>1. ws' = Fields({x}, NoSession, {}) /\ ws \in [Sessions -> Session]
    BY DEF Expires, x, TypeInv, TypeOK
  <2> QED BY <2>1, FieldsFacts DEF SameCharacter
<1>5. Grows(charDB, charDB', Asks({}) \cup Saves({x}))
  <2>1. charDB' = charDB \o Save(x)
    BY DEF Expires, x
  <2>2. /\ Save(x) \in Seq(CharQuery) /\ Range(Save(x)) \subseteq Asks({}) \cup Saves({x})
        /\ Grows(charDB, charDB, Asks({}) \cup Saves({x})) /\ charDB \in Seq(CharQuery)
    BY <1>1, PushedQueries
  <2> QED BY <2>1, <2>2, GrowsMore
<1>6. alive' = alive \ {x}
  BY DEF Expires, x
<1>7. Change({}, {}, {}, {x}, {})
  BY <1>1, <1>2, <1>3, <1>4, <1>5, <1>6 DEF Change, Boxes
<1> QED BY <1>1, <1>7 DEF x

\* Steps that move no session between containers and no entry of a queue.
Still == UNCHANGED <<born, alive, newSessions, sessions, offlineSessions, queuedPlayer, stopped>>

StillAction ==
    \/ \E s \in Sessions : LoseSocket(s) \/ KickPacket(s)
    \/ AnswerQuery \/ BeginTick \/ BeginWalk \/ BeginUpdate
    \/ \E b \in BOOLEAN : ProcessCallbacks(b)
    \/ \E c \in Chars : LoginPacket(c)
    \/ LogoutPacket \/ BidPacket \/ FinishUpdate
    \/ SweepOffline /\ ~Expires
    \/ UNCHANGED vars

LEMMA StillFacts == StillAction => Still
<1> USE DEF Still, worldVars, loopVars, objectVars
<1>1. ASSUME NEW s \in Sessions, LoseSocket(s) \/ KickPacket(s) PROVE Still
  BY <1>1 DEF LoseSocket, KickPacket
<1>2. CASE AnswerQuery \/ BeginTick \/ BeginWalk \/ BeginUpdate
  BY <1>2 DEF AnswerQuery, BeginTick, BeginWalk, BeginUpdate
<1>3. ASSUME NEW b \in BOOLEAN, ProcessCallbacks(b) PROVE Still
  BY <1>3 DEF ProcessCallbacks
<1>4. ASSUME NEW c \in Chars, LoginPacket(c) PROVE Still
  BY <1>4 DEF LoginPacket
<1>5. CASE LogoutPacket \/ BidPacket \/ FinishUpdate
  BY <1>5 DEF LogoutPacket, BidPacket, FinishUpdate
<1>6. CASE SweepOffline /\ ~Expires
  BY <1>6 DEF SweepOffline, Expires, Destroy
<1>7. CASE UNCHANGED vars
  BY <1>7 DEF vars
<1> QED BY <1>1, <1>2, <1>3, <1>4, <1>5, <1>6, <1>7 DEF StillAction

LEMMA NextCases ==
    ASSUME [Next]_vars
    PROVE  \/ StillAction
           \/ \E s \in Sessions : NewSession(s)
           \/ KickAll
           \/ RefuseSession \/ AddFirstSession \/ ReplaceSession
           \/ KeepOffline \/ RemoveSession \/ Expires
  BY DEF Next, WorldStep, Packet, StillAction

\* Every other step is a Change.
LEMMA ChangeCases ==
    ASSUME TypeInv, Boxes,
           \/ RefuseSession \/ AddFirstSession \/ ReplaceSession
           \/ KeepOffline \/ RemoveSession \/ Expires
    PROVE  \E enters, leaves, kept, dead, asked : Change(enters, leaves, kept, dead, asked)
  BY RefuseChange, AddFirstChange, ReplaceChange, KeepOfflineChange, RemoveSessionChange,
     SweepChange

LEMMA NewSessionBoxes ==
    ASSUME TypeInv, Boxes, NEW s \in Sessions, NewSession(s)
    PROVE  /\ Boxes' /\ UNCHANGED <<Listed, Offline, queuedPlayer, charDB, stopped>>
           /\ s \notin Listed /\ s \notin Offline /\ s \notin Range(newSessions)
<1>1. /\ newSessions' = Append(newSessions, s) /\ alive' = alive \cup {s}
      /\ UNCHANGED <<sessions, offlineSessions, queuedPlayer, charDB, stopped>> /\ s \notin alive
  BY DEF NewSession, loopVars, TypeInv, TypeOK
<1>2. UNCHANGED <<Listed, Offline>>
  BY <1>1 DEF Listed, Offline
<1>3. s \notin Listed /\ s \notin Offline /\ s \notin Range(newSessions)
  BY <1>1 DEF Boxes, OneContainer
<1>4. Range(newSessions') = Range(newSessions) \cup {s} /\ Distinct(newSessions')
  BY <1>1, <1>3, AppendDistinct DEF TypeInv, TypeOK, Boxes
<1>5. OneContainer'
  BY <1>1, <1>2, <1>3, <1>4 DEF Boxes, OneContainer
<1> QED BY <1>1, <1>2, <1>3, <1>4, <1>5 DEF Boxes

LEMMA KickAllFacts ==
    ASSUME TypeInv, KickAll
    PROVE  /\ UNCHANGED <<Listed, Offline, born, alive, newSessions, sessions, offlineSessions, charDB>>
           /\ queuedPlayer' = <<>> /\ stopped' = TRUE /\ ~stopped /\ pc' = "collect"
  BY DEF KickAll, Listed, Offline

LEMMA BoxesStep == TypeInv /\ Boxes /\ [Next]_vars => Boxes'
<1> SUFFICES ASSUME TypeInv, Boxes, [Next]_vars PROVE Boxes'
  OBVIOUS
<1>1. CASE StillAction
  BY <1>1, StillFacts DEF Still, Boxes, OneContainer, Distinct, Listed, Offline
<1>2. CASE KickAll
  <2>1. Distinct(<<>>) /\ Range(<<>>) = {}
    BY DEF Distinct, Range
  <2> QED BY <1>2, <2>1, KickAllFacts DEF Boxes, OneContainer, Distinct
<1> QED BY <1>1, <1>2, NextCases, NewSessionBoxes, ChangeCases, ChangeBoxes

LEMMA BoxesInit == Init => Boxes
<1> SUFFICES ASSUME Init PROVE Boxes
  OBVIOUS
<1>1. Distinct(<<>>) /\ Range(<<>>) = {}
  BY DEF Distinct, Range
<1>2. Listed = {} /\ Offline = {}
  BY DEF Init, Listed, Offline, Range
<1> QED BY <1>1, <1>2 DEF Init, Boxes, OneContainer

\* However sessions are refused, replaced, kept offline, swept and deleted while
\* network threads bring new ones: each is in one container, none is lost.
THEOREM SessionsHaveOneHome == Spec => []OneContainer
<1>1. Init => TypeInv /\ Boxes
  BY TypeInit, BoxesInit
<1>2. TypeInv /\ Boxes /\ [Next]_vars => (TypeInv /\ Boxes)'
  BY TypeStep, BoxesStep
<1>3. TypeInv /\ Boxes => OneContainer
  BY DEF Boxes
<1> QED BY <1>1, <1>2, <1>3, PTL DEF Spec

(* ---- What the other steps do to the fields of the sessions ------------ *)

SameFields(s) == SameCharacter(s) /\ ws'[s].init = ws[s].init

OthersSame(S) == \A t \in Sessions \ S : SameFields(t)

Idle == charDB' = charDB /\ OthersSame({})

KicksListed ==
    /\ charDB' = charDB /\ pc \in {"packets", "between"} /\ pc' = pc
    /\ \E s \in Listed :
         /\ OthersSame({s}) /\ ws'[s].kicked = TRUE
         /\ ws'[s].loading = ws[s].loading /\ ws'[s].loaded = ws[s].loaded
         /\ ws'[s].player = ws[s].player /\ ws'[s].init = ws[s].init

Answers(q) ==
    /\ charDB # <<>> /\ q = Head(charDB) /\ charDB' = Tail(charDB)
    /\ \A s \in Sessions :
         /\ ws'[s].kicked = ws[s].kicked /\ ws'[s].loading = ws[s].loading
         /\ ws'[s].player = ws[s].player
         /\ ws'[s].loaded
              = (ws[s].loaded \/ (q.kind = "load" /\ q.session = s /\ s \in alive))
         /\ ws'[s].init = IF q.kind = "init" /\ q.session = s /\ s \in alive
                            THEN "answered" ELSE ws[s].init

\* The session `Current` of a listed account is at work.
AtWork == pc \in {"packets", "finish"} /\ Current \in Sessions /\ Current \in Listed

Bids ==
    /\ AtWork /\ OthersSame({})
    /\ charDB' = Append(charDB, Query("bid", Current, ws[Current].player))

\* Callbacks: an answered load ends, in the world or with a kick.
CallsBack ==
    /\ AtWork /\ charDB' = charDB /\ OthersSame({Current})
    /\ ws'[Current].init = "no" <=> ws[Current].init = "no"
    /\ \/ SameCharacter(Current)
       \/ /\ ws[Current].loaded
          /\ ws'[Current].loading = NoChar /\ ws'[Current].loaded = FALSE
          /\ ws'[Current].player \in {ws[Current].player, ws[Current].loading}

\* A login packet that is accepted.
LogsIn(c) ==
    /\ AtWork /\ pc = "packets" /\ pc' = "packets" /\ Owner[c] = itr
    /\ ws[Current].loading = NoChar /\ ws[Current].player = NoChar

TakesOver(c) ==
    /\ LogsIn(c)
    /\ LET off == offlineSessions[itr]
       IN  /\ off # NoSession /\ ws[off].player = c
           /\ charDB' = charDB /\ OthersSame({Current, off})
           /\ ws'[off] = [ws[off] EXCEPT !.player = NoChar]
           /\ ws'[Current] = [ws[Current] EXCEPT !.player = c]

Loads(c) ==
    /\ LogsIn(c)
    /\ charDB' = Append(charDB, Query("load", Current, c))
    /\ OthersSame({Current, offlineSessions[itr]})
    /\ ws'[Current] = [ws[Current] EXCEPT !.loading = c]
    /\ offlineSessions[itr] # NoSession =>
         /\ ws[offlineSessions[itr]].player # c
         /\ ws'[offlineSessions[itr]] = Kicked(ws[offlineSessions[itr]])

\* A due logout.
LogsOut ==
    /\ AtWork /\ charDB' = charDB \o Save(Current) /\ OthersSame({Current})
    /\ ws[Current].loading = NoChar
    /\ ws'[Current].kicked = ws[Current].kicked /\ ws'[Current].loading = NoChar
    /\ ws'[Current].loaded = ws[Current].loaded /\ ws'[Current].player = NoChar
    /\ ws'[Current].init = ws[Current].init

LEMMA Visiting ==
    ASSUME TypeInv, Boxes, pc \in {"visit", "packets", "finish"}
    PROVE  /\ Current \in Sessions /\ Current \in Listed /\ itr \in Accounts
           /\ Current # NoSession /\ Account[Current] = itr
           /\ offlineSessions[itr] \in Sessions \cup {NoSession}
           /\ offlineSessions[itr] # Current
<1>1. itr \in Accounts /\ sessions[itr] # NoSession
  BY DEF TypeInv, Walking
<1>2. /\ Current \in Sessions /\ Current \in Listed /\ Account[Current] = itr
      /\ offlineSessions[itr] \in Sessions \cup {NoSession}
  BY <1>1 DEF Current, Listed, Range, TypeInv, TypeOK, Places
<1>3. offlineSessions[itr] # NoSession => offlineSessions[itr] \in Offline
  BY <1>1 DEF Offline, Range, TypeInv, TypeOK
<1> QED BY <1>1, <1>2, <1>3, NoneAssumption DEF Boxes, OneContainer

\* What Kick does to one session.
LEMMA KickedFacts ==
    ASSUME NEW r \in Session
    PROVE  /\ Kicked(r).kicked = TRUE /\ Kicked(r).loading = r.loading
           /\ Kicked(r).loaded = r.loaded /\ Kicked(r).player = r.player
           /\ Kicked(r).init = r.init
  BY DEF Kicked, Session

LEMMA IdleActions ==
    ASSUME TypeInv, Boxes,
           \/ \E s \in Sessions : LoseSocket(s)
           \/ BeginTick \/ BeginWalk \/ BeginUpdate \/ LogoutPacket
           \/ SweepOffline /\ ~Expires
           \/ UNCHANGED vars
    PROVE  Idle
<1> USE DEF Idle, OthersSame, SameFields, SameCharacter
<1>0. ws \in [Sessions -> Session]
  BY DEF TypeInv, TypeOK
<1>1. \A r \in Session : \A v :
        /\ LET u == [r EXCEPT !.socket = v]
           IN  /\ u.kicked = r.kicked /\ u.loading = r.loading /\ u.loaded = r.loaded
               /\ u.player = r.player /\ u.init = r.init
        /\ LET u == [r EXCEPT !.logout = v]
           IN  /\ u.kicked = r.kicked /\ u.loading = r.loading /\ u.loaded = r.loaded
               /\ u.player = r.player /\ u.init = r.init
        /\ LET u == [r EXCEPT !.age = v]
           IN  /\ u.kicked = r.kicked /\ u.loading = r.loading /\ u.loaded = r.loaded
               /\ u.player = r.player /\ u.init = r.init
  BY DEF Session
<1>2. ASSUME NEW s \in Sessions, LoseSocket(s) PROVE Idle
  <2>1. ws' = [ws EXCEPT ![s] = [ws[s] EXCEPT !.socket = "closed"]] /\ charDB' = charDB
    BY <1>0, <1>2 DEF LoseSocket
  <2> QED BY <1>0, <1>1, <2>1
<1>3. CASE BeginTick \/ BeginWalk \/ BeginUpdate \/ UNCHANGED vars
  BY <1>3 DEF BeginTick, BeginWalk, BeginUpdate, vars, objectVars
<1>4. CASE LogoutPacket
  <2>1. Current \in Sessions
    BY <1>4, Visiting DEF LogoutPacket, Reading
  <2>2. PICK b \in BOOLEAN : ws' = [ws EXCEPT ![Current] = [ws[Current] EXCEPT !.logout = b]]
    BY <1>0, <1>4, <2>1 DEF LogoutPacket
  <2>3. charDB' = charDB
    BY <1>4 DEF LogoutPacket
  <2> QED BY <1>0, <1>1, <2>1, <2>2, <2>3
<1>5. CASE SweepOffline /\ ~Expires
  <2> DEFINE x == offlineSessions[itr]
  <2>1. x \in Sessions
    BY <1>5 DEF SweepOffline, TypeInv, TypeOK, Walking
  <2>2. ws' = [ws EXCEPT ![x] = [ws[x] EXCEPT !.age = ws[x].age + 1]] /\ charDB' = charDB
    <3>1. /\ ws' = [ws EXCEPT ![x].age = @ + 1] /\ charDB' = charDB
      BY <1>5 DEF SweepOffline, Expires, Destroy
    <3> QED BY <1>0, <2>1, <3>1
  <2> QED BY <1>0, <1>1, <2>1, <2>2
<1> QED BY <1>2, <1>3, <1>4, <1>5

LEMMA KickActions ==
    ASSUME TypeInv, Boxes, NEW s \in Sessions, KickPacket(s)
    PROVE  KicksListed
<1>1. /\ ws' = [ws EXCEPT ![s] = Kicked(ws[s])] /\ charDB' = charDB
      /\ pc \in {"packets", "between"} /\ pc' = pc
  BY DEF KickPacket, Reading, loopVars, TypeInv, TypeOK
<1>2. s \in Listed
  BY Visiting DEF KickPacket, Reading
<1>3. ws \in [Sessions -> Session]
  BY DEF TypeInv, TypeOK
<1>4. /\ ws'[s] = Kicked(ws[s]) /\ ws[s] \in Session
      /\ \A t \in Sessions \ {s} : ws'[t] = ws[t]
  BY <1>1, <1>3
<1>5. OthersSame({s}) /\ ws'[s] = Kicked(ws[s]) /\ ws[s] \in Session
  BY <1>4 DEF OthersSame, SameFields, SameCharacter
<1>6. /\ ws'[s].kicked = TRUE /\ ws'[s].loading = ws[s].loading
      /\ ws'[s].loaded = ws[s].loaded /\ ws'[s].player = ws[s].player
      /\ ws'[s].init = ws[s].init
  BY <1>5, KickedFacts
<1> QED BY <1>1, <1>2, <1>5, <1>6 DEF KicksListed

LEMMA AnswerActions ==
    ASSUME TypeInv, Boxes, AnswerQuery
    PROVE  Answers(Head(charDB))
<1> DEFINE q == Head(charDB)
<1>1. /\ charDB # <<>> /\ charDB' = Tail(charDB) /\ ws \in [Sessions -> Session]
      /\ q \in CharQuery /\ alive \subseteq Sessions
  BY DEF AnswerQuery, TypeInv, TypeOK
<1>2. ws' = IF q.session \notin alive THEN ws
               ELSE CASE q.kind = "init" -> [ws EXCEPT ![q.session].init = "answered"]
                      [] q.kind = "load" -> [ws EXCEPT ![q.session].loaded = TRUE]
                      [] q.kind = "bid"  -> [ws EXCEPT ![q.session].bid = "answered"]
  BY DEF AnswerQuery
<1>3. q.session \in alive => q.kind \in {"init", "load", "bid"} /\ q.session \in Sessions
  BY <1>1, NoneAssumption DEF CharQuery
<1>0. q = Head(charDB)
  BY DEF q
<1> HIDE DEF q
<1>4. \A r \in Session :
        /\ LET u == [r EXCEPT !.init = "answered"]
           IN  /\ u.kicked = r.kicked /\ u.loading = r.loading /\ u.loaded = r.loaded
               /\ u.player = r.player /\ u.init = "answered"
        /\ LET u == [r EXCEPT !.loaded = TRUE]
           IN  /\ u.kicked = r.kicked /\ u.loading = r.loading /\ u.loaded = TRUE
               /\ u.player = r.player /\ u.init = r.init
        /\ LET u == [r EXCEPT !.bid = "answered"]
           IN  /\ u.kicked = r.kicked /\ u.loading = r.loading /\ u.loaded = r.loaded
               /\ u.player = r.player /\ u.init = r.init
        /\ r.loaded \in BOOLEAN
  BY DEF Session
<1>5. CASE q.session \notin alive
  <2>1. ws' = ws
    BY <1>2, <1>5
  <2>2. \A s \in Sessions : ws[s].loaded \in BOOLEAN
    BY <1>1, <1>4
  <2> QED BY <1>0, <1>1, <1>5, <2>1, <2>2 DEF Answers
<1>6. CASE q.session \in alive /\ q.kind = "init"
  <2>1. ws' = [ws EXCEPT ![q.session] = [ws[q.session] EXCEPT !.init = "answered"]]
    BY <1>1, <1>2, <1>3, <1>6
  <2>2. ASSUME NEW s \in Sessions
        PROVE  /\ ws'[s].kicked = ws[s].kicked /\ ws'[s].loading = ws[s].loading
               /\ ws'[s].player = ws[s].player /\ ws'[s].loaded = ws[s].loaded
               /\ ws'[s].init = IF q.session = s THEN "answered" ELSE ws[s].init
               /\ ws[s].loaded \in BOOLEAN
    BY <1>1, <1>3, <1>4, <1>6, <2>1
  <2> QED BY <1>0, <1>1, <1>6, <2>2 DEF Answers
<1>7. CASE q.session \in alive /\ q.kind = "load"
  <2>1. ws' = [ws EXCEPT ![q.session] = [ws[q.session] EXCEPT !.loaded = TRUE]]
    BY <1>1, <1>2, <1>3, <1>7
  <2>2. ASSUME NEW s \in Sessions
        PROVE  /\ ws'[s].kicked = ws[s].kicked /\ ws'[s].loading = ws[s].loading
               /\ ws'[s].player = ws[s].player /\ ws'[s].init = ws[s].init
               /\ ws'[s].loaded = IF q.session = s THEN TRUE ELSE ws[s].loaded
               /\ ws[s].loaded \in BOOLEAN
    <3>1. ws[s] \in Session /\ q.session \in Sessions
      BY <1>1, <1>3, <1>7
    <3>2. CASE q.session = s
      <4>1. ws'[s] = [ws[s] EXCEPT !.loaded = TRUE]
        BY <1>1, <2>1, <3>1, <3>2
      <4> QED BY <1>4, <3>1, <3>2, <4>1
    <3>3. CASE q.session # s
      <4>1. ws'[s] = ws[s]
        BY <1>1, <2>1, <3>1, <3>3
      <4> QED BY <1>4, <3>1, <3>3, <4>1
    <3> QED BY <3>2, <3>3
  <2>3. ASSUME NEW s \in Sessions
        PROVE  /\ ws'[s].loaded
                    = (ws[s].loaded \/ (q.kind = "load" /\ q.session = s /\ s \in alive))
               /\ ws'[s].init = IF q.kind = "init" /\ q.session = s /\ s \in alive
                                  THEN "answered" ELSE ws[s].init
    <3>1. CASE q.session = s
      BY <1>7, <2>2, <3>1
    <3>2. CASE q.session # s
      BY <2>2, <3>2
    <3> QED BY <3>1, <3>2
  <2> QED BY <1>0, <1>1, <2>2, <2>3 DEF Answers
<1>8. CASE q.session \in alive /\ q.kind = "bid"
  <2>1. ws' = [ws EXCEPT ![q.session] = [ws[q.session] EXCEPT !.bid = "answered"]]
    BY <1>1, <1>2, <1>3, <1>8
  <2>2. ASSUME NEW s \in Sessions
        PROVE  /\ ws'[s].kicked = ws[s].kicked /\ ws'[s].loading = ws[s].loading
               /\ ws'[s].player = ws[s].player /\ ws'[s].loaded = ws[s].loaded
               /\ ws'[s].init = ws[s].init /\ ws[s].loaded \in BOOLEAN
    BY <1>1, <1>3, <1>4, <1>8, <2>1
  <2> QED BY <1>0, <1>1, <1>8, <2>2 DEF Answers
<1> QED BY <1>3, <1>5, <1>6, <1>7, <1>8 DEF q

LEMMA BidActions ==
    ASSUME TypeInv, Boxes, BidPacket
    PROVE  Bids
<1>1. /\ pc = "packets" /\ ws \in [Sessions -> Session]
      /\ charDB' = Append(charDB, Query("bid", Current, ws[Current].player))
  BY DEF BidPacket, Reading, TypeInv, TypeOK
<1>2. Current \in Sessions /\ Current \in Listed
  BY <1>1, Visiting
<1>3. ws' = [ws EXCEPT ![Current] = [ws[Current] EXCEPT !.bid = "asked"]]
  BY <1>1, <1>2 DEF BidPacket
<1>4. \A r \in Session : LET u == [r EXCEPT !.bid = "asked"]
           IN  /\ u.kicked = r.kicked /\ u.loading = r.loading /\ u.loaded = r.loaded
               /\ u.player = r.player /\ u.init = r.init
  BY DEF Session
<1> QED BY <1>1, <1>2, <1>3, <1>4 DEF Bids, AtWork, OthersSame, SameFields, SameCharacter

LEMMA CallbackActions ==
    ASSUME TypeInv, Boxes, NEW b \in BOOLEAN, ProcessCallbacks(b)
    PROVE  CallsBack
<1> DEFINE r == ws[Current]
           u == Called(r, b)
<1>1. /\ pc = "packets" /\ ws \in [Sessions -> Session]
      /\ charDB' = charDB /\ ws' = [ws EXCEPT ![Current] = Called(ws[Current], b)]
  BY DEF ProcessCallbacks, TypeInv, TypeOK
<1>2. Current \in Sessions /\ Current \in Listed
  BY <1>1, Visiting
<1>3. /\ ws'[Current] = u /\ \A s \in Sessions \ {Current} : ws'[s] = ws[s]
      /\ r \in Session
  BY <1>1, <1>2
<1>4. ASSUME NEW t \in Session
      PROVE  LET v == [t EXCEPT !.bid = IF @ = "answered" THEN "none" ELSE @]
             IN  /\ v.kicked = t.kicked /\ v.loading = t.loading /\ v.loaded = t.loaded
                 /\ v.player = t.player /\ v.init = t.init
  BY DEF Session
<1> DEFINE i == IF r.init = "answered" THEN [r EXCEPT !.init = "done", !.inQueue = FALSE] ELSE r
<1>5. /\ i \in Session /\ i.kicked = r.kicked /\ i.loading = r.loading /\ i.loaded = r.loaded
      /\ i.player = r.player /\ (i.init = "no" <=> r.init = "no")
  <2>1. r.init = "answered" => [r EXCEPT !.init = "done", !.inQueue = FALSE].init = "done"
    BY <1>3 DEF Session
  <2>2. LET v == [r EXCEPT !.init = "done", !.inQueue = FALSE]
        IN  v \in Session /\ v.kicked = r.kicked /\ v.loading = r.loading /\ v.loaded = r.loaded
            /\ v.player = r.player
    BY <1>3 DEF Session
  <2> QED BY <1>3, <2>1, <2>2
<1> DEFINE d == [i EXCEPT !.loading = NoChar, !.loaded = FALSE]
           e == EnterWorld(i, b)
<1> HIDE DEF i
<1>6. /\ d \in Session /\ d.loading = NoChar /\ d.loaded = FALSE /\ d.player = i.player
      /\ d.init = i.init
  BY <1>5 DEF Session
<1>7. e = IF b THEN [d EXCEPT !.player = i.loading] ELSE Kicked(d)
  BY DEF EnterWorld
<1> HIDE DEF d, e
<1>8. /\ [d EXCEPT !.player = i.loading] \in Session
      /\ [d EXCEPT !.player = i.loading].loading = NoChar
      /\ [d EXCEPT !.player = i.loading].loaded = FALSE
      /\ [d EXCEPT !.player = i.loading].player = i.loading
      /\ [d EXCEPT !.player = i.loading].init = i.init
  <2>1. i.loading \in Chars \cup {NoChar}
    BY <1>5 DEF Session
  <2> QED BY <1>6, <2>1 DEF Session
<1>9. /\ e \in Session /\ e.loading = NoChar /\ e.loaded = FALSE /\ e.init = i.init
      /\ e.player \in {i.player, i.loading}
  <2>1. CASE b
    BY <1>7, <1>8, <2>1
  <2>2. CASE ~b
    <3>1. e = Kicked(d)
      BY <1>7, <2>2
    <3>2. Kicked(d) \in Session
      BY <1>6, CalledType
    <3> QED BY <1>6, <3>1, <3>2, KickedFacts
  <2> QED BY <2>1, <2>2
<1> DEFINE p == IF r.socket = "open" THEN QueryCallbacks(r, b) ELSE r
<1>10. p = r \/ p = i \/ (r.loaded /\ p = e)
  <2>1. QueryCallbacks(r, b) = IF r.loaded THEN e ELSE i
    BY DEF QueryCallbacks, e, i
  <2> QED BY <2>1
<1>11. u = [p EXCEPT !.bid = IF @ = "answered" THEN "none" ELSE @]
  BY DEF Called
<1> HIDE DEF p, u
<1>12. /\ u.kicked = p.kicked /\ u.loading = p.loading /\ u.loaded = p.loaded
       /\ u.player = p.player /\ u.init = p.init
  <2>1. p \in Session
    BY <1>3, <1>5, <1>9, <1>10
  <2> QED BY <1>4, <1>11, <2>1
<1>13. u.init = "no" <=> r.init = "no"
  BY <1>5, <1>9, <1>10, <1>12
<1>14. \/ /\ u.kicked = r.kicked /\ u.loading = r.loading /\ u.loaded = r.loaded
          /\ u.player = r.player
       \/ /\ r.loaded /\ u.loading = NoChar /\ u.loaded = FALSE
          /\ u.player \in {r.player, r.loading}
  BY <1>5, <1>9, <1>10, <1>12
<1> QED BY <1>1, <1>2, <1>3, <1>13, <1>14
        DEF CallsBack, AtWork, OthersSame, SameFields, SameCharacter

LEMMA LoginActions ==
    ASSUME TypeInv, Boxes, NEW c \in Chars, LoginPacket(c)
    PROVE  KicksListed \/ TakesOver(c) \/ Loads(c)
<1> DEFINE s == Current
           off == offlineSessions[itr]
<1>1. /\ pc = "packets" /\ pc' = "packets" /\ ws \in [Sessions -> Session] /\ Owner[c] = itr
  BY DEF LoginPacket, Reading, TypeInv, TypeOK, loopVars
<1>2. s \in Sessions /\ s \in Listed /\ off \in Sessions \cup {NoSession} /\ off # s
  BY <1>1, Visiting
<1>3. CASE ws[s].loading # NoChar \/ ws[s].player # NoChar
  <2>1. ws' = [ws EXCEPT ![s] = Kicked(ws[s])] /\ charDB' = charDB
    BY <1>1, <1>3 DEF LoginPacket
  <2>2. KicksListed
    <3>1. ws'[s] = Kicked(ws[s]) /\ \A t \in Sessions \ {s} : ws'[t] = ws[t]
      BY <1>1, <1>2, <2>1
    <3> HIDE DEF s
    <3> QED BY <1>1, <1>2, <2>1, <3>1, KickedFacts DEF KicksListed, OthersSame, SameFields, SameCharacter
  <2> QED BY <2>2
<1>4. CASE /\ ws[s].loading = NoChar /\ ws[s].player = NoChar
           /\ off # NoSession /\ ws[off].player = c
           /\ TakeOver(s, off, c) /\ charDB' = charDB
  <2>1. LogsIn(c)
    BY <1>1, <1>2, <1>4 DEF LogsIn, AtWork
  <2>2. /\ ws'[s] = [ws[s] EXCEPT !.player = c]
        /\ ws'[off] = [ws[off] EXCEPT !.player = NoChar]
        /\ \A t \in Sessions \ {s, off} : ws'[t] = ws[t]
    <3>1. off \in Sessions /\ ws' = [ws EXCEPT ![off].player = NoChar, ![s].player = c]
      BY <1>2, <1>4 DEF TakeOver
    <3> HIDE DEF s, off
    <3> QED BY <1>1, <1>2, <3>1
  <2> QED BY <1>4, <2>1, <2>2 DEF TakesOver, OthersSame, SameFields, SameCharacter
<1>5. CASE /\ ws[s].loading = NoChar /\ ws[s].player = NoChar
           /\ MayLoad(off, c)
           /\ ws' = [t \in Sessions |-> IF t = s THEN [ws[s] EXCEPT !.loading = c]
                                        ELSE IF t = off THEN Kicked(ws[off]) ELSE ws[t]]
           /\ charDB' = Append(charDB, Query("load", s, c))
  <2>1. LogsIn(c)
    BY <1>1, <1>2, <1>5 DEF LogsIn, AtWork
  <2>2. /\ ws'[s] = [ws[s] EXCEPT !.loading = c]
        /\ \A t \in Sessions \ {s, off} : ws'[t] = ws[t]
        /\ off # NoSession => ws'[off] = Kicked(ws[off]) /\ ws[off].player # c
    BY <1>2, <1>5 DEF MayLoad
  <2> QED BY <1>5, <2>1, <2>2 DEF Loads, OthersSame, SameFields, SameCharacter
<1>6. \/ ws[s].loading # NoChar \/ ws[s].player # NoChar
      \/ /\ ws[s].loading = NoChar /\ ws[s].player = NoChar
         /\ off # NoSession /\ ws[off].player = c
         /\ TakeOver(s, off, c) /\ charDB' = charDB
      \/ /\ ws[s].loading = NoChar /\ ws[s].player = NoChar
         /\ MayLoad(off, c)
         /\ ws' = [t \in Sessions |-> IF t = s THEN [ws[s] EXCEPT !.loading = c]
                                        ELSE IF t = off THEN Kicked(ws[off]) ELSE ws[t]]
         /\ charDB' = Append(charDB, Query("load", s, c))
  BY DEF LoginPacket
<1> QED BY <1>3, <1>4, <1>5, <1>6

LEMMA FinishActions ==
    ASSUME TypeInv, Boxes, FinishUpdate
    PROVE  Idle \/ LogsOut
<1>1. pc = "finish" /\ ws \in [Sessions -> Session]
  BY DEF FinishUpdate, TypeInv, TypeOK
<1>2. Current \in Sessions /\ Current \in Listed
  BY <1>1, Visiting
<1>3. CASE UNCHANGED <<ws, charDB>>
  BY <1>3 DEF Idle, OthersSame, SameFields, SameCharacter
<1>4. CASE /\ ws[Current].loading = NoChar
           /\ ws' = [ws EXCEPT ![Current].player = NoChar, ![Current].logout = FALSE]
           /\ charDB' = charDB \o Save(Current)
  <2>1. \A r \in Session : LET u == [r EXCEPT !.player = NoChar, !.logout = FALSE]
           IN  /\ u.kicked = r.kicked /\ u.loading = r.loading /\ u.loaded = r.loaded
               /\ u.player = NoChar /\ u.init = r.init
    BY DEF Session
  <2>2. /\ ws'[Current] = [ws[Current] EXCEPT !.player = NoChar, !.logout = FALSE]
        /\ \A t \in Sessions \ {Current} : ws'[t] = ws[t]
    BY <1>1, <1>2, <1>4
  <2> QED BY <1>1, <1>2, <1>4, <2>1, <2>2
          DEF LogsOut, AtWork, OthersSame, SameFields, SameCharacter
<1> QED BY <1>3, <1>4 DEF FinishUpdate

\* What a step that moves no session may do to fields and queries.
LEMMA StillCases ==
    ASSUME TypeInv, Boxes, StillAction
    PROVE  \/ Idle \/ KicksListed \/ Answers(Head(charDB)) \/ Bids \/ CallsBack
           \/ \E c \in Chars : TakesOver(c) \/ Loads(c)
           \/ LogsOut
  BY IdleActions, KickActions, AnswerActions, BidActions, CallbackActions, LoginActions,
     FinishActions DEF StillAction

\* The fields of a new session, and those of all when the server stops.
LEMMA NewSessionFields ==
    ASSUME TypeInv, NEW s \in Sessions, NewSession(s)
    PROVE  \A t \in Sessions : SameFields(t)
<1>1. ws \in [Sessions -> Session]
  BY DEF TypeInv, TypeOK
<1>2. ws' = [ws EXCEPT ![s] = [ws[s] EXCEPT !.socket = "open"]]
  BY <1>1 DEF NewSession
<1>3. \A r \in Session : LET u == [r EXCEPT !.socket = "open"]
           IN  /\ u.kicked = r.kicked /\ u.loading = r.loading /\ u.loaded = r.loaded
               /\ u.player = r.player /\ u.init = r.init
  BY DEF Session
<1> QED BY <1>1, <1>2, <1>3 DEF SameFields, SameCharacter

LEMMA KickAllFields ==
    ASSUME TypeInv, KickAll
    PROVE  \A t \in Sessions :
             /\ ws'[t].loading = ws[t].loading /\ ws'[t].loaded = ws[t].loaded
             /\ ws'[t].player = ws[t].player /\ ws'[t].init = ws[t].init
             /\ t \in Listed \cup Offline => ws'[t].kicked = TRUE
<1>1. ws \in [Sessions -> Session]
  BY DEF TypeInv, TypeOK
<1>2. \A t \in Sessions : ws'[t] = IF t \in Listed \cup Offline THEN Kicked(ws[t]) ELSE ws[t]
  BY DEF KickAll
<1>3. ASSUME NEW t \in Sessions
      PROVE  /\ ws'[t].loading = ws[t].loading /\ ws'[t].loaded = ws[t].loaded
             /\ ws'[t].player = ws[t].player /\ ws'[t].init = ws[t].init
             /\ t \in Listed \cup Offline => ws'[t].kicked = TRUE
  <2>1. /\ Kicked(ws[t]).kicked = TRUE /\ Kicked(ws[t]).loading = ws[t].loading
        /\ Kicked(ws[t]).loaded = ws[t].loaded /\ Kicked(ws[t]).player = ws[t].player
        /\ Kicked(ws[t]).init = ws[t].init
    BY <1>1, KickedFacts
  <2>2. CASE t \in Listed \cup Offline
    <3>1. ws'[t] = Kicked(ws[t])
      BY <1>2, <2>2
    <3> QED BY <2>1, <3>1
  <2>3. CASE t \notin Listed \cup Offline
    <3>1. ws'[t] = ws[t]
      BY <1>2, <2>3
    <3> QED BY <2>3, <3>1
  <2> QED BY <2>2, <2>3
<1> QED BY <1>3

(* ---- The login queue -------------------------------------------------- *)

LEMMA TailShift ==
    ASSUME NEW S, NEW s \in Seq(S), s # <<>>
    PROVE  /\ 1 \in DOMAIN s /\ Head(s) = s[1] /\ DOMAIN s \subseteq Nat
           /\ \A k \in DOMAIN Tail(s) : /\ k \in Nat /\ k + 1 \in DOMAIN s
                                        /\ Tail(s)[k] = s[k + 1] /\ k + 1 # 1
  OBVIOUS

LEMMA AppendGrows ==
    ASSUME NEW S, NEW s \in Seq(S), NEW e
    PROVE  /\ Grows(s, Append(s, e), {e})
           /\ DOMAIN Append(s, e) = DOMAIN s \cup {Len(s) + 1}
           /\ Append(s, e)[Len(s) + 1] = e /\ Len(s) + 1 \notin DOMAIN s
           /\ \A k \in DOMAIN s : k < Len(s) + 1
  BY DEF Grows

LEMMA LogoutGrows ==
    ASSUME TypeInv, Boxes, LogsOut
    PROVE  Grows(charDB, charDB', Saves({Current}))
<1>1. charDB \in Seq(CharQuery)
  BY DEF TypeInv, TypeOK
<1>2. /\ Grows(charDB, charDB, Asks({}) \cup Saves({Current})) /\ Save(Current) \in Seq(CharQuery)
      /\ Range(Save(Current)) \subseteq Asks({}) \cup Saves({Current})
  BY PushedQueries DEF LogsOut, AtWork
<1>3. Asks({}) = {}
  BY DEF Asks
<1>4. charDB' = charDB \o Save(Current)
  BY DEF LogsOut
<1>5. Grows(charDB, charDB \o Save(Current), Asks({}) \cup Saves({Current}))
  BY <1>1, <1>2, GrowsMore
<1> QED BY <1>3, <1>4, <1>5

\* What the steps that move no session do to the queue of the database.
LEMMA StillQueries ==
    ASSUME TypeInv, Boxes, StillAction
    PROVE  \/ Answers(Head(charDB)) /\ charDB' = Tail(charDB) /\ charDB # <<>>
           \/ charDB' = charDB
           \/ Bids /\ Grows(charDB, charDB', {Query("bid", Current, ws[Current].player)})
           \/ \E c \in Chars : Loads(c) /\ Grows(charDB, charDB', {Query("load", Current, c)})
           \/ LogsOut /\ Grows(charDB, charDB', Saves({Current}))
<1>1. charDB \in Seq(CharQuery)
  BY DEF TypeInv, TypeOK
<1>2. ASSUME LogsOut PROVE Grows(charDB, charDB', Saves({Current}))
  BY <1>2, LogoutGrows
<1>3. ASSUME Bids PROVE Grows(charDB, charDB', {Query("bid", Current, ws[Current].player)})
  BY <1>1, <1>3, AppendGrows DEF Bids
<1>4. ASSUME NEW c \in Chars, Loads(c)
      PROVE  Grows(charDB, charDB', {Query("load", Current, c)})
  BY <1>1, <1>4, AppendGrows DEF Loads
<1>5. ASSUME NEW c \in Chars, TakesOver(c) PROVE charDB' = charDB
  BY <1>5 DEF TakesOver
<1>6. CASE Idle \/ KicksListed \/ CallsBack
  BY <1>6 DEF Idle, KicksListed, CallsBack
<1>7. CASE Answers(Head(charDB))
  BY <1>7 DEF Answers
<1> QED BY <1>2, <1>3, <1>4, <1>5, <1>6, <1>7, StillCases

\* QueueSound with what makes it inductive: InitializeSession is called for
\* no session outside m_sessions, and an unanswered account query belongs to a
\* session that was constructed and, if it lives, initialised.
QueueInv ==
    /\ ~stopped => \A s \in Listed : s \in Range(queuedPlayer) <=> ws[s].init = "no"
    /\ \A s \in Sessions \ (Listed \cup Offline) : ws[s].init = "no"
    /\ \A k \in DOMAIN charDB :
         /\ charDB[k].session \in born \cup {NoSession}
         /\ charDB[k].kind = "init" /\ charDB[k].session \in alive
              => ws[charDB[k].session].init # "no"

LEMMA StillQueue ==
    ASSUME TypeInv, Boxes, QueueInv, StillAction
    PROVE  QueueInv'
<1>1. /\ UNCHANGED <<born, alive, queuedPlayer, stopped, Listed, Offline>>
      /\ charDB \in Seq(CharQuery) /\ alive \subseteq born /\ born \subseteq Sessions
      /\ NoSession \notin Sessions /\ Listed \subseteq alive
  <2>1. Still
    BY StillFacts
  <2> QED BY <2>1, NoneAssumption DEF Still, Listed, Offline, TypeInv, TypeOK, Boxes, OneContainer
<1>2. \A s \in Sessions : ws'[s].init = "no" <=> ws[s].init = "no"
  <2>1. CASE Idle \/ KicksListed \/ Bids \/ LogsOut \/ CallsBack
    BY <2>1 DEF Idle, KicksListed, Bids, LogsOut, CallsBack, OthersSame, SameFields
  <2>2. CASE Answers(Head(charDB))
    <3>1. Head(charDB) = charDB[1] /\ 1 \in DOMAIN charDB
      BY <1>1, <2>2, TailShift DEF Answers
    <3>2. ASSUME NEW s \in Sessions PROVE ws'[s].init = "no" <=> ws[s].init = "no"
      BY <2>2, <3>1 DEF Answers, QueueInv
    <3> QED BY <3>2
  <2>3. ASSUME NEW c \in Chars, TakesOver(c) \/ Loads(c)
        PROVE  \A s \in Sessions : ws'[s].init = "no" <=> ws[s].init = "no"
    <3>1. \A r \in Session : /\ [r EXCEPT !.player = NoChar].init = r.init
                             /\ [r EXCEPT !.player = c].init = r.init
                             /\ [r EXCEPT !.loading = c].init = r.init
      BY DEF Session
    <3>2. \A s \in Sessions : ws[s] \in Session /\ Kicked(ws[s]).init = ws[s].init
      BY KickedFacts DEF TypeInv, TypeOK
    <3>3. offlineSessions[itr] \in Sessions \cup {NoSession} /\ Current \in Sessions
      BY <2>3, Visiting DEF TakesOver, Loads, LogsIn, AtWork
    <3> DEFINE off == offlineSessions[itr]
    <3>4. \A t \in Sessions \ {Current, off} : ws'[t].init = ws[t].init
      BY <2>3 DEF TakesOver, Loads, OthersSame, SameFields
    <3>5. \/ ws'[Current] = [ws[Current] EXCEPT !.player = c]
          \/ ws'[Current] = [ws[Current] EXCEPT !.loading = c]
      BY <2>3 DEF TakesOver, Loads
    <3>6. off # NoSession => \/ ws'[off] = [ws[off] EXCEPT !.player = NoChar]
                             \/ ws'[off] = Kicked(ws[off])
      BY <2>3 DEF TakesOver, Loads
    <3> HIDE DEF off
    <3>7. ws'[Current].init = ws[Current].init
      BY <3>1, <3>2, <3>3, <3>5
    <3>8. off \in Sessions => ws'[off].init = ws[off].init
      BY <1>1, <3>1, <3>2, <3>6
    <3> QED BY <3>4, <3>7, <3>8
  <2> QED BY <2>1, <2>2, <2>3, StillCases
<1>3. ASSUME NEW k \in DOMAIN charDB'
      PROVE  \/ \E j \in DOMAIN charDB : charDB'[k] = charDB[j]
             \/ charDB'[k].kind # "init" /\ charDB'[k].session \in alive \cup {NoSession}
  <2>1. \A s, c, i : Query(i, s, c).kind = i /\ Query(i, s, c).session = s
    BY DEF Query
  <2>2. CASE charDB' = Tail(charDB) /\ charDB # <<>>
    BY <1>1, <2>2, TailShift
  <2>3. CASE charDB' = charDB
    BY <2>3
  <2>4. CASE Bids /\ Grows(charDB, charDB', {Query("bid", Current, ws[Current].player)})
    BY <1>1, <2>1, <2>4 DEF Grows, Bids, AtWork
  <2>5. ASSUME NEW c \in Chars, Loads(c), Grows(charDB, charDB', {Query("load", Current, c)})
        PROVE  \/ \E j \in DOMAIN charDB : charDB'[k] = charDB[j]
               \/ charDB'[k].kind # "init" /\ charDB'[k].session \in alive \cup {NoSession}
    BY <1>1, <2>1, <2>5 DEF Grows, Loads, LogsIn, AtWork
  <2>6. CASE Grows(charDB, charDB', Saves({Current}))
    BY <2>1, <2>6 DEF Grows, Saves
  <2> QED BY <2>2, <2>3, <2>4, <2>5, <2>6, StillQueries
<1>4. ASSUME NEW k \in DOMAIN charDB'
      PROVE  /\ charDB'[k].session \in born \cup {NoSession}
             /\ charDB'[k].kind = "init" /\ charDB'[k].session \in alive
                  => ws'[charDB'[k].session].init # "no"
  BY <1>1, <1>2, <1>3 DEF QueueInv
<1> QED BY <1>1, <1>2, <1>4 DEF QueueInv

LEMMA ChangeQueue ==
    ASSUME TypeInv, Boxes, QueueInv, NEW enters, NEW leaves, NEW kept, NEW dead, NEW asked,
           Change(enters, leaves, kept, dead, asked)
    PROVE  QueueInv'
<1>1. /\ Listed' = (Listed \ leaves) \cup enters /\ Offline' = (Offline \ dead) \cup kept
      /\ born' = born /\ alive' = alive \ dead /\ stopped' = stopped
      /\ enters \subseteq Range(newSessions) /\ leaves \subseteq Listed /\ dead \subseteq alive
      /\ dead \cap enters = {} /\ dead \cap Listed \subseteq leaves
      /\ kept \subseteq leaves \ dead /\ leaves \subseteq kept \cup dead
      /\ asked \subseteq Range(queuedPlayer) \cup enters /\ asked \cap leaves = {}
      /\ Range(queuedPlayer')
           = (Range(queuedPlayer) \ (leaves \cup asked)) \cup (enters \ asked)
      /\ Grows(charDB, charDB', Asks(asked) \cup Saves(dead))
  BY DEF Change
<1>2. ASSUME NEW s \in Sessions
      PROVE  /\ s \in dead => ws'[s].init = "no"
             /\ s \notin dead => ws'[s].init = IF s \in asked THEN "asked" ELSE ws[s].init
  <2>1. Blank.init = "no"
    BY DEF Blank
  <2> QED BY <2>1 DEF Change
<1>3. /\ alive = Range(newSessions) \cup Listed \cup Offline
      /\ Range(newSessions) \cap Listed = {} /\ Range(newSessions) \cap Offline = {}
      /\ Listed \cap Offline = {} /\ Range(queuedPlayer) \subseteq Listed
      /\ alive \subseteq born /\ born \subseteq Sessions
  BY DEF Boxes, OneContainer, TypeInv, TypeOK
<1>4. ASSUME ~stopped', NEW s \in Listed'
      PROVE  s \in Range(queuedPlayer') <=> ws'[s].init = "no"
  <2>1. s \in Sessions /\ s \notin dead
    BY <1>1, <1>3
  <2>2. ws'[s].init = IF s \in asked THEN "asked" ELSE ws[s].init
    BY <1>2, <2>1
  <2>3. CASE s \in enters
    <3>1. ws[s].init = "no" /\ s \notin Range(queuedPlayer)
      BY <1>1, <1>3, <2>1, <2>3 DEF QueueInv
    <3> QED BY <1>1, <2>2, <2>3, <3>1
  <2>4. CASE s \notin enters
    <3>1. s \in Listed /\ s \notin leaves /\ (s \in Range(queuedPlayer) <=> ws[s].init = "no")
      BY <1>1, <1>4, <2>4 DEF QueueInv
    <3> QED BY <1>1, <2>2, <2>4, <3>1
  <2> QED BY <2>3, <2>4
<1>5. ASSUME NEW s \in Sessions \ (Listed' \cup Offline')
      PROVE  ws'[s].init = "no"
  <2>1. s \notin dead => s \notin Listed \cup Offline /\ s \notin asked
    BY <1>1, <1>3, <1>5
  <2> QED BY <1>2, <2>1 DEF QueueInv
<1>6. ASSUME NEW k \in DOMAIN charDB'
      PROVE  /\ charDB'[k].session \in born' \cup {NoSession}
             /\ charDB'[k].kind = "init" /\ charDB'[k].session \in alive'
                  => ws'[charDB'[k].session].init # "no"
  <2>1. CASE k \in DOMAIN charDB /\ charDB'[k] = charDB[k]
    <3>1. /\ charDB[k].session \in born \cup {NoSession}
          /\ charDB[k].kind = "init" /\ charDB[k].session \in alive
              => ws[charDB[k].session].init # "no"
      BY <2>1 DEF QueueInv
    <3> QED BY <1>1, <1>2, <1>3, <2>1, <3>1
  <2>2. CASE charDB'[k] \in Asks(asked)
    <3>1. charDB'[k].session \in asked
      BY <2>2 DEF Asks, Query
    <3> QED BY <1>1, <1>2, <1>3, <3>1
  <2>3. CASE charDB'[k] \in Saves(dead)
    BY <2>3 DEF Saves, Query
  <2> QED BY <1>1, <2>1, <2>2, <2>3 DEF Grows
<1> QED BY <1>4, <1>5, <1>6 DEF QueueInv

LEMMA QueueStep == TypeInv /\ Boxes /\ QueueInv /\ [Next]_vars => QueueInv'
<1> SUFFICES ASSUME TypeInv, Boxes, QueueInv, [Next]_vars PROVE QueueInv'
  OBVIOUS
<1>1. ASSUME NEW s \in Sessions, NewSession(s) PROVE QueueInv'
  <2>1. /\ UNCHANGED <<Listed, Offline, queuedPlayer, charDB, stopped>>
        /\ alive' = alive \cup {s} /\ born' = born \cup {s} /\ s \notin born
        /\ NoSession \notin Sessions
    BY <1>1, NewSessionBoxes, NoneAssumption DEF NewSession
  <2>2. \A t \in Sessions : ws'[t].init = ws[t].init
    BY <1>1, NewSessionFields DEF SameFields
  <2>3. ASSUME NEW k \in DOMAIN charDB'
        PROVE  /\ charDB'[k].session \in born' \cup {NoSession}
               /\ charDB'[k].kind = "init" /\ charDB'[k].session \in alive'
                    => ws'[charDB'[k].session].init # "no"
    <3>1. /\ k \in DOMAIN charDB /\ charDB'[k] = charDB[k]
          /\ charDB[k].session \in born \cup {NoSession}
          /\ charDB[k].kind = "init" /\ charDB[k].session \in alive
               => ws[charDB[k].session].init # "no"
      BY <2>1 DEF QueueInv
    <3>2. charDB[k].session # s /\ alive \subseteq Sessions
      BY <2>1, <3>1 DEF TypeInv, TypeOK
    <3> QED BY <2>1, <2>2, <3>1, <3>2
  <2>4. Listed \subseteq Sessions
    BY DEF Listed, Range, TypeInv, TypeOK
  <2>5. ASSUME ~stopped', NEW t \in Listed'
        PROVE  t \in Range(queuedPlayer') <=> ws'[t].init = "no"
    BY <2>1, <2>2, <2>4, <2>5 DEF QueueInv
  <2>6. \A t \in Sessions \ (Listed' \cup Offline') : ws'[t].init = "no"
    BY <2>1, <2>2 DEF QueueInv
  <2> QED BY <2>3, <2>5, <2>6 DEF QueueInv
<1>2. CASE KickAll
  <2>1. \A t \in Sessions : ws'[t].init = ws[t].init
    BY <1>2, KickAllFields
  <2>2. alive \subseteq Sessions
    BY DEF TypeInv, TypeOK
  <2> QED BY <1>2, <2>1, <2>2, KickAllFacts DEF QueueInv
<1> QED BY <1>1, <1>2, NextCases, StillQueue, ChangeCases, ChangeQueue

LEMMA QueueInit == Init => QueueInv
  BY DEF Init, QueueInv, Blank, Listed, Range

\* The login queue holds listed sessions once each, and InitializeSession has
\* been called for exactly the listed sessions that do not wait in it.
THEOREM WaitingIsUninitialised == Spec => []QueueSound
<1>1. Init => TypeInv /\ Boxes /\ QueueInv
  BY TypeInit, BoxesInit, QueueInit
<1>2. TypeInv /\ Boxes /\ QueueInv /\ [Next]_vars => (TypeInv /\ Boxes /\ QueueInv)'
  BY TypeStep, BoxesStep, QueueStep
<1>3. Boxes /\ QueueInv => QueueSound
  BY DEF Boxes, QueueInv, QueueSound, Distinct
<1> QED BY <1>1, <1>2, <1>3, PTL DEF Spec

(* ---- One body for a character ------------------------------------------ *)

Body(s) == ws'[s].player = ws[s].player /\ ws'[s].loading = ws[s].loading

\* Where a character may be: a session outside both session maps has none, an
\* offline one loads none, one that plays loads none, and nobody plays or loads
\* the character of another account.
BodyAt(s) ==
    /\ s \notin Listed \cup Offline => ws[s].player = NoChar /\ ws[s].loading = NoChar
    /\ s \in Offline => ws[s].loading = NoChar
    /\ ws[s].player # NoChar => Owner[ws[s].player] = Account[s] /\ ws[s].loading = NoChar
    /\ ws[s].loading # NoChar => Owner[ws[s].loading] = Account[s]

CharInv == NoSecondBody /\ \A s \in Sessions : BodyAt(s)

\* An account has two sessions at most that can have a character.
LEMMA AccountPair ==
    ASSUME TypeInv, NEW s \in Listed \cup Offline
    PROVE  /\ s \in Sessions /\ Account[s] \in Accounts
           /\ s \in Listed => s = sessions[Account[s]]
           /\ s \in Offline => s = offlineSessions[Account[s]]
<1>1. s \in Sessions /\ Account[s] \in Accounts
  <2>1. s \in Sessions
    BY DEF Listed, Offline, Range, TypeInv, TypeOK
  <2> QED BY <2>1, AccountAssumption
<1>2. s \in Listed => s = sessions[Account[s]]
  <2>1. ASSUME s \in Listed PROVE s = sessions[Account[s]]
    <3>1. PICK a \in Accounts : s = sessions[a] /\ s # NoSession
      BY <2>1 DEF Listed, Range, TypeInv, TypeOK
    <3> QED BY <3>1 DEF TypeInv, TypeOK, Places
  <2> QED BY <2>1
<1>3. s \in Offline => s = offlineSessions[Account[s]]
  <2>1. ASSUME s \in Offline PROVE s = offlineSessions[Account[s]]
    <3>1. PICK a \in Accounts : s = offlineSessions[a] /\ s # NoSession
      BY <2>1 DEF Offline, Range, TypeInv, TypeOK
    <3> QED BY <3>1 DEF TypeInv, TypeOK, Places
  <2> QED BY <2>1
<1> QED BY <1>1, <1>2, <1>3

\* The characters after a step that moves no session.
LEMMA StillBodies ==
    ASSUME TypeInv, Boxes, StillAction
    PROVE  \/ \A s \in Sessions : Body(s)
           \/ \E c \in Chars : TakesOver(c) \/ Loads(c)
           \/ /\ AtWork /\ \A s \in Sessions \ {Current} : Body(s)
              /\ ws'[Current].loading = NoChar
              /\ ws'[Current].player \in {NoChar, ws[Current].player, ws[Current].loading}
<1> USE DEF Body, OthersSame, SameFields, SameCharacter
<1>1. CASE Idle \/ KicksListed \/ Bids \/ Answers(Head(charDB))
  BY <1>1 DEF Idle, KicksListed, Bids, Answers
<1>2. CASE LogsOut
  BY <1>2 DEF LogsOut
<1>3. CASE CallsBack
  BY <1>3 DEF CallsBack
<1> QED BY <1>1, <1>2, <1>3, StillCases

LEMMA StillChars ==
    ASSUME TypeInv, Boxes, CharInv, StillAction
    PROVE  CharInv'
<1>1. UNCHANGED <<alive, Listed, Offline>> /\ alive \subseteq Sessions
  <2>1. Still
    BY StillFacts
  <2> QED BY <2>1 DEF Still, Listed, Offline, TypeInv, TypeOK
<1>2. CASE \A s \in Sessions : Body(s)
  BY <1>1, <1>2 DEF Body, CharInv, BodyAt, NoSecondBody
<1>3. CASE /\ AtWork /\ \A s \in Sessions \ {Current} : Body(s)
           /\ ws'[Current].loading = NoChar
           /\ ws'[Current].player \in {NoChar, ws[Current].player, ws[Current].loading}
  <2> DEFINE w == Current
  <2>1. w \in Sessions /\ w \in Listed /\ w \notin Offline
    BY <1>3 DEF AtWork, Boxes, OneContainer
  <2> HIDE DEF w
  <2>2. \A s \in Sessions : BodyAt(s)'
    BY <1>1, <1>3, <2>1 DEF Body, CharInv, BodyAt, w
  <2>3. ASSUME NEW t \in alive \ {w}, ws[w].loading # NoChar
        PROVE  ws[w].loading \notin {ws[t].player, ws[t].loading}
    <3>1. t \in Sessions /\ BodyAt(t) /\ BodyAt(w) /\ w \in alive
      BY <1>1, <2>1 DEF CharInv, Boxes, OneContainer
    <3>2. ws[t].player # ws[w].loading
      BY <2>3, <3>1 DEF CharInv, NoSecondBody
    <3>3. ASSUME ws[t].loading = ws[w].loading PROVE FALSE
      <4>1. t \in Listed /\ Account[t] = Account[w]
        BY <2>1, <2>3, <3>1, <3>3 DEF BodyAt
      <4> QED BY <2>1, <2>3, <4>1, AccountPair
    <3> QED BY <3>2, <3>3
  <2>4. ASSUME NEW s \in alive, NEW t \in alive \ {s}, ws'[s].player # NoChar
        PROVE  ws'[s].player \notin {ws'[t].player, ws'[t].loading}
    <3>1. CASE s = w
      <4>1. Body(t)
        BY <1>1, <1>3, <3>1 DEF w
      <4>2. ws[w].player # NoChar => ws[w].player \notin {ws[t].player, ws[t].loading}
        BY <3>1 DEF CharInv, NoSecondBody
      <4> QED BY <1>3, <2>3, <2>4, <3>1, <4>1, <4>2 DEF Body, w
    <3>2. CASE t = w
      <4>1. Body(s) /\ s # w
        BY <1>1, <1>3, <3>2 DEF w
      <4>2. ws[s].player # NoChar => ws[s].player \notin {ws[w].player, ws[w].loading}
        BY <3>2, <4>1 DEF CharInv, NoSecondBody
      <4> QED BY <1>3, <2>4, <3>2, <4>1, <4>2 DEF Body, w
    <3>3. CASE s # w /\ t # w
      BY <1>1, <1>3, <2>4, <3>3 DEF Body, CharInv, NoSecondBody, w
    <3> QED BY <3>1, <3>2, <3>3
  <2> QED BY <1>1, <2>2, <2>4 DEF CharInv, NoSecondBody
<1>4. ASSUME NEW c \in Chars, TakesOver(c) \/ Loads(c) PROVE CharInv'
  <2> DEFINE w == Current
             off == offlineSessions[itr]
  <2>1. /\ w \in Sessions /\ w \in Listed /\ Account[w] = itr /\ w \in alive
        /\ off \in Sessions \cup {NoSession} /\ off # w /\ Owner[c] = itr
        /\ ws[w].loading = NoChar /\ ws[w].player = NoChar /\ c # NoChar /\ itr \in Accounts
        /\ w \notin Offline
    BY <1>4, Visiting, NoneAssumption
       DEF TakesOver, Loads, LogsIn, AtWork, Boxes, OneContainer
  <2>2. off # NoSession => off \in Offline /\ off \in alive /\ Account[off] = itr /\ off \in Sessions
    BY <2>1 DEF Offline, Range, TypeInv, TypeOK, Places, Boxes, OneContainer
  <2>3. \A t \in Sessions \ {w, off} : Body(t)
    BY <1>4 DEF TakesOver, Loads, OthersSame, SameFields, SameCharacter, Body
  <2>4. ASSUME NEW t \in alive, Account[t] = itr, ws[t].player # NoChar \/ ws[t].loading # NoChar
        PROVE  t = off
    <3>1. t \in Sessions /\ t # w /\ BodyAt(t)
      BY <1>1, <2>1, <2>4 DEF CharInv
    <3>2. t \in Listed \cup Offline
      BY <2>4, <3>1 DEF BodyAt
    <3> QED BY <2>1, <2>4, <3>1, <3>2, AccountPair DEF Current
  <2>5. \A r \in Session :
          /\ [r EXCEPT !.player = NoChar].player = NoChar
          /\ [r EXCEPT !.player = NoChar].loading = r.loading
          /\ [r EXCEPT !.player = c].player = c /\ [r EXCEPT !.player = c].loading = r.loading
          /\ [r EXCEPT !.loading = c].player = r.player /\ [r EXCEPT !.loading = c].loading = c
    BY NoneAssumption DEF Session
  <2>6. \A t \in Sessions : ws[t] \in Session
    BY DEF TypeInv, TypeOK
  <2>7. \A t \in Sessions : BodyAt(t)
    BY DEF CharInv
  <2>8. CASE TakesOver(c)
    <3>1. /\ off \in Sessions /\ off \in Offline /\ off \in alive /\ Account[off] = itr
          /\ ws[off].player = c /\ ws[off].loading = NoChar
      BY <2>1, <2>2, <2>7, <2>8 DEF TakesOver, BodyAt
    <3>2. /\ ws'[off].player = NoChar /\ ws'[off].loading = NoChar
          /\ ws'[w].player = c /\ ws'[w].loading = NoChar
      BY <2>1, <2>5, <2>6, <2>8, <3>1 DEF TakesOver
    <3> HIDE DEF w, off
    <3>3. \A t \in Sessions : BodyAt(t)'
      BY <1>1, <2>1, <2>3, <2>7, <3>1, <3>2 DEF BodyAt, Body
    <3>4. \A t \in alive \ {off} : c # ws[t].player /\ c # ws[t].loading
      BY <2>1, <3>1 DEF CharInv, NoSecondBody
    <3>5. ASSUME NEW s \in alive, NEW t \in alive \ {s}, ws'[s].player # NoChar
          PROVE  ws'[s].player \notin {ws'[t].player, ws'[t].loading}
      <4>1. s # off
        BY <3>2, <3>5
      <4>2. CASE s = w
        BY <1>1, <2>1, <2>3, <3>2, <3>4, <4>2 DEF Body
      <4>3. CASE s # w
        <5>1. ws'[s].player = ws[s].player /\ ws[s].player # c
          BY <1>1, <2>3, <3>4, <4>1, <4>3 DEF Body
        <5>2. ws[s].player \notin {ws[t].player, ws[t].loading}
          BY <3>5, <5>1 DEF CharInv, NoSecondBody
        <5> QED BY <1>1, <2>3, <3>2, <3>5, <5>1, <5>2 DEF Body
      <4> QED BY <4>2, <4>3
    <3> QED BY <1>1, <3>3, <3>5 DEF CharInv, NoSecondBody
  <2>9. CASE Loads(c)
    <3>1. ws'[w].player = NoChar /\ ws'[w].loading = c
      BY <2>1, <2>5, <2>6, <2>9 DEF Loads
    <3>2. off # NoSession => Body(off) /\ ws[off].player # c
      <4>1. off # NoSession => ws'[off] = Kicked(ws[off]) /\ ws[off].player # c
        BY <2>9 DEF Loads
      <4> HIDE DEF off
      <4> QED BY <2>2, <2>6, <4>1, KickedFacts DEF Body
    <3>3. \A t \in alive : ws[t].player # c
      BY <1>1, <2>1, <2>4, <2>7, <3>2, NoneAssumption DEF BodyAt
    <3> HIDE DEF w, off
    <3>4. \A t \in Sessions \ {w} : Body(t)
      BY <2>2, <2>3, <3>2, NoneAssumption
    <3>5. \A t \in Sessions : BodyAt(t)'
      BY <1>1, <2>1, <2>7, <3>1, <3>4 DEF BodyAt, Body
    <3>6. ASSUME NEW s \in alive, NEW t \in alive \ {s}, ws'[s].player # NoChar
          PROVE  ws'[s].player \notin {ws'[t].player, ws'[t].loading}
      <4>1. s # w
        BY <3>1, <3>6
      <4>2. ws'[s].player = ws[s].player /\ ws[s].player # c
        BY <1>1, <3>3, <3>4, <4>1 DEF Body
      <4>3. ws[s].player \notin {ws[t].player, ws[t].loading}
        BY <3>6, <4>2 DEF CharInv, NoSecondBody
      <4> QED BY <1>1, <2>1, <3>1, <3>4, <4>2, <4>3, <3>6 DEF Body
    <3> QED BY <1>1, <3>5, <3>6 DEF CharInv, NoSecondBody
  <2> QED BY <1>4, <2>8, <2>9
<1> QED BY <1>2, <1>3, <1>4, StillBodies

LEMMA ChangeChars ==
    ASSUME TypeInv, Boxes, CharInv, NEW enters, NEW leaves, NEW kept, NEW dead, NEW asked,
           Change(enters, leaves, kept, dead, asked)
    PROVE  CharInv'
<1>1. /\ Listed' = (Listed \ leaves) \cup enters /\ Offline' = (Offline \ dead) \cup kept
      /\ alive' = alive \ dead
      /\ leaves \subseteq Listed /\ dead \subseteq alive /\ dead \cap Listed \subseteq leaves
      /\ kept \subseteq leaves \ dead /\ leaves \subseteq kept \cup dead
      /\ \A s \in kept : MayStay(s)
  BY DEF Change
<1>2. ASSUME NEW s \in Sessions
      PROVE  /\ s \in dead => ws'[s].player = NoChar /\ ws'[s].loading = NoChar
             /\ s \notin dead => Body(s)
  <2>1. Blank.player = NoChar /\ Blank.loading = NoChar
    BY DEF Blank
  <2> QED BY <2>1 DEF Change, SameCharacter, Body
<1>3. alive \subseteq Sessions
  BY DEF TypeInv, TypeOK
<1>4. ASSUME NEW s \in Sessions PROVE BodyAt(s)'
  <2>1. CASE s \in dead
    BY <1>2, <2>1 DEF BodyAt
  <2>2. CASE s \notin dead
    <3>1. Body(s) /\ BodyAt(s)
      BY <1>2, <2>2 DEF CharInv
    <3>2. s \notin Listed' \cup Offline' => s \notin Listed \cup Offline
      BY <1>1, <2>2
    <3>3. s \in Offline' => ws[s].loading = NoChar
      BY <1>1, <3>1 DEF BodyAt, MayStay
    <3> QED BY <3>1, <3>2, <3>3 DEF BodyAt, Body
  <2> QED BY <2>1, <2>2
<1>5. NoSecondBody'
  <2>1. \A s \in alive' : s \in alive /\ Body(s)
    BY <1>1, <1>2, <1>3
  <2> QED BY <1>1, <2>1 DEF CharInv, NoSecondBody, Body
<1> QED BY <1>4, <1>5 DEF CharInv

LEMMA CharStep == TypeInv /\ Boxes /\ CharInv /\ [Next]_vars => CharInv'
<1> SUFFICES ASSUME TypeInv, Boxes, CharInv, [Next]_vars PROVE CharInv'
  OBVIOUS
<1>0. alive \subseteq Sessions
  BY DEF TypeInv, TypeOK
<1>1. ASSUME NEW s \in Sessions, NewSession(s) PROVE CharInv'
  <2>1. /\ UNCHANGED <<Listed, Offline>> /\ alive' = alive \cup {s}
        /\ s \notin Listed /\ s \notin Offline
    BY <1>1, NewSessionBoxes DEF NewSession
  <2>2. \A t \in Sessions : Body(t)
    BY <1>1, NewSessionFields DEF SameFields, SameCharacter, Body
  <2>3. ws[s].player = NoChar /\ ws[s].loading = NoChar
    BY <2>1 DEF CharInv, BodyAt
  <2> QED BY <1>0, <2>1, <2>2, <2>3 DEF CharInv, BodyAt, NoSecondBody, Body
<1>2. CASE KickAll
  <2>1. \A t \in Sessions : Body(t)
    BY <1>2, KickAllFields DEF Body
  <2>2. UNCHANGED <<Listed, Offline, alive>>
    BY <1>2, KickAllFacts
  <2> QED BY <1>0, <2>1, <2>2 DEF CharInv, BodyAt, NoSecondBody, Body
<1> QED BY <1>1, <1>2, NextCases, StillChars, ChangeCases, ChangeChars

LEMMA CharInit == Init => CharInv
  BY DEF Init, CharInv, BodyAt, NoSecondBody, Blank

\* No character is in the world twice, nor loaded from the database for one
\* session while another session of the account still plays it.
THEOREM CharacterHasOneBody == Spec => []NoSecondBody
<1>1. Init => TypeInv /\ Boxes /\ CharInv
  BY TypeInit, BoxesInit, CharInit
<1>2. TypeInv /\ Boxes /\ CharInv /\ [Next]_vars => (TypeInv /\ Boxes /\ CharInv)'
  BY TypeStep, BoxesStep, CharStep
<1>3. CharInv => NoSecondBody
  BY DEF CharInv
<1> QED BY <1>1, <1>2, <1>3, PTL DEF Spec

(* ---- Loads and saves in the queue of the database ---------------------- *)

IsLoad(k) == charDB[k].kind = "load" /\ charDB[k].session \in alive

\* LoadAfterSave with what makes it inductive: the session of a queued load
\* waits for that character, and for one load at a time.
LoadInv ==
    /\ LoadAfterSave
    /\ \A k \in DOMAIN charDB : IsLoad(k) =>
         LET r == ws[charDB[k].session]
         IN  r.loading = charDB[k].char /\ r.loading # NoChar /\ ~r.loaded
    /\ \A j, k \in DOMAIN charDB :
         IsLoad(j) /\ IsLoad(k) /\ charDB[j].session = charDB[k].session => j = k
    /\ \A s \in Sessions : ws[s].loaded => ws[s].loading # NoChar

\* Saves of characters that are in the world overtake no load of them.
LEMMA LoadsKept ==
    ASSUME TypeInv, CharInv, LoadInv, NEW E, NEW D \in SUBSET alive,
           Grows(charDB, charDB', E),
           \A q \in E : /\ q.kind # "load"
                        /\ q.kind = "save" =>
                             \E d \in D : q.char = ws[d].player /\ ws[d].player # NoChar,
           alive' \subseteq alive,
           \A s \in alive' : /\ ws'[s].loading = ws[s].loading /\ ws'[s].loaded = ws[s].loaded
                             /\ s \in D => ws[s].loading = NoChar,
           \A s \in Sessions : ws'[s].loaded => ws'[s].loading # NoChar
    PROVE  LoadInv'
<1>1. ASSUME NEW k \in DOMAIN charDB', IsLoad(k)'
      PROVE  k \in DOMAIN charDB /\ charDB'[k] = charDB[k] /\ IsLoad(k)
  BY <1>1 DEF Grows, IsLoad
<1>2. ASSUME NEW k \in DOMAIN charDB', IsLoad(k)'
      PROVE  LET r == ws'[charDB'[k].session]
             IN  r.loading = charDB'[k].char /\ r.loading # NoChar /\ ~r.loaded
  <2>1. k \in DOMAIN charDB /\ charDB'[k] = charDB[k] /\ IsLoad(k)
    BY <1>1, <1>2
  <2>2. charDB'[k].session \in alive'
    BY <1>2 DEF IsLoad
  <2> QED BY <2>1, <2>2 DEF LoadInv
<1>3. ASSUME NEW j \in DOMAIN charDB', NEW k \in DOMAIN charDB',
             IsLoad(j)', IsLoad(k)', charDB'[j].session = charDB'[k].session
      PROVE  j = k
  <2>1. /\ j \in DOMAIN charDB /\ charDB'[j] = charDB[j] /\ IsLoad(j)
        /\ k \in DOMAIN charDB /\ charDB'[k] = charDB[k] /\ IsLoad(k)
    BY <1>1, <1>3
  <2> QED BY <1>3, <2>1 DEF LoadInv
<1>4. ASSUME NEW j \in DOMAIN charDB', NEW k \in DOMAIN charDB', IsLoad(j)',
             charDB'[k].kind = "save", charDB'[k].char = charDB'[j].char
      PROVE  k < j
  <2>1. j \in DOMAIN charDB /\ charDB'[j] = charDB[j] /\ IsLoad(j)
    BY <1>1, <1>4
  <2>2. CASE k \in DOMAIN charDB
    <3>1. charDB'[k] = charDB[k]
      BY <2>2 DEF Grows
    <3> QED BY <1>4, <2>1, <2>2, <3>1 DEF LoadInv, LoadAfterSave, IsLoad
  <2>3. CASE k \notin DOMAIN charDB
    <3>1. charDB'[k] \in E
      BY <2>3 DEF Grows
    <3>2. PICK d \in D : charDB'[k].char = ws[d].player /\ ws[d].player # NoChar
      BY <1>4, <3>1
    <3> DEFINE s == charDB[j].session
    <3>3. s \in alive' /\ s \in alive /\ ws[s].loading = charDB[j].char /\ ws[s].loading # NoChar
      BY <1>4, <2>1 DEF IsLoad, LoadInv
    <3>4. d # s
      BY <3>3
    <3>5. ws[d].player # ws[s].loading
      BY <3>2, <3>3, <3>4 DEF CharInv, NoSecondBody
    <3> QED BY <1>4, <2>1, <3>2, <3>3, <3>5
  <2> QED BY <2>2, <2>3
<1> QED BY <1>2, <1>3, <1>4 DEF LoadInv, LoadAfterSave, IsLoad

LEMMA AnswerLoad ==
    ASSUME TypeInv, LoadInv, Still, Answers(Head(charDB))
    PROVE  LoadInv'
<1>1. /\ charDB \in Seq(CharQuery) /\ charDB # <<>> /\ charDB' = Tail(charDB)
      /\ alive' = alive /\ alive \subseteq Sessions
  BY DEF Answers, TypeInv, TypeOK, Still
<1>2. /\ 1 \in DOMAIN charDB /\ Head(charDB) = charDB[1]
      /\ \A k \in DOMAIN charDB' : /\ k \in Nat /\ k + 1 \in DOMAIN charDB
                                   /\ charDB'[k] = charDB[k + 1] /\ k + 1 # 1
  BY <1>1, TailShift
<1>3. \A s \in Sessions :
        /\ ws'[s].loading = ws[s].loading
        /\ ws'[s].loaded
             = (ws[s].loaded \/ (charDB[1].kind = "load" /\ charDB[1].session = s /\ s \in alive))
  BY <1>2 DEF Answers
<1>4. \A k \in DOMAIN charDB' : IsLoad(k)' => IsLoad(k + 1)
  BY <1>1, <1>2 DEF IsLoad
<1>5. ASSUME NEW k \in DOMAIN charDB', IsLoad(k)'
      PROVE  LET r == ws'[charDB'[k].session]
             IN  r.loading = charDB'[k].char /\ r.loading # NoChar /\ ~r.loaded
  <2> DEFINE s == charDB[k + 1].session
  <2>1. /\ IsLoad(k + 1) /\ s \in alive /\ charDB'[k] = charDB[k + 1]
        /\ k + 1 \in DOMAIN charDB /\ k + 1 # 1
    BY <1>2, <1>4, <1>5 DEF IsLoad
  <2>2. ws[s].loading = charDB[k + 1].char /\ ws[s].loading # NoChar /\ ~ws[s].loaded
    BY <2>1 DEF LoadInv
  <2>3. ~(charDB[1].kind = "load" /\ charDB[1].session = s /\ s \in alive)
    BY <1>2, <2>1 DEF LoadInv, IsLoad
  <2> QED BY <1>1, <1>3, <2>1, <2>2, <2>3
<1>6. ASSUME NEW j \in DOMAIN charDB', NEW k \in DOMAIN charDB',
             IsLoad(j)', IsLoad(k)', charDB'[j].session = charDB'[k].session
      PROVE  j = k
  <2>1. j + 1 = k + 1
    BY <1>2, <1>4, <1>6 DEF LoadInv
  <2> QED BY <1>2, <2>1
<1>7. ASSUME NEW j \in DOMAIN charDB', NEW k \in DOMAIN charDB', IsLoad(j)',
             charDB'[k].kind = "save", charDB'[k].char = charDB'[j].char
      PROVE  k < j
  <2>1. k + 1 < j + 1
    BY <1>2, <1>4, <1>7 DEF LoadInv, LoadAfterSave, IsLoad
  <2> QED BY <1>2, <2>1
<1>8. ASSUME NEW s \in Sessions, ws'[s].loaded PROVE ws'[s].loading # NoChar
  <2>1. CASE ws[s].loaded
    BY <1>3, <2>1 DEF LoadInv
  <2>2. CASE charDB[1].kind = "load" /\ charDB[1].session = s /\ s \in alive
    BY <1>2, <1>3, <2>2 DEF LoadInv, IsLoad
  <2> QED BY <1>3, <1>8, <2>1, <2>2
<1> QED BY <1>5, <1>6, <1>7, <1>8 DEF LoadInv, LoadAfterSave, IsLoad

LEMMA LoginLoad ==
    ASSUME TypeInv, Boxes, LoadInv, Still, NEW c \in Chars, Loads(c)
    PROVE  LoadInv'
<1> DEFINE w == Current
           off == offlineSessions[itr]
           n == Len(charDB) + 1
<1>1. /\ w \in Sessions /\ w \in alive /\ w # NoSession /\ ws[w].loading = NoChar
      /\ off \in Sessions \cup {NoSession} /\ off # w /\ c # NoChar
      /\ charDB \in Seq(CharQuery) /\ charDB' = Append(charDB, Query("load", w, c))
      /\ alive' = alive /\ alive \subseteq Sessions /\ ws \in [Sessions -> Session]
      /\ NoSession \notin Sessions
  <2>1. AtWork /\ pc = "packets" /\ ws[w].loading = NoChar
    BY DEF Loads, LogsIn
  <2> QED BY <2>1, Visiting, NoneAssumption
          DEF Loads, AtWork, TypeInv, TypeOK, Boxes, OneContainer, Still
<1>2. /\ DOMAIN charDB' = DOMAIN charDB \cup {n} /\ charDB'[n] = Query("load", w, c)
      /\ n \notin DOMAIN charDB /\ \A k \in DOMAIN charDB : charDB'[k] = charDB[k] /\ k < n
  BY <1>1, AppendGrows DEF Grows
<1>3. /\ ws'[w] = [ws[w] EXCEPT !.loading = c]
      /\ off # NoSession => ws'[off] = Kicked(ws[off])
      /\ \A s \in Sessions \ {w, off} : SameFields(s)
  BY DEF Loads, OthersSame
<1> HIDE DEF w, off, n
<1>4. ws'[w].loading = c /\ ws'[w].loaded = ws[w].loaded
  BY <1>1, <1>3 DEF Session
<1>5. \A s \in Sessions \ {w} : ws'[s].loading = ws[s].loading /\ ws'[s].loaded = ws[s].loaded
  <2>1. off # NoSession => ws'[off].loading = ws[off].loading /\ ws'[off].loaded = ws[off].loaded
    BY <1>1, <1>3, KickedFacts
  <2> QED BY <1>1, <1>3, <2>1 DEF SameFields, SameCharacter
<1>6. ~ws[w].loaded
  BY <1>1 DEF LoadInv
<1>7. \A k \in DOMAIN charDB : IsLoad(k) => charDB[k].session # w
  BY <1>1 DEF LoadInv
<1>8. \A k \in DOMAIN charDB' : IsLoad(k)' => k = n \/ (k \in DOMAIN charDB /\ IsLoad(k))
  BY <1>1, <1>2 DEF IsLoad
<1>9. charDB'[n].kind = "load" /\ charDB'[n].session = w /\ charDB'[n].char = c
  BY <1>2 DEF Query
<1>10. ASSUME NEW k \in DOMAIN charDB', IsLoad(k)'
      PROVE  LET r == ws'[charDB'[k].session]
             IN  r.loading = charDB'[k].char /\ r.loading # NoChar /\ ~r.loaded
  <2>1. CASE k = n
    BY <1>1, <1>4, <1>6, <1>9, <2>1
  <2>2. CASE k \in DOMAIN charDB /\ IsLoad(k)
    <3>1. /\ charDB'[k] = charDB[k] /\ charDB[k].session # w /\ charDB[k].session \in Sessions
      BY <1>1, <1>2, <1>7, <2>2 DEF IsLoad
    <3> QED BY <1>5, <2>2, <3>1 DEF LoadInv
  <2> QED BY <1>8, <1>10, <2>1, <2>2
<1>11. ASSUME NEW j \in DOMAIN charDB', NEW k \in DOMAIN charDB',
              IsLoad(j)', IsLoad(k)', charDB'[j].session = charDB'[k].session
       PROVE  j = k
  BY <1>2, <1>7, <1>8, <1>9, <1>11 DEF LoadInv
<1>12. ASSUME NEW j \in DOMAIN charDB', NEW k \in DOMAIN charDB', IsLoad(j)',
              charDB'[k].kind = "save", charDB'[k].char = charDB'[j].char
       PROVE  k < j
  <2>1. k \in DOMAIN charDB /\ charDB'[k] = charDB[k] /\ k < n
    BY <1>2, <1>9, <1>12
  <2>2. CASE j = n
    BY <2>1, <2>2
  <2>3. CASE j \in DOMAIN charDB /\ IsLoad(j)
    BY <1>2, <1>12, <2>1, <2>3 DEF LoadInv, LoadAfterSave, IsLoad
  <2> QED BY <1>8, <1>12, <2>2, <2>3
<1>13. \A s \in Sessions : ws'[s].loaded => ws'[s].loading # NoChar
  BY <1>1, <1>4, <1>5 DEF LoadInv
<1> QED BY <1>10, <1>11, <1>12, <1>13 DEF LoadInv, LoadAfterSave, IsLoad

LEMMA StillLoads ==
    ASSUME TypeInv, Boxes, CharInv, LoadInv, StillAction
    PROVE  LoadInv'
<1> USE DEF OthersSame, SameFields, SameCharacter
<1>0. /\ Still /\ alive' = alive /\ alive \subseteq Sessions /\ Listed \subseteq alive
      /\ charDB \in Seq(CharQuery) /\ Offline \subseteq alive
  BY StillFacts DEF Still, TypeInv, TypeOK, Boxes, OneContainer
<1>1. \A E : Grows(charDB, charDB, E)
  BY DEF Grows
<1>2. CASE Idle \/ KicksListed
  <2>1. \A s \in Sessions : ws'[s].loading = ws[s].loading /\ ws'[s].loaded = ws[s].loaded
    BY <1>2 DEF Idle, KicksListed
  <2>2. Grows(charDB, charDB', {})
    BY <1>1, <1>2 DEF Idle, KicksListed
  <2>3. \A s \in Sessions : ws'[s].loaded => ws'[s].loading # NoChar
    BY <2>1 DEF LoadInv
  <2>4. /\ alive' \subseteq alive /\ {} \in SUBSET alive
        /\ \A s \in alive' : /\ ws'[s].loading = ws[s].loading /\ ws'[s].loaded = ws[s].loaded
                             /\ s \in {} => ws[s].loading = NoChar
        /\ \A q \in {} : /\ q.kind # "load"
                         /\ q.kind = "save" =>
                             \E d \in {} : q.char = ws[d].player /\ ws[d].player # NoChar
    BY <1>0, <2>1
  <2> QED BY <2>2, <2>3, <2>4, LoadsKept
<1>3. CASE Answers(Head(charDB))
  BY <1>0, <1>3, AnswerLoad
<1>4. CASE Bids
  <2> DEFINE E == {Query("bid", Current, ws[Current].player)}
  <2>0. Grows(charDB, charDB', E)
    BY <1>0, <1>4, AppendGrows DEF Bids
  <2>1. \A s \in Sessions : ws'[s].loading = ws[s].loading /\ ws'[s].loaded = ws[s].loaded
    BY <1>4 DEF Bids
  <2>2. \A s \in Sessions : ws'[s].loaded => ws'[s].loading # NoChar
    BY <2>1 DEF LoadInv
  <2>3. /\ alive' \subseteq alive /\ {} \in SUBSET alive /\ Grows(charDB, charDB', E)
        /\ \A s \in alive' : /\ ws'[s].loading = ws[s].loading /\ ws'[s].loaded = ws[s].loaded
                             /\ s \in {} => ws[s].loading = NoChar
        /\ \A q \in E : /\ q.kind # "load"
                        /\ q.kind = "save" =>
                             \E d \in {} : q.char = ws[d].player /\ ws[d].player # NoChar
    BY <1>0, <2>0, <2>1 DEF Query
  <2> HIDE DEF E
  <2> QED BY <2>2, <2>3, LoadsKept
<1>5. ASSUME NEW c \in Chars, Loads(c) PROVE LoadInv'
  BY <1>0, <1>5, LoginLoad
<1>6. ASSUME NEW c \in Chars, TakesOver(c) PROVE LoadInv'
  <2> DEFINE off == offlineSessions[itr]
  <2>1. /\ Current \in Sessions /\ off \in Sessions /\ ws \in [Sessions -> Session]
        /\ charDB' = charDB
    BY <1>6, Visiting DEF TakesOver, LogsIn, AtWork, TypeInv, TypeOK
  <2>2. \A r \in Session : /\ [r EXCEPT !.player = c].loading = r.loading
                           /\ [r EXCEPT !.player = c].loaded = r.loaded
                           /\ [r EXCEPT !.player = NoChar].loading = r.loading
                           /\ [r EXCEPT !.player = NoChar].loaded = r.loaded
    BY DEF Session
  <2>3. /\ ws'[off] = [ws[off] EXCEPT !.player = NoChar]
        /\ ws'[Current] = [ws[Current] EXCEPT !.player = c]
        /\ \A s \in Sessions \ {Current, off} :
             ws'[s].loading = ws[s].loading /\ ws'[s].loaded = ws[s].loaded
    BY <1>6 DEF TakesOver
  <2> HIDE DEF off
  <2>4. ASSUME NEW s \in Sessions
        PROVE  ws'[s].loading = ws[s].loading /\ ws'[s].loaded = ws[s].loaded
    <3>1. CASE s = off
      BY <2>1, <2>2, <2>3, <3>1
    <3>2. CASE s = Current
      BY <2>1, <2>2, <2>3, <3>2
    <3>3. CASE s \notin {Current, off}
      BY <2>3, <3>3
    <3> QED BY <3>1, <3>2, <3>3
  <2>5. Grows(charDB, charDB', {})
    BY <1>1, <2>1
  <2>6. \A s \in Sessions : ws'[s].loaded => ws'[s].loading # NoChar
    BY <2>4 DEF LoadInv
  <2>7. /\ alive' \subseteq alive /\ {} \in SUBSET alive
        /\ \A s \in alive' : /\ ws'[s].loading = ws[s].loading /\ ws'[s].loaded = ws[s].loaded
                             /\ s \in {} => ws[s].loading = NoChar
        /\ \A q \in {} : /\ q.kind # "load"
                         /\ q.kind = "save" =>
                             \E d \in {} : q.char = ws[d].player /\ ws[d].player # NoChar
    BY <1>0, <2>4
  <2> QED BY <2>5, <2>6, <2>7, LoadsKept
<1>7. CASE LogsOut
  <2> DEFINE D == {Current}
             E == Saves(D)
  <2>0. Grows(charDB, charDB', E)
    BY <1>7, LogoutGrows
  <2>1. \A s \in Sessions : ws'[s].loading = ws[s].loading /\ ws'[s].loaded = ws[s].loaded
    BY <1>7 DEF LogsOut
  <2>2. \A s \in Sessions : ws'[s].loaded => ws'[s].loading # NoChar
    BY <2>1 DEF LoadInv
  <2>3. /\ alive' \subseteq alive /\ D \in SUBSET alive /\ Grows(charDB, charDB', E)
        /\ \A s \in alive' : /\ ws'[s].loading = ws[s].loading /\ ws'[s].loaded = ws[s].loaded
                             /\ s \in D => ws[s].loading = NoChar
    BY <1>0, <1>7, <2>0, <2>1 DEF LogsOut, AtWork
  <2> HIDE DEF D
  <2>4. \A q \in E : /\ q.kind # "load"
                     /\ q.kind = "save" =>
                          \E d \in D : q.char = ws[d].player /\ ws[d].player # NoChar
    BY DEF Saves, Query
  <2> HIDE DEF E
  <2> QED BY <1>0, <2>2, <2>3, <2>4, LoadsKept
<1>8. CASE CallsBack
  <2>1. CASE SameCharacter(Current)
    <3>1. \A s \in Sessions : ws'[s].loading = ws[s].loading /\ ws'[s].loaded = ws[s].loaded
      BY <1>8, <2>1 DEF CallsBack
    <3> QED BY <1>0, <1>8, <3>1 DEF CallsBack, LoadInv, LoadAfterSave, IsLoad
  <2>2. CASE /\ ws[Current].loaded
             /\ ws'[Current].loading = NoChar /\ ws'[Current].loaded = FALSE
    <3>1. \A s \in Sessions \ {Current} :
            ws'[s].loading = ws[s].loading /\ ws'[s].loaded = ws[s].loaded
      BY <1>8 DEF CallsBack
    <3>2. \A k \in DOMAIN charDB : IsLoad(k) => charDB[k].session # Current
      BY <2>2 DEF LoadInv
    <3>3. charDB' = charDB
      BY <1>8 DEF CallsBack
    <3>4. \A k \in DOMAIN charDB' : IsLoad(k)' =>
           LET r == ws'[charDB'[k].session]
           IN  r.loading = charDB'[k].char /\ r.loading # NoChar /\ ~r.loaded
      BY <1>0, <3>1, <3>2, <3>3 DEF LoadInv, IsLoad
    <3>5. \A s \in Sessions : ws'[s].loaded => ws'[s].loading # NoChar
      BY <2>2, <3>1 DEF LoadInv
    <3> HIDE DEF Current
    <3> QED BY <1>0, <3>3, <3>4, <3>5 DEF LoadInv, LoadAfterSave, IsLoad
  <2> QED BY <1>8, <2>1, <2>2 DEF CallsBack
<1> QED BY <1>2, <1>3, <1>4, <1>5, <1>6, <1>7, <1>8, StillCases

LEMMA ChangeLoads ==
    ASSUME TypeInv, Boxes, CharInv, LoadInv,
           NEW enters, NEW leaves, NEW kept, NEW dead, NEW asked,
           Change(enters, leaves, kept, dead, asked)
    PROVE  LoadInv'
<1> DEFINE E == Asks(asked) \cup Saves(dead)
<1>1. Grows(charDB, charDB', E) /\ dead \in SUBSET alive /\ alive' \subseteq alive
  BY DEF Change
<1>2. ASSUME NEW s \in Sessions
      PROVE  /\ s \in dead => ws'[s].loaded = FALSE
             /\ s \notin dead => ws'[s].loading = ws[s].loading /\ ws'[s].loaded = ws[s].loaded
  <2>1. Blank.loaded = FALSE
    BY DEF Blank
  <2> QED BY <2>1 DEF Change, SameCharacter
<1>3. \A s \in alive' : /\ ws'[s].loading = ws[s].loading /\ ws'[s].loaded = ws[s].loaded
                        /\ s \in dead => ws[s].loading = NoChar
  BY <1>2 DEF Change, TypeInv, TypeOK
<1>4. \A s \in Sessions : ws'[s].loaded => ws'[s].loading # NoChar
  BY <1>2 DEF LoadInv
<1>5. \A q \in E : /\ q.kind # "load"
                   /\ q.kind = "save" =>
                        \E d \in dead : q.char = ws[d].player /\ ws[d].player # NoChar
  BY DEF Asks, Saves, Query
<1> HIDE DEF E
<1> QED BY <1>1, <1>3, <1>4, <1>5, LoadsKept

LEMMA LoadStep == TypeInv /\ Boxes /\ QueueInv /\ CharInv /\ LoadInv /\ [Next]_vars => LoadInv'
<1> SUFFICES ASSUME TypeInv, Boxes, QueueInv, CharInv, LoadInv, [Next]_vars PROVE LoadInv'
  OBVIOUS
<1>0. alive \subseteq Sessions
  BY DEF TypeInv, TypeOK
<1>1. ASSUME NEW s \in Sessions, NewSession(s) PROVE LoadInv'
  <2>1. alive' = alive \cup {s} /\ s \notin born /\ charDB' = charDB /\ s # NoSession
    BY <1>1, NoneAssumption DEF NewSession
  <2>2. \A t \in Sessions : ws'[t].loading = ws[t].loading /\ ws'[t].loaded = ws[t].loaded
    BY <1>1, NewSessionFields DEF SameFields, SameCharacter
  <2>3. \A k \in DOMAIN charDB : IsLoad(k)' => IsLoad(k)
    BY <2>1 DEF QueueInv, IsLoad
  <2> QED BY <1>0, <2>1, <2>2, <2>3 DEF LoadInv, LoadAfterSave, IsLoad
<1>2. CASE KickAll
  <2>1. \A t \in Sessions : ws'[t].loading = ws[t].loading /\ ws'[t].loaded = ws[t].loaded
    BY <1>2, KickAllFields
  <2>2. UNCHANGED <<charDB, alive>>
    BY <1>2, KickAllFacts
  <2> QED BY <1>0, <2>1, <2>2 DEF LoadInv, LoadAfterSave, IsLoad
<1> QED BY <1>1, <1>2, NextCases, StillLoads, ChangeCases, ChangeLoads

LEMMA LoadInit == Init => LoadInv
  BY DEF Init, LoadInv, LoadAfterSave, IsLoad, Blank

\* A queued load of a character follows every queued save of that character,
\* whichever session pushed it: no login reads what a save has yet to write.
THEOREM LoadsSeeSaves == Spec => []LoadAfterSave
<1>1. Init => TypeInv /\ Boxes /\ QueueInv /\ CharInv /\ LoadInv
  BY TypeInit, BoxesInit, QueueInit, CharInit, LoadInit
<1>2. TypeInv /\ Boxes /\ QueueInv /\ CharInv /\ LoadInv /\ [Next]_vars
        => (TypeInv /\ Boxes /\ QueueInv /\ CharInv /\ LoadInv)'
  BY TypeStep, BoxesStep, QueueStep, CharStep, LoadStep
<1>3. LoadInv => LoadAfterSave
  BY DEF LoadInv
<1> QED BY <1>1, <1>2, <1>3, PTL DEF Spec

(* ---- One character of an account between two ticks ---------------------- *)

\* When two sessions of an account have a character, the offline one is kicked,
\* and the walk over m_offlineSessions leaves no kicked session behind it.
Overlap ==
    \A l \in Listed, o \in Offline :
        /\ Account[l] = Account[o] /\ ws[o].player # NoChar
        /\ ws[l].player # NoChar \/ ws[l].loading # NoChar
        => ws[o].kicked

Swept ==
    ~stopped /\ pc \in {"between", "sweep"} =>
        \A o \in Offline : (pc = "sweep" => Account[o] \notin left \cup {itr}) => ~ws[o].kicked

KickInv == Overlap /\ Swept

LEMMA StillOverlap ==
    ASSUME TypeInv, Boxes, CharInv, LoadInv, Overlap, StillAction
    PROVE  Overlap'
<1> USE DEF OthersSame, SameFields, SameCharacter
<1>0. /\ UNCHANGED <<Listed, Offline>> /\ Listed \cap Offline = {}
      /\ Listed \subseteq Sessions /\ Offline \subseteq Sessions
      /\ \A s \in Sessions : ws[s] \in Session
  <2>1. Still
    BY StillFacts
  <2> QED BY <2>1 DEF Still, Listed, Offline, TypeInv, TypeOK, Boxes, OneContainer, Range
<1>1. CASE Idle \/ Bids \/ Answers(Head(charDB)) \/ KicksListed
  BY <1>0, <1>1 DEF Idle, Bids, Answers, KicksListed, Overlap
<1>2. CASE LogsOut
  BY <1>0, <1>2 DEF LogsOut, AtWork, Overlap
<1>3. CASE CallsBack
  <2>1. Current \in Listed /\ Current \in Sessions
    BY <1>3 DEF CallsBack, AtWork
  <2> HIDE DEF Current
  <2>2. \A o \in Offline : SameCharacter(o)
    BY <1>0, <1>3, <2>1 DEF CallsBack
  <2>3. ASSUME NEW l \in Listed, ws'[l].player # NoChar \/ ws'[l].loading # NoChar
        PROVE  ws[l].player # NoChar \/ ws[l].loading # NoChar
    BY <1>0, <1>3, <2>1, <2>3 DEF CallsBack, LoadInv
  <2> QED BY <1>0, <2>2, <2>3 DEF Overlap
<1>4. ASSUME NEW c \in Chars, TakesOver(c) \/ Loads(c) PROVE Overlap'
  <2> DEFINE off == offlineSessions[itr]
  <2>1. /\ Current \in Listed /\ Current \in Sessions /\ Account[Current] = itr
        /\ off \in Sessions \cup {NoSession} /\ itr \in Accounts /\ off # Current
    BY <1>4, Visiting DEF TakesOver, Loads, LogsIn, AtWork
  <2>2. off # NoSession => off \in Offline /\ Account[off] = itr
    BY <2>1 DEF Offline, Range, TypeInv, TypeOK, Places
  <2>3. /\ off # NoSession => ws'[off].player = NoChar \/ ws'[off].kicked = TRUE
        /\ \A t \in Sessions \ {Current, off} : SameFields(t)
    <3>1. CASE TakesOver(c)
      <4>1. off \in Sessions /\ ws'[off] = [ws[off] EXCEPT !.player = NoChar]
        BY <2>1, <3>1 DEF TakesOver
      <4>2. \A r \in Session : [r EXCEPT !.player = NoChar].player = NoChar
        BY DEF Session
      <4> QED BY <1>0, <3>1, <4>1, <4>2 DEF TakesOver
    <3>2. CASE Loads(c)
      <4>1. off # NoSession => ws'[off] = Kicked(ws[off])
        BY <3>2 DEF Loads
      <4>2. off # NoSession => ws'[off].kicked = TRUE
        BY <1>0, <2>1, <4>1, KickedFacts
      <4> QED BY <3>2, <4>2 DEF Loads
    <3> QED BY <1>4, <3>1, <3>2
  <2>4. ASSUME NEW l \in Listed, NEW o \in Offline,
               Account[l] = Account[o], ws'[o].player # NoChar,
               ws'[l].player # NoChar \/ ws'[l].loading # NoChar
        PROVE  ws'[o].kicked
    <3>0. NoSession \notin Sessions
      BY NoneAssumption
    <3>1. CASE o = off
      BY <1>0, <2>3, <2>4, <3>0, <3>1
    <3>2. CASE o # off
      <4>1. Account[o] # itr
        BY <2>1, <3>2, AccountPair
      <4> HIDE DEF off, Current
      <4>2. l # Current /\ l # off /\ o # Current
        <5>1. l # Current
          BY <2>1, <2>4, <4>1
        <5>2. l # off
          BY <1>0, <2>2, <2>4, <3>0, <4>1
        <5> QED BY <1>0, <2>1, <5>1, <5>2
      <4>3. SameCharacter(l) /\ SameCharacter(o)
        BY <1>0, <2>3, <3>2, <4>2
      <4> QED BY <2>4, <4>3 DEF Overlap
    <3> QED BY <3>1, <3>2
  <2> QED BY <1>0, <2>4 DEF Overlap
<1> QED BY <1>1, <1>2, <1>3, <1>4, StillCases

LEMMA ChangeOverlap ==
    ASSUME TypeInv, Boxes, CharInv, Overlap,
           NEW enters, NEW leaves, NEW kept, NEW dead, NEW asked,
           Change(enters, leaves, kept, dead, asked)
    PROVE  Overlap'
<1>1. /\ Listed' = (Listed \ leaves) \cup enters /\ Offline' = (Offline \ dead) \cup kept
      /\ enters \subseteq Range(newSessions) /\ leaves \subseteq Listed /\ dead \subseteq alive
      /\ dead \cap enters = {} /\ dead \cap Listed \subseteq leaves /\ kept \subseteq leaves \ dead
      /\ \A s \in Sessions : s \notin dead => SameCharacter(s)
  BY DEF Change
<1>2. /\ Range(newSessions) \cap Listed = {} /\ Range(newSessions) \cap Offline = {}
      /\ Range(newSessions) \subseteq Sessions /\ Listed \subseteq Sessions
      /\ Offline \subseteq Sessions
  BY DEF Boxes, OneContainer, TypeInv, TypeOK
<1>3. ASSUME NEW l \in Listed', NEW o \in Offline',
             Account[l] = Account[o], ws'[o].player # NoChar,
             ws'[l].player # NoChar \/ ws'[l].loading # NoChar
      PROVE  ws'[o].kicked
  <2>1. SameCharacter(l) /\ SameCharacter(o)
    BY <1>1, <1>2
  <2>2. l \notin enters
    BY <1>1, <1>2, <1>3, <2>1 DEF CharInv, BodyAt, SameCharacter
  <2>3. l \in Listed /\ l \notin leaves
    BY <1>1, <2>2
  <2>4. o \notin kept
    BY <1>1, <1>3, <2>3, AccountPair
  <2> QED BY <1>1, <1>3, <2>1, <2>3, <2>4 DEF Overlap, SameCharacter
<1> QED BY <1>3 DEF Overlap

LEMMA OverlapStep == TypeInv /\ Boxes /\ CharInv /\ LoadInv /\ Overlap /\ [Next]_vars => Overlap'
<1> SUFFICES ASSUME TypeInv, Boxes, CharInv, LoadInv, Overlap, [Next]_vars PROVE Overlap'
  OBVIOUS
<1>0. Listed \subseteq Sessions /\ Offline \subseteq Sessions
  BY DEF Listed, Offline, Range, TypeInv, TypeOK
<1>1. ASSUME NEW s \in Sessions, NewSession(s) PROVE Overlap'
  <2>1. UNCHANGED <<Listed, Offline>> /\ \A t \in Sessions : SameCharacter(t)
    BY <1>1, NewSessionBoxes, NewSessionFields DEF SameFields
  <2> QED BY <1>0, <2>1 DEF Overlap, SameCharacter
<1>2. CASE KickAll
  <2>1. UNCHANGED <<Listed, Offline>>
    BY <1>2, KickAllFacts
  <2> QED BY <1>0, <1>2, <2>1, KickAllFields DEF Overlap
<1> QED BY <1>1, <1>2, NextCases, StillOverlap, ChangeCases, ChangeOverlap

LEMMA OfflineEntries == TypeInv => \A o \in Offline : Account[o] \in Entries(offlineSessions)
<1> SUFFICES ASSUME TypeInv, NEW o \in Offline PROVE Account[o] \in Entries(offlineSessions)
  OBVIOUS
<1> QED BY AccountPair, NoneAssumption DEF Entries

\* When the walk over m_sessions ends, that over m_offlineSessions has them all
\* before it.
LEMMA VisitSwept ==
    ASSUME TypeInv', NEW map, NEW rest \in SUBSET Entries(map),
           Visit(rest, offlineSessions')
    PROVE  Swept'
<1>1. (\A o \in Offline : Account[o] \in Entries(offlineSessions))'
  BY OfflineEntries, PTL
<1>2. \/ pc' = "visit"
      \/ pc' = "sweep" /\ left' \cup {itr'} = Entries(offlineSessions')
      \/ Entries(offlineSessions') = {}
  BY VisitFacts
<1> QED BY <1>1, <1>2 DEF Swept

LEMMA SweepSwept ==
    ASSUME TypeInv, Boxes, Swept, SweepOffline
    PROVE  Swept'
<1> DEFINE x == offlineSessions[itr]
<1>1. /\ pc = "sweep" /\ itr \in Accounts /\ x \in Sessions /\ stopped' = stopped
      /\ left \in SUBSET (Entries(offlineSessions) \ {itr}) /\ Sweep(left)
  BY DEF SweepOffline, TypeInv, TypeOK, Walking
<1>2. \/ pc' = "sweep" /\ left' \cup {itr'} = left
      \/ left = {} /\ pc' # "sweep"
  <2>1. left \in SUBSET Entries(offlineSessions)
    BY <1>1
  <2> QED BY <1>1, <2>1, SweepFacts DEF EndTick
<1>3. ASSUME NEW o \in Offline' PROVE o \in Offline /\ o \in Sessions /\ ws'[o].kicked = ws[o].kicked
                                      /\ (o = x => ~ws[o].kicked)
  <2>0. Offline \subseteq Sessions
    BY DEF Offline, Range, TypeInv, TypeOK
  <2>1. CASE Expires
    <3>1. Offline' = Offline \ {x} /\ \A s \in Sessions : s # x => SameCharacter(s)
      BY <2>1, SweepChange DEF Change
    <3> QED BY <1>3, <2>0, <3>1 DEF SameCharacter
  <2>2. CASE ~Expires
    <3>1. Offline' = Offline /\ ~Expired(x)
      BY <2>2 DEF SweepOffline, Expires, Destroy, Offline
    <3>2. Idle
      BY <2>2, IdleActions
    <3> QED BY <1>3, <2>0, <3>1, <3>2 DEF Idle, OthersSame, SameFields, SameCharacter, Expired
  <2> QED BY <2>1, <2>2
<1>4. ASSUME ~stopped', NEW o \in Offline', pc' = "sweep" => Account[o] \notin left' \cup {itr'}
      PROVE  ~ws'[o].kicked
  <2>1. Account[o] \notin left
    BY <1>2, <1>4
  <2>2. CASE Account[o] = itr
    BY <1>3, <2>2, AccountPair
  <2>3. CASE Account[o] # itr
    BY <1>1, <1>3, <1>4, <2>1, <2>3 DEF Swept
  <2> QED BY <2>2, <2>3
<1> QED BY <1>4 DEF Swept

LEMMA SweptStep == TypeInv /\ Boxes /\ Swept /\ [Next]_vars => Swept'
<1> SUFFICES ASSUME TypeInv, Boxes, Swept, [Next]_vars PROVE Swept'
  OBVIOUS
<1>0. TypeInv' /\ Offline \subseteq Sessions /\ Listed \cap Offline = {}
  BY TypeStep DEF Offline, Range, TypeInv, TypeOK, Boxes, OneContainer
<1>1. CASE RefuseSession \/ AddFirstSession \/ ReplaceSession
  <2>1. pc' = "collect"
    BY <1>1 DEF RefuseSession, AddFirstSession, ReplaceSession, Collecting, loopVars
  <2> QED BY <2>1 DEF Swept
<1>2. CASE KeepOffline \/ RemoveSession \/ FinishUpdate \/ BeginWalk
  <2>1. \/ Visit(left, offlineSessions') /\ left \in SUBSET Entries(sessions)
        \/ Visit(Entries(sessions), offlineSessions')
    BY <1>2 DEF KeepOffline, RemoveSession, FinishUpdate, BeginWalk, TypeInv, Walking, worldVars
  <2> QED BY <1>0, <2>1, VisitSwept
<1>3. CASE SweepOffline
  BY <1>3, SweepSwept
<1>4. CASE KickAll
  BY <1>4, KickAllFacts DEF Swept
<1>5. CASE \/ \E s \in Sessions : LoseSocket(s)
           \/ AnswerQuery \/ LogoutPacket \/ BidPacket \/ UNCHANGED vars
  <2>1. Offline' = Offline /\ UNCHANGED <<pc, itr, left, stopped>>
    BY <1>5 DEF LoseSocket, AnswerQuery, LogoutPacket, BidPacket, vars, worldVars, loopVars, Offline
  <2>2. Idle \/ Answers(Head(charDB)) \/ Bids
    BY <1>5, IdleActions, AnswerActions, BidActions
  <2>3. \A s \in Sessions : ws'[s].kicked = ws[s].kicked
    BY <2>2 DEF Idle, Answers, Bids, OthersSame, SameFields, SameCharacter
  <2> QED BY <1>0, <2>1, <2>3 DEF Swept
<1>6. ASSUME NEW s \in Sessions, KickPacket(s) PROVE Swept'
  <2>1. Offline' = Offline /\ UNCHANGED <<pc, itr, left, stopped>>
    BY <1>6 DEF KickPacket, worldVars, loopVars, Offline
  <2>2. KicksListed
    BY <1>6, KickActions
  <2>3. \A o \in Offline : ws'[o].kicked = ws[o].kicked
    BY <1>0, <2>2 DEF KicksListed, OthersSame, SameFields, SameCharacter
  <2> QED BY <2>1, <2>3 DEF Swept
<1>7. ASSUME NEW s \in Sessions, NewSession(s) PROVE Swept'
  <2>1. Offline' = Offline /\ UNCHANGED <<pc, itr, left, stopped>>
    BY <1>7 DEF NewSession, loopVars, Offline
  <2>2. \A t \in Sessions : ws'[t].kicked = ws[t].kicked
    BY <1>7, NewSessionFields DEF SameFields, SameCharacter
  <2> QED BY <1>0, <2>1, <2>2 DEF Swept
<1>8. CASE BeginTick \/ BeginUpdate
  BY <1>8 DEF BeginTick, BeginUpdate, Swept
<1>9. ASSUME NEW b \in BOOLEAN, ProcessCallbacks(b) PROVE Swept'
  BY <1>9 DEF ProcessCallbacks, Swept
<1>10. ASSUME NEW c \in Chars, LoginPacket(c) PROVE Swept'
  BY <1>10 DEF LoginPacket, Reading, loopVars, Swept
<1> QED BY <1>1, <1>2, <1>3, <1>4, <1>5, <1>6, <1>7, <1>8, <1>9, <1>10
        DEF Next, WorldStep, Packet

LEMMA RunningBetween ==
    TypeInv /\ (pc = "between" => ~stopped) /\ [Next]_vars => (pc = "between" => ~stopped)'
<1> SUFFICES ASSUME TypeInv, pc = "between" => ~stopped, [Next]_vars, pc' = "between"
             PROVE  ~stopped'
  OBVIOUS
<1>1. CASE KeepOffline \/ RemoveSession \/ FinishUpdate \/ BeginWalk
  <2>1. \E rest, offline : Visit(rest, offline)
    BY <1>1 DEF KeepOffline, RemoveSession, FinishUpdate, BeginWalk
  <2> QED BY <1>1, <2>1 DEF KeepOffline, RemoveSession, FinishUpdate, BeginWalk, Visit, Sweep,
          Advance, EndTick
<1>2. CASE SweepOffline
  BY <1>2 DEF SweepOffline, Sweep, Advance, EndTick
<1>3. CASE RefuseSession \/ AddFirstSession \/ ReplaceSession
  BY <1>3 DEF RefuseSession, AddFirstSession, ReplaceSession, Collecting, loopVars
<1>4. CASE KickAll \/ BeginTick \/ BeginUpdate
  BY <1>4 DEF KickAll, BeginTick, BeginUpdate
<1>5. CASE \/ \E s \in Sessions : LoseSocket(s) \/ KickPacket(s) \/ NewSession(s)
           \/ AnswerQuery \/ LogoutPacket \/ BidPacket \/ UNCHANGED vars
  BY <1>5 DEF LoseSocket, KickPacket, NewSession, AnswerQuery, LogoutPacket, BidPacket, vars, loopVars
<1>6. ASSUME NEW b \in BOOLEAN, ProcessCallbacks(b) PROVE ~stopped'
  BY <1>6 DEF ProcessCallbacks
<1>7. ASSUME NEW c \in Chars, LoginPacket(c) PROVE ~stopped'
  BY <1>7 DEF LoginPacket, loopVars
<1> QED BY <1>1, <1>2, <1>3, <1>4, <1>5, <1>6, <1>7 DEF Next, WorldStep, Packet

LEMMA KickInit == Init => KickInv
  BY DEF Init, KickInv, Overlap, Swept, Listed, Offline, Range

\* Between two ticks an account has at most one character in the world: a login
\* kicks the offline session that still has one before it loads another, and the
\* walk over m_offlineSessions destroys it before the tick ends.
THEOREM OneCharacterBetweenTicks == Spec => []OneCharacter
<1> DEFINE Inv == /\ TypeInv /\ Boxes /\ QueueInv /\ CharInv /\ LoadInv /\ KickInv
                  /\ pc = "between" => ~stopped
<1>1. Init => Inv
  BY TypeInit, BoxesInit, QueueInit, CharInit, LoadInit, KickInit DEF Init
<1>2. Inv /\ [Next]_vars => Inv'
  BY TypeStep, BoxesStep, QueueStep, CharStep, LoadStep, OverlapStep, SweptStep, RunningBetween
     DEF KickInv
<1>3. Inv => OneCharacter
  <2> SUFFICES ASSUME Inv, pc = "between", NEW s \in alive, NEW t \in alive, s # t,
                      ws[s].player # NoChar, ws[t].player # NoChar, Account[s] = Account[t]
               PROVE  FALSE
    BY DEF OneCharacter
  <2>1. s \in Listed \cup Offline /\ t \in Listed \cup Offline
    BY DEF CharInv, BodyAt, TypeInv, TypeOK
  <2>2. \A o \in Offline : ~ws[o].kicked
    BY DEF KickInv, Swept
  <2>3. ~(s \in Listed /\ t \in Listed) /\ ~(s \in Offline /\ t \in Offline)
    <3>1. /\ s \in Listed => s = sessions[Account[s]]
          /\ s \in Offline => s = offlineSessions[Account[s]]
      BY <2>1, AccountPair
    <3>2. /\ t \in Listed => t = sessions[Account[t]]
          /\ t \in Offline => t = offlineSessions[Account[t]]
      BY <2>1, AccountPair
    <3> QED BY <3>1, <3>2
  <2> QED BY <2>1, <2>2, <2>3 DEF KickInv, Overlap
<1> QED BY <1>1, <1>2, <1>3, PTL DEF Spec

(* ---- The limit on active sessions --------------------------------------- *)

\* A queue without repetition is as long as its set of elements is large.
LEMMA DistinctLength ==
    ASSUME NEW S, NEW s \in Seq(S), Distinct(s)
    PROVE  IsFiniteSet(Range(s)) /\ Cardinality(Range(s)) = Len(s)
<1> DEFINE D == 1 .. Len(s)
<1>1. Len(s) \in Nat /\ DOMAIN s = D
  OBVIOUS
<1>2. IsFiniteSet(D) /\ Cardinality(D) = Len(s)
  BY <1>1, FS_Interval
<1>3. s \in [D -> Range(s)]
  BY <1>1 DEF Range
<1> HIDE DEF D
<1>4. s \in Surjection(D, Range(s)) /\ s \in Injection(D, Range(s))
  BY <1>1, <1>3 DEF Surjection, Injection, IsInjective, Distinct, Range
<1> QED BY <1>2, <1>4, FS_Surjection

\* QueueFair of the listed sessions L of which Q wait.
Fair(L, Q) ==
    /\ Q # {} => Cardinality(L \ Q) >= Limit
    /\ Cardinality((L \ Q) \ Privileged) <= Limit

LEMMA FairAs ==
    ASSUME NEW L, NEW Q, NEW A, A = L \ Q, Q # {} => Cardinality(A) >= Limit,
           Cardinality(A \ Privileged) <= Limit
    PROVE  Fair(L, Q)
  BY DEF Fair

FairInv ==
    /\ IsFiniteSet(born)
    /\ Limit > 0 /\ ~stopped => Fair(Listed, Range(queuedPlayer))

\* All sets of sessions in question are finite, and `active` of
\* RemoveQueuedPlayer is the number of listed sessions that do not wait.
LEMMA Counting ==
    ASSUME TypeInv, Boxes, IsFiniteSet(born)
    PROVE  /\ \A T : T \subseteq Listed => IsFiniteSet(T) /\ Cardinality(T) \in Nat
           /\ Cardinality(Listed) - Len(queuedPlayer)
                = Cardinality(Listed \ Range(queuedPlayer))
<1>1. Listed \subseteq born /\ Range(queuedPlayer) \subseteq Listed
  BY DEF Boxes, OneContainer, TypeInv, TypeOK
<1>2. \A T : T \subseteq Listed => IsFiniteSet(T) /\ Cardinality(T) \in Nat
  BY <1>1, FS_Subset, FS_CardinalityType
<1>3. Cardinality(Range(queuedPlayer)) = Len(queuedPlayer) /\ Len(queuedPlayer) \in Nat
  BY DistinctLength DEF Boxes, TypeInv, TypeOK
<1> DEFINE A == Listed \ Range(queuedPlayer)
           Q == Range(queuedPlayer)
<1>4. /\ IsFiniteSet(A) /\ IsFiniteSet(Q) /\ Cardinality(A) \in Nat /\ A \cup Q = Listed
      /\ A \cap Q = {} /\ Cardinality(Q) \in Nat
  BY <1>1, <1>2
<1>5. Cardinality(A \cup Q) = Cardinality(A) + Cardinality(Q) - Cardinality(A \cap Q)
  BY <1>4, FS_Union
<1>6. Cardinality(A \cap Q) = 0
  BY <1>4, FS_EmptySet
<1> HIDE DEF A, Q
<1>7. Cardinality(Listed) = Cardinality(A) + Cardinality(Q)
  BY <1>4, <1>5, <1>6
<1> QED BY <1>2, <1>3, <1>4, <1>7 DEF A, Q

\* RemoveQueuedPlayer keeps the limit and leaves nobody waiting in vain.
LEMMA RemovalFair ==
    ASSUME TypeInv, Boxes, FairInv, Limit > 0, ~stopped, NEW s \in Listed
    PROVE  /\ Fair(Listed \ {s}, Range(Removal(s).queue))
           /\ Range(Removal(s).queue) \subseteq Listed \ {s}
<1> DEFINE L == Listed
           Q == Range(queuedPlayer)
           A == L \ Q
           h == Removal(s).admitted
           R == Range(Removal(s).queue)
           rest == RemoveFirst(queuedPlayer, s)
           active == Cardinality(Listed) - Len(queuedPlayer)
<1>1. /\ R = Q \ {s, h} /\ (h = NoSession \/ h \in Q \ {s})
      /\ Q \subseteq L /\ NoSession \notin L
  <2>1. /\ R = Q \ {s, h} /\ (h = NoSession \/ h \in Q \ {s})
    BY RemovalFacts DEF TypeInv, TypeOK, Boxes
  <2> QED BY <2>1 DEF Boxes, Listed
<1>2. /\ \A T : T \subseteq L => IsFiniteSet(T) /\ Cardinality(T) \in Nat
      /\ active = Cardinality(A)
  BY Counting DEF FairInv
<1>3. /\ Q # {} => Cardinality(A) >= Limit
      /\ Cardinality(A \ Privileged) <= Limit /\ Limit \in Nat
  BY LimitAssumption DEF FairInv, Fair
<1>4. rest \in Seq(Sessions) /\ Range(rest) = Q \ {s}
  <2>1. queuedPlayer \in Seq(Sessions) /\ Distinct(queuedPlayer)
    BY DEF TypeInv, TypeOK, Boxes
  <2>2. \A j, k \in DOMAIN queuedPlayer : queuedPlayer[j] = queuedPlayer[k] => j = k
    BY <2>1 DEF Distinct
  <2>3. /\ RemoveFirst(queuedPlayer, s) \in Seq(Sessions)
        /\ Range(RemoveFirst(queuedPlayer, s)) = Range(queuedPlayer) \ {s}
    BY <2>1, <2>2, RemovedOnce
  <2> QED BY <2>3
<1>5. rest # <<>> => Head(rest) \in Sessions /\ Q # {}
  <2> HIDE DEF rest, Q
  <2>1. rest # <<>> => 1 \in DOMAIN rest /\ Head(rest) \in Sessions
    BY <1>4
  <2>2. rest # <<>> => rest[1] \in Q
    BY <1>4, <2>1 DEF Range
  <2> QED BY <2>1, <2>2
<1>6. rest = <<>> => Q \ {s} = {}
  BY <1>4 DEF Range
<1>7. h # NoSession <=> ((IF s \in Q THEN active ELSE active - 1) < Limit /\ rest # <<>>)
  BY <1>5, <1>4, NoneAssumption, LimitAssumption DEF Removal
<1> HIDE DEF L, Q, A, h, R, rest, active
<1>8. Cardinality(A) \in Nat /\ IsFiniteSet(A) /\ A \subseteq L
  BY <1>2 DEF A
<1>9. ASSUME s \in Q PROVE Fair(L \ {s}, R)
  <2>1. h = NoSession
    BY <1>2, <1>3, <1>5, <1>7, <1>8, <1>9
  <2>2. (L \ {s}) \ R = A
    BY <1>1, <1>9, <2>1 DEF A
  <2>3. Fair(L \ {s}, R)
    <3>1. R # {} => Cardinality(A) >= Limit
      BY <1>3, <1>9
    <3> QED BY <1>3, <2>2, <3>1, FairAs, Zenon
  <2> QED BY <2>3
<1>10. ASSUME s \notin Q, h # NoSession PROVE Fair(L \ {s}, R)
  <2>1. s \in L /\ s \in A
    BY <1>10 DEF L, A
  <2>2. Cardinality(A) = Limit
    BY <1>2, <1>3, <1>5, <1>7, <1>8, <1>10
  <2> DEFINE B == A \ {s}
  <2>3. IsFiniteSet(B) /\ Cardinality(B) = Cardinality(A) - 1
    <3>1. IsFiniteSet(A \ {s}) /\ Cardinality(A \ {s}) = Cardinality(A) - 1
      BY <1>8, <2>1, FS_RemoveElement
    <3> QED BY <3>1
  <2>4. (L \ {s}) \ R = B \cup {h} /\ h \notin B
    <3>1. h \in Q /\ h \in L /\ h # s /\ R = Q \ {h}
      BY <1>1, <1>10
    <3>2. \A x : x \in (L \ {s}) \ R <=> x \in B \cup {h}
      BY <1>10, <3>1 DEF A
    <3> QED BY <3>1, <3>2 DEF A
  <2> HIDE DEF B
  <2>5. Cardinality(B \cup {h}) = Cardinality(A)
    <3>1. Cardinality(B \cup {h}) = Cardinality(B) + 1
      BY <2>3, <2>4, FS_AddElement
    <3> QED BY <1>8, <2>3, <3>1
  <2>6. /\ IsFiniteSet(B \cup {h}) /\ (B \cup {h}) \ Privileged \in SUBSET (B \cup {h})
    BY <2>3, FS_AddElement
  <2>7. Cardinality((B \cup {h}) \ Privileged) <= Cardinality(B \cup {h})
    BY <2>6, FS_Subset
  <2>8. Fair(L \ {s}, R)
    <3>1. Cardinality((B \cup {h}) \ Privileged) <= Limit /\ Cardinality(B \cup {h}) >= Limit
      BY <1>3, <2>2, <2>5, <2>7
    <3> QED BY <2>4, <3>1, FairAs, Zenon
  <2> QED BY <2>8
<1>11. ASSUME s \notin Q, h = NoSession PROVE Fair(L \ {s}, R)
  <2>1. s \in L /\ s \in A /\ R = Q
    BY <1>1, <1>11 DEF L, A
  <2>2. (L \ {s}) \ R = A \ {s}
    BY <2>1 DEF A
  <2>3. IsFiniteSet(A \ {s}) /\ Cardinality(A \ {s}) = Cardinality(A) - 1
    BY <1>8, <2>1, FS_RemoveElement
  <2>4. Q # {} => Cardinality(A) - 1 >= Limit
    BY <1>2, <1>3, <1>6, <1>7, <1>8, <1>11
  <2>5. Cardinality((A \ {s}) \ Privileged) <= Cardinality(A \ Privileged)
    <3>1. A \ Privileged \subseteq L /\ (A \ {s}) \ Privileged \in SUBSET (A \ Privileged)
      BY <1>8
    <3>2. IsFiniteSet(A \ Privileged)
      BY <1>2, <3>1
    <3> QED BY <3>1, <3>2, FS_Subset
  <2>6. Cardinality(A \ Privileged) \in Nat /\ Cardinality((A \ {s}) \ Privileged) \in Nat
    <3>1. A \ Privileged \subseteq L /\ (A \ {s}) \ Privileged \subseteq L
      BY <1>8
    <3> QED BY <1>2, <3>1
  <2>7. Cardinality((A \ {s}) \ Privileged) <= Limit
    BY <1>3, <2>5, <2>6
  <2>8. Fair(L \ {s}, R)
    <3>1. R # {} => Cardinality(A \ {s}) >= Limit
      BY <2>1, <2>3, <2>4
    <3> QED BY <2>2, <2>7, <3>1, FairAs, Zenon
  <2> QED BY <2>8
<1>12. Fair(L \ {s}, R) /\ R \subseteq L \ {s}
  BY <1>1, <1>9, <1>10, <1>11
<1> QED BY <1>12 DEF L, R

\* So does the admission of a session, which counts the queued ones too.
LEMMA AdmitFair ==
    ASSUME NEW L, NEW Q \in SUBSET L, NEW s, s \notin L, IsFiniteSet(L), Limit \in Nat,
           Fair(L, Q)
    PROVE  /\ Cardinality(L) >= Limit /\ s \notin Privileged => Fair(L \cup {s}, Q \cup {s})
           /\ ~(Cardinality(L) >= Limit /\ s \notin Privileged) => Fair(L \cup {s}, Q)
<1> DEFINE A == L \ Q
           B == A \cup {s}
<1>1. /\ IsFiniteSet(A) /\ Cardinality(A) \in Nat /\ Cardinality(A) <= Cardinality(L)
      /\ Cardinality(L) \in Nat
  BY FS_Subset, FS_CardinalityType
<1>2. /\ (L \cup {s}) \ (Q \cup {s}) = A /\ (L \cup {s}) \ Q = B /\ s \notin A
      /\ Q = {} => A = L
      /\ Q # {} => Cardinality(A) >= Limit
      /\ Cardinality(A \ Privileged) <= Limit
  BY DEF Fair
<1>3. /\ IsFiniteSet(B) /\ Cardinality(B) = Cardinality(A) + 1
  BY <1>1, <1>2, FS_AddElement
<1> HIDE DEF A
<1>4. CASE Cardinality(L) >= Limit /\ s \notin Privileged
  BY <1>1, <1>2, <1>4, FairAs
<1>5. CASE s \in Privileged
  <2>1. B \ Privileged = A \ Privileged
    BY <1>5
  <2> HIDE DEF B
  <2>2. Q # {} => Cardinality(B) >= Limit
    BY <1>1, <1>2, <1>3
  <2>3. Fair(L \cup {s}, Q)
    BY <1>2, <1>5, <2>1, <2>2, FairAs
  <2> QED BY <1>5, <2>3
<1>6. CASE ~(Cardinality(L) >= Limit)
  <2>1. Cardinality(B \ Privileged) <= Cardinality(B) /\ Cardinality(B \ Privileged) \in Nat
    BY <1>3, FS_Subset, FS_CardinalityType
  <2> HIDE DEF B
  <2>2. Cardinality(B) <= Limit /\ Cardinality(B) \in Nat
    BY <1>1, <1>3, <1>6
  <2>3. Cardinality(B \ Privileged) <= Limit
    BY <2>1, <2>2
  <2>4. Q # {} => Cardinality(B) >= Limit
    BY <1>1, <1>2, <1>3
  <2>5. Fair(L \cup {s}, Q)
    BY <1>2, <2>3, <2>4, FairAs
  <2> QED BY <1>6, <2>5
<1> QED BY <1>4, <1>5, <1>6

LEMMA AdmitStepFair ==
    ASSUME TypeInv, Boxes, IsFiniteSet(born), Collecting, Limit > 0,
           NEW gone, NEW detached, NEW queue \in Seq(Sessions), NEW admitted, NEW saves,
           Admit(Newcomer, gone, detached, queue, admitted, saves),
           Range(queue) \subseteq Listed \ {Previous},
           Fair(Listed \ {Previous}, Range(queue)),
           Listed' = (Listed \ {Previous}) \cup {Newcomer}
    PROVE  Fair(Listed', Range(queuedPlayer'))
<1> DEFINE n == Newcomer
           L == Listed \ {Previous}
           Q == Range(queue)
<1>1. n \in Sessions /\ n \notin L
  BY NewcomerFacts
<1>2. IsFiniteSet(L)
  BY Counting
<1>3. MustWait(n) <=> Cardinality(L) >= Limit /\ n \notin Privileged
  BY DEF MustWait
<1>4. queuedPlayer' = IF MustWait(n) THEN Append(queue, n) ELSE queue
  BY DEF Admit
<1>5. Range(Append(queue, n)) = Q \cup {n}
  BY <1>1, AppendDistinct
<1>6. Q \in SUBSET L /\ Fair(L, Q) /\ Limit \in Nat /\ Listed' = L \cup {n}
  BY LimitAssumption
<1>7. Range(queuedPlayer') = IF MustWait(n) THEN Q \cup {n} ELSE Q
  BY <1>4, <1>5
<1> HIDE DEF n, L, Q
<1>8. /\ Cardinality(L) >= Limit /\ n \notin Privileged => Fair(L \cup {n}, Q \cup {n})
      /\ ~(Cardinality(L) >= Limit /\ n \notin Privileged) => Fair(L \cup {n}, Q)
  BY <1>1, <1>2, <1>6, AdmitFair
<1> QED BY <1>3, <1>6, <1>7, <1>8

LEMMA CollectFair ==
    ASSUME TypeInv, Boxes, FairInv, RefuseSession \/ AddFirstSession \/ ReplaceSession
    PROVE  FairInv'
<1>0. /\ born' = born /\ stopped' = stopped /\ IsFiniteSet(born)
      /\ queuedPlayer \in Seq(Sessions) /\ Range(queuedPlayer) \subseteq Listed
  BY DEF RefuseSession, AddFirstSession, ReplaceSession, loopVars, FairInv, TypeInv, TypeOK, Boxes
<1>1. CASE RefuseSession
  <2>1. UNCHANGED <<Listed, queuedPlayer>>
    BY <1>1 DEF RefuseSession, Listed
  <2> QED BY <1>0, <2>1 DEF FairInv
<1>2. ASSUME AddFirstSession, Limit > 0, ~stopped
      PROVE  Fair(Listed', Range(queuedPlayer'))
  <2>1. /\ Collecting /\ Previous = NoSession
        /\ Admit(Newcomer, {}, NoSession, queuedPlayer, NoSession, <<>>)
    BY <1>2 DEF AddFirstSession
  <2>2. Listed \ {Previous} = Listed
    BY <2>1 DEF Listed
  <2>3. Listed' = Listed \cup {Newcomer}
    BY <1>2, AddFirstChange DEF Change
  <2>4. Fair(Listed, Range(queuedPlayer))
    BY <1>2 DEF FairInv
  <2>5. /\ Range(queuedPlayer) \subseteq Listed \ {Previous}
        /\ Fair(Listed \ {Previous}, Range(queuedPlayer))
        /\ Listed' = (Listed \ {Previous}) \cup {Newcomer}
    BY <1>0, <2>2, <2>3, <2>4
  <2> QED BY <1>0, <1>2, <2>1, <2>5, AdmitStepFair
<1>3. ASSUME ReplaceSession, Limit > 0, ~stopped
      PROVE  Fair(Listed', Range(queuedPlayer'))
  <2> DEFINE r == Removal(Previous)
  <2>1. Collecting /\ Previous # NoSession
    BY <1>3 DEF ReplaceSession
  <2>2. PICK gone, detached, saves :
          Admit(Newcomer, gone, detached, r.queue, r.admitted, saves)
    BY <1>3 DEF ReplaceSession
  <2>3. Previous \in Listed
    BY <2>1, NewcomerFacts
  <2>4. Listed' = (Listed \ {Previous}) \cup {Newcomer}
    BY <1>3, ReplaceChange DEF Change
  <2>5. r.queue \in Seq(Sessions)
    BY <1>0, RemovalType
  <2>6. /\ Fair(Listed \ {Previous}, Range(r.queue))
        /\ Range(r.queue) \subseteq Listed \ {Previous}
    BY <1>3, <2>3, RemovalFair
  <2> HIDE DEF r
  <2> QED BY <1>0, <1>3, <2>1, <2>2, <2>4, <2>5, <2>6, AdmitStepFair
<1> QED BY <1>0, <1>1, <1>2, <1>3 DEF FairInv

LEMMA LeaveFair ==
    ASSUME TypeInv, Boxes, FairInv, KeepOffline \/ RemoveSession
    PROVE  FairInv'
<1>1. /\ born' = born /\ stopped' = stopped /\ IsFiniteSet(born)
      /\ queuedPlayer' = Removal(Current).queue
  BY DEF KeepOffline, RemoveSession, FairInv
<1>2. Current \in Listed
  BY Visiting DEF KeepOffline, RemoveSession
<1>3. Listed' = Listed \ {Current}
  BY KeepOfflineChange, RemoveSessionChange DEF Change
<1>4. ASSUME Limit > 0, ~stopped PROVE Fair(Listed', Range(queuedPlayer'))
  <2>1. Fair(Listed \ {Current}, Range(Removal(Current).queue))
    BY <1>2, <1>4, RemovalFair
  <2> QED BY <1>1, <1>3, <2>1
<1> QED BY <1>1, <1>4 DEF FairInv

LEMMA FairStep == TypeInv /\ Boxes /\ FairInv /\ [Next]_vars => FairInv'
<1> SUFFICES ASSUME TypeInv, Boxes, FairInv, [Next]_vars PROVE FairInv'
  OBVIOUS
<1>1. CASE StillAction \/ Expires
  <2>1. UNCHANGED <<Listed, queuedPlayer, born, stopped>>
    BY <1>1, StillFacts DEF Still, Listed, Expires, SweepOffline
  <2> QED BY <2>1 DEF FairInv
<1>2. ASSUME NEW s \in Sessions, NewSession(s) PROVE FairInv'
  <2>1. UNCHANGED <<Listed, queuedPlayer, stopped>> /\ born' = born \cup {s}
    BY <1>2, NewSessionBoxes DEF NewSession
  <2>2. IsFiniteSet(born \cup {s})
    BY FS_AddElement DEF FairInv
  <2> QED BY <2>1, <2>2 DEF FairInv
<1>3. CASE KickAll
  BY <1>3, KickAllFacts DEF FairInv
<1> QED BY <1>1, <1>2, <1>3, NextCases, CollectFair, LeaveFair

LEMMA FairInit == Init => FairInv
<1> SUFFICES ASSUME Init PROVE FairInv
  OBVIOUS
<1>1. Listed = {} /\ Range(queuedPlayer) = {} /\ born = {}
  BY DEF Init, Listed, Range
<1>2. Fair({}, {})
  <2>1. {} \ {} = {} /\ {} \ Privileged = {}
    OBVIOUS
  <2>2. Cardinality({}) = 0 /\ Limit \in Nat
    BY FS_EmptySet, LimitAssumption
  <2> QED BY <2>1, <2>2 DEF Fair
<1> QED BY <1>1, <1>2, FS_EmptySet DEF FairInv

\* The limit and the queue: nobody waits while there is room, and the sessions
\* that have to respect the limit never exceed it, whoever is replaced, stays
\* offline or leaves.  RemoveQueuedPlayer counts active sessions correctly.
THEOREM NobodyWaitsInVain == Spec => []QueueFair
<1>1. Init => TypeInv /\ Boxes /\ FairInv
  BY TypeInit, BoxesInit, FairInit
<1>2. TypeInv /\ Boxes /\ FairInv /\ [Next]_vars => (TypeInv /\ Boxes /\ FairInv)'
  BY TypeStep, BoxesStep, FairStep
<1>3. TypeInv /\ FairInv => QueueFair
  <2> SUFFICES ASSUME TypeInv, Fair(Listed, Range(queuedPlayer)), queuedPlayer # <<>>
               PROVE  Range(queuedPlayer) # {}
    BY DEF FairInv, QueueFair, Fair, Active
  <2>1. 1 \in DOMAIN queuedPlayer
    BY DEF TypeInv, TypeOK
  <2> QED BY <2>1 DEF Range
<1> QED BY <1>1, <1>2, <1>3, PTL DEF Spec

=============================================================================
