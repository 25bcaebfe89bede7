-------------------------- MODULE MpscQueueProofs --------------------------
(***************************************************************************)
(* Theorems about MpscQueue for every set of threads and of packets.  The   *)
(* links alone do not show the queue, as they are missing where an Enqueue  *)
(* is half done; the invariant says that a row of nodes exists which the    *)
(* links and the unfinished Enqueues describe together.                     *)
(***************************************************************************)
EXTENDS MpscQueue, Integers, TLAPS

Sent == {sent[k] : k \in DOMAIN sent}

\* The row q holds what was sent and not returned, and at d (0: nowhere) the dummy.
Skipped(d, k) == IF d # 0 /\ k > d THEN 1 ELSE 0
Waits(q, d) ==
    /\ q \in Seq(Nodes) /\ Len(q) >= 1 /\ d \in 0 .. Len(q)
    /\ Len(sent) = Len(out) + Len(q) - (IF d = 0 THEN 0 ELSE 1)
    /\ \A k \in 1 .. Len(q) :
         q[k] = IF k = d THEN Dummy ELSE sent[Len(out) + k - Skipped(d, k)]

\* From tail to head each node is linked to the one behind it, or will be.
Linked(q) ==
    /\ tail = q[1] /\ head = q[Len(q)] /\ next[head] = Null
    /\ \A k \in 1 .. Len(q) - 1 :
         \/ next[q[k]] = q[k + 1]
         \/ next[q[k]] = Null /\ \E t \in Threads : linking[t].prev = q[k]
    /\ \A t \in Threads : linking[t] # NoLink =>
         \E k \in 1 .. Len(q) - 1 :
            linking[t].prev = q[k] /\ linking[t].node = q[k + 1] /\ next[q[k]] = Null

\* No two threads write the same link.
OneLinker ==
    \A t, u \in Threads :
        linking[t] # NoLink /\ linking[u].prev = linking[t].prev => t = u

SentOnce == \A i, j \in 1 .. Len(sent) : sent[i] = sent[j] => i = j
Unlinked == \A x \in Packets \ Sent : next[x] = Null
PastDummy == dequeue \in {"second", "head", "swap", "link", "last"} => tail # Dummy

\* What Dequeue returned is what was sent, in order: nothing is lost or overtaken.
InOrder == Len(out) <= Len(sent) /\ \A k \in 1 .. Len(out) : out[k] = sent[k]

Row(q, d) == Waits(q, d) /\ Linked(q) /\ (dequeue = "swap" => d = 0)

QueueInv ==
    /\ QueueTypeOK /\ InOrder /\ SentOnce /\ Unlinked /\ PastDummy /\ OneLinker
    /\ \E q \in Seq(Nodes), d \in Nat : Row(q, d)

(* ---- The row ----------------------------------------------------------- *)

\* The nodes of a row differ, none was returned, and only one is the dummy.
LEMMA RowFacts ==
    ASSUME QueueTypeOK, InOrder, SentOnce, NEW q, NEW d, Waits(q, d)
    PROVE  /\ q \in Seq(Nodes) /\ d \in 0 .. Len(q) /\ Len(q) \in Nat \ {0}
           /\ \A i, j \in 1 .. Len(q) : q[i] = q[j] => i = j
           /\ \A k \in 1 .. Len(q) : q[k] \in Nodes /\ q[k] \notin Returned /\ q[k] # Null
           /\ \A k \in 1 .. Len(q) : q[k] = Dummy <=> k = d
           /\ \A k \in 1 .. Len(q) : k # d => q[k] \in Sent
<1>1. /\ q \in Seq(Nodes) /\ d \in 0 .. Len(q) /\ Len(q) \in Nat \ {0}
      /\ Len(sent) \in Nat /\ Len(out) \in Nat /\ sent \in Seq(Packets) /\ out \in Seq(Packets)
      /\ Len(out) <= Len(sent)
      /\ DOMAIN sent = 1 .. Len(sent) /\ DOMAIN out = 1 .. Len(out)
  BY DEF Waits, QueueTypeOK, InOrder
<1> DEFINE At(k) == Len(out) + k - Skipped(d, k)
<1>2. ASSUME NEW k \in 1 .. Len(q), k # d
      PROVE  At(k) \in 1 .. Len(sent) /\ At(k) > Len(out) /\ q[k] = sent[At(k)] /\ q[k] \in Packets
  <2>1. At(k) \in 1 .. Len(sent) /\ At(k) > Len(out) /\ q[k] = sent[At(k)]
    BY <1>1, <1>2 DEF Waits, Skipped
  <2> QED BY <2>1, <1>1
<1>3. ASSUME NEW k \in 1 .. Len(q), k = d PROVE q[k] = Dummy
  BY <1>3 DEF Waits
<1>4. \A k \in 1 .. Len(q) : q[k] = Dummy <=> k = d
  BY <1>2, <1>3, NodeAssumption
<1>5. ASSUME NEW i \in 1 .. Len(q), NEW j \in 1 .. Len(q), q[i] = q[j] PROVE i = j
  <2>1. CASE i = d \/ j = d
    BY <2>1, <1>4, <1>5
  <2>2. CASE i # d /\ j # d
    <3>1. At(i) = At(j)
      BY <2>2, <1>2, <1>5 DEF SentOnce
    <3> QED BY <3>1, <2>2, <1>1 DEF Skipped
  <2> QED BY <2>1, <2>2
<1>6. ASSUME NEW k \in 1 .. Len(q) PROVE q[k] \notin Returned
  <2>1. SUFFICES ASSUME NEW j \in 1 .. Len(out), out[j] = q[k] PROVE FALSE
    BY <1>1 DEF Returned
  <2>2. out[j] \in Packets /\ out[j] = sent[j] /\ j \in 1 .. Len(sent) /\ j <= Len(out)
    BY <1>1 DEF InOrder
  <2>3. k # d
    BY <2>1, <2>2, <1>3, NodeAssumption
  <2>4. sent[At(k)] = sent[j] /\ At(k) \in 1 .. Len(sent) /\ At(k) > Len(out)
    BY <2>1, <2>2, <2>3, <1>2
  <2>5. At(k) = j
    BY <2>2, <2>4 DEF SentOnce
  <2> QED BY <2>2, <2>4, <2>5, <1>1
<1>7. \A k \in 1 .. Len(q) : q[k] \in Nodes /\ q[k] # Null
  BY <1>1, NodeAssumption DEF Nodes
<1>8. \A k \in 1 .. Len(q) : k # d => q[k] \in Sent
  BY <1>1, <1>2 DEF Sent
<1> QED BY <1>1, <1>4, <1>5, <1>6, <1>7, <1>8

\* A packet that was sent and not returned is in the row.
LEMMA SentIsKept ==
    ASSUME QueueTypeOK, InOrder, NEW q, NEW d, Waits(q, d), NEW x \in Sent, x \notin Returned
    PROVE  \E k \in 1 .. Len(q) : x = q[k] /\ k # d
<1>1. /\ Len(q) \in Nat \ {0} /\ d \in 0 .. Len(q)
      /\ Len(sent) \in Nat /\ Len(out) \in Nat /\ Len(out) <= Len(sent)
      /\ DOMAIN sent = 1 .. Len(sent) /\ DOMAIN out = 1 .. Len(out)
      /\ Len(sent) = Len(out) + Len(q) - (IF d = 0 THEN 0 ELSE 1)
  BY DEF Waits, QueueTypeOK, InOrder
<1>2. PICK j \in 1 .. Len(sent) : x = sent[j]
  BY <1>1 DEF Sent
<1>3. j > Len(out)
  BY <1>1, <1>2 DEF Returned, InOrder
<1> DEFINE i == j - Len(out)
<1>4. i \in Nat /\ i >= 1 /\ j = Len(out) + i
  BY <1>1, <1>3
<1>5. CASE d = 0 \/ i < d
  <2>1. i \in 1 .. Len(q) /\ i # d /\ Skipped(d, i) = 0
    BY <1>1, <1>4, <1>5 DEF Skipped
  <2>2. Len(out) + i - Skipped(d, i) = j
    BY <2>1, <1>1, <1>4
  <2>3. q[i] = sent[j]
    BY <2>1, <2>2 DEF Waits
  <2> QED BY <2>1, <2>3, <1>2
<1>6. CASE d # 0 /\ i >= d
  <2>1. i + 1 \in 1 .. Len(q) /\ i + 1 # d /\ Skipped(d, i + 1) = 1
    BY <1>1, <1>4, <1>6 DEF Skipped
  <2>2. Len(out) + (i + 1) - Skipped(d, i + 1) = j
    BY <2>1, <1>1, <1>4
  <2>3. q[i + 1] = sent[j]
    BY <2>1, <2>2 DEF Waits
  <2> QED BY <2>1, <2>3, <1>2
<1> QED BY <1>1, <1>4, <1>5, <1>6

(* ---- Links -------------------------------------------------------------- *)

LinkFacts == /\ QueueTypeOK /\ OneLinker
Distinct(q) == /\ q \in Seq(Nodes) /\ Len(q) \in Nat \ {0}
               /\ \A i, j \in 1 .. Len(q) : q[i] = q[j] => i = j

LEMMA AppendFacts ==
    ASSUME NEW S, NEW s \in Seq(S), NEW e \in S
    PROVE  /\ Append(s, e) \in Seq(S) /\ Len(Append(s, e)) = Len(s) + 1 /\ Len(s) \in Nat
           /\ \A k \in 1 .. Len(s) : Append(s, e)[k] = s[k]
           /\ Append(s, e)[Len(s) + 1] = e
OBVIOUS

\* A thread that is linking has a node before it.
LEMMA LinkingType ==
    ASSUME QueueTypeOK, NEW t \in Threads
    PROVE  /\ linking[t] # NoLink <=> linking[t].prev # Null
           /\ linking[t] # NoLink => linking[t].prev \in Nodes /\ linking[t].node \in Nodes
           /\ linking[t] = NoLink => linking[t].prev = Null
<1>1. linking[t] \in {NoLink} \cup [prev : Nodes, node : Nodes] /\ Null \notin Nodes
  BY NodeAssumption DEF QueueTypeOK, Nodes
<1>2. CASE linking[t] = NoLink
  BY <1>2 DEF NoLink
<1>3. CASE linking[t] # NoLink
  <2>1. linking[t].prev \in Nodes /\ linking[t].node \in Nodes
    BY <1>1, <1>3
  <2> QED BY <2>1, <1>1, <1>3
<1> QED BY <1>2, <1>3

\* The exchange puts a node behind the last, to be linked by this thread.
LEMMA ExchangeKeepsLinks ==
    ASSUME LinkFacts, NEW q, Distinct(q), Linked(q), NEW t \in Threads, NEW n \in Nodes,
           \A k \in 1 .. Len(q) : q[k] # n,
           Exchange(t, n), tail' = tail
    PROVE  Distinct(Append(q, n)) /\ Linked(Append(q, n))' /\ OneLinker'
<1> DEFINE r == Append(q, n)
<1>1. /\ r \in Seq(Nodes) /\ Len(r) = Len(q) + 1 /\ Len(q) \in Nat \ {0}
      /\ \A k \in 1 .. Len(q) : r[k] = q[k] /\ q[k] \in Nodes
      /\ r[Len(q) + 1] = n
  BY DEF Distinct
<1>2. /\ linking[t] = NoLink
      /\ next' = [next EXCEPT ![n] = Null] /\ next \in [Nodes -> Nodes \cup {Null}]
      /\ linking' = [linking EXCEPT ![t] = [prev |-> head, node |-> n]]
      /\ linking \in [Threads -> {NoLink} \cup [prev : Nodes, node : Nodes]]
      /\ head' = n
  BY DEF Exchange, LinkFacts, QueueTypeOK
<1>3. next'[n] = Null /\ \A k \in 1 .. Len(q) : next'[q[k]] = next[q[k]]
  BY <1>1, <1>2
<1>4. /\ linking'[t] = [prev |-> head, node |-> n]
      /\ \A u \in Threads \ {t} : linking'[u] = linking[u]
  BY <1>2
<1>5. tail = q[1] /\ head = q[Len(q)] /\ next[head] = Null /\ head \in Nodes /\ head # Null
  BY <1>1, NodeAssumption DEF Linked, Nodes
<1>6. Distinct(r)
  BY <1>1 DEF Distinct
<1>7. ASSUME NEW k \in 1 .. Len(r) - 1
      PROVE  \/ next'[r[k]] = r[k + 1]
             \/ next'[r[k]] = Null /\ \E u \in Threads : linking'[u].prev = r[k]
  <2>1. CASE k = Len(q)
    BY <2>1, <1>1, <1>3, <1>4, <1>5
  <2>2. CASE k # Len(q)
    <3>1. k \in 1 .. Len(q) - 1 /\ r[k] = q[k] /\ r[k + 1] = q[k + 1] /\ next'[r[k]] = next[q[k]]
          /\ q[k] # Null
      BY <2>2, <1>1, <1>3, NodeAssumption DEF Nodes
    <3>2. CASE next[q[k]] = q[k + 1]
      BY <3>1, <3>2
    <3>3. CASE next[q[k]] # q[k + 1]
      <4>1. PICK u \in Threads : linking[u].prev = q[k] /\ next[q[k]] = Null
        BY <3>1, <3>3 DEF Linked
      <4>2. u # t
        BY <4>1, <3>1, <1>2 DEF NoLink
      <4> QED BY <4>1, <4>2, <3>1, <1>4
    <3> QED BY <3>2, <3>3
  <2> QED BY <2>1, <2>2
<1>8. ASSUME NEW u \in Threads, linking'[u] # NoLink
      PROVE  \E k \in 1 .. Len(r) - 1 :
                linking'[u].prev = r[k] /\ linking'[u].node = r[k + 1] /\ next'[r[k]] = Null
  <2>1. CASE u = t
    <3>1. Len(q) \in 1 .. Len(r) - 1
      BY <1>1
    <3>2. linking'[u].prev = r[Len(q)] /\ linking'[u].node = r[Len(q) + 1] /\ next'[r[Len(q)]] = Null
      BY <2>1, <1>1, <1>3, <1>4, <1>5
    <3> QED BY <3>1, <3>2
  <2>2. CASE u # t
    <3>1. PICK k \in 1 .. Len(q) - 1 :
             linking[u].prev = q[k] /\ linking[u].node = q[k + 1] /\ next[q[k]] = Null
      BY <2>2, <1>4, <1>8 DEF Linked
    <3>2. k \in 1 .. Len(r) - 1 /\ r[k] = q[k] /\ r[k + 1] = q[k + 1] /\ next'[r[k]] = next[q[k]]
      BY <1>1, <1>3
    <3> QED BY <3>1, <3>2, <2>2, <1>4
  <2> QED BY <2>1, <2>2
<1>9. OneLinker'
  <2>1. ASSUME NEW u \in Threads \ {t} PROVE linking[u].prev # head
    <3>1. CASE linking[u] = NoLink
      BY <3>1, <1>5 DEF NoLink
    <3>2. CASE linking[u] # NoLink
      <4>1. PICK k \in 1 .. Len(q) - 1 : linking[u].prev = q[k]
        BY <3>2 DEF Linked
      <4> QED BY <4>1, <1>1, <1>5 DEF Distinct
    <3> QED BY <3>1, <3>2
  <2> QED BY <2>1, <1>4 DEF OneLinker, LinkFacts
<1>10. tail' = r[1] /\ head' = r[Len(r)] /\ next'[head'] = Null
  BY <1>1, <1>2, <1>3, <1>5
<1>11. Linked(r)'
  BY <1>7, <1>8, <1>10 DEF Linked
<1> QED BY <1>6, <1>9, <1>11

\* The second half of Enqueue sets a link that was due.
LEMMA LinkKeepsLinks ==
    ASSUME LinkFacts, NEW q, Distinct(q), Linked(q), NEW t \in Threads, Link(t), tail' = tail
    PROVE  Linked(q)' /\ OneLinker'
<1>1. \A k \in 1 .. Len(q) : q[k] \in Nodes /\ q[k] # Null
  BY NodeAssumption DEF Distinct, Nodes
<1>2. PICK j \in 1 .. Len(q) - 1 :
         linking[t].prev = q[j] /\ linking[t].node = q[j + 1] /\ next[q[j]] = Null
  BY DEF Link, Linked
<1>3. /\ linking[t] # NoLink /\ head' = head
      /\ next' = [next EXCEPT ![q[j]] = q[j + 1]] /\ next \in [Nodes -> Nodes \cup {Null}]
      /\ linking' = [linking EXCEPT ![t] = NoLink]
      /\ linking \in [Threads -> {NoLink} \cup [prev : Nodes, node : Nodes]]
  BY <1>2 DEF Link, LinkFacts, QueueTypeOK
<1>4. /\ next'[q[j]] = q[j + 1]
      /\ \A k \in 1 .. Len(q) : k # j => next'[q[k]] = next[q[k]]
  BY <1>1, <1>2, <1>3 DEF Distinct
<1>5. linking'[t] = NoLink /\ \A u \in Threads \ {t} : linking'[u] = linking[u]
  BY <1>3
<1>6. ASSUME NEW k \in 1 .. Len(q) - 1
      PROVE  \/ next'[q[k]] = q[k + 1]
             \/ next'[q[k]] = Null /\ \E u \in Threads : linking'[u].prev = q[k]
  <2>1. CASE k = j
    BY <2>1, <1>4
  <2>2. CASE k # j /\ next[q[k]] = q[k + 1]
    BY <2>2, <1>4 DEF Distinct
  <2>3. CASE k # j /\ next[q[k]] # q[k + 1]
    <3>1. PICK u \in Threads : linking[u].prev = q[k] /\ next[q[k]] = Null
      BY <2>3 DEF Linked
    <3>2. u # t
      BY <3>1, <2>3, <1>2 DEF Distinct
    <3>3. next'[q[k]] = next[q[k]]
      BY <2>3, <1>4 DEF Distinct
    <3> QED BY <3>1, <3>2, <3>3, <1>5
  <2> QED BY <2>1, <2>2, <2>3
<1>7. ASSUME NEW u \in Threads, linking'[u] # NoLink
      PROVE  \E k \in 1 .. Len(q) - 1 :
                linking'[u].prev = q[k] /\ linking'[u].node = q[k + 1] /\ next'[q[k]] = Null
  <2>1. u # t /\ linking[u] # NoLink /\ linking'[u] = linking[u]
    BY <1>5, <1>7
  <2>2. PICK k \in 1 .. Len(q) - 1 :
           linking[u].prev = q[k] /\ linking[u].node = q[k + 1] /\ next[q[k]] = Null
    BY <2>1 DEF Linked
  <2>3. k # j
    BY <2>1, <2>2, <1>2 DEF OneLinker, LinkFacts
  <2>4. k \in 1 .. Len(q)
    BY DEF Distinct
  <2>5. next'[q[k]] = Null
    BY <2>2, <2>3, <2>4, <1>4
  <2> QED BY <2>1, <2>2, <2>5
<1>8. OneLinker'
  <2>1. \A u \in Threads : linking[u] # NoLink => linking[u].prev # Null
    BY LinkingType DEF LinkFacts
  <2>2. linking'[t].prev = Null
    BY <1>5 DEF NoLink
  <2> QED BY <1>5, <2>1, <2>2 DEF OneLinker, LinkFacts
<1>9. tail' = q[1] /\ head' = q[Len(q)] /\ next'[head'] = Null
  BY <1>1, <1>2, <1>3, <1>4 DEF Linked, Distinct
<1> QED BY <1>6, <1>7, <1>8, <1>9 DEF Linked

\* Where the tail moves along its link, that link led to the next of the row.
LEMMA AdvanceKeepsLinks ==
    ASSUME LinkFacts, NEW q, Distinct(q), Linked(q), next[tail] # Null,
           tail' = next[tail], UNCHANGED <<head, next, linking>>
    PROVE  /\ Len(q) >= 2 /\ next[tail] = q[2]
           /\ Distinct(Tail(q)) /\ Linked(Tail(q))' /\ OneLinker'
<1> DEFINE r == Tail(q)
<1>1. Len(q) \in Nat /\ Len(q) >= 2
  BY DEF Linked, Distinct
<1>2. /\ r \in Seq(Nodes) /\ Len(r) = Len(q) - 1
      /\ \A k \in 1 .. Len(r) : r[k] = q[k + 1]
  BY <1>1 DEF Distinct
<1>3. tail = q[1] /\ next[tail] = q[2]
  BY <1>1 DEF Linked
<1>4. Distinct(r)
  BY <1>1, <1>2 DEF Distinct
<1>5. ASSUME NEW k \in 1 .. Len(r) - 1
      PROVE  \/ next[r[k]] = r[k + 1]
             \/ next[r[k]] = Null /\ \E t \in Threads : linking[t].prev = r[k]
  <2>1. k + 1 \in 1 .. Len(q) - 1 /\ r[k] = q[k + 1] /\ r[k + 1] = q[(k + 1) + 1]
    BY <1>1, <1>2
  <2> QED BY <2>1 DEF Linked
<1>6. ASSUME NEW t \in Threads, linking[t] # NoLink
      PROVE  \E k \in 1 .. Len(r) - 1 :
                linking[t].prev = r[k] /\ linking[t].node = r[k + 1] /\ next[r[k]] = Null
  <2>1. PICK k \in 1 .. Len(q) - 1 :
           linking[t].prev = q[k] /\ linking[t].node = q[k + 1] /\ next[q[k]] = Null
    BY <1>6 DEF Linked
  <2>2. k # 1
    BY <2>1, <1>3
  <2>3. k - 1 \in 1 .. Len(r) - 1 /\ r[k - 1] = q[k] /\ r[(k - 1) + 1] = q[k + 1]
    BY <2>2, <1>1, <1>2
  <2> QED BY <2>1, <2>3
<1>7. tail' = r[1] /\ head = r[Len(r)] /\ next[head] = Null
  BY <1>1, <1>2, <1>3 DEF Linked
<1>8. OneLinker'
  BY DEF OneLinker, LinkFacts
<1>9. Linked(r)'
  BY <1>5, <1>6, <1>7 DEF Linked
<1> QED BY <1>1, <1>3, <1>4, <1>8, <1>9

(* ---- Steps -------------------------------------------------------------- *)

LEMMA RowIsDistinct ==
    ASSUME QueueTypeOK, InOrder, SentOnce, NEW q, NEW d, Waits(q, d)
    PROVE  Distinct(q)
BY RowFacts DEF Distinct

LEMMA EnqueueFirstKeeps ==
    ASSUME QueueInv, NEW t \in Threads, NEW x \in Packets, x \notin Sent, EnqueueFirst(t, x)
    PROVE  QueueInv'
<1>1. PICK q \in Seq(Nodes), d \in Nat : Row(q, d)
  BY DEF QueueInv
<1>2. /\ Waits(q, d) /\ Linked(q) /\ Distinct(q) /\ LinkFacts
      /\ (dequeue = "swap" => d = 0)
      /\ QueueTypeOK /\ InOrder /\ SentOnce
  BY <1>1, RowIsDistinct DEF QueueInv, Row, LinkFacts
<1>3. /\ Exchange(t, x) /\ tail' = tail /\ dequeue' = dequeue /\ out' = out
      /\ sent' = Append(sent, x) /\ x \in Nodes /\ x # Dummy
  BY NodeAssumption DEF EnqueueFirst, Nodes
<1>4. \A k \in 1 .. Len(q) : q[k] # x
  BY <1>2, <1>3, RowFacts
<1> DEFINE r == Append(q, x)
<1>5. Distinct(r) /\ Linked(r)' /\ OneLinker'
  BY <1>2, <1>3, <1>4, ExchangeKeepsLinks
<1>6. /\ sent \in Seq(Packets) /\ out \in Seq(Packets) /\ sent' \in Seq(Packets)
      /\ Len(sent') = Len(sent) + 1 /\ sent'[Len(sent) + 1] = x
      /\ \A k \in 1 .. Len(sent) : sent'[k] = sent[k]
      /\ DOMAIN sent = 1 .. Len(sent) /\ DOMAIN sent' = 1 .. Len(sent')
      /\ Len(sent) \in Nat /\ Len(out) \in Nat
  BY <1>2, <1>3 DEF QueueTypeOK
<1>7. QueueTypeOK'
  BY <1>2, <1>3, <1>6 DEF QueueTypeOK, Exchange
<1>8. InOrder'
  BY <1>2, <1>3, <1>6 DEF InOrder
<1>9. SentOnce'
  BY <1>2, <1>6 DEF SentOnce, Sent
<1>10. Unlinked'
  <2>1. Sent \subseteq Sent' /\ x \in Sent'
    BY <1>6 DEF Sent
  <2>2. next' = [next EXCEPT ![x] = Null]
    BY <1>3 DEF Exchange
  <2>3. Unlinked /\ next \in [Nodes -> Nodes \cup {Null}] /\ Packets \subseteq Nodes
    BY <1>2 DEF QueueInv, QueueTypeOK, Nodes
  <2> QED BY <2>1, <2>2, <2>3 DEF Unlinked
<1>11. PastDummy'
  BY <1>3 DEF QueueInv, PastDummy
<1>12. Waits(r, d)'
  <2>1. /\ Len(q) \in Nat /\ Len(q) >= 1 /\ d \in 0 .. Len(q) /\ r \in Seq(Nodes) /\ Len(r) = Len(q) + 1
        /\ \A k \in 1 .. Len(q) : r[k] = q[k]
        /\ r[Len(q) + 1] = x
    BY <1>2, <1>3 DEF Waits
  <2>2. Len(sent) = Len(out) + Len(q) - (IF d = 0 THEN 0 ELSE 1)
    BY <1>2 DEF Waits
  <2>3. ASSUME NEW k \in 1 .. Len(r)
        PROVE  r[k] = IF k = d THEN Dummy ELSE sent'[Len(out) + k - Skipped(d, k)]
    <3>1. CASE k = Len(q) + 1
      <4>1. Len(out) + k - Skipped(d, k) = Len(sent) + 1 /\ k # d
        BY <3>1, <2>1, <2>2, <1>6 DEF Skipped
      <4> QED BY <4>1, <3>1, <2>1, <1>6
    <3>2. CASE k # Len(q) + 1
      <4>1. k \in 1 .. Len(q) /\ r[k] = q[k]
        BY <3>2, <2>1
      <4>2. k # d => Len(out) + k - Skipped(d, k) \in 1 .. Len(sent)
        BY <4>1, <2>1, <2>2, <1>6 DEF Skipped
      <4>3. q[k] = IF k = d THEN Dummy ELSE sent[Len(out) + k - Skipped(d, k)]
        BY <4>1, <1>2 DEF Waits
      <4>4. k # d => sent'[Len(out) + k - Skipped(d, k)] = sent[Len(out) + k - Skipped(d, k)]
        BY <4>2, <1>6
      <4> QED BY <4>1, <4>3, <4>4
    <3> QED BY <3>1, <3>2
  <2>4. Len(r) >= 1 /\ d \in 0 .. Len(r)
        /\ Len(sent') = Len(out') + Len(r) - (IF d = 0 THEN 0 ELSE 1)
    BY <2>1, <2>2, <1>3, <1>6
  <2> QED BY <2>1, <2>3, <2>4, <1>3 DEF Waits
<1>13. Row(r, d)'
  BY <1>2, <1>3, <1>5, <1>12 DEF Row
<1>14. r \in Seq(Nodes)
  BY <1>3
<1> QED BY <1>5, <1>7, <1>8, <1>9, <1>10, <1>11, <1>13, <1>14 DEF QueueInv

LEMMA LinkKeeps ==
    ASSUME QueueInv, NEW t \in Threads, Link(t), UNCHANGED <<tail, sent, out>>,
           \/ dequeue' = dequeue
           \/ dequeue = "link" /\ dequeue' = "last"
    PROVE  QueueInv'
<1>1. PICK q \in Seq(Nodes), d \in Nat : Row(q, d)
  BY DEF QueueInv
<1>2. /\ Waits(q, d) /\ Linked(q) /\ Distinct(q) /\ LinkFacts
      /\ (dequeue = "swap" => d = 0)
      /\ QueueTypeOK /\ InOrder /\ SentOnce /\ Unlinked /\ PastDummy
  BY <1>1, RowIsDistinct DEF QueueInv, Row, LinkFacts
<1>3. Linked(q)' /\ OneLinker'
  BY <1>2, LinkKeepsLinks
<1>4. linking[t].prev \in Nodes /\ linking[t].node \in Nodes
      /\ next' = [next EXCEPT ![linking[t].prev] = linking[t].node]
      /\ linking' = [linking EXCEPT ![t] = NoLink] /\ head' = head
  BY <1>2, LinkingType DEF Link
<1>5. QueueTypeOK'
  BY <1>2, <1>4 DEF QueueTypeOK
<1>6. InOrder' /\ SentOnce' /\ Waits(q, d)'
  BY <1>2 DEF InOrder, SentOnce, Waits
<1>7. Unlinked'
  <2>1. PICK k \in 1 .. Len(q) - 1 : linking[t].prev = q[k]
    BY <1>2 DEF Link, Linked
  <2>2. k \in 1 .. Len(q)
    BY <1>2 DEF Distinct
  <2>3. linking[t].prev \notin Packets \ Sent
    BY <2>1, <2>2, <1>2, RowFacts, NodeAssumption
  <2>4. Sent' = Sent
    BY DEF Sent
  <2> QED BY <2>3, <2>4, <1>2, <1>4 DEF Unlinked, QueueTypeOK, Nodes
<1>8. PastDummy' /\ (dequeue' = "swap" => d = 0)
  BY <1>2 DEF PastDummy
<1>9. Row(q, d)'
  BY <1>3, <1>6, <1>8 DEF Row
<1> QED BY <1>3, <1>5, <1>6, <1>7, <1>8, <1>9 DEF QueueInv

\* Steps of Dequeue that only look.
LEMMA LookKeeps ==
    ASSUME QueueInv, FindEmpty \/ TailIsLast \/ CompareHead \/ Leave
    PROVE  QueueInv'
<1>1. PICK q \in Seq(Nodes), d \in Nat : Row(q, d)
  BY DEF QueueInv
<1>2. /\ Waits(q, d) /\ Linked(q) /\ Distinct(q)
      /\ (dequeue = "swap" => d = 0)
      /\ QueueTypeOK /\ InOrder /\ SentOnce /\ Unlinked /\ PastDummy /\ OneLinker
  BY <1>1, RowIsDistinct DEF QueueInv, Row
<1>3. UNCHANGED <<head, tail, next, linking, sent, out>>
  BY DEF FindEmpty, TailIsLast, CompareHead, Leave
<1>4. Waits(q, d)' /\ Linked(q)' /\ InOrder' /\ SentOnce' /\ Unlinked' /\ OneLinker'
  BY <1>2, <1>3 DEF Waits, Linked, InOrder, SentOnce, Unlinked, Sent, OneLinker
<1>5. QueueTypeOK' /\ PastDummy'
  BY <1>2, <1>3 DEF QueueTypeOK, PastDummy, FindEmpty, TailIsLast, LoadsLink, CompareHead, Leave
<1>6. ASSUME dequeue' = "swap" PROVE d = 0
  <2>1. CompareHead /\ tail = head
    BY <1>6 DEF FindEmpty, TailIsLast, CompareHead, Leave
  <2>2. Len(q) = 1 /\ q[1] = tail /\ tail # Dummy
    <3>1. tail = q[1] /\ head = q[Len(q)] /\ 1 \in 1 .. Len(q) /\ Len(q) \in 1 .. Len(q)
      BY <1>2 DEF Linked, Distinct
    <3>2. 1 = Len(q)
      BY <3>1, <2>1, <1>2 DEF Distinct
    <3> QED BY <3>1, <3>2, <2>1, <1>2 DEF PastDummy, CompareHead
  <2> QED BY <2>2, <1>2, RowFacts
<1>7. Row(q, d)'
  BY <1>4, <1>6 DEF Row
<1> QED BY <1>4, <1>5, <1>7 DEF QueueInv

\* The tail moves along its link: past the dummy, or past what is returned.
LEMMA AdvanceKeeps ==
    ASSUME QueueInv, PassDummy \/ TakeTail
    PROVE  QueueInv'
<1>1. PICK q \in Seq(Nodes), d \in Nat : Row(q, d)
  BY DEF QueueInv
<1>2. /\ Waits(q, d) /\ Linked(q) /\ Distinct(q) /\ LinkFacts
      /\ QueueTypeOK /\ InOrder /\ SentOnce /\ Unlinked /\ PastDummy /\ OneLinker
  BY <1>1, RowIsDistinct DEF QueueInv, Row, LinkFacts
<1>3. /\ next[tail] # Null /\ tail' = next[tail]
      /\ UNCHANGED <<head, next, linking, sent>>
      /\ dequeue' \in {"second", "got"}
      /\ PassDummy => tail = Dummy /\ out' = out
      /\ ~PassDummy => tail # Dummy /\ out' = Append(out, tail) /\ dequeue' = "got"
  BY <1>2 DEF PassDummy, TakeTail, LoadsLink, PastDummy
<1> DEFINE r == Tail(q)
           e == IF d = 0 THEN 0 ELSE d - 1
<1>4. /\ Len(q) >= 2 /\ next[tail] = q[2]
      /\ Distinct(r) /\ Linked(r)' /\ OneLinker'
  BY <1>2, <1>3, AdvanceKeepsLinks
<1>5. /\ Len(q) \in Nat /\ d \in 0 .. Len(q) /\ tail = q[1] /\ q[2] \in Nodes
      /\ \A k \in 1 .. Len(q) : q[k] = Dummy <=> k = d
      /\ r \in Seq(Nodes) /\ Len(r) = Len(q) - 1
      /\ \A k \in 1 .. Len(r) : r[k] = q[k + 1]
      /\ sent \in Seq(Packets) /\ out \in Seq(Packets) /\ Len(out) \in Nat /\ Len(sent) \in Nat
  BY <1>2, <1>4, RowFacts DEF Linked, QueueTypeOK
<1>6. /\ d = 1 => q[2] # Dummy /\ out' = out
      /\ d # 1 => tail \in Packets /\ out' = Append(out, tail) /\ dequeue' = "got"
  <2>1. d = 1 <=> PassDummy
    BY <1>3, <1>4, <1>5
  <2>2. tail \in Nodes
    BY <1>2 DEF QueueTypeOK
  <2> QED BY <2>1, <2>2, <1>3, <1>4, <1>5 DEF Nodes
<1>7. /\ out' \in Seq(Packets)
      /\ Len(out') = Len(out) + (IF d = 1 THEN 0 ELSE 1)
      /\ \A k \in 1 .. Len(out) : out'[k] = out[k]
      /\ d # 1 => out'[Len(out) + 1] = tail
  <2>1. CASE d = 1
    BY <2>1, <1>5, <1>6
  <2>2. CASE d # 1
    <3>1. tail \in Packets /\ out \in Seq(Packets) /\ out' = Append(out, tail)
      BY <2>2, <1>5, <1>6
    <3> QED BY <2>2, <3>1, AppendFacts
  <2> QED BY <2>1, <2>2
<1>8. QueueTypeOK'
  BY <1>2, <1>3, <1>4, <1>5, <1>7 DEF QueueTypeOK
<1>9. Len(sent) = Len(out) + Len(q) - (IF d = 0 THEN 0 ELSE 1)
  BY <1>2 DEF Waits
<1>11. InOrder'
  <2>1. CASE d = 1
    BY <2>1, <1>2, <1>3, <1>6 DEF InOrder
  <2>2. CASE d # 1
    <3>1. q[1] = sent[Len(out) + 1 - Skipped(d, 1)]
      BY <2>2, <1>2, <1>4 DEF Waits
    <3>2. Skipped(d, 1) = 0 /\ Len(out) + 1 <= Len(sent)
      BY <2>2, <1>4, <1>5, <1>9 DEF Skipped
    <3>3. tail = sent[Len(out) + 1]
      BY <3>1, <3>2, <1>5
    <3>4. Len(out') = Len(out) + 1
      BY <2>2, <1>7
    <3>5. ASSUME NEW k \in 1 .. Len(out') PROVE out'[k] = sent[k]
      <4>1. CASE k = Len(out) + 1
        BY <4>1, <3>3, <2>2, <1>7
      <4>2. CASE k # Len(out) + 1
        <5>1. k \in 1 .. Len(out)
          BY <4>2, <3>4, <1>5
        <5> QED BY <5>1, <1>2, <1>7 DEF InOrder
      <4> QED BY <4>1, <4>2
    <3> QED BY <3>2, <3>4, <3>5, <1>3 DEF InOrder
  <2> QED BY <2>1, <2>2
<1>12. SentOnce' /\ Unlinked'
  BY <1>2, <1>3 DEF SentOnce, Unlinked, Sent
<1>13. PastDummy'
  <2>1. d = 1 => tail' # Dummy
    BY <1>3, <1>4, <1>6
  <2>2. d # 1 => dequeue' = "got"
    BY <1>6
  <2> QED BY <2>1, <2>2 DEF PastDummy
<1>14. Waits(r, e)'
  <2>1. /\ Len(r) >= 1 /\ e \in 0 .. Len(r)
        /\ Len(sent) = Len(out') + Len(r) - (IF e = 0 THEN 0 ELSE 1)
    <3>1. /\ Len(q) \in Nat /\ Len(q) >= 2 /\ d \in 0 .. Len(q) /\ Len(r) = Len(q) - 1
          /\ Len(out') = Len(out) + (IF d = 1 THEN 0 ELSE 1)
          /\ Len(out) \in Nat
      BY <1>4, <1>5, <1>7
    <3>2. d \in Nat /\ (d = 0 \/ d = 1 \/ d > 1)
      BY <3>1
    <3> HIDE DEF r
    <3>3. CASE d = 0
      BY <3>1, <3>3, <1>9
    <3>4. CASE d = 1
      BY <3>1, <3>4, <1>9
    <3>5. CASE d > 1
      <4>1. e = d - 1 /\ e # 0 /\ e \in 1 .. Len(q) - 1
        BY <3>1, <3>5
      <4>2. Len(sent) = Len(out) + Len(q) - 1 /\ Len(out') = Len(out) + 1
        BY <3>1, <3>5, <1>9
      <4> QED BY <3>1, <4>1, <4>2
    <3> QED BY <3>2, <3>3, <3>4, <3>5
  <2>2. ASSUME NEW k \in 1 .. Len(r)
        PROVE  r[k] = IF k = e THEN Dummy ELSE sent[Len(out') + k - Skipped(e, k)]
    <3>1. k + 1 \in 1 .. Len(q) /\ r[k] = q[k + 1]
      BY <1>5
    <3>2. q[k + 1] = IF k + 1 = d THEN Dummy ELSE sent[Len(out) + (k + 1) - Skipped(d, k + 1)]
      BY <3>1, <1>2 DEF Waits
    <3>3. k + 1 = d <=> k = e
      BY <1>5
    <3>4. k # e => Len(out') + k - Skipped(e, k) = Len(out) + (k + 1) - Skipped(d, k + 1)
      <4>1. /\ k \in Nat \ {0} /\ d \in Nat /\ Len(out) \in Nat
            /\ Len(out') = Len(out) + (IF d = 1 THEN 0 ELSE 1)
        BY <1>5, <1>7
      <4>2. d = 0 \/ d = 1 \/ d > 1
        BY <4>1
      <4> HIDE DEF r
      <4>3. CASE d = 0
        BY <4>1, <4>3 DEF Skipped
      <4>4. CASE d = 1
        BY <4>1, <4>4 DEF Skipped
      <4>5. CASE d > 1
        <5>1. e = d - 1 /\ e # 0 /\ e \in Nat /\ Len(out') = Len(out) + 1
          BY <4>1, <4>5
        <5>2. Skipped(e, k) = Skipped(d, k + 1) /\ Skipped(e, k) \in {0, 1}
          BY <4>1, <4>5, <5>1 DEF Skipped
        <5>3. PICK n \in {0, 1} : Skipped(e, k) = n /\ Skipped(d, k + 1) = n
          BY <5>2
        <5>4. Len(out') + k - n = Len(out) + (k + 1) - n
          BY <4>1, <5>1
        <5> QED BY <5>3, <5>4
      <4> QED BY <4>2, <4>3, <4>4, <4>5
    <3> QED BY <3>1, <3>2, <3>3, <3>4
  <2> QED BY <2>1, <2>2, <1>3, <1>5 DEF Waits
<1>15. Row(r, e)' /\ e \in Nat
  BY <1>3, <1>4, <1>5, <1>14 DEF Row
<1> QED BY <1>4, <1>5, <1>8, <1>11, <1>12, <1>13, <1>15 DEF QueueInv

\* The dummy goes behind the last packet, when it is not in the row.
LEMMA ReturnDummyKeeps ==
    ASSUME QueueInv, ReturnDummy
    PROVE  QueueInv'
<1>1. PICK q \in Seq(Nodes), d \in Nat : Row(q, d)
  BY DEF QueueInv
<1>2. /\ Waits(q, d) /\ Linked(q) /\ Distinct(q) /\ LinkFacts /\ d = 0
      /\ QueueTypeOK /\ InOrder /\ SentOnce /\ Unlinked /\ PastDummy
  BY <1>1, RowIsDistinct DEF QueueInv, Row, LinkFacts, ReturnDummy
<1>3. /\ Exchange(Reader, Dummy) /\ UNCHANGED <<tail, sent, out>>
      /\ dequeue = "swap" /\ dequeue' = "link"
      /\ Dummy \in Nodes /\ Reader \in Threads
  BY ReaderAssumption DEF ReturnDummy, Nodes
<1>4. \A k \in 1 .. Len(q) : q[k] # Dummy
  BY <1>2, RowFacts
<1> DEFINE r == Append(q, Dummy)
           e == Len(q) + 1
<1>5. Distinct(r) /\ Linked(r)' /\ OneLinker'
  BY <1>2, <1>3, <1>4, ExchangeKeepsLinks
<1>6. QueueTypeOK'
  BY <1>2, <1>3 DEF QueueTypeOK, Exchange
<1>7. InOrder' /\ SentOnce' /\ PastDummy'
  BY <1>2, <1>3 DEF InOrder, SentOnce, PastDummy
<1>8. Unlinked'
  BY <1>2, <1>3, NodeAssumption DEF Unlinked, Sent, Exchange, QueueTypeOK, Nodes
<1>9. Waits(r, e)'
  <2>1. /\ Len(q) \in Nat /\ Len(q) >= 1 /\ r \in Seq(Nodes) /\ Len(r) = Len(q) + 1
        /\ \A k \in 1 .. Len(q) : r[k] = q[k]
        /\ r[e] = Dummy
        /\ Len(sent) = Len(out) + Len(q) /\ Len(out) \in Nat
    BY <1>2, <1>3 DEF Waits, QueueTypeOK
  <2>2. ASSUME NEW k \in 1 .. Len(r)
        PROVE  r[k] = IF k = e THEN Dummy ELSE sent[Len(out) + k - Skipped(e, k)]
    <3>1. CASE k = e
      BY <3>1, <2>1
    <3>2. CASE k # e
      <4>1. k \in 1 .. Len(q) /\ Skipped(e, k) = 0 /\ Skipped(0, k) = 0 /\ k # 0
        BY <3>2, <2>1 DEF Skipped
      <4>2. q[k] = sent[Len(out) + k - Skipped(0, k)]
        BY <4>1, <1>2 DEF Waits
      <4> QED BY <4>1, <4>2, <3>2, <2>1
    <3> QED BY <3>1, <3>2
  <2>3. /\ Len(r) >= 1 /\ e \in 0 .. Len(r)
        /\ Len(sent) = Len(out) + Len(r) - (IF e = 0 THEN 0 ELSE 1)
    BY <2>1
  <2> QED BY <2>1, <2>2, <2>3, <1>3 DEF Waits
<1>10. Row(r, e)' /\ e \in Nat /\ r \in Seq(Nodes)
  BY <1>3, <1>5, <1>9 DEF Row, Distinct
<1> QED BY <1>5, <1>6, <1>7, <1>8, <1>10 DEF QueueInv

(* ---- The queue ----------------------------------------------------------- *)

LEMMA QueueStep ==
    ASSUME QueueInv, [QueueNext]_queueVars
    PROVE  QueueInv'
<1>1. CASE UNCHANGED queueVars
  <2>1. QueueTypeOK' /\ InOrder' /\ SentOnce' /\ Unlinked' /\ PastDummy' /\ OneLinker'
    BY <1>1 DEF queueVars, QueueInv, QueueTypeOK, InOrder, SentOnce, Unlinked, Sent, PastDummy,
                OneLinker
  <2>2. PICK q \in Seq(Nodes), d \in Nat : Row(q, d)
    BY DEF QueueInv
  <2>3. Row(q, d)'
    BY <1>1, <2>2 DEF queueVars, Row, Waits, Linked
  <2> QED BY <2>1, <2>3 DEF QueueInv
<1>2. ASSUME NEW t \in Threads, EnqueueSecond(t) PROVE QueueInv'
  BY <1>2, LinkKeeps DEF EnqueueSecond
<1>3. ASSUME NEW t \in Threads, NEW x \in Packets,
             x \notin {sent[k] : k \in DOMAIN sent}, EnqueueFirst(t, x)
      PROVE  QueueInv'
  BY <1>3, EnqueueFirstKeeps DEF Sent
<1>4. CASE Dequeue
  <2>1. CASE LinkDummy
    BY <2>1, LinkKeeps, ReaderAssumption DEF LinkDummy
  <2> QED BY <1>4, <2>1, LookKeeps, AdvanceKeeps, ReturnDummyKeeps DEF Dequeue
<1>5. CASE Leave
  BY <1>5, LookKeeps
<1> QED BY <1>1, <1>2, <1>3, <1>4, <1>5 DEF QueueNext

LEMMA QueueStart ==
    ASSUME QueueInit
    PROVE  QueueInv
<1> DEFINE q == <<Dummy>>
<1>1. /\ q \in Seq(Nodes) /\ Len(q) = 1 /\ q[1] = Dummy /\ Null \notin Nodes
      /\ sent = <<>> /\ out = <<>> /\ Len(sent) = 0 /\ Len(out) = 0
      /\ head = Dummy /\ tail = Dummy /\ dequeue = "begin" /\ Dummy \in Nodes
      /\ \A n \in Nodes : next[n] = Null
      /\ \A t \in Threads : linking[t] = NoLink
  BY NodeAssumption DEF QueueInit, Nodes
<1>2. QueueTypeOK
  BY <1>1 DEF QueueInit, QueueTypeOK
<1>3. InOrder /\ SentOnce /\ Unlinked /\ PastDummy /\ OneLinker
  BY <1>1 DEF InOrder, SentOnce, Unlinked, PastDummy, OneLinker, Nodes
<1>4. Waits(q, 1)
  BY <1>1 DEF Waits
<1>5. Linked(q)
  BY <1>1 DEF Linked
<1>6. Row(q, 1)
  BY <1>1, <1>4, <1>5 DEF Row
<1> QED BY <1>1, <1>2, <1>3, <1>6 DEF QueueInv

\* What the invariant says of deleted nodes.
LEMMA InvIsSafe ==
    ASSUME QueueInv
    PROVE  NodesSafe
<1>1. PICK q \in Seq(Nodes), d \in Nat : Row(q, d)
  BY DEF QueueInv
<1>2. /\ Waits(q, d) /\ Linked(q) /\ QueueTypeOK /\ InOrder /\ SentOnce /\ Unlinked
  BY <1>1 DEF QueueInv, Row
<1>3. /\ Len(q) \in Nat \ {0}
      /\ \A k \in 1 .. Len(q) : q[k] \notin Returned
      /\ \A k \in 1 .. Len(q) : k # d => q[k] \in Sent
  BY <1>2, RowFacts
<1>4. Returned \subseteq Packets /\ Null \notin Returned
  BY <1>2, NodeAssumption DEF Returned, QueueTypeOK
<1>5. ASSUME NEW t \in Threads PROVE linking[t].prev \notin Returned
  <2>1. CASE linking[t] = NoLink
    BY <2>1, <1>4 DEF NoLink
  <2>2. CASE linking[t] # NoLink
    <3>1. PICK k \in 1 .. Len(q) - 1 : linking[t].prev = q[k]
      BY <2>2, <1>2 DEF Linked
    <3> QED BY <3>1, <1>3
  <2> QED BY <2>1, <2>2
<1>6. tail \notin Returned /\ head \notin Returned
  BY <1>2, <1>3 DEF Linked
<1>7. ASSUME NEW k \in 1 .. Len(q) PROVE next[q[k]] \notin Returned
  <2>1. CASE k = Len(q)
    BY <2>1, <1>2, <1>4 DEF Linked
  <2>2. CASE k # Len(q)
    <3>1. k \in 1 .. Len(q) - 1 /\ k + 1 \in 1 .. Len(q)
      BY <2>2, <1>3
    <3> QED BY <3>1, <1>2, <1>3, <1>4 DEF Linked
  <2> QED BY <2>1, <2>2
<1>8. ASSUME NEW n \in (Packets \ Returned) \cup {tail} PROVE next[n] \notin Returned
  <2>1. CASE \E k \in 1 .. Len(q) : n = q[k]
    BY <2>1, <1>7
  <2>2. CASE ~\E k \in 1 .. Len(q) : n = q[k]
    <3>1. n # tail /\ n \in Packets /\ n \notin Returned
      BY <2>2, <1>2, <1>3 DEF Linked
    <3>2. n \notin Sent
      BY <2>2, <3>1, <1>2, SentIsKept
    <3> QED BY <3>1, <3>2, <1>2, <1>4 DEF Unlinked
  <2> QED BY <2>1, <2>2
<1> QED BY <1>5, <1>6, <1>8 DEF NodesSafe

\* A link is missing only where a thread is about to set it, so that what was sent
\* comes into the reader's reach again: the two halves of Enqueue.
LinkIsDue ==
    \A n \in Sent \ Returned :
        n # head /\ next[n] = Null => \E t \in Threads : linking[t].prev = n

LEMMA InvIsDue ==
    ASSUME QueueInv
    PROVE  LinkIsDue
<1>1. PICK q \in Seq(Nodes), d \in Nat : Row(q, d)
  BY DEF QueueInv
<1>2. Waits(q, d) /\ Linked(q) /\ QueueTypeOK /\ InOrder /\ SentOnce
  BY <1>1 DEF QueueInv, Row
<1> SUFFICES ASSUME NEW n \in Sent \ Returned, n # head, next[n] = Null
             PROVE  \E t \in Threads : linking[t].prev = n
  BY DEF LinkIsDue
<1>3. PICK k \in 1 .. Len(q) : n = q[k]
  BY <1>2, SentIsKept
<1>4. k \in 1 .. Len(q) - 1 /\ k + 1 \in 1 .. Len(q)
  BY <1>2, <1>3 DEF Linked, Waits
<1>5. q[k + 1] # Null
  BY <1>2, <1>4, RowFacts
<1> QED BY <1>2, <1>3, <1>4, <1>5 DEF Linked

(* ---- Theorems ------------------------------------------------------------ *)

\* The row of nodes exists in every state.
THEOREM QueueInvariant == QueueSpec => []QueueInv
<1>1. QueueInit => QueueInv
  BY QueueStart
<1>2. QueueInv /\ [QueueNext]_queueVars => QueueInv'
  BY QueueStep
<1> QED BY <1>1, <1>2, PTL DEF QueueSpec

\* The types of the queue.
THEOREM QueueTypeCorrect == QueueSpec => []QueueTypeOK
<1>1. QueueInv => QueueTypeOK
  BY DEF QueueInv
<1> QED BY <1>1, QueueInvariant, PTL

\* Dequeue may delete what it returns: no thread and no link leads to it.
THEOREM DeletedIsUnseen == QueueSpec => []NodesSafe
<1>1. QueueInv => NodesSafe
  BY InvIsSafe
<1> QED BY <1>1, QueueInvariant, PTL

\* Packets are returned in the order of the exchanges, none twice or left out.
THEOREM QueueIsFifo == QueueSpec => []InOrder
<1>1. QueueInv => InOrder
  BY DEF QueueInv
<1> QED BY <1>1, QueueInvariant, PTL

\* Nothing is cut off for good: a missing link is one a thread has still to set.
THEOREM NothingCutOff == QueueSpec => []LinkIsDue
<1>1. QueueInv => LinkIsDue
  BY InvIsDue
<1> QED BY <1>1, QueueInvariant, PTL
=============================================================================
