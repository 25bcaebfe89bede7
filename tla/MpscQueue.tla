----------------------------- MODULE MpscQueue -----------------------------
(***************************************************************************)
(* MPSCQueueIntrusive (common/Threading/MPSCQueue.hpp), the queue of the    *)
(* packets a socket has to send: any thread enqueues, one dequeues, nobody  *)
(* locks.  A step is one access to a link or to _head that another thread   *)
(* may see; _tail belongs to the reader, and so its accesses are part of    *)
(* the step before.  Stores release and loads acquire what they publish.    *)
(***************************************************************************)
EXTENDS Sequences

CONSTANTS
    Threads,
    Reader,    \* the one that calls Dequeue
    Packets,   \* each is enqueued once, in a node of its own
    Dummy, Null

ASSUME ReaderAssumption == Reader \in Threads
ASSUME NodeAssumption == Dummy \notin Packets /\ Null \notin Packets \cup {Dummy}

Nodes == Packets \cup {Dummy}

VARIABLES
    head, tail,  \* _head, _tail
    next,        \* the links
    linking,     \* per thread: prevHead and input between the two halves of Enqueue
    dequeue,     \* where Dequeue is; "got" and "empty" are its results
    sent,        \* history: packets in the order of the exchange
    out          \* history: packets in the order Dequeue returned them

queueVars == <<head, tail, next, linking, dequeue, sent, out>>

NoLink == [prev |-> Null, node |-> Null]

QueueInit ==
    /\ head = Dummy /\ tail = Dummy
    /\ next = [n \in Nodes |-> Null]
    /\ linking = [t \in Threads |-> NoLink]
    /\ dequeue = "begin"
    /\ sent = <<>> /\ out = <<>>

----------------------------------------------------------------------------
(* Enqueue.                                                                 *)

\* The reset of the link is seen by nobody before the exchange.
Exchange(t, n) ==
    /\ linking[t] = NoLink
    /\ next' = [next EXCEPT ![n] = Null]
    /\ linking' = [linking EXCEPT ![t] = [prev |-> head, node |-> n]]
    /\ head' = n

Link(t) ==
    /\ linking[t] # NoLink
    /\ next' = [next EXCEPT ![linking[t].prev] = linking[t].node]
    /\ linking' = [linking EXCEPT ![t] = NoLink]
    /\ UNCHANGED head

EnqueueFirst(t, x) ==
    /\ Exchange(t, x)
    /\ sent' = Append(sent, x)
    /\ UNCHANGED <<tail, dequeue, out>>

EnqueueSecond(t) == Link(t) /\ UNCHANGED <<tail, dequeue, sent, out>>

----------------------------------------------------------------------------
(* Dequeue: "begin" and "second" load the link of _tail, before and after   *)
(* the dummy is passed; "head" loads _head; "swap" and "link" enqueue the   *)
(* dummy; "last" loads the link again.                                      *)

FindEmpty ==
    /\ dequeue = "begin" /\ tail = Dummy /\ next[Dummy] = Null
    /\ dequeue' = "empty"
    /\ UNCHANGED <<head, tail, next, linking, sent, out>>

PassDummy ==
    /\ dequeue = "begin" /\ tail = Dummy /\ next[Dummy] # Null
    /\ tail' = next[Dummy]
    /\ dequeue' = "second"
    /\ UNCHANGED <<head, next, linking, sent, out>>

LoadsLink == dequeue \in {"second", "last"} \/ (dequeue = "begin" /\ tail # Dummy)

\* Fault: the link is not looked at before it becomes the tail.
TakeTailBlind ==
    /\ LoadsLink
    /\ tail' = next[tail]
    /\ out' = Append(out, tail)
    /\ dequeue' = "got"
    /\ UNCHANGED <<head, next, linking, sent>>

TakeTail ==
    /\ LoadsLink /\ next[tail] # Null
    /\ tail' = next[tail]
    /\ out' = Append(out, tail)
    /\ dequeue' = "got"
    /\ UNCHANGED <<head, next, linking, sent>>

\* Fault: _head is not compared, and a node whose link is due is cut off.
TailIsCut ==
    /\ LoadsLink /\ next[tail] = Null
    /\ dequeue' = "swap"
    /\ UNCHANGED <<head, tail, next, linking, sent, out>>

TailIsLast ==
    /\ LoadsLink /\ next[tail] = Null
    /\ dequeue' = IF dequeue = "last" THEN "empty" ELSE "head"
    /\ UNCHANGED <<head, tail, next, linking, sent, out>>

CompareHead ==
    /\ dequeue = "head"
    /\ dequeue' = IF tail = head THEN "swap" ELSE "empty"
    /\ UNCHANGED <<head, tail, next, linking, sent, out>>

ReturnDummy ==
    /\ dequeue = "swap"
    /\ Exchange(Reader, Dummy)
    /\ dequeue' = "link"
    /\ UNCHANGED <<tail, sent, out>>

LinkDummy ==
    /\ dequeue = "link"
    /\ Link(Reader)
    /\ dequeue' = "last"
    /\ UNCHANGED <<tail, sent, out>>

Dequeue ==
    \/ FindEmpty \/ PassDummy \/ TakeTail \/ TailIsLast \/ CompareHead
    \/ ReturnDummy \/ LinkDummy

\* The caller has used the result.
Leave == dequeue \in {"got", "empty"} /\ dequeue' = "begin"
         /\ UNCHANGED <<head, tail, next, linking, sent, out>>

QueueNext ==
    \/ \E t \in Threads :
         \/ EnqueueSecond(t) /\ (t = Reader => dequeue # "link")
         \/ \E x \in Packets : x \notin {sent[k] : k \in DOMAIN sent} /\ EnqueueFirst(t, x)
                               /\ (t = Reader => dequeue = "begin")
    \/ Dequeue \/ Leave

QueueSpec == QueueInit /\ [][QueueNext]_queueVars

----------------------------------------------------------------------------

QueueTypeOK ==
    /\ head \in Nodes /\ tail \in Nodes
    /\ next \in [Nodes -> Nodes \cup {Null}]
    /\ linking \in [Threads -> {NoLink} \cup [prev : Nodes, node : Nodes]]
    /\ dequeue \in {"begin", "second", "head", "swap", "link", "last", "got", "empty"}
    /\ sent \in Seq(Packets) /\ out \in Seq(Packets)

\* A node is deleted as soon as it was returned: no thread has still to write its
\* link, nor does the queue lead to it, so each packet is returned once.
Returned == {out[k] : k \in DOMAIN out}

NodesSafe ==
    /\ \A t \in Threads : linking[t].prev \notin Returned
    /\ tail \notin Returned /\ head \notin Returned
    /\ \A n \in (Packets \ Returned) \cup {tail} : next[n] \notin Returned
=============================================================================
