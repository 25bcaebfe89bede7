---------------------------- MODULE PacketStream ----------------------------
(***************************************************************************)
(* What the server expects of a connection: packets go to the client whole, *)
(* once and in the order in which they were sent, until the connection is   *)
(* cut.  A connection told to end after what it has to send (the delayed    *)
(* close) ends when that has been written, unless it is cut before.         *)
(***************************************************************************)
EXTENDS Naturals, Sequences

CONSTANT Packets

VARIABLES
    sent,      \* packets handed over, in order
    received,  \* packets on their way to the client
    phase,     \* "open", "flushing", "ended" or "cut"
    due        \* how many packets a flush owes

\* The server speaks first.
Init == sent \in {<<x>> : x \in Packets} /\ received = <<>> /\ phase = "open" /\ due = 0

Live == phase \in {"open", "flushing"}

Send(x) ==
    /\ \A k \in DOMAIN sent : sent[k] # x
    /\ sent' = Append(sent, x)
    /\ UNCHANGED <<received, phase, due>>

Receive(n) ==
    /\ Live
    /\ received' = SubSeq(sent, 1, n)
    /\ UNCHANGED <<sent, phase, due>>

Flush ==
    /\ phase = "open"
    /\ phase' = "flushing" /\ due' = Len(sent)
    /\ UNCHANGED <<sent, received>>

End ==
    /\ phase = "flushing" /\ Len(received) >= due
    /\ phase' = "ended"
    /\ UNCHANGED <<sent, received, due>>

Cut == Live /\ phase' = "cut" /\ UNCHANGED <<sent, received, due>>

Next ==
    \/ \E x \in Packets : Send(x)
    \/ \E n \in Len(received) + 1 .. Len(sent) : Receive(n)
    \/ Flush \/ End \/ Cut

Spec == Init /\ [][Next]_<<sent, received, phase, due>>
=============================================================================
