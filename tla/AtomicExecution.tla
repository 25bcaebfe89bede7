--------------------------- MODULE AtomicExecution ---------------------------
(***************************************************************************)
(* What the core expects of a DatabaseWorkerPool: an operation handed over  *)
(* is applied to the database as a whole or not at all, at most once, and   *)
(* the answer tells which (a caller of AsyncCommitTransaction acts on it).  *)
(* Operations may be discarded unexecuted when the pool is closed.          *)
(***************************************************************************)
EXTENDS Naturals, Sequences

CONSTANT Ops

VARIABLES
    table,   \* the operations the database holds, in the order applied
    status   \* per operation, what its owner can learn

Applied == {table[k] : k \in DOMAIN table}

Init == table = <<>> /\ status = [o \in Ops |-> "unborn"]

Submit(o) ==
    /\ status[o] = "unborn"
    /\ status' = [status EXCEPT ![o] = "pushed"]
    /\ UNCHANGED table

Apply(o) ==
    /\ status[o] = "pushed" /\ o \notin Applied
    /\ table' = Append(table, o)
    /\ UNCHANGED status

Report(o) ==
    /\ status[o] = "pushed"
    /\ status' = [status EXCEPT ![o] = IF o \in Applied THEN "done" ELSE "failed"]
    /\ UNCHANGED table

Discard(gone, how) ==
    /\ \A o \in gone : status[o] = "pushed" /\ o \notin Applied
    /\ status' = [o \in Ops |-> IF o \in gone THEN how ELSE status[o]]
    /\ UNCHANGED table

Next ==
    \/ \E o \in Ops : Submit(o) \/ Apply(o) \/ Report(o)
    \/ \E gone \in SUBSET Ops, how \in {"dropped", "leaked"} : Discard(gone, how)

Spec == Init /\ [][Next]_<<table, status>>
=============================================================================
