--------------------------- MODULE MCDatabasePool ---------------------------
(* Instances of DatabasePool: a two-query transaction with an awaited result,  *)
(* a two-query fire-and-forget transaction, a single statement and an empty    *)
(* transaction.                                                                *)
EXTENDS DatabasePool

CONSTANTS asked, fired, plain, void

MCKind == [o \in Ops |-> IF o = plain THEN "statement"
                         ELSE IF o = fired THEN "task" ELSE "resultTask"]
MCSize == [o \in Ops |-> IF o = plain THEN 1 ELSE IF o = void THEN 0 ELSE 2]
=============================================================================
