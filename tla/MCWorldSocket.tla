--------------------------- MODULE MCWorldSocket ---------------------------
(* An instance of WorldSocket: the world thread answers with two packets, one *)
(* of them large, and a thread that updates maps sends two.                   *)
EXTENDS WorldSocket

CONSTANTS network, world, map, challenge, refusal, hello, update, spell

MCScript == [t \in Others |-> IF t = World THEN <<hello, update>> ELSE <<spell>>]
=============================================================================
