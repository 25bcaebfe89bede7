--------------------------- MODULE MCWorldSessions ---------------------------
(* Instances of WorldSessions: an account with two characters that connects   *)
(* up to twice, and other accounts that connect once.                         *)
EXTENDS WorldSessions

CONSTANTS first, again, other, gm, main, alt

MCAccount == [s \in Sessions |-> IF s \in {first, again} THEN 1 ELSE IF s = other THEN 2 ELSE 3]
MCOwner == [c \in Chars |-> 1]
=============================================================================
