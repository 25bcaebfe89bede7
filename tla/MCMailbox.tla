----------------------------- MODULE MCMailbox -----------------------------
(* Instances of Mailbox.                                                      *)
EXTENDS Mailbox, TLC

\* After such a scan nothing is claimed; raced stays TRUE.
Undisturbed == ~raced

Symmetry == Permutations(Players)
=============================================================================
