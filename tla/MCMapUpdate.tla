----------------------------- MODULE MCMapUpdate -----------------------------
(* Instances of MapUpdate: model values for its constants.                    *)
EXTENDS MapUpdate

CONSTANTS w1, w2, w3, eastern, arena, report
=============================================================================
