--------------------------- MODULE MCAuctionHouse ---------------------------
(* Instances of AuctionHouse: a sword that can be bought out and a shield that *)
(* cannot.                                                                     *)
EXTENDS AuctionHouse, TLC

CONSTANTS sword, shield

MCStartBid == [l \in Lots |-> 1]
MCBuyout == [l \in Lots |-> IF l = sword THEN 3 ELSE 0]
Symmetry == Permutations(Players)
=============================================================================
