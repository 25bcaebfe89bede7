---------------------------- MODULE AuctionLedger ----------------------------
(***************************************************************************)
(* What players expect of an auction house: an item is with one player or   *)
(* in one auction; a bid is paid by the bidder and goes back to him when he *)
(* is outbid or the auction is withdrawn; a sale pays the bid and the       *)
(* deposit, less the cut.  Something may be lost in a mishap (a session     *)
(* that ended, a transaction that failed); only who left after a failure    *)
(* may find some of it again.                                               *)
(***************************************************************************)
EXTENDS Integers, Functions

CONSTANTS Players, Nobody, Lots, Deposit, CutPct

VARIABLES
    purse,    \* per player: his gold, what is in the mail and what he is owed
    lot,      \* per item: who has it, or its auction
    left,     \* sessions that ended before their callbacks ran
    failed,   \* transactions that failed
    kept      \* whether the ledger still holds

Cut(bid) == (bid * CutPct) \div 100

Owned(p) == [owner |-> p, listed |-> FALSE, bidder |-> Nobody, bid |-> 0]
Listed(p, bidder, bid) ==
    [owner |-> p, listed |-> TRUE, bidder |-> bidder, bid |-> bid]
Missing == Owned(Nobody)

\* What the seller of an auction that ends gets, and who gets the item.
Proceeds(a) == IF a.bidder = Nobody THEN 0 ELSE a.bid + Deposit - Cut(a.bid)
Winner(a) == IF a.bidder = Nobody THEN a.owner ELSE a.bidder

Init ==
    /\ purse \in [Players -> Nat] /\ left = 0 /\ failed = 0 /\ kept = TRUE
    /\ \A l \in Lots : \E p \in Players :
         \/ lot[l] = Owned(p)
         \/ \E q \in Players \cup {Nobody} : lot[l] = Listed(p, q, lot[l].bid)

List(l, p) ==
    /\ lot[l] = Owned(p) /\ purse[p] >= Deposit
    /\ lot' = [lot EXCEPT ![l] = Listed(p, Nobody, 0)]
    /\ purse' = [purse EXCEPT ![p] = @ - Deposit]
    /\ UNCHANGED <<left, failed>>

\* A higher bid gives the last bidder his gold back.
Outbid(l, p, bid) ==
    LET a == lot[l]
    IN  [q \in Players |-> (purse[q] + (IF q = a.bidder THEN a.bid ELSE 0))
                             - (IF q = p THEN bid ELSE 0)]

MayBid(l, p, bid) ==
    /\ lot[l].listed /\ lot[l].owner # p /\ bid > lot[l].bid
    /\ Outbid(l, p, bid)[p] >= 0

Raise(l, p, bid) ==
    /\ lot' = [lot EXCEPT ![l].bidder = p, ![l].bid = bid]
    /\ MayBid(l, p, bid)
    /\ purse' = Outbid(l, p, bid)
    /\ UNCHANGED <<left, failed>>

BuyOut(l, p, price) ==
    /\ lot' = [lot EXCEPT ![l] = Owned(p)]
    /\ MayBid(l, p, price)
    /\ LET o == lot[l].owner
       IN  purse' = [Outbid(l, p, price) EXCEPT ![o] = @ + price + Deposit - Cut(price)]
    /\ UNCHANGED <<left, failed>>

\* The owner withdraws the auction and pays the cut for the bid he refuses.
Withdraw(l) ==
    LET a == lot[l]
    IN  /\ a.listed
        /\ lot' = [lot EXCEPT ![l] = Owned(a.owner)]
        /\ purse' = [q \in Players |->
                       (purse[q] + (IF q = a.bidder THEN a.bid ELSE 0))
                         - (IF q = a.owner /\ a.bidder # Nobody THEN Cut(a.bid) ELSE 0)]
        /\ UNCHANGED <<left, failed>>

Close(ended) ==
    /\ \A l \in ended : lot[l].listed
    /\ lot' = [l \in Lots |-> IF l \in ended THEN Owned(Winner(lot[l])) ELSE lot[l]]
    /\ purse' = [q \in Players |-> purse[q] +
         SumFunction([l \in ended |-> IF lot[l].owner = q THEN Proceeds(lot[l]) ELSE 0])]
    /\ UNCHANGED <<left, failed>>

\* Nobody gains, and an item is where it was or with nobody.
Mishap ==
    /\ left' + failed' > left + failed
    /\ \A q \in Players : purse'[q] <= purse[q]
    /\ \A l \in Lots : lot'[l] \in {lot[l], Missing}

\* After a failure, a player who left finds items that were missing and gold
\* that he had paid for nothing, or for a bid that still stands.
Recover ==
    /\ left > 0 /\ failed > 0
    /\ \E found \in SUBSET Lots, p \in Players :
         /\ \A l \in found : lot[l] = Missing
         /\ lot' = [l \in Lots |-> IF l \in found THEN Owned(p) ELSE lot[l]]
         /\ purse'[p] >= purse[p]
         /\ purse' = [purse EXCEPT ![p] = purse'[p]]
    /\ UNCHANGED <<left, failed>>

\* What happens to one item; expiry may end several auctions at once.
Trade(l) ==
    \/ \E p \in Players : List(l, p) \/ Raise(l, p, lot'[l].bid)
    \/ \E p \in Players : \E price \in 1 .. purse[p] + lot[l].bid : BuyOut(l, p, price)
    \/ Withdraw(l)

Entry ==
    \/ \E l \in Lots : lot'[l] # lot[l] /\ Trade(l)
    \/ \E ended \in (SUBSET Lots) \ {{}} : Close(ended)
    \/ Mishap \/ Recover

\* A ledger that is no longer kept promises nothing.
Next == kept' => kept /\ Entry

Spec == Init /\ [][Next]_<<purse, lot, left, failed, kept>>
=============================================================================
