------------------------- MODULE AuctionHouseProofs -------------------------
(***************************************************************************)
(* Proofs about AuctionHouse, for any players, lots, prices and bounds.     *)
(* What memory and database have in common is said with a trace: a sequence *)
(* of states that starts with the database and takes one step for every     *)
(* transaction in the queue.                                                *)
(***************************************************************************)
EXTENDS AuctionHouse, FoldTheorems

Partial(S, T) == UNION {[D -> T] : D \in SUBSET S}

Transaction ==
    [purse : Partial(Players, Nat), bag : Partial(Lots, Players \cup {Nobody}),
     parcel : Partial(Lots, Players \cup {Nobody}), row : Partial(Lots, Row),
     mail : [Players -> Int], asks : Futures \cup {NoFuture}]

\* What a callback pays: mails with gold or with an item, nothing else.
Payment ==
    [purse : {Empty}, bag : {Empty}, parcel : Partial(Lots, Players), row : {Empty},
     mail : [Players -> Nat], asks : {NoFuture}]

\* What a callback registers: an auction without a bid.
Offer == {r \in Row : r.owner # Nobody /\ r.bidder = Nobody /\ r.bid = 0}

Callback == [session : Players, answer : {"none", "true", "false"},
             register : Partial(Lots, Offer), pays : Payment]

----------------------------------------------------------------------------
(* Partial functions and transactions.                                      *)

LEMMA PartialFacts ==
    ASSUME NEW S, NEW T
    PROVE  /\ \A f \in Partial(S, T) : DOMAIN f \subseteq S /\ \A x \in DOMAIN f : f[x] \in T
           /\ Empty \in Partial(S, T) /\ DOMAIN Empty = {}
           /\ \A x \in S : \A v \in T : Only(x, v) \in Partial(S, T)
           /\ \A x, v : DOMAIN Only(x, v) = {x} /\ Only(x, v)[x] = v
           /\ \A D \in SUBSET S : [D -> T] \subseteq Partial(S, T)
<1>1. \A f \in Partial(S, T) : DOMAIN f \subseteq S /\ \A x \in DOMAIN f : f[x] \in T
  BY DEF Partial
<1>2. Empty \in Partial(S, T) /\ DOMAIN Empty = {}
  <2>1. Empty \in [{} -> T] /\ {} \in SUBSET S
    BY DEF Empty
  <2> QED BY <2>1 DEF Partial, Empty
<1>3. \A x, v : DOMAIN Only(x, v) = {x} /\ Only(x, v)[x] = v
  BY DEF Only
<1>4. \A D \in SUBSET S : [D -> T] \subseteq Partial(S, T)
  BY DEF Partial
<1>5. ASSUME NEW x \in S, NEW v \in T PROVE Only(x, v) \in Partial(S, T)
  <2>1. Only(x, v) \in [{x} -> T] /\ {x} \in SUBSET S
    BY DEF Only
  <2> QED BY <1>4, <2>1
<1> QED BY <1>1, <1>2, <1>3, <1>4, <1>5

LEMMA OnlyFacts ==
    DOMAIN Empty = {} /\ \A x, v : DOMAIN Only(x, v) = {x} /\ Only(x, v)[x] = v
  BY DEF Empty, Only

\* What Apply does, field by field.
LEMMA ApplyFacts ==
    ASSUME NEW w \in World, NEW t \in Transaction
    PROVE  /\ Apply(w, t).purse \in [Players -> Nat]
           /\ Apply(w, t).bag \in [Lots -> Players \cup {Nobody}]
           /\ Apply(w, t).parcel \in [Lots -> Players \cup {Nobody}]
           /\ Apply(w, t).row \in [Lots -> Row]
           /\ Apply(w, t).post \in [Players -> Nat]
           /\ \A p \in Players :
                /\ Apply(w, t).purse[p] = IF p \in DOMAIN t.purse THEN t.purse[p] ELSE w.purse[p]
                /\ w.post[p] + t.mail[p] >= 0 => Apply(w, t).post[p] = w.post[p] + t.mail[p]
           /\ \A l \in Lots :
                /\ Apply(w, t).bag[l] = IF l \in DOMAIN t.bag THEN t.bag[l] ELSE w.bag[l]
                /\ Apply(w, t).parcel[l]
                     = IF l \in DOMAIN t.parcel THEN t.parcel[l] ELSE w.parcel[l]
                /\ Apply(w, t).row[l] = IF l \in DOMAIN t.row THEN t.row[l] ELSE w.row[l]
<1>1. /\ w.purse \in [Players -> Nat] /\ w.post \in [Players -> Nat]
      /\ w.bag \in [Lots -> Players \cup {Nobody}]
      /\ w.parcel \in [Lots -> Players \cup {Nobody}] /\ w.row \in [Lots -> Row]
  BY DEF World
<1>2. /\ t.purse \in Partial(Players, Nat) /\ t.mail \in [Players -> Int]
      /\ t.bag \in Partial(Lots, Players \cup {Nobody})
      /\ t.parcel \in Partial(Lots, Players \cup {Nobody}) /\ t.row \in Partial(Lots, Row)
  BY DEF Transaction
<1>3. \A S, T, old : \A writes \in Partial(S, T) : old \in [S -> T] =>
        /\ Set(old, writes) \in [S -> T]
        /\ \A x \in S : Set(old, writes)[x] = IF x \in DOMAIN writes THEN writes[x] ELSE old[x]
  <2> SUFFICES ASSUME NEW S, NEW T, NEW old \in [S -> T], NEW writes \in Partial(S, T)
               PROVE  /\ Set(old, writes) \in [S -> T]
                      /\ \A x \in S : Set(old, writes)[x]
                                        = IF x \in DOMAIN writes THEN writes[x] ELSE old[x]
    OBVIOUS
  <2>1. \A x \in DOMAIN writes : writes[x] \in T
    BY PartialFacts
  <2> QED BY <2>1 DEF Set
<1>4. /\ Apply(w, t).purse = Set(w.purse, t.purse) /\ Apply(w, t).bag = Set(w.bag, t.bag)
      /\ Apply(w, t).parcel = Set(w.parcel, t.parcel) /\ Apply(w, t).row = Set(w.row, t.row)
      /\ Apply(w, t).post = [p \in Players |-> IF w.post[p] + t.mail[p] < 0 THEN 0
                                              ELSE w.post[p] + t.mail[p]]
  BY DEF Apply
<1>5. /\ Set(w.purse, t.purse) \in [Players -> Nat]
      /\ \A p \in Players : Set(w.purse, t.purse)[p]
                              = IF p \in DOMAIN t.purse THEN t.purse[p] ELSE w.purse[p]
  BY <1>1, <1>2, <1>3
<1>6. /\ Set(w.bag, t.bag) \in [Lots -> Players \cup {Nobody}]
      /\ \A l \in Lots : Set(w.bag, t.bag)[l] = IF l \in DOMAIN t.bag THEN t.bag[l] ELSE w.bag[l]
  BY <1>1, <1>2, <1>3
<1>7. /\ Set(w.parcel, t.parcel) \in [Lots -> Players \cup {Nobody}]
      /\ \A l \in Lots : Set(w.parcel, t.parcel)[l]
                           = IF l \in DOMAIN t.parcel THEN t.parcel[l] ELSE w.parcel[l]
  BY <1>1, <1>2, <1>3
<1>8. /\ Set(w.row, t.row) \in [Lots -> Row]
      /\ \A l \in Lots : Set(w.row, t.row)[l] = IF l \in DOMAIN t.row THEN t.row[l] ELSE w.row[l]
  BY <1>1, <1>2, <1>3
<1>9. /\ Apply(w, t).post \in [Players -> Nat]
      /\ \A p \in Players : w.post[p] + t.mail[p] >= 0
                             => Apply(w, t).post[p] = w.post[p] + t.mail[p]
  <2>1. \A p \in Players : w.post[p] \in Nat /\ t.mail[p] \in Int
    BY <1>1, <1>2
  <2>2. \A p \in Players : Apply(w, t).post[p] = IF w.post[p] + t.mail[p] < 0 THEN 0
                                                 ELSE w.post[p] + t.mail[p]
    BY <1>4
  <2> QED BY <1>4, <2>1, <2>2
<1> QED BY <1>4, <1>5, <1>6, <1>7, <1>8, <1>9

LEMMA IsWorld ==
    ASSUME NEW a \in [Players -> Nat], NEW b \in [Players -> Nat],
           NEW c \in [Lots -> Players \cup {Nobody}], NEW d \in [Lots -> Players \cup {Nobody}],
           NEW e \in [Lots -> Row]
    PROVE  [purse |-> a, bag |-> c, parcel |-> d, row |-> e, post |-> b] \in World
  BY DEF World

LEMMA ApplyType ==
    ASSUME NEW w \in World, NEW t \in Transaction
    PROVE  Apply(w, t) \in World
<1> DEFINE v == Apply(w, t)
<1>1. /\ v.purse \in [Players -> Nat] /\ v.bag \in [Lots -> Players \cup {Nobody}]
      /\ v.parcel \in [Lots -> Players \cup {Nobody}] /\ v.row \in [Lots -> Row]
      /\ v.post \in [Players -> Nat]
  BY ApplyFacts
<1> DEFINE a == v.purse
           b == v.post
           c == v.bag
           d == v.parcel
           e == v.row
<1>2. v = [purse |-> a, bag |-> c, parcel |-> d, row |-> e, post |-> b]
  BY DEF Apply
<1>3. /\ a \in [Players -> Nat] /\ b \in [Players -> Nat] /\ e \in [Lots -> Row]
      /\ c \in [Lots -> Players \cup {Nobody}] /\ d \in [Lots -> Players \cup {Nobody}]
  BY <1>1
<1> HIDE DEF v, a, b, c, d, e
<1>4. v \in World
  BY <1>2, <1>3, IsWorld
<1> QED BY <1>4 DEF v

----------------------------------------------------------------------------
(* The transactions of the actions.                                         *)

\* Every transaction is Nothing with some of its fields written.
Tx(purse, bag, parcel, row, mail, asks) ==
    [purse |-> purse, bag |-> bag, parcel |-> parcel, row |-> row, mail |-> mail, asks |-> asks]

NoGold == [p \in Players |-> 0]

Sale(p) == [owner |-> p, bidder |-> Nobody, bid |-> 0]

SellTx(p, l) == Tx(Only(p, mem.purse[p] - Deposit), Only(l, Nobody), Empty, Only(l, Sale(p)),
                   NoGold, NewFuture)

Buys(l, price) == Buyout[l] # 0 /\ price >= Buyout[l]
Paid(l, price) == IF Buys(l, price) THEN Buyout[l] ELSE price
Bid(p, l, price) == [mem.row[l] EXCEPT !.bidder = p, !.bid = Paid(l, price)]
BidTx(p, l, price) ==
    Tx(Only(p, mem.purse[p] - Cost(p, mem.row[l], Paid(l, price))), Empty, Empty,
       Only(l, IF Buys(l, price) THEN NoRow ELSE Bid(p, l, price)), NoGold, NewFuture)
BidRefund(p, l) == IF mem.row[l].bidder \in {p, Nobody} THEN NoGold ELSE Refund(mem.row[l])
BidPays(p, l, price) ==
    Tx(Empty, Empty, IF Buys(l, price) THEN Only(l, p) ELSE Empty, Empty,
       IF Buys(l, price) THEN Both(BidRefund(p, l), Profit(Bid(p, l, price))) ELSE BidRefund(p, l),
       NoFuture)

RemoveTx(p, l) ==
    LET a == mem.row[l]
    IN  Tx(IF a.bidder = Nobody THEN Empty ELSE Only(p, mem.purse[p] - Cut(a.bid)), Empty,
           Only(l, p), Only(l, NoRow), IF a.bidder = Nobody THEN NoGold ELSE Refund(a), NoFuture)

Gets(p, l) == IF mem.row[l].bidder # Nobody THEN Profit(mem.row[l])[p] ELSE 0
UpdateTx(ended) ==
    Tx(Empty, Empty,
       [l \in ended |-> IF mem.row[l].bidder # Nobody THEN mem.row[l].bidder ELSE mem.row[l].owner],
       [l \in ended |-> NoRow],
       [p \in Players |-> SumFunction([l \in ended |-> Gets(p, l)])], NoFuture)

MoneyTx(p) == Tx(Only(p, mem.purse[p] + mem.post[p]), Empty, Empty, Empty,
                 [NoGold EXCEPT ![p] = -mem.post[p]], NoFuture)

ItemTx(p, l) == Tx(Only(p, mem.purse[p]), Only(l, p), Only(l, Nobody), Empty, NoGold, NoFuture)

SaveTx(p) == Tx(Only(p, mem.purse[p]), Empty, Empty, Empty, NoGold, NoFuture)

WithoutRow(t) == [t EXCEPT !.row = Empty]

LEMMA TxFacts ==
    \A a, b, c, d, e, f :
        /\ Tx(a, b, c, d, e, f).purse = a /\ Tx(a, b, c, d, e, f).bag = b
        /\ Tx(a, b, c, d, e, f).parcel = c /\ Tx(a, b, c, d, e, f).row = d
        /\ Tx(a, b, c, d, e, f).mail = e /\ Tx(a, b, c, d, e, f).asks = f
  BY DEF Tx

LEMMA TxType ==
    ASSUME NEW a \in Partial(Players, Nat), NEW b \in Partial(Lots, Players \cup {Nobody}),
           NEW c \in Partial(Lots, Players \cup {Nobody}), NEW d \in Partial(Lots, Row),
           NEW e \in [Players -> Int], NEW f \in Futures \cup {NoFuture}
    PROVE  Tx(a, b, c, d, e, f) \in Transaction
  BY DEF Tx, Transaction

\* One field, then several.
LEMMA TxExcept ==
    \A a, b, c, d, e, f, x :
        /\ [Tx(a, b, c, d, e, f) EXCEPT !.purse = x] = Tx(x, b, c, d, e, f)
        /\ [Tx(a, b, c, d, e, f) EXCEPT !.bag = x] = Tx(a, x, c, d, e, f)
        /\ [Tx(a, b, c, d, e, f) EXCEPT !.parcel = x] = Tx(a, b, x, d, e, f)
        /\ [Tx(a, b, c, d, e, f) EXCEPT !.row = x] = Tx(a, b, c, x, e, f)
        /\ [Tx(a, b, c, d, e, f) EXCEPT !.mail = x] = Tx(a, b, c, d, x, f)
        /\ [Tx(a, b, c, d, e, f) EXCEPT !.asks = x] = Tx(a, b, c, d, e, x)
  BY DEF Tx

LEMMA NothingIsTx == Nothing = Tx(Empty, Empty, Empty, Empty, NoGold, NoFuture)
  BY DEF Nothing, Tx, NoGold

LEMMA SellExcept ==
    ASSUME NEW a, NEW b, NEW d, NEW f
    PROVE  [Nothing EXCEPT !.purse = a, !.bag = b, !.row = d, !.asks = f]
             = Tx(a, b, Empty, d, NoGold, f)
<1>1. [Nothing EXCEPT !.purse = a] = Tx(a, Empty, Empty, Empty, NoGold, NoFuture)
  BY NothingIsTx, TxExcept
<1>2. [Tx(a, Empty, Empty, Empty, NoGold, NoFuture) EXCEPT !.bag = b] = Tx(a, b, Empty, Empty, NoGold, NoFuture)
  BY NothingIsTx, TxExcept
<1>3. [Tx(a, b, Empty, Empty, NoGold, NoFuture) EXCEPT !.row = d] = Tx(a, b, Empty, d, NoGold, NoFuture)
  BY NothingIsTx, TxExcept
<1>4. [Tx(a, b, Empty, d, NoGold, NoFuture) EXCEPT !.asks = f] = Tx(a, b, Empty, d, NoGold, f)
  BY NothingIsTx, TxExcept
<1>5. [Nothing EXCEPT !.purse = a, !.bag = b, !.row = d, !.asks = f]
        = [[[[Nothing EXCEPT !.purse = a] EXCEPT !.bag = b] EXCEPT !.row = d] EXCEPT !.asks = f]
  OBVIOUS
<1> QED BY <1>1, <1>2, <1>3, <1>4, <1>5

LEMMA BidExcept ==
    ASSUME NEW a, NEW d, NEW f
    PROVE  [Nothing EXCEPT !.purse = a, !.row = d, !.asks = f]
             = Tx(a, Empty, Empty, d, NoGold, f)
<1>1. [Nothing EXCEPT !.purse = a] = Tx(a, Empty, Empty, Empty, NoGold, NoFuture)
  BY NothingIsTx, TxExcept
<1>2. [Tx(a, Empty, Empty, Empty, NoGold, NoFuture) EXCEPT !.row = d] = Tx(a, Empty, Empty, d, NoGold, NoFuture)
  BY NothingIsTx, TxExcept
<1>3. [Tx(a, Empty, Empty, d, NoGold, NoFuture) EXCEPT !.asks = f] = Tx(a, Empty, Empty, d, NoGold, f)
  BY NothingIsTx, TxExcept
<1>4. [Nothing EXCEPT !.purse = a, !.row = d, !.asks = f]
        = [[[Nothing EXCEPT !.purse = a] EXCEPT !.row = d] EXCEPT !.asks = f]
  OBVIOUS
<1> QED BY <1>1, <1>2, <1>3, <1>4

LEMMA PaysExcept ==
    ASSUME NEW e, NEW c
    PROVE  [Nothing EXCEPT !.mail = e, !.parcel = c]
             = Tx(Empty, Empty, c, Empty, e, NoFuture)
<1>1. [Nothing EXCEPT !.mail = e] = Tx(Empty, Empty, Empty, Empty, e, NoFuture)
  BY NothingIsTx, TxExcept
<1>2. [Tx(Empty, Empty, Empty, Empty, e, NoFuture) EXCEPT !.parcel = c] = Tx(Empty, Empty, c, Empty, e, NoFuture)
  BY NothingIsTx, TxExcept
<1>3. [Nothing EXCEPT !.mail = e, !.parcel = c]
        = [[Nothing EXCEPT !.mail = e] EXCEPT !.parcel = c]
  OBVIOUS
<1> QED BY <1>1, <1>2, <1>3

LEMMA RemoveExcept ==
    ASSUME NEW a, NEW e, NEW c, NEW d
    PROVE  [Nothing EXCEPT !.purse = a, !.mail = e, !.parcel = c, !.row = d]
             = Tx(a, Empty, c, d, e, NoFuture)
<1>1. [Nothing EXCEPT !.purse = a] = Tx(a, Empty, Empty, Empty, NoGold, NoFuture)
  BY NothingIsTx, TxExcept
<1>2. [Tx(a, Empty, Empty, Empty, NoGold, NoFuture) EXCEPT !.mail = e] = Tx(a, Empty, Empty, Empty, e, NoFuture)
  BY NothingIsTx, TxExcept
<1>3. [Tx(a, Empty, Empty, Empty, e, NoFuture) EXCEPT !.parcel = c] = Tx(a, Empty, c, Empty, e, NoFuture)
  BY NothingIsTx, TxExcept
<1>4. [Tx(a, Empty, c, Empty, e, NoFuture) EXCEPT !.row = d] = Tx(a, Empty, c, d, e, NoFuture)
  BY NothingIsTx, TxExcept
<1>5. [Nothing EXCEPT !.purse = a, !.mail = e, !.parcel = c, !.row = d]
        = [[[[Nothing EXCEPT !.purse = a] EXCEPT !.mail = e] EXCEPT !.parcel = c] EXCEPT !.row = d]
  OBVIOUS
<1> QED BY <1>1, <1>2, <1>3, <1>4, <1>5

LEMMA UpdateExcept ==
    ASSUME NEW e, NEW c, NEW d
    PROVE  [Nothing EXCEPT !.mail = e, !.parcel = c, !.row = d]
             = Tx(Empty, Empty, c, d, e, NoFuture)
<1>1. [Nothing EXCEPT !.mail = e] = Tx(Empty, Empty, Empty, Empty, e, NoFuture)
  BY NothingIsTx, TxExcept
<1>2. [Tx(Empty, Empty, Empty, Empty, e, NoFuture) EXCEPT !.parcel = c] = Tx(Empty, Empty, c, Empty, e, NoFuture)
  BY NothingIsTx, TxExcept
<1>3. [Tx(Empty, Empty, c, Empty, e, NoFuture) EXCEPT !.row = d] = Tx(Empty, Empty, c, d, e, NoFuture)
  BY NothingIsTx, TxExcept
<1>4. [Nothing EXCEPT !.mail = e, !.parcel = c, !.row = d]
        = [[[Nothing EXCEPT !.mail = e] EXCEPT !.parcel = c] EXCEPT !.row = d]
  OBVIOUS
<1> QED BY <1>1, <1>2, <1>3, <1>4

LEMMA MoneyExcept ==
    ASSUME NEW a, NEW e
    PROVE  [Nothing EXCEPT !.purse = a, !.mail = e]
             = Tx(a, Empty, Empty, Empty, e, NoFuture)
<1>1. [Nothing EXCEPT !.purse = a] = Tx(a, Empty, Empty, Empty, NoGold, NoFuture)
  BY NothingIsTx, TxExcept
<1>2. [Tx(a, Empty, Empty, Empty, NoGold, NoFuture) EXCEPT !.mail = e] = Tx(a, Empty, Empty, Empty, e, NoFuture)
  BY NothingIsTx, TxExcept
<1>3. [Nothing EXCEPT !.purse = a, !.mail = e]
        = [[Nothing EXCEPT !.purse = a] EXCEPT !.mail = e]
  OBVIOUS
<1> QED BY <1>1, <1>2, <1>3

LEMMA ItemExcept ==
    ASSUME NEW b, NEW c, NEW a
    PROVE  [Nothing EXCEPT !.bag = b, !.parcel = c, !.purse = a]
             = Tx(a, b, c, Empty, NoGold, NoFuture)
<1>1. [Nothing EXCEPT !.bag = b] = Tx(Empty, b, Empty, Empty, NoGold, NoFuture)
  BY NothingIsTx, TxExcept
<1>2. [Tx(Empty, b, Empty, Empty, NoGold, NoFuture) EXCEPT !.parcel = c] = Tx(Empty, b, c, Empty, NoGold, NoFuture)
  BY NothingIsTx, TxExcept
<1>3. [Tx(Empty, b, c, Empty, NoGold, NoFuture) EXCEPT !.purse = a] = Tx(a, b, c, Empty, NoGold, NoFuture)
  BY NothingIsTx, TxExcept
<1>4. [Nothing EXCEPT !.bag = b, !.parcel = c, !.purse = a]
        = [[[Nothing EXCEPT !.bag = b] EXCEPT !.parcel = c] EXCEPT !.purse = a]
  OBVIOUS
<1> QED BY <1>1, <1>2, <1>3, <1>4

LEMMA SaveExcept ==
    ASSUME NEW a
    PROVE  [Nothing EXCEPT !.purse = a]
             = Tx(a, Empty, Empty, Empty, NoGold, NoFuture)
<1>1. [Nothing EXCEPT !.purse = a] = Tx(a, Empty, Empty, Empty, NoGold, NoFuture)
  BY NothingIsTx, TxExcept
<1> QED BY <1>1

\* The actions, with their transactions by name.
LEMMA SellSends ==
    ASSUME NEW p, NEW l, SellItem(p, l)
    PROVE  /\ session[p] = "in" /\ mem.bag[l] = p /\ ~Listed(mem, l) /\ mem.purse[p] >= Deposit
           /\ sales < MaxSales /\ sales' = sales + 1 /\ FreeFuture
           /\ mem' = Apply(mem, WithoutRow(SellTx(p, l))) /\ Send(SellTx(p, l))
           /\ Await(p, Only(l, Sale(p)), Nothing)
           /\ UNCHANGED <<db, session, leaves, faults, drops>>
<1> DEFINE t == [Nothing EXCEPT !.purse = Only(p, mem.purse[p] - Deposit), !.bag = Only(l, Nobody),
                                !.row = Only(l, Sale(p)), !.asks = NewFuture]
<1>1. t = SellTx(p, l)
  <2> DEFINE a == Only(p, mem.purse[p] - Deposit)
             b == Only(l, Nobody)
             d == Only(l, Sale(p))
  <2>1. SellTx(p, l) = Tx(a, b, Empty, d, NoGold, NewFuture)
    BY DEF SellTx
  <2>2. t = [Nothing EXCEPT !.purse = a, !.bag = b, !.row = d, !.asks = NewFuture]
    OBVIOUS
  <2> HIDE DEF a, b, d, t
  <2>3. \A f : [Nothing EXCEPT !.purse = a, !.bag = b, !.row = d, !.asks = f]
                 = Tx(a, b, Empty, d, NoGold, f)
    BY SellExcept, ZenonT(60)
  <2> QED BY <2>1, <2>2, <2>3
<1>2. /\ session[p] = "in" /\ mem.bag[l] = p /\ ~Listed(mem, l) /\ HasEnoughMoney(p, Deposit)
      /\ sales < MaxSales /\ sales' = sales + 1 /\ FreeFuture
      /\ mem' = Apply(mem, WithoutRow(t)) /\ Send(t)
      /\ Await(p, Only(l, Sale(p)), Nothing)
      /\ UNCHANGED <<db, session, leaves, faults, drops>>
  BY DEF SellItem, Sale, WithoutRow
<1> HIDE DEF t
<1> QED BY <1>1, <1>2 DEF HasEnoughMoney

LEMMA BidSends ==
    ASSUME NEW p, NEW l, NEW price, PlaceBid(p, l, price)
    PROVE  /\ session[p] = "in" /\ Listed(mem, l) /\ mem.row[l].owner # p
           /\ price > mem.row[l].bid /\ price >= StartBid[l]
           /\ Buys(l, price) \/ price >= mem.row[l].bid + OutBid(mem.row[l].bid)
           /\ mem.purse[p] >= price /\ FreeFuture
           /\ mem' = Apply(mem, BidTx(p, l, price)) /\ Send(BidTx(p, l, price))
           /\ Await(p, Empty, BidPays(p, l, price))
           /\ UNCHANGED <<db, session, sales, leaves, faults, drops>>
<1> DEFINE a == mem.row[l]
           buys == Buyout[l] # 0 /\ price >= Buyout[l]
           paid == IF buys THEN Buyout[l] ELSE price
           bid == [a EXCEPT !.bidder = p, !.bid = paid]
           refund == IF a.bidder \in {p, Nobody} THEN Nothing.mail ELSE Refund(a)
           t == [Nothing EXCEPT !.purse = Only(p, mem.purse[p] - Cost(p, a, paid)),
                                !.row = Only(l, IF buys THEN NoRow ELSE bid), !.asks = NewFuture]
           pays == [Nothing EXCEPT !.mail = IF buys THEN Both(refund, Profit(bid)) ELSE refund,
                                   !.parcel = IF buys THEN Only(l, p) ELSE Empty]
<1>1. /\ session[p] = "in" /\ Listed(mem, l) /\ a.owner # p
      /\ price > a.bid /\ price >= StartBid[l]
      /\ buys \/ price >= a.bid + OutBid(a.bid)
      /\ HasEnoughMoney(p, price) /\ FreeFuture
      /\ mem' = Apply(mem, t) /\ Send(t) /\ Await(p, Empty, pays)
      /\ UNCHANGED <<db, session, sales, leaves, faults, drops>>
  BY DEF PlaceBid
<1>2. buys = Buys(l, price) /\ paid = Paid(l, price) /\ bid = Bid(p, l, price)
  BY DEF Buys, Paid, Bid
<1>3. refund = BidRefund(p, l)
  BY NothingIsTx, TxFacts DEF BidRefund
<1> HIDE DEF buys, paid, bid, refund, a
<1>4. t = BidTx(p, l, price)
  BY <1>2, BidExcept DEF BidTx, a
<1>5. pays = BidPays(p, l, price)
  BY <1>2, <1>3, PaysExcept DEF BidPays
<1> HIDE DEF t, pays
<1> QED BY <1>1, <1>2, <1>4, <1>5 DEF HasEnoughMoney, a

LEMMA RemoveSends ==
    ASSUME NEW p, NEW l, RemoveItem(p, l)
    PROVE  /\ session[p] = "in" /\ Listed(mem, l) /\ mem.row[l].owner = p
           /\ mem.row[l].bidder # Nobody => mem.purse[p] >= Cut(mem.row[l].bid)
           /\ mem' = Apply(mem, RemoveTx(p, l)) /\ Send(RemoveTx(p, l))
           /\ UNCHANGED <<db, session, callbacks, sales, leaves, faults, drops>>
<1> DEFINE a == mem.row[l]
           purse == IF a.bidder = Nobody THEN Empty ELSE Only(p, mem.purse[p] - Cut(a.bid))
           mail == IF a.bidder = Nobody THEN Nothing.mail ELSE Refund(a)
           t == [Nothing EXCEPT !.purse = purse, !.mail = mail,
                                !.parcel = Only(l, p), !.row = Only(l, NoRow)]
<1>1. /\ session[p] = "in" /\ Listed(mem, l) /\ a.owner = p
      /\ a.bidder # Nobody => HasEnoughMoney(p, Cut(a.bid))
      /\ mem' = Apply(mem, t) /\ Send(t)
      /\ UNCHANGED <<db, session, callbacks, sales, leaves, faults, drops>>
  BY DEF RemoveItem
<1>2. Nothing.mail = NoGold
  BY NothingIsTx, TxFacts
<1>3. RemoveTx(p, l) = Tx(purse, Empty, Only(l, p), Only(l, NoRow), mail, NoFuture)
  BY <1>2 DEF RemoveTx
<1>4. t = RemoveTx(p, l)
  <2> DEFINE c == Only(l, p)
             d == Only(l, NoRow)
  <2>1. t = [Nothing EXCEPT !.purse = purse, !.mail = mail, !.parcel = c, !.row = d]
    OBVIOUS
  <2>2. RemoveTx(p, l) = Tx(purse, Empty, c, d, mail, NoFuture)
    BY <1>3
  <2> HIDE DEF purse, mail, c, d, t
  <2>3. [Nothing EXCEPT !.purse = purse, !.mail = mail, !.parcel = c, !.row = d]
          = Tx(purse, Empty, c, d, mail, NoFuture)
    BY RemoveExcept, ZenonT(60)
  <2> QED BY <2>1, <2>2, <2>3
<1> HIDE DEF t
<1> QED BY <1>1, <1>4 DEF HasEnoughMoney

LEMMA UpdateSends ==
    ASSUME NEW ended, Update(ended)
    PROVE  /\ ended # {} /\ \A l \in ended : Listed(mem, l)
           /\ mem' = Apply(mem, UpdateTx(ended)) /\ Send(UpdateTx(ended))
           /\ UNCHANGED <<db, session, callbacks, sales, leaves, faults, drops>>
<1> DEFINE mail == [p \in Players |-> SumFunction([l \in ended |-> Gets(p, l)])]
           parcel == [l \in ended |-> IF mem.row[l].bidder # Nobody THEN mem.row[l].bidder
                                      ELSE mem.row[l].owner]
           row == [l \in ended |-> NoRow]
           t == [Nothing EXCEPT !.mail = mail, !.parcel = parcel, !.row = row]
<1>1. /\ ended # {} /\ \A l \in ended : Listed(mem, l)
      /\ mem' = Apply(mem, t) /\ Send(t)
      /\ UNCHANGED <<db, session, callbacks, sales, leaves, faults, drops>>
  BY DEF Update, Gets
<1>2. UpdateTx(ended) = Tx(Empty, Empty, parcel, row, mail, NoFuture)
  BY DEF UpdateTx
<1>3. t = UpdateTx(ended)
  <2> HIDE DEF mail, parcel, row
  <2> QED BY <1>2, UpdateExcept
<1> HIDE DEF t
<1> QED BY <1>1, <1>3

LEMMA MoneySends ==
    ASSUME NEW p, TakeMoney(p)
    PROVE  /\ session[p] = "in" /\ mem.post[p] > 0
           /\ mem' = Apply(mem, MoneyTx(p)) /\ Send(MoneyTx(p))
           /\ UNCHANGED <<db, session, callbacks, sales, leaves, faults, drops>>
<1> DEFINE gold == mem.post[p]
           t == [Nothing EXCEPT !.purse = Only(p, mem.purse[p] + gold), !.mail[p] = -gold]
           purse == Only(p, mem.purse[p] + gold)
           mail == [NoGold EXCEPT ![p] = -gold]
<1>1. /\ session[p] = "in" /\ gold > 0
      /\ mem' = Apply(mem, t) /\ Send(t)
      /\ UNCHANGED <<db, session, callbacks, sales, leaves, faults, drops>>
  BY DEF TakeMoney
<1>2. Nothing.mail = NoGold
  BY NothingIsTx, TxFacts
<1>3. t = [Nothing EXCEPT !.purse = purse, !.mail = mail]
  BY <1>2
<1>4. MoneyTx(p) = Tx(purse, Empty, Empty, Empty, mail, NoFuture)
  BY DEF MoneyTx
<1>5. t = MoneyTx(p)
  <2> HIDE DEF purse, mail, t
  <2> QED BY <1>3, <1>4, MoneyExcept
<1> HIDE DEF t
<1> QED BY <1>1, <1>5

LEMMA ItemSends ==
    ASSUME NEW p, NEW l, TakeItem(p, l)
    PROVE  /\ session[p] = "in" /\ mem.parcel[l] = p
           /\ mem' = Apply(mem, ItemTx(p, l)) /\ Send(ItemTx(p, l))
           /\ UNCHANGED <<db, session, callbacks, sales, leaves, faults, drops>>
<1> DEFINE t == [Nothing EXCEPT !.bag = Only(l, p), !.parcel = Only(l, Nobody),
                                !.purse = Only(p, mem.purse[p])]
<1>1. /\ session[p] = "in" /\ mem.parcel[l] = p /\ mem' = Apply(mem, t) /\ Send(t)
      /\ UNCHANGED <<db, session, callbacks, sales, leaves, faults, drops>>
  BY DEF TakeItem
<1>2. t = ItemTx(p, l)
  BY ItemExcept DEF ItemTx
<1> HIDE DEF t
<1> QED BY <1>1, <1>2

LEMMA LeaveSends ==
    ASSUME NEW p, Leave(p)
    PROVE  /\ session[p] = "in" /\ Len(queue) < MaxQueue /\ leaves < MaxLeaves
           /\ session' = [session EXCEPT ![p] = "left"] /\ leaves' = leaves + 1
           /\ callbacks' = Restrict(callbacks, {f \in DOMAIN callbacks : callbacks[f].session # p})
           /\ \/ queue' = Append([k \in DOMAIN queue |->
                          [queue[k] EXCEPT !.asks = IF @ \in DOMAIN callbacks' THEN @ ELSE NoFuture]],
                          SaveTx(p))
              \/ queue' = [k \in DOMAIN queue |->
                          [queue[k] EXCEPT !.asks = IF @ \in DOMAIN callbacks' THEN @ ELSE NoFuture]]
           /\ UNCHANGED <<mem, db, sales, faults, drops>>
<1> DEFINE t == [Nothing EXCEPT !.purse = Only(p, mem.purse[p])]
           lost == {f \in DOMAIN callbacks : callbacks[f].session = p}
           q == [k \in DOMAIN queue |->
                   [queue[k] EXCEPT !.asks = IF @ \in DOMAIN callbacks' THEN @ ELSE NoFuture]]
<1>1. /\ session[p] = "in" /\ Len(queue) < MaxQueue /\ leaves < MaxLeaves
      /\ session' = [session EXCEPT ![p] = "left"] /\ leaves' = leaves + 1
      /\ callbacks' = Restrict(callbacks, DOMAIN callbacks \ lost)
      /\ queue' = IF lost = {} THEN Append(q, t) ELSE q
      /\ UNCHANGED <<mem, db, sales, faults, drops>>
  BY DEF Leave
<1>2. t = SaveTx(p)
  BY SaveExcept DEF SaveTx
<1>3. DOMAIN callbacks \ lost = {f \in DOMAIN callbacks : callbacks[f].session # p}
  OBVIOUS
<1> HIDE DEF t, q, lost
<1>4. queue' = Append(q, SaveTx(p)) \/ queue' = q
  BY <1>1, <1>2
<1> QED BY <1>1, <1>3, <1>4 DEF q

----------------------------------------------------------------------------
(* Types.  The queue, drained into the database, gives the mails in memory.  *)

Posts == [Players -> Nat]
PostSteps == {z \in Posts \X Transaction \X Posts :
                \A p \in Players : z[3][p] = z[1][p] + z[2].mail[p]}

\* What waits for an answer mails nothing yet, and nothing else answers it.
Asking ==
    \A k \in 1 .. Len(queue) :
        queue[k].asks # NoFuture =>
          /\ queue[k].asks \in DOMAIN callbacks /\ callbacks[queue[k].asks].answer = "none"
          /\ queue[k].mail = NoGold /\ queue[k].parcel = Empty
          /\ \A j \in 1 .. Len(queue) : queue[j].asks = queue[k].asks => j = k

TypeInv ==
    /\ mem \in World /\ db \in World /\ queue \in Seq(Transaction)
    /\ DOMAIN callbacks \subseteq Futures /\ callbacks \in [DOMAIN callbacks -> Callback]
    /\ session \in [Players -> {"in", "left"}]
    /\ \A p \in Players : session[p] = "left" => leaves > 0
    /\ sales \in 0 .. MaxSales /\ leaves \in Nat /\ faults \in Nat /\ drops \in Nat
    /\ leaves <= MaxLeaves /\ faults + drops <= MaxFailures
    /\ Asking
    /\ drops = 0 => \E h : Trace(h, queue, Posts, PostSteps, db.post, mem.post)

LEMMA TypeInvSuffices == TypeInv => TypeOK
<1> SUFFICES ASSUME TypeInv PROVE TypeOK
  OBVIOUS
<1>1. DOMAIN queue = 1 .. Len(queue)
  BY DEF TypeInv
<1>2. \A f \in DOMAIN callbacks : callbacks[f].answer \in {"none", "true", "false"}
  BY DEF TypeInv, Callback
<1>3. \A k \in DOMAIN queue : queue[k].asks \in DOMAIN callbacks \cup {NoFuture}
  BY <1>1 DEF TypeInv, Asking
<1> QED BY <1>2, <1>3 DEF TypeInv, TypeOK

LEMMA WorldFacts ==
    ASSUME NEW w \in World
    PROVE  /\ w.purse \in [Players -> Nat] /\ w.post \in [Players -> Nat]
           /\ w.bag \in [Lots -> Players \cup {Nobody}]
           /\ w.parcel \in [Lots -> Players \cup {Nobody}] /\ w.row \in [Lots -> Row]
           /\ \A l \in Lots : /\ w.row[l].owner \in Players \cup {Nobody}
                              /\ w.row[l].bidder \in Players \cup {Nobody}
                              /\ w.row[l].bid \in Nat
  BY DEF World, Row

LEMMA NewFutureFree ==
    ASSUME TypeInv, FreeFuture
    PROVE  NewFuture \in Futures /\ NewFuture \notin DOMAIN callbacks /\ NewFuture # NoFuture
<1>1. \E f \in Futures : f \notin DOMAIN callbacks
  BY DEF TypeInv, FreeFuture
<1> QED BY <1>1, NobodyAssumption DEF NewFuture

\* The cut is a part of the bid.
LEMMA CutFacts == \A bid \in Nat : Cut(bid) \in Nat /\ Cut(bid) <= bid
<1> SUFFICES ASSUME NEW bid \in Nat PROVE Cut(bid) \in Nat /\ Cut(bid) <= bid
  OBVIOUS
<1>1. CutPct \in 0 .. 100
  BY GoldAssumption
<1>2. \A c \in 0 .. 100 : bid * c <= bid * 100 /\ bid * c \in Nat
  OBVIOUS
<1> DEFINE x == bid * CutPct
<1>3. x \in Nat /\ x <= bid * 100
  BY <1>1, <1>2
<1> HIDE DEF x
<1>4. x \div 100 \in Nat /\ x \div 100 <= bid
  BY <1>3
<1> QED BY <1>4 DEF Cut, x

LEMMA GoldFacts ==
    ASSUME NEW a \in Row
    PROVE  /\ Refund(a) \in [Players -> Nat] /\ Profit(a) \in [Players -> Nat]
           /\ NoGold \in [Players -> Nat]
           /\ \A m \in [Players -> Nat], n \in [Players -> Nat] : Both(m, n) \in [Players -> Nat]
<1>1. a.bid \in Nat /\ Cut(a.bid) \in Nat /\ Cut(a.bid) <= a.bid /\ Deposit \in Nat
  BY CutFacts, GoldAssumption DEF Row
<1>2. Profit(a) \in [Players -> Nat]
  BY <1>1 DEF Profit
<1>3. Refund(a) \in [Players -> Nat]
  BY <1>1 DEF Refund
<1> QED BY <1>2, <1>3 DEF Both, NoGold

LEMMA NothingType ==
    /\ Nothing \in Transaction /\ Nothing \in Payment
    /\ Nothing.mail = NoGold /\ Nothing.parcel = Empty /\ Nothing.purse = Empty
    /\ Nothing.bag = Empty /\ Nothing.row = Empty /\ Nothing.asks = NoFuture
<1>1. NoGold \in [Players -> Nat] /\ NoGold \in [Players -> Int]
  BY DEF NoGold
<1>2. /\ Empty \in Partial(Players, Nat) /\ Empty \in Partial(Lots, Players \cup {Nobody})
      /\ Empty \in Partial(Lots, Row) /\ Empty \in Partial(Lots, Players)
  BY PartialFacts
<1> DEFINE t == Tx(Empty, Empty, Empty, Empty, NoGold, NoFuture)
<1>3. /\ t.mail = NoGold /\ t.parcel = Empty /\ t.purse = Empty
      /\ t.bag = Empty /\ t.row = Empty /\ t.asks = NoFuture
  BY TxFacts
<1>5. t \in Transaction
  BY <1>1, <1>2, TxType
<1>4. t \in Payment
  BY <1>1, <1>2 DEF Tx, Payment
<1> QED BY NothingIsTx, <1>3, <1>4, <1>5

LEMMA PaymentFacts ==
    ASSUME NEW t \in Payment, NEW d \in Partial(Lots, Row)
    PROVE  /\ t \in Transaction /\ t.purse = Empty /\ t.bag = Empty /\ t.row = Empty
           /\ t.parcel \in Partial(Lots, Players) /\ t.mail \in [Players -> Nat]
           /\ t.asks = NoFuture
           /\ [t EXCEPT !.row = d] \in Transaction
           /\ [t EXCEPT !.row = d].mail = t.mail /\ [t EXCEPT !.row = d].purse = t.purse
           /\ [t EXCEPT !.row = d].bag = t.bag /\ [t EXCEPT !.row = d].parcel = t.parcel
           /\ [t EXCEPT !.row = d].row = d
<1> DEFINE c == t.parcel
           e == t.mail
<1>1. /\ t = Tx(Empty, Empty, c, Empty, e, NoFuture) /\ c \in Partial(Lots, Players)
      /\ e \in [Players -> Nat]
  BY DEF Payment, Tx
<1>2. c \in Partial(Lots, Players \cup {Nobody}) /\ e \in [Players -> Int]
  BY <1>1 DEF Partial
<1>3. /\ Empty \in Partial(Players, Nat) /\ Empty \in Partial(Lots, Players \cup {Nobody})
      /\ Empty \in Partial(Lots, Row)
  BY PartialFacts
<1> HIDE DEF c, e
<1>4. Tx(Empty, Empty, c, Empty, e, NoFuture) \in Transaction
  BY <1>2, <1>3, TxType
<1>5. Tx(Empty, Empty, c, d, e, NoFuture) \in Transaction
  BY <1>2, <1>3, TxType
<1>6. [t EXCEPT !.row = d] = Tx(Empty, Empty, c, d, e, NoFuture)
  BY <1>1, TxExcept
<1> QED BY <1>1, <1>4, <1>5, <1>6, TxFacts

LEMMA OnlyType ==
    /\ \A p \in Players : \A n \in Nat : Only(p, n) \in Partial(Players, Nat)
    /\ \A l \in Lots : \A p \in Players \cup {Nobody} : Only(l, p) \in Partial(Lots, Players \cup {Nobody})
    /\ \A l \in Lots : \A p \in Players : Only(l, p) \in Partial(Lots, Players)
    /\ \A l \in Lots : \A r \in Row : Only(l, r) \in Partial(Lots, Row)
    /\ \A l \in Lots : \A r \in Offer : Only(l, r) \in Partial(Lots, Offer)
    /\ Empty \in Partial(Players, Nat) /\ Empty \in Partial(Lots, Players \cup {Nobody})
    /\ Empty \in Partial(Lots, Players) /\ Empty \in Partial(Lots, Row)
    /\ Empty \in Partial(Lots, Offer)
  BY PartialFacts

LEMMA RowType == NoRow \in Row /\ \A p \in Players : Sale(p) \in Offer
  BY NobodyAssumption DEF NoRow, Row, Sale, Offer

LEMMA SellType ==
    ASSUME TypeInv, NEW p \in Players, NEW l \in Lots, SellItem(p, l)
    PROVE  SellTx(p, l) \in Transaction /\ WithoutRow(SellTx(p, l)) \in Transaction
<1>1. mem.purse[p] >= Deposit /\ mem.purse[p] \in Nat /\ Deposit \in Nat
  BY SellSends, WorldFacts, GoldAssumption DEF TypeInv
<1>2. mem.purse[p] - Deposit \in Nat
  BY <1>1
<1>3. NewFuture \in Futures \cup {NoFuture}
  BY SellSends, NewFutureFree
<1>4. Sale(p) \in Row
  BY RowType DEF Offer
<1>5. NoGold \in [Players -> Int]
  BY DEF NoGold
<1>6. SellTx(p, l) \in Transaction
  BY <1>2, <1>3, <1>4, <1>5, OnlyType, TxType DEF SellTx
<1>7. WithoutRow(SellTx(p, l))
        = Tx(Only(p, mem.purse[p] - Deposit), Only(l, Nobody), Empty, Empty, NoGold, NewFuture)
  BY TxExcept DEF SellTx, WithoutRow
<1>8. Tx(Only(p, mem.purse[p] - Deposit), Only(l, Nobody), Empty, Empty, NoGold, NewFuture)
        \in Transaction
  BY <1>2, <1>3, <1>5, OnlyType, TxType
<1> QED BY <1>6, <1>7, <1>8

LEMMA BidType ==
    ASSUME TypeInv, NEW p \in Players, NEW l \in Lots, NEW price \in Prices, PlaceBid(p, l, price)
    PROVE  /\ BidTx(p, l, price) \in Transaction /\ BidPays(p, l, price) \in Payment
           /\ Bid(p, l, price) \in Row /\ Bid(p, l, price).owner = mem.row[l].owner
           /\ Bid(p, l, price).bidder = p /\ Bid(p, l, price).bid = Paid(l, price)
           /\ Paid(l, price) \in Nat /\ Paid(l, price) <= price
           /\ mem.purse[p] - Cost(p, mem.row[l], Paid(l, price)) \in Nat
           /\ Cost(p, mem.row[l], Paid(l, price)) \in Int
           /\ BidRefund(p, l) \in [Players -> Nat]
<1> DEFINE a == mem.row[l]
           paid == Paid(l, price)
           cost == Cost(p, a, paid)
<1>1. /\ mem.purse[p] >= price /\ mem.purse[p] \in Nat /\ a \in Row /\ a.bid \in Nat
      /\ price \in Nat /\ Buyout[l] \in Nat
  BY BidSends, WorldFacts, LotAssumption DEF TypeInv
<1>2. paid \in Nat /\ paid <= price
  BY <1>1 DEF Paid, Buys
<1> HIDE DEF paid, a
<1>3. mem.purse[p] - cost \in Nat /\ cost \in Int
  BY <1>1, <1>2 DEF Cost
<1> HIDE DEF cost
<1>4. /\ Bid(p, l, price) \in Row /\ Bid(p, l, price).owner = a.owner
      /\ Bid(p, l, price).bidder = p /\ Bid(p, l, price).bid = paid
  <2>1. Bid(p, l, price) = [a EXCEPT !.bidder = p, !.bid = paid]
    BY DEF Bid, paid, a
  <2>2. /\ [a EXCEPT !.bidder = p, !.bid = paid] \in Row
        /\ [a EXCEPT !.bidder = p, !.bid = paid].owner = a.owner
        /\ [a EXCEPT !.bidder = p, !.bid = paid].bidder = p
        /\ [a EXCEPT !.bidder = p, !.bid = paid].bid = paid
    <3>1. a \in Row /\ paid \in Nat
      BY <1>1, <1>2
    <3> QED BY <3>1 DEF Row
  <2> QED BY <2>1, <2>2
<1>5. NewFuture \in Futures \cup {NoFuture}
  BY BidSends, NewFutureFree
<1>6. NoGold \in [Players -> Int] /\ NoGold \in [Players -> Nat]
  BY DEF NoGold
<1>7. BidTx(p, l, price) \in Transaction
  <2> DEFINE row == IF Buys(l, price) THEN NoRow ELSE Bid(p, l, price)
  <2>1. row \in Row
    BY <1>4, RowType
  <2>2. BidTx(p, l, price) = Tx(Only(p, mem.purse[p] - cost), Empty, Empty, Only(l, row), NoGold, NewFuture)
    BY DEF BidTx, cost, paid, a
  <2>3. Only(p, mem.purse[p] - cost) \in Partial(Players, Nat)
    BY <1>3, OnlyType
  <2> HIDE DEF row
  <2>4. Only(l, row) \in Partial(Lots, Row)
    BY <2>1, OnlyType
  <2> DEFINE purse == Only(p, mem.purse[p] - cost)
             rows == Only(l, row)
  <2>5. purse \in Partial(Players, Nat) /\ rows \in Partial(Lots, Row)
    BY <2>3, <2>4
  <2>6. BidTx(p, l, price) = Tx(purse, Empty, Empty, rows, NoGold, NewFuture)
    BY <2>2
  <2> HIDE DEF purse, rows
  <2>7. Tx(purse, Empty, Empty, rows, NoGold, NewFuture) \in Transaction
    BY <1>5, <1>6, <2>5, OnlyType, TxType, Zenon
  <2> QED BY <2>6, <2>7
<1>8. BidRefund(p, l) \in [Players -> Nat]
  BY <1>1, <1>6, GoldFacts DEF BidRefund, a
<1>9. BidPays(p, l, price) \in Payment
  <2> DEFINE parcel == IF Buys(l, price) THEN Only(l, p) ELSE Empty
             mail == IF Buys(l, price) THEN Both(BidRefund(p, l), Profit(Bid(p, l, price)))
                     ELSE BidRefund(p, l)
  <2>1. parcel \in Partial(Lots, Players)
    BY OnlyType
  <2>2. mail \in [Players -> Nat]
    BY <1>4, <1>8, GoldFacts
  <2>3. BidPays(p, l, price) = Tx(Empty, Empty, parcel, Empty, mail, NoFuture)
    BY DEF BidPays
  <2> HIDE DEF parcel, mail
  <2> QED BY <2>1, <2>2, <2>3 DEF Tx, Payment
<1> QED BY <1>2, <1>3, <1>4, <1>7, <1>8, <1>9 DEF cost, paid, a

LEMMA RemoveType ==
    ASSUME TypeInv, NEW p \in Players, NEW l \in Lots, RemoveItem(p, l)
    PROVE  /\ RemoveTx(p, l) \in Transaction /\ RemoveTx(p, l).mail \in [Players -> Nat]
<1> DEFINE a == mem.row[l]
           purse == IF a.bidder = Nobody THEN Empty ELSE Only(p, mem.purse[p] - Cut(a.bid))
           mail == IF a.bidder = Nobody THEN NoGold ELSE Refund(a)
<1>1. /\ a.bidder # Nobody => mem.purse[p] >= Cut(a.bid)
      /\ a \in Row /\ a.bid \in Nat /\ mem.purse[p] \in Nat /\ Cut(a.bid) \in Nat
  BY RemoveSends, WorldFacts, CutFacts DEF TypeInv
<1>2. RemoveTx(p, l) = Tx(purse, Empty, Only(l, p), Only(l, NoRow), mail, NoFuture)
  BY DEF RemoveTx
<1>3. purse \in Partial(Players, Nat)
  <2>1. CASE a.bidder = Nobody
    BY <2>1, OnlyType
  <2>2. CASE a.bidder # Nobody
    <3>1. mem.purse[p] - Cut(a.bid) \in Nat
      BY <1>1, <2>2
    <3> QED BY <2>2, <3>1, OnlyType
  <2> QED BY <2>1, <2>2
<1>4. mail \in [Players -> Nat] /\ mail \in [Players -> Int]
  BY <1>1, GoldFacts
<1> HIDE DEF purse, mail
<1>5. RemoveTx(p, l) \in Transaction
  <2>1. /\ Only(l, p) \in Partial(Lots, Players \cup {Nobody})
        /\ Only(l, NoRow) \in Partial(Lots, Row)
    BY OnlyType, RowType
  <2> QED BY <1>2, <1>3, <1>4, <2>1, OnlyType, TxType
<1> QED BY <1>2, <1>4, <1>5, TxFacts

LEMMA GetsType ==
    ASSUME TypeInv, NEW ended \in SUBSET Lots
    PROVE  /\ \A p \in Players, l \in Lots : Gets(p, l) \in Nat
           /\ \A p \in Players : SumFunction([l \in ended |-> Gets(p, l)]) \in Nat
<1>1. ASSUME NEW p \in Players, NEW l \in Lots PROVE Gets(p, l) \in Nat
  BY WorldFacts, GoldFacts DEF Gets, TypeInv
<1>2. ASSUME NEW p \in Players PROVE SumFunction([l \in ended |-> Gets(p, l)]) \in Nat
  <2> DEFINE f == [l \in ended |-> Gets(p, l)]
  <2>1. (\A l \in ended : f[l] \in Nat) /\ IsFiniteSet(ended) /\ DOMAIN f = ended
    BY <1>1, FiniteAssumption, FS_Subset
  <2> HIDE DEF f
  <2>2. SumFunctionOnSet(f, ended) \in Nat
    BY <2>1, SumNat
  <2>3. SumFunction(f) = SumFunctionOnSet(f, ended)
    BY <2>1 DEF SumFunction, FoldFunction, SumFunctionOnSet
  <2> QED BY <2>2, <2>3 DEF f
<1> QED BY <1>1, <1>2

LEMMA UpdateType ==
    ASSUME TypeInv, NEW ended \in SUBSET Lots, Update(ended)
    PROVE  /\ UpdateTx(ended) \in Transaction /\ UpdateTx(ended).mail \in [Players -> Nat]
<1> DEFINE mail == [p \in Players |-> SumFunction([l \in ended |-> Gets(p, l)])]
           parcel == [l \in ended |-> IF mem.row[l].bidder # Nobody THEN mem.row[l].bidder
                                      ELSE mem.row[l].owner]
           row == [l \in ended |-> NoRow]
<1>1. UpdateTx(ended) = Tx(Empty, Empty, parcel, row, mail, NoFuture)
  BY DEF UpdateTx
<1>2. mail \in [Players -> Nat]
  BY GetsType
<1>3. mail \in [Players -> Int]
  BY <1>2
<1>4. parcel \in [ended -> Players \cup {Nobody}] /\ row \in [ended -> Row]
  BY WorldFacts, RowType DEF TypeInv
<1>5. parcel \in Partial(Lots, Players \cup {Nobody}) /\ row \in Partial(Lots, Row)
  BY <1>4, PartialFacts
<1> HIDE DEF mail, parcel, row
<1>6. UpdateTx(ended) \in Transaction
  BY <1>1, <1>3, <1>5, OnlyType, TxType
<1> QED BY <1>1, <1>2, <1>6, TxFacts

LEMMA MoneyType ==
    ASSUME TypeInv, NEW p \in Players
    PROVE  /\ MoneyTx(p) \in Transaction
           /\ \A q \in Players : mem.post[q] + MoneyTx(p).mail[q] >= 0
<1>1. mem.purse[p] \in Nat /\ \A q \in Players : mem.post[q] \in Nat
  BY WorldFacts DEF TypeInv
<1> DEFINE mail == [NoGold EXCEPT ![p] = -mem.post[p]]
<1>2. mail \in [Players -> Int] /\ \A q \in Players : mem.post[q] + mail[q] >= 0
  BY <1>1 DEF NoGold
<1>3. MoneyTx(p) = Tx(Only(p, mem.purse[p] + mem.post[p]), Empty, Empty, Empty, mail, NoFuture)
  BY DEF MoneyTx
<1>4. mem.purse[p] + mem.post[p] \in Nat
  BY <1>1
<1> HIDE DEF mail
<1>5. MoneyTx(p) \in Transaction
  BY <1>2, <1>3, <1>4, OnlyType, TxType
<1> QED BY <1>2, <1>3, <1>5, TxFacts

LEMMA ItemType ==
    ASSUME TypeInv, NEW p \in Players, NEW l \in Lots
    PROVE  ItemTx(p, l) \in Transaction /\ SaveTx(p) \in Transaction
<1>1. mem.purse[p] \in Nat /\ NoGold \in [Players -> Int]
  BY WorldFacts DEF TypeInv, NoGold
<1>2. ItemTx(p, l) \in Transaction
  BY <1>1, OnlyType, TxType DEF ItemTx
<1>3. SaveTx(p) \in Transaction
  BY <1>1, OnlyType, TxType DEF SaveTx
<1> QED BY <1>2, <1>3

----------------------------------------------------------------------------
(* What the steps do to the queue, the callbacks and the mails.              *)

LEMMA PostStep ==
    \A a, t, b : <<a, t, b>> \in PostSteps
                   <=> /\ a \in Posts /\ t \in Transaction /\ b \in Posts
                       /\ \A p \in Players : b[p] = a[p] + t.mail[p]
  BY DEF PostSteps

LEMMA SendKeeps ==
    ASSUME TypeInv, NEW t \in Transaction, NEW u \in Transaction, u.mail = t.mail,
           \A p \in Players : mem.post[p] + t.mail[p] >= 0,
           Send(t), mem' = Apply(mem, u), db' = db, drops' = drops
    PROVE  /\ mem' \in World /\ db' \in World /\ queue' \in Seq(Transaction)
           /\ Len(queue') = Len(queue) + 1 /\ Len(queue) \in Nat /\ queue'[Len(queue) + 1] = t
           /\ \A k \in 1 .. Len(queue) : queue'[k] = queue[k]
           /\ drops' = 0 => \E h : Trace(h, queue', Posts, PostSteps, db'.post, mem'.post)
<1>1. /\ mem \in World /\ db \in World /\ queue \in Seq(Transaction)
      /\ drops = 0 => \E h : Trace(h, queue, Posts, PostSteps, db.post, mem.post)
  BY DEF TypeInv
<1>2. queue' = Append(queue, t)
  BY DEF Send
<1>3. mem' \in World
  BY <1>1, ApplyType
<1>4. /\ mem'.post \in Posts /\ mem.post \in Posts
      /\ \A p \in Players : mem'.post[p] = mem.post[p] + t.mail[p]
  <2>1. /\ Apply(mem, u).post \in [Players -> Nat]
        /\ \A p \in Players : mem.post[p] + u.mail[p] >= 0
                               => Apply(mem, u).post[p] = mem.post[p] + u.mail[p]
    <3>1. mem \in World /\ u \in Transaction
      BY <1>1
    <3> QED BY ONLY <3>1, ApplyFacts
  <2>2. mem.post \in Posts /\ mem'.post = Apply(mem, u).post
    BY <1>1, WorldFacts DEF Posts
  <2> QED BY <2>1, <2>2 DEF Posts
<1>5. <<mem.post, t, mem'.post>> \in PostSteps
  BY <1>4, PostStep
<1>6. drops = 0 => \E h : Trace(h, Append(queue, t), Posts, PostSteps, db.post, mem'.post)
  BY <1>1, <1>4, <1>5, TraceAppend
<1>7. /\ queue' \in Seq(Transaction) /\ Len(queue') = Len(queue) + 1 /\ Len(queue) \in Nat
      /\ queue'[Len(queue) + 1] = t
      /\ \A k \in 1 .. Len(queue) : queue'[k] = queue[k]
  BY <1>1, <1>2
<1> QED BY <1>1, <1>2, <1>3, <1>6, <1>7

LEMMA AwaitKeeps ==
    ASSUME TypeInv, FreeFuture, NEW p \in Players, NEW register \in Partial(Lots, Offer),
           NEW pays \in Payment, Await(p, register, pays)
    PROVE  /\ DOMAIN callbacks' = DOMAIN callbacks \cup {NewFuture}
           /\ DOMAIN callbacks' \subseteq Futures
           /\ callbacks' \in [DOMAIN callbacks' -> Callback]
           /\ \A f \in DOMAIN callbacks : callbacks'[f] = callbacks[f]
           /\ callbacks'[NewFuture]
                = [session |-> p, answer |-> "none", register |-> register, pays |-> pays]
<1> DEFINE c == [session |-> p, answer |-> "none", register |-> register, pays |-> pays]
<1>1. c \in Callback
  BY DEF Callback
<1>2. callbacks' = [f \in DOMAIN callbacks \cup {NewFuture} |->
                        IF f = NewFuture THEN c ELSE callbacks[f]]
  BY DEF Await
<1>3. NewFuture \in Futures /\ NewFuture \notin DOMAIN callbacks
  BY NewFutureFree
<1>4. DOMAIN callbacks \subseteq Futures /\ callbacks \in [DOMAIN callbacks -> Callback]
  BY DEF TypeInv
<1> HIDE DEF c
<1>5. /\ DOMAIN callbacks' = DOMAIN callbacks \cup {NewFuture}
      /\ \A f \in DOMAIN callbacks : callbacks'[f] = callbacks[f]
      /\ callbacks'[NewFuture] = c
  BY <1>2, <1>3
<1>6. callbacks' \in [DOMAIN callbacks' -> Callback]
  BY <1>1, <1>2, <1>4
<1> QED BY <1>3, <1>4, <1>5, <1>6 DEF c

\* A transaction without a callback, or the one of the new callback.
LEMMA AskingAppend ==
    ASSUME TypeInv, NEW t \in Transaction, Len(queue') = Len(queue) + 1, Len(queue) \in Nat,
           queue'[Len(queue) + 1] = t, \A k \in 1 .. Len(queue) : queue'[k] = queue[k],
           \A f \in DOMAIN callbacks : callbacks[f].answer = "none" =>
               f \in DOMAIN callbacks' /\ callbacks'[f].answer = "none",
           t.asks # NoFuture =>
               /\ t.asks \notin DOMAIN callbacks /\ t.asks \in DOMAIN callbacks'
               /\ callbacks'[t.asks].answer = "none" /\ t.mail = NoGold /\ t.parcel = Empty
    PROVE  Asking'
<1> DEFINE n == Len(queue)
<1>1. \A k \in 1 .. n : queue[k].asks # NoFuture =>
          /\ queue[k].asks \in DOMAIN callbacks /\ callbacks[queue[k].asks].answer = "none"
          /\ queue[k].mail = NoGold /\ queue[k].parcel = Empty
          /\ \A j \in 1 .. n : queue[j].asks = queue[k].asks => j = k
  BY DEF TypeInv, Asking
<1>2. SUFFICES ASSUME NEW k \in 1 .. n + 1, queue'[k].asks # NoFuture
               PROVE  /\ queue'[k].asks \in DOMAIN callbacks'
                      /\ callbacks'[queue'[k].asks].answer = "none"
                      /\ queue'[k].mail = NoGold /\ queue'[k].parcel = Empty
                      /\ \A j \in 1 .. n + 1 : queue'[j].asks = queue'[k].asks => j = k
  BY DEF Asking
<1>3. CASE k = n + 1
  <2>1. queue'[k] = t
    BY <1>3
  <2>2. ASSUME NEW j \in 1 .. n + 1, queue'[j].asks = queue'[k].asks PROVE j = k
    <3>1. CASE j \in 1 .. n
      BY <1>1, <1>2, <2>1, <2>2, <3>1
    <3> QED BY <1>3, <3>1
  <2> QED BY <1>2, <2>1, <2>2
<1>4. CASE k \in 1 .. n
  <2>1. queue'[k] = queue[k]
    BY <1>4
  <2>2. ASSUME NEW j \in 1 .. n + 1, queue'[j].asks = queue'[k].asks PROVE j = k
    <3>1. CASE j \in 1 .. n
      BY <1>1, <1>2, <1>4, <2>1, <2>2, <3>1
    <3>2. CASE j = n + 1
      <4>1. queue'[j] = t
        BY <3>2
      <4> QED BY <1>1, <1>2, <1>4, <2>1, <2>2, <4>1
    <3> QED BY <3>1, <3>2
  <2> QED BY <1>1, <1>2, <1>4, <2>1, <2>2
<1> QED BY <1>3, <1>4

LEMMA SellKeeps ==
    ASSUME TypeInv, NEW p \in Players, NEW l \in Lots, SellItem(p, l)
    PROVE  TypeInv'
<1> DEFINE t == SellTx(p, l)
           u == WithoutRow(SellTx(p, l))
<1>1. /\ sales < MaxSales /\ sales' = sales + 1 /\ FreeFuture /\ mem' = Apply(mem, u) /\ Send(t)
      /\ Await(p, Only(l, Sale(p)), Nothing) /\ UNCHANGED <<db, session, leaves, faults, drops>>
  BY SellSends
<1>2. /\ t \in Transaction /\ u \in Transaction /\ t.mail = NoGold /\ u.mail = NoGold
      /\ t.parcel = Empty /\ t.asks = NewFuture
  <2>1. u = Tx(Only(p, mem.purse[p] - Deposit), Only(l, Nobody), Empty, Empty, NoGold, NewFuture)
    BY TxExcept DEF SellTx, WithoutRow
  <2>2. u.mail = NoGold
    BY <2>1, TxFacts
  <2> QED BY <2>2, SellType, TxFacts DEF SellTx
<1> HIDE DEF t, u
<1>3. \A q \in Players : mem.post[q] + t.mail[q] >= 0
  BY <1>2, WorldFacts DEF TypeInv, NoGold
<1>4. Only(l, Sale(p)) \in Partial(Lots, Offer) /\ Nothing \in Payment
  BY OnlyType, RowType, NothingType
<1>5. /\ DOMAIN callbacks' = DOMAIN callbacks \cup {NewFuture}
      /\ DOMAIN callbacks' \subseteq Futures
      /\ callbacks' \in [DOMAIN callbacks' -> Callback]
      /\ \A f \in DOMAIN callbacks : callbacks'[f] = callbacks[f]
      /\ callbacks'[NewFuture]
           = [session |-> p, answer |-> "none", register |-> Only(l, Sale(p)), pays |-> Nothing]
  BY <1>1, <1>4, AwaitKeeps
<1>6. /\ mem' \in World /\ db' \in World /\ queue' \in Seq(Transaction)
      /\ Len(queue') = Len(queue) + 1 /\ Len(queue) \in Nat /\ queue'[Len(queue) + 1] = t
      /\ \A k \in 1 .. Len(queue) : queue'[k] = queue[k]
      /\ drops' = 0 => \E h : Trace(h, queue', Posts, PostSteps, db'.post, mem'.post)
  BY <1>1, <1>2, <1>3, SendKeeps
<1>7. Asking'
  <2>1. /\ t.asks \notin DOMAIN callbacks /\ t.asks \in DOMAIN callbacks'
        /\ callbacks'[t.asks].answer = "none" /\ t.mail = NoGold /\ t.parcel = Empty
    BY <1>1, <1>2, <1>5, NewFutureFree
  <2>2. \A f \in DOMAIN callbacks : callbacks[f].answer = "none" =>
            f \in DOMAIN callbacks' /\ callbacks'[f].answer = "none"
    BY <1>5
  <2> QED BY <1>2, <1>6, <2>1, <2>2, AskingAppend
<1>8. sales' \in 0 .. MaxSales
  BY <1>1, LimitAssumption DEF TypeInv
<1> QED BY <1>1, <1>5, <1>6, <1>7, <1>8 DEF TypeInv

LEMMA BidKeeps ==
    ASSUME TypeInv, NEW p \in Players, NEW l \in Lots, NEW price \in Prices, PlaceBid(p, l, price)
    PROVE  TypeInv'
<1> DEFINE t == BidTx(p, l, price)
<1>1. /\ FreeFuture /\ mem' = Apply(mem, t) /\ Send(t)
      /\ Await(p, Empty, BidPays(p, l, price)) /\ UNCHANGED <<db, session, sales, leaves, faults, drops>>
  BY BidSends
<1>2. /\ t \in Transaction /\ t.mail = NoGold /\ t.parcel = Empty /\ t.asks = NewFuture
      /\ BidPays(p, l, price) \in Payment
  BY BidType, TxFacts DEF BidTx
<1> HIDE DEF t
<1>3. \A q \in Players : mem.post[q] + t.mail[q] >= 0
  BY <1>2, WorldFacts DEF TypeInv, NoGold
<1>4. Empty \in Partial(Lots, Offer)
  BY OnlyType
<1>5. /\ DOMAIN callbacks' = DOMAIN callbacks \cup {NewFuture}
      /\ DOMAIN callbacks' \subseteq Futures
      /\ callbacks' \in [DOMAIN callbacks' -> Callback]
      /\ \A f \in DOMAIN callbacks : callbacks'[f] = callbacks[f]
      /\ callbacks'[NewFuture] = [session |-> p, answer |-> "none", register |-> Empty,
                                  pays |-> BidPays(p, l, price)]
  BY <1>1, <1>2, <1>4, AwaitKeeps
<1>6. /\ mem' \in World /\ db' \in World /\ queue' \in Seq(Transaction)
      /\ Len(queue') = Len(queue) + 1 /\ Len(queue) \in Nat /\ queue'[Len(queue) + 1] = t
      /\ \A k \in 1 .. Len(queue) : queue'[k] = queue[k]
      /\ drops' = 0 => \E h : Trace(h, queue', Posts, PostSteps, db'.post, mem'.post)
  BY <1>1, <1>2, <1>3, SendKeeps
<1>7. Asking'
  <2>1. /\ t.asks \notin DOMAIN callbacks /\ t.asks \in DOMAIN callbacks'
        /\ callbacks'[t.asks].answer = "none" /\ t.mail = NoGold /\ t.parcel = Empty
    BY <1>1, <1>2, <1>5, NewFutureFree
  <2>2. \A f \in DOMAIN callbacks : callbacks[f].answer = "none" =>
            f \in DOMAIN callbacks' /\ callbacks'[f].answer = "none"
    BY <1>5
  <2> QED BY <1>2, <1>6, <2>1, <2>2, AskingAppend
<1> QED BY <1>1, <1>5, <1>6, <1>7 DEF TypeInv

\* The handlers without a callback, and the expiry.
LEMMA PlainKeeps ==
    ASSUME TypeInv, NEW t \in Transaction, t.asks = NoFuture,
           \A q \in Players : mem.post[q] + t.mail[q] >= 0,
           Send(t), mem' = Apply(mem, t),
           UNCHANGED <<db, session, callbacks, sales, leaves, faults, drops>>
    PROVE  TypeInv'
<1>1. /\ mem' \in World /\ db' \in World /\ queue' \in Seq(Transaction)
      /\ Len(queue') = Len(queue) + 1 /\ Len(queue) \in Nat /\ queue'[Len(queue) + 1] = t
      /\ \A k \in 1 .. Len(queue) : queue'[k] = queue[k]
      /\ drops' = 0 => \E h : Trace(h, queue', Posts, PostSteps, db'.post, mem'.post)
  BY SendKeeps
<1>2. \A f \in DOMAIN callbacks : callbacks[f].answer = "none" =>
          f \in DOMAIN callbacks' /\ callbacks'[f].answer = "none"
  OBVIOUS
<1>3. Asking'
  BY <1>1, <1>2, AskingAppend
<1> QED BY <1>1, <1>3 DEF TypeInv

Plain(p, l, ended, t) ==
    \/ p \in Players /\ l \in Lots /\ RemoveItem(p, l) /\ t = RemoveTx(p, l)
    \/ ended \in SUBSET Lots /\ Update(ended) /\ t = UpdateTx(ended)
    \/ p \in Players /\ TakeMoney(p) /\ t = MoneyTx(p)
    \/ p \in Players /\ l \in Lots /\ TakeItem(p, l) /\ t = ItemTx(p, l)

LEMMA PlainSteps ==
    ASSUME TypeInv, NEW p, NEW l, NEW ended, NEW t, Plain(p, l, ended, t)
    PROVE  /\ t \in Transaction /\ t.asks = NoFuture
           /\ \A q \in Players : mem.post[q] + t.mail[q] >= 0
           /\ Send(t) /\ mem' = Apply(mem, t)
           /\ UNCHANGED <<db, session, callbacks, sales, leaves, faults, drops>>
<1>1. \A q \in Players : mem.post[q] \in Nat
  BY WorldFacts DEF TypeInv
<1>2. \A u \in Transaction : u.mail \in [Players -> Nat]
          => \A q \in Players : mem.post[q] + u.mail[q] >= 0
  BY <1>1
<1>3. CASE p \in Players /\ l \in Lots /\ RemoveItem(p, l) /\ t = RemoveTx(p, l)
  <2>1. t \in Transaction /\ t.mail \in [Players -> Nat]
    BY <1>3, RemoveType
  <2>2. t.asks = NoFuture
    BY <1>3, TxFacts DEF RemoveTx
  <2> QED BY <1>2, <1>3, <2>1, <2>2, RemoveSends
<1>4. CASE ended \in SUBSET Lots /\ Update(ended) /\ t = UpdateTx(ended)
  <2>1. t \in Transaction /\ t.mail \in [Players -> Nat]
    BY <1>4, UpdateType
  <2>2. t.asks = NoFuture
    BY <1>4, TxFacts DEF UpdateTx
  <2> QED BY <1>2, <1>4, <2>1, <2>2, UpdateSends
<1>5. CASE p \in Players /\ TakeMoney(p) /\ t = MoneyTx(p)
  <2>1. t \in Transaction /\ \A q \in Players : mem.post[q] + t.mail[q] >= 0
    BY <1>5, MoneyType
  <2>2. t.asks = NoFuture
    BY <1>5, TxFacts DEF MoneyTx
  <2> QED BY <1>5, <2>1, <2>2, MoneySends
<1>6. CASE p \in Players /\ l \in Lots /\ TakeItem(p, l) /\ t = ItemTx(p, l)
  <2>1. t \in Transaction
    BY <1>6, ItemType
  <2>2. t.asks = NoFuture /\ t.mail = NoGold
    BY <1>6, TxFacts DEF ItemTx
  <2>3. t.mail \in [Players -> Nat]
    BY <2>2 DEF NoGold
  <2> QED BY <1>2, <1>6, <2>1, <2>2, <2>3, ItemSends
<1> QED BY <1>3, <1>4, <1>5, <1>6 DEF Plain

\* What a callback does in memory.
CallbackTx(f) == [callbacks[f].pays EXCEPT !.row = callbacks[f].register]

LEMMA CallbackFacts ==
    ASSUME TypeInv, NEW f \in DOMAIN callbacks
    PROVE  /\ callbacks[f] \in Callback /\ callbacks[f].pays \in Payment
           /\ callbacks[f].pays \in Transaction
           /\ callbacks[f].register \in Partial(Lots, Offer) /\ callbacks[f].session \in Players
           /\ callbacks[f].register \in Partial(Lots, Row)
           /\ callbacks[f].pays.mail \in [Players -> Nat]
           /\ callbacks[f].pays.parcel \in Partial(Lots, Players)
           /\ callbacks[f].pays.asks = NoFuture /\ callbacks[f].pays.purse = Empty
           /\ callbacks[f].pays.bag = Empty /\ callbacks[f].pays.row = Empty
           /\ CallbackTx(f) \in Transaction
           /\ CallbackTx(f).mail = callbacks[f].pays.mail /\ CallbackTx(f).purse = Empty
           /\ CallbackTx(f).bag = Empty /\ CallbackTx(f).row = callbacks[f].register
           /\ CallbackTx(f).parcel = callbacks[f].pays.parcel
<1> DEFINE c == callbacks[f]
<1>1. /\ c \in Callback
  BY DEF TypeInv
<1>2. c.pays \in Payment /\ c.register \in Partial(Lots, Offer) /\ c.session \in Players
  BY <1>1 DEF Callback
<1>3. c.register \in Partial(Lots, Row)
  BY <1>2 DEF Partial, Offer
<1> DEFINE t == c.pays
           d == c.register
<1> HIDE DEF t, d
<1>4. /\ t \in Transaction /\ t.purse = Empty /\ t.bag = Empty /\ t.row = Empty
      /\ t.parcel \in Partial(Lots, Players) /\ t.mail \in [Players -> Nat]
      /\ t.asks = NoFuture
      /\ [t EXCEPT !.row = d] \in Transaction
      /\ [t EXCEPT !.row = d].mail = t.mail /\ [t EXCEPT !.row = d].purse = t.purse
      /\ [t EXCEPT !.row = d].bag = t.bag /\ [t EXCEPT !.row = d].parcel = t.parcel
      /\ [t EXCEPT !.row = d].row = d
  BY <1>2, <1>3, PaymentFacts DEF t, d
<1>5. CallbackTx(f) = [t EXCEPT !.row = d]
  BY DEF CallbackTx, t, d
<1> QED BY <1>1, <1>2, <1>3, <1>4, <1>5 DEF t, d

\* The three things a callback may come to.
LEMMA CallbackSteps ==
    ASSUME NEW f \in DOMAIN callbacks, ProcessCallback(f)
    PROVE  /\ callbacks[f].answer # "none"
           /\ callbacks' = Restrict(callbacks, DOMAIN callbacks \ {f})
           /\ UNCHANGED <<db, session, sales, leaves, faults, drops>>
           /\ \/ callbacks[f].answer # "true" /\ UNCHANGED <<mem, queue>>
              \/ callbacks[f].answer = "true" /\ callbacks[f].pays = Nothing
                 /\ mem' = Apply(mem, CallbackTx(f)) /\ UNCHANGED queue
              \/ callbacks[f].answer = "true" /\ callbacks[f].pays # Nothing
                 /\ mem' = Apply(mem, CallbackTx(f)) /\ Send(callbacks[f].pays)
  BY DEF ProcessCallback, CallbackTx

LEMMA RestrictFacts ==
    ASSUME TypeInv, NEW D \in SUBSET DOMAIN callbacks
    PROVE  /\ DOMAIN Restrict(callbacks, D) = D /\ D \subseteq Futures
           /\ Restrict(callbacks, D) \in [D -> Callback]
           /\ \A f \in D : Restrict(callbacks, D)[f] = callbacks[f]
  BY DEF Restrict, TypeInv

\* The same queue, with callbacks that include those that wait.
LEMMA AskingStays ==
    ASSUME Asking, queue' = queue,
           \A f \in DOMAIN callbacks : callbacks[f].answer = "none" =>
               f \in DOMAIN callbacks' /\ callbacks'[f].answer = "none"
    PROVE  Asking'
  BY DEF Asking

LEMMA CallbackKeeps ==
    ASSUME TypeInv, NEW f \in DOMAIN callbacks, ProcessCallback(f)
    PROVE  TypeInv'
<1> DEFINE t == callbacks[f].pays
           u == CallbackTx(f)
<1>1. /\ t \in Transaction /\ u \in Transaction /\ u.mail = t.mail /\ t.mail \in [Players -> Nat]
      /\ t.asks = NoFuture
  BY CallbackFacts
<1>2. /\ callbacks[f].answer # "none"
      /\ callbacks' = Restrict(callbacks, DOMAIN callbacks \ {f})
      /\ UNCHANGED <<db, session, sales, leaves, faults, drops>>
  BY CallbackSteps
<1>3. /\ DOMAIN callbacks' \subseteq Futures /\ callbacks' \in [DOMAIN callbacks' -> Callback]
      /\ DOMAIN callbacks' = DOMAIN callbacks \ {f}
      /\ \A g \in DOMAIN callbacks' : callbacks'[g] = callbacks[g]
  BY <1>2, RestrictFacts
<1>4. \A g \in DOMAIN callbacks : callbacks[g].answer = "none" =>
          g \in DOMAIN callbacks' /\ callbacks'[g].answer = "none"
  BY <1>2, <1>3
<1>5. CASE UNCHANGED <<mem, queue>>
  <2>1. Asking'
    BY <1>4, <1>5, AskingStays DEF TypeInv
  <2> QED BY <1>2, <1>3, <1>5, <2>1 DEF TypeInv
<1>6. CASE t = Nothing /\ mem' = Apply(mem, u) /\ UNCHANGED queue
  <2>1. Asking'
    BY <1>4, <1>6, AskingStays DEF TypeInv
  <2>2. u.mail = NoGold
    BY <1>1, <1>6, NothingType
  <2>3. mem \in World /\ mem.post \in [Players -> Nat]
    BY WorldFacts DEF TypeInv
  <2>4. \A q \in Players : mem.post[q] + u.mail[q] = mem.post[q] /\ mem.post[q] >= 0
    BY <2>2, <2>3 DEF NoGold
  <2> HIDE DEF u, t
  <2>5. mem' \in World
    BY <1>1, <1>6, <2>3, <2>4, ApplyType
  <2>6. mem'.post \in [Players -> Nat] /\ \A q \in Players : mem'.post[q] = mem.post[q]
    <3>1. /\ Apply(mem, u).post \in [Players -> Nat]
          /\ \A q \in Players : mem.post[q] + u.mail[q] >= 0
                                 => Apply(mem, u).post[q] = mem.post[q] + u.mail[q]
      BY <1>1, <2>3, ApplyFacts
    <3> QED BY <1>6, <2>4, <3>1
  <2>7. mem'.post = mem.post
    BY <2>3, <2>6
  <2>8. drops' = 0 => \E h : Trace(h, queue', Posts, PostSteps, db'.post, mem'.post)
    BY <1>2, <1>6, <2>7 DEF TypeInv
  <2> QED BY <1>2, <1>3, <1>6, <2>1, <2>5, <2>8 DEF TypeInv
<1>7. CASE mem' = Apply(mem, u) /\ Send(t)
  <2>1. \A q \in Players : mem.post[q] + t.mail[q] >= 0
    BY <1>1, WorldFacts DEF TypeInv
  <2> HIDE DEF u, t
  <2>2. /\ mem' \in World /\ db' \in World /\ queue' \in Seq(Transaction)
        /\ Len(queue') = Len(queue) + 1 /\ Len(queue) \in Nat /\ queue'[Len(queue) + 1] = t
        /\ \A k \in 1 .. Len(queue) : queue'[k] = queue[k]
        /\ drops' = 0 => \E h : Trace(h, queue', Posts, PostSteps, db'.post, mem'.post)
    BY <1>1, <1>2, <1>7, <2>1, SendKeeps
  <2>3. Asking'
    BY <1>1, <1>4, <2>2, AskingAppend
  <2> QED BY <1>2, <1>3, <2>2, <2>3 DEF TypeInv
<1> QED BY <1>5, <1>6, <1>7, CallbackSteps

LEMMA HeadFacts ==
    ASSUME NEW q \in Seq(Transaction), q # <<>>
    PROVE  /\ Head(q) \in Transaction /\ Head(q) = q[1] /\ Tail(q) \in Seq(Transaction)
           /\ Len(q) \in Nat \ {0} /\ Len(Tail(q)) = Len(q) - 1
           /\ \A k \in 1 .. Len(q) - 1 : Tail(q)[k] = q[k + 1]
<1>1. Len(q) \in Nat \ {0} /\ Head(q) = q[1] /\ Tail(q) \in Seq(Transaction)
  OBVIOUS
<1>2. Len(Tail(q)) = Len(q) - 1 /\ \A k \in 1 .. Len(q) - 1 : Tail(q)[k] = q[k + 1]
  OBVIOUS
<1>3. q[1] \in Transaction
  BY <1>1
<1> QED BY <1>1, <1>2, <1>3

LEMMA AnswerFacts ==
    ASSUME TypeInv, queue # <<>>, NEW answer \in {"true", "false"}
    PROVE  /\ DOMAIN Answer(Head(queue).asks, answer) = DOMAIN callbacks
           /\ Answer(Head(queue).asks, answer) \in [DOMAIN callbacks -> Callback]
           /\ \A f \in DOMAIN callbacks :
                /\ Answer(Head(queue).asks, answer)[f]
                     = IF f = Head(queue).asks THEN [callbacks[f] EXCEPT !.answer = answer]
                       ELSE callbacks[f]
                /\ Answer(Head(queue).asks, answer)[f].session = callbacks[f].session
                /\ Answer(Head(queue).asks, answer)[f].register = callbacks[f].register
                /\ Answer(Head(queue).asks, answer)[f].pays = callbacks[f].pays
                /\ Answer(Head(queue).asks, answer)[f].answer
                     = IF f = Head(queue).asks THEN answer ELSE callbacks[f].answer
<1> DEFINE g == Head(queue).asks
           a == Answer(g, answer)
<1>1. /\ callbacks \in [DOMAIN callbacks -> Callback] /\ queue \in Seq(Transaction)
      /\ DOMAIN callbacks \subseteq Futures
  BY DEF TypeInv
<1>2. g # NoFuture => g \in DOMAIN callbacks
  <2>1. Head(queue) = queue[1] /\ 1 \in 1 .. Len(queue)
    BY <1>1, HeadFacts
  <2> QED BY <2>1 DEF TypeInv, Asking
<1>3. g = NoFuture => g \notin DOMAIN callbacks
  BY <1>1, NobodyAssumption
<1> HIDE DEF g
<1>4. DOMAIN a = DOMAIN callbacks
  BY <1>1, <1>2 DEF Answer
<1>5. \A f \in DOMAIN callbacks :
        a[f] = IF f = g THEN [callbacks[f] EXCEPT !.answer = answer] ELSE callbacks[f]
  BY <1>1, <1>2, <1>3 DEF Answer
<1>6. \A c \in Callback : /\ [c EXCEPT !.answer = answer] \in Callback
                          /\ [c EXCEPT !.answer = answer].session = c.session
                          /\ [c EXCEPT !.answer = answer].register = c.register
                          /\ [c EXCEPT !.answer = answer].pays = c.pays
                          /\ [c EXCEPT !.answer = answer].answer = answer
  BY DEF Callback
<1>7. a \in [DOMAIN callbacks -> Callback]
  <2>1. CASE g = NoFuture
    BY <1>1, <2>1 DEF Answer
  <2>2. CASE g # NoFuture
    <3>1. a = [callbacks EXCEPT ![g] = [callbacks[g] EXCEPT !.answer = answer]]
      BY <2>2 DEF Answer
    <3>2. [callbacks[g] EXCEPT !.answer = answer] \in Callback
      BY <1>1, <1>2, <1>6, <2>2
    <3> QED BY <1>1, <3>1, <3>2
  <2> QED BY <2>1, <2>2
<1> HIDE DEF a
<1>8. ASSUME NEW f \in DOMAIN callbacks
      PROVE  /\ a[f].session = callbacks[f].session /\ a[f].register = callbacks[f].register
             /\ a[f].pays = callbacks[f].pays
             /\ a[f].answer = IF f = g THEN answer ELSE callbacks[f].answer
  <2>1. callbacks[f] \in Callback
    BY <1>1
  <2> QED BY <1>5, <1>6, <2>1
<1> QED BY <1>4, <1>5, <1>7, <1>8 DEF a, g

LEMMA AskingTail ==
    ASSUME TypeInv, queue # <<>>, queue' = Tail(queue), NEW answer \in {"true", "false"},
           callbacks' = Answer(Head(queue).asks, answer)
    PROVE  Asking'
<1>1. queue \in Seq(Transaction) /\ Asking
  BY DEF TypeInv
<1>2. /\ Head(queue) = queue[1] /\ Len(queue) \in Nat \ {0} /\ Len(queue') = Len(queue) - 1
      /\ \A k \in 1 .. Len(queue) - 1 : queue'[k] = queue[k + 1]
  BY <1>1, HeadFacts
<1>3. SUFFICES ASSUME NEW k \in 1 .. Len(queue) - 1, queue'[k].asks # NoFuture
               PROVE  /\ queue'[k].asks \in DOMAIN callbacks'
                      /\ callbacks'[queue'[k].asks].answer = "none"
                      /\ queue'[k].mail = NoGold /\ queue'[k].parcel = Empty
                      /\ \A j \in 1 .. Len(queue) - 1 : queue'[j].asks = queue'[k].asks => j = k
  BY <1>2 DEF Asking
<1>4. k + 1 \in 1 .. Len(queue) /\ 1 \in 1 .. Len(queue) /\ queue'[k] = queue[k + 1] /\ k + 1 # 1
  BY <1>2
<1>5. /\ queue'[k].asks \in DOMAIN callbacks /\ callbacks[queue'[k].asks].answer = "none"
      /\ queue'[k].mail = NoGold /\ queue'[k].parcel = Empty
      /\ queue[1].asks # queue'[k].asks
  BY <1>1, <1>3, <1>4 DEF Asking
<1>6. /\ queue'[k].asks \in DOMAIN callbacks'
      /\ callbacks'[queue'[k].asks].answer = "none"
  <2>1. /\ DOMAIN callbacks' = DOMAIN callbacks
        /\ \A f \in DOMAIN callbacks :
             callbacks'[f].answer = IF f = Head(queue).asks THEN answer ELSE callbacks[f].answer
    BY AnswerFacts
  <2> QED BY <1>2, <1>5, <2>1
<1>7. ASSUME NEW j \in 1 .. Len(queue) - 1, queue'[j].asks = queue'[k].asks PROVE j = k
  <2>1. j + 1 \in 1 .. Len(queue) /\ queue'[j] = queue[j + 1]
    BY <1>2
  <2>2. j + 1 = k + 1
    BY <1>1, <1>3, <1>4, <1>7, <2>1 DEF Asking
  <2> QED BY <2>2
<1> QED BY <1>5, <1>6, <1>7

LEMMA CommitKeeps ==
    ASSUME TypeInv, Commit
    PROVE  TypeInv'
<1> DEFINE t == Head(queue)
<1>1. /\ queue # <<>> /\ db' = Apply(db, t) /\ queue' = Tail(queue)
      /\ callbacks' = Answer(t.asks, "true")
      /\ UNCHANGED <<mem, session, sales, leaves, faults, drops>>
  BY DEF Commit
<1>2. /\ queue \in Seq(Transaction) /\ db \in World
      /\ drops = 0 => \E h : Trace(h, queue, Posts, PostSteps, db.post, mem.post)
  BY DEF TypeInv
<1>3. t \in Transaction /\ queue' \in Seq(Transaction)
  BY <1>1, <1>2, HeadFacts
<1>6. db' \in World
  BY <1>1, <1>2, <1>3, ApplyType
<1>7. ASSUME drops' = 0 PROVE \E h : Trace(h, queue', Posts, PostSteps, db'.post, mem'.post)
  <2>1. PICK c \in Posts : /\ <<db.post, t, c>> \in PostSteps
                           /\ \E h : Trace(h, queue', Posts, PostSteps, c, mem.post)
    BY <1>1, <1>2, <1>7, TraceTail
  <2> HIDE DEF t
  <2>2. \A p \in Players : c[p] = db.post[p] + t.mail[p] /\ c[p] \in Nat
    BY <2>1, PostStep DEF Posts
  <2>3. db'.post \in [Players -> Nat] /\ \A p \in Players : db'.post[p] = db.post[p] + t.mail[p]
    BY <1>1, <1>2, <1>3, <2>2, ApplyFacts, SMTT(40)
  <2>4. db'.post = c
    BY <2>1, <2>2, <2>3 DEF Posts
  <2> QED BY <1>1, <2>1, <2>4
<1> HIDE DEF t
<1>8. /\ DOMAIN callbacks' = DOMAIN callbacks
      /\ callbacks' \in [DOMAIN callbacks -> Callback]
  BY <1>1, AnswerFacts DEF t
<1>9. Asking'
  BY <1>1, AskingTail DEF t
<1> QED BY <1>1, <1>3, <1>6, <1>7, <1>8, <1>9 DEF TypeInv

LEMMA FailKeeps ==
    ASSUME TypeInv, Fail
    PROVE  TypeInv'
<1> DEFINE t == Head(queue)
<1>1. /\ queue # <<>> /\ t.asks # NoFuture /\ faults + drops < MaxFailures
      /\ queue' = Tail(queue)
      /\ callbacks' = Answer(t.asks, "false") /\ faults' = faults + 1
      /\ UNCHANGED <<mem, db, session, sales, leaves, drops>>
  BY DEF Fail
<1>2. /\ queue \in Seq(Transaction) /\ db \in World /\ Asking
      /\ drops = 0 => \E h : Trace(h, queue, Posts, PostSteps, db.post, mem.post)
  BY DEF TypeInv
<1>3. t \in Transaction /\ queue' \in Seq(Transaction) /\ t = queue[1] /\ 1 \in 1 .. Len(queue)
  BY <1>1, <1>2, HeadFacts
<1>5. t.mail = NoGold
  BY <1>1, <1>2, <1>3 DEF Asking
<1>6. ASSUME drops' = 0 PROVE \E h : Trace(h, queue', Posts, PostSteps, db'.post, mem'.post)
  <2>1. PICK c \in Posts : /\ <<db.post, t, c>> \in PostSteps
                           /\ \E h : Trace(h, queue', Posts, PostSteps, c, mem.post)
    BY <1>1, <1>2, <1>6, TraceTail
  <2> HIDE DEF t
  <2>2. db.post \in Posts /\ \A p \in Players : c[p] = db.post[p] + t.mail[p]
    BY <2>1, PostStep
  <2>3. \A p \in Players : c[p] = db.post[p]
    BY <1>5, <2>2 DEF NoGold, Posts
  <2>4. c = db.post
    BY <2>1, <2>2, <2>3 DEF Posts
  <2> QED BY <1>1, <2>1, <2>4
<1> HIDE DEF t
<1>7. /\ DOMAIN callbacks' = DOMAIN callbacks
      /\ callbacks' \in [DOMAIN callbacks -> Callback]
  BY <1>1, AnswerFacts DEF t
<1>8. Asking'
  BY <1>1, AskingTail DEF t
<1>9. faults' \in Nat /\ faults' + drops' <= MaxFailures
  <2>1. faults \in Nat /\ drops \in Nat /\ MaxFailures \in Nat
    BY LimitAssumption DEF TypeInv
  <2> QED BY <1>1, <2>1
<1> QED BY <1>1, <1>3, <1>6, <1>7, <1>8, <1>9 DEF TypeInv

LEMMA DropKeeps ==
    ASSUME TypeInv, Drop
    PROVE  TypeInv'
<1>1. /\ queue # <<>> /\ Head(queue).asks = NoFuture /\ faults + drops < MaxFailures
      /\ queue' = Tail(queue) /\ drops' = drops + 1
      /\ UNCHANGED <<mem, db, session, callbacks, sales, leaves, faults>>
  BY DEF Drop
<1>2. queue' \in Seq(Transaction)
  BY <1>1, HeadFacts DEF TypeInv
<1>3. Asking'
  <2>1. callbacks' = Answer(Head(queue).asks, "true")
    BY <1>1 DEF Answer
  <2> QED BY <1>1, <2>1, AskingTail
<1>4. drops' \in Nat /\ drops' # 0 /\ faults' + drops' <= MaxFailures
  <2>1. faults \in Nat /\ drops \in Nat /\ MaxFailures \in Nat
    BY LimitAssumption DEF TypeInv
  <2>2. faults + drops < MaxFailures /\ drops' = drops + 1 /\ faults' = faults
    BY <1>1
  <2> QED BY <2>1, <2>2
<1> QED BY <1>1, <1>2, <1>3, <1>4 DEF TypeInv

LEMMA LeaveFacts ==
    ASSUME TypeInv, NEW p \in Players, Leave(p)
    PROVE  /\ session[p] = "in" /\ Len(queue) \in Nat
           /\ session' = [session EXCEPT ![p] = "left"] /\ leaves' = leaves + 1
           /\ UNCHANGED <<mem, db, sales, faults, drops>>
           /\ DOMAIN callbacks' = {f \in DOMAIN callbacks : callbacks[f].session # p}
           /\ callbacks' \in [DOMAIN callbacks' -> Callback]
           /\ \A f \in DOMAIN callbacks' : callbacks'[f] = callbacks[f]
           /\ \E q \in Seq(Transaction) :
                /\ queue' = Append(q, SaveTx(p)) \/ queue' = q
                /\ Len(q) = Len(queue)
                /\ \A k \in 1 .. Len(queue) :
                     /\ q[k].purse = queue[k].purse /\ q[k].bag = queue[k].bag
                     /\ q[k].parcel = queue[k].parcel /\ q[k].row = queue[k].row
                     /\ q[k].mail = queue[k].mail
                     /\ q[k].asks = IF queue[k].asks \in DOMAIN callbacks' THEN queue[k].asks
                                    ELSE NoFuture
<1> DEFINE D == {f \in DOMAIN callbacks : callbacks[f].session # p}
           Of(g) == IF g \in DOMAIN callbacks' THEN g ELSE NoFuture
           q == [k \in DOMAIN queue |-> [queue[k] EXCEPT !.asks = Of(@)]]
<1>1. /\ session[p] = "in" /\ session' = [session EXCEPT ![p] = "left"] /\ leaves' = leaves + 1
      /\ callbacks' = Restrict(callbacks, D) /\ (queue' = Append(q, SaveTx(p)) \/ queue' = q)
      /\ UNCHANGED <<mem, db, sales, faults, drops>>
  BY LeaveSends
<1>2. queue \in Seq(Transaction)
  BY DEF TypeInv
<1>3. Len(queue) \in Nat /\ DOMAIN queue = 1 .. Len(queue)
      /\ \A k \in 1 .. Len(queue) : queue[k] \in Transaction
  BY <1>2
<1>4. /\ DOMAIN callbacks' = D /\ D \subseteq Futures
      /\ callbacks' \in [D -> Callback] /\ \A f \in D : callbacks'[f] = callbacks[f]
  BY <1>1, RestrictFacts
<1>5. \A g : Of(g) \in Futures \cup {NoFuture}
  BY <1>4
<1>6. ASSUME NEW t \in Transaction
      PROVE  LET u == [t EXCEPT !.asks = Of(@)]
             IN  /\ u \in Transaction /\ u.purse = t.purse /\ u.bag = t.bag /\ u.parcel = t.parcel
                 /\ u.row = t.row /\ u.mail = t.mail /\ u.asks = Of(t.asks)
  <2> DEFINE g == Of(t.asks)
  <2>1. g \in Futures \cup {NoFuture}
    BY <1>5
  <2>2. [t EXCEPT !.asks = Of(@)] = [t EXCEPT !.asks = g]
    OBVIOUS
  <2> HIDE DEF g
  <2>3. LET u == [t EXCEPT !.asks = g]
        IN  /\ u \in Transaction /\ u.purse = t.purse /\ u.bag = t.bag /\ u.parcel = t.parcel
            /\ u.row = t.row /\ u.mail = t.mail /\ u.asks = g
    BY <2>1 DEF Transaction
  <2> QED BY <2>2, <2>3 DEF g
<1> HIDE DEF Of, D
<1>7. q \in [1 .. Len(queue) -> Transaction]
  <2>1. \A k \in 1 .. Len(queue) : [queue[k] EXCEPT !.asks = Of(@)] \in Transaction
    BY <1>3, <1>6
  <2> QED BY <1>3, <2>1
<1>8. q \in Seq(Transaction) /\ Len(q) = Len(queue)
  <2> HIDE DEF q
  <2> QED BY <1>3, <1>7
<1>9. ASSUME NEW k \in 1 .. Len(queue)
      PROVE  /\ q[k].purse = queue[k].purse /\ q[k].bag = queue[k].bag
             /\ q[k].parcel = queue[k].parcel /\ q[k].row = queue[k].row
             /\ q[k].mail = queue[k].mail /\ q[k].asks = Of(queue[k].asks)
  <2>1. queue[k] \in Transaction
    BY <1>3
  <2>2. q[k] = [queue[k] EXCEPT !.asks = Of(@)]
    BY <1>3
  <2> QED BY <1>6, <2>1, <2>2
<1> HIDE DEF q
<1>10. /\ DOMAIN callbacks' = D /\ callbacks' \in [DOMAIN callbacks' -> Callback]
       /\ \A f \in DOMAIN callbacks' : callbacks'[f] = callbacks[f]
  BY <1>4
<1> QED BY <1>1, <1>3, <1>8, <1>9, <1>10 DEF D, Of

LEMMA LeaveKeeps ==
    ASSUME TypeInv, NEW p \in Players, Leave(p)
    PROVE  TypeInv'
<1> DEFINE t == SaveTx(p)
           n == Len(queue)
<1>1. /\ session[p] = "in" /\ n \in Nat
      /\ session' = [session EXCEPT ![p] = "left"] /\ leaves' = leaves + 1
      /\ UNCHANGED <<mem, db, sales, faults, drops>>
      /\ DOMAIN callbacks' = {f \in DOMAIN callbacks : callbacks[f].session # p}
      /\ callbacks' \in [DOMAIN callbacks' -> Callback]
      /\ \A f \in DOMAIN callbacks' : callbacks'[f] = callbacks[f]
  BY LeaveFacts
<1>2. PICK q \in Seq(Transaction) :
                /\ queue' = Append(q, SaveTx(p)) \/ queue' = q
                /\ Len(q) = Len(queue)
                /\ \A k \in 1 .. Len(queue) :
                     /\ q[k].purse = queue[k].purse /\ q[k].bag = queue[k].bag
                     /\ q[k].parcel = queue[k].parcel /\ q[k].row = queue[k].row
                     /\ q[k].mail = queue[k].mail
                     /\ q[k].asks = IF queue[k].asks \in DOMAIN callbacks' THEN queue[k].asks
                                    ELSE NoFuture
  BY LeaveFacts
<1>3. t \in Transaction /\ t.mail = NoGold /\ t.asks = NoFuture
  <2>1. NoGold \in [Players -> Int] /\ mem.purse[p] \in Nat
    BY WorldFacts DEF NoGold, TypeInv
  <2>2. t \in Transaction
    BY <2>1, OnlyType, TxType DEF SaveTx
  <2> QED BY <2>2, TxFacts DEF SaveTx
<1>4. /\ queue \in Seq(Transaction) /\ Asking /\ leaves < MaxLeaves
      /\ mem.post \in Posts /\ DOMAIN callbacks \subseteq Futures
      /\ drops = 0 => \E h : Trace(h, queue, Posts, PostSteps, db.post, mem.post)
  BY LeaveSends, WorldFacts DEF TypeInv, Posts
<1>a. queue' = Append(q, t) \/ queue' = q
  BY <1>2
<1> HIDE DEF t
<1>5. drops = 0 => \E h : Trace(h, q, Posts, PostSteps, db.post, mem.post)
  <2>1. \A k \in 1 .. n : q[k] \in Transaction
    BY <1>2
  <2>2. \A k \in 1 .. n : \A x \in Posts, y \in Posts :
            <<x, queue[k], y>> \in PostSteps => <<x, q[k], y>> \in PostSteps
    BY <1>2, <2>1, PostStep, SMTT(40)
  <2> QED BY <1>1, <1>2, <1>4, <2>2, TraceWeaken
<1>6. <<mem.post, t, mem.post>> \in PostSteps
  <2>1. \A r \in Players : mem.post[r] = mem.post[r] + t.mail[r]
    BY <1>3, <1>4 DEF NoGold, Posts
  <2> QED BY <1>3, <1>4, <2>1, PostStep
<1>7. drops = 0 => \E h : Trace(h, Append(q, t), Posts, PostSteps, db.post, mem.post)
  BY <1>3, <1>4, <1>5, <1>6, TraceAppend
<1>8. /\ queue' \in Seq(Transaction) /\ 1 .. Len(queue') \subseteq 1 .. n + 1
      /\ n + 1 \in 1 .. Len(queue') => queue'[n + 1] = t
      /\ \A k \in 1 .. n : queue'[k] = q[k]
  <2>1. CASE queue' = Append(q, t)
    BY <1>1, <1>2, <1>3, <2>1
  <2>2. CASE queue' = q
    BY <1>1, <1>2, <2>2
  <2> QED BY <1>a, <2>1, <2>2
<1>9. Asking'
  <2>1. SUFFICES ASSUME NEW k \in 1 .. Len(queue'), queue'[k].asks # NoFuture
               PROVE  /\ queue'[k].asks \in DOMAIN callbacks'
                      /\ callbacks'[queue'[k].asks].answer = "none"
                      /\ queue'[k].mail = NoGold /\ queue'[k].parcel = Empty
                      /\ \A j \in 1 .. Len(queue') : queue'[j].asks = queue'[k].asks => j = k
    BY DEF Asking
  <2>2. k \in 1 .. n
    <3>1. k # n + 1
      BY <1>3, <1>8, <2>1
    <3> QED BY <1>1, <1>8, <3>1
  <2>3. queue'[k] = q[k] /\ queue[k].asks \in DOMAIN callbacks' /\ q[k].asks = queue[k].asks
    BY <1>2, <1>8, <2>1, <2>2
  <2>4. queue[k].asks # NoFuture
    BY <2>1, <2>3
  <2>5. /\ queue[k].asks \in DOMAIN callbacks /\ callbacks[queue[k].asks].answer = "none"
        /\ queue[k].mail = NoGold /\ queue[k].parcel = Empty
    BY <1>4, <2>2, <2>4 DEF Asking
  <2>6. ASSUME NEW j \in 1 .. Len(queue'), queue'[j].asks = queue'[k].asks PROVE j = k
    <3>1. j \in 1 .. n
      <4>1. j # n + 1
        BY <1>3, <1>8, <2>1, <2>6
      <4> QED BY <1>1, <1>8, <4>1
    <3>2. queue[j].asks = queue[k].asks
      BY <1>2, <1>8, <2>1, <2>3, <2>6, <3>1
    <3> QED BY <1>4, <2>2, <2>4, <3>1, <3>2 DEF Asking
  <2> QED BY <1>1, <1>2, <2>2, <2>3, <2>5, <2>6
<1>10. leaves' \in Nat /\ leaves' > 0 /\ leaves' <= MaxLeaves
  BY <1>1, <1>4, LimitAssumption DEF TypeInv
<1>11. session' \in [Players -> {"in", "left"}] /\ DOMAIN callbacks' \subseteq Futures
  BY <1>1, <1>4 DEF TypeInv
<1>12. drops' = 0 => \E h : Trace(h, queue', Posts, PostSteps, db'.post, mem'.post)
  BY <1>1, <1>a, <1>5, <1>7
<1>13. /\ sales' \in 0 .. MaxSales /\ faults' \in Nat /\ drops' \in Nat
       /\ faults' + drops' <= MaxFailures /\ mem' \in World /\ db' \in World
  BY <1>1 DEF TypeInv
<1> QED BY <1>1, <1>8, <1>9, <1>10, <1>11, <1>12, <1>13 DEF TypeInv

LEMMA ReturnFacts ==
    ASSUME TypeInv, NEW p \in Players, Return(p)
    PROVE  /\ session[p] = "left" /\ session' = [session EXCEPT ![p] = "in"]
           /\ \A k \in 1 .. Len(queue) :
                /\ p \notin DOMAIN queue[k].purse /\ queue[k].mail[p] = 0
                /\ \A l \in DOMAIN queue[k].parcel : queue[k].parcel[l] # p
           /\ mem' \in World
           /\ mem'.purse = [mem.purse EXCEPT ![p] = db.purse[p]]
           /\ mem'.post = [mem.post EXCEPT ![p] = db.post[p]]
           /\ \A l \in Lots : mem'.bag[l] = IF db.bag[l] = p THEN p
                                            ELSE IF mem.bag[l] = p THEN Nobody ELSE mem.bag[l]
           /\ \A l \in Lots : mem'.parcel[l] = IF db.parcel[l] = p THEN p
                                               ELSE IF mem.parcel[l] = p THEN Nobody
                                               ELSE mem.parcel[l]
           /\ mem'.row = mem.row
           /\ UNCHANGED <<db, queue, callbacks, sales, leaves, faults, drops>>
<1> DEFINE bag == Loaded(mem.bag, db.bag, p)
           parcel == Loaded(mem.parcel, db.parcel, p)
           purse == [mem.purse EXCEPT ![p] = db.purse[p]]
           post == [mem.post EXCEPT ![p] = db.post[p]]
<1>1. /\ session[p] = "left" /\ session' = [session EXCEPT ![p] = "in"]
      /\ \A k \in DOMAIN queue :
           /\ p \notin DOMAIN queue[k].purse /\ queue[k].mail[p] = 0
           /\ \A l \in DOMAIN queue[k].parcel : queue[k].parcel[l] # p
      /\ mem' = [mem EXCEPT !.purse[p] = db.purse[p], !.post[p] = db.post[p],
                            !.bag = bag, !.parcel = parcel]
      /\ UNCHANGED <<db, queue, callbacks, sales, leaves, faults, drops>>
  BY DEF Return
<1>2. DOMAIN queue = 1 .. Len(queue)
  BY DEF TypeInv
<1>3. /\ purse \in [Players -> Nat] /\ post \in [Players -> Nat]
      /\ bag \in [Lots -> Players \cup {Nobody}] /\ parcel \in [Lots -> Players \cup {Nobody}]
      /\ \A l \in Lots : bag[l] = IF db.bag[l] = p THEN p
                                  ELSE IF mem.bag[l] = p THEN Nobody ELSE mem.bag[l]
      /\ \A l \in Lots : parcel[l] = IF db.parcel[l] = p THEN p
                                     ELSE IF mem.parcel[l] = p THEN Nobody ELSE mem.parcel[l]
  BY WorldFacts DEF TypeInv, Loaded
<1>4. mem' = [mem EXCEPT !.purse = purse, !.post = post, !.bag = bag, !.parcel = parcel]
  BY <1>1
<1>5. mem \in World
  BY DEF TypeInv
<1> HIDE DEF purse, bag, post, parcel
<1>6. \A w \in World :
        LET v == [w EXCEPT !.purse = purse, !.post = post, !.bag = bag, !.parcel = parcel]
        IN  /\ v \in World /\ v.purse = purse /\ v.post = post /\ v.bag = bag
            /\ v.parcel = parcel /\ v.row = w.row
  BY <1>3 DEF World
<1>8. /\ mem' \in World /\ mem'.purse = purse /\ mem'.bag = bag /\ mem'.post = post
      /\ mem'.parcel = parcel /\ mem'.row = mem.row
  BY <1>4, <1>5, <1>6
<1> QED BY <1>1, <1>2, <1>3, <1>8 DEF purse, post

\* No mail of his is in the queue, so the tables hold those he had.
LEMMA ReturnPost ==
    ASSUME TypeInv, drops = 0, NEW p \in Players,
           \A k \in 1 .. Len(queue) : queue[k].mail[p] = 0
    PROVE  mem.post[p] = db.post[p]
<1> DEFINE C == {x \in Posts : x[p] = db.post[p]}
<1>1. /\ Len(queue) \in Nat /\ \E h : Trace(h, queue, Posts, PostSteps, db.post, mem.post)
      /\ db.post \in Posts
  <2>1. db \in World /\ queue \in Seq(Transaction)
    BY DEF TypeInv
  <2>2. db.post \in Posts
    BY <2>1, WorldFacts DEF Posts
  <2> QED BY <2>1, <2>2 DEF TypeInv
<1>2. ASSUME NEW k \in 1 .. Len(queue), NEW x \in Posts, NEW y \in Posts,
             <<x, queue[k], y>> \in PostSteps, x \in C
      PROVE  y \in C
  <2>1. y[p] = x[p] + queue[k].mail[p] /\ queue[k].mail[p] = 0 /\ x[p] = db.post[p]
    BY <1>2, PostStep
  <2> QED BY <2>1, <1>1 DEF Posts
<1>3. db.post \in C
  BY <1>1
<1> HIDE DEF C
<1>4. mem.post \in C
  BY <1>1, <1>2, <1>3, TraceKeeps
<1> QED BY <1>4 DEF C

LEMMA ReturnKeeps ==
    ASSUME TypeInv, NEW p \in Players, Return(p)
    PROVE  TypeInv'
<1>1. /\ session' = [session EXCEPT ![p] = "in"] /\ mem' \in World
      /\ mem'.post = [mem.post EXCEPT ![p] = db.post[p]]
      /\ \A k \in 1 .. Len(queue) : queue[k].mail[p] = 0
      /\ UNCHANGED <<db, queue, callbacks, sales, leaves, faults, drops>>
  BY ReturnFacts
<1>2. Asking'
  BY <1>1, AskingStays DEF TypeInv
<1>3. /\ session' \in [Players -> {"in", "left"}]
      /\ \A q \in Players : session'[q] = "left" => leaves' > 0
  BY <1>1 DEF TypeInv
<1>4. drops = 0 => mem'.post = mem.post
  <2>1. mem.post \in [Players -> Nat]
    BY WorldFacts DEF TypeInv
  <2>2. drops = 0 => mem.post[p] = db.post[p]
    BY <1>1, ReturnPost
  <2> QED BY <1>1, <2>1, <2>2
<1> QED BY <1>1, <1>2, <1>3, <1>4 DEF TypeInv

LEMMA InitFacts ==
    ASSUME Init
    PROVE  /\ db \in World /\ mem = db /\ queue = <<>> /\ session = [p \in Players |-> "in"]
           /\ callbacks = Empty /\ DOMAIN callbacks = {}
           /\ sales = 0 /\ leaves = 0 /\ faults = 0 /\ drops = 0
<1>1. /\ db \in World /\ mem = db /\ queue = <<>> /\ session = [p \in Players |-> "in"]
      /\ callbacks = Empty /\ sales = 0 /\ leaves = 0 /\ faults = 0 /\ drops = 0
  BY DEF Init
<1> QED BY <1>1, PartialFacts

LEMMA TypeInit == Init => TypeInv
<1> SUFFICES ASSUME Init PROVE TypeInv
  OBVIOUS
<1>1. /\ db \in World /\ mem = db /\ queue = <<>> /\ session = [p \in Players |-> "in"]
      /\ callbacks = Empty /\ DOMAIN callbacks = {}
      /\ sales = 0 /\ leaves = 0 /\ faults = 0 /\ drops = 0
  BY InitFacts
<1>2. queue \in Seq(Transaction) /\ Len(queue) = 0
  BY <1>1
<1>3. callbacks \in [DOMAIN callbacks -> Callback] /\ DOMAIN callbacks \subseteq Futures
  BY <1>1 DEF Empty
<1>4. Asking
  BY <1>2 DEF Asking
<1>5. drops = 0 => \E h : Trace(h, queue, Posts, PostSteps, db.post, mem.post)
  BY <1>1, TraceEmpty, WorldFacts DEF Posts
<1> QED BY <1>1, <1>2, <1>3, <1>4, <1>5, LimitAssumption DEF TypeInv

\* Every step is one of these.
LEMMA NextCases ==
    ASSUME Next
    PROVE  \/ \E p \in Players, l \in Lots : SellItem(p, l)
           \/ \E p \in Players, l \in Lots : \E price \in Prices : PlaceBid(p, l, price)
           \/ \E p, l, ended, t : Plain(p, l, ended, t)
           \/ \E f \in DOMAIN callbacks : ProcessCallback(f)
           \/ Commit \/ Fail \/ Drop
           \/ \E p \in Players : Leave(p) \/ Return(p)
<1>1. ASSUME NEW p \in Players, NEW l \in Lots, RemoveItem(p, l)
      PROVE  \E r, m, ended, t : Plain(r, m, ended, t)
  BY <1>1 DEF Plain
<1>2. ASSUME NEW p \in Players, NEW l \in Lots, TakeItem(p, l)
      PROVE  \E r, m, ended, t : Plain(r, m, ended, t)
  BY <1>2 DEF Plain
<1>3. ASSUME NEW p \in Players, TakeMoney(p)
      PROVE  \E r, m, ended, t : Plain(r, m, ended, t)
  BY <1>3 DEF Plain
<1>4. ASSUME NEW ended \in SUBSET Lots, Update(ended)
      PROVE  \E r, m, e, t : Plain(r, m, e, t)
  BY <1>4 DEF Plain
<1> QED BY <1>1, <1>2, <1>3, <1>4 DEF Next

LEMMA TypeNext == TypeInv /\ [Next]_vars => TypeInv'
<1> SUFFICES ASSUME TypeInv, [Next]_vars PROVE TypeInv'
  OBVIOUS
<1>1. CASE \E p \in Players, l \in Lots : SellItem(p, l)
  BY <1>1, SellKeeps
<1>2. CASE \E p \in Players, l \in Lots : \E price \in Prices : PlaceBid(p, l, price)
  BY <1>2, BidKeeps
<1>3. CASE \E p, l, ended, t : Plain(p, l, ended, t)
  <2>1. PICK p, l, ended, t : Plain(p, l, ended, t)
    BY <1>3
  <2>2. /\ t \in Transaction /\ t.asks = NoFuture
        /\ \A q \in Players : mem.post[q] + t.mail[q] >= 0
        /\ Send(t) /\ mem' = Apply(mem, t)
        /\ UNCHANGED <<db, session, callbacks, sales, leaves, faults, drops>>
    BY <2>1, PlainSteps
  <2> QED BY <2>2, PlainKeeps
<1>4. CASE \E f \in DOMAIN callbacks : ProcessCallback(f)
  BY <1>4, CallbackKeeps
<1>5. CASE Commit
  BY <1>5, CommitKeeps
<1>6. CASE Fail
  BY <1>6, FailKeeps
<1>7. CASE \E p \in Players : Leave(p) \/ Return(p)
  BY <1>7, LeaveKeeps, ReturnKeeps
<1>8. CASE Drop
  BY <1>8, DropKeeps
<1>9. CASE UNCHANGED vars
  BY <1>9 DEF vars, TypeInv, Asking
<1> QED BY <1>1, <1>2, <1>3, <1>4, <1>5, <1>6, <1>7, <1>8, <1>9, NextCases

LEMMA TypeAlways == Spec => []TypeInv
<1> QED BY TypeInit, TypeNext, PTL DEF Spec

\* Memory, tables, queue and callbacks keep their types: no handler, callback,
\* expiry or failed transaction takes a purse or a mail below 0.
THEOREM TypeCorrect == Spec => []TypeOK
<1> QED BY TypeAlways, TypeInvSuffices, PTL

----------------------------------------------------------------------------
(* Items.  Where an item is: in a bag, in a mail or in an auction.           *)

Spot == [bag : Players \cup {Nobody}, parcel : Players \cup {Nobody},
         owner : Players \cup {Nobody}]
Nowhere == [bag |-> Nobody, parcel |-> Nobody, owner |-> Nobody]
PlaceOf(w, l) == [bag |-> w.bag[l], parcel |-> w.parcel[l], owner |-> w.row[l].owner]

\* In one of them at most.
Place == {x \in Spot : /\ x.bag # Nobody => x.parcel = Nobody /\ x.owner = Nobody
                       /\ x.parcel # Nobody => x.owner = Nobody}

Touches(t, l) == l \in DOMAIN t.bag \/ l \in DOMAIN t.parcel \/ l \in DOMAIN t.row
IsBid(t, l) == t.asks # NoFuture /\ l \in DOMAIN t.row /\ t.row[l].bidder # Nobody

\* What comes into a bag or leaves it, and what leaves a mail, is saved with the
\* gold of its owner; a bid moves nothing.
LotSteps(l) ==
    {z \in Place \X Transaction \X Place :
       /\ z[3].bag = IF l \in DOMAIN z[2].bag THEN z[2].bag[l] ELSE z[1].bag
       /\ z[3].parcel = IF l \in DOMAIN z[2].parcel THEN z[2].parcel[l] ELSE z[1].parcel
       /\ z[3].owner = IF l \in DOMAIN z[2].row THEN z[2].row[l].owner ELSE z[1].owner
       /\ z[3].bag # z[1].bag =>
            /\ z[1].bag \in DOMAIN z[2].purse \cup {Nobody}
            /\ z[3].bag \in DOMAIN z[2].purse \cup {Nobody}
       /\ z[3].parcel # z[1].parcel => z[1].parcel \in DOMAIN z[2].purse \cup {Nobody}
       /\ IsBid(z[2], l) => z[1] = z[3]}

\* What a callback is about.
Moves(c, l) == l \in DOMAIN c.register \/ l \in DOMAIN c.pays.parcel

\* A transaction that waits for an answer moves what its callback is about.
Matches(l) ==
    \A k \in 1 .. Len(queue) :
        /\ queue[k].asks # NoFuture
        /\ l \in DOMAIN queue[k].bag \/ l \in DOMAIN queue[k].row
        => \/ Moves(callbacks[queue[k].asks], l)
           \/ l \notin DOMAIN queue[k].bag /\ queue[k].row[l].bidder # Nobody

\* Nothing behind it in the queue touches that item.
Untouched(l) ==
    \A j, k \in 1 .. Len(queue) :
        j < k /\ queue[j].asks # NoFuture /\ Moves(callbacks[queue[j].asks], l) => ~Touches(queue[k], l)

\* Memory, callbacks and the queue agree on where the item is, unless it is lost.
Agrees(x, l) ==
    \/ /\ x = PlaceOf(mem, l) /\ Registers(l) = {} /\ Parcels(l) = {}
       /\ x = Nowhere => leaves > 0 \/ faults > 0
    \/ /\ PlaceOf(mem, l) = Nowhere /\ x.owner # Nobody /\ Parcels(l) = {}
       /\ \E f : Registers(l) = {f} /\ callbacks[f].register[l].owner = x.owner
    \/ /\ PlaceOf(mem, l) = Nowhere /\ x = Nowhere /\ Registers(l) = {}
       /\ \E f : Parcels(l) = {f}
    \/ /\ PlaceOf(mem, l) = Nowhere /\ Registers(l) = {} /\ Parcels(l) = {}
       /\ leaves > 0 \/ faults > 0

\* The trace to x starts where the tables have the item, or would have it if
\* nothing had been dropped.
Drains(x, l) ==
    \E a \in Place : /\ drops = 0 => a = PlaceOf(db, l)
                    /\ \E h : Trace(h, queue, Place, LotSteps(l), a, x)

LotInv(l) ==
    /\ Matches(l) /\ Untouched(l)
    /\ \E x \in Place : Drains(x, l) /\ Agrees(x, l)

LEMMA LotStep ==
    ASSUME NEW l
    PROVE  \A x, t, y : <<x, t, y>> \in LotSteps(l) <=>
             /\ x \in Place /\ t \in Transaction /\ y \in Place
             /\ y.bag = IF l \in DOMAIN t.bag THEN t.bag[l] ELSE x.bag
             /\ y.parcel = IF l \in DOMAIN t.parcel THEN t.parcel[l] ELSE x.parcel
             /\ y.owner = IF l \in DOMAIN t.row THEN t.row[l].owner ELSE x.owner
             /\ y.bag # x.bag => /\ x.bag \in DOMAIN t.purse \cup {Nobody}
                                /\ y.bag \in DOMAIN t.purse \cup {Nobody}
             /\ y.parcel # x.parcel => x.parcel \in DOMAIN t.purse \cup {Nobody}
             /\ IsBid(t, l) => x = y
  BY DEF LotSteps

LEMMA PlaceFacts ==
    /\ \A x \in Place, y \in Place :
         x.bag = y.bag /\ x.parcel = y.parcel /\ x.owner = y.owner => x = y
    /\ \A x \in Place : x \in Spot /\ x.bag \in Players \cup {Nobody}
                        /\ x.parcel \in Players \cup {Nobody} /\ x.owner \in Players \cup {Nobody}
    /\ Nowhere \in Place
    /\ Nowhere.bag = Nobody /\ Nowhere.parcel = Nobody /\ Nowhere.owner = Nobody
<1>1. \A x \in Spot, y \in Spot :
         x.bag = y.bag /\ x.parcel = y.parcel /\ x.owner = y.owner => x = y
  BY DEF Spot
<1>2. Nowhere \in Place
  BY DEF Nowhere, Place, Spot
<1> QED BY <1>1, <1>2 DEF Place, Spot, Nowhere

LEMMA SpotFacts ==
    ASSUME NEW w \in World, NEW l \in Lots
    PROVE  /\ PlaceOf(w, l) \in Spot
           /\ PlaceOf(w, l).bag = w.bag[l] /\ PlaceOf(w, l).parcel = w.parcel[l]
           /\ PlaceOf(w, l).owner = w.row[l].owner
           /\ PlaceOf(w, l) = Nowhere
                <=> w.bag[l] = Nobody /\ w.parcel[l] = Nobody /\ w.row[l].owner = Nobody
<1>1. /\ w.bag[l] \in Players \cup {Nobody} /\ w.parcel[l] \in Players \cup {Nobody}
      /\ w.row[l].owner \in Players \cup {Nobody}
  BY WorldFacts
<1> QED BY <1>1 DEF PlaceOf, Spot, Nowhere

LEMMA ApplyPlace ==
    ASSUME NEW w \in World, NEW t \in Transaction, NEW l \in Lots
    PROVE  /\ PlaceOf(Apply(w, t), l).bag
                = IF l \in DOMAIN t.bag THEN t.bag[l] ELSE PlaceOf(w, l).bag
           /\ PlaceOf(Apply(w, t), l).parcel
                = IF l \in DOMAIN t.parcel THEN t.parcel[l] ELSE PlaceOf(w, l).parcel
           /\ PlaceOf(Apply(w, t), l).owner
                = IF l \in DOMAIN t.row THEN t.row[l].owner ELSE PlaceOf(w, l).owner
           /\ ~Touches(t, l) => PlaceOf(Apply(w, t), l) = PlaceOf(w, l)
<1> DEFINE v == Apply(w, t)
<1>1. /\ v.bag[l] = IF l \in DOMAIN t.bag THEN t.bag[l] ELSE w.bag[l]
      /\ v.parcel[l] = IF l \in DOMAIN t.parcel THEN t.parcel[l] ELSE w.parcel[l]
      /\ v.row[l] = IF l \in DOMAIN t.row THEN t.row[l] ELSE w.row[l]
  BY ApplyFacts
<1> HIDE DEF v
<1>2. /\ PlaceOf(v, l).bag = v.bag[l] /\ PlaceOf(v, l).parcel = v.parcel[l]
      /\ PlaceOf(v, l).owner = v.row[l].owner
      /\ PlaceOf(w, l).bag = w.bag[l] /\ PlaceOf(w, l).parcel = w.parcel[l]
      /\ PlaceOf(w, l).owner = w.row[l].owner
  BY DEF PlaceOf
<1>3. ~Touches(t, l) => PlaceOf(v, l) = PlaceOf(w, l)
  BY <1>1 DEF Touches, PlaceOf
<1> QED BY <1>1, <1>2, <1>3 DEF v

LEMMA Waiting ==
    ASSUME NEW l, NEW f \in DOMAIN callbacks
    PROVE  /\ f \in Registers(l) <=> callbacks[f].answer # "false" /\ l \in DOMAIN callbacks[f].register
           /\ f \in Parcels(l) <=> callbacks[f].answer # "false" /\ l \in DOMAIN callbacks[f].pays.parcel
           /\ callbacks[f].answer # "false" /\ Moves(callbacks[f], l) => f \in Registers(l) \cup Parcels(l)
  BY DEF Registers, Parcels, Awaited, Moves

LEMMA QueueAppend ==
    ASSUME TypeInv, NEW l, Matches(l), Untouched(l),
           NEW t \in Transaction, Len(queue') = Len(queue) + 1, Len(queue) \in Nat,
           queue'[Len(queue) + 1] = t, \A k \in 1 .. Len(queue) : queue'[k] = queue[k],
           \A f \in DOMAIN callbacks : callbacks[f].answer = "none" => callbacks'[f] = callbacks[f],
           t.asks # NoFuture /\ (l \in DOMAIN t.bag \/ l \in DOMAIN t.row) =>
             \/ Moves(callbacks'[t.asks], l)
             \/ l \notin DOMAIN t.bag /\ t.row[l].bidder # Nobody,
           Touches(t, l) => \A f \in DOMAIN callbacks :
                               callbacks[f].answer = "none" => ~Moves(callbacks[f], l)
    PROVE  Matches(l)' /\ Untouched(l)'
<1> DEFINE n == Len(queue)
<1>1. \A k \in 1 .. n : queue[k].asks # NoFuture =>
          /\ queue[k].asks \in DOMAIN callbacks /\ callbacks[queue[k].asks].answer = "none"
          /\ callbacks'[queue[k].asks] = callbacks[queue[k].asks]
  BY DEF TypeInv, Asking
<1>2. ASSUME NEW k \in 1 .. n + 1, queue'[k].asks # NoFuture,
             l \in DOMAIN queue'[k].bag \/ l \in DOMAIN queue'[k].row
      PROVE  \/ Moves(callbacks'[queue'[k].asks], l)
             \/ l \notin DOMAIN queue'[k].bag /\ queue'[k].row[l].bidder # Nobody
  <2>1. CASE k \in 1 .. n
    <3>1. queue'[k] = queue[k]
      BY <2>1
    <3>2. \/ Moves(callbacks[queue[k].asks], l)
          \/ l \notin DOMAIN queue[k].bag /\ queue[k].row[l].bidder # Nobody
      BY <1>2, <2>1, <3>1 DEF Matches
    <3>3. callbacks'[queue[k].asks] = callbacks[queue[k].asks]
      BY <1>1, <1>2, <2>1, <3>1
    <3> QED BY <3>1, <3>2, <3>3
  <2>2. CASE k = n + 1
    <3>1. queue'[k] = t
      BY <2>2
    <3> QED BY <1>2, <3>1
  <2> QED BY <2>1, <2>2
<1>3. Matches(l)'
  BY <1>2 DEF Matches
<1>4. ASSUME NEW j \in 1 .. n + 1, NEW k \in 1 .. n + 1, j < k, queue'[j].asks # NoFuture,
             Moves(callbacks'[queue'[j].asks], l)
      PROVE  ~Touches(queue'[k], l)
  <2>1. j \in 1 .. n /\ queue'[j] = queue[j]
    BY <1>4
  <2>2. Moves(callbacks[queue[j].asks], l) /\ queue[j].asks \in DOMAIN callbacks
        /\ callbacks[queue[j].asks].answer = "none"
    BY <1>1, <1>4, <2>1
  <2>3. CASE k \in 1 .. n
    BY <1>4, <2>1, <2>2, <2>3 DEF Untouched
  <2>4. CASE k = n + 1
    BY <2>2, <2>4
  <2> QED BY <2>3, <2>4
<1>5. Untouched(l)'
  BY <1>4 DEF Untouched
<1> QED BY <1>3, <1>5

\* The trace goes on with what is appended.
LEMMA DrainsAppend ==
    ASSUME TypeInv, NEW l, NEW t \in Transaction, queue' = Append(queue, t), db' = db, drops' = drops,
           NEW x \in Place, Drains(x, l), NEW y \in Place, <<x, t, y>> \in LotSteps(l)
    PROVE  Drains(y, l)'
<1>1. queue \in Seq(Transaction)
  BY DEF TypeInv
<1>2. PICK a \in Place : /\ drops = 0 => a = PlaceOf(db, l)
                         /\ \E h : Trace(h, queue, Place, LotSteps(l), a, x)
  BY DEF Drains
<1>4. \E h : Trace(h, Append(queue, t), Place, LotSteps(l), a, y)
  BY <1>1, <1>2, TraceAppend
<1>3. PlaceOf(db, l)' = PlaceOf(db, l) /\ LotSteps(l)' = LotSteps(l)
  BY DEF PlaceOf, LotSteps, IsBid
<1> QED BY <1>2, <1>3, <1>4 DEF Drains

LEMMA QuietStep ==
    ASSUME NEW l, NEW t \in Transaction, ~Touches(t, l), NEW x \in Place
    PROVE  <<x, t, x>> \in LotSteps(l)
  BY LotStep DEF Touches, IsBid

LEMMA AgreesStays ==
    ASSUME TypeInv, NEW l, NEW x, Agrees(x, l), PlaceOf(mem, l)' = PlaceOf(mem, l),
           Registers(l)' = Registers(l), Parcels(l)' = Parcels(l),
           \A f \in Registers(l) : callbacks'[f].register = callbacks[f].register,
           leaves' \in {leaves, leaves + 1}, faults' \in {faults, faults + 1}
    PROVE  Agrees(x, l)'
<1>1. leaves > 0 \/ faults > 0 => leaves' > 0 \/ faults' > 0
  BY DEF TypeInv
<1> QED BY <1>1 DEF Agrees

\* Who touches an item in memory finds it there, and no callback about it.
LEMMA Present ==
    ASSUME NEW l, NEW x, Agrees(x, l), PlaceOf(mem, l) # Nowhere
    PROVE  /\ x = PlaceOf(mem, l) /\ Registers(l) = {} /\ Parcels(l) = {}
           /\ \A f \in DOMAIN callbacks : callbacks[f].answer = "none" => ~Moves(callbacks[f], l)
<1>1. x = PlaceOf(mem, l) /\ Registers(l) = {} /\ Parcels(l) = {}
  BY DEF Agrees
<1> QED BY <1>1, Waiting

\* The callbacks after Await.
LEMMA AwaitLot ==
    ASSUME TypeInv, FreeFuture, NEW p \in Players, NEW register \in Partial(Lots, Offer),
           NEW pays \in Payment, Await(p, register, pays), NEW l
    PROVE  /\ Registers(l)' = Registers(l) \cup {f \in {NewFuture} : l \in DOMAIN register}
           /\ Parcels(l)' = Parcels(l) \cup {f \in {NewFuture} : l \in DOMAIN pays.parcel}
           /\ callbacks'[NewFuture].register = register /\ callbacks'[NewFuture].pays = pays
           /\ \A f \in DOMAIN callbacks : callbacks'[f] = callbacks[f]
           /\ \A f \in Registers(l) : callbacks'[f].register = callbacks[f].register
<1>1. /\ DOMAIN callbacks' = DOMAIN callbacks \cup {NewFuture}
      /\ \A f \in DOMAIN callbacks : callbacks'[f] = callbacks[f]
      /\ callbacks'[NewFuture]
           = [session |-> p, answer |-> "none", register |-> register, pays |-> pays]
  BY AwaitKeeps
<1>2. NewFuture \notin DOMAIN callbacks
  BY NewFutureFree
<1>3. /\ callbacks'[NewFuture].register = register /\ callbacks'[NewFuture].pays = pays
      /\ callbacks'[NewFuture].answer = "none"
  BY <1>1
<1>4. Registers(l)' = Registers(l) \cup {f \in {NewFuture} : l \in DOMAIN register}
  BY <1>1, <1>2, <1>3 DEF Registers, Awaited
<1>5. Parcels(l)' = Parcels(l) \cup {f \in {NewFuture} : l \in DOMAIN pays.parcel}
  BY <1>1, <1>2, <1>3 DEF Parcels, Awaited
<1>6. \A f \in Registers(l) : f \in DOMAIN callbacks
  BY DEF Registers, Awaited
<1> QED BY <1>1, <1>3, <1>4, <1>5, <1>6

LEMMA SendFacts ==
    ASSUME TypeInv, NEW t \in Transaction, Send(t)
    PROVE  /\ queue' = Append(queue, t) /\ Len(queue') = Len(queue) + 1 /\ Len(queue) \in Nat
           /\ queue'[Len(queue) + 1] = t /\ \A k \in 1 .. Len(queue) : queue'[k] = queue[k]
  BY DEF Send, TypeInv

LEMMA SellLot ==
    ASSUME TypeInv, TypeInv', NEW l \in Lots, LotInv(l),
           NEW p \in Players, NEW m \in Lots, SellItem(p, m)
    PROVE  LotInv(l)'
<1> DEFINE t == SellTx(p, m)
           u == WithoutRow(SellTx(p, m))
<1>1. /\ mem.bag[m] = p /\ ~Listed(mem, m) /\ FreeFuture /\ mem' = Apply(mem, u) /\ Send(t)
      /\ Await(p, Only(m, Sale(p)), Nothing) /\ UNCHANGED <<db, session, leaves, faults, drops>>
  BY SellSends
<1>2. t \in Transaction /\ u \in Transaction
  BY SellType
<1>3. /\ t.bag = Only(m, Nobody) /\ t.parcel = Empty /\ t.row = Only(m, Sale(p))
      /\ t.asks = NewFuture /\ t.purse = Only(p, mem.purse[p] - Deposit)
      /\ u.bag = Only(m, Nobody) /\ u.parcel = Empty /\ u.row = Empty
  <2>1. u = Tx(Only(p, mem.purse[p] - Deposit), Only(m, Nobody), Empty, Empty, NoGold, NewFuture)
    BY TxExcept DEF SellTx, WithoutRow
  <2>2. u.bag = Only(m, Nobody) /\ u.parcel = Empty /\ u.row = Empty
    BY <2>1, TxFacts
  <2> QED BY <2>2, TxFacts DEF SellTx
<1>4. /\ DOMAIN t.bag = {m} /\ DOMAIN t.row = {m} /\ DOMAIN t.parcel = {} /\ DOMAIN t.purse = {p}
      /\ t.bag[m] = Nobody /\ t.row[m] = Sale(p)
      /\ DOMAIN u.bag = {m} /\ DOMAIN u.row = {} /\ DOMAIN u.parcel = {} /\ u.bag[m] = Nobody
      /\ DOMAIN Only(m, Sale(p)) = {m} /\ Only(m, Sale(p))[m] = Sale(p)
  BY <1>3, OnlyFacts
<1> HIDE DEF t, u
<1>5. Only(m, Sale(p)) \in Partial(Lots, Offer) /\ Nothing \in Payment
      /\ DOMAIN Nothing.parcel = {}
  BY OnlyType, RowType, NothingType, OnlyFacts
<1>6. /\ Registers(l)' = Registers(l) \cup {f \in {NewFuture} : l \in {m}}
      /\ Parcels(l)' = Parcels(l)
      /\ callbacks'[NewFuture].register = Only(m, Sale(p))
      /\ \A f \in DOMAIN callbacks : callbacks'[f] = callbacks[f]
      /\ \A f \in Registers(l) : callbacks'[f].register = callbacks[f].register
  <2> DEFINE register == Only(m, Sale(p))
  <2>1. register \in Partial(Lots, Offer) /\ Await(p, register, Nothing) /\ DOMAIN register = {m}
    BY <1>1, <1>4, <1>5
  <2> HIDE DEF register
  <2>2. /\ Registers(l)' = Registers(l) \cup {f \in {NewFuture} : l \in DOMAIN register}
        /\ Parcels(l)' = Parcels(l) \cup {f \in {NewFuture} : l \in DOMAIN Nothing.parcel}
        /\ callbacks'[NewFuture].register = register
        /\ \A f \in DOMAIN callbacks : callbacks'[f] = callbacks[f]
        /\ \A f \in Registers(l) : callbacks'[f].register = callbacks[f].register
    BY <1>1, <1>5, <2>1, AwaitLot
  <2> QED BY <1>5, <2>1, <2>2 DEF register
<1>7. /\ queue' = Append(queue, t) /\ Len(queue') = Len(queue) + 1 /\ Len(queue) \in Nat
      /\ queue'[Len(queue) + 1] = t /\ \A k \in 1 .. Len(queue) : queue'[k] = queue[k]
  BY <1>1, <1>2, SendFacts
<1>8. PICK x \in Place : Drains(x, l) /\ Agrees(x, l)
  BY DEF LotInv
<1>9. mem \in World /\ mem' \in World
  BY DEF TypeInv
<1>10. CASE l # m
  <2>1. ~Touches(t, l) /\ ~Touches(u, l)
    BY <1>4, <1>10 DEF Touches
  <2>2. PlaceOf(mem, l)' = PlaceOf(mem, l)
    <3>1. PlaceOf(mem', l) = PlaceOf(mem, l)
      BY <1>1, <1>2, <1>9, <2>1, ApplyPlace
    <3> QED BY <3>1 DEF PlaceOf
  <2>3. Registers(l)' = Registers(l)
    BY <1>6, <1>10
  <2>4. Agrees(x, l)'
    BY <1>1, <1>6, <1>8, <2>2, <2>3, AgreesStays
  <2>5. Drains(x, l)'
    BY <1>1, <1>2, <1>7, <1>8, <2>1, QuietStep, DrainsAppend
  <2>6. Matches(l)' /\ Untouched(l)'
    BY <1>2, <1>6, <1>7, <2>1, QueueAppend DEF LotInv, Touches
  <2> QED BY <2>4, <2>5, <2>6 DEF LotInv
<1>11. CASE l = m
  <2>1. PlaceOf(mem, l).bag = p /\ PlaceOf(mem, l) # Nowhere /\ p # Nobody
    BY <1>1, <1>9, <1>11, SpotFacts, NobodyAssumption
  <2>2. /\ x = PlaceOf(mem, l) /\ Registers(l) = {} /\ Parcels(l) = {}
        /\ \A f \in DOMAIN callbacks : callbacks[f].answer = "none" => ~Moves(callbacks[f], l)
    BY <1>8, <2>1, Present
  <2> DEFINE y == [bag |-> Nobody, parcel |-> Nobody, owner |-> p]
  <2>3. y \in Place /\ y.bag = Nobody /\ y.parcel = Nobody /\ y.owner = p
    BY DEF Place, Spot
  <2>4. x.bag = p /\ x.parcel = Nobody /\ x.owner = Nobody
    BY <2>1, <2>2 DEF Place
  <2> HIDE DEF y
  <2>5. <<x, t, y>> \in LotSteps(l)
    <3>1. ~IsBid(t, l)
      BY <1>4, <1>11 DEF IsBid, Sale
    <3>2. Sale(p).owner = p
      BY DEF Sale
    <3> QED BY <1>2, <1>4, <1>11, <2>3, <2>4, <3>1, <3>2, LotStep
  <2>6. Drains(y, l)'
    BY <1>1, <1>2, <1>7, <1>8, <2>3, <2>5, DrainsAppend
  <2>7. Matches(l)' /\ Untouched(l)'
    <3>1. Moves(callbacks'[t.asks], l)
      BY <1>3, <1>4, <1>6, <1>11 DEF Moves
    <3> QED BY <1>2, <1>6, <1>7, <2>2, <3>1, QueueAppend DEF LotInv
  <2>8. PlaceOf(mem, l)' = Nowhere
    <3>1. /\ PlaceOf(mem', l).bag = Nobody /\ PlaceOf(mem', l).parcel = Nobody
          /\ PlaceOf(mem', l).owner = Nobody
      <4>1. /\ PlaceOf(mem', l).bag = IF l \in DOMAIN u.bag THEN u.bag[l] ELSE PlaceOf(mem, l).bag
            /\ PlaceOf(mem', l).parcel
                 = IF l \in DOMAIN u.parcel THEN u.parcel[l] ELSE PlaceOf(mem, l).parcel
            /\ PlaceOf(mem', l).owner
                 = IF l \in DOMAIN u.row THEN u.row[l].owner ELSE PlaceOf(mem, l).owner
        BY <1>1, <1>2, <1>9, ApplyPlace
      <4> QED BY <1>4, <1>11, <2>2, <2>4, <4>1
    <3>2. PlaceOf(mem', l) = Nowhere
      BY <1>9, <3>1, SpotFacts
    <3> QED BY <3>2 DEF PlaceOf
  <2>9. Agrees(y, l)'
    <3>1. Registers(l)' = {NewFuture} /\ Parcels(l)' = {}
      BY <1>6, <1>11, <2>2
    <3>2. callbacks'[NewFuture].register[l].owner = y.owner
      BY <1>4, <1>6, <1>11, <2>3 DEF Sale
    <3>3. y.owner # Nobody
      BY <2>1, <2>3
    <3> QED BY <2>8, <3>1, <3>2, <3>3 DEF Agrees
  <2> QED BY <2>3, <2>6, <2>7, <2>9 DEF LotInv
<1> QED BY <1>10, <1>11

LEMMA BidLot ==
    ASSUME TypeInv, TypeInv', NEW l \in Lots, LotInv(l),
           NEW p \in Players, NEW m \in Lots, NEW price \in Prices, PlaceBid(p, m, price)
    PROVE  LotInv(l)'
<1> DEFINE t == BidTx(p, m, price)
           pays == BidPays(p, m, price)
           row == IF Buys(m, price) THEN NoRow ELSE Bid(p, m, price)
<1>1. /\ Listed(mem, m) /\ FreeFuture /\ mem' = Apply(mem, t) /\ Send(t)
      /\ Await(p, Empty, pays) /\ UNCHANGED <<db, session, leaves, faults, drops>>
  BY BidSends
<1>2. t \in Transaction /\ pays \in Payment
  BY BidType
<1>3. /\ t.bag = Empty /\ t.parcel = Empty /\ t.row = Only(m, row) /\ t.asks = NewFuture
      /\ pays.parcel = IF Buys(m, price) THEN Only(m, p) ELSE Empty
  BY TxFacts DEF BidTx, BidPays
<1>4. /\ DOMAIN t.bag = {} /\ DOMAIN t.row = {m} /\ DOMAIN t.parcel = {} /\ t.row[m] = row
      /\ DOMAIN pays.parcel = IF Buys(m, price) THEN {m} ELSE {}
  BY <1>3, OnlyFacts
<1>5. /\ Buys(m, price) => row.owner = Nobody /\ row.bidder = Nobody
      /\ ~Buys(m, price) => row.owner = mem.row[m].owner /\ row.bidder = p
  BY BidType DEF NoRow
<1> HIDE DEF t, row, pays
<1>6. /\ Registers(l)' = Registers(l)
      /\ Parcels(l)' = Parcels(l) \cup {f \in {NewFuture} : l \in DOMAIN pays.parcel}
      /\ callbacks'[NewFuture].pays = pays
      /\ \A f \in DOMAIN callbacks : callbacks'[f] = callbacks[f]
      /\ \A f \in Registers(l) : callbacks'[f].register = callbacks[f].register
  <2>1. Empty \in Partial(Lots, Offer) /\ DOMAIN Empty = {}
    BY OnlyType, OnlyFacts
  <2>2. /\ Registers(l)' = Registers(l) \cup {f \in {NewFuture} : l \in DOMAIN Empty}
        /\ Parcels(l)' = Parcels(l) \cup {f \in {NewFuture} : l \in DOMAIN pays.parcel}
        /\ callbacks'[NewFuture].pays = pays
        /\ \A f \in DOMAIN callbacks : callbacks'[f] = callbacks[f]
        /\ \A f \in Registers(l) : callbacks'[f].register = callbacks[f].register
    BY <1>1, <1>2, <2>1, AwaitLot
  <2> QED BY <2>1, <2>2
<1>7. /\ queue' = Append(queue, t) /\ Len(queue') = Len(queue) + 1 /\ Len(queue) \in Nat
      /\ queue'[Len(queue) + 1] = t /\ \A k \in 1 .. Len(queue) : queue'[k] = queue[k]
  BY <1>1, <1>2, SendFacts
<1>8. PICK x \in Place : Drains(x, l) /\ Agrees(x, l)
  BY DEF LotInv
<1>9. mem \in World /\ mem' \in World
  BY DEF TypeInv
<1>10. CASE l # m
  <2>1. ~Touches(t, l)
    BY <1>4, <1>10 DEF Touches
  <2>2. PlaceOf(mem, l)' = PlaceOf(mem, l)
    <3>1. PlaceOf(mem', l) = PlaceOf(mem, l)
      BY <1>1, <1>2, <1>9, <2>1, ApplyPlace
    <3> QED BY <3>1 DEF PlaceOf
  <2>3. Parcels(l)' = Parcels(l)
    BY <1>4, <1>6, <1>10
  <2>4. Agrees(x, l)'
    BY <1>1, <1>6, <1>8, <2>2, <2>3, AgreesStays
  <2>5. Drains(x, l)'
    BY <1>1, <1>2, <1>7, <1>8, <2>1, QuietStep, DrainsAppend
  <2>6. Matches(l)' /\ Untouched(l)'
    BY <1>2, <1>6, <1>7, <2>1, QueueAppend DEF LotInv, Touches
  <2> QED BY <2>4, <2>5, <2>6 DEF LotInv
<1>11. CASE l = m
  <2>1. /\ PlaceOf(mem, l).owner # Nobody /\ PlaceOf(mem, l) # Nowhere
        /\ PlaceOf(mem, l).owner = mem.row[m].owner
    BY <1>1, <1>9, <1>11, SpotFacts DEF Listed
  <2>2. /\ x = PlaceOf(mem, l) /\ Registers(l) = {} /\ Parcels(l) = {}
        /\ \A f \in DOMAIN callbacks : callbacks[f].answer = "none" => ~Moves(callbacks[f], l)
    BY <1>8, <2>1, Present
  <2>3. x.bag = Nobody /\ x.parcel = Nobody /\ x.owner = mem.row[m].owner
    BY <2>1, <2>2 DEF Place
  <2>4. /\ PlaceOf(mem', l).bag = Nobody /\ PlaceOf(mem', l).parcel = Nobody
        /\ PlaceOf(mem', l).owner = row.owner /\ PlaceOf(mem', l) \in Spot
    <3>1. /\ PlaceOf(mem', l).bag = IF l \in DOMAIN t.bag THEN t.bag[l] ELSE PlaceOf(mem, l).bag
          /\ PlaceOf(mem', l).parcel
               = IF l \in DOMAIN t.parcel THEN t.parcel[l] ELSE PlaceOf(mem, l).parcel
          /\ PlaceOf(mem', l).owner
               = IF l \in DOMAIN t.row THEN t.row[l].owner ELSE PlaceOf(mem, l).owner
      BY <1>1, <1>2, <1>9, ApplyPlace
    <3>2. PlaceOf(mem', l) \in Spot
      BY <1>9, SpotFacts
    <3> QED BY <1>4, <1>11, <2>2, <2>3, <3>1, <3>2
  <2>a. PlaceOf(mem', l) \in Place /\ PlaceOf(mem, l)' = PlaceOf(mem', l)
    BY <2>4 DEF Place, PlaceOf
  <2>b. PICK y \in Place : y = PlaceOf(mem', l)
    BY <2>a
  <2>5. y \in Place /\ PlaceOf(mem, l)' = y
    BY <2>a, <2>b
  <2>6. y.bag = Nobody /\ y.parcel = Nobody /\ y.owner = row.owner
    BY <2>4, <2>b
  <2>7. <<x, t, y>> \in LotSteps(l)
    <3>1. IsBid(t, l) => x = y
      <4>1. SUFFICES ASSUME IsBid(t, l) PROVE x = y
        OBVIOUS
      <4>2. ~Buys(m, price)
        BY <1>4, <1>5, <1>11, <4>1 DEF IsBid
      <4> QED BY <1>5, <2>3, <2>5, <2>6, <4>2, PlaceFacts
    <3> QED BY <1>2, <1>4, <1>11, <2>3, <2>5, <2>6, <3>1, LotStep
  <2>8. Drains(y, l)'
    BY <1>1, <1>2, <1>7, <1>8, <2>5, <2>7, DrainsAppend
  <2>9. Matches(l)' /\ Untouched(l)'
    <3>1. \/ Moves(callbacks'[t.asks], l)
          \/ l \notin DOMAIN t.bag /\ t.row[l].bidder # Nobody
      <4>1. CASE Buys(m, price)
        BY <1>3, <1>4, <1>6, <1>11, <4>1 DEF Moves
      <4>2. CASE ~Buys(m, price)
        BY <1>4, <1>5, <1>11, <4>2, NobodyAssumption
      <4> QED BY <4>1, <4>2
    <3> QED BY <1>2, <1>6, <1>7, <2>2, <3>1, QueueAppend DEF LotInv
  <2>10. Agrees(y, l)'
    <3>1. CASE Buys(m, price)
      <4>1. Registers(l)' = {} /\ Parcels(l)' = {NewFuture}
        BY <1>4, <1>6, <1>11, <2>2, <3>1
      <4>2. y = Nowhere
        BY <1>5, <2>5, <2>6, <3>1, PlaceFacts
      <4> QED BY <2>5, <4>1, <4>2 DEF Agrees
    <3>2. CASE ~Buys(m, price)
      <4>1. Registers(l)' = {} /\ Parcels(l)' = {}
        BY <1>4, <1>6, <1>11, <2>2, <3>2
      <4>2. y # Nowhere
        BY <1>5, <2>1, <2>6, <3>2, PlaceFacts
      <4> QED BY <2>5, <4>1, <4>2 DEF Agrees
    <3> QED BY <3>1, <3>2
  <2> QED BY <2>5, <2>8, <2>9, <2>10 DEF LotInv
<1> QED BY <1>10, <1>11

\* What a plain transaction does to an item it touches.
LEMMA PlainTouch ==
    ASSUME TypeInv, NEW p, NEW m, NEW ended, NEW t, Plain(p, m, ended, t), NEW l \in Lots,
           Touches(t, l), PlaceOf(mem, l) \in Place
    PROVE  /\ PlaceOf(mem, l) # Nowhere
           /\ PlaceOf(Apply(mem, t), l) \in Place /\ PlaceOf(Apply(mem, t), l) # Nowhere
           /\ <<PlaceOf(mem, l), t, PlaceOf(Apply(mem, t), l)>> \in LotSteps(l)
<1> DEFINE x == PlaceOf(mem, l)
           y == PlaceOf(Apply(mem, t), l)
<1>1. t \in Transaction /\ t.asks = NoFuture /\ mem \in World /\ mem' \in World /\ mem' = Apply(mem, t)
  <2>1. /\ t \in Transaction /\ t.asks = NoFuture /\ mem' = Apply(mem, t)
    BY PlainSteps
  <2>2. mem \in World
    BY DEF TypeInv
  <2> QED BY <2>1, <2>2, ApplyType
<1>2. /\ y.bag = IF l \in DOMAIN t.bag THEN t.bag[l] ELSE x.bag
      /\ y.parcel = IF l \in DOMAIN t.parcel THEN t.parcel[l] ELSE x.parcel
      /\ y.owner = IF l \in DOMAIN t.row THEN t.row[l].owner ELSE x.owner
  BY <1>1, ApplyPlace
<1>3. /\ x.bag = mem.bag[l] /\ x.parcel = mem.parcel[l] /\ x.owner = mem.row[l].owner
      /\ y \in Spot /\ x \in Place
      /\ mem.row[l].owner \in Players \cup {Nobody} /\ mem.row[l].bidder \in Players \cup {Nobody}
  BY <1>1, SpotFacts, WorldFacts
<1>4. ~IsBid(t, l)
  BY <1>1 DEF IsBid
<1>5. SUFFICES /\ x # Nowhere /\ y # Nowhere
               /\ y.bag # Nobody => y.parcel = Nobody /\ y.owner = Nobody
               /\ y.parcel # Nobody => y.owner = Nobody
               /\ x.bag # Nobody => x.bag = y.bag
               /\ y.bag # x.bag => y.bag \in DOMAIN t.purse
               /\ x.parcel # Nobody => x.parcel \in DOMAIN t.purse
  <2> HIDE DEF x, y
  <2>1. y \in Place
    BY <1>3, <1>5 DEF Place
  <2>2. <<x, t, y>> \in LotSteps(l)
    BY <1>1, <1>2, <1>3, <1>4, <1>5, <2>1, LotStep
  <2> QED BY <1>5, <2>1, <2>2 DEF x, y
<1> HIDE DEF x, y
<1>6. CASE p \in Players /\ m \in Lots /\ RemoveItem(p, m) /\ t = RemoveTx(p, m)
  <2>1. /\ t.bag = Empty /\ t.parcel = Only(m, p) /\ t.row = Only(m, NoRow)
    BY <1>6, TxFacts DEF RemoveTx
  <2>2. DOMAIN t.bag = {} /\ DOMAIN t.parcel = {m} /\ DOMAIN t.row = {m} /\ t.parcel[m] = p
        /\ t.row[m] = NoRow
    BY <2>1, OnlyFacts
  <2>a. NoRow.owner = Nobody
    BY DEF NoRow
  <2>3. l = m
    BY <2>2 DEF Touches
  <2>4. x.owner = p /\ p # Nobody
    BY <1>3, <1>6, <2>3, RemoveSends, NobodyAssumption
  <2>5. x.bag = Nobody /\ x.parcel = Nobody
    BY <1>3, <2>4 DEF Place
  <2>6. y.bag = Nobody /\ y.parcel = p /\ y.owner = Nobody
    BY <1>2, <2>2, <2>3, <2>5, <2>a
  <2> QED BY <2>4, <2>5, <2>6, PlaceFacts
<1>7. CASE ended \in SUBSET Lots /\ Update(ended) /\ t = UpdateTx(ended)
  <2> DEFINE parcel == [k \in ended |-> IF mem.row[k].bidder # Nobody THEN mem.row[k].bidder
                                        ELSE mem.row[k].owner]
             row == [k \in ended |-> NoRow]
  <2>1. /\ t.bag = Empty /\ t.parcel = parcel /\ t.row = row
    BY <1>7, TxFacts DEF UpdateTx
  <2>2. DOMAIN t.bag = {} /\ DOMAIN t.parcel = ended /\ DOMAIN t.row = ended
    BY <2>1, OnlyFacts
  <2>3. l \in ended
    BY <2>2 DEF Touches
  <2>4. Listed(mem, l)
    BY <1>7, <2>3, UpdateSends
  <2>5. x.owner # Nobody /\ x.bag = Nobody /\ x.parcel = Nobody
    BY <1>3, <2>4 DEF Listed, Place
  <2>6. t.row[l] = NoRow /\ NoRow.owner = Nobody /\ t.parcel[l] # Nobody
    BY <1>3, <2>1, <2>3, <2>5 DEF NoRow
  <2>7. y.bag = Nobody /\ y.parcel # Nobody /\ y.owner = Nobody
    BY <1>2, <2>2, <2>3, <2>5, <2>6
  <2> QED BY <2>5, <2>7, PlaceFacts
<1>8. CASE p \in Players /\ TakeMoney(p) /\ t = MoneyTx(p)
  <2>1. /\ t.bag = Empty /\ t.parcel = Empty /\ t.row = Empty
    BY <1>8, TxFacts DEF MoneyTx
  <2> QED BY <2>1, OnlyFacts DEF Touches
<1>9. CASE p \in Players /\ m \in Lots /\ TakeItem(p, m) /\ t = ItemTx(p, m)
  <2>1. /\ t.bag = Only(m, p) /\ t.parcel = Only(m, Nobody) /\ t.row = Empty
        /\ t.purse = Only(p, mem.purse[p])
    BY <1>9, TxFacts DEF ItemTx
  <2>2. /\ DOMAIN t.bag = {m} /\ DOMAIN t.parcel = {m} /\ DOMAIN t.row = {}
        /\ t.parcel[m] = Nobody /\ t.bag[m] = p /\ DOMAIN t.purse = {p}
    BY <2>1, OnlyFacts
  <2>3. l = m
    BY <2>2 DEF Touches
  <2>4. x.parcel = p /\ p # Nobody
    BY <1>3, <1>9, <2>3, ItemSends, NobodyAssumption
  <2>5. x.bag = Nobody /\ x.owner = Nobody
    BY <1>3, <2>4 DEF Place
  <2>6. y.bag = p /\ y.parcel = Nobody /\ y.owner = Nobody
    BY <1>2, <2>2, <2>3, <2>5
  <2> QED BY <2>2, <2>4, <2>5, <2>6, PlaceFacts
<1> QED BY <1>6, <1>7, <1>8, <1>9 DEF Plain

LEMMA PlainLot ==
    ASSUME TypeInv, TypeInv', NEW l \in Lots, LotInv(l),
           NEW p, NEW m, NEW ended, NEW t, Plain(p, m, ended, t)
    PROVE  LotInv(l)'
<1>1. /\ t \in Transaction /\ t.asks = NoFuture /\ Send(t) /\ mem' = Apply(mem, t)
      /\ UNCHANGED <<db, session, callbacks, sales, leaves, faults, drops>>
  BY PlainSteps
<1>2. /\ queue' = Append(queue, t) /\ Len(queue') = Len(queue) + 1 /\ Len(queue) \in Nat
      /\ queue'[Len(queue) + 1] = t /\ \A k \in 1 .. Len(queue) : queue'[k] = queue[k]
  BY <1>1, SendFacts
<1>3. Registers(l)' = Registers(l) /\ Parcels(l)' = Parcels(l)
  BY <1>1 DEF Registers, Parcels, Awaited
<1>4. PICK x \in Place : Drains(x, l) /\ Agrees(x, l)
  BY DEF LotInv
<1>5. mem \in World
  BY DEF TypeInv
<1>6. CASE ~Touches(t, l)
  <2>1. PlaceOf(mem, l)' = PlaceOf(mem, l)
    <3>1. PlaceOf(mem', l) = PlaceOf(mem, l)
      BY <1>1, <1>5, <1>6, ApplyPlace
    <3> QED BY <3>1 DEF PlaceOf
  <2>2. Agrees(x, l)'
    BY <1>1, <1>3, <1>4, <2>1, AgreesStays
  <2>3. Drains(x, l)'
    BY <1>1, <1>2, <1>4, <1>6, QuietStep, DrainsAppend
  <2>4. Matches(l)' /\ Untouched(l)'
    BY <1>1, <1>2, <1>6, QueueAppend DEF LotInv, Touches
  <2> QED BY <2>2, <2>3, <2>4 DEF LotInv
<1>7. CASE Touches(t, l)
  <2>1. x = PlaceOf(mem, l) \/ PlaceOf(mem, l) = Nowhere
    BY <1>4 DEF Agrees
  <2>2. PlaceOf(mem, l) \in Place
    BY <2>1, PlaceFacts
  <2>a. /\ PlaceOf(mem, l) # Nowhere /\ PlaceOf(mem', l) \in Place /\ PlaceOf(mem', l) # Nowhere
        /\ <<PlaceOf(mem, l), t, PlaceOf(mem', l)>> \in LotSteps(l)
    BY <1>1, <1>7, <2>2, PlainTouch
  <2>b. PICK y \in Place : y = PlaceOf(mem', l)
    BY <2>a
  <2>3. /\ PlaceOf(mem, l) # Nowhere /\ y \in Place /\ y # Nowhere
        /\ <<PlaceOf(mem, l), t, y>> \in LotSteps(l)
    BY <2>a, <2>b
  <2>4. /\ x = PlaceOf(mem, l) /\ Registers(l) = {} /\ Parcels(l) = {}
        /\ \A f \in DOMAIN callbacks : callbacks[f].answer = "none" => ~Moves(callbacks[f], l)
    BY <1>4, <2>3, Present
  <2>5. PlaceOf(mem, l)' = y
    BY <2>b DEF PlaceOf
  <2>6. Drains(y, l)'
    BY <1>1, <1>2, <1>4, <2>3, <2>4, DrainsAppend
  <2>7. Matches(l)' /\ Untouched(l)'
    BY <1>1, <1>2, <2>4, QueueAppend DEF LotInv
  <2>8. Agrees(y, l)'
    BY <1>3, <2>3, <2>4, <2>5 DEF Agrees
  <2> QED BY <2>3, <2>6, <2>7, <2>8 DEF LotInv
<1> QED BY <1>6, <1>7

\* The queue stays, and so do the callbacks that wait.
LEMMA QueueStays ==
    ASSUME TypeInv, NEW l, Matches(l), Untouched(l), queue' = queue,
           \A f \in DOMAIN callbacks : callbacks[f].answer = "none" => callbacks'[f] = callbacks[f]
    PROVE  Matches(l)' /\ Untouched(l)'
<1>1. \A k \in 1 .. Len(queue) : queue[k].asks # NoFuture =>
          callbacks'[queue[k].asks] = callbacks[queue[k].asks]
  BY DEF TypeInv, Asking
<1>2. Matches(l)'
  BY <1>1 DEF Matches
<1>3. Untouched(l)'
  BY <1>1 DEF Untouched
<1> QED BY <1>2, <1>3

LEMMA DrainsStays ==
    ASSUME NEW l, NEW x, Drains(x, l), queue' = queue, db' = db, drops' = drops
    PROVE  Drains(x, l)'
<1>1. PlaceOf(db, l)' = PlaceOf(db, l) /\ LotSteps(l)' = LotSteps(l)
  BY DEF PlaceOf, LotSteps, IsBid
<1> QED BY <1>1 DEF Drains

LEMMA CallbackLot ==
    ASSUME TypeInv, TypeInv', NEW l \in Lots, LotInv(l),
           NEW f \in DOMAIN callbacks, ProcessCallback(f)
    PROVE  LotInv(l)'
<1> DEFINE t == callbacks[f].pays
           u == CallbackTx(f)
           register == callbacks[f].register
<1>1. /\ callbacks[f].answer \in {"true", "false"}
      /\ callbacks' = Restrict(callbacks, DOMAIN callbacks \ {f})
      /\ UNCHANGED <<db, session, sales, leaves, faults, drops>>
      /\ \/ callbacks[f].answer # "true" /\ UNCHANGED <<mem, queue>>
         \/ callbacks[f].answer = "true" /\ t = Nothing
            /\ mem' = Apply(mem, u) /\ UNCHANGED queue
         \/ callbacks[f].answer = "true" /\ t # Nothing
            /\ mem' = Apply(mem, u) /\ Send(t)
  BY CallbackSteps, CallbackFacts DEF Callback
<1>2. /\ t \in Transaction /\ t.asks = NoFuture /\ u \in Transaction
      /\ t.bag = Empty /\ t.row = Empty /\ u.bag = Empty /\ u.row = register
      /\ u.parcel = t.parcel /\ t.parcel \in Partial(Lots, Players)
      /\ register \in Partial(Lots, Offer)
  BY CallbackFacts
<1>a. /\ \A k \in DOMAIN t.parcel : t.parcel[k] \in Players
      /\ \A k \in DOMAIN register : register[k] \in Offer
      /\ t = Nothing => DOMAIN t.parcel = {}
  BY <1>2, PartialFacts, NothingType, OnlyFacts
<1>3. /\ DOMAIN callbacks' = DOMAIN callbacks \ {f}
      /\ \A g \in DOMAIN callbacks' : callbacks'[g] = callbacks[g]
  BY <1>1, RestrictFacts
<1>4. /\ Registers(l)' = Registers(l) \ {f} /\ Parcels(l)' = Parcels(l) \ {f}
      /\ \A g \in Registers(l)' : callbacks'[g].register = callbacks[g].register
  BY <1>3 DEF Registers, Parcels, Awaited
<1>5. \A g \in DOMAIN callbacks : callbacks[g].answer = "none" => callbacks'[g] = callbacks[g]
  BY <1>1, <1>3
<1>6. PICK x \in Place : Drains(x, l) /\ Agrees(x, l)
  BY DEF LotInv
<1>7. mem \in World /\ mem' \in World
  BY DEF TypeInv
<1>8. /\ DOMAIN t.bag = {} /\ DOMAIN t.row = {} /\ DOMAIN u.bag = {} /\ DOMAIN u.row = DOMAIN register
      /\ DOMAIN u.parcel = DOMAIN t.parcel
  BY <1>2, OnlyFacts
<1> HIDE DEF t, u, register
<1>9. CASE callbacks[f].answer # "true" /\ UNCHANGED <<mem, queue>>
  <2>1. Registers(l)' = Registers(l) /\ Parcels(l)' = Parcels(l)
    BY <1>1, <1>4, <1>9, Waiting
  <2>2. PlaceOf(mem, l)' = PlaceOf(mem, l)
    BY <1>9 DEF PlaceOf
  <2>3. \A g \in Registers(l) : callbacks'[g].register = callbacks[g].register
    BY <1>4, <2>1
  <2>4. Agrees(x, l)'
    BY <1>1, <1>6, <2>1, <2>2, <2>3, AgreesStays
  <2>5. Drains(x, l)'
    BY <1>1, <1>6, <1>9, DrainsStays
  <2>6. Matches(l)' /\ Untouched(l)'
    BY <1>5, <1>9, QueueStays DEF LotInv
  <2> QED BY <2>4, <2>5, <2>6 DEF LotInv
<1>10. ASSUME callbacks[f].answer = "true", mem' = Apply(mem, u),
              \/ t = Nothing /\ UNCHANGED queue
              \/ t # Nothing /\ Send(t)
       PROVE  LotInv(l)'
  <2>1. /\ PlaceOf(mem', l).bag = IF l \in DOMAIN u.bag THEN u.bag[l] ELSE PlaceOf(mem, l).bag
        /\ PlaceOf(mem', l).parcel
             = IF l \in DOMAIN u.parcel THEN u.parcel[l] ELSE PlaceOf(mem, l).parcel
        /\ PlaceOf(mem', l).owner
             = IF l \in DOMAIN u.row THEN u.row[l].owner ELSE PlaceOf(mem, l).owner
        /\ PlaceOf(mem', l) \in Spot
    BY <1>2, <1>7, <1>10, ApplyPlace, SpotFacts
  <2>2. ASSUME ~Touches(t, l), NEW z \in Place, Drains(z, l)
        PROVE  Drains(z, l)' /\ Matches(l)' /\ Untouched(l)'
    <3>1. CASE UNCHANGED queue
      <4>1. Drains(z, l)'
        BY <1>1, <2>2, <3>1, DrainsStays
      <4> QED BY <1>5, <3>1, <4>1, QueueStays DEF LotInv
    <3>2. CASE Send(t)
      <4>1. /\ queue' = Append(queue, t) /\ Len(queue') = Len(queue) + 1 /\ Len(queue) \in Nat
            /\ queue'[Len(queue) + 1] = t /\ \A k \in 1 .. Len(queue) : queue'[k] = queue[k]
        BY <1>2, <3>2, SendFacts
      <4>2. Drains(z, l)'
        BY <1>1, <1>2, <2>2, <4>1, QuietStep, DrainsAppend
      <4>3. Matches(l)' /\ Untouched(l)'
        BY <1>2, <1>5, <2>2, <4>1, QueueAppend DEF LotInv, Touches
      <4> QED BY <4>2, <4>3
    <3> QED BY <1>10, <3>1, <3>2
  <2>3. CASE l \in DOMAIN register
    <3>1. f \in Registers(l)
      BY <1>10, <2>3, Waiting DEF register
    <3>2. /\ PlaceOf(mem, l) = Nowhere /\ x.owner # Nobody /\ Parcels(l) = {}
          /\ Registers(l) = {f} /\ register[l].owner = x.owner
      BY <1>6, <3>1 DEF Agrees, register
    <3>3. l \notin DOMAIN t.parcel
      BY <1>10, <3>2, Waiting DEF t
    <3>4. ~Touches(t, l)
      BY <1>8, <3>3 DEF Touches
    <3>5. PlaceOf(mem', l).bag = Nobody /\ PlaceOf(mem', l).parcel = Nobody
          /\ PlaceOf(mem', l).owner = x.owner
      BY <1>2, <1>8, <2>1, <2>3, <3>2, <3>3, PlaceFacts
    <3>6. x.bag = Nobody /\ x.parcel = Nobody
      BY <3>2 DEF Place
    <3>7. PlaceOf(mem', l) = x
      <4>1. PlaceOf(mem', l) \in Place
        BY <2>1, <3>5 DEF Place
      <4> QED BY <3>5, <3>6, <4>1, PlaceFacts
    <3>8. PlaceOf(mem, l)' = x
      BY <3>7 DEF PlaceOf
    <3>9. Agrees(x, l)'
      BY <1>4, <3>2, <3>8, PlaceFacts DEF Agrees
    <3> QED BY <1>6, <2>2, <3>4, <3>9 DEF LotInv
  <2>4. CASE l \in DOMAIN t.parcel
    <3>1. f \in Parcels(l)
      BY <1>10, <2>4, Waiting DEF t
    <3>2. /\ PlaceOf(mem, l) = Nowhere /\ x = Nowhere /\ Registers(l) = {} /\ Parcels(l) = {f}
      BY <1>6, <3>1 DEF Agrees
    <3>3. l \notin DOMAIN register
      BY <1>10, <3>2, Waiting DEF register
    <3>4. t.parcel[l] \in Players /\ t.parcel[l] # Nobody
      BY <1>a, <2>4, NobodyAssumption
    <3>5. PlaceOf(mem', l).bag = Nobody /\ PlaceOf(mem', l).parcel = t.parcel[l]
          /\ PlaceOf(mem', l).owner = Nobody
      BY <1>2, <1>8, <2>1, <2>4, <3>2, <3>3, PlaceFacts
    <3>6. PlaceOf(mem', l) \in Place
      BY <2>1, <3>5 DEF Place
    <3>7. PICK y \in Place : y = PlaceOf(mem', l)
      BY <3>6
    <3>8. PlaceOf(mem, l)' = y
      BY <3>7 DEF PlaceOf
    <3>9. /\ y.bag = Nobody /\ y.parcel = t.parcel[l] /\ y.owner = Nobody /\ y # Nowhere
      BY <3>4, <3>5, <3>7, PlaceFacts
    <3>10. <<x, t, y>> \in LotSteps(l)
      <4>1. ~IsBid(t, l)
        BY <1>2 DEF IsBid
      <4> QED BY <1>2, <1>8, <2>4, <3>2, <3>9, <4>1, PlaceFacts, LotStep
    <3>11. Send(t)
      BY <1>10, <1>a, <2>4
    <3>12. /\ queue' = Append(queue, t) /\ Len(queue') = Len(queue) + 1 /\ Len(queue) \in Nat
           /\ queue'[Len(queue) + 1] = t /\ \A k \in 1 .. Len(queue) : queue'[k] = queue[k]
      BY <1>2, <3>11, SendFacts
    <3>13. Drains(y, l)'
      BY <1>1, <1>2, <1>6, <3>10, <3>12, DrainsAppend
    <3>14. \A g \in DOMAIN callbacks : callbacks[g].answer = "none" => ~Moves(callbacks[g], l)
      BY <1>10, <3>2, Waiting
    <3>15. Matches(l)' /\ Untouched(l)'
      BY <1>2, <1>5, <3>12, <3>14, QueueAppend DEF LotInv
    <3>16. Agrees(y, l)'
      BY <1>4, <3>2, <3>8, <3>9 DEF Agrees
    <3> QED BY <3>13, <3>15, <3>16 DEF LotInv
  <2>5. CASE l \notin DOMAIN register /\ l \notin DOMAIN t.parcel
    <3>1. ~Touches(t, l) /\ ~Touches(u, l)
      BY <1>8, <2>5 DEF Touches
    <3>2. PlaceOf(mem, l)' = PlaceOf(mem, l)
      <4>1. PlaceOf(mem', l) = PlaceOf(mem, l)
        BY <1>2, <1>7, <1>10, <3>1, ApplyPlace
      <4> QED BY <4>1 DEF PlaceOf
    <3>3. Registers(l)' = Registers(l) /\ Parcels(l)' = Parcels(l)
      BY <1>4, <2>5, Waiting DEF register, t
    <3>4. \A g \in Registers(l) : callbacks'[g].register = callbacks[g].register
      BY <1>4, <3>3
    <3>5. Agrees(x, l)'
      BY <1>1, <1>6, <3>2, <3>3, <3>4, AgreesStays
    <3> QED BY <1>6, <2>2, <3>1, <3>5 DEF LotInv
  <2> QED BY <2>3, <2>4, <2>5
<1> QED BY <1>1, <1>9, <1>10

\* The worker takes the head and answers it.
LEMMA TailLot ==
    ASSUME TypeInv, NEW l, LotInv(l), queue # <<>>, NEW answer \in {"true", "false"},
           queue' = Tail(queue), callbacks' = Answer(Head(queue).asks, answer)
    PROVE  /\ Matches(l)' /\ Untouched(l)'
           /\ Registers(l)' = IF answer = "true" THEN Registers(l)
                              ELSE Registers(l) \ {Head(queue).asks}
           /\ Parcels(l)' = IF answer = "true" THEN Parcels(l)
                            ELSE Parcels(l) \ {Head(queue).asks}
           /\ \A f \in DOMAIN callbacks : callbacks'[f].register = callbacks[f].register
           /\ Head(queue).asks # NoFuture =>
                /\ Head(queue).asks \in DOMAIN callbacks
                /\ callbacks[Head(queue).asks].answer = "none"
                /\ Head(queue).parcel = Empty
           /\ Head(queue) = queue[1] /\ Head(queue) \in Transaction
<1> DEFINE g == Head(queue).asks
<1>1. queue \in Seq(Transaction) /\ Asking
  BY DEF TypeInv
<1>2. /\ Head(queue) = queue[1] /\ Head(queue) \in Transaction
      /\ Len(queue) \in Nat \ {0} /\ Len(queue') = Len(queue) - 1
      /\ \A k \in 1 .. Len(queue) - 1 : queue'[k] = queue[k + 1]
  BY <1>1, HeadFacts
<1>3. /\ DOMAIN callbacks' = DOMAIN callbacks
      /\ \A f \in DOMAIN callbacks :
           /\ callbacks'[f].register = callbacks[f].register
           /\ callbacks'[f].pays = callbacks[f].pays
           /\ callbacks'[f].answer = IF f = g THEN answer ELSE callbacks[f].answer
  BY AnswerFacts, ZenonT(60)
<1>4. g # NoFuture => g \in DOMAIN callbacks /\ callbacks[g].answer = "none"
                      /\ Head(queue).parcel = Empty
  BY <1>1, <1>2 DEF Asking
<1>5. \A f \in DOMAIN callbacks : Moves(callbacks'[f], l) <=> Moves(callbacks[f], l)
  BY <1>3 DEF Moves
<1>6. \A k \in 1 .. Len(queue) - 1 :
        /\ k + 1 \in 1 .. Len(queue) /\ queue'[k] = queue[k + 1]
        /\ queue[k + 1].asks # NoFuture =>
             (Moves(callbacks'[queue[k + 1].asks], l) <=> Moves(callbacks[queue[k + 1].asks], l))
  <2>1. ASSUME NEW k \in 1 .. Len(queue) - 1
        PROVE  /\ k + 1 \in 1 .. Len(queue) /\ queue'[k] = queue[k + 1]
               /\ queue[k + 1].asks # NoFuture =>
                    (Moves(callbacks'[queue[k + 1].asks], l) <=> Moves(callbacks[queue[k + 1].asks], l))
    <3>1. k + 1 \in 1 .. Len(queue) /\ queue'[k] = queue[k + 1]
      BY <1>2
    <3>2. queue[k + 1].asks # NoFuture => queue[k + 1].asks \in DOMAIN callbacks
      BY <1>1, <3>1 DEF Asking
    <3> QED BY <1>5, <3>1, <3>2
  <2> QED BY <2>1
<1> HIDE DEF g
<1>7. Matches(l)'
  <2>1. ASSUME NEW k \in 1 .. Len(queue) - 1, queue'[k].asks # NoFuture,
               l \in DOMAIN queue'[k].bag \/ l \in DOMAIN queue'[k].row
        PROVE  \/ Moves(callbacks'[queue'[k].asks], l)
               \/ l \notin DOMAIN queue'[k].bag /\ queue'[k].row[l].bidder # Nobody
    <3>1. \/ Moves(callbacks[queue[k + 1].asks], l)
          \/ l \notin DOMAIN queue[k + 1].bag /\ queue[k + 1].row[l].bidder # Nobody
      BY <1>6, <2>1 DEF LotInv, Matches
    <3> QED BY <1>6, <2>1, <3>1
  <2> QED BY <1>2, <2>1 DEF Matches
<1>8. Untouched(l)'
  <2>1. ASSUME NEW j \in 1 .. Len(queue) - 1, NEW k \in 1 .. Len(queue) - 1, j < k,
               queue'[j].asks # NoFuture, Moves(callbacks'[queue'[j].asks], l)
        PROVE  ~Touches(queue'[k], l)
    <3>1. j + 1 < k + 1 /\ queue[j + 1].asks # NoFuture /\ Moves(callbacks[queue[j + 1].asks], l)
      BY <1>6, <2>1
    <3>2. ~Touches(queue[k + 1], l)
      BY <1>6, <3>1 DEF LotInv, Untouched
    <3> QED BY <1>6, <3>2
  <2> QED BY <1>2, <2>1 DEF Untouched
<1>9. /\ Registers(l)' = IF answer = "true" THEN Registers(l) ELSE Registers(l) \ {g}
      /\ Parcels(l)' = IF answer = "true" THEN Parcels(l) ELSE Parcels(l) \ {g}
  <2>1. \A f \in DOMAIN callbacks :
          callbacks'[f].answer # "false" <=>
             callbacks[f].answer # "false" /\ (answer = "true" \/ f # g)
    <3>1. \A f \in DOMAIN callbacks : f = g => callbacks[f].answer = "none"
      <4>1. NoFuture \notin DOMAIN callbacks
        BY NobodyAssumption DEF TypeInv
      <4> QED BY <1>4, <4>1
    <3> QED BY <1>3, <3>1
  <2> QED BY <1>3, <2>1 DEF Registers, Parcels, Awaited
<1> QED BY <1>2, <1>3, <1>4, <1>7, <1>8, <1>9 DEF g

LEMMA CommitLot ==
    ASSUME TypeInv, TypeInv', NEW l \in Lots, LotInv(l), Commit
    PROVE  LotInv(l)'
<1> DEFINE t == Head(queue)
<1>1. /\ queue # <<>> /\ db' = Apply(db, t) /\ queue' = Tail(queue)
      /\ callbacks' = Answer(t.asks, "true")
      /\ UNCHANGED <<mem, session, sales, leaves, faults, drops>>
  BY DEF Commit
<1>2. /\ Matches(l)' /\ Untouched(l)' /\ Registers(l)' = Registers(l) /\ Parcels(l)' = Parcels(l)
      /\ \A f \in DOMAIN callbacks : callbacks'[f].register = callbacks[f].register
      /\ t \in Transaction
  BY <1>1, TailLot
<1>3. PICK x \in Place : Drains(x, l) /\ Agrees(x, l)
  BY DEF LotInv
<1>4. queue \in Seq(Transaction) /\ db \in World /\ db' \in World
  BY DEF TypeInv
<1>a. PICK a \in Place : /\ drops = 0 => a = PlaceOf(db, l)
                         /\ \E h : Trace(h, queue, Place, LotSteps(l), a, x)
  BY <1>3 DEF Drains
<1>5. PICK c \in Place : /\ <<a, t, c>> \in LotSteps(l)
                         /\ \E h : Trace(h, Tail(queue), Place, LotSteps(l), c, x)
  BY <1>1, <1>4, <1>a, TraceTail
<1> HIDE DEF t
<1>6. ASSUME drops' = 0 PROVE PlaceOf(db', l) = c
  <2>a. <<PlaceOf(db, l), t, c>> \in LotSteps(l)
    BY <1>1, <1>5, <1>6, <1>a
  <2>1. PlaceOf(db', l).bag = c.bag /\ PlaceOf(db', l).parcel = c.parcel
        /\ PlaceOf(db', l).owner = c.owner
    BY <1>1, <1>2, <1>4, <2>a, ApplyPlace, LotStep
  <2>2. PlaceOf(db', l) \in Spot
    BY <1>4, SpotFacts
  <2>3. PlaceOf(db', l) \in Place
    BY <2>1, <2>2 DEF Place
  <2> QED BY <2>1, <2>3, PlaceFacts
<1>7. Drains(x, l)'
  <2>1. (drops' = 0 => PlaceOf(db, l)' = c) /\ LotSteps(l)' = LotSteps(l)
    BY <1>6 DEF PlaceOf, LotSteps, IsBid
  <2> QED BY <1>1, <1>5, <2>1 DEF Drains
<1>8. Agrees(x, l)'
  <2>1. PlaceOf(mem, l)' = PlaceOf(mem, l)
    BY <1>1 DEF PlaceOf
  <2>2. \A f \in Registers(l) : callbacks'[f].register = callbacks[f].register
    BY <1>2 DEF Registers, Awaited
  <2> QED BY <1>1, <1>2, <1>3, <2>1, <2>2, AgreesStays
<1> QED BY <1>2, <1>7, <1>8 DEF LotInv

LEMMA FailLot ==
    ASSUME TypeInv, TypeInv', NEW l \in Lots, LotInv(l), Fail
    PROVE  LotInv(l)'
<1> DEFINE t == Head(queue)
<1>1. /\ queue # <<>> /\ t.asks # NoFuture /\ queue' = Tail(queue)
      /\ callbacks' = Answer(t.asks, "false") /\ faults' = faults + 1
      /\ UNCHANGED <<mem, db, session, sales, leaves, drops>>
  BY DEF Fail
<1>2. /\ Matches(l)' /\ Untouched(l)'
      /\ Registers(l)' = Registers(l) \ {t.asks} /\ Parcels(l)' = Parcels(l) \ {t.asks}
      /\ \A f \in DOMAIN callbacks : callbacks'[f].register = callbacks[f].register
      /\ t.asks \in DOMAIN callbacks /\ callbacks[t.asks].answer = "none" /\ t.parcel = Empty
      /\ t = queue[1] /\ t \in Transaction
  BY <1>1, TailLot
<1>3. PICK x \in Place : Drains(x, l) /\ Agrees(x, l)
  BY DEF LotInv
<1>4. queue \in Seq(Transaction) /\ db \in World
  BY DEF TypeInv
<1>a. PICK a \in Place : /\ drops = 0 => a = PlaceOf(db, l)
                         /\ \E h : Trace(h, queue, Place, LotSteps(l), a, x)
  BY <1>3 DEF Drains
<1>5. PICK c \in Place : /\ <<a, t, c>> \in LotSteps(l)
                         /\ \E h : Trace(h, Tail(queue), Place, LotSteps(l), c, x)
  BY <1>1, <1>4, <1>a, TraceTail
<1>6. Tail(queue) \in Seq(Transaction) /\ Len(queue) \in Nat \ {0} /\ Len(Tail(queue)) = Len(queue) - 1
      /\ \A k \in 1 .. Len(queue) - 1 : Tail(queue)[k] = queue[k + 1]
  BY <1>1, <1>4, HeadFacts
<1> HIDE DEF t
<1>7. PlaceOf(db, l)' = PlaceOf(db, l) /\ LotSteps(l)' = LotSteps(l)
      /\ PlaceOf(mem, l)' = PlaceOf(mem, l)
  BY <1>1 DEF PlaceOf, LotSteps, IsBid
<1>8. faults' > 0
  BY <1>1 DEF TypeInv
<1>9. CASE Moves(callbacks[t.asks], l)
  <2>1. t.asks \in Registers(l) \cup Parcels(l)
    BY <1>2, <1>9, Waiting
  <2>2. Registers(l)' = {} /\ Parcels(l)' = {} /\ PlaceOf(mem, l) = Nowhere
    BY <1>2, <1>3, <2>1 DEF Agrees
  <2> DEFINE h == [k \in 0 .. Len(Tail(queue)) |-> a]
  <2>3. ASSUME NEW k \in 1 .. Len(Tail(queue)) PROVE <<a, Tail(queue)[k], a>> \in LotSteps(l)
    <3>1. 1 \in 1 .. Len(queue) /\ k + 1 \in 1 .. Len(queue) /\ 1 < k + 1
          /\ Tail(queue)[k] = queue[k + 1] /\ Tail(queue)[k] \in Transaction
      BY <1>6
    <3>2. ~Touches(queue[k + 1], l)
      BY <1>1, <1>2, <1>9, <3>1 DEF LotInv, Untouched
    <3> QED BY <3>1, <3>2, QuietStep
  <2>4. Trace(h, Tail(queue), Place, LotSteps(l), a, a)
    <3>1. h \in [0 .. Len(Tail(queue)) -> Place] /\ h[0] = a /\ h[Len(Tail(queue))] = a
      BY <1>6, <1>7
    <3>2. ASSUME NEW k \in 1 .. Len(Tail(queue)) PROVE h[k-1] = a /\ h[k] = a
      BY <1>6
    <3> HIDE DEF h
    <3> QED BY <2>3, <3>1, <3>2 DEF Trace
  <2>6. Drains(a, l)'
    BY <1>1, <1>7, <1>a, <2>4 DEF Drains
  <2>7. Agrees(a, l)'
    BY <1>7, <1>8, <2>2 DEF Agrees
  <2> QED BY <1>2, <2>6, <2>7 DEF LotInv
<1>10. CASE ~Moves(callbacks[t.asks], l)
  <2>1. t.asks \notin Registers(l) /\ t.asks \notin Parcels(l)
    BY <1>2, <1>10, Waiting DEF Moves
  <2>2. IsBid(t, l) \/ ~Touches(t, l)
    <3>1. /\ l \in DOMAIN t.bag \/ l \in DOMAIN t.row
          => l \notin DOMAIN t.bag /\ t.row[l].bidder # Nobody
      BY <1>1, <1>2, <1>6, <1>10 DEF LotInv, Matches
    <3> QED BY <1>1, <1>2, <3>1, OnlyFacts DEF IsBid, Touches
  <2>3. c = a
    BY <1>5, <2>2, LotStep, PlaceFacts DEF Touches
  <2>4. Drains(x, l)'
    BY <1>1, <1>5, <1>7, <1>a, <2>3 DEF Drains
  <2>5. Agrees(x, l)'
    <3>1. \A f \in Registers(l) : callbacks'[f].register = callbacks[f].register
      BY <1>2 DEF Registers, Awaited
    <3>2. Registers(l)' = Registers(l) /\ Parcels(l)' = Parcels(l)
      BY <1>2, <2>1
    <3> QED BY <1>1, <1>3, <1>7, <3>1, <3>2, AgreesStays
  <2> QED BY <1>2, <2>4, <2>5 DEF LotInv
<1> QED BY <1>9, <1>10

\* What is dropped is still where the item would be without it.
LEMMA DropLot ==
    ASSUME TypeInv, TypeInv', NEW l \in Lots, LotInv(l), Drop
    PROVE  LotInv(l)'
<1> DEFINE t == Head(queue)
<1>1. /\ queue # <<>> /\ t.asks = NoFuture /\ queue' = Tail(queue) /\ drops' = drops + 1
      /\ UNCHANGED <<mem, db, session, callbacks, sales, leaves, faults>>
  BY DEF Drop
<1>2. /\ Matches(l)' /\ Untouched(l)' /\ Registers(l)' = Registers(l) /\ Parcels(l)' = Parcels(l)
  <2>1. callbacks' = Answer(t.asks, "true")
    BY <1>1 DEF Answer
  <2> QED BY <1>1, <2>1, TailLot
<1>3. PICK x \in Place : Drains(x, l) /\ Agrees(x, l)
  BY DEF LotInv
<1>4. PICK a \in Place : \E h : Trace(h, queue, Place, LotSteps(l), a, x)
  BY <1>3 DEF Drains
<1>5. PICK c \in Place : \E h : Trace(h, Tail(queue), Place, LotSteps(l), c, x)
  <2>1. queue \in Seq(Transaction)
    BY DEF TypeInv
  <2> QED BY <1>1, <1>4, <2>1, TraceTail
<1> HIDE DEF t
<1>6. Drains(x, l)'
  <2>1. LotSteps(l)' = LotSteps(l) /\ drops' # 0
    BY <1>1 DEF LotSteps, IsBid, TypeInv
  <2> QED BY <1>1, <1>5, <2>1 DEF Drains
<1>7. Agrees(x, l)'
  <2>1. PlaceOf(mem, l)' = PlaceOf(mem, l)
    BY <1>1 DEF PlaceOf
  <2>2. \A f \in Registers(l) : callbacks'[f].register = callbacks[f].register
    BY <1>1
  <2> QED BY <1>1, <1>2, <1>3, <2>1, <2>2, AgreesStays
<1> QED BY <1>2, <1>6, <1>7 DEF LotInv

\* What a lost connection does to the queue: the asks of the player's callbacks go.
LEMMA LeaveLot ==
    ASSUME TypeInv, TypeInv', NEW l \in Lots, LotInv(l), NEW p \in Players, Leave(p)
    PROVE  LotInv(l)'
<1> DEFINE t == SaveTx(p)
           n == Len(queue)
           D == DOMAIN callbacks'
<1>1. /\ n \in Nat /\ leaves' = leaves + 1 /\ UNCHANGED <<mem, db, sales, faults, drops>>
      /\ D = {f \in DOMAIN callbacks : callbacks[f].session # p}
      /\ \A f \in D : callbacks'[f] = callbacks[f]
  BY LeaveFacts
<1>2. PICK q \in Seq(Transaction) :
                /\ queue' = Append(q, SaveTx(p)) \/ queue' = q
                /\ Len(q) = Len(queue)
                /\ \A k \in 1 .. Len(queue) :
                     /\ q[k].purse = queue[k].purse /\ q[k].bag = queue[k].bag
                     /\ q[k].parcel = queue[k].parcel /\ q[k].row = queue[k].row
                     /\ q[k].mail = queue[k].mail
                     /\ q[k].asks = IF queue[k].asks \in DOMAIN callbacks' THEN queue[k].asks
                                    ELSE NoFuture
  BY LeaveFacts
<1>3. t \in Transaction /\ t.asks = NoFuture /\ ~Touches(t, l)
  <2>1. NoGold \in [Players -> Int] /\ mem.purse[p] \in Nat
    BY WorldFacts, SMTT(60) DEF NoGold, TypeInv
  <2>2. t \in Transaction
    BY <2>1, OnlyType, TxType DEF SaveTx
  <2>3. t.bag = Empty /\ t.parcel = Empty /\ t.row = Empty /\ t.asks = NoFuture
    BY TxFacts DEF SaveTx
  <2> QED BY <2>2, <2>3, OnlyFacts DEF Touches
<1>4. (queue' = Append(q, t) \/ queue' = q) /\ queue \in Seq(Transaction) /\ D \subseteq Futures
  BY <1>1, <1>2 DEF TypeInv
<1> HIDE DEF t, D
<1>5. /\ 1 .. Len(queue') \subseteq 1 .. n + 1
      /\ n + 1 \in 1 .. Len(queue') => queue'[n + 1] = t
      /\ \A k \in 1 .. n : queue'[k] = q[k]
  <2>1. CASE queue' = Append(q, t)
    BY <1>1, <1>2, <1>3, <2>1
  <2>2. CASE queue' = q
    BY <1>1, <1>2, <2>2
  <2> QED BY <1>4, <2>1, <2>2
<1>6. ASSUME NEW k \in 1 .. Len(queue'), queue'[k].asks # NoFuture
      PROVE  /\ k \in 1 .. n /\ queue[k].asks = queue'[k].asks /\ queue[k].asks \in D
             /\ callbacks'[queue'[k].asks] = callbacks[queue[k].asks]
  <2>1. k \in 1 .. n
    <3>1. k # n + 1
      BY <1>3, <1>5, <1>6
    <3> QED BY <1>1, <1>5, <3>1
  <2>2. queue'[k].asks = IF queue[k].asks \in D THEN queue[k].asks ELSE NoFuture
    BY <1>2, <1>5, <2>1 DEF D
  <2> QED BY <1>1, <1>6, <2>1, <2>2
<1>7. ASSUME NEW k \in 1 .. n
      PROVE  /\ queue'[k].bag = queue[k].bag /\ queue'[k].parcel = queue[k].parcel
             /\ queue'[k].row = queue[k].row /\ queue'[k].purse = queue[k].purse
             /\ Touches(queue'[k], l) <=> Touches(queue[k], l)
  BY <1>2, <1>5 DEF Touches
<1>8. Matches(l)'
  <2>1. ASSUME NEW k \in 1 .. Len(queue'), queue'[k].asks # NoFuture,
               l \in DOMAIN queue'[k].bag \/ l \in DOMAIN queue'[k].row
        PROVE  \/ Moves(callbacks'[queue'[k].asks], l)
               \/ l \notin DOMAIN queue'[k].bag /\ queue'[k].row[l].bidder # Nobody
    <3>1. /\ k \in 1 .. n /\ queue[k].asks = queue'[k].asks
          /\ callbacks'[queue'[k].asks] = callbacks[queue[k].asks]
      BY <1>6, <2>1
    <3>2. queue'[k].bag = queue[k].bag /\ queue'[k].row = queue[k].row
      BY <1>7, <3>1
    <3>3. \/ Moves(callbacks[queue[k].asks], l)
          \/ l \notin DOMAIN queue[k].bag /\ queue[k].row[l].bidder # Nobody
      BY <2>1, <3>1, <3>2 DEF LotInv, Matches
    <3> QED BY <3>1, <3>2, <3>3
  <2> QED BY <2>1 DEF Matches
<1>9. Untouched(l)'
  <2>1. ASSUME NEW j \in 1 .. Len(queue'), NEW k \in 1 .. Len(queue'), j < k, queue'[j].asks # NoFuture,
               Moves(callbacks'[queue'[j].asks], l)
        PROVE  ~Touches(queue'[k], l)
    <3>1. /\ j \in 1 .. n /\ queue[j].asks # NoFuture /\ Moves(callbacks[queue[j].asks], l)
      BY <1>6, <2>1
    <3>2. CASE k \in 1 .. n
      <4>1. ~Touches(queue[k], l)
        BY <2>1, <3>1, <3>2 DEF LotInv, Untouched
      <4> QED BY <1>7, <3>2, <4>1
    <3>3. CASE k = n + 1
      BY <1>3, <1>5, <3>3
    <3> QED BY <1>1, <1>5, <3>2, <3>3
  <2> QED BY <2>1 DEF Untouched
<1>10. PICK x \in Place : Drains(x, l) /\ Agrees(x, l)
  BY DEF LotInv
<1>11. Drains(x, l)'
  <2>1. PICK c \in Place : /\ drops = 0 => c = PlaceOf(db, l)
                           /\ \E h : Trace(h, queue, Place, LotSteps(l), c, x)
    BY <1>10 DEF Drains
  <2>2. \A k \in 1 .. n : \A a \in Place, b \in Place :
          <<a, queue[k], b>> \in LotSteps(l) => <<a, q[k], b>> \in LotSteps(l)
    <3>1. ASSUME NEW k \in 1 .. n
          PROVE  q[k] \in Transaction /\ q[k].bag = queue[k].bag /\ q[k].parcel = queue[k].parcel
                 /\ q[k].row = queue[k].row /\ q[k].purse = queue[k].purse
                 /\ (IsBid(q[k], l) => IsBid(queue[k], l))
                 /\ \A a, b : <<a, queue[k], b>> \in LotSteps(l) => <<a, q[k], b>> \in LotSteps(l)
      <4>1. q[k] \in Transaction
        BY <1>1, <1>2
      <4>2. q[k].asks = IF queue[k].asks \in DOMAIN callbacks' THEN queue[k].asks ELSE NoFuture
        BY <1>2
      <4>3. q[k].row = queue[k].row
        BY <1>2
      <4>4. q[k].asks # NoFuture => queue[k].asks = q[k].asks
        BY <4>2
      <4>5. /\ q[k].bag = queue[k].bag /\ q[k].parcel = queue[k].parcel
            /\ q[k].purse = queue[k].purse /\ (IsBid(q[k], l) => IsBid(queue[k], l))
        BY <1>2, <4>3, <4>4 DEF IsBid
      <4>6. ASSUME NEW a, NEW b, <<a, queue[k], b>> \in LotSteps(l)
            PROVE  <<a, q[k], b>> \in LotSteps(l)
        <5>1. /\ a \in Place /\ b \in Place
              /\ b.bag = IF l \in DOMAIN q[k].bag THEN q[k].bag[l] ELSE a.bag
              /\ b.parcel = IF l \in DOMAIN q[k].parcel THEN q[k].parcel[l] ELSE a.parcel
              /\ b.owner = IF l \in DOMAIN q[k].row THEN q[k].row[l].owner ELSE a.owner
              /\ b.bag # a.bag => /\ a.bag \in DOMAIN q[k].purse \cup {Nobody}
                                 /\ b.bag \in DOMAIN q[k].purse \cup {Nobody}
              /\ b.parcel # a.parcel => a.parcel \in DOMAIN q[k].purse \cup {Nobody}
              /\ IsBid(q[k], l) => a = b
          BY <4>3, <4>5, <4>6, LotStep
        <5> QED BY <4>1, <5>1, LotStep
      <4> QED BY <4>1, <4>3, <4>5, <4>6
    <3> QED BY <3>1
  <2>3. \E h : Trace(h, q, Place, LotSteps(l), c, x)
    BY <1>1, <1>2, <2>1, <2>2, TraceWeaken
  <2>4. \E h : Trace(h, Append(q, t), Place, LotSteps(l), c, x)
    BY <1>2, <1>3, <1>10, <2>3, QuietStep, TraceAppend
  <2>5. PlaceOf(db, l)' = PlaceOf(db, l) /\ LotSteps(l)' = LotSteps(l)
    BY <1>1 DEF PlaceOf, LotSteps, IsBid
  <2> QED BY <1>1, <1>4, <2>1, <2>3, <2>4, <2>5 DEF Drains
<1>12. Agrees(x, l)'
  <2>1. leaves' > 0 /\ PlaceOf(mem, l)' = PlaceOf(mem, l)
    BY <1>1 DEF TypeInv, PlaceOf
  <2>2. Registers(l)' = Registers(l) \cap D /\ Parcels(l)' = Parcels(l) \cap D
    BY <1>1 DEF Registers, Parcels, Awaited, D
  <2>3. \A f \in D : callbacks'[f].register = callbacks[f].register
    BY <1>1
  <2>4. CASE x = PlaceOf(mem, l) /\ Registers(l) = {} /\ Parcels(l) = {}
    BY <2>1, <2>2, <2>4 DEF Agrees
  <2>5. CASE PlaceOf(mem, l) = Nowhere /\ Registers(l)' = {} /\ Parcels(l)' = {}
    BY <2>1, <2>5 DEF Agrees
  <2>6. CASE /\ PlaceOf(mem, l) = Nowhere /\ x.owner # Nobody /\ Parcels(l) = {}
             /\ \E f : Registers(l) = {f} /\ callbacks[f].register[l].owner = x.owner
             /\ Registers(l)' # {}
    <3>1. PICK f : Registers(l) = {f} /\ callbacks[f].register[l].owner = x.owner
      BY <2>6
    <3>2. Registers(l)' = {f} /\ f \in D /\ Parcels(l)' = {}
      BY <2>2, <2>6, <3>1
    <3>3. callbacks'[f].register[l].owner = x.owner
      BY <2>3, <3>1, <3>2
    <3> QED BY <2>1, <2>6, <3>2, <3>3 DEF Agrees
  <2>7. CASE /\ PlaceOf(mem, l) = Nowhere /\ x = Nowhere /\ Registers(l) = {}
             /\ \E f : Parcels(l) = {f}
             /\ Parcels(l)' # {}
    <3>1. PICK f : Parcels(l) = {f}
      BY <2>7
    <3>2. Parcels(l)' = {f} /\ Registers(l)' = {}
      BY <2>2, <2>7, <3>1
    <3> QED BY <2>1, <2>7, <3>2 DEF Agrees
  <2> QED BY <1>10, <2>2, <2>4, <2>5, <2>6, <2>7 DEF Agrees
<1> QED BY <1>8, <1>9, <1>10, <1>11, <1>12 DEF LotInv

LEMMA DrainsFacts ==
    ASSUME TypeInv, drops = 0, NEW l, NEW x, Drains(x, l)
    PROVE  PlaceOf(db, l) \in Place /\ \E h : Trace(h, queue, Place, LotSteps(l), PlaceOf(db, l), x)
  BY DEF Drains

\* While nothing that concerns p is in the queue, what he has in the tables and
\* what he has at the end of the trace are the same.
LEMMA TraceHolds ==
    ASSUME NEW q, Len(q) \in Nat, NEW l, NEW p \in Players, NEW x, NEW y,
           x \in Place, \E h : Trace(h, q, Place, LotSteps(l), x, y),
           \A k \in 1 .. Len(q) : /\ p \notin DOMAIN q[k].purse
                                 /\ \A m \in DOMAIN q[k].parcel : q[k].parcel[m] # p
    PROVE  (y.bag = p <=> x.bag = p) /\ (y.parcel = p <=> x.parcel = p)
<1> DEFINE C == {z \in Place : (z.bag = p <=> x.bag = p) /\ (z.parcel = p <=> x.parcel = p)}
<1>1. p # Nobody
  BY NobodyAssumption
<1>2. ASSUME NEW k \in 1 .. Len(q), NEW a \in Place, NEW b \in Place,
             <<a, q[k], b>> \in LotSteps(l), a \in C
      PROVE  b \in C
  <2>1. /\ b.parcel = IF l \in DOMAIN q[k].parcel THEN q[k].parcel[l] ELSE a.parcel
        /\ b.bag # a.bag => /\ a.bag \in DOMAIN q[k].purse \cup {Nobody}
                           /\ b.bag \in DOMAIN q[k].purse \cup {Nobody}
        /\ b.parcel # a.parcel => a.parcel \in DOMAIN q[k].purse \cup {Nobody}
    BY <1>2, LotStep
  <2>2. b.bag = p <=> a.bag = p
    BY <1>1, <2>1
  <2>3. b.parcel = p <=> a.parcel = p
    BY <1>1, <2>1
  <2> QED BY <1>2, <2>2, <2>3
<1>3. x \in C
  OBVIOUS
<1> HIDE DEF C
<1>4. y \in C
  BY <1>2, <1>3, TraceKeeps
<1> QED BY <1>4 DEF C

\* Who is back has what he had, and what only the tables knew was his.
LEMMA ReturnLot ==
    ASSUME TypeInv, TypeInv', NEW l \in Lots, LotInv(l), Intact, NEW p \in Players, Return(p)
    PROVE  LotInv(l)'
<1>1. /\ session[p] = "left"
      /\ \A k \in 1 .. Len(queue) :
           /\ p \notin DOMAIN queue[k].purse /\ queue[k].mail[p] = 0
           /\ \A m \in DOMAIN queue[k].parcel : queue[k].parcel[m] # p
      /\ mem' \in World
      /\ mem'.bag[l] = IF db.bag[l] = p THEN p
                       ELSE IF mem.bag[l] = p THEN Nobody ELSE mem.bag[l]
      /\ mem'.parcel[l] = IF db.parcel[l] = p THEN p
                          ELSE IF mem.parcel[l] = p THEN Nobody ELSE mem.parcel[l]
      /\ mem'.row = mem.row
      /\ UNCHANGED <<db, queue, callbacks, sales, leaves, faults, drops>>
  <2>1. /\ session[p] = "left"
        /\ \A k \in 1 .. Len(queue) :
             /\ p \notin DOMAIN queue[k].purse /\ queue[k].mail[p] = 0
             /\ \A m \in DOMAIN queue[k].parcel : queue[k].parcel[m] # p
        /\ mem' \in World
        /\ \A m \in Lots : mem'.bag[m] = IF db.bag[m] = p THEN p
                                         ELSE IF mem.bag[m] = p THEN Nobody ELSE mem.bag[m]
        /\ \A m \in Lots : mem'.parcel[m] = IF db.parcel[m] = p THEN p
                                            ELSE IF mem.parcel[m] = p THEN Nobody
                                            ELSE mem.parcel[m]
        /\ mem'.row = mem.row
        /\ UNCHANGED <<db, queue, callbacks, sales, leaves, faults, drops>>
    BY ReturnFacts, ZenonT(60)
  <2> QED BY <2>1
<1>2. PICK x \in Place : Drains(x, l) /\ Agrees(x, l)
  BY DEF LotInv
<1>3. Drains(x, l)' /\ Matches(l)' /\ Untouched(l)'
  BY <1>1, <1>2, DrainsStays, QueueStays DEF LotInv
<1>4. Registers(l)' = Registers(l) /\ Parcels(l)' = Parcels(l)
  BY <1>1 DEF Registers, Parcels, Awaited
<1>5. mem \in World /\ db \in World /\ Len(queue) \in Nat
  BY DEF TypeInv
<1>6. drops = 0
  BY <1>1 DEF TypeInv, Intact
<1>7. (x.bag = p <=> db.bag[l] = p) /\ (x.parcel = p <=> db.parcel[l] = p)
  <2>1. PlaceOf(db, l) \in Place /\ \E h : Trace(h, queue, Place, LotSteps(l), PlaceOf(db, l), x)
    BY <1>2, <1>6, DrainsFacts
  <2>2. PlaceOf(db, l).bag = db.bag[l] /\ PlaceOf(db, l).parcel = db.parcel[l]
    BY DEF PlaceOf
  <2> QED BY <1>1, <1>5, <2>1, <2>2, TraceHolds
<1>8. /\ PlaceOf(mem, l).bag = mem.bag[l] /\ PlaceOf(mem, l).parcel = mem.parcel[l]
      /\ PlaceOf(mem', l).bag = mem'.bag[l] /\ PlaceOf(mem', l).parcel = mem'.parcel[l]
      /\ PlaceOf(mem', l).owner = PlaceOf(mem, l).owner /\ p # Nobody
      /\ PlaceOf(mem, l) \in Spot /\ PlaceOf(mem', l) \in Spot
  BY <1>1, <1>5, SpotFacts, NobodyAssumption DEF PlaceOf
<1>9. CASE \/ x = PlaceOf(mem, l)
           \/ PlaceOf(mem, l) = Nowhere /\ x.bag # p /\ x.parcel # p
  <2>1. mem'.bag[l] = mem.bag[l] /\ mem'.parcel[l] = mem.parcel[l]
    BY <1>1, <1>7, <1>8, <1>9, PlaceFacts
  <2>2. PlaceOf(mem, l)' = PlaceOf(mem, l)
    BY <1>1, <2>1 DEF PlaceOf
  <2> QED BY <1>1, <1>2, <1>3, <1>4, <2>2, AgreesStays DEF LotInv
<1>10. CASE PlaceOf(mem, l) = Nowhere /\ (x.bag = p \/ x.parcel = p)
  <2>1. x # Nowhere /\ x.owner = Nobody /\ (x.bag = Nobody \/ x.parcel = Nobody)
    BY <1>8, <1>10, PlaceFacts DEF Place
  <2>2. Registers(l) = {} /\ Parcels(l) = {}
    BY <1>2, <1>10, <2>1 DEF Agrees
  <2>3. mem.bag[l] = Nobody /\ mem.parcel[l] = Nobody /\ PlaceOf(mem', l).owner = Nobody
    BY <1>8, <1>10, PlaceFacts
  <2>4. /\ PlaceOf(mem', l).bag = x.bag /\ PlaceOf(mem', l).parcel = x.parcel
        /\ PlaceOf(mem', l).owner = x.owner
    BY <1>1, <1>7, <1>8, <1>10, <2>1, <2>3
  <2>5. PlaceOf(mem', l) = x
    <3>1. PlaceOf(mem', l) \in Place
      BY <1>8, <2>4 DEF Place
    <3> QED BY <2>4, <3>1, PlaceFacts
  <2>6. PlaceOf(mem, l)' = x
    BY <2>5 DEF PlaceOf
  <2>7. Agrees(x, l)'
    BY <1>4, <2>1, <2>2, <2>6 DEF Agrees
  <2> QED BY <1>3, <2>7 DEF LotInv
<1> QED BY <1>2, <1>9, <1>10 DEF Agrees

LEMMA InitTables ==
    ASSUME Init
    PROVE  \E owner \in [Lots -> Players], bidder \in [Lots -> Players \cup {Nobody}],
              listed \in SUBSET Lots :
             /\ \A l \in Lots : bidder[l] # owner[l] /\ (l \notin listed => bidder[l] = Nobody)
             /\ db = LoadAuctions(owner, bidder, listed)
  BY DEF Init

LEMMA InitLot ==
    ASSUME Init, NEW l \in Lots
    PROVE  LotInv(l)
<1>1. /\ db \in World /\ mem = db /\ queue = <<>> /\ DOMAIN callbacks = {}
  BY InitFacts
<1>2. PICK owner \in [Lots -> Players], bidder \in [Lots -> Players \cup {Nobody}],
           listed \in SUBSET Lots : db = LoadAuctions(owner, bidder, listed)
  BY InitTables
<1>3. /\ db.bag[l] = IF l \in listed THEN Nobody ELSE owner[l]
      /\ db.parcel[l] = Nobody
      /\ db.row[l].owner = IF l \in listed THEN owner[l] ELSE Nobody
      /\ owner[l] \in Players
  <2>1. /\ db.bag = [m \in Lots |-> IF m \in listed THEN Nobody ELSE owner[m]]
        /\ db.parcel = [m \in Lots |-> Nobody]
        /\ db.row = [m \in Lots |->
              IF m \in listed
                THEN [owner |-> owner[m], bidder |-> bidder[m],
                      bid |-> IF bidder[m] = Nobody THEN 0 ELSE StartBid[m]]
                ELSE NoRow]
    BY <1>2, Zenon DEF LoadAuctions
  <2> QED BY <2>1 DEF NoRow
<1>4. owner[l] # Nobody
  BY <1>3, NobodyAssumption
<1>5. PlaceOf(db, l) \in Place /\ PlaceOf(db, l) # Nowhere
  BY <1>1, <1>3, <1>4, SpotFacts DEF Place
<1>6. Drains(PlaceOf(db, l), l)
  BY <1>1, <1>5, TraceEmpty DEF Drains
<1>7. Agrees(PlaceOf(db, l), l)
  BY <1>1, <1>5 DEF Agrees, PlaceOf, Registers, Parcels, Awaited
<1>8. Matches(l) /\ Untouched(l)
  BY <1>1 DEF Matches, Untouched
<1> QED BY <1>5, <1>6, <1>7, <1>8 DEF LotInv

LEMMA LotNext ==
    ASSUME TypeInv, TypeInv', [Next]_vars, NEW l \in Lots, LotInv(l), Intact
    PROVE  LotInv(l)'
<1>1. CASE \E p \in Players, m \in Lots : SellItem(p, m)
  BY <1>1, SellLot
<1>2. CASE \E p \in Players, m \in Lots : \E price \in Prices : PlaceBid(p, m, price)
  BY <1>2, BidLot
<1>3. CASE \E p, m, ended, t : Plain(p, m, ended, t)
  BY <1>3, PlainLot
<1>4. CASE \E f \in DOMAIN callbacks : ProcessCallback(f)
  BY <1>4, CallbackLot
<1>5. CASE Commit
  BY <1>5, CommitLot
<1>6. CASE Fail
  BY <1>6, FailLot
<1>7. CASE \E p \in Players : Leave(p) \/ Return(p)
  BY <1>7, LeaveLot, ReturnLot, ZenonT(60)
<1>9. CASE Drop
  BY <1>9, DropLot
<1>8. CASE UNCHANGED vars
  BY <1>8 DEF vars, LotInv, Matches, Untouched, Drains, Agrees, PlaceOf, LotSteps, IsBid,
              Registers, Parcels, Awaited
<1> QED BY <1>1, <1>2, <1>3, <1>4, <1>5, <1>6, <1>7, <1>8, <1>9, NextCases

LotsInv == Intact => \A l \in Lots : LotInv(l)

\* What has been harmed stays so.
LEMMA IntactStays ==
    ASSUME TypeInv, [Next]_vars, Intact'
    PROVE  Intact
<1>1. leaves \in Nat /\ drops \in Nat
  BY DEF TypeInv
<1>2. leaves' \in {leaves, leaves + 1} /\ drops' \in {drops, drops + 1}
  <2>1. CASE \E p, l, ended, t : Plain(p, l, ended, t)
    <3>1. UNCHANGED <<leaves, drops>>
      BY <2>1, PlainSteps
    <3> QED BY <3>1
  <2>2. CASE \E p \in Players : Leave(p) \/ Return(p)
    <3>1. \A p \in Players : Leave(p) => leaves' = leaves + 1 /\ UNCHANGED drops
      BY DEF Leave
    <3>2. \A p \in Players : Return(p) => UNCHANGED <<leaves, drops>>
      BY DEF Return
    <3> QED BY <2>2, <3>1, <3>2
  <2>3. CASE \/ \E p \in Players, l \in Lots : SellItem(p, l)
             \/ \E p \in Players, l \in Lots : \E price \in Prices : PlaceBid(p, l, price)
             \/ \E f \in DOMAIN callbacks : ProcessCallback(f)
             \/ Commit \/ Fail \/ UNCHANGED vars
    <3>1. \A p, l : SellItem(p, l) => UNCHANGED <<leaves, drops>>
      BY DEF SellItem
    <3>2. \A p, l, price : PlaceBid(p, l, price) => UNCHANGED <<leaves, drops>>
      BY DEF PlaceBid
    <3>3. \A f \in DOMAIN callbacks : ProcessCallback(f) => UNCHANGED <<leaves, drops>>
      BY CallbackSteps
    <3>4. Commit \/ Fail \/ UNCHANGED vars => UNCHANGED <<leaves, drops>>
      BY DEF Commit, Fail, vars
    <3> QED BY <2>3, <3>1, <3>2, <3>3, <3>4
  <2>4. CASE Drop
    BY <2>4 DEF Drop
  <2> QED BY <2>1, <2>2, <2>3, <2>4, NextCases
<1> QED BY <1>1, <1>2 DEF Intact

LEMMA LotAlways == Spec => [](TypeInv /\ LotsInv)
<1>1. Init => LotsInv
  BY InitLot DEF LotsInv
<1>2. TypeInv /\ TypeInv' /\ LotsInv /\ [Next]_vars => LotsInv'
  BY LotNext, IntactStays DEF LotsInv
<1> QED BY <1>1, <1>2, TypeAlways, PTL DEF Spec

LEMMA PlacesFacts ==
    ASSUME NEW w \in World, NEW l \in Lots, PlaceOf(w, l) \in Place
    PROVE  /\ Places(w, l) \in {0, 1}
           /\ Places(w, l) = 0 <=> PlaceOf(w, l) = Nowhere
<1> DEFINE S == {r \in {"bag"} : w.bag[l] # Nobody} \cup {r \in {"parcel"} : w.parcel[l] # Nobody}
                \cup {r \in {"row"} : Listed(w, l)}
<1>1. /\ w.bag[l] # Nobody => w.parcel[l] = Nobody /\ w.row[l].owner = Nobody
      /\ w.parcel[l] # Nobody => w.row[l].owner = Nobody
  BY SpotFacts DEF Place
<1>2. S = {} <=> PlaceOf(w, l) = Nowhere
  BY SpotFacts DEF Listed
<1>3. S \in {{}, {"bag"}, {"parcel"}, {"row"}}
  BY <1>1 DEF Listed
<1>4. Places(w, l) = Cardinality(S)
  BY DEF Places
<1> HIDE DEF S
<1>5. Cardinality({}) = 0 /\ Cardinality({"bag"}) = 1 /\ Cardinality({"parcel"}) = 1
      /\ Cardinality({"row"}) = 1
  BY FS_EmptySet, FS_Singleton
<1> QED BY <1>2, <1>3, <1>4, <1>5

LEMMA OneItemSuffices ==
    ASSUME TypeInv, LotsInv
    PROVE  OneItem /\ (drops = 0 => \A l \in Lots : Places(db, l) <= 1)
<1> SUFFICES ASSUME NEW l \in Lots, Intact
             PROVE  LET n == Places(mem, l) + Cardinality(Registers(l)) + Cardinality(Parcels(l))
                    IN  /\ n <= 1 /\ (n = 0 => leaves > 0 \/ faults > 0)
                        /\ drops = 0 => Places(db, l) <= 1
  BY DEF OneItem, Intact
<1>1. PICK x \in Place : Drains(x, l) /\ Agrees(x, l)
  BY DEF LotsInv, LotInv
<1>2. mem \in World /\ db \in World
  BY DEF TypeInv
<1>3. drops = 0 => PlaceOf(db, l) \in Place
  BY <1>1, DrainsFacts
<1>4. drops = 0 => Places(db, l) <= 1
  BY <1>2, <1>3, PlacesFacts
<1>5. Cardinality({}) = 0 /\ \A f : Cardinality({f}) = 1
  BY FS_EmptySet, FS_Singleton
<1>6. CASE /\ x = PlaceOf(mem, l) /\ Registers(l) = {} /\ Parcels(l) = {}
           /\ x = Nowhere => leaves > 0 \/ faults > 0
  BY <1>1, <1>2, <1>4, <1>5, <1>6, PlacesFacts
<1>7. CASE PlaceOf(mem, l) = Nowhere
  <2>1. Places(mem, l) = 0
    BY <1>2, <1>7, PlaceFacts, PlacesFacts
  <2>2. \/ Parcels(l) = {} /\ \E f : Registers(l) = {f}
        \/ Registers(l) = {} /\ \E f : Parcels(l) = {f}
        \/ Registers(l) = {} /\ Parcels(l) = {} /\ (leaves > 0 \/ faults > 0)
    BY <1>1, <1>7 DEF Agrees
  <2>3. /\ Cardinality(Registers(l)) \in {0, 1} /\ Cardinality(Parcels(l)) \in {0, 1}
        /\ Cardinality(Registers(l)) = 0 \/ Cardinality(Parcels(l)) = 0
        /\ Cardinality(Registers(l)) = 0 /\ Cardinality(Parcels(l)) = 0
             => leaves > 0 \/ faults > 0
    <3>1. CASE Parcels(l) = {} /\ \E f : Registers(l) = {f}
      <4>1. Cardinality(Registers(l)) = 1 /\ Cardinality(Parcels(l)) = 0
        BY <1>5, <3>1
      <4> QED BY <4>1
    <3>2. CASE Registers(l) = {} /\ \E f : Parcels(l) = {f}
      <4>1. Cardinality(Registers(l)) = 0 /\ Cardinality(Parcels(l)) = 1
        BY <1>5, <3>2
      <4> QED BY <4>1
    <3>3. CASE Registers(l) = {} /\ Parcels(l) = {} /\ (leaves > 0 \/ faults > 0)
      <4>1. Cardinality(Registers(l)) = 0 /\ Cardinality(Parcels(l)) = 0
        BY <1>5, <3>3
      <4> QED BY <3>3, <4>1
    <3> QED BY <2>2, <3>1, <3>2, <3>3
  <2> DEFINE a == Cardinality(Registers(l))
             b == Cardinality(Parcels(l))
             c == Places(mem, l)
  <2>4. /\ a \in {0, 1} /\ b \in {0, 1} /\ (a = 0 \/ b = 0)
        /\ a = 0 /\ b = 0 => leaves > 0 \/ faults > 0
        /\ c = 0
    BY <2>1, <2>3
  <2> HIDE DEF a, b, c
  <2>5. /\ c + a + b <= 1
        /\ c + a + b = 0 => leaves > 0 \/ faults > 0
    BY <2>4
  <2> QED BY <1>4, <2>5 DEF a, b, c
<1> QED BY <1>1, <1>6, <1>7 DEF Agrees

\* An item is in one bag, one mail or one auction, or one callback is about to
\* put it there, for any players, lots, connections lost and transactions that
\* fail, until who left reads tables that miss a transaction.
THEOREM ItemsKept == Spec => []OneItem
<1> QED BY LotAlways, OneItemSuffices, PTL

----------------------------------------------------------------------------
(* Gold.  What the tables are worth, and what callbacks have still to pay.   *)

Gold(w) == SumFunction([p \in Players |-> w.purse[p] + w.post[p]])
Value(r) == IF r.owner # Nobody THEN r.bid + Deposit ELSE 0
Stakes(w) == SumFunction([l \in Lots |-> Value(w.row[l])])
Mailed(m) == SumFunction([p \in Players |-> m[p]])
Pending == SumFunction([f \in Awaited |-> Mailed(callbacks[f].pays.mail)])
StartWorth == StartGold * Cardinality(Players)

LEMMA FinitePlayers ==
    IsFiniteSet(Players) /\ IsFiniteSet(Lots) /\ IsFiniteSet(Futures) /\ StartWorth \in Int
  BY FiniteAssumption, LotAssumption, FS_CardinalityType DEF StartWorth

LEMMA ValueNat == \A r \in Row : Value(r) \in Nat
  BY GoldAssumption DEF Value, Row

LEMMA WorthIs ==
    ASSUME NEW w \in World
    PROVE  Worth(w) = Gold(w) + Stakes(w) /\ Gold(w) \in Nat /\ Stakes(w) \in Nat
<1>1. \A p \in Players : w.purse[p] + w.post[p] \in Nat
  BY WorldFacts
<1>2. \A l \in Lots : Value(w.row[l]) \in Nat
  BY ValueNat, WorldFacts
<1> DEFINE f == [p \in Players |-> w.purse[p] + w.post[p]]
           h == [l \in Lots |-> Value(w.row[l])]
<1>3. h = [l \in Lots |-> IF Listed(w, l) THEN w.row[l].bid + Deposit ELSE 0]
  BY DEF Value, Listed
<1>4. Worth(w) = SumFunction(f) + SumFunction(h)
  BY <1>3 DEF Worth
<1>5. /\ DOMAIN f = Players /\ \A p \in Players : f[p] \in Nat
      /\ DOMAIN h = Lots /\ \A l \in Lots : h[l] \in Nat
  BY <1>1, <1>2
<1> HIDE DEF f, h
<1>6. SumFunction(f) \in Nat /\ SumFunction(h) \in Nat
  BY <1>5, FinitePlayers, SumNat DEF SumFunction
<1> QED BY <1>4, <1>6 DEF f, h, Gold, Stakes

LEMMA MailedInt ==
    ASSUME NEW m \in [Players -> Int]
    PROVE  Mailed(m) \in Int /\ (m \in [Players -> Nat] => Mailed(m) \in Nat)
<1> DEFINE f == [p \in Players |-> m[p]]
<1>1. DOMAIN f = Players /\ \A p \in Players : f[p] = m[p] /\ f[p] \in Int
  OBVIOUS
<1> HIDE DEF f
<1>2. SumFunction(f) \in Int
  BY <1>1, FinitePlayers, SumInt DEF SumFunction
<1>3. ASSUME m \in [Players -> Nat] PROVE SumFunction(f) \in Nat
  <2>1. \A p \in Players : f[p] \in Nat
    BY <1>1, <1>3
  <2> QED BY <1>1, <2>1, FinitePlayers, SumNat DEF SumFunction
<1> QED BY <1>2, <1>3 DEF Mailed, f

\* A mail to one player.
LEMMA MailedOne ==
    ASSUME NEW m \in [Players -> Int], NEW p \in Players, \A q \in Players \ {p} : m[q] = 0
    PROVE  Mailed(m) = m[p]
<1> DEFINE f == [q \in Players |-> m[q]]
<1>1. DOMAIN f = Players /\ f[p] = m[p] /\ f[p] \in Int /\ \A q \in Players \ {p} : f[q] = 0
  OBVIOUS
<1> HIDE DEF f
<1>2. SumFunction(f) = f[p]
  BY <1>1, FinitePlayers, SumOne DEF SumFunction
<1> QED BY <1>1, <1>2 DEF Mailed, f

LEMMA MailedNothing == Mailed(NoGold) = 0
<1> DEFINE f == [p \in Players |-> NoGold[p]]
<1>1. DOMAIN f = Players /\ \A p \in Players : f[p] = 0
  BY DEF NoGold
<1> HIDE DEF f
<1>2. SumFunction(f) = 0
  BY <1>1, FinitePlayers, SumZero DEF SumFunction
<1> QED BY <1>2 DEF Mailed, f

LEMMA MailedBoth ==
    ASSUME NEW m \in [Players -> Int], NEW n \in [Players -> Int]
    PROVE  Mailed(Both(m, n)) = Mailed(m) + Mailed(n)
<1> DEFINE f == [p \in Players |-> m[p]]
           g == [p \in Players |-> n[p]]
           k == [p \in Players |-> Both(m, n)[p]]
<1>1. DOMAIN f = Players /\ DOMAIN g = Players /\ DOMAIN k = Players
      /\ \A p \in Players : f[p] \in Int /\ g[p] \in Int /\ k[p] = f[p] + g[p]
  BY DEF Both
<1> HIDE DEF f, g, k
<1>2. SumFunction(k) = SumFunction(f) + SumFunction(g)
  BY <1>1, FinitePlayers, SumPlus DEF SumFunction
<1> QED BY <1>2 DEF Mailed, f, g, k

LEMMA MailedProfit ==
    ASSUME NEW a \in Row
    PROVE  /\ a.bidder \in Players => Mailed(Refund(a)) = a.bid
           /\ a.owner \in Players => Mailed(Profit(a)) = a.bid + Deposit - Cut(a.bid)
<1>1. Refund(a) \in [Players -> Int] /\ Profit(a) \in [Players -> Int]
  BY GoldFacts
<1>2. ASSUME a.bidder \in Players PROVE Mailed(Refund(a)) = a.bid
  <2>1. Refund(a)[a.bidder] = a.bid /\ \A q \in Players \ {a.bidder} : Refund(a)[q] = 0
    BY <1>2 DEF Refund
  <2> QED BY <1>1, <1>2, <2>1, MailedOne
<1>3. ASSUME a.owner \in Players PROVE Mailed(Profit(a)) = a.bid + Deposit - Cut(a.bid)
  <2>1. /\ Profit(a)[a.owner] = a.bid + Deposit - Cut(a.bid)
        /\ \A q \in Players \ {a.owner} : Profit(a)[q] = 0
    BY <1>3 DEF Profit
  <2> QED BY <1>1, <1>3, <2>1, MailedOne
<1> QED BY <1>2, <1>3

\* A transaction that sets one purse at most.
LEMMA GoldApply ==
    ASSUME NEW w \in World, NEW t \in Transaction, NEW p \in Players, DOMAIN t.purse \subseteq {p},
           \A q \in Players : w.post[q] + t.mail[q] >= 0
    PROVE  Gold(Apply(w, t)) = Gold(w) + Mailed(t.mail)
             + (IF p \in DOMAIN t.purse THEN t.purse[p] - w.purse[p] ELSE 0)
<1> DEFINE v == Apply(w, t)
           f == [q \in Players |-> w.purse[q] + w.post[q]]
           m == [q \in Players |-> t.mail[q]]
           g == [q \in Players |-> f[q] + m[q]]
           h == [q \in Players |-> v.purse[q] + v.post[q]]
           d == IF p \in DOMAIN t.purse THEN t.purse[p] - w.purse[p] ELSE 0
<1>1. /\ w.purse \in [Players -> Nat] /\ w.post \in [Players -> Nat] /\ t.mail \in [Players -> Int]
      /\ v.purse \in [Players -> Nat] /\ v.post \in [Players -> Nat]
      /\ \A q \in Players :
           /\ v.purse[q] = IF q \in DOMAIN t.purse THEN t.purse[q] ELSE w.purse[q]
           /\ v.post[q] = w.post[q] + t.mail[q]
  <2>1. w.purse \in [Players -> Nat] /\ w.post \in [Players -> Nat]
    BY WorldFacts
  <2>2. t.mail \in [Players -> Int]
    BY DEF Transaction
  <2>3. /\ v.purse \in [Players -> Nat]
        /\ \A q \in Players : v.purse[q] = IF q \in DOMAIN t.purse THEN t.purse[q] ELSE w.purse[q]
    BY ApplyFacts
  <2>4. /\ v.post \in [Players -> Nat]
        /\ \A q \in Players : v.post[q] = w.post[q] + t.mail[q]
    BY ApplyFacts
  <2> QED BY <2>1, <2>2, <2>3, <2>4
<1>2. d \in Int /\ v.purse[p] = w.purse[p] + d
  BY <1>1
<1>3. \A q \in Players \ {p} : v.purse[q] = w.purse[q]
  BY <1>1
<1>4. \A q \in Players : f[q] \in Int /\ m[q] \in Int /\ g[q] = f[q] + m[q] /\ h[q] \in Int /\ g[q] \in Int
  BY <1>1
<1>5. h[p] = g[p] + d /\ \A q \in Players \ {p} : h[q] = g[q]
  BY <1>1, <1>2, <1>3, SMTT(30)
<1>6. DOMAIN f = Players /\ DOMAIN m = Players /\ DOMAIN h = Players
  OBVIOUS
<1> HIDE DEF f, m, g, h, d, v
<1>7. SumFunctionOnSet(g, Players) = SumFunctionOnSet(f, Players) + SumFunctionOnSet(m, Players)
  BY <1>4, FinitePlayers, SumPlus
<1>8. SumFunctionOnSet(h, Players) = SumFunctionOnSet(g, Players) + (h[p] - g[p])
  BY <1>4, <1>5, FinitePlayers, SumChange
<1>9. /\ SumFunctionOnSet(f, Players) \in Int /\ SumFunctionOnSet(m, Players) \in Int
  BY <1>4, FinitePlayers, SumInt
<1>10. SumFunction(h) = SumFunction(f) + SumFunction(m) + d
  BY <1>2, <1>4, <1>5, <1>6, <1>7, <1>8, <1>9 DEF SumFunction
<1> QED BY <1>10 DEF f, m, h, d, v, Gold, Mailed

\* A transaction that sets one auction.
LEMMA StakesApply ==
    ASSUME NEW w \in World, NEW t \in Transaction, NEW l \in Lots, DOMAIN t.row = {l}
    PROVE  Stakes(Apply(w, t)) = Stakes(w) + (Value(t.row[l]) - Value(w.row[l]))
<1> DEFINE v == Apply(w, t)
           f == [m \in Lots |-> Value(w.row[m])]
           h == [m \in Lots |-> Value(v.row[m])]
<1>1. /\ v.row[l] = t.row[l] /\ \A m \in Lots \ {l} : v.row[m] = w.row[m]
      /\ w.row \in [Lots -> Row] /\ v.row \in [Lots -> Row]
  BY ApplyFacts, WorldFacts
<1>2. /\ \A m \in Lots : f[m] \in Int /\ h[m] \in Int
      /\ \A m \in Lots \ {l} : h[m] = f[m]
      /\ h[l] = Value(t.row[l]) /\ f[l] = Value(w.row[l]) /\ DOMAIN f = Lots /\ DOMAIN h = Lots
  BY <1>1, ValueNat
<1> HIDE DEF f, h, v
<1>3. SumFunctionOnSet(h, Lots) = SumFunctionOnSet(f, Lots) + (h[l] - f[l])
  BY <1>2, FinitePlayers, SumChange
<1>4. SumFunction(h) = SumFunction(f) + (h[l] - f[l])
  BY <1>2, <1>3 DEF SumFunction
<1> QED BY <1>2, <1>4 DEF f, h, v, Stakes

LEMMA StakesSame ==
    ASSUME NEW w \in World, NEW v, \A l \in Lots : v.row[l] = w.row[l]
    PROVE  Stakes(v) = Stakes(w)
<1>1. [m \in Lots |-> Value(v.row[m])] = [m \in Lots |-> Value(w.row[m])]
  BY Zenon
<1> QED BY <1>1 DEF Stakes

\* The expiry of auctions mails no more than was staked in them.
Won(l) == IF mem.row[l].bidder # Nobody
            THEN mem.row[l].bid + Deposit - Cut(mem.row[l].bid) ELSE 0

LEMMA WonFacts ==
    ASSUME TypeInv, NEW l \in Lots, Listed(mem, l)
    PROVE  /\ Won(l) \in Nat /\ Won(l) <= Value(mem.row[l]) /\ mem.row[l] \in Row
           /\ Mailed([p \in Players |-> Gets(p, l)]) = Won(l)
<1> DEFINE a == mem.row[l]
           m == [p \in Players |-> Gets(p, l)]
<1>1. a \in Row /\ a.owner \in Players /\ a.bidder \in Players \cup {Nobody} /\ a.bid \in Nat
  BY WorldFacts DEF TypeInv, Listed
<1>2. Cut(a.bid) \in Nat /\ Cut(a.bid) <= a.bid
  BY <1>1, CutFacts
<1>3. Won(l) \in Nat /\ Won(l) <= Value(a)
  BY <1>1, <1>2, GoldAssumption, NobodyAssumption DEF Won, Value
<1>4. CASE a.bidder = Nobody
  <2>1. m = NoGold
    BY <1>4 DEF Gets, NoGold
  <2> HIDE DEF m
  <2> QED BY <1>1, <1>3, <1>4, <2>1, MailedNothing DEF Won, m
<1>5. CASE a.bidder # Nobody
  <2>1. m = Profit(a)
    <3>1. Profit(a) = [p \in Players |-> Profit(a)[p]]
      BY <1>1, GoldFacts
    <3> QED BY <1>5, <3>1 DEF Gets
  <2>2. Mailed(Profit(a)) = a.bid + Deposit - Cut(a.bid)
    BY <1>1, MailedProfit
  <2> HIDE DEF m
  <2> QED BY <1>1, <1>3, <1>5, <2>1, <2>2 DEF Won, m
<1> QED BY <1>4, <1>5

LEMMA MailedUpdate ==
    ASSUME TypeInv, NEW ended \in SUBSET Lots, \A l \in ended : Listed(mem, l)
    PROVE  Mailed(UpdateTx(ended).mail) = SumFunction([l \in ended |-> Won(l)])
<1> DEFINE h == [p \in Players |-> [l \in ended |-> Gets(p, l)]]
           m == [p \in Players |-> SumFunction([l \in ended |-> Gets(p, l)])]
           won == [l \in ended |-> Won(l)]
           r == [p \in Players |-> SumFunctionOnSet(h[p], ended)]
           k == [l \in ended |-> SumFunctionOnSet([p \in Players |-> h[p][l]], Players)]
<1>1. UpdateTx(ended).mail = m
  BY TxFacts DEF UpdateTx
<1>2. \A p \in Players, l \in ended : h[p][l] \in Int
  BY GetsType
<1>3. IsFiniteSet(ended)
  BY FinitePlayers, FS_Subset
<1>4. SumFunctionOnSet(r, Players) = SumFunctionOnSet(k, ended)
  <2> HIDE DEF h
  <2> QED BY <1>2, <1>3, FinitePlayers, SumSwap
<1>5. m = r
  <2>1. ASSUME NEW p \in Players PROVE SumFunction([l \in ended |-> Gets(p, l)]) = SumFunctionOnSet(h[p], ended)
    <3>1. h[p] = [l \in ended |-> Gets(p, l)] /\ DOMAIN h[p] = ended
      OBVIOUS
    <3>2. SumFunction(h[p]) = SumFunctionOnSet(h[p], ended)
      BY <3>1 DEF SumFunction
    <3> QED BY <3>1, <3>2
  <2> HIDE DEF h
  <2> QED BY <2>1, Zenon
<1>6. ASSUME NEW l \in ended PROVE k[l] = Won(l)
  <2> DEFINE g == [p \in Players |-> h[p][l]]
             d == [p \in Players |-> Gets(p, l)]
  <2>1. g = d
    OBVIOUS
  <2>2. Mailed(d) = Won(l)
    BY <1>6, WonFacts
  <2>3. Mailed(d) = SumFunctionOnSet(d, Players)
    <3>1. [p \in Players |-> d[p]] = d /\ DOMAIN d = Players
      OBVIOUS
    <3> HIDE DEF d
    <3> QED BY <3>1 DEF Mailed, SumFunction
  <2>4. k[l] = SumFunctionOnSet(g, Players)
    OBVIOUS
  <2> QED BY <2>1, <2>2, <2>3, <2>4
<1>7. k = won
  <2> HIDE DEF h
  <2> QED BY <1>6, Zenon
<1>8. DOMAIN m = Players /\ DOMAIN won = ended /\ [p \in Players |-> m[p]] = m
  OBVIOUS
<1> HIDE DEF m, won, r, k
<1> QED BY <1>1, <1>4, <1>5, <1>7, <1>8 DEF Mailed, SumFunction, won

LEMMA StakesUpdate ==
    ASSUME NEW w \in World, NEW v \in World, NEW ended \in SUBSET Lots,
           \A l \in Lots : v.row[l] = IF l \in ended THEN NoRow ELSE w.row[l]
    PROVE  Stakes(w) = Stakes(v) + SumFunction([l \in ended |-> Value(w.row[l])])
<1> DEFINE f == [l \in Lots |-> Value(w.row[l])]
           h == [l \in Lots |-> Value(v.row[l])]
           k == [l \in Lots |-> IF l \in ended THEN Value(w.row[l]) ELSE 0]
           g == [l \in ended |-> Value(w.row[l])]
<1>1. \A l \in Lots : w.row[l] \in Row /\ Value(w.row[l]) \in Nat
  BY ValueNat, WorldFacts
<1>2. Value(NoRow) = 0
  BY DEF Value, NoRow
<1>3. \A l \in Lots : h[l] \in Int /\ k[l] \in Int /\ f[l] = h[l] + k[l]
  BY <1>1, <1>2
<1>4. /\ \A l \in ended : k[l] \in Int /\ k[l] = g[l]
      /\ \A l \in Lots \ ended : k[l] = 0
      /\ DOMAIN f = Lots /\ DOMAIN h = Lots /\ DOMAIN g = ended
  BY <1>1
<1> HIDE DEF f, h, k, g
<1>5. IsFiniteSet(ended)
  BY FinitePlayers, FS_Subset
<1>6. SumFunctionOnSet(f, Lots) = SumFunctionOnSet(h, Lots) + SumFunctionOnSet(k, Lots)
  BY <1>3, FinitePlayers, SumPlus
<1>7. SumFunctionOnSet(k, Lots) = SumFunctionOnSet(k, ended)
  BY <1>4, FinitePlayers, SumWithin
<1>8. SumFunctionOnSet(k, ended) = SumFunctionOnSet(g, ended)
  BY <1>4, <1>5, SumAgree
<1>9. SumFunction(f) = SumFunction(h) + SumFunction(g)
  BY <1>4, <1>6, <1>7, <1>8 DEF SumFunction
<1> QED BY <1>9 DEF f, h, g, Stakes

LEMMA WonLeq ==
    ASSUME TypeInv, NEW ended \in SUBSET Lots, \A l \in ended : Listed(mem, l)
    PROVE  /\ SumFunction([l \in ended |-> Won(l)]) <= SumFunction([l \in ended |-> Value(mem.row[l])])
           /\ SumFunction([l \in ended |-> Won(l)]) \in Nat
           /\ SumFunction([l \in ended |-> Value(mem.row[l])]) \in Nat
<1> DEFINE f == [l \in ended |-> Won(l)]
           g == [l \in ended |-> Value(mem.row[l])]
<1>1. ASSUME NEW l \in ended PROVE f[l] \in Nat /\ g[l] \in Nat /\ f[l] <= g[l]
  BY WonFacts, ValueNat
<1>2. DOMAIN f = ended /\ DOMAIN g = ended /\ IsFiniteSet(ended)
  BY FinitePlayers, FS_Subset
<1> HIDE DEF f, g
<1>3. \A l \in ended : f[l] \in Int /\ g[l] \in Int /\ f[l] <= g[l]
  BY <1>1
<1>4. SumFunctionOnSet(f, ended) <= SumFunctionOnSet(g, ended)
  BY <1>2, <1>3, SumLeq
<1>5. SumFunctionOnSet(f, ended) \in Nat /\ SumFunctionOnSet(g, ended) \in Nat
  BY <1>1, <1>2, SumNat
<1> QED BY <1>2, <1>4, <1>5 DEF SumFunction, f, g

\* The gold that callbacks owe.
LEMMA PendingFacts ==
    ASSUME TypeInv
    PROVE  /\ IsFiniteSet(Awaited) /\ Pending \in Nat
           /\ \A f \in DOMAIN callbacks : Mailed(callbacks[f].pays.mail) \in Nat
<1>1. \A f \in DOMAIN callbacks : Mailed(callbacks[f].pays.mail) \in Nat
  <2>1. \A f \in DOMAIN callbacks : callbacks[f].pays.mail \in [Players -> Nat]
    BY CallbackFacts
  <2>2. \A m \in [Players -> Nat] : m \in [Players -> Int] /\ Mailed(m) \in Nat
    BY MailedInt
  <2> QED BY <2>1, <2>2
<1>2. IsFiniteSet(Awaited)
  BY FinitePlayers, FS_Subset DEF Awaited, TypeInv
<1> DEFINE g == [f \in Awaited |-> Mailed(callbacks[f].pays.mail)]
<1>3. DOMAIN g = Awaited /\ \A f \in Awaited : g[f] \in Nat
  BY <1>1 DEF Awaited
<1> HIDE DEF g
<1>4. SumFunction(g) \in Nat
  BY <1>2, <1>3, SumNat DEF SumFunction
<1> QED BY <1>1, <1>2, <1>4 DEF Pending, g

LEMMA PendingSame ==
    ASSUME Awaited' = Awaited, \A f \in Awaited : callbacks'[f].pays = callbacks[f].pays
    PROVE  Pending' = Pending
<1>1. [f \in Awaited' |-> Mailed(callbacks'[f].pays.mail)]
        = [f \in Awaited |-> Mailed(callbacks[f].pays.mail)]
  BY Zenon
<1> QED BY <1>1 DEF Pending, Mailed

LEMMA PendingTake ==
    ASSUME TypeInv, TypeInv', NEW g \in Awaited, Awaited' = Awaited \ {g},
           \A f \in Awaited' : callbacks'[f].pays = callbacks[f].pays
    PROVE  Pending = Pending' + Mailed(callbacks[g].pays.mail)
<1> DEFINE a == [f \in Awaited |-> Mailed(callbacks[f].pays.mail)]
           b == [f \in Awaited' |-> Mailed(callbacks'[f].pays.mail)]
<1>1. \A f \in Awaited : a[f] \in Int /\ a[f] = Mailed(callbacks[f].pays.mail)
  BY PendingFacts DEF Awaited
<1>2. \A f \in Awaited' : a[f] = b[f]
  OBVIOUS
<1>3. DOMAIN a = Awaited /\ DOMAIN b = Awaited'
  OBVIOUS
<1>4. Pending' = SumFunction(b)
  BY DEF Pending, Mailed
<1>5. IsFiniteSet(Awaited) /\ IsFiniteSet(Awaited')
  BY PendingFacts, FS_Subset
<1> HIDE DEF a, b
<1>6. SumFunctionOnSet(a, Awaited) = a[g] + SumFunctionOnSet(a, Awaited \ {g})
      /\ SumFunctionOnSet(a, Awaited \ {g}) \in Int
  <2>1. \A f \in Awaited : a[f] \in Int
    BY <1>1
  <2>2. PICK A, c : A = Awaited /\ c = a
    OBVIOUS
  <2>3. IsFiniteSet(A) /\ (\A f \in A : c[f] \in Int) /\ g \in A
    BY <1>5, <2>1, <2>2
  <2>4. SumFunctionOnSet(c, A) = c[g] + SumFunctionOnSet(c, A \ {g})
        /\ SumFunctionOnSet(c, A \ {g}) \in Int
    BY <2>3, SumTake
  <2> QED BY <2>2, <2>4
<1>7. SumFunctionOnSet(a, Awaited') = SumFunctionOnSet(b, Awaited')
  BY <1>2, <1>5, SumAgree
<1>8. SumFunction(a) = SumFunction(b) + a[g]
  BY <1>1, <1>3, <1>6, <1>7 DEF SumFunction
<1> QED BY <1>1, <1>4, <1>8 DEF Pending, a

LEMMA PendingAdd ==
    ASSUME TypeInv, TypeInv', NEW g, g \notin Awaited, Awaited' = Awaited \cup {g},
           \A f \in Awaited : callbacks'[f].pays = callbacks[f].pays
    PROVE  Pending' = Pending + Mailed(callbacks'[g].pays.mail)
<1> DEFINE a == [f \in Awaited |-> Mailed(callbacks[f].pays.mail)]
           b == [f \in Awaited' |-> Mailed(callbacks'[f].pays.mail)]
<1>1. \A f \in Awaited' : b[f] \in Int /\ b[f] = Mailed(callbacks'[f].pays.mail)
  <2>1. (\A f \in DOMAIN callbacks : Mailed(callbacks[f].pays.mail) \in Nat)'
    BY PendingFacts, PTL
  <2>2. \A f \in DOMAIN callbacks' : Mailed(callbacks'[f].pays.mail) \in Nat
    BY <2>1 DEF Mailed
  <2>3. Awaited' \subseteq DOMAIN callbacks'
    BY DEF Awaited
  <2> QED BY <2>2, <2>3
<1>2. \A f \in Awaited : a[f] = b[f]
  OBVIOUS
<1>3. DOMAIN a = Awaited /\ DOMAIN b = Awaited'
  OBVIOUS
<1>4. Pending' = SumFunction(b)
  BY DEF Pending, Mailed
<1>5. IsFiniteSet(Awaited) /\ IsFiniteSet(Awaited') /\ Awaited' \ {g} = Awaited /\ g \in Awaited'
  BY PendingFacts, FS_AddElement
<1> HIDE DEF a, b
<1>6. SumFunctionOnSet(b, Awaited') = b[g] + SumFunctionOnSet(b, Awaited)
      /\ SumFunctionOnSet(b, Awaited) \in Int
  <2>1. \A f \in Awaited' : b[f] \in Int
    BY <1>1
  <2>2. PICK B : B = Awaited'
    OBVIOUS
  <2>3. IsFiniteSet(B) /\ g \in B /\ \A f \in B : b[f] \in Int
    BY <1>5, <2>1, <2>2
  <2>4. SumFunctionOnSet(b, B) = b[g] + SumFunctionOnSet(b, B \ {g})
        /\ SumFunctionOnSet(b, B \ {g}) \in Int
    BY <2>3, SumTake
  <2> QED BY <1>5, <2>2, <2>4
<1>7. SumFunctionOnSet(a, Awaited) = SumFunctionOnSet(b, Awaited)
  BY <1>2, <1>5, SumAgree
<1>8. SumFunction(b) = SumFunction(a) + b[g]
  BY <1>1, <1>3, <1>5, <1>6, <1>7 DEF SumFunction
<1> QED BY <1>1, <1>4, <1>5, <1>8 DEF Pending, a

LEMMA PendingLess ==
    ASSUME TypeInv, TypeInv', Awaited' \subseteq Awaited,
           \A f \in Awaited' : callbacks'[f].pays = callbacks[f].pays
    PROVE  Pending' <= Pending
<1> DEFINE a == [f \in Awaited |-> Mailed(callbacks[f].pays.mail)]
           b == [f \in Awaited' |-> Mailed(callbacks'[f].pays.mail)]
           c == [f \in Awaited |-> IF f \in Awaited' THEN a[f] ELSE 0]
<1>1. \A f \in Awaited : a[f] \in Nat
  BY PendingFacts DEF Awaited
<1>2. \A f \in Awaited' : c[f] = b[f] /\ c[f] \in Int
  BY <1>1
<1>3. DOMAIN a = Awaited /\ DOMAIN b = Awaited'
  OBVIOUS
<1>4. Pending' = SumFunction(b)
  BY DEF Pending, Mailed
<1>5. IsFiniteSet(Awaited) /\ IsFiniteSet(Awaited')
  BY PendingFacts, FS_Subset
<1>6. \A f \in Awaited : a[f] \in Int /\ c[f] \in Int /\ c[f] <= a[f]
  BY <1>1
<1>7. \A f \in Awaited \ Awaited' : c[f] = 0
  OBVIOUS
<1> HIDE DEF a, b, c
<1>8. SumFunctionOnSet(c, Awaited) <= SumFunctionOnSet(a, Awaited)
  BY <1>5, <1>6, SumLeq
<1>9. SumFunctionOnSet(c, Awaited) = SumFunctionOnSet(c, Awaited')
  BY <1>2, <1>5, <1>7, SumWithin
<1>10. SumFunctionOnSet(c, Awaited') = SumFunctionOnSet(b, Awaited')
  BY <1>2, <1>5, SumAgree
<1>11. SumFunction(b) <= SumFunction(a)
  BY <1>3, <1>8, <1>9, <1>10 DEF SumFunction
<1> QED BY <1>4, <1>11 DEF Pending, a

\* The tables after the queue hold what memory holds, but for auctions that a
\* callback has still to register, and are worth no more than at the start.
Rich == {w \in World : Worth(w) <= StartWorth}
\* A transaction that moves an item out of or into a bag, or out of a mail, saves
\* the gold of the player.
Carries(w, t, v) ==
    \A l \in Lots :
        /\ v.bag[l] # w.bag[l] => /\ w.bag[l] \in DOMAIN t.purse \cup {Nobody}
                                 /\ v.bag[l] \in DOMAIN t.purse \cup {Nobody}
        /\ v.parcel[l] # w.parcel[l] => w.parcel[l] \in DOMAIN t.purse \cup {Nobody}
Saves == {z \in Rich \X Transaction \X Rich :
            z[3] = Apply(z[1], z[2]) /\ Carries(z[1], z[2], z[3])}

SameGold(w) ==
    w.purse = mem.purse /\ w.post = mem.post /\ w.bag = mem.bag /\ w.parcel = mem.parcel

SameRow(w, l) ==
    /\ w.row[l] # mem.row[l] =>
         ~Listed(mem, l) /\ w.row[l].bidder = Nobody /\ (Registers(l) # {} \/ leaves > 0)
    /\ \A f \in Registers(l) : callbacks[f].register[l] = w.row[l]

Follows(w) ==
    SameGold(w) /\ (\A l \in Lots : SameRow(w, l)) /\ Worth(w) + Pending <= StartWorth

Ends(w) == \E h : Trace(h, queue, Rich, Saves, db, w)

GoldInv ==
    faults = 0 /\ drops = 0 =>
      /\ \A f \in DOMAIN callbacks : callbacks[f].answer # "false"
      /\ \E w \in Rich : Ends(w) /\ Follows(w)

LEMMA SaveStep ==
    \A w, t, v : <<w, t, v>> \in Saves <=>
        w \in Rich /\ t \in Transaction /\ v \in Rich /\ v = Apply(w, t) /\ Carries(w, t, v)
  BY DEF Saves

LEMMA WorthPrimed ==
    ASSUME NEW w
    PROVE  /\ Worth(w)' = Worth(w) /\ Saves' = Saves /\ Rich' = Rich /\ StartWorth' = StartWorth
<1>1. \A v : Worth(v)' = Worth(v)
  BY DEF Worth, Listed
<1>2. StartWorth' = StartWorth
  BY DEF StartWorth
<1>3. Rich' = Rich
  BY <1>1, <1>2 DEF Rich
<1>4. Saves' = Saves
  BY <1>3 DEF Saves, Carries
<1> QED BY <1>1, <1>2, <1>3, <1>4

LEMMA AwaitPending ==
    ASSUME TypeInv, TypeInv', FreeFuture, NEW p \in Players, NEW register \in Partial(Lots, Offer),
           NEW pays \in Payment, Await(p, register, pays)
    PROVE  /\ Pending' = Pending + Mailed(pays.mail)
           /\ \A f \in DOMAIN callbacks : callbacks'[f] = callbacks[f]
           /\ DOMAIN callbacks' = DOMAIN callbacks \cup {NewFuture}
           /\ callbacks'[NewFuture].answer = "none"
<1>1. /\ DOMAIN callbacks' = DOMAIN callbacks \cup {NewFuture}
      /\ \A f \in DOMAIN callbacks : callbacks'[f] = callbacks[f]
      /\ callbacks'[NewFuture]
           = [session |-> p, answer |-> "none", register |-> register, pays |-> pays]
  BY AwaitKeeps
<1>2. callbacks'[NewFuture].pays = pays /\ callbacks'[NewFuture].answer = "none"
  BY <1>1
<1>3. NewFuture \notin DOMAIN callbacks
  BY NewFutureFree
<1>4. Awaited' = Awaited \cup {NewFuture} /\ NewFuture \notin Awaited
  BY <1>1, <1>2, <1>3 DEF Awaited
<1>5. \A f \in Awaited : callbacks'[f].pays = callbacks[f].pays
  BY <1>1 DEF Awaited
<1>6. PICK g : g = NewFuture
  OBVIOUS
<1>7. g \notin Awaited /\ Awaited' = Awaited \cup {g} /\ callbacks'[g].pays = pays
  BY <1>2, <1>4, <1>6
<1>8. Pending' = Pending + Mailed(callbacks'[g].pays.mail)
  BY <1>5, <1>7, PendingAdd
<1> QED BY <1>1, <1>2, <1>7, <1>8

\* What is queued and what happens in memory differ in auctions only.
LEMMA SendGold ==
    ASSUME TypeInv, TypeInv', NEW t \in Transaction, Send(t), db' = db,
           NEW u \in Transaction, mem' = Apply(mem, u),
           u.purse = t.purse, u.bag = t.bag, u.parcel = t.parcel, u.mail = t.mail,
           NEW w \in Rich, Ends(w), SameGold(w), NEW v, v = Apply(w, t),
           Carries(mem, t, mem'),
           \A l \in Lots : SameRow(v, l)',
           Worth(v) + Pending' <= StartWorth
    PROVE  \E x \in Rich : Ends(x)' /\ Follows(x)'
<1>1. mem \in World /\ mem' \in World /\ w \in World /\ queue \in Seq(Transaction)
  BY DEF TypeInv, Rich
<1>2. /\ v.purse = mem'.purse /\ v.bag = mem'.bag /\ v.parcel = mem'.parcel /\ v.post = mem'.post
  BY DEF Apply, SameGold
<1>3. v \in World
  BY <1>1, ApplyType
<1>4. Worth(v) <= StartWorth
  <2>1. Worth(v) \in Nat /\ StartWorth \in Int
    BY <1>3, WorthIs, FinitePlayers
  <2>2. (Pending \in Nat)'
    BY PendingFacts, PTL
  <2> QED BY <2>1, <2>2
<1>5. v \in Rich
  BY <1>3, <1>4 DEF Rich
<1>6. <<w, t, v>> \in Saves
  <2>1. Carries(w, t, v)
    <3>1. w.bag = mem.bag /\ w.parcel = mem.parcel
      BY DEF SameGold
    <3> QED BY <1>2, <3>1 DEF Carries
  <2> QED BY <1>5, <2>1, SaveStep
<1>7. Ends(v)'
  <2>1. queue' = Append(queue, t)
    BY SendFacts
  <2>2. \E h : Trace(h, Append(queue, t), Rich, Saves, db, v)
    BY <1>1, <1>5, <1>6, TraceAppend DEF Ends
  <2> QED BY <2>1, <2>2, WorthPrimed DEF Ends
<1>8. Follows(v)'
  <2>1. SameGold(v)'
    BY <1>2 DEF SameGold
  <2>2. (Worth(v) + Pending <= StartWorth)'
    BY WorthPrimed
  <2> QED BY <2>1, <2>2 DEF Follows
<1> QED BY <1>5, <1>7, <1>8

LEMMA SameRowStays ==
    ASSUME TypeInv, NEW l, NEW w, SameRow(w, l), NEW v, v.row[l] = w.row[l],
           mem'.row[l] = mem.row[l], Registers(l)' = Registers(l),
           \A f \in Registers(l) : callbacks'[f].register = callbacks[f].register,
           leaves' \in {leaves, leaves + 1}
    PROVE  SameRow(v, l)'
<1>1. leaves > 0 => leaves' > 0
  BY DEF TypeInv
<1> QED BY <1>1 DEF SameRow, Listed

LEMMA SameRowSet ==
    ASSUME NEW l, NEW v, v.row[l] = mem'.row[l], Registers(l)' = {}
    PROVE  SameRow(v, l)'
  BY DEF SameRow

LEMMA SellGold ==
    ASSUME TypeInv, TypeInv', LotsInv, faults = 0, drops = 0, NEW w \in Rich, Ends(w), Follows(w),
           NEW p \in Players, NEW m \in Lots, SellItem(p, m)
    PROVE  \E x \in Rich : Ends(x)' /\ Follows(x)'
<1>t. PICK t : t = SellTx(p, m)
  OBVIOUS
<1>u. PICK u : u = WithoutRow(SellTx(p, m))
  OBVIOUS
<1>v. PICK v : v = Apply(w, t)
  OBVIOUS
<1>r. PICK register : register = Only(m, Sale(p))
  OBVIOUS
<1>1. /\ mem.bag[m] = p /\ ~Listed(mem, m) /\ FreeFuture /\ mem' = Apply(mem, u) /\ Send(t)
      /\ Await(p, register, Nothing) /\ UNCHANGED <<db, session, leaves, faults, drops>>
      /\ mem.purse[p] >= Deposit
  BY <1>t, <1>u, <1>r, SellSends
<1>2. t \in Transaction /\ u \in Transaction
  BY <1>t, <1>u, SellType
<1>3. /\ t.bag = Only(m, Nobody) /\ t.parcel = Empty /\ t.row = register /\ t.mail = NoGold
      /\ t.purse = Only(p, mem.purse[p] - Deposit)
      /\ u.bag = Only(m, Nobody) /\ u.parcel = Empty /\ u.row = Empty /\ u.mail = NoGold
      /\ u.purse = Only(p, mem.purse[p] - Deposit)
  <2>1. u = Tx(Only(p, mem.purse[p] - Deposit), Only(m, Nobody), Empty, Empty, NoGold, NewFuture)
    BY <1>u, TxExcept DEF SellTx, WithoutRow
  <2>2. u.bag = Only(m, Nobody) /\ u.parcel = Empty /\ u.row = Empty /\ u.mail = NoGold
        /\ u.purse = Only(p, mem.purse[p] - Deposit)
    BY <2>1, TxFacts
  <2> QED BY <1>t, <1>r, <2>2, TxFacts DEF SellTx
<1>4. /\ DOMAIN t.bag = {m} /\ DOMAIN t.row = {m} /\ DOMAIN t.purse = {p}
      /\ t.purse[p] = mem.purse[p] - Deposit
      /\ t.row[m] = Sale(p) /\ DOMAIN u.row = {} /\ DOMAIN register = {m} /\ register[m] = Sale(p)
  <2>1. DOMAIN t.bag = {m} /\ DOMAIN u.row = {}
    BY <1>3, OnlyFacts
  <2>2. DOMAIN t.purse = {p} /\ t.purse[p] = mem.purse[p] - Deposit
    <3>1. PICK rest : rest = mem.purse[p] - Deposit
      OBVIOUS
    <3>2. t.purse = Only(p, rest)
      BY <1>3, <3>1
    <3>3. DOMAIN t.purse = {p} /\ t.purse[p] = rest
      BY <3>2, OnlyFacts
    <3> QED BY <3>1, <3>3
  <2>3. DOMAIN register = {m} /\ register[m] = Sale(p) /\ t.row = register
    BY <1>3, <1>r, OnlyFacts
  <2> QED BY <2>1, <2>2, <2>3
<1>5. register \in Partial(Lots, Offer) /\ Nothing \in Payment /\ DOMAIN Nothing.parcel = {}
      /\ Nothing.mail = NoGold /\ Sale(p) \in Row
  BY <1>r, OnlyType, RowType, NothingType, OnlyFacts DEF Offer
<1>6. /\ Value(Sale(p)) = Deposit /\ Sale(p).bidder = Nobody
  BY NobodyAssumption, GoldAssumption DEF Value, Sale
<1>7. /\ \A l \in Lots : Registers(l)' = Registers(l) \cup {f \in {NewFuture} : l \in {m}}
      /\ callbacks'[NewFuture].register = register
      /\ \A l \in Lots : \A f \in Registers(l) : callbacks'[f].register = callbacks[f].register
      /\ Pending' = Pending
  <2>1. \A l \in Lots :
          /\ Registers(l)' = Registers(l) \cup {f \in {NewFuture} : l \in DOMAIN register}
          /\ callbacks'[NewFuture].register = register
          /\ \A f \in Registers(l) : callbacks'[f].register = callbacks[f].register
    BY <1>1, <1>5, AwaitLot
  <2>2. Pending' = Pending + Mailed(Nothing.mail)
    BY <1>1, <1>5, AwaitPending
  <2>3. Pending' = Pending
    BY <1>5, <2>2, MailedNothing, PendingFacts
  <2> QED BY <1>4, <2>1, <2>3
<1>8. w \in World /\ mem \in World /\ SameGold(w)
  BY DEF Rich, Follows, TypeInv
<1>9. Registers(m) = {}
  <2>1. PlaceOf(mem, m) # Nowhere
    BY <1>1, <1>8, SpotFacts, NobodyAssumption
  <2> QED BY <2>1, Present DEF LotsInv, LotInv, Intact
<1>10. \A l \in Lots : v.row[l] = (IF l = m THEN Sale(p) ELSE w.row[l]) /\ mem'.row[l] = mem.row[l]
  BY <1>1, <1>2, <1>4, <1>8, <1>v, ApplyFacts
<1>11. ASSUME NEW l \in Lots PROVE SameRow(v, l)'
  <2>1. CASE l # m
    <3>1. v.row[l] = w.row[l] /\ mem'.row[l] = mem.row[l] /\ Registers(l)' = Registers(l)
      BY <1>7, <1>10, <2>1
    <3>2. SameRow(w, l)
      BY DEF Follows
    <3> QED BY <1>1, <1>7, <3>1, <3>2, SameRowStays
  <2>2. CASE l = m
    <3>1. v.row[l] = Sale(p) /\ Registers(l)' = {NewFuture} /\ mem'.row[l] = mem.row[l]
      BY <1>7, <1>9, <1>10, <2>2
    <3>2. callbacks'[NewFuture].register[l] = Sale(p)
      BY <1>4, <1>7, <2>2
    <3>3. ~Listed(mem, l)'
      BY <1>1, <2>2, <3>1 DEF Listed
    <3> QED BY <1>6, <3>1, <3>2, <3>3 DEF SameRow
  <2> QED BY <2>1, <2>2
<1>12. Worth(v) + Pending' <= StartWorth
  <2>1. Gold(v) = Gold(w) - Deposit
    <3>0. \A q \in Players : w.post[q] + t.mail[q] >= 0
      BY <1>3, <1>8, WorldFacts DEF NoGold
    <3>1. Gold(v) = Gold(w) + Mailed(t.mail) + (t.purse[p] - w.purse[p])
      BY <1>2, <1>4, <1>8, <1>v, <3>0, GoldApply
    <3>2. w.purse[p] = mem.purse[p] /\ mem.purse[p] \in Nat /\ Gold(w) \in Nat
      BY <1>8, WorldFacts, WorthIs DEF SameGold
    <3> QED BY <1>3, <1>4, <3>1, <3>2, MailedNothing, GoldAssumption
  <2>2. Stakes(v) = Stakes(w) + (Deposit - Value(w.row[m]))
    BY <1>2, <1>4, <1>6, <1>8, <1>v, StakesApply
  <2>3. /\ Worth(w) = Gold(w) + Stakes(w) /\ Gold(w) \in Nat /\ Stakes(w) \in Nat
        /\ Value(w.row[m]) \in Nat /\ Pending \in Nat
    BY <1>8, WorthIs, ValueNat, WorldFacts, PendingFacts
  <2>4. v \in World
    BY <1>2, <1>8, <1>v, ApplyType
  <2>5. Worth(v) = Gold(v) + Stakes(v)
    BY <2>4, WorthIs
  <2>6. Worth(w) + Pending <= StartWorth /\ StartWorth \in Int
    BY FinitePlayers DEF Follows
  <2> QED BY <1>7, <2>1, <2>2, <2>3, <2>5, <2>6, GoldAssumption
<1>13. Carries(mem, t, mem')
  <2>1. \A l \in Lots : /\ mem'.bag[l] = IF l \in DOMAIN u.bag THEN u.bag[l] ELSE mem.bag[l]
                        /\ mem'.parcel[l]
                             = IF l \in DOMAIN u.parcel THEN u.parcel[l] ELSE mem.parcel[l]
    BY <1>1, <1>2, <1>8, ApplyFacts
  <2>2. DOMAIN u.parcel = {} /\ DOMAIN u.bag = {m} /\ u.bag[m] = Nobody
    BY <1>3, OnlyFacts
  <2> QED BY <1>1, <1>4, <2>1, <2>2 DEF Carries
<1>14. u.purse = t.purse /\ u.bag = t.bag /\ u.parcel = t.parcel /\ u.mail = t.mail
  BY <1>3
<1> QED BY <1>1, <1>2, <1>8, <1>11, <1>12, <1>13, <1>14, <1>v, SendGold

\* What a plain transaction takes from the auctions is no less than what it adds.
LEMMA WorthLess ==
    ASSUME NEW w \in World, NEW v \in World, Gold(v) + Stakes(v) <= Gold(w) + Stakes(w)
    PROVE  Worth(v) <= Worth(w)
  BY WorthIs

LEMMA RemoveWorth ==
    ASSUME TypeInv, NEW p \in Players, NEW m \in Lots, RemoveItem(p, m), NEW t, t = RemoveTx(p, m),
           NEW w \in World, w.purse = mem.purse, w.row[m] = mem.row[m],
           NEW v \in World, v = Apply(w, t),
           \A q \in Players : w.post[q] + t.mail[q] >= 0
    PROVE  Worth(v) <= Worth(w)
<1> DEFINE a == mem.row[m]
<1>1. /\ t \in Transaction /\ Listed(mem, m) /\ a.owner = p /\ mem \in World
  BY RemoveSends, RemoveType DEF TypeInv
<1>2. /\ t.row = Only(m, NoRow) /\ t.purse = (IF a.bidder = Nobody THEN Empty ELSE Only(p, mem.purse[p] - Cut(a.bid)))
      /\ t.mail = (IF a.bidder = Nobody THEN NoGold ELSE Refund(a))
  BY TxFacts DEF RemoveTx
<1>3. a \in Row /\ a.bid \in Nat /\ Cut(a.bid) \in Nat /\ mem.purse[p] \in Nat /\ Deposit \in Nat
      /\ a.bidder \in Players \cup {Nobody}
  <2>1. /\ a \in Row /\ a.bid \in Nat /\ mem.purse[p] \in Nat
        /\ a.bidder \in Players \cup {Nobody}
    BY <1>1, WorldFacts
  <2> HIDE DEF a
  <2>2. Cut(a.bid) \in Nat /\ Deposit \in Nat
    BY <2>1, CutFacts, GoldAssumption
  <2> QED BY <2>1, <2>2
<1>4. DOMAIN t.row = {m} /\ t.row[m] = NoRow
  <2>1. t.row = Only(m, NoRow)
    BY <1>2
  <2> QED BY <2>1 DEF Only
<1>5. Value(NoRow) = 0 /\ Value(w.row[m]) = a.bid + Deposit
  BY <1>1 DEF Value, NoRow, Listed
<1>6. Gold(w) \in Nat /\ Stakes(w) \in Nat
  BY WorthIs
<1>7. Stakes(v) = Stakes(w) - (a.bid + Deposit)
  <2>1. Stakes(v) = Stakes(w) + (Value(t.row[m]) - Value(w.row[m]))
    BY <1>1, <1>4, StakesApply
  <2> QED BY <1>3, <1>4, <1>5, <1>6, <2>1
<1> HIDE DEF a
<1>8. CASE a.bidder = Nobody
  <2>1. t.purse = Empty /\ t.mail = NoGold
    BY <1>2, <1>8
  <2>2. DOMAIN t.purse = {}
    BY <2>1, OnlyFacts
  <2>3. Gold(v) = Gold(w) + Mailed(t.mail)
    BY <1>1, <2>2, GoldApply, <1>6, MailedNothing, <2>1
  <2>4. Gold(v) = Gold(w)
    BY <1>6, <2>1, <2>3, MailedNothing
  <2> QED BY <1>3, <1>6, <1>7, <2>4, WorthLess
<1>9. CASE a.bidder # Nobody
  <2>1. PICK rest : rest = mem.purse[p] - Cut(a.bid)
    OBVIOUS
  <2>2. t.purse = Only(p, rest) /\ t.mail = Refund(a)
    BY <1>2, <1>9, <2>1
  <2>3. DOMAIN t.purse = {p} /\ t.purse[p] = rest
    BY <2>2 DEF Only
  <2>4. Gold(v) = Gold(w) + Mailed(t.mail) + (t.purse[p] - w.purse[p])
    BY <1>1, <2>3, GoldApply
  <2>5. Mailed(t.mail) = a.bid
    BY <1>3, <1>9, <2>2, MailedProfit
  <2>6. Gold(v) = Gold(w) + a.bid - Cut(a.bid)
    BY <1>3, <1>6, <2>1, <2>3, <2>4, <2>5
  <2> QED BY <1>3, <1>6, <1>7, <2>6, WorthLess
<1> QED BY <1>8, <1>9

LEMMA UpdateWorth ==
    ASSUME TypeInv, NEW ended \in SUBSET Lots, Update(ended), NEW t, t = UpdateTx(ended),
           NEW w \in World, \A l \in ended : w.row[l] = mem.row[l],
           NEW v \in World, v = Apply(w, t),
           \A q \in Players : w.post[q] + t.mail[q] >= 0
    PROVE  Worth(v) <= Worth(w)
<1> DEFINE won == SumFunction([l \in ended |-> Won(l)])
           value == SumFunction([l \in ended |-> Value(mem.row[l])])
<1>1. t \in Transaction /\ ended # {} /\ \A l \in ended : Listed(mem, l)
  BY UpdateSends, UpdateType
<1>2. t.row = [l \in ended |-> NoRow] /\ t.purse = Empty
  BY TxFacts DEF UpdateTx
<1>3. DOMAIN t.purse = {}
  BY <1>2, OnlyFacts
<1>4. won <= value /\ won \in Nat /\ value \in Nat
  BY <1>1, WonLeq
<1>5. Mailed(t.mail) = won
  BY <1>1, MailedUpdate
<1>6. Stakes(w) = Stakes(v) + value
  <2>1. \A l \in Lots : v.row[l] = IF l \in ended THEN NoRow ELSE w.row[l]
    <3>1. \A l \in Lots : v.row[l] = IF l \in DOMAIN t.row THEN t.row[l] ELSE w.row[l]
      BY <1>1, ApplyFacts
    <3> QED BY <1>2, <3>1
  <2>2. Stakes(w) = Stakes(v) + SumFunction([l \in ended |-> Value(w.row[l])])
    BY <2>1, StakesUpdate
  <2>3. [l \in ended |-> Value(w.row[l])] = [l \in ended |-> Value(mem.row[l])]
    OBVIOUS
  <2> QED BY <2>2, <2>3
<1> HIDE DEF won, value
<1>7. PICK p \in Players : TRUE
  BY <1>1, WorldFacts DEF TypeInv, Listed
<1>8. Gold(v) = Gold(w) + won
  <2>1. Gold(v) = Gold(w) + Mailed(t.mail) + 0
    BY <1>1, <1>3, <1>7, GoldApply
  <2>2. Gold(w) \in Nat
    BY WorthIs
  <2> QED BY <1>4, <1>5, <2>1, <2>2
<1>9. Gold(w) \in Nat /\ Stakes(w) \in Nat /\ Stakes(v) \in Nat
  BY WorthIs
<1> QED BY <1>4, <1>6, <1>8, <1>9, WorthLess

LEMMA MoneyWorth ==
    ASSUME TypeInv, NEW p \in Players, NEW t, t = MoneyTx(p),
           NEW w \in World, w.purse = mem.purse, NEW v \in World, v = Apply(w, t),
           \A q \in Players : w.post[q] + t.mail[q] >= 0
    PROVE  Worth(v) <= Worth(w)
<1>1. t \in Transaction /\ mem.purse[p] \in Nat /\ mem.post[p] \in Nat
  BY MoneyType, WorldFacts DEF TypeInv
<1>2. PICK gold : gold = mem.purse[p] + mem.post[p]
  OBVIOUS
<1>3. t.purse = Only(p, gold) /\ t.row = Empty /\ t.mail = [NoGold EXCEPT ![p] = -mem.post[p]]
  BY <1>2, TxFacts DEF MoneyTx
<1>4. DOMAIN t.purse = {p} /\ t.purse[p] = gold /\ DOMAIN t.row = {}
  <2>1. t.purse = Only(p, gold) /\ t.row = Empty
    BY <1>3
  <2> QED BY <2>1, OnlyFacts
<1>5. Mailed(t.mail) = -mem.post[p]
  <2>1. t.mail \in [Players -> Int]
    BY <1>1 DEF Transaction
  <2>2. t.mail[p] = -mem.post[p] /\ \A q \in Players \ {p} : t.mail[q] = 0
    BY <1>3 DEF NoGold
  <2>3. Mailed(t.mail) = t.mail[p]
    BY <2>1, <2>2, MailedOne
  <2> QED BY <2>2, <2>3
<1>6. Gold(v) = Gold(w) + Mailed(t.mail) + (t.purse[p] - w.purse[p])
  BY <1>1, <1>4, GoldApply
<1>7. \A l \in Lots : v.row[l] = w.row[l]
  BY <1>1, <1>4, ApplyFacts
<1>8. Stakes(v) = Stakes(w)
  BY <1>7, StakesSame
<1>9. Gold(w) \in Nat /\ Stakes(w) \in Nat
  BY WorthIs
<1>10. Gold(v) = Gold(w)
  BY <1>1, <1>2, <1>4, <1>5, <1>6, <1>9
<1> QED BY <1>8, <1>9, <1>10, WorthLess

LEMMA ItemWorth ==
    ASSUME TypeInv, NEW p \in Players, NEW m \in Lots, NEW t, t = ItemTx(p, m) \/ t = SaveTx(p),
           NEW w \in World, w.purse = mem.purse, NEW v \in World, v = Apply(w, t),
           \A q \in Players : w.post[q] + t.mail[q] >= 0
    PROVE  Worth(v) <= Worth(w)
<1>1. t \in Transaction /\ mem.purse[p] \in Nat
  BY ItemType, WorldFacts DEF TypeInv
<1>3. t.purse = Only(p, mem.purse[p]) /\ t.row = Empty /\ t.mail = NoGold
  BY TxFacts DEF ItemTx, SaveTx
<1>4. DOMAIN t.purse = {p} /\ t.purse[p] = mem.purse[p] /\ DOMAIN t.row = {}
  BY <1>3, OnlyFacts
<1>6. Gold(v) = Gold(w) + Mailed(t.mail) + (t.purse[p] - w.purse[p])
  BY <1>1, <1>4, GoldApply
<1>7. \A l \in Lots : v.row[l] = w.row[l]
  BY <1>1, <1>4, ApplyFacts
<1>8. Stakes(v) = Stakes(w)
  BY <1>7, StakesSame
<1>9. Gold(w) \in Nat /\ Stakes(w) \in Nat
  BY WorthIs
<1>10. Gold(v) = Gold(w)
  BY <1>1, <1>3, <1>4, <1>6, <1>9, MailedNothing
<1> QED BY <1>8, <1>9, <1>10, WorthLess

LEMMA PlainGold ==
    ASSUME TypeInv, TypeInv', LotsInv, faults = 0, drops = 0, NEW w \in Rich, Ends(w), Follows(w),
           NEW p, NEW m, NEW ended, NEW t, Plain(p, m, ended, t)
    PROVE  \E x \in Rich : Ends(x)' /\ Follows(x)'
<1>1. /\ t \in Transaction /\ t.asks = NoFuture /\ Send(t) /\ mem' = Apply(mem, t)
      /\ \A q \in Players : mem.post[q] + t.mail[q] >= 0
      /\ UNCHANGED <<db, session, callbacks, sales, leaves, faults, drops>>
  BY PlainSteps
<1>2. PICK v : v = Apply(w, t)
  OBVIOUS
<1>3. w \in World /\ mem \in World /\ SameGold(w)
  BY DEF Rich, Follows, TypeInv
<1>4. v \in World /\ \A q \in Players : w.post[q] + t.mail[q] >= 0
  BY <1>1, <1>2, <1>3, ApplyType DEF SameGold
<1>5. /\ Pending' = Pending /\ \A l : Registers(l)' = Registers(l)
      /\ \A l : \A f \in Registers(l) : callbacks'[f].register = callbacks[f].register
  BY <1>1 DEF Pending, Registers, Awaited
<1>6. \A l \in Lots : PlaceOf(mem, l) \in Place
  <2>1. ASSUME NEW l \in Lots PROVE PlaceOf(mem, l) \in Place
    <3>1. PICK x \in Place : Drains(x, l) /\ Agrees(x, l)
      BY DEF LotsInv, LotInv, Intact
    <3> QED BY <3>1, PlaceFacts DEF Agrees
  <2> QED BY <2>1
<1>7. ASSUME NEW l \in Lots, Touches(t, l)
      PROVE  /\ Registers(l) = {}
             /\ mem'.bag[l] # mem.bag[l] => /\ mem.bag[l] \in DOMAIN t.purse \cup {Nobody}
                                            /\ mem'.bag[l] \in DOMAIN t.purse \cup {Nobody}
             /\ mem'.parcel[l] # mem.parcel[l] => mem.parcel[l] \in DOMAIN t.purse \cup {Nobody}
  <2>1. PlaceOf(mem, l) # Nowhere /\ <<PlaceOf(mem, l), t, PlaceOf(Apply(mem, t), l)>> \in LotSteps(l)
    BY <1>6, <1>7, PlainTouch
  <2>2. Registers(l) = {}
    BY <2>1, Present DEF LotsInv, LotInv, Intact
  <2>3. LET a == PlaceOf(mem, l)
            b == PlaceOf(mem', l)
        IN  /\ b.bag # a.bag => /\ a.bag \in DOMAIN t.purse \cup {Nobody}
                               /\ b.bag \in DOMAIN t.purse \cup {Nobody}
            /\ b.parcel # a.parcel => a.parcel \in DOMAIN t.purse \cup {Nobody}
    BY <1>1, <2>1, LotStep
  <2> QED BY <2>2, <2>3 DEF PlaceOf
<1>8. \A l \in Lots : /\ v.row[l] = IF l \in DOMAIN t.row THEN t.row[l] ELSE w.row[l]
                      /\ mem'.row[l] = IF l \in DOMAIN t.row THEN t.row[l] ELSE mem.row[l]
                      /\ mem'.bag[l] = IF l \in DOMAIN t.bag THEN t.bag[l] ELSE mem.bag[l]
                      /\ mem'.parcel[l] = IF l \in DOMAIN t.parcel THEN t.parcel[l]
                                          ELSE mem.parcel[l]
  BY <1>1, <1>2, <1>3, ApplyFacts
<1>9. Carries(mem, t, mem')
  BY <1>7, <1>8 DEF Touches, Carries
<1>10. ASSUME NEW l \in Lots PROVE SameRow(v, l)'
  <2>1. CASE l \in DOMAIN t.row
    <3>1. v.row[l] = mem'.row[l] /\ Registers(l)' = {}
      BY <1>5, <1>7, <1>8, <2>1 DEF Touches
    <3> QED BY <3>1, SameRowSet
  <2>2. CASE l \notin DOMAIN t.row
    <3>1. v.row[l] = w.row[l] /\ mem'.row[l] = mem.row[l] /\ SameRow(w, l)
      BY <1>8, <2>2 DEF Follows
    <3> QED BY <1>1, <1>5, <3>1, SameRowStays
  <2> QED BY <2>1, <2>2
<1>11. w.purse = mem.purse /\ \A l \in Lots : Listed(mem, l) => w.row[l] = mem.row[l]
  BY <1>3 DEF SameGold, Follows, SameRow
<1>12. Worth(v) <= Worth(w)
  <2>1. CASE p \in Players /\ m \in Lots /\ RemoveItem(p, m) /\ t = RemoveTx(p, m)
    <3>1. w.row[m] = mem.row[m]
      BY <1>11, <2>1, RemoveSends
    <3> QED BY <1>2, <1>3, <1>4, <1>11, <2>1, <3>1, RemoveWorth
  <2>2. CASE ended \in SUBSET Lots /\ Update(ended) /\ t = UpdateTx(ended)
    <3>1. \A l \in ended : w.row[l] = mem.row[l]
      BY <1>11, <2>2, UpdateSends
    <3> QED BY <1>2, <1>3, <1>4, <2>2, <3>1, UpdateWorth
  <2>3. CASE p \in Players /\ TakeMoney(p) /\ t = MoneyTx(p)
    BY <1>2, <1>3, <1>4, <1>11, <2>3, MoneyWorth
  <2>4. CASE p \in Players /\ m \in Lots /\ TakeItem(p, m) /\ t = ItemTx(p, m)
    BY <1>2, <1>3, <1>4, <1>11, <2>4, ItemWorth
  <2> QED BY <2>1, <2>2, <2>3, <2>4 DEF Plain
<1>13. Worth(v) + Pending' <= StartWorth
  <2>1. Worth(w) + Pending <= StartWorth /\ StartWorth \in Int /\ Pending \in Nat
    BY FinitePlayers, PendingFacts DEF Follows
  <2>2. Worth(w) \in Nat /\ Worth(v) \in Nat
    BY <1>3, <1>4, WorthIs
  <2> QED BY <1>5, <1>12, <2>1, <2>2
<1> QED BY <1>1, <1>2, <1>3, <1>9, <1>10, <1>13, SendGold

\* A bid or a buyout takes from the purse what it stakes and what it will mail.
LEMMA BidRefunds ==
    ASSUME TypeInv, NEW p \in Players, NEW m \in Lots, NEW price \in Prices, PlaceBid(p, m, price)
    PROVE  Mailed(BidRefund(p, m))
             = IF mem.row[m].bidder \in {p, Nobody} THEN 0 ELSE mem.row[m].bid
<1>1. mem.row[m] \in Row /\ mem.row[m].bidder \in Players \cup {Nobody}
  BY WorldFacts DEF TypeInv
<1>2. CASE mem.row[m].bidder \in {p, Nobody}
  <2>1. BidRefund(p, m) = NoGold
    BY <1>2 DEF BidRefund
  <2> QED BY <1>2, <2>1, MailedNothing
<1>3. CASE mem.row[m].bidder \notin {p, Nobody}
  <2>1. BidRefund(p, m) = Refund(mem.row[m]) /\ mem.row[m].bidder \in Players
    BY <1>1, <1>3 DEF BidRefund
  <2>2. Mailed(Refund(mem.row[m])) = mem.row[m].bid
    BY <1>1, <2>1, MailedProfit
  <2> QED BY <1>3, <2>1, <2>2
<1> QED BY <1>2, <1>3

LEMMA BidMails ==
    ASSUME TypeInv, NEW p \in Players, NEW m \in Lots, NEW price \in Prices, PlaceBid(p, m, price)
    PROVE  LET refund == IF mem.row[m].bidder \in {p, Nobody} THEN 0 ELSE mem.row[m].bid
               paid == Paid(m, price)
           IN  Mailed(BidPays(p, m, price).mail)
                 = IF Buys(m, price) THEN refund + (paid + Deposit - Cut(paid)) ELSE refund
<1>1. /\ Bid(p, m, price) \in Row /\ Bid(p, m, price).owner = mem.row[m].owner
      /\ Bid(p, m, price).bid = Paid(m, price) /\ BidRefund(p, m) \in [Players -> Nat]
      /\ mem.row[m].owner \in Players
  <2>1. mem.row[m].owner \in Players
    BY BidSends, WorldFacts DEF TypeInv, Listed
  <2> QED BY <2>1, BidType
<1>2. BidPays(p, m, price).mail = IF Buys(m, price) THEN Both(BidRefund(p, m), Profit(Bid(p, m, price)))
                                  ELSE BidRefund(p, m)
  BY TxFacts DEF BidPays
<1>3. Mailed(Profit(Bid(p, m, price))) = Paid(m, price) + Deposit - Cut(Paid(m, price))
  BY <1>1, MailedProfit
<1>4. Mailed(Both(BidRefund(p, m), Profit(Bid(p, m, price))))
        = Mailed(BidRefund(p, m)) + Mailed(Profit(Bid(p, m, price)))
  <2>1. BidRefund(p, m) \in [Players -> Int] /\ Profit(Bid(p, m, price)) \in [Players -> Int]
    BY <1>1, GoldFacts
  <2> QED BY <2>1, MailedBoth
<1> QED BY <1>2, <1>3, <1>4, BidRefunds

LEMMA BidWorth ==
    ASSUME TypeInv, NEW p \in Players, NEW m \in Lots, NEW price \in Prices, PlaceBid(p, m, price),
           NEW t, t = BidTx(p, m, price), NEW w \in World, w.purse = mem.purse, w.row[m] = mem.row[m],
           NEW v \in World, v = Apply(w, t)
    PROVE  Worth(v) + Mailed(BidPays(p, m, price).mail) <= Worth(w)
<1>1. PICK a : a = mem.row[m]
  OBVIOUS
<1>2. PICK paid : paid = Paid(m, price)
  OBVIOUS
<1>3. PICK cost : cost = Cost(p, a, paid)
  OBVIOUS
<1>4. PICK row : row = IF Buys(m, price) THEN NoRow ELSE Bid(p, m, price)
  OBVIOUS
<1>5. PICK rest : rest = mem.purse[p] - cost
  OBVIOUS
<1>6. /\ a \in Row /\ a.bid \in Nat /\ paid \in Nat /\ Cut(paid) \in Nat /\ Deposit \in Nat /\ cost \in Int
      /\ mem.purse[p] \in Nat /\ a.owner # Nobody
  <2>1. mem \in World
    BY DEF TypeInv
  <2>2. a \in Row /\ a.bid \in Nat /\ mem.purse[p] \in Nat
    BY <1>1, <2>1, WorldFacts
  <2>3. paid \in Nat /\ cost \in Int
    BY <1>1, <1>2, <1>3, BidType
  <2>4. Cut(paid) \in Nat /\ Deposit \in Nat
    BY <2>3, CutFacts, GoldAssumption
  <2>5. a.owner # Nobody
    BY <1>1, BidSends DEF Listed
  <2> QED BY <2>2, <2>3, <2>4, <2>5
<1>7. t \in Transaction /\ t.purse = Only(p, rest) /\ t.row = Only(m, row) /\ t.mail = NoGold
  BY <1>1, <1>2, <1>3, <1>4, <1>5, BidType, TxFacts DEF BidTx
<1>8. DOMAIN t.purse = {p} /\ t.purse[p] = rest
  BY <1>7 DEF Only
<1>9. DOMAIN t.row = {m} /\ t.row[m] = row
  BY <1>7 DEF Only
<1>10. Gold(w) \in Nat /\ Stakes(w) \in Nat /\ Gold(v) \in Nat /\ Stakes(v) \in Nat
       /\ Worth(w) = Gold(w) + Stakes(w) /\ Worth(v) = Gold(v) + Stakes(v)
  BY WorthIs
<1>11. Gold(v) = Gold(w) - cost
  <2>1. Gold(v) = Gold(w) + Mailed(t.mail) + (t.purse[p] - w.purse[p])
    <3>1. \A q \in Players : w.post[q] + t.mail[q] >= 0
      BY <1>7, WorldFacts DEF NoGold
    <3> QED BY <1>7, <1>8, <3>1, GoldApply
  <2> QED BY <1>5, <1>6, <1>7, <1>8, <1>10, <2>1, MailedNothing
<1>12. Value(w.row[m]) = a.bid + Deposit
  BY <1>1, <1>6 DEF Value
<1>13. Value(row) = IF Buys(m, price) THEN 0 ELSE paid + Deposit
  <2>1. CASE Buys(m, price)
    BY <1>4, <2>1 DEF Value, NoRow
  <2>2. CASE ~Buys(m, price)
    <3>1. row.owner = a.owner /\ row.bid = paid
      BY <1>1, <1>2, <1>4, <2>2, BidType
    <3> QED BY <1>6, <2>2, <3>1 DEF Value
  <2> QED BY <2>1, <2>2
<1>14. Stakes(v) = Stakes(w) + ((IF Buys(m, price) THEN 0 ELSE paid + Deposit) - (a.bid + Deposit))
  <2>1. Stakes(v) = Stakes(w) + (Value(t.row[m]) - Value(w.row[m]))
    BY <1>7, <1>9, StakesApply
  <2> QED BY <1>9, <1>12, <1>13, <2>1
<1>15. PICK mails : mails = Mailed(BidPays(p, m, price).mail)
  OBVIOUS
<1>16. mails = (IF a.bidder \in {p, Nobody} THEN 0 ELSE a.bid)
                 + (IF Buys(m, price) THEN paid + Deposit - Cut(paid) ELSE 0)
  <2>1. CASE Buys(m, price)
    BY <1>1, <1>2, <1>15, <2>1, BidMails
  <2>2. CASE ~Buys(m, price)
    <3>1. mails = IF a.bidder \in {p, Nobody} THEN 0 ELSE a.bid
      BY <1>1, <1>15, <2>2, BidMails
    <3> QED BY <1>6, <2>2, <3>1
  <2> QED BY <2>1, <2>2
<1>17. cost = (IF a.bidder = p THEN paid - a.bid ELSE paid) /\ p # Nobody
  BY <1>3, NobodyAssumption DEF Cost
<1>18. Worth(v) + mails <= Worth(w)
  <2>1. CASE Buys(m, price)
    <3>1. Stakes(v) = Stakes(w) - (a.bid + Deposit)
      BY <1>6, <1>10, <1>14, <2>1
    <3>2. mails <= (IF a.bidder \in {p, Nobody} THEN 0 ELSE a.bid) + (paid + Deposit) /\ mails \in Int
      BY <1>6, <1>16, <2>1
    <3>3. CASE a.bidder = p
      BY <1>6, <1>10, <1>11, <1>17, <3>1, <3>2, <3>3
    <3>4. CASE a.bidder # p
      BY <1>6, <1>10, <1>11, <1>17, <3>1, <3>2, <3>4
    <3> QED BY <3>3, <3>4
  <2>2. CASE ~Buys(m, price)
    <3>1. Stakes(v) = Stakes(w) + (paid - a.bid)
      BY <1>6, <1>10, <1>14, <2>2
    <3>2. mails = IF a.bidder \in {p, Nobody} THEN 0 ELSE a.bid
      BY <1>6, <1>16, <2>2
    <3>3. CASE a.bidder = p
      BY <1>6, <1>10, <1>11, <1>17, <3>1, <3>2, <3>3
    <3>4. CASE a.bidder # p
      BY <1>6, <1>10, <1>11, <1>17, <3>1, <3>2, <3>4
    <3> QED BY <3>3, <3>4
  <2> QED BY <2>1, <2>2
<1> QED BY <1>15, <1>18

LEMMA BidGold ==
    ASSUME TypeInv, TypeInv', LotsInv, faults = 0, drops = 0, NEW w \in Rich, Ends(w), Follows(w),
           NEW p \in Players, NEW m \in Lots, NEW price \in Prices, PlaceBid(p, m, price)
    PROVE  \E x \in Rich : Ends(x)' /\ Follows(x)'
<1>t. PICK t : t = BidTx(p, m, price)
  OBVIOUS
<1>v. PICK v : v = Apply(w, t)
  OBVIOUS
<1>r. PICK pays : pays = BidPays(p, m, price)
  OBVIOUS
<1>1. /\ Listed(mem, m) /\ FreeFuture /\ mem' = Apply(mem, t) /\ Send(t)
      /\ Await(p, Empty, pays) /\ UNCHANGED <<db, session, leaves, faults, drops>>
  BY <1>t, <1>r, BidSends
<1>2. t \in Transaction /\ pays \in Payment
  BY <1>t, <1>r, BidType
<1>3. w \in World /\ mem \in World /\ SameGold(w)
  BY DEF Rich, Follows, TypeInv
<1>4. /\ DOMAIN t.row = {m} /\ t.bag = Empty /\ t.parcel = Empty /\ t.mail = NoGold
  <2>1. PICK row : row = IF Buys(m, price) THEN NoRow ELSE Bid(p, m, price)
    OBVIOUS
  <2>2. t.row = Only(m, row) /\ t.bag = Empty /\ t.parcel = Empty /\ t.mail = NoGold
    BY <1>t, <2>1, TxFacts DEF BidTx
  <2> QED BY <2>2 DEF Only
<1>5. v \in World
  BY <1>2, <1>3, <1>v, ApplyType
<1>6. /\ \A l \in Lots : Registers(l)' = Registers(l)
      /\ \A l \in Lots : \A f \in Registers(l) : callbacks'[f].register = callbacks[f].register
  <2>1. Empty \in Partial(Lots, Offer) /\ DOMAIN Empty = {}
    BY OnlyType, OnlyFacts
  <2>2. \A l \in Lots :
          /\ Registers(l)' = Registers(l) \cup {f \in {NewFuture} : l \in DOMAIN Empty}
          /\ \A f \in Registers(l) : callbacks'[f].register = callbacks[f].register
    BY <1>1, <1>2, <2>1, AwaitLot
  <2> QED BY <2>1, <2>2
<1>7. Pending' = Pending + Mailed(pays.mail)
  <2>1. Empty \in Partial(Lots, Offer)
    BY OnlyType
  <2> QED BY <1>1, <1>2, <2>1, AwaitPending
<1>8. Registers(m) = {}
  <2>1. PlaceOf(mem, m) # Nowhere
    BY <1>1, <1>3, SpotFacts DEF Listed
  <2> QED BY <2>1, Present DEF LotsInv, LotInv, Intact
<1>9. \A l \in Lots : /\ v.row[l] = IF l = m THEN t.row[l] ELSE w.row[l]
                      /\ mem'.row[l] = IF l = m THEN t.row[l] ELSE mem.row[l]
  BY <1>1, <1>2, <1>3, <1>4, <1>v, ApplyFacts
<1>10. Carries(mem, t, mem')
  <2>1. DOMAIN t.bag = {} /\ DOMAIN t.parcel = {}
    BY <1>4, OnlyFacts
  <2>2. \A l \in Lots : mem'.bag[l] = mem.bag[l] /\ mem'.parcel[l] = mem.parcel[l]
    BY <1>1, <1>2, <1>3, <2>1, ApplyFacts
  <2> QED BY <2>2 DEF Carries
<1>11. ASSUME NEW l \in Lots PROVE SameRow(v, l)'
  <2>1. CASE l = m
    <3>1. v.row[l] = mem'.row[l] /\ Registers(l)' = {}
      BY <1>6, <1>8, <1>9, <2>1
    <3> QED BY <3>1, SameRowSet
  <2>2. CASE l # m
    <3>1. v.row[l] = w.row[l] /\ mem'.row[l] = mem.row[l] /\ SameRow(w, l)
      BY <1>9, <2>2 DEF Follows
    <3> QED BY <1>1, <1>6, <3>1, SameRowStays
  <2> QED BY <2>1, <2>2
<1>12. w.purse = mem.purse /\ w.row[m] = mem.row[m]
  BY <1>1, <1>3 DEF SameGold, Follows, SameRow
<1>13. Worth(v) + Mailed(pays.mail) <= Worth(w)
  BY <1>t, <1>r, <1>v, <1>3, <1>5, <1>12, BidWorth
<1>14. Worth(v) + Pending' <= StartWorth
  <2>1. Worth(w) + Pending <= StartWorth /\ StartWorth \in Int /\ Pending \in Nat
    BY FinitePlayers, PendingFacts DEF Follows
  <2>2. Worth(w) \in Nat /\ Worth(v) \in Nat
    BY <1>3, <1>5, WorthIs
  <2>3. Mailed(pays.mail) \in Int
    BY <1>2, MailedInt DEF Payment
  <2> QED BY <1>7, <1>13, <2>1, <2>2, <2>3
<1> QED BY <1>1, <1>2, <1>3, <1>v, <1>10, <1>11, <1>14, SendGold

LEMMA EndsStays ==
    ASSUME NEW w, Ends(w), queue' = queue, db' = db
    PROVE  Ends(w)'
  BY WorthPrimed DEF Ends

\* What a callback registers is what its transaction has put into the tables.
LEMMA CallbackGold ==
    ASSUME TypeInv, TypeInv', LotsInv, faults = 0, drops = 0, NEW w \in Rich, Ends(w), Follows(w),
           NEW f \in DOMAIN callbacks, callbacks[f].answer # "false", ProcessCallback(f)
    PROVE  \E x \in Rich : Ends(x)' /\ Follows(x)'
<1>t. PICK t : t = callbacks[f].pays
  OBVIOUS
<1>u. PICK u : u = CallbackTx(f)
  OBVIOUS
<1>r. PICK register : register = callbacks[f].register
  OBVIOUS
<1>v. PICK v : v = Apply(w, t)
  OBVIOUS
<1>0. \A l \in Lots : LotInv(l)
  BY DEF LotsInv, Intact
<1>1. /\ callbacks[f].answer = "true"
      /\ callbacks' = Restrict(callbacks, DOMAIN callbacks \ {f})
      /\ UNCHANGED <<db, session, sales, leaves, faults, drops>>
      /\ mem' = Apply(mem, u)
      /\ \/ t = Nothing /\ queue' = queue
         \/ Send(t)
  BY <1>t, <1>u, CallbackSteps, CallbackFacts DEF Callback
<1>2. /\ t \in Transaction /\ u \in Transaction /\ t \in Payment
      /\ t.bag = Empty /\ t.row = Empty /\ t.purse = Empty /\ t.mail \in [Players -> Nat]
      /\ u.bag = Empty /\ u.row = register /\ u.purse = Empty
      /\ u.parcel = t.parcel /\ u.mail = t.mail
      /\ callbacks[f].session \in Players
  BY <1>t, <1>u, <1>r, CallbackFacts
<1>3. /\ DOMAIN callbacks' = DOMAIN callbacks \ {f}
      /\ \A g \in DOMAIN callbacks' : callbacks'[g] = callbacks[g]
  BY <1>1, RestrictFacts
<1>4. \A l : /\ Registers(l)' = Registers(l) \ {f}
             /\ \A g \in Registers(l)' : callbacks'[g].register = callbacks[g].register
  BY <1>3 DEF Registers, Awaited
<1>5. w \in World /\ mem \in World /\ SameGold(w)
  BY DEF Rich, Follows, TypeInv
<1>6. /\ DOMAIN t.bag = {} /\ DOMAIN t.row = {} /\ DOMAIN t.purse = {} /\ DOMAIN u.bag = {}
  BY <1>2, OnlyFacts
<1>7. Pending = Pending' + Mailed(t.mail)
  <2>1. f \in Awaited /\ Awaited' = Awaited \ {f}
    BY <1>1, <1>3 DEF Awaited
  <2>2. \A g \in Awaited' : callbacks'[g].pays = callbacks[g].pays
    BY <1>3, <2>1 DEF Awaited
  <2> QED BY <1>t, <2>1, <2>2, PendingTake
<1>8. \A l \in Lots : /\ mem'.row[l] = IF l \in DOMAIN register THEN register[l] ELSE mem.row[l]
                      /\ v.row[l] = w.row[l] /\ mem'.bag[l] = mem.bag[l]
  BY <1>1, <1>2, <1>5, <1>6, <1>v, ApplyFacts
<1>9. ASSUME NEW l \in Lots, NEW x, x.row[l] = w.row[l] PROVE SameRow(x, l)'
  <2>0. SameRow(w, l)
    BY DEF Follows
  <2>1. CASE l \in DOMAIN register
    <3>1. f \in Registers(l)
      BY <1>1, <1>r, <2>1, Waiting
    <3>2. Registers(l) = {f}
      <4>1. PICK y \in Place : Agrees(y, l)
        BY <1>0 DEF LotInv
      <4> QED BY <3>1, <4>1 DEF Agrees
    <3>3. Registers(l)' = {}
      BY <1>4, <3>2
    <3>4. x.row[l] = mem'.row[l]
      BY <1>8, <1>9, <1>r, <2>0, <2>1, <3>1 DEF SameRow
    <3> QED BY <3>3, <3>4, SameRowSet
  <2>2. CASE l \notin DOMAIN register
    <3>1. mem'.row[l] = mem.row[l]
      BY <1>8, <2>2
    <3>2. Registers(l)' = Registers(l)
      BY <1>1, <1>4, <1>r, <2>2, Waiting
    <3>3. \A g \in Registers(l) : callbacks'[g].register = callbacks[g].register
      BY <1>4, <3>2
    <3> QED BY <1>1, <1>9, <2>0, <3>1, <3>2, <3>3, SameRowStays
  <2> QED BY <2>1, <2>2
<1>10. Worth(w) + Pending <= StartWorth /\ StartWorth \in Int /\ Worth(w) \in Nat /\ Mailed(t.mail) \in Nat
       /\ Pending' \in Nat
  <2>1. (Pending \in Nat)'
    BY PendingFacts, PTL
  <2>2. Mailed(t.mail) \in Nat
    <3>1. t.mail \in [Players -> Int]
      BY <1>2
    <3> QED BY <1>2, <3>1, MailedInt
  <2> QED BY <1>5, <2>1, <2>2, FinitePlayers, WorthIs DEF Follows
<1>11. CASE t = Nothing /\ queue' = queue
  <2>1. Ends(w)'
    BY <1>1, <1>11, EndsStays
  <2>2. mem'.purse = mem.purse /\ mem'.post = mem.post /\ mem'.bag = mem.bag /\ mem'.parcel = mem.parcel
    <3>1. t.mail = NoGold /\ DOMAIN u.parcel = {} /\ DOMAIN u.purse = {}
      BY <1>2, <1>11, NothingType, OnlyFacts
    <3>2. \A p \in Players : u.mail[p] = 0
      BY <1>2, <3>1 DEF NoGold
    <3>3. /\ mem'.purse \in [Players -> Nat] /\ mem'.post \in [Players -> Nat]
          /\ mem'.bag \in [Lots -> Players \cup {Nobody}] /\ mem'.parcel \in [Lots -> Players \cup {Nobody}]
          /\ mem.purse \in [Players -> Nat] /\ mem.post \in [Players -> Nat]
          /\ mem.bag \in [Lots -> Players \cup {Nobody}] /\ mem.parcel \in [Lots -> Players \cup {Nobody}]
      BY WorldFacts DEF TypeInv
    <3>0. \A p \in Players : mem.post[p] + u.mail[p] >= 0
      BY <3>2, <3>3
    <3>4. \A p \in Players : mem'.purse[p] = mem.purse[p] /\ mem'.post[p] = mem.post[p] + u.mail[p]
      <4>1. \A p \in Players : mem'.purse[p] = mem.purse[p]
        BY <1>1, <1>2, <1>5, <3>1, ApplyFacts
      <4>2. u \in Transaction /\ mem \in World /\ mem' = Apply(mem, u)
        BY <1>1, <1>2, <1>5
      <4>3. \A p \in Players : mem.post[p] + u.mail[p] >= 0
                                => mem'.post[p] = mem.post[p] + u.mail[p]
        BY ONLY <4>2, ApplyFacts
      <4> QED BY <3>0, <4>1, <4>3
    <3>5. \A l \in Lots : mem'.bag[l] = mem.bag[l] /\ mem'.parcel[l] = mem.parcel[l]
      BY <1>1, <1>2, <1>5, <1>6, <3>1, ApplyFacts
    <3>6. \A p \in Players : mem'.post[p] = mem.post[p]
      BY <3>2, <3>3, <3>4
    <3>7. mem'.purse = mem.purse /\ mem'.post = mem.post
      BY <3>3, <3>4, <3>6
    <3>8. mem'.bag = mem.bag /\ mem'.parcel = mem.parcel
      BY <3>3, <3>5
    <3> QED BY <3>7, <3>8
  <2>3. SameGold(w)'
    BY <1>5, <2>2 DEF SameGold
  <2>4. \A l \in Lots : SameRow(w, l)'
    BY <1>9
  <2>5. (Worth(w) + Pending <= StartWorth)'
    <3>1. Worth(w) + Pending' <= StartWorth
      BY <1>7, <1>10
    <3> QED BY <3>1, WorthPrimed
  <2>6. Follows(w)'
    BY <2>3, <2>4, <2>5 DEF Follows
  <2> QED BY <2>1, <2>6
<1>12. CASE Send(t)
  <2>1. v \in World
    BY <1>2, <1>5, <1>v, ApplyType
  <2>2. Gold(v) = Gold(w) + Mailed(t.mail)
    <3>0. \A q \in Players : w.post[q] + t.mail[q] >= 0
      BY <1>2, <1>5, WorldFacts
    <3>1. PICK p \in Players : TRUE
      BY <1>2
    <3>2. Gold(v) = Gold(w) + Mailed(t.mail) + 0
      BY <1>2, <1>5, <1>6, <1>v, <3>0, <3>1, GoldApply
    <3>3. Gold(w) \in Nat
      BY <1>5, WorthIs
    <3> QED BY <1>10, <3>2, <3>3
  <2>3. Stakes(v) = Stakes(w)
    BY <1>5, <1>8, StakesSame
  <2>4. Worth(v) + Pending' <= StartWorth
    <3>1. Worth(v) = Gold(v) + Stakes(v) /\ Worth(w) = Gold(w) + Stakes(w)
          /\ Gold(w) \in Nat /\ Stakes(w) \in Nat
      BY <1>5, <2>1, WorthIs
    <3> QED BY <1>7, <1>10, <2>2, <2>3, <3>1
  <2>5. \A l \in Lots : SameRow(v, l)'
    BY <1>8, <1>9
  <2>6. u.purse = t.purse /\ u.bag = t.bag /\ u.parcel = t.parcel /\ u.mail = t.mail
    BY <1>2
  <2>7. Carries(mem, t, mem')
    <3>1. ASSUME NEW l \in Lots, mem'.parcel[l] # mem.parcel[l] PROVE mem.parcel[l] = Nobody
      <4>1. l \in DOMAIN t.parcel
        BY <1>1, <1>2, <1>5, <3>1, ApplyFacts
      <4>2. f \in Parcels(l)
        BY <1>1, <1>t, <4>1, Waiting
      <4>3. PICK x \in Place : Agrees(x, l)
        BY <1>0 DEF LotInv
      <4>4. PlaceOf(mem, l) = Nowhere
        BY <4>2, <4>3 DEF Agrees
      <4> QED BY <4>4, PlaceFacts DEF PlaceOf, Nowhere
    <3> QED BY <1>8, <3>1 DEF Carries
  <2> QED BY <1>1, <1>2, <1>5, <1>12, <1>v, <2>4, <2>5, <2>6, <2>7, SendGold
<1> QED BY <1>1, <1>11, <1>12

LEMMA CommitGold ==
    ASSUME TypeInv, LotsInv, NEW w \in Rich, Ends(w), Follows(w), Commit
    PROVE  \E x \in Rich : Ends(x)' /\ Follows(x)'
<1>1. /\ queue # <<>> /\ db' = Apply(db, Head(queue)) /\ queue' = Tail(queue)
      /\ callbacks' = Answer(Head(queue).asks, "true")
      /\ UNCHANGED <<mem, session, sales, leaves, faults, drops>>
  BY DEF Commit
<1>2. Ends(w)'
  <2>1. queue \in Seq(Transaction)
    BY DEF TypeInv
  <2>2. PICK c \in Rich : /\ <<db, Head(queue), c>> \in Saves
                          /\ \E h : Trace(h, Tail(queue), Rich, Saves, c, w)
    BY <1>1, <2>1, TraceTail DEF Ends
  <2>3. c = db'
    BY <1>1, <2>2, SaveStep
  <2> QED BY <1>1, <2>2, <2>3, WorthPrimed DEF Ends
<1>3. /\ DOMAIN callbacks' = DOMAIN callbacks
      /\ \A f \in DOMAIN callbacks : /\ callbacks'[f].pays = callbacks[f].pays
                                     /\ callbacks'[f].register = callbacks[f].register
                                     /\ callbacks'[f].answer # "false" <=> callbacks[f].answer # "false"
  <2>1. \A f \in DOMAIN callbacks :
          callbacks'[f].answer = IF f = Head(queue).asks THEN "true" ELSE callbacks[f].answer
    BY <1>1, AnswerFacts
  <2>2. Head(queue).asks \in DOMAIN callbacks => callbacks[Head(queue).asks].answer = "none"
    <3>1. queue \in Seq(Transaction) /\ NoFuture \notin DOMAIN callbacks
      BY NobodyAssumption DEF TypeInv
    <3>2. Head(queue) = queue[1] /\ 1 \in 1 .. Len(queue)
      BY <1>1, <3>1, HeadFacts
    <3> QED BY <3>1, <3>2 DEF TypeInv, Asking
  <2>3. DOMAIN callbacks' = DOMAIN callbacks
    BY <1>1, AnswerFacts
  <2>4. \A f \in DOMAIN callbacks : /\ callbacks'[f].pays = callbacks[f].pays
                                    /\ callbacks'[f].register = callbacks[f].register
    BY <1>1, AnswerFacts
  <2> QED BY <2>1, <2>2, <2>3, <2>4
<1>4. Awaited' = Awaited
  BY <1>3 DEF Awaited
<1>5. Pending' = Pending
  BY <1>3, <1>4, PendingSame DEF Awaited
<1>6. ASSUME NEW l \in Lots PROVE SameRow(w, l)'
  <2>1. Registers(l)' = Registers(l) /\ \A f \in Registers(l) : callbacks'[f].register = callbacks[f].register
    BY <1>3, <1>4 DEF Registers, Awaited
  <2>2. SameRow(w, l)
    BY DEF Follows
  <2> QED BY <1>1, <2>1, <2>2, SameRowStays
<1>7. Follows(w)'
  <2>1. SameGold(w)'
    BY <1>1 DEF Follows, SameGold
  <2>2. (Worth(w) + Pending <= StartWorth)'
    BY <1>5, WorthPrimed DEF Follows
  <2> QED BY <1>6, <2>1, <2>2 DEF Follows
<1> QED BY <1>2, <1>7

LEMMA WorldEqual ==
    ASSUME NEW a \in World, NEW b \in World, a.purse = b.purse, a.post = b.post,
           a.bag = b.bag, a.parcel = b.parcel, a.row = b.row
    PROVE  a = b
  BY DEF World

LEMMA SaveType ==
    ASSUME TypeInv, NEW p \in Players
    PROVE  SaveTx(p) \in Transaction
<1>1. mem.purse[p] \in Nat /\ NoGold \in [Players -> Int]
  BY WorldFacts DEF TypeInv, NoGold
<1> QED BY <1>1, OnlyType, TxType DEF SaveTx

\* A save of what is already saved changes nothing.
LEMMA SaveSame ==
    ASSUME TypeInv, NEW w \in Rich, SameGold(w), NEW p \in Players, NEW t, t = SaveTx(p)
    PROVE  <<w, t, w>> \in Saves
<1>1. t \in Transaction /\ w \in World /\ mem.purse[p] \in Nat
  BY SaveType, WorldFacts DEF Rich, TypeInv
<1>2. /\ t.purse = Only(p, mem.purse[p]) /\ t.bag = Empty /\ t.parcel = Empty /\ t.row = Empty
      /\ t.mail = NoGold
  BY TxFacts DEF SaveTx
<1>3. DOMAIN t.purse = {p} /\ t.purse[p] = w.purse[p]
  BY <1>2 DEF Only, SameGold
<1>4. DOMAIN t.bag = {} /\ DOMAIN t.parcel = {} /\ DOMAIN t.row = {}
  BY <1>2, OnlyFacts
<1>5. \A q \in Players : t.mail[q] = 0
  BY <1>2 DEF NoGold
<1>6. PICK v : v = Apply(w, t)
  OBVIOUS
<1>7. v \in World
  BY <1>1, <1>6, ApplyType
<1>8. /\ \A q \in Players : v.purse[q] = w.purse[q] /\ v.post[q] = w.post[q] + t.mail[q]
      /\ \A l \in Lots : v.bag[l] = w.bag[l] /\ v.parcel[l] = w.parcel[l] /\ v.row[l] = w.row[l]
  <2>1. \A q \in Players : w.post[q] + t.mail[q] >= 0
    BY <1>1, <1>5, WorldFacts
  <2> QED BY <1>1, <1>3, <1>4, <1>6, <2>1, ApplyFacts
<1>9. /\ v.purse \in [Players -> Nat] /\ v.post \in [Players -> Nat] /\ v.row \in [Lots -> Row]
      /\ v.bag \in [Lots -> Players \cup {Nobody}] /\ v.parcel \in [Lots -> Players \cup {Nobody}]
      /\ w.purse \in [Players -> Nat] /\ w.post \in [Players -> Nat] /\ w.row \in [Lots -> Row]
      /\ w.bag \in [Lots -> Players \cup {Nobody}] /\ w.parcel \in [Lots -> Players \cup {Nobody}]
  BY <1>1, <1>7, WorldFacts
<1>10. v.purse = w.purse
  BY <1>8, <1>9
<1>11. v.post = w.post
  <2>1. \A q \in Players : v.post[q] = w.post[q]
    BY <1>5, <1>8, <1>9
  <2> QED BY <1>9, <2>1
<1>12. v.bag = w.bag /\ v.parcel = w.parcel /\ v.row = w.row
  BY <1>8, <1>9
<1>13. v = w
  BY <1>1, <1>7, <1>10, <1>11, <1>12, WorldEqual
<1>14. Carries(w, t, w)
  BY DEF Carries
<1>15. w = Apply(w, t)
  BY <1>6, <1>13
<1> QED BY <1>1, <1>14, <1>15, SaveStep

LEMMA LeaveGold ==
    ASSUME TypeInv, TypeInv', NEW w \in Rich, Ends(w), Follows(w), NEW p \in Players, Leave(p)
    PROVE  \E x \in Rich : Ends(x)' /\ Follows(x)'
<1>1. /\ leaves' = leaves + 1 /\ UNCHANGED <<mem, db, sales, faults, drops>> /\ Len(queue) \in Nat
      /\ DOMAIN callbacks' \subseteq DOMAIN callbacks
      /\ \A f \in DOMAIN callbacks' : callbacks'[f] = callbacks[f]
  BY LeaveFacts, ZenonT(60)
<1>2. PICK q \in Seq(Transaction) :
         /\ queue' = Append(q, SaveTx(p)) \/ queue' = q
         /\ Len(q) = Len(queue)
         /\ \A k \in 1 .. Len(queue) :
              /\ q[k].purse = queue[k].purse /\ q[k].bag = queue[k].bag
              /\ q[k].parcel = queue[k].parcel /\ q[k].row = queue[k].row
              /\ q[k].mail = queue[k].mail
              /\ q[k].asks = IF queue[k].asks \in DOMAIN callbacks' THEN queue[k].asks
                             ELSE NoFuture
  BY LeaveFacts
<1>3. \E h : Trace(h, q, Rich, Saves, db, w)
  <2>1. ASSUME NEW k \in 1 .. Len(queue), NEW x \in Rich, NEW y \in Rich, <<x, queue[k], y>> \in Saves
        PROVE  <<x, q[k], y>> \in Saves
    <3>1. q[k] \in Transaction
      BY <1>2
    <3>2. y = Apply(x, queue[k]) /\ Carries(x, queue[k], y)
      BY <2>1, SaveStep
    <3>3. Apply(x, queue[k]) = Apply(x, q[k]) /\ q[k].purse = queue[k].purse
      BY <1>2 DEF Apply
    <3>4. Carries(x, q[k], y)
      BY <3>2, <3>3 DEF Carries
    <3> QED BY <2>1, <3>1, <3>2, <3>3, <3>4, SaveStep
  <2> QED BY <1>1, <1>2, <2>1, TraceWeaken DEF Ends
<1>4. Ends(w)'
  <2>1. PICK t : t = SaveTx(p)
    OBVIOUS
  <2>2. t \in Transaction /\ <<w, t, w>> \in Saves
    BY <2>1, SaveType, SaveSame DEF Follows
  <2>3. \E h : Trace(h, Append(q, t), Rich, Saves, db, w)
    BY <1>2, <1>3, <2>2, TraceAppend
  <2>4. \E h : Trace(h, queue', Rich, Saves, db, w)
    BY <1>2, <1>3, <2>1, <2>3
  <2> QED BY <1>1, <2>4, WorthPrimed DEF Ends
<1>5. Awaited' \subseteq Awaited /\ \A f \in Awaited' : callbacks'[f] = callbacks[f]
  BY <1>1 DEF Awaited
<1>6. Pending' <= Pending
  BY <1>5, PendingLess
<1>7. ASSUME NEW l \in Lots PROVE SameRow(w, l)'
  <2>1. \A f \in Registers(l)' : f \in Registers(l) /\ callbacks'[f].register = callbacks[f].register
    BY <1>1, <1>5 DEF Registers
  <2>2. SameRow(w, l)
    BY DEF Follows
  <2>3. leaves' > 0
    BY <1>1 DEF TypeInv
  <2> QED BY <1>1, <2>1, <2>2, <2>3 DEF SameRow, Listed
<1>8. Follows(w)'
  <2>1. SameGold(w)'
    BY <1>1 DEF Follows, SameGold
  <2>2. (Worth(w) + Pending <= StartWorth)'
    <3>1. (Pending \in Nat)'
      BY PendingFacts, PTL
    <3>2. Worth(w) + Pending <= StartWorth /\ Worth(w) \in Nat /\ Pending \in Nat /\ StartWorth \in Int
      BY PendingFacts, WorthIs, FinitePlayers DEF Follows, Rich
    <3>3. Worth(w) + Pending' <= StartWorth
      BY <1>6, <3>1, <3>2
    <3> QED BY <3>3, WorthPrimed
  <2> QED BY <1>7, <2>1, <2>2 DEF Follows
<1> QED BY <1>4, <1>8

\* What is read of a character whose saves are all in the tables is what memory has.
LEMMA ReturnGold ==
    ASSUME TypeInv, TypeInv', drops = 0, NEW w \in Rich, Ends(w), Follows(w),
           NEW p \in Players, Return(p)
    PROVE  mem' = mem /\ \E x \in Rich : Ends(x)' /\ Follows(x)'
<1>1. /\ \A k \in 1 .. Len(queue) :
           /\ p \notin DOMAIN queue[k].purse /\ queue[k].mail[p] = 0
           /\ \A l \in DOMAIN queue[k].parcel : queue[k].parcel[l] # p
      /\ mem' \in World
      /\ mem'.purse = [mem.purse EXCEPT ![p] = db.purse[p]]
      /\ mem'.post = [mem.post EXCEPT ![p] = db.post[p]]
      /\ \A l \in Lots : mem'.bag[l] = IF db.bag[l] = p THEN p
                                       ELSE IF mem.bag[l] = p THEN Nobody ELSE mem.bag[l]
      /\ \A l \in Lots : mem'.parcel[l] = IF db.parcel[l] = p THEN p
                                          ELSE IF mem.parcel[l] = p THEN Nobody
                                          ELSE mem.parcel[l]
      /\ mem'.row = mem.row
      /\ UNCHANGED <<db, queue, callbacks, sales, leaves, faults, drops>>
  BY ReturnFacts, ZenonT(60)
<1>2. db \in World /\ mem \in World /\ SameGold(w) /\ Len(queue) \in Nat /\ p # Nobody
      /\ queue \in Seq(Transaction)
  BY NobodyAssumption DEF Follows, TypeInv
<1>3. db \in Rich
  BY <1>2 DEF Ends, Trace
<1>4. ASSUME NEW C, db \in C,
             \A k \in 1 .. Len(queue) : \A x \in Rich, y \in Rich :
               <<x, queue[k], y>> \in Saves /\ x \in C => y \in C
      PROVE  w \in C
  BY <1>2, <1>4, TraceKeeps DEF Ends
<1>5. ASSUME NEW k \in 1 .. Len(queue), NEW x \in Rich, NEW y \in Rich, <<x, queue[k], y>> \in Saves
      PROVE  /\ y.purse[p] = x.purse[p]
             /\ \A l \in Lots : /\ y.bag[l] = p <=> x.bag[l] = p
                                /\ y.parcel[l] = p <=> x.parcel[l] = p
  <2>1. y = Apply(x, queue[k]) /\ queue[k] \in Transaction /\ x \in World /\ Carries(x, queue[k], y)
    BY <1>5, SaveStep DEF Rich
  <2>2. p \notin DOMAIN queue[k].purse
    BY <1>1
  <2>3. y.purse[p] = x.purse[p]
    BY <2>1, <2>2, ApplyFacts
  <2>4. \A l \in Lots : y.bag[l] = p <=> x.bag[l] = p
    BY <1>2, <2>1, <2>2 DEF Carries
  <2>5. ASSUME NEW l \in Lots PROVE y.parcel[l] = p <=> x.parcel[l] = p
    <3>1. y.parcel[l] = IF l \in DOMAIN queue[k].parcel THEN queue[k].parcel[l] ELSE x.parcel[l]
      BY <2>1, ApplyFacts
    <3>2. l \in DOMAIN queue[k].parcel => queue[k].parcel[l] # p
      BY <1>1
    <3>3. y.parcel[l] # x.parcel[l] => x.parcel[l] \in DOMAIN queue[k].purse \cup {Nobody}
      BY <2>1 DEF Carries
    <3> QED BY <1>2, <2>2, <3>1, <3>2, <3>3
  <2> QED BY <2>3, <2>4, <2>5
<1>6. w.purse[p] = db.purse[p]
  <2> DEFINE C == {x \in Rich : x.purse[p] = db.purse[p]}
  <2>1. \A k \in 1 .. Len(queue) : \A x \in Rich, y \in Rich :
          <<x, queue[k], y>> \in Saves /\ x \in C => y \in C
    BY <1>5
  <2>2. db \in C
    BY <1>3
  <2> HIDE DEF C
  <2>3. w \in C
    BY <1>4, <2>1, <2>2
  <2> QED BY <2>3 DEF C
<1>7. \A l \in Lots : (w.bag[l] = p <=> db.bag[l] = p) /\ (w.parcel[l] = p <=> db.parcel[l] = p)
  <2> DEFINE C == {x \in Rich : \A l \in Lots : (x.bag[l] = p <=> db.bag[l] = p)
                                               /\ (x.parcel[l] = p <=> db.parcel[l] = p)}
  <2>1. \A k \in 1 .. Len(queue) : \A x \in Rich, y \in Rich :
          <<x, queue[k], y>> \in Saves /\ x \in C => y \in C
    BY <1>5
  <2>2. db \in C
    BY <1>3
  <2> HIDE DEF C
  <2>3. w \in C
    BY <1>4, <2>1, <2>2
  <2> QED BY <2>3 DEF C
<1>8. w.purse = mem.purse /\ w.bag = mem.bag /\ w.parcel = mem.parcel
  BY <1>2 DEF SameGold
<1>m. mem.purse \in [Players -> Nat] /\ mem.post \in [Players -> Nat]
  BY <1>2, WorldFacts
<1>9. mem'.purse = mem.purse
  <2>1. mem.purse[p] = db.purse[p]
    BY <1>6, <1>8
  <2>2. mem'.purse = [mem.purse EXCEPT ![p] = db.purse[p]]
    BY <1>1
  <2> QED BY <1>m, <2>1, <2>2
<1>10. mem'.post = mem.post
  <2>1. mem.post[p] = db.post[p]
    BY <1>1, ReturnPost
  <2>2. mem'.post = [mem.post EXCEPT ![p] = db.post[p]]
    BY <1>1
  <2> QED BY <1>m, <2>1, <2>2
<1>11. mem'.bag = mem.bag
  <2>1. \A l \in Lots : mem'.bag[l] = mem.bag[l]
    BY <1>1, <1>7, <1>8
  <2> QED BY <1>1, <1>2, <2>1, WorldFacts
<1>12. mem'.parcel = mem.parcel
  <2>1. \A l \in Lots : mem'.parcel[l] = mem.parcel[l]
    BY <1>1, <1>7, <1>8
  <2> QED BY <1>1, <1>2, <2>1, WorldFacts
<1>13. mem' = mem
  BY <1>1, <1>2, <1>9, <1>10, <1>11, <1>12, WorldEqual
<1>14. Ends(w)'
  BY <1>1, EndsStays
<1>15. /\ Pending' = Pending /\ \A l : Registers(l)' = Registers(l)
       /\ \A l : \A f \in Registers(l) : callbacks'[f].register = callbacks[f].register
  BY <1>1 DEF Pending, Registers, Awaited
<1>16. ASSUME NEW l \in Lots PROVE SameRow(w, l)'
  <2>1. SameRow(w, l) /\ mem'.row[l] = mem.row[l]
    BY <1>1 DEF Follows
  <2> QED BY <1>1, <1>15, <2>1, SameRowStays
<1>17. SameGold(w)' /\ (Worth(w) + Pending <= StartWorth)'
  BY <1>2, <1>13, <1>15, WorthPrimed DEF Follows, SameGold
<1>18. Follows(w)'
  BY <1>16, <1>17 DEF Follows
<1> QED BY <1>13, <1>14, <1>18

\* What the players own at the start: the gold that is not in their purses
\* is staked in the auctions.
Taken(owner, bidder, p, l) ==
    (IF owner[l] = p THEN Deposit ELSE 0) + (IF bidder[l] = p THEN StartBid[l] ELSE 0)
Staked(bidder, l) == (IF bidder[l] = Nobody THEN 0 ELSE StartBid[l]) + Deposit

LEMMA TakenSum ==
    ASSUME NEW owner \in [Lots -> Players], NEW bidder \in [Lots -> Players \cup {Nobody}], NEW l \in Lots
    PROVE  /\ SumFunctionOnSet([p \in Players |-> Taken(owner, bidder, p, l)], Players) = Staked(bidder, l)
           /\ \A p \in Players : Taken(owner, bidder, p, l) \in Nat
           /\ Staked(bidder, l) \in Nat
<1> DEFINE f == [p \in Players |-> IF owner[l] = p THEN Deposit ELSE 0]
           h == [p \in Players |-> IF bidder[l] = p THEN StartBid[l] ELSE 0]
           k == [p \in Players |-> Taken(owner, bidder, p, l)]
<1>1. Deposit \in Nat /\ StartBid[l] \in Nat /\ IsFiniteSet(Players) /\ owner[l] \in Players
      /\ bidder[l] \in Players \cup {Nobody} /\ Nobody \notin Players
  BY GoldAssumption, LotAssumption, FiniteAssumption, NobodyAssumption
<1>2. \A p \in Players : f[p] \in Int /\ h[p] \in Int /\ k[p] = f[p] + h[p]
  BY <1>1 DEF Taken
<1>3. SumFunctionOnSet(f, Players) = Deposit
  <2>1. f[owner[l]] = Deposit /\ \A q \in Players \ {owner[l]} : f[q] = 0
    BY <1>1
  <2> HIDE DEF f
  <2>2. PICK o \in Players : o = owner[l]
    BY <1>1
  <2>3. f[o] = Deposit /\ f[o] \in Int /\ \A q \in Players \ {o} : f[q] = 0
    BY <1>1, <2>1, <2>2
  <2>4. SumFunctionOnSet(f, Players) = f[o]
    BY <1>1, <2>3, SumOne
  <2> QED BY <2>3, <2>4
<1>4. SumFunctionOnSet(h, Players) = IF bidder[l] = Nobody THEN 0 ELSE StartBid[l]
  <2>1. CASE bidder[l] = Nobody
    <3>1. \A q \in Players : h[q] = 0
      BY <1>1, <2>1
    <3> HIDE DEF h
    <3>2. SumFunctionOnSet(h, Players) = 0
      BY <1>1, <3>1, SumZero
    <3> QED BY <2>1, <3>2
  <2>2. CASE bidder[l] # Nobody
    <3>1. PICK b \in Players : b = bidder[l]
      BY <1>1, <2>2
    <3>2. h[b] = StartBid[l] /\ h[b] \in Int /\ \A q \in Players \ {b} : h[q] = 0
      BY <1>1, <3>1
    <3> HIDE DEF h
    <3>3. SumFunctionOnSet(h, Players) = h[b]
      BY <1>1, <3>2, SumOne
    <3> QED BY <2>2, <3>2, <3>3
  <2> QED BY <2>1, <2>2
<1>5. SumFunctionOnSet(k, Players) = SumFunctionOnSet(f, Players) + SumFunctionOnSet(h, Players)
  <2> HIDE DEF f, h, k
  <2> QED BY <1>1, <1>2, SumPlus
<1>6. (\A p \in Players : Taken(owner, bidder, p, l) \in Nat) /\ Staked(bidder, l) \in Nat
  BY <1>1 DEF Taken, Staked
<1>7. Staked(bidder, l) = SumFunctionOnSet(h, Players) + SumFunctionOnSet(f, Players)
  BY <1>3, <1>4 DEF Staked
<1>8. SumFunctionOnSet(f, Players) \in Int /\ SumFunctionOnSet(h, Players) \in Int
  BY <1>1, <1>3, <1>4
<1> HIDE DEF f, h
<1> QED BY <1>5, <1>6, <1>7, <1>8

LEMMA StartIsWorth ==
    ASSUME NEW owner \in [Lots -> Players], NEW bidder \in [Lots -> Players \cup {Nobody}],
           NEW listed \in SUBSET Lots, NEW w \in World, w = LoadAuctions(owner, bidder, listed)
    PROVE  Worth(w) = StartWorth
<1> DEFINE h == [p \in Players |-> [l \in listed |-> Taken(owner, bidder, p, l)]]
           take == [p \in Players |-> SumFunctionOnSet(h[p], listed)]
           staked == [l \in listed |-> SumFunctionOnSet([p \in Players |-> h[p][l]], Players)]
           gold == [p \in Players |-> w.purse[p] + w.post[p]]
           all == [p \in Players |-> StartGold]
           value == [l \in Lots |-> Value(w.row[l])]
<1>1. IsFiniteSet(Players) /\ IsFiniteSet(Lots) /\ IsFiniteSet(listed) /\ StartGold \in Nat
  BY FiniteAssumption, LotAssumption, FS_Subset
<1>2. /\ w.purse = [p \in Players |-> StartGold - SumFunction(
                      [l \in listed |-> (IF owner[l] = p THEN Deposit ELSE 0)
                                         + (IF bidder[l] = p THEN StartBid[l] ELSE 0)])]
      /\ w.post = [p \in Players |-> 0]
      /\ w.row = [l \in Lots |->
            IF l \in listed
              THEN [owner |-> owner[l], bidder |-> bidder[l],
                    bid |-> IF bidder[l] = Nobody THEN 0 ELSE StartBid[l]]
              ELSE NoRow]
  BY Zenon DEF LoadAuctions
<1>3. \A p \in Players, l \in listed : h[p][l] = Taken(owner, bidder, p, l) /\ h[p][l] \in Int
  <2>1. \A p \in Players, l \in listed : Taken(owner, bidder, p, l) \in Nat
    BY TakenSum
  <2> QED BY <2>1
<1>4. \A p \in Players : take[p] \in Int /\ w.purse[p] = StartGold - take[p] /\ w.post[p] = 0
  <2>1. SUFFICES ASSUME NEW p \in Players
                 PROVE  take[p] \in Int /\ w.purse[p] = StartGold - take[p] /\ w.post[p] = 0
    OBVIOUS
  <2>2. w.purse[p] = StartGold - SumFunction(
                      [l \in listed |-> (IF owner[l] = p THEN Deposit ELSE 0)
                                         + (IF bidder[l] = p THEN StartBid[l] ELSE 0)])
    BY <1>2
  <2>3. h[p] = [l \in listed |-> (IF owner[l] = p THEN Deposit ELSE 0)
                                   + (IF bidder[l] = p THEN StartBid[l] ELSE 0)]
    BY DEF Taken
  <2>4. SumFunction(h[p]) = SumFunctionOnSet(h[p], listed)
    BY DEF SumFunction
  <2>5. take[p] = SumFunctionOnSet(h[p], listed)
    OBVIOUS
  <2>6. \A l \in listed : h[p][l] \in Int
    BY <1>3
  <2> HIDE DEF h, take
  <2>7. PICK k : k = h[p]
    OBVIOUS
  <2>8. SumFunctionOnSet(k, listed) \in Int
    BY <1>1, <2>6, <2>7, SumInt
  <2>9. take[p] \in Int
    BY <2>5, <2>7, <2>8
  <2>10. w.purse[p] = StartGold - take[p]
    BY <2>2, <2>3, <2>4, <2>5
  <2>11. w.post[p] = 0
    BY <1>2
  <2> QED BY <2>9, <2>10, <2>11
<1>5. \A l \in listed : staked[l] = Staked(bidder, l) /\ Staked(bidder, l) \in Nat
  <2>1. SUFFICES ASSUME NEW l \in listed PROVE staked[l] = Staked(bidder, l) /\ Staked(bidder, l) \in Nat
    OBVIOUS
  <2>2. [p \in Players |-> h[p][l]] = [p \in Players |-> Taken(owner, bidder, p, l)]
    OBVIOUS
  <2>3. /\ SumFunctionOnSet([p \in Players |-> Taken(owner, bidder, p, l)], Players) = Staked(bidder, l)
        /\ Staked(bidder, l) \in Nat
    BY TakenSum
  <2>4. staked[l] = SumFunctionOnSet([p \in Players |-> h[p][l]], Players)
    OBVIOUS
  <2> QED BY <2>2, <2>3, <2>4
<1>6. SumFunctionOnSet(take, Players) = SumFunctionOnSet(staked, listed)
  <2>1. PICK k : k = h
    OBVIOUS
  <2>2. \A p \in Players, l \in listed : k[p][l] \in Int
    BY <1>3, <2>1
  <2>3. SumFunctionOnSet([p \in Players |-> SumFunctionOnSet(k[p], listed)], Players)
          = SumFunctionOnSet([l \in listed |-> SumFunctionOnSet([p \in Players |-> k[p][l]], Players)], listed)
    BY <1>1, <2>2, SumSwap
  <2> QED BY <2>1, <2>3
<1>7. Gold(w) = SumFunctionOnSet(gold, Players) /\ Stakes(w) = SumFunctionOnSet(value, Lots)
  BY DEF Gold, Stakes, SumFunction
<1>8. \A p \in Players : gold[p] \in Int /\ all[p] = gold[p] + take[p]
  <2>1. \A p \in Players : w.purse[p] \in Nat /\ w.post[p] \in Nat /\ gold[p] = w.purse[p] + w.post[p]
    BY WorldFacts
  <2>2. \A p \in Players : all[p] = StartGold
    OBVIOUS
  <2> HIDE DEF gold, take, all
  <2> QED BY <1>1, <1>4, <2>1, <2>2
<1>9. SumFunctionOnSet(value, Lots) = SumFunctionOnSet(staked, listed)
  <2>1. \A l \in Lots : value[l] = IF l \in listed THEN Staked(bidder, l) ELSE 0
    <3>1. SUFFICES ASSUME NEW l \in Lots PROVE value[l] = IF l \in listed THEN Staked(bidder, l) ELSE 0
      OBVIOUS
    <3>2. CASE l \in listed
      <4>1. w.row[l].owner = owner[l] /\ w.row[l].bid = IF bidder[l] = Nobody THEN 0 ELSE StartBid[l]
        BY <1>2, <3>2
      <4>2. owner[l] # Nobody
        BY NobodyAssumption
      <4> QED BY <3>2, <4>1, <4>2 DEF Value, Staked
    <3>3. CASE l \notin listed
      BY <1>2, <3>3 DEF Value, NoRow
    <3> QED BY <3>2, <3>3
  <2> HIDE DEF value, staked
  <2>2. SumFunctionOnSet(value, Lots) = SumFunctionOnSet(value, listed)
    <3>1. (\A l \in listed : value[l] \in Int) /\ \A l \in Lots \ listed : value[l] = 0
      BY <1>5, <2>1
    <3> QED BY <1>1, <3>1, SumWithin
  <2>3. SumFunctionOnSet(value, listed) = SumFunctionOnSet(staked, listed)
    <3>1. \A l \in listed : value[l] = staked[l]
      BY <1>5, <2>1
    <3> QED BY <1>1, <3>1, SumAgree
  <2> QED BY <2>2, <2>3
<1>10. \A p \in Players : take[p] \in Int /\ all[p] = StartGold
  BY <1>4
<1> HIDE DEF h, take, staked, gold, all, value
<1>11. SumFunctionOnSet(all, Players) = SumFunctionOnSet(gold, Players) + SumFunctionOnSet(take, Players)
  BY <1>1, <1>8, <1>10, SumPlus
<1>12. SumFunctionOnSet(all, Players) = StartWorth
  BY <1>1, <1>10, SumConstant DEF StartWorth
<1>13. Worth(w) = Gold(w) + Stakes(w)
  BY WorthIs
<1> QED BY <1>6, <1>7, <1>9, <1>11, <1>12, <1>13

LEMMA InitGold == Init => GoldInv
<1>1. SUFFICES ASSUME Init PROVE GoldInv
  OBVIOUS
<1>2. /\ db \in World /\ mem = db /\ queue = <<>> /\ callbacks = Empty /\ DOMAIN callbacks = {}
      /\ leaves = 0 /\ faults = 0 /\ drops = 0
  BY <1>1, InitFacts
<1>3. Worth(db) = StartWorth
  <2>1. PICK owner \in [Lots -> Players], bidder \in [Lots -> Players \cup {Nobody}],
             listed \in SUBSET Lots :
               db = LoadAuctions(owner, bidder, listed)
    BY <1>1, InitTables
  <2>2. PICK w \in World : w = db
    BY <1>2
  <2>3. Worth(w) = StartWorth
    BY <2>1, <2>2, StartIsWorth
  <2> QED BY <2>2, <2>3
<1>4. db \in Rich
  BY <1>2, <1>3, FinitePlayers DEF Rich
<1>5. PICK w \in Rich : w = db
  BY <1>4
<1>6. Ends(w)
  BY <1>2, <1>5, TraceEmpty DEF Ends
<1>7. Awaited = {} /\ \A l : Registers(l) = {}
  BY <1>2 DEF Awaited, Registers
<1>8. Pending = 0
  <2>1. PICK f : f = [g \in Awaited |-> Mailed(callbacks[g].pays.mail)]
    OBVIOUS
  <2>2. SumFunction(f) = SumFunctionOnSet(f, {})
    BY <1>7, <2>1 DEF SumFunction
  <2> QED BY <2>1, <2>2, SumEmpty DEF Pending
<1>9. Follows(w)
  <2>1. SameGold(w) /\ \A l \in Lots : SameRow(w, l)
    BY <1>2, <1>5, <1>7 DEF SameGold, SameRow
  <2>2. Worth(w) + Pending <= StartWorth
    BY <1>3, <1>5, <1>8, FinitePlayers
  <2> QED BY <2>1, <2>2 DEF Follows
<1> QED BY <1>2, <1>5, <1>6, <1>9 DEF GoldInv

LEMMA GoldNext ==
    ASSUME TypeInv, TypeInv', LotsInv, GoldInv, [Next]_vars
    PROVE  GoldInv'
<1>1. SUFFICES ASSUME faults' = 0, drops' = 0
               PROVE  /\ \A f \in DOMAIN callbacks' : callbacks'[f].answer # "false"
                      /\ \E x \in Rich : Ends(x)' /\ Follows(x)'
  BY WorthPrimed DEF GoldInv
<1>2. CASE UNCHANGED vars
  <2>1. /\ UNCHANGED <<mem, db, queue, session, callbacks, sales, leaves, faults, drops>>
    BY <1>2 DEF vars
  <2>2. PICK w \in Rich : Ends(w) /\ Follows(w)
    BY <1>1, <2>1 DEF GoldInv
  <2>3. Ends(w)'
    BY <2>1, <2>2, EndsStays
  <2>4. Pending' = Pending /\ \A l : Registers(l)' = Registers(l)
    BY <2>1 DEF Pending, Registers, Awaited
  <2>5. \A l \in Lots : SameRow(w, l)'
    <3>1. ASSUME NEW l \in Lots PROVE SameRow(w, l)'
      <4>1. SameRow(w, l) /\ \A f \in Registers(l) : callbacks'[f].register = callbacks[f].register
        BY <2>1, <2>2 DEF Follows
      <4> QED BY <2>1, <2>4, <4>1, SameRowStays
    <3> QED BY <3>1
  <2>6. SameGold(w)' /\ (Worth(w) + Pending <= StartWorth)'
    BY <2>1, <2>2, <2>4, WorthPrimed DEF Follows, SameGold
  <2>7. Follows(w)'
    BY <2>5, <2>6 DEF Follows
  <2>8. \A f \in DOMAIN callbacks' : callbacks'[f].answer # "false"
    BY <1>1, <2>1 DEF GoldInv
  <2> QED BY <2>3, <2>7, <2>8
<1>3. CASE Fail \/ Drop
  BY <1>1, <1>3 DEF Fail, Drop, TypeInv
<1>4. ASSUME faults = 0, drops = 0, NEW w \in Rich, Ends(w), Follows(w), NEW p \in Players, NEW l \in Lots, SellItem(p, l)
      PROVE  \A f \in DOMAIN callbacks' : callbacks'[f].answer # "false"
  <2>1. FreeFuture /\ Await(p, Only(l, Sale(p)), Nothing)
    BY <1>4, SellSends
  <2>2. Only(l, Sale(p)) \in Partial(Lots, Offer) /\ Nothing \in Payment
    BY OnlyType, RowType, NothingType
  <2>3. /\ \A f \in DOMAIN callbacks : callbacks'[f] = callbacks[f]
        /\ DOMAIN callbacks' = DOMAIN callbacks \cup {NewFuture} /\ callbacks'[NewFuture].answer = "none"
    BY <2>1, <2>2, AwaitPending
  <2> QED BY <1>4, <2>3 DEF GoldInv
<1>5. ASSUME faults = 0, drops = 0, NEW w \in Rich, Ends(w), Follows(w), NEW p \in Players, NEW l \in Lots,
             NEW price \in Prices, PlaceBid(p, l, price)
      PROVE  \A f \in DOMAIN callbacks' : callbacks'[f].answer # "false"
  <2>1. FreeFuture /\ Await(p, Empty, BidPays(p, l, price))
    BY <1>5, BidSends
  <2>2. Empty \in Partial(Lots, Offer) /\ BidPays(p, l, price) \in Payment
    BY <1>5, OnlyType, BidType
  <2>3. /\ \A f \in DOMAIN callbacks : callbacks'[f] = callbacks[f]
        /\ DOMAIN callbacks' = DOMAIN callbacks \cup {NewFuture} /\ callbacks'[NewFuture].answer = "none"
    BY <2>1, <2>2, AwaitPending
  <2> QED BY <1>5, <2>3 DEF GoldInv
<1>6. ASSUME Next, ~Fail, ~Drop
      PROVE  /\ \A f \in DOMAIN callbacks' : callbacks'[f].answer # "false"
             /\ \E x \in Rich : Ends(x)' /\ Follows(x)'
  <2>1. CASE \E p \in Players, l \in Lots : SellItem(p, l)
    <3>1. PICK p \in Players, l \in Lots : SellItem(p, l)
      BY <2>1
    <3>2. faults = 0 /\ drops = 0
      BY <1>1, <3>1, SellSends
    <3>3. PICK w \in Rich : Ends(w) /\ Follows(w)
      BY <3>2 DEF GoldInv
    <3>4. \A f \in DOMAIN callbacks' : callbacks'[f].answer # "false"
      BY <1>4, <3>1, <3>2, <3>3
    <3>5. \E x \in Rich : Ends(x)' /\ Follows(x)'
      BY <3>1, <3>2, <3>3, SellGold
    <3> QED BY <3>4, <3>5
  <2>2. CASE \E p \in Players, l \in Lots : \E price \in Prices : PlaceBid(p, l, price)
    <3>1. PICK p \in Players, l \in Lots, price \in Prices : PlaceBid(p, l, price)
      BY <2>2
    <3>2. faults = 0 /\ drops = 0
      BY <1>1, <3>1, BidSends
    <3>3. PICK w \in Rich : Ends(w) /\ Follows(w)
      BY <3>2 DEF GoldInv
    <3>4. \A f \in DOMAIN callbacks' : callbacks'[f].answer # "false"
      BY <1>5, <3>1, <3>2, <3>3
    <3>5. \E x \in Rich : Ends(x)' /\ Follows(x)'
      BY <3>1, <3>2, <3>3, BidGold
    <3> QED BY <3>4, <3>5
  <2>3. CASE \E p, l, ended, t : Plain(p, l, ended, t)
    <3>1. PICK p, l, ended, t : Plain(p, l, ended, t)
      BY <2>3
    <3>2. callbacks' = callbacks /\ faults = 0 /\ drops = 0
      BY <1>1, <3>1, PlainSteps
    <3>3. PICK w \in Rich : Ends(w) /\ Follows(w)
      BY <3>2 DEF GoldInv
    <3>4. \A f \in DOMAIN callbacks' : callbacks'[f].answer # "false"
      BY <3>2 DEF GoldInv
    <3>5. \E x \in Rich : Ends(x)' /\ Follows(x)'
      BY <3>1, <3>2, <3>3, PlainGold
    <3> QED BY <3>4, <3>5
  <2>4. CASE \E f \in DOMAIN callbacks : ProcessCallback(f)
    <3>1. PICK f \in DOMAIN callbacks : ProcessCallback(f)
      BY <2>4
    <3>2. faults = 0 /\ drops = 0 /\ callbacks' = Restrict(callbacks, DOMAIN callbacks \ {f})
      BY <1>1, <3>1, CallbackSteps
    <3>3. PICK w \in Rich : Ends(w) /\ Follows(w)
      BY <3>2 DEF GoldInv
    <3>4. \A g \in DOMAIN callbacks : callbacks[g].answer # "false"
      BY <3>2 DEF GoldInv
    <3>5. /\ DOMAIN callbacks' = DOMAIN callbacks \ {f}
          /\ \A g \in DOMAIN callbacks' : callbacks'[g] = callbacks[g]
      BY <3>2, RestrictFacts
    <3>6. \A g \in DOMAIN callbacks' : callbacks'[g].answer # "false"
      BY <3>4, <3>5
    <3>7. \E x \in Rich : Ends(x)' /\ Follows(x)'
      BY <3>1, <3>2, <3>3, <3>4, CallbackGold
    <3> QED BY <3>6, <3>7
  <2>5. CASE Commit
    <3>1. faults = 0 /\ drops = 0 /\ queue # <<>> /\ callbacks' = Answer(Head(queue).asks, "true")
      BY <1>1, <2>5 DEF Commit
    <3>2. PICK w \in Rich : Ends(w) /\ Follows(w)
      BY <3>1 DEF GoldInv
    <3>3. \A f \in DOMAIN callbacks' : callbacks'[f].answer # "false"
      <4>1. /\ DOMAIN callbacks' = DOMAIN callbacks
            /\ \A f \in DOMAIN callbacks :
                 callbacks'[f].answer = IF f = Head(queue).asks THEN "true" ELSE callbacks[f].answer
        BY <3>1, AnswerFacts
      <4> QED BY <3>1, <4>1 DEF GoldInv
    <3>4. \E x \in Rich : Ends(x)' /\ Follows(x)'
      BY <2>5, <3>2, CommitGold
    <3> QED BY <3>3, <3>4
  <2>6. CASE \E p \in Players : Leave(p)
    <3>1. PICK p \in Players : Leave(p)
      BY <2>6
    <3>2. /\ faults = 0 /\ drops = 0 /\ DOMAIN callbacks' \subseteq DOMAIN callbacks
          /\ \A f \in DOMAIN callbacks' : callbacks'[f] = callbacks[f]
      BY <1>1, <3>1, LeaveFacts, ZenonT(60)
    <3>3. PICK w \in Rich : Ends(w) /\ Follows(w)
      BY <3>2 DEF GoldInv
    <3>4. \A f \in DOMAIN callbacks' : callbacks'[f].answer # "false"
      BY <3>2 DEF GoldInv
    <3>5. \E x \in Rich : Ends(x)' /\ Follows(x)'
      BY <3>1, <3>3, LeaveGold
    <3> QED BY <3>4, <3>5
  <2>7. CASE \E p \in Players : Return(p)
    <3>1. PICK p \in Players : Return(p)
      BY <2>7
    <3>2. faults = 0 /\ drops = 0 /\ callbacks' = callbacks
      BY <1>1, <3>1, ReturnFacts
    <3>3. PICK w \in Rich : Ends(w) /\ Follows(w)
      BY <3>2 DEF GoldInv
    <3>4. \A f \in DOMAIN callbacks' : callbacks'[f].answer # "false"
      BY <3>2 DEF GoldInv
    <3>5. \E x \in Rich : Ends(x)' /\ Follows(x)'
      BY <3>1, <3>2, <3>3, ReturnGold
    <3> QED BY <3>4, <3>5
  <2> QED BY <1>6, <2>1, <2>2, <2>3, <2>4, <2>5, <2>6, <2>7, NextCases
<1> QED BY <1>2, <1>3, <1>6

LEMMA GoldAlways == Spec => [](TypeInv /\ LotsInv /\ GoldInv)
<1>1. Init => GoldInv
  BY InitGold
<1>2. TypeInv /\ TypeInv' /\ LotsInv /\ GoldInv /\ [Next]_vars => GoldInv'
  BY GoldNext
<1> QED BY <1>1, <1>2, LotAlways, PTL DEF Spec

\* At the end of an empty trace is what is at its start.
LEMMA GoldSuffices ==
    ASSUME GoldInv, LotsInv, TypeInv
    PROVE  Flushed /\ DurableSound
<1>1. drops = 0 => \A l \in Lots : Places(db, l) <= 1
  BY OneItemSuffices
<1>2. ASSUME faults = 0, drops = 0 PROVE Worth(db) <= StartWorth
  <2>1. PICK w \in Rich : Ends(w)
    BY <1>2 DEF GoldInv
  <2>2. PICK h : Trace(h, queue, Rich, Saves, db, w)
    BY <2>1 DEF Ends
  <2>3. Len(queue) \in Nat
    BY DEF TypeInv
  <2>4. db \in Rich
    BY <2>2, <2>3 DEF Trace
  <2> QED BY <2>4 DEF Rich
<1>3. ASSUME queue = <<>>, faults = 0, drops = 0
      PROVE  /\ db.purse = mem.purse /\ db.post = mem.post
             /\ db.bag = mem.bag /\ db.parcel = mem.parcel
             /\ \A l \in Lots : db.row[l] # mem.row[l] =>
                  /\ ~Listed(mem, l) /\ db.row[l].bidder = Nobody
                  /\ Registers(l) # {} \/ leaves > 0
  <2>1. PICK w \in Rich : Ends(w) /\ Follows(w)
    BY <1>3 DEF GoldInv
  <2>2. PICK h : Trace(h, queue, Rich, Saves, db, w)
    BY <2>1 DEF Ends
  <2>3. w = db
    <3>1. Len(queue) = 0
      BY <1>3
    <3> QED BY <2>2, <3>1 DEF Trace
  <2>4. SameGold(w) /\ \A l \in Lots : SameRow(w, l)
    BY <2>1 DEF Follows
  <2> QED BY <2>3, <2>4 DEF SameGold, SameRow
<1>4. Flushed
  BY <1>3 DEF Flushed
<1>5. DurableSound
  BY <1>1, <1>2 DEF DurableSound, StartWorth
<1> QED BY <1>4, <1>5

\* When the database has caught up and no transaction failed it holds what the
\* world holds, but for an auction that its seller's callback has still to
\* register or lost.
THEOREM FlushedAlways == Spec => []Flushed
  BY GoldAlways, GoldSuffices, PTL

\* Whenever the process dies, the tables hold every item at most once, unless a
\* transaction that nobody waited for failed, and no gold that was not there at
\* the start, unless any transaction did.
THEOREM DurableAlways == Spec => []DurableSound
  BY GoldAlways, GoldSuffices, PTL

----------------------------------------------------------------------------
(* The ledger.  Who has an item, and what a player has or is owed, of a     *)
(* world in memory and of the callbacks that wait.                          *)

AwaitedIn(c) == {f \in DOMAIN c : c[f].answer # "false"}
RegistersIn(c, l) == {f \in AwaitedIn(c) : l \in DOMAIN c[f].register}
ParcelsIn(c, l) == {f \in AwaitedIn(c) : l \in DOMAIN c[f].pays.parcel}
OwedIn(c, p) == SumFunction([f \in AwaitedIn(c) |-> c[f].pays.mail[p]])

HolderIn(w, c, l) ==
    IF w.bag[l] # Nobody THEN w.bag[l]
    ELSE IF w.parcel[l] # Nobody THEN w.parcel[l]
    ELSE IF ParcelsIn(c, l) # {} THEN c[Pick(ParcelsIn(c, l))].pays.parcel[l]
    ELSE Nobody

RowIn(w, c, l) ==
    IF RegistersIn(c, l) # {} THEN c[Pick(RegistersIn(c, l))].register[l]
    ELSE w.row[l]

LotIn(w, c, l) ==
    LET a == RowIn(w, c, l)
        listed == a.owner # Nobody
    IN  [owner |-> IF listed THEN a.owner ELSE HolderIn(w, c, l), listed |-> listed,
         bidder |-> a.bidder, bid |-> a.bid]

LEMMA LedgerIs ==
    /\ Awaited = AwaitedIn(callbacks) /\ (Awaited = AwaitedIn(callbacks))'
    /\ \A l : /\ Registers(l) = RegistersIn(callbacks, l) /\ Registers(l)' = RegistersIn(callbacks', l)
              /\ Parcels(l) = ParcelsIn(callbacks, l) /\ Parcels(l)' = ParcelsIn(callbacks', l)
    /\ LotOf = [l \in Lots |-> LotIn(mem, callbacks, l)]
    /\ LotOf' = [l \in Lots |-> LotIn(mem', callbacks', l)]
    /\ PurseOf = [p \in Players |-> mem.purse[p] + mem.post[p] + OwedIn(callbacks, p)]
    /\ PurseOf' = [p \in Players |-> mem'.purse[p] + mem'.post[p] + OwedIn(callbacks', p)]
<1>1. /\ Awaited = AwaitedIn(callbacks)
      /\ \A l : Registers(l) = RegistersIn(callbacks, l) /\ Parcels(l) = ParcelsIn(callbacks, l)
  BY DEF Awaited, AwaitedIn, Registers, RegistersIn, Parcels, ParcelsIn
<1>2. /\ Awaited' = AwaitedIn(callbacks')
      /\ \A l : Registers(l)' = RegistersIn(callbacks', l) /\ Parcels(l)' = ParcelsIn(callbacks', l)
  BY DEF Awaited, AwaitedIn, Registers, RegistersIn, Parcels, ParcelsIn
<1>3. \A l : RowOf(l) = RowIn(mem, callbacks, l) /\ HolderOf(l) = HolderIn(mem, callbacks, l)
  <2> SUFFICES ASSUME NEW l
               PROVE  /\ RowOf(l) = RowIn(mem, callbacks, l)
                      /\ HolderOf(l) = HolderIn(mem, callbacks, l)
    OBVIOUS
  <2>1. RowOf(l) = IF Registers(l) # {} THEN callbacks[Pick(Registers(l))].register[l]
                   ELSE mem.row[l]
    BY Zenon DEF RowOf, Pick
  <2>2. HolderOf(l) =
          IF mem.bag[l] # Nobody THEN mem.bag[l]
          ELSE IF mem.parcel[l] # Nobody THEN mem.parcel[l]
          ELSE IF Parcels(l) # {} THEN callbacks[Pick(Parcels(l))].pays.parcel[l]
          ELSE Nobody
    BY Zenon DEF HolderOf, Pick
  <2>3. Registers(l) = RegistersIn(callbacks, l) /\ Parcels(l) = ParcelsIn(callbacks, l)
    BY <1>1
  <2>4. RowOf(l) = RowIn(mem, callbacks, l)
    BY <2>1, <2>3, Zenon DEF RowIn
  <2>5. HolderOf(l) = HolderIn(mem, callbacks, l)
    BY <2>2, <2>3, Zenon DEF HolderIn
  <2> QED BY <2>4, <2>5
<1>4. \A l : RowOf(l)' = RowIn(mem', callbacks', l) /\ HolderOf(l)' = HolderIn(mem', callbacks', l)
  <2> SUFFICES ASSUME NEW l
               PROVE  /\ RowOf(l)' = RowIn(mem', callbacks', l)
                      /\ HolderOf(l)' = HolderIn(mem', callbacks', l)
    OBVIOUS
  <2>1. RowOf(l)' = IF Registers(l)' # {} THEN callbacks'[Pick(Registers(l)')].register[l]
                   ELSE mem'.row[l]
    BY Zenon DEF RowOf, Pick
  <2>2. HolderOf(l)' =
          IF mem'.bag[l] # Nobody THEN mem'.bag[l]
          ELSE IF mem'.parcel[l] # Nobody THEN mem'.parcel[l]
          ELSE IF Parcels(l)' # {} THEN callbacks'[Pick(Parcels(l)')].pays.parcel[l]
          ELSE Nobody
    BY Zenon DEF HolderOf, Pick
  <2>3. Registers(l)' = RegistersIn(callbacks', l) /\ Parcels(l)' = ParcelsIn(callbacks', l)
    BY <1>2
  <2>4. RowOf(l)' = RowIn(mem', callbacks', l)
    BY <2>1, <2>3, Zenon DEF RowIn
  <2>5. HolderOf(l)' = HolderIn(mem', callbacks', l)
    BY <2>2, <2>3, Zenon DEF HolderIn
  <2> QED BY <2>4, <2>5
<1>5. LotOf = [l \in Lots |-> LotIn(mem, callbacks, l)]
  BY <1>3, Zenon DEF LotOf, LotIn
<1>6. LotOf' = [l \in Lots |-> LotIn(mem', callbacks', l)]
  BY <1>4, Zenon DEF LotOf, LotIn
<1>7. PurseOf = [p \in Players |-> mem.purse[p] + mem.post[p] + OwedIn(callbacks, p)]
  BY <1>1, Zenon DEF PurseOf, Owed, OwedIn
<1>8. PurseOf' = [p \in Players |-> mem'.purse[p] + mem'.post[p] + OwedIn(callbacks', p)]
  BY <1>2, Zenon DEF PurseOf, Owed, OwedIn
<1>9. (Awaited = AwaitedIn(callbacks))'
  BY <1>2 DEF AwaitedIn
<1> QED BY <1>1, <1>2, <1>5, <1>6, <1>7, <1>8, <1>9

\* The entry of an item, by where it is.
LEMMA EntryCases ==
    ASSUME NEW w, NEW c, NEW l
    PROVE  /\ RegistersIn(c, l) = {} /\ w.row[l].owner # Nobody =>
                LotIn(w, c, l) = Ledger!Listed(w.row[l].owner, w.row[l].bidder, w.row[l].bid)
           /\ RegistersIn(c, l) = {} /\ w.row[l] = NoRow =>
                /\ w.bag[l] # Nobody => LotIn(w, c, l) = Ledger!Owned(w.bag[l])
                /\ w.bag[l] = Nobody /\ w.parcel[l] # Nobody =>
                     LotIn(w, c, l) = Ledger!Owned(w.parcel[l])
                /\ w.bag[l] = Nobody /\ w.parcel[l] = Nobody /\ ParcelsIn(c, l) = {} =>
                     LotIn(w, c, l) = Ledger!Missing
                /\ \A f : w.bag[l] = Nobody /\ w.parcel[l] = Nobody /\ ParcelsIn(c, l) = {f} =>
                     LotIn(w, c, l) = Ledger!Owned(c[f].pays.parcel[l])
           /\ \A f : RegistersIn(c, l) = {f} /\ c[f].register[l].owner # Nobody =>
                LotIn(w, c, l) = Ledger!Listed(c[f].register[l].owner, c[f].register[l].bidder,
                                               c[f].register[l].bid)
<1>0. \A f : Pick({f}) = f
  BY DEF Pick
<1>1. ASSUME RegistersIn(c, l) = {}, w.row[l].owner # Nobody
      PROVE  LotIn(w, c, l) = Ledger!Listed(w.row[l].owner, w.row[l].bidder, w.row[l].bid)
  <2>1. RowIn(w, c, l) = w.row[l]
    BY <1>1 DEF RowIn
  <2> QED BY <1>1, <2>1 DEF LotIn, Ledger!Listed
<1>2. ASSUME RegistersIn(c, l) = {}, w.row[l] = NoRow
      PROVE  LotIn(w, c, l) = Ledger!Owned(HolderIn(w, c, l))
  <2>1. RowIn(w, c, l) = NoRow
    BY <1>2 DEF RowIn
  <2>2. NoRow.owner = Nobody /\ NoRow.bidder = Nobody /\ NoRow.bid = 0
    BY DEF NoRow
  <2> QED BY <2>1, <2>2 DEF LotIn, Ledger!Owned
<1>3. /\ w.bag[l] # Nobody => HolderIn(w, c, l) = w.bag[l]
      /\ w.bag[l] = Nobody /\ w.parcel[l] # Nobody => HolderIn(w, c, l) = w.parcel[l]
      /\ w.bag[l] = Nobody /\ w.parcel[l] = Nobody /\ ParcelsIn(c, l) = {} =>
           HolderIn(w, c, l) = Nobody
  BY DEF HolderIn
<1>4. ASSUME NEW f, w.bag[l] = Nobody, w.parcel[l] = Nobody, ParcelsIn(c, l) = {f}
      PROVE  HolderIn(w, c, l) = c[f].pays.parcel[l]
  BY <1>0, <1>4, Zenon DEF HolderIn
<1>5. ASSUME NEW f, RegistersIn(c, l) = {f}, c[f].register[l].owner # Nobody
      PROVE  LotIn(w, c, l) = Ledger!Listed(c[f].register[l].owner, c[f].register[l].bidder,
                                            c[f].register[l].bid)
  <2>1. RowIn(w, c, l) = c[f].register[l]
    BY <1>0, <1>5, Zenon DEF RowIn
  <2> QED BY <1>5, <2>1 DEF LotIn, Ledger!Listed
<1> QED BY <1>1, <1>2, <1>3, <1>4, <1>5 DEF Ledger!Missing

\* Nothing about the item changes.
LEMMA EntrySame ==
    ASSUME NEW w, NEW v, NEW c, NEW d, NEW l,
           v.bag[l] = w.bag[l], v.parcel[l] = w.parcel[l], v.row[l] = w.row[l],
           RegistersIn(d, l) = RegistersIn(c, l), ParcelsIn(d, l) = ParcelsIn(c, l),
           \A f \in RegistersIn(c, l) : d[f].register = c[f].register,
           \A f \in ParcelsIn(c, l) : d[f].pays = c[f].pays
    PROVE  LotIn(v, d, l) = LotIn(w, c, l)
<1>1. RowIn(v, d, l) = RowIn(w, c, l)
  <2>1. CASE RegistersIn(c, l) = {}
    BY <2>1 DEF RowIn
  <2>2. CASE RegistersIn(c, l) # {}
    <3>1. Pick(RegistersIn(c, l)) \in RegistersIn(c, l)
      BY <2>2 DEF Pick
    <3>2. d[Pick(RegistersIn(c, l))].register = c[Pick(RegistersIn(c, l))].register
      BY <3>1
    <3> QED BY <2>2, <3>2, Zenon DEF RowIn
  <2> QED BY <2>1, <2>2
<1>2. HolderIn(v, d, l) = HolderIn(w, c, l)
  <2>1. CASE ParcelsIn(c, l) = {}
    BY <2>1 DEF HolderIn
  <2>2. CASE ParcelsIn(c, l) # {}
    <3>1. Pick(ParcelsIn(c, l)) \in ParcelsIn(c, l)
      BY <2>2 DEF Pick
    <3>2. d[Pick(ParcelsIn(c, l))].pays = c[Pick(ParcelsIn(c, l))].pays
      BY <3>1
    <3> QED BY <2>2, <3>2, Zenon DEF HolderIn
  <2> QED BY <2>1, <2>2
<1> QED BY <1>1, <1>2, Zenon DEF LotIn

\* Sums of which one has more members than the other.
LEMMA SumsCompare ==
    ASSUME NEW a, NEW b, IsFiniteSet(DOMAIN a), DOMAIN b \subseteq DOMAIN a,
           \A f \in DOMAIN a : a[f] \in Nat, \A f \in DOMAIN b : b[f] = a[f]
    PROVE  /\ SumFunction(a) \in Nat /\ SumFunction(b) \in Nat /\ SumFunction(b) <= SumFunction(a)
           /\ \A g : g \in DOMAIN a /\ DOMAIN b = DOMAIN a \ {g}
                        => SumFunction(a) = SumFunction(b) + a[g]
<1> DEFINE A == DOMAIN a
           B == DOMAIN b
           c == [f \in A |-> IF f \in B THEN a[f] ELSE 0]
<1>1. IsFiniteSet(B)
  BY FS_Subset
<1>2. /\ SumFunction(a) = SumFunctionOnSet(a, A) /\ SumFunction(b) = SumFunctionOnSet(b, B)
  BY DEF SumFunction
<1>3. SumFunctionOnSet(a, B) = SumFunctionOnSet(b, B)
  BY <1>1, SumAgree
<1>4. SumFunctionOnSet(a, A) \in Nat /\ SumFunctionOnSet(b, B) \in Nat
  <2>1. \A f \in B : b[f] \in Nat
    OBVIOUS
  <2> QED BY <1>1, <2>1, SumNat
<1>5. SumFunctionOnSet(b, B) <= SumFunctionOnSet(a, A)
  <2>1. /\ \A f \in A : a[f] \in Int /\ c[f] \in Int /\ c[f] <= a[f]
        /\ \A f \in B : c[f] \in Int /\ c[f] = a[f]
        /\ \A f \in A \ B : c[f] = 0
    OBVIOUS
  <2>0. B \in SUBSET A
    OBVIOUS
  <2> HIDE DEF c
  <2>2. SumFunctionOnSet(c, A) <= SumFunctionOnSet(a, A)
    BY <2>1, SumLeq
  <2>3. SumFunctionOnSet(c, A) = SumFunctionOnSet(c, B)
    BY <2>0, <2>1, SumWithin
  <2>4. SumFunctionOnSet(c, B) = SumFunctionOnSet(b, B)
    <3>1. \A f \in B : c[f] = b[f]
      BY <2>1
    <3> QED BY <1>1, <3>1, SumAgree
  <2> QED BY <2>2, <2>3, <2>4
<1>6. ASSUME NEW g \in A, B = A \ {g}
      PROVE  SumFunctionOnSet(a, A) = SumFunctionOnSet(b, B) + a[g]
  <2>1. \A f \in A : a[f] \in Int
    OBVIOUS
  <2>2. SumFunctionOnSet(a, A) = a[g] + SumFunctionOnSet(a, B)
    BY <1>6, <2>1, SumTake
  <2> QED BY <1>3, <1>4, <2>1, <2>2
<1> QED BY <1>2, <1>4, <1>5, <1>6

\* What a player is owed, when nothing changes but that one callback less counts.
LEMMA OwedCompare ==
    ASSUME NEW c, NEW d, IsFiniteSet(DOMAIN c),
           \A f \in DOMAIN c : c[f].pays.mail \in [Players -> Nat],
           AwaitedIn(d) \subseteq AwaitedIn(c), \A f \in AwaitedIn(d) : d[f].pays = c[f].pays,
           NEW p \in Players
    PROVE  /\ OwedIn(c, p) \in Nat /\ OwedIn(d, p) \in Nat /\ OwedIn(d, p) <= OwedIn(c, p)
           /\ AwaitedIn(d) = AwaitedIn(c) => OwedIn(d, p) = OwedIn(c, p)
           /\ \A g : g \in AwaitedIn(c) /\ AwaitedIn(d) = AwaitedIn(c) \ {g}
                        => OwedIn(c, p) = OwedIn(d, p) + c[g].pays.mail[p]
<1> DEFINE a == [f \in AwaitedIn(c) |-> c[f].pays.mail[p]]
           b == [f \in AwaitedIn(d) |-> d[f].pays.mail[p]]
<1>1. DOMAIN a = AwaitedIn(c) /\ DOMAIN b = AwaitedIn(d) /\ IsFiniteSet(DOMAIN a)
  <2>1. AwaitedIn(c) \subseteq DOMAIN c
    BY DEF AwaitedIn
  <2> QED BY <2>1, FS_Subset
<1>2. \A f \in AwaitedIn(c) : a[f] = c[f].pays.mail[p] /\ a[f] \in Nat
  BY DEF AwaitedIn
<1>3. \A f \in AwaitedIn(d) : b[f] = a[f]
  OBVIOUS
<1>4. OwedIn(c, p) = SumFunction(a) /\ OwedIn(d, p) = SumFunction(b)
  BY DEF OwedIn
<1>5. AwaitedIn(d) = AwaitedIn(c) => b = a
  BY <1>3
<1> HIDE DEF a, b
<1>6. /\ SumFunction(a) \in Nat /\ SumFunction(b) \in Nat /\ SumFunction(b) <= SumFunction(a)
      /\ \A g : g \in DOMAIN a /\ DOMAIN b = DOMAIN a \ {g}
                   => SumFunction(a) = SumFunction(b) + a[g]
  BY <1>1, <1>2, <1>3, SumsCompare
<1> QED BY <1>1, <1>2, <1>4, <1>5, <1>6

\* The purse of the ledger, and who has what, now and after the step.
LEMMA PurseAt ==
    ASSUME TypeInv, NEW p \in Players
    PROVE  /\ mem.purse[p] \in Nat /\ mem.post[p] \in Nat /\ OwedIn(callbacks, p) \in Nat
           /\ PurseOf[p] = mem.purse[p] + mem.post[p] + OwedIn(callbacks, p)
           /\ PurseOf'[p] = mem'.purse[p] + mem'.post[p] + OwedIn(callbacks', p)
<1>1. mem.purse[p] \in Nat /\ mem.post[p] \in Nat
  BY WorldFacts DEF TypeInv
<1>2. IsFiniteSet(DOMAIN callbacks)
  BY FinitePlayers, FS_Subset DEF TypeInv
<1>3. \A f \in DOMAIN callbacks : callbacks[f].pays.mail \in [Players -> Nat]
  BY CallbackFacts
<1>4. OwedIn(callbacks, p) \in Nat
  BY <1>2, <1>3, OwedCompare
<1> QED BY <1>1, <1>4, LedgerIs

Clear == \A l \in Lots : ~Listed(mem, l) => mem.row[l] = NoRow

\* The entry of an item that memory holds, and of one that nobody holds.
LEMMA LotAt ==
    ASSUME TypeInv, LotsInv, Intact, Clear, NEW l \in Lots
    PROVE  /\ LotOf[l] = LotIn(mem, callbacks, l) /\ LotOf'[l] = LotIn(mem', callbacks', l)
           /\ Listed(mem, l) =>
                /\ LotOf[l] = Ledger!Listed(mem.row[l].owner, mem.row[l].bidder, mem.row[l].bid)
                /\ mem.bag[l] = Nobody /\ mem.parcel[l] = Nobody
                /\ RegistersIn(callbacks, l) = {} /\ ParcelsIn(callbacks, l) = {}
           /\ mem.bag[l] # Nobody =>
                /\ LotOf[l] = Ledger!Owned(mem.bag[l])
                /\ mem.parcel[l] = Nobody /\ mem.row[l] = NoRow
                /\ RegistersIn(callbacks, l) = {} /\ ParcelsIn(callbacks, l) = {}
           /\ mem.parcel[l] # Nobody =>
                /\ LotOf[l] = Ledger!Owned(mem.parcel[l])
                /\ mem.bag[l] = Nobody /\ mem.row[l] = NoRow
                /\ RegistersIn(callbacks, l) = {} /\ ParcelsIn(callbacks, l) = {}
<1>1. LotOf[l] = LotIn(mem, callbacks, l) /\ LotOf'[l] = LotIn(mem', callbacks', l)
  BY LedgerIs
<1>2. PICK x \in Place : Agrees(x, l)
  BY DEF LotsInv, LotInv
<1>3. /\ PlaceOf(mem, l).bag = mem.bag[l] /\ PlaceOf(mem, l).parcel = mem.parcel[l]
      /\ PlaceOf(mem, l).owner = mem.row[l].owner
      /\ PlaceOf(mem, l) = Nowhere
           <=> mem.bag[l] = Nobody /\ mem.parcel[l] = Nobody /\ mem.row[l].owner = Nobody
  BY SpotFacts DEF TypeInv
<1>4. Registers(l) = RegistersIn(callbacks, l) /\ Parcels(l) = ParcelsIn(callbacks, l)
  BY LedgerIs
<1>5. ASSUME PlaceOf(mem, l) # Nowhere
      PROVE  /\ x = PlaceOf(mem, l)
             /\ RegistersIn(callbacks, l) = {} /\ ParcelsIn(callbacks, l) = {}
  BY <1>2, <1>4, <1>5, Present
<1>6. CASE Listed(mem, l)
  <2>1. mem.row[l].owner # Nobody
    BY <1>6 DEF Listed
  <2>2. /\ x = PlaceOf(mem, l)
        /\ RegistersIn(callbacks, l) = {} /\ ParcelsIn(callbacks, l) = {}
    BY <1>3, <1>5, <2>1
  <2>3. mem.bag[l] = Nobody /\ mem.parcel[l] = Nobody
    BY <1>2, <1>3, <2>1, <2>2 DEF Place
  <2>4. LotOf[l] = Ledger!Listed(mem.row[l].owner, mem.row[l].bidder, mem.row[l].bid)
    BY <1>1, <2>1, <2>2, EntryCases
  <2> QED BY <1>1, <2>2, <2>3, <2>4
<1>7. CASE ~Listed(mem, l)
  <2>1. mem.row[l] = NoRow
    BY <1>7 DEF Clear
  <2>2. ASSUME mem.bag[l] # Nobody
        PROVE  /\ LotOf[l] = Ledger!Owned(mem.bag[l]) /\ mem.parcel[l] = Nobody
               /\ RegistersIn(callbacks, l) = {} /\ ParcelsIn(callbacks, l) = {}
    <3>1. /\ x = PlaceOf(mem, l)
          /\ RegistersIn(callbacks, l) = {} /\ ParcelsIn(callbacks, l) = {}
      BY <1>3, <1>5, <2>2
    <3>2. mem.parcel[l] = Nobody
      BY <1>2, <1>3, <2>2, <3>1 DEF Place
    <3> QED BY <1>1, <2>1, <2>2, <3>1, <3>2, EntryCases
  <2>3. ASSUME mem.parcel[l] # Nobody
        PROVE  /\ LotOf[l] = Ledger!Owned(mem.parcel[l]) /\ mem.bag[l] = Nobody
               /\ RegistersIn(callbacks, l) = {} /\ ParcelsIn(callbacks, l) = {}
    <3>1. /\ x = PlaceOf(mem, l)
          /\ RegistersIn(callbacks, l) = {} /\ ParcelsIn(callbacks, l) = {}
      BY <1>3, <1>5, <2>3
    <3>2. mem.bag[l] = Nobody
      BY <1>2, <1>3, <2>3, <3>1 DEF Place
    <3> QED BY <1>1, <2>1, <2>3, <3>1, <3>2, EntryCases
  <2> QED BY <1>1, <1>7, <2>1, <2>2, <2>3
<1> QED BY <1>6, <1>7

\* A transaction that does not touch an item leaves its entry as it is.
LEMMA EntryKept ==
    ASSUME TypeInv, NEW u \in Transaction, mem' = Apply(mem, u), NEW l \in Lots, ~Touches(u, l),
           RegistersIn(callbacks', l) = RegistersIn(callbacks, l),
           ParcelsIn(callbacks', l) = ParcelsIn(callbacks, l),
           \A f \in RegistersIn(callbacks, l) : callbacks'[f].register = callbacks[f].register,
           \A f \in ParcelsIn(callbacks, l) : callbacks'[f].pays = callbacks[f].pays
    PROVE  LotIn(mem', callbacks', l) = LotIn(mem, callbacks, l)
<1>1. mem'.bag[l] = mem.bag[l] /\ mem'.parcel[l] = mem.parcel[l] /\ mem'.row[l] = mem.row[l]
  BY ApplyFacts DEF TypeInv, Touches
<1> QED BY <1>1, EntrySame

\* The callbacks after Await.
LEMMA AwaitEntries ==
    ASSUME TypeInv, TypeInv', FreeFuture, NEW p \in Players, NEW register \in Partial(Lots, Offer),
           NEW pays \in Payment, Await(p, register, pays)
    PROVE  /\ \A l : /\ RegistersIn(callbacks', l)
                          = RegistersIn(callbacks, l) \cup {f \in {NewFuture} : l \in DOMAIN register}
                     /\ ParcelsIn(callbacks', l)
                          = ParcelsIn(callbacks, l) \cup {f \in {NewFuture} : l \in DOMAIN pays.parcel}
                     /\ \A f \in RegistersIn(callbacks, l) :
                          callbacks'[f].register = callbacks[f].register
                     /\ \A f \in ParcelsIn(callbacks, l) : callbacks'[f].pays = callbacks[f].pays
           /\ callbacks'[NewFuture].register = register /\ callbacks'[NewFuture].pays = pays
           /\ \A q \in Players : OwedIn(callbacks', q) = OwedIn(callbacks, q) + pays.mail[q]
<1>1. /\ DOMAIN callbacks' = DOMAIN callbacks \cup {NewFuture}
      /\ DOMAIN callbacks' \subseteq Futures
      /\ callbacks' \in [DOMAIN callbacks' -> Callback]
      /\ \A f \in DOMAIN callbacks : callbacks'[f] = callbacks[f]
      /\ callbacks'[NewFuture]
           = [session |-> p, answer |-> "none", register |-> register, pays |-> pays]
  BY AwaitKeeps
<1>2. NewFuture \notin DOMAIN callbacks
  BY NewFutureFree
<1>3. /\ callbacks'[NewFuture].register = register /\ callbacks'[NewFuture].pays = pays
      /\ callbacks'[NewFuture].answer = "none"
  BY <1>1
<1>4. AwaitedIn(callbacks') = AwaitedIn(callbacks) \cup {NewFuture}
  BY <1>1, <1>3 DEF AwaitedIn
<1>5. AwaitedIn(callbacks) \subseteq DOMAIN callbacks
  BY DEF AwaitedIn
<1>6. \A l : /\ RegistersIn(callbacks', l)
                  = RegistersIn(callbacks, l) \cup {f \in {NewFuture} : l \in DOMAIN register}
             /\ ParcelsIn(callbacks', l)
                  = ParcelsIn(callbacks, l) \cup {f \in {NewFuture} : l \in DOMAIN pays.parcel}
  BY <1>1, <1>2, <1>3, <1>4, <1>5 DEF RegistersIn, ParcelsIn
<1>7. \A l : RegistersIn(callbacks, l) \subseteq DOMAIN callbacks
             /\ ParcelsIn(callbacks, l) \subseteq DOMAIN callbacks
  BY <1>5 DEF RegistersIn, ParcelsIn
<1>8. ASSUME NEW q \in Players
      PROVE  OwedIn(callbacks', q) = OwedIn(callbacks, q) + pays.mail[q]
  <2>1. IsFiniteSet(DOMAIN callbacks')
    BY <1>1, FinitePlayers, FS_Subset
  <2>2. \A f \in DOMAIN callbacks' : callbacks'[f].pays.mail \in [Players -> Nat]
    BY <1>1 DEF Callback, Payment
  <2>3. /\ AwaitedIn(callbacks) \subseteq AwaitedIn(callbacks')
        /\ \A f \in AwaitedIn(callbacks) : callbacks[f].pays = callbacks'[f].pays
        /\ AwaitedIn(callbacks) = AwaitedIn(callbacks') \ {NewFuture}
        /\ NewFuture \in AwaitedIn(callbacks')
    BY <1>1, <1>2, <1>4, <1>5
  <2>4. OwedIn(callbacks', q) = OwedIn(callbacks, q) + callbacks'[NewFuture].pays.mail[q]
    <3>1. PICK c : c = callbacks'
      OBVIOUS
    <3>2. PICK g : g = NewFuture
      OBVIOUS
    <3>3. /\ IsFiniteSet(DOMAIN c) /\ \A f \in DOMAIN c : c[f].pays.mail \in [Players -> Nat]
      BY <2>1, <2>2, <3>1
    <3>4. /\ AwaitedIn(callbacks) \subseteq AwaitedIn(c)
          /\ \A f \in AwaitedIn(callbacks) : callbacks[f].pays = c[f].pays
          /\ AwaitedIn(callbacks) = AwaitedIn(c) \ {g} /\ g \in AwaitedIn(c)
      BY <2>3, <3>1, <3>2
    <3>5. \A h : h \in AwaitedIn(c) /\ AwaitedIn(callbacks) = AwaitedIn(c) \ {h}
                    => OwedIn(c, q) = OwedIn(callbacks, q) + c[h].pays.mail[q]
      BY <3>3, <3>4, OwedCompare, ZenonT(60)
    <3>6. OwedIn(c, q) = OwedIn(callbacks, q) + c[g].pays.mail[q]
      BY <3>4, <3>5
    <3> QED BY <3>1, <3>2, <3>6
  <2> QED BY <1>3, <2>4
<1> QED BY <1>1, <1>3, <1>6, <1>7, <1>8

LEMMA LotUpdate ==
    ASSUME NEW m \in Lots, NEW e, LotIn(mem', callbacks', m) = e,
           \A l \in Lots \ {m} : LotIn(mem', callbacks', l) = LotIn(mem, callbacks, l)
    PROVE  LotOf' = [LotOf EXCEPT ![m] = e] /\ LotOf'[m] = e
<1>1. /\ LotOf = [l \in Lots |-> LotIn(mem, callbacks, l)]
      /\ LotOf' = [l \in Lots |-> LotIn(mem', callbacks', l)]
  BY LedgerIs
<1> QED BY <1>1

LEMMA PurseDomain == DOMAIN PurseOf = Players /\ DOMAIN PurseOf' = Players
  BY LedgerIs

LEMMA PurseUpdate ==
    ASSUME NEW F, F = [q \in Players |-> F[q]], \A q \in Players : PurseOf'[q] = F[q]
    PROVE  PurseOf' = F
<1>1. PurseOf' = [q \in Players |-> mem'.purse[q] + mem'.post[q] + OwedIn(callbacks', q)]
  BY LedgerIs
<1>2. PICK G : G = PurseOf'
  OBVIOUS
<1>3. G = [q \in Players |-> G[q]] /\ \A q \in Players : G[q] = F[q]
  BY <1>1, <1>2
<1> QED BY <1>2, <1>3

\* An item put up for sale.
LEMMA SellLedger ==
    ASSUME TypeInv, TypeInv', LotsInv, Intact, Clear, NEW p \in Players, NEW m \in Lots, SellItem(p, m)
    PROVE  Ledger!Entry
<1> DEFINE u == WithoutRow(SellTx(p, m))
           register == Only(m, Sale(p))
<1>1. /\ mem.bag[m] = p /\ mem.purse[p] >= Deposit /\ FreeFuture /\ mem' = Apply(mem, u)
      /\ Await(p, register, Nothing) /\ UNCHANGED <<db, session, leaves, faults, drops>>
  BY SellSends
<1>2. u \in Transaction
  BY SellType
<1>3. /\ u.purse = Only(p, mem.purse[p] - Deposit) /\ u.bag = Only(m, Nobody)
      /\ u.parcel = Empty /\ u.row = Empty /\ u.mail = NoGold
  <2>1. u = Tx(Only(p, mem.purse[p] - Deposit), Only(m, Nobody), Empty, Empty, NoGold, NewFuture)
    <3>1. \A a, b, c, d, e, f : WithoutRow(Tx(a, b, c, d, e, f)) = Tx(a, b, c, Empty, e, f)
      BY TxExcept DEF WithoutRow
    <3> QED BY <3>1 DEF SellTx
  <2> HIDE DEF u
  <2> QED BY <2>1, TxFacts
<1> HIDE DEF u
<1>4. /\ DOMAIN u.purse = {p} /\ u.purse[p] = mem.purse[p] - Deposit
      /\ DOMAIN u.bag = {m} /\ DOMAIN u.parcel = {} /\ DOMAIN u.row = {}
      /\ DOMAIN register = {m} /\ register[m] = Sale(p)
  <2>1. /\ DOMAIN u.purse = {p} /\ u.purse[p] = mem.purse[p] - Deposit
        /\ DOMAIN u.bag = {m}
    <3>1. u.purse = Only(p, mem.purse[p] - Deposit) /\ u.bag = Only(m, Nobody)
      BY <1>3
    <3> QED BY <3>1, OnlyFacts, ZenonT(60)
  <2>2. DOMAIN u.parcel = {} /\ DOMAIN u.row = {}
    BY <1>3, OnlyFacts
  <2>3. DOMAIN register = {m} /\ register[m] = Sale(p)
    BY OnlyFacts
  <2> QED BY <2>1, <2>2, <2>3
<1>5. /\ register \in Partial(Lots, Offer) /\ Nothing \in Payment
      /\ DOMAIN Nothing.parcel = {} /\ Nothing.mail = NoGold
  BY OnlyType, RowType, NothingType, OnlyFacts
<1> HIDE DEF register
<1>6. /\ \A l : /\ RegistersIn(callbacks', l)
                     = RegistersIn(callbacks, l) \cup {f \in {NewFuture} : l \in DOMAIN register}
                /\ ParcelsIn(callbacks', l)
                     = ParcelsIn(callbacks, l) \cup {f \in {NewFuture} : l \in DOMAIN Nothing.parcel}
                /\ \A f \in RegistersIn(callbacks, l) :
                     callbacks'[f].register = callbacks[f].register
                /\ \A f \in ParcelsIn(callbacks, l) : callbacks'[f].pays = callbacks[f].pays
      /\ callbacks'[NewFuture].register = register
      /\ \A q \in Players : OwedIn(callbacks', q) = OwedIn(callbacks, q) + Nothing.mail[q]
  BY <1>1, <1>5, AwaitEntries
<1>7. p # Nobody /\ mem \in World
  BY NobodyAssumption DEF TypeInv
<1>8. LotOf[m] = Ledger!Owned(p) /\ RegistersIn(callbacks, m) = {}
  BY <1>1, <1>7, LotAt
<1>9. LotIn(mem', callbacks', m) = Ledger!Listed(p, Nobody, 0)
  <2>1. RegistersIn(callbacks', m) = {NewFuture}
    BY <1>4, <1>6, <1>8
  <2>2. callbacks'[NewFuture].register[m] = Sale(p)
    BY <1>4, <1>6
  <2>3. Sale(p).owner = p /\ Sale(p).bidder = Nobody /\ Sale(p).bid = 0
    BY DEF Sale
  <2>4. PICK f : f = NewFuture
    OBVIOUS
  <2>5. RegistersIn(callbacks', m) = {f} /\ callbacks'[f].register[m] = Sale(p)
    BY <2>1, <2>2, <2>4
  <2> QED BY <1>7, <2>3, <2>5, EntryCases
<1>10. \A l \in Lots \ {m} : LotIn(mem', callbacks', l) = LotIn(mem, callbacks, l)
  <2>1. ASSUME NEW l \in Lots \ {m} PROVE LotIn(mem', callbacks', l) = LotIn(mem, callbacks, l)
    <3>1. ~Touches(u, l)
      BY <1>4 DEF Touches
    <3>2. /\ RegistersIn(callbacks', l) = RegistersIn(callbacks, l)
          /\ ParcelsIn(callbacks', l) = ParcelsIn(callbacks, l)
      BY <1>4, <1>5, <1>6
    <3> QED BY <1>1, <1>2, <1>6, <3>1, <3>2, EntryKept
  <2> QED BY <2>1
<1>11. LotOf' = [LotOf EXCEPT ![m] = Ledger!Listed(p, Nobody, 0)]
       /\ LotOf'[m] = Ledger!Listed(p, Nobody, 0)
  BY <1>9, <1>10, LotUpdate
<1>12. PurseOf[p] >= Deposit
  BY <1>1, PurseAt, GoldAssumption
<1>13. PurseOf' = [PurseOf EXCEPT ![p] = @ - Deposit]
  <2>1. ASSUME NEW q \in Players
        PROVE  PurseOf'[q] = IF q = p THEN PurseOf[q] - Deposit ELSE PurseOf[q]
    <3>1. mem'.purse[q] = IF q = p THEN mem.purse[p] - Deposit ELSE mem.purse[q]
      BY <1>1, <1>2, <1>4, <1>7, ApplyFacts
    <3>2. mem'.post[q] = mem.post[q]
      <4>1. u.mail[q] = 0 /\ mem.post[q] \in Nat
        BY <1>3, PurseAt DEF NoGold
      <4>2. mem.post[q] + u.mail[q] >= 0
        BY <4>1
      <4>3. mem'.post[q] = mem.post[q] + u.mail[q]
        BY <1>1, <1>2, <1>7, <4>2, ApplyFacts
      <4> QED BY <4>1, <4>3
    <3>3. OwedIn(callbacks', q) = OwedIn(callbacks, q)
      <4>1. Nothing.mail[q] = 0
        BY <1>5 DEF NoGold
      <4> QED BY <1>6, <4>1, PurseAt
    <3> QED BY <3>1, <3>2, <3>3, PurseAt, GoldAssumption
  <2> DEFINE F == [PurseOf EXCEPT ![p] = @ - Deposit]
  <2>2. F = [q \in Players |-> F[q]] /\ \A q \in Players : PurseOf'[q] = F[q]
    BY <2>1, PurseDomain
  <2> HIDE DEF F
  <2>3. PurseOf' = F
    BY <2>2, PurseUpdate
  <2> QED BY <2>3 DEF F
<1>14. Ledger!List(m, p)
  BY <1>1, <1>8, <1>11, <1>12, <1>13 DEF Ledger!List
<1>15. LotOf'[m] # LotOf[m]
  BY <1>8, <1>11 DEF Ledger!Owned, Ledger!Listed
<1> QED BY <1>14, <1>15 DEF Ledger!Entry, Ledger!Trade

\* A bid is below the buyout.
Cheap == \A l \in Lots : Listed(mem, l) /\ Buyout[l] # 0 => mem.row[l].bid < Buyout[l]

\* What a bid moves between the purses.
LEMMA BidPurse ==
    ASSUME TypeInv, TypeInv', NEW p \in Players, NEW m \in Lots, NEW price \in Prices,
           PlaceBid(p, m, price), NEW a, a = mem.row[m], NEW paid, paid = Paid(m, price)
    PROVE  \A q \in Players :
             PurseOf'[q] = ((PurseOf[q] + (IF q = a.bidder THEN a.bid ELSE 0))
                              - (IF q = p THEN paid ELSE 0))
                           + (IF Buys(m, price) /\ q = a.owner THEN paid + Deposit - Cut(paid) ELSE 0)
<1> SUFFICES ASSUME NEW q \in Players
             PROVE  PurseOf'[q] = ((PurseOf[q] + (IF q = a.bidder THEN a.bid ELSE 0))
                              - (IF q = p THEN paid ELSE 0))
                           + (IF Buys(m, price) /\ q = a.owner THEN paid + Deposit - Cut(paid) ELSE 0)
  OBVIOUS
<1> DEFINE t == BidTx(p, m, price)
           pays == BidPays(p, m, price)
           cost == Cost(p, a, paid)
           refund == IF a.bidder \in {p, Nobody} \/ q # a.bidder THEN 0 ELSE a.bid
           profit == IF Buys(m, price) /\ q = a.owner THEN paid + Deposit - Cut(paid) ELSE 0
<1>1. /\ FreeFuture /\ mem' = Apply(mem, t) /\ Await(p, Empty, pays)
  BY BidSends
<1>2. /\ t \in Transaction /\ pays \in Payment /\ Bid(p, m, price).owner = a.owner
      /\ Bid(p, m, price).bid = paid /\ Bid(p, m, price) \in Row /\ paid \in Nat /\ cost \in Int
  BY BidType
<1>3. a \in Row /\ a.bid \in Nat /\ mem \in World
  BY WorldFacts DEF TypeInv
<1>4. t.purse = Only(p, mem.purse[p] - cost) /\ t.mail = NoGold
  BY TxFacts DEF BidTx
<1>5. DOMAIN t.purse = {p} /\ t.purse[p] = mem.purse[p] - cost /\ t.mail[q] = 0
  <2>1. PICK rest : rest = mem.purse[p] - cost
    OBVIOUS
  <2>2. t.purse = Only(p, rest)
    BY <1>4, <2>1
  <2>3. DOMAIN t.purse = {p} /\ t.purse[p] = rest
    BY <2>2, OnlyFacts
  <2>4. t.mail[q] = 0
    BY <1>4 DEF NoGold
  <2> QED BY <2>1, <2>3, <2>4
<1>6. pays.mail = IF Buys(m, price) THEN Both(BidRefund(p, m), Profit(Bid(p, m, price)))
                  ELSE BidRefund(p, m)
  BY TxFacts DEF BidPays
<1>7. BidRefund(p, m)[q] = refund
  BY DEF BidRefund, Refund, NoGold
<1>8. Profit(Bid(p, m, price))[q] = IF q = a.owner THEN paid + Deposit - Cut(paid) ELSE 0
  BY <1>2 DEF Profit
<1>9. pays.mail[q] = refund + profit
  <2>1. refund \in Nat
    BY <1>3
  <2> HIDE DEF refund
  <2>2. CASE Buys(m, price)
    <3>1. pays.mail[q] = BidRefund(p, m)[q] + Profit(Bid(p, m, price))[q]
      BY <1>6, <2>2 DEF Both
    <3> QED BY <1>7, <1>8, <2>2, <3>1
  <2>3. CASE ~Buys(m, price)
    BY <1>6, <1>7, <2>1, <2>3
  <2> QED BY <2>2, <2>3
<1>10. Empty \in Partial(Lots, Offer)
  BY OnlyType
<1> HIDE DEF t, pays
<1>11. OwedIn(callbacks', q) = OwedIn(callbacks, q) + pays.mail[q]
  BY <1>1, <1>2, <1>10, AwaitEntries
<1>12. mem'.purse[q] = IF q = p THEN mem.purse[p] - cost ELSE mem.purse[q]
  BY <1>1, <1>2, <1>3, <1>5, ApplyFacts
<1>13. mem'.post[q] = mem.post[q]
  <2>1. mem.post[q] + t.mail[q] >= 0 /\ mem.post[q] \in Nat
    BY <1>5, PurseAt
  <2>2. mem'.post[q] = mem.post[q] + t.mail[q]
    BY <1>1, <1>2, <1>3, <2>1, ApplyFacts
  <2> QED BY <1>5, <2>1, <2>2
<1>14. cost = (IF a.bidder = p THEN paid - a.bid ELSE paid) /\ p # Nobody /\ q # Nobody
  BY NobodyAssumption DEF Cost
<1>15. profit \in Int
  BY <1>2, CutFacts, GoldAssumption
<1>16. refund = IF a.bidder = p \/ q # a.bidder THEN 0 ELSE a.bid
  BY <1>14
<1> HIDE DEF cost, profit, refund
<1>17. PurseOf'[q] = ((PurseOf[q] + (IF q = a.bidder THEN a.bid ELSE 0)) - (IF q = p THEN paid ELSE 0))
                     + profit
  <2>1. PurseOf'[q] = mem'.purse[q] + mem'.post[q] + OwedIn(callbacks', q)
    BY PurseAt
  <2>2. /\ PurseOf[q] = mem.purse[q] + mem.post[q] + OwedIn(callbacks, q)
        /\ mem.purse[q] \in Nat /\ mem.post[q] \in Nat /\ OwedIn(callbacks, q) \in Nat
    BY PurseAt
  <2>3. CASE a.bidder = p
    BY <1>2, <1>3, <1>9, <1>11, <1>12, <1>13, <1>14, <1>15, <1>16, <2>1, <2>2, <2>3
  <2>4. CASE a.bidder # p
    BY <1>2, <1>3, <1>9, <1>11, <1>12, <1>13, <1>14, <1>15, <1>16, <2>1, <2>2, <2>4
  <2> QED BY <2>3, <2>4
<1> QED BY <1>17 DEF profit

LEMMA RaiseExcept ==
    \A o, b, n, x, y :
        /\ [Ledger!Listed(o, b, n) EXCEPT !.bidder = x] = Ledger!Listed(o, x, n)
        /\ [Ledger!Listed(o, b, n) EXCEPT !.bid = y] = Ledger!Listed(o, b, y)
<1>1. \A o, t, b, n, x, y :
        /\ [[owner |-> o, listed |-> t, bidder |-> b, bid |-> n] EXCEPT !.bidder = x]
             = [owner |-> o, listed |-> t, bidder |-> x, bid |-> n]
        /\ [[owner |-> o, listed |-> t, bidder |-> b, bid |-> n] EXCEPT !.bid = y]
             = [owner |-> o, listed |-> t, bidder |-> b, bid |-> y]
  OBVIOUS
<1>2. PICK t : t = TRUE
  OBVIOUS
<1>3. \A o, b, n :
        Ledger!Listed(o, b, n) = [owner |-> o, listed |-> t, bidder |-> b, bid |-> n]
  BY <1>2, Zenon DEF Ledger!Listed
<1> QED BY <1>1, <1>3

\* A bid, and a buyout.
LEMMA BidLedger ==
    ASSUME TypeInv, TypeInv', LotsInv, Intact, Clear, Cheap, NEW p \in Players, NEW m \in Lots,
           NEW price \in Prices, PlaceBid(p, m, price)
    PROVE  Ledger!Entry
<1> DEFINE t == BidTx(p, m, price)
           pays == BidPays(p, m, price)
<1>a. PICK a : a = mem.row[m]
  OBVIOUS
<1>b. PICK paid : paid = Paid(m, price)
  OBVIOUS
<1>1. /\ Listed(mem, m) /\ a.owner # p /\ price > a.bid /\ mem.purse[p] >= price /\ FreeFuture
      /\ mem' = Apply(mem, t) /\ Await(p, Empty, pays)
      /\ UNCHANGED <<db, session, sales, leaves, faults, drops>>
  BY <1>a, BidSends
<1>2. /\ t \in Transaction /\ pays \in Payment /\ Bid(p, m, price).owner = a.owner
      /\ Bid(p, m, price).bidder = p /\ Bid(p, m, price).bid = paid
      /\ Bid(p, m, price) \in Row /\ paid \in Nat /\ paid <= price
  BY <1>a, <1>b, BidType
<1>3. /\ a \in Row /\ a.bid \in Nat /\ a.owner \in Players /\ a.owner # Nobody /\ p # Nobody
      /\ mem \in World /\ price \in Nat
  BY <1>1, <1>a, WorldFacts, NobodyAssumption, LotAssumption DEF TypeInv, Listed
<1>4. /\ t.bag = Empty /\ t.parcel = Empty
      /\ t.row = Only(m, IF Buys(m, price) THEN NoRow ELSE Bid(p, m, price))
  BY TxFacts DEF BidTx
<1>5. /\ DOMAIN t.bag = {} /\ DOMAIN t.parcel = {} /\ DOMAIN t.row = {m}
      /\ t.row[m] = IF Buys(m, price) THEN NoRow ELSE Bid(p, m, price)
  BY <1>4, OnlyFacts
<1>6. pays.parcel = IF Buys(m, price) THEN Only(m, p) ELSE Empty
  BY TxFacts DEF BidPays
<1>7. Empty \in Partial(Lots, Offer) /\ DOMAIN Empty = {}
  BY OnlyType, OnlyFacts
<1> HIDE DEF t, pays
<1>8. /\ \A l : /\ RegistersIn(callbacks', l)
                     = RegistersIn(callbacks, l) \cup {f \in {NewFuture} : l \in DOMAIN Empty}
                /\ ParcelsIn(callbacks', l)
                     = ParcelsIn(callbacks, l) \cup {f \in {NewFuture} : l \in DOMAIN pays.parcel}
                /\ \A f \in RegistersIn(callbacks, l) :
                     callbacks'[f].register = callbacks[f].register
                /\ \A f \in ParcelsIn(callbacks, l) : callbacks'[f].pays = callbacks[f].pays
      /\ callbacks'[NewFuture].pays = pays
  BY <1>1, <1>2, <1>7, AwaitEntries
<1>9. /\ LotOf[m] = Ledger!Listed(a.owner, a.bidder, a.bid)
      /\ mem.bag[m] = Nobody /\ mem.parcel[m] = Nobody
      /\ RegistersIn(callbacks, m) = {} /\ ParcelsIn(callbacks, m) = {}
  BY <1>1, <1>a, LotAt
<1>10. /\ LotOf[m].listed /\ LotOf[m].owner = a.owner /\ LotOf[m].bidder = a.bidder
       /\ LotOf[m].bid = a.bid
  BY <1>9 DEF Ledger!Listed
<1>11. \A l \in Lots \ {m} : LotIn(mem', callbacks', l) = LotIn(mem, callbacks, l)
  <2>1. ASSUME NEW l \in Lots \ {m} PROVE LotIn(mem', callbacks', l) = LotIn(mem, callbacks, l)
    <3>1. ~Touches(t, l)
      BY <1>5 DEF Touches
    <3>2. l \notin DOMAIN pays.parcel
      BY <1>6, OnlyFacts
    <3>3. /\ RegistersIn(callbacks', l) = RegistersIn(callbacks, l)
          /\ ParcelsIn(callbacks', l) = ParcelsIn(callbacks, l)
      BY <1>7, <1>8, <3>2
    <3> QED BY <1>1, <1>2, <1>8, <3>1, <3>3, EntryKept
  <2> QED BY <2>1
<1>12. mem'.bag[m] = Nobody /\ mem'.parcel[m] = Nobody /\ mem'.row[m] = t.row[m]
  BY <1>1, <1>2, <1>3, <1>5, <1>9, ApplyFacts
<1>13. RegistersIn(callbacks', m) = {}
  BY <1>7, <1>8, <1>9
<1>14. \A q \in Players :
         PurseOf'[q] = ((PurseOf[q] + (IF q = a.bidder THEN a.bid ELSE 0)) - (IF q = p THEN paid ELSE 0))
                       + (IF Buys(m, price) /\ q = a.owner THEN paid + Deposit - Cut(paid) ELSE 0)
  BY <1>a, <1>b, BidPurse
<1>15. PurseOf[p] \in Nat /\ PurseOf[p] >= price /\ \A q \in Players : PurseOf[q] \in Nat
  <2>1. \A q \in Players : PurseOf[q] \in Nat
    BY PurseAt
  <2>2. PurseOf[p] >= price
    BY <1>1, <1>3, PurseAt
  <2> QED BY <2>1, <2>2
<1>16. \A q \in Players :
         Ledger!Outbid(m, p, paid)[q]
           = (PurseOf[q] + (IF q = a.bidder THEN a.bid ELSE 0)) - (IF q = p THEN paid ELSE 0)
  BY <1>10 DEF Ledger!Outbid
<1>17. Ledger!Outbid(m, p, paid) = [q \in Players |-> Ledger!Outbid(m, p, paid)[q]]
  BY DEF Ledger!Outbid
<1>18. paid > a.bid => Ledger!MayBid(m, p, paid)
  <2>1. Ledger!Outbid(m, p, paid)[p] >= 0
    BY <1>2, <1>3, <1>15, <1>16
  <2> QED BY <1>1, <1>10, <2>1 DEF Ledger!MayBid
<1>19. CASE ~Buys(m, price)
  <2>1. paid > a.bid
    BY <1>1, <1>19, <1>b DEF Paid
  <2>2. LotIn(mem', callbacks', m) = Ledger!Listed(a.owner, p, paid)
    <3>1. mem'.row[m] = Bid(p, m, price)
      BY <1>5, <1>12, <1>19
    <3>2. PICK w : w = mem'
      OBVIOUS
    <3>3. w.row[m].owner = a.owner /\ w.row[m].bidder = p /\ w.row[m].bid = paid
      BY <1>2, <3>1, <3>2
    <3>4. LotIn(w, callbacks', m) = Ledger!Listed(w.row[m].owner, w.row[m].bidder, w.row[m].bid)
      BY <1>3, <1>13, <3>3, EntryCases
    <3> QED BY <3>2, <3>3, <3>4
  <2>3. LotOf' = [LotOf EXCEPT ![m] = Ledger!Listed(a.owner, p, paid)]
        /\ LotOf'[m] = Ledger!Listed(a.owner, p, paid)
    BY <1>11, <2>2, LotUpdate
  <2>4. Ledger!Listed(a.owner, p, paid) = [LotOf[m] EXCEPT !.bidder = p, !.bid = paid]
    <3>1. [Ledger!Listed(a.owner, a.bidder, a.bid) EXCEPT !.bidder = p] = Ledger!Listed(a.owner, p, a.bid)
      BY RaiseExcept
    <3>2. [Ledger!Listed(a.owner, p, a.bid) EXCEPT !.bid = paid] = Ledger!Listed(a.owner, p, paid)
      BY RaiseExcept
    <3>3. [LotOf[m] EXCEPT !.bidder = p, !.bid = paid]
            = [[LotOf[m] EXCEPT !.bidder = p] EXCEPT !.bid = paid]
      OBVIOUS
    <3> QED BY <1>9, <3>1, <3>2, <3>3
  <2>5. LotOf' = [LotOf EXCEPT ![m].bidder = p, ![m].bid = paid]
    BY <2>3, <2>4
  <2>6. PurseOf' = Ledger!Outbid(m, p, paid)
    <3>1. \A q \in Players : PurseOf'[q] = Ledger!Outbid(m, p, paid)[q]
      BY <1>2, <1>3, <1>14, <1>15, <1>16, <1>19
    <3> QED BY <1>17, <3>1, PurseUpdate
  <2>7. Ledger!Raise(m, p, paid)
    BY <1>1, <1>18, <2>1, <2>5, <2>6 DEF Ledger!Raise
  <2>8. LotOf'[m].bid = paid
    BY <2>3 DEF Ledger!Listed
  <2>9. LotOf'[m] # LotOf[m]
    BY <1>2, <1>3, <1>10, <2>1, <2>8
  <2> QED BY <2>7, <2>8, <2>9 DEF Ledger!Entry, Ledger!Trade
<1>20. CASE Buys(m, price)
  <2>1. paid = Buyout[m] /\ paid > a.bid
    BY <1>1, <1>20, <1>a, <1>b, <1>3, LotAssumption DEF Paid, Buys, Cheap
  <2>2. LotIn(mem', callbacks', m) = Ledger!Owned(p)
    <3>1. mem'.row[m] = NoRow
      BY <1>5, <1>12, <1>20
    <3>2. PICK f : f = NewFuture
      OBVIOUS
    <3>3. DOMAIN pays.parcel = {m} /\ pays.parcel[m] = p
      BY <1>6, <1>20, OnlyFacts
    <3>4. ParcelsIn(callbacks', m) = {f} /\ callbacks'[f].pays.parcel[m] = p
      BY <1>8, <1>9, <3>2, <3>3
    <3> QED BY <1>12, <1>13, <3>1, <3>4, EntryCases
  <2>3. LotOf' = [LotOf EXCEPT ![m] = Ledger!Owned(p)] /\ LotOf'[m] = Ledger!Owned(p)
    BY <1>11, <2>2, LotUpdate
  <2>4. PurseOf' = [Ledger!Outbid(m, p, paid) EXCEPT ![a.owner] = @ + paid + Deposit - Ledger!Cut(paid)]
    <3> DEFINE F == [Ledger!Outbid(m, p, paid) EXCEPT ![a.owner] = @ + paid + Deposit - Ledger!Cut(paid)]
    <3>0. Ledger!Cut(paid) = Cut(paid)
      BY DEF Ledger!Cut, Cut
    <3>1. Cut(paid) \in Nat /\ Deposit \in Nat
      BY <1>2, CutFacts, GoldAssumption
    <3>2. PICK O : O = Ledger!Outbid(m, p, paid)
      OBVIOUS
    <3>3. /\ O = [q \in Players |-> O[q]]
          /\ \A q \in Players :
               O[q] = (PurseOf[q] + (IF q = a.bidder THEN a.bid ELSE 0)) - (IF q = p THEN paid ELSE 0)
      BY <1>16, <1>17, <3>2
    <3>4. \A q \in Players : O[q] \in Int
      BY <1>2, <1>3, <1>15, <3>3
    <3>5. F = [O EXCEPT ![a.owner] = @ + paid + Deposit - Cut(paid)]
      BY <3>0, <3>2
    <3>6. /\ F = [q \in Players |-> F[q]]
          /\ \A q \in Players :
               F[q] = IF q = a.owner THEN O[q] + paid + Deposit - Cut(paid) ELSE O[q]
      BY <3>3, <3>5
    <3> HIDE DEF F
    <3>7. \A q \in Players :
            PurseOf'[q] = O[q] + (IF q = a.owner THEN paid + Deposit - Cut(paid) ELSE 0)
      BY <1>14, <1>20, <3>3
    <3>8. \A q \in Players : PurseOf'[q] = F[q]
      BY <1>2, <3>1, <3>4, <3>6, <3>7
    <3>9. PurseOf' = F
      BY <3>6, <3>8, PurseUpdate
    <3> QED BY <3>9 DEF F
  <2>5. Ledger!BuyOut(m, p, paid)
    BY <1>1, <1>10, <1>18, <2>1, <2>3, <2>4 DEF Ledger!BuyOut
  <2>6. paid \in 1 .. PurseOf[p] + LotOf[m].bid
    BY <1>2, <1>3, <1>10, <1>15, <2>1
  <2>7. LotOf'[m] # LotOf[m]
    BY <1>9, <2>3 DEF Ledger!Owned, Ledger!Listed
  <2> QED BY <2>5, <2>6, <2>7 DEF Ledger!Entry, Ledger!Trade
<1> QED BY <1>19, <1>20

ledgerVars == <<PurseOf, LotOf, leaves, faults, Intact>>

\* Nothing happens that the ledger shows.
LEMMA LedgerStutters ==
    ASSUME \A q \in Players : PurseOf'[q] = PurseOf[q],
           \A l \in Lots : LotIn(mem', callbacks', l) = LotIn(mem, callbacks, l),
           leaves' = leaves, faults' = faults, drops' = drops
    PROVE  UNCHANGED ledgerVars
<1>1. PurseOf' = PurseOf
  BY LedgerIs
<1>2. LotOf' = LotOf
  BY LedgerIs
<1>3. Intact' = Intact
  BY DEF Intact
<1> QED BY <1>1, <1>2, <1>3 DEF ledgerVars

\* A transaction without a callback.
LEMMA PlainEntries ==
    ASSUME TypeInv, NEW t \in Transaction, mem' = Apply(mem, t), callbacks' = callbacks,
           \A q \in Players : mem.post[q] + t.mail[q] >= 0
    PROVE  /\ \A l \in Lots : ~Touches(t, l) =>
                LotIn(mem', callbacks', l) = LotIn(mem, callbacks, l)
           /\ \A l : /\ RegistersIn(callbacks', l) = RegistersIn(callbacks, l)
                     /\ ParcelsIn(callbacks', l) = ParcelsIn(callbacks, l)
           /\ \A q \in Players :
                PurseOf'[q] = PurseOf[q] + t.mail[q]
                                + (IF q \in DOMAIN t.purse THEN t.purse[q] - mem.purse[q] ELSE 0)
<1>1. \A l \in Lots : ~Touches(t, l) => LotIn(mem', callbacks', l) = LotIn(mem, callbacks, l)
  <2>1. ASSUME NEW l \in Lots, ~Touches(t, l)
        PROVE  LotIn(mem', callbacks', l) = LotIn(mem, callbacks, l)
    <3>1. /\ RegistersIn(callbacks', l) = RegistersIn(callbacks, l)
          /\ ParcelsIn(callbacks', l) = ParcelsIn(callbacks, l)
          /\ \A f : callbacks'[f].register = callbacks[f].register /\ callbacks'[f].pays = callbacks[f].pays
      OBVIOUS
    <3> QED BY <2>1, <3>1, EntryKept
  <2> QED BY <2>1
<1>2. ASSUME NEW q \in Players
      PROVE  PurseOf'[q] = PurseOf[q] + t.mail[q]
                             + (IF q \in DOMAIN t.purse THEN t.purse[q] - mem.purse[q] ELSE 0)
  <2>1. /\ mem'.purse[q] = IF q \in DOMAIN t.purse THEN t.purse[q] ELSE mem.purse[q]
        /\ mem'.post[q] = mem.post[q] + t.mail[q]
    BY ApplyFacts DEF TypeInv
  <2>2. OwedIn(callbacks', q) = OwedIn(callbacks, q)
    OBVIOUS
  <2>3. t.mail[q] \in Int /\ (q \in DOMAIN t.purse => t.purse[q] \in Int)
    <3>1. t.mail \in [Players -> Int] /\ t.purse \in Partial(Players, Nat)
      BY DEF Transaction
    <3> QED BY <3>1, PartialFacts
  <2> QED BY <2>1, <2>2, <2>3, PurseAt
<1> QED BY <1>1, <1>2

\* An auction withdrawn.
LEMMA RemoveLedger ==
    ASSUME TypeInv, LotsInv, Intact, Clear, NEW p \in Players, NEW m \in Lots, RemoveItem(p, m)
    PROVE  Ledger!Entry
<1> DEFINE t == RemoveTx(p, m)
<1>a. PICK a : a = mem.row[m]
  OBVIOUS
<1>1. /\ Listed(mem, m) /\ a.owner = p /\ (a.bidder # Nobody => mem.purse[p] >= Cut(a.bid))
      /\ mem' = Apply(mem, t) /\ UNCHANGED <<db, session, callbacks, sales, leaves, faults, drops>>
  BY <1>a, RemoveSends
<1>2. t \in Transaction
  BY RemoveType
<1>3. /\ a \in Row /\ a.bid \in Nat /\ p # Nobody /\ mem \in World /\ Cut(a.bid) \in Nat
  BY <1>a, WorldFacts, NobodyAssumption, CutFacts DEF TypeInv
<1>4. /\ t.bag = Empty /\ t.parcel = Only(m, p) /\ t.row = Only(m, NoRow)
      /\ t.purse = (IF a.bidder = Nobody THEN Empty ELSE Only(p, mem.purse[p] - Cut(a.bid)))
      /\ t.mail = (IF a.bidder = Nobody THEN NoGold ELSE Refund(a))
  BY <1>a, TxFacts DEF RemoveTx
<1>5. /\ DOMAIN t.bag = {} /\ DOMAIN t.parcel = {m} /\ DOMAIN t.row = {m}
      /\ t.parcel[m] = p /\ t.row[m] = NoRow
  BY <1>4, OnlyFacts
<1>6. \A q \in Players : t.mail[q] = IF q = a.bidder THEN a.bid ELSE 0
  BY <1>4, NobodyAssumption DEF NoGold, Refund
<1>7. /\ a.bidder = Nobody => DOMAIN t.purse = {}
      /\ a.bidder # Nobody => DOMAIN t.purse = {p} /\ t.purse[p] = mem.purse[p] - Cut(a.bid)
  <2>1. PICK rest : rest = mem.purse[p] - Cut(a.bid)
    OBVIOUS
  <2>2. t.purse = (IF a.bidder = Nobody THEN Empty ELSE Only(p, rest))
    BY <1>4, <2>1
  <2> QED BY <2>1, <2>2, OnlyFacts
<1> HIDE DEF t
<1>8. /\ LotOf[m] = Ledger!Listed(a.owner, a.bidder, a.bid)
      /\ mem.bag[m] = Nobody /\ RegistersIn(callbacks, m) = {}
  BY <1>1, <1>a, LotAt
<1>9. /\ LotOf[m].listed /\ LotOf[m].owner = p /\ LotOf[m].bidder = a.bidder
      /\ LotOf[m].bid = a.bid
  BY <1>1, <1>8 DEF Ledger!Listed
<1>z. \A q \in Players : mem.post[q] + t.mail[q] >= 0
  BY <1>3, <1>6, PurseAt
<1>10. /\ \A l \in Lots : ~Touches(t, l) => LotIn(mem', callbacks', l) = LotIn(mem, callbacks, l)
       /\ RegistersIn(callbacks', m) = RegistersIn(callbacks, m)
       /\ \A q \in Players :
            PurseOf'[q] = PurseOf[q] + t.mail[q]
                            + (IF q \in DOMAIN t.purse THEN t.purse[q] - mem.purse[q] ELSE 0)
  BY <1>1, <1>2, <1>z, PlainEntries
<1>11. LotIn(mem', callbacks', m) = Ledger!Owned(p)
  <2>1. mem'.bag[m] = Nobody /\ mem'.parcel[m] = p /\ mem'.row[m] = NoRow
    BY <1>1, <1>2, <1>3, <1>5, <1>8, ApplyFacts
  <2>2. PICK w : w = mem'
    OBVIOUS
  <2>3. w.bag[m] = Nobody /\ w.parcel[m] = p /\ w.row[m] = NoRow /\ RegistersIn(callbacks', m) = {}
    BY <1>8, <1>10, <2>1, <2>2
  <2>4. LotIn(w, callbacks', m) = Ledger!Owned(w.parcel[m])
    BY <1>3, <2>3, EntryCases
  <2> QED BY <2>2, <2>3, <2>4
<1>12. LotOf' = [LotOf EXCEPT ![m] = Ledger!Owned(p)] /\ LotOf'[m] = Ledger!Owned(p)
  <2>1. \A l \in Lots \ {m} : LotIn(mem', callbacks', l) = LotIn(mem, callbacks, l)
    BY <1>5, <1>10 DEF Touches
  <2> QED BY <1>11, <2>1, LotUpdate
<1>13. PurseOf' = [q \in Players |->
                     (PurseOf[q] + (IF q = a.bidder THEN a.bid ELSE 0))
                       - (IF q = p /\ a.bidder # Nobody THEN Cut(a.bid) ELSE 0)]
  <2> DEFINE F == [q \in Players |->
                     (PurseOf[q] + (IF q = a.bidder THEN a.bid ELSE 0))
                       - (IF q = p /\ a.bidder # Nobody THEN Cut(a.bid) ELSE 0)]
  <2>1. ASSUME NEW q \in Players PROVE PurseOf'[q] = F[q]
    <3>1. PurseOf'[q] = PurseOf[q] + t.mail[q]
                            + (IF q \in DOMAIN t.purse THEN t.purse[q] - mem.purse[q] ELSE 0)
      BY <1>10
    <3>2. PurseOf[q] \in Nat /\ mem.purse[q] \in Nat
      BY PurseAt
    <3>3. CASE a.bidder = Nobody
      BY <1>3, <1>6, <1>7, <3>1, <3>2, <3>3
    <3>4. CASE a.bidder # Nobody
      <4>1. CASE q = p
        BY <1>3, <1>6, <1>7, <3>1, <3>2, <3>4, <4>1
      <4>2. CASE q # p
        BY <1>3, <1>6, <1>7, <3>1, <3>2, <3>4, <4>2
      <4> QED BY <4>1, <4>2
    <3> QED BY <3>3, <3>4
  <2>2. F = [q \in Players |-> F[q]] /\ \A q \in Players : PurseOf'[q] = F[q]
    BY <2>1
  <2> HIDE DEF F
  <2>3. PurseOf' = F
    BY <2>2, PurseUpdate
  <2> QED BY <2>3 DEF F
<1>14. Ledger!Withdraw(m)
  <2>1. Ledger!Cut(a.bid) = Cut(a.bid)
    BY DEF Ledger!Cut, Cut
  <2>2. PurseOf' = [q \in Players |->
                       (PurseOf[q] + (IF q = LotOf[m].bidder THEN LotOf[m].bid ELSE 0))
                         - (IF q = LotOf[m].owner /\ LotOf[m].bidder # Nobody
                              THEN Ledger!Cut(LotOf[m].bid) ELSE 0)]
    BY <1>9, <1>13, <2>1
  <2>3. LotOf[m].listed /\ LotOf' = [LotOf EXCEPT ![m] = Ledger!Owned(LotOf[m].owner)]
    BY <1>9, <1>12
  <2> QED BY <1>1, <2>2, <2>3 DEF Ledger!Withdraw
<1>15. LotOf'[m] # LotOf[m]
  BY <1>8, <1>12 DEF Ledger!Owned, Ledger!Listed
<1> QED BY <1>14, <1>15 DEF Ledger!Entry, Ledger!Trade

\* The sums of the abstract module are those of this one.
LEMMA LedgerSums == \A a : Ledger!SumFunction(a) = SumFunction(a)
<1>1. ASSUME NEW f, NEW S
      PROVE  Ledger!SumFunctionOnSet(f, S) = (CHOOSE g : Sums(f, SUBSET S, g))[S]
  BY DEF Ledger!SumFunctionOnSet, Ledger!FoldFunctionOnSet, Ledger!MapThenFoldSet, Sums, Pick
<1> QED BY <1>1, SumUnfold DEF SumFunction, Ledger!SumFunction

\* What has expired.
LEMMA UpdateLedger ==
    ASSUME TypeInv, LotsInv, Intact, Clear, NEW ended \in SUBSET Lots, Update(ended)
    PROVE  Ledger!Entry
<1> DEFINE t == UpdateTx(ended)
           parcel == [l \in ended |-> IF mem.row[l].bidder # Nobody THEN mem.row[l].bidder
                                      ELSE mem.row[l].owner]
           row == [l \in ended |-> NoRow]
<1>1. /\ ended # {} /\ (\A l \in ended : Listed(mem, l)) /\ mem' = Apply(mem, t)
      /\ UNCHANGED <<db, session, callbacks, sales, leaves, faults, drops>>
  BY UpdateSends
<1>2. t \in Transaction /\ mem \in World
  BY UpdateType DEF TypeInv
<1>3. /\ t.bag = Empty /\ t.parcel = parcel /\ t.row = row /\ t.purse = Empty
      /\ t.mail = [p \in Players |-> SumFunction([l \in ended |-> Gets(p, l)])]
  BY TxFacts DEF UpdateTx
<1>4. /\ DOMAIN t.bag = {} /\ DOMAIN t.parcel = ended /\ DOMAIN t.row = ended /\ DOMAIN t.purse = {}
      /\ \A l \in ended : /\ t.row[l] = NoRow
                          /\ t.parcel[l] = IF mem.row[l].bidder # Nobody THEN mem.row[l].bidder
                                           ELSE mem.row[l].owner
  BY <1>3, OnlyFacts
<1> HIDE DEF t, parcel, row
<1>5. ASSUME NEW l \in ended
      PROVE  /\ LotOf[l].listed /\ LotOf[l].owner = mem.row[l].owner
             /\ LotOf[l].bidder = mem.row[l].bidder /\ LotOf[l].bid = mem.row[l].bid
             /\ mem.bag[l] = Nobody /\ RegistersIn(callbacks, l) = {} /\ mem.row[l].owner # Nobody
  <2>1. /\ LotOf[l] = Ledger!Listed(mem.row[l].owner, mem.row[l].bidder, mem.row[l].bid)
        /\ mem.bag[l] = Nobody /\ RegistersIn(callbacks, l) = {} /\ mem.row[l].owner # Nobody
    BY <1>1, LotAt DEF Listed
  <2> QED BY <2>1 DEF Ledger!Listed
<1>z. \A q \in Players : mem.post[q] + t.mail[q] >= 0
  <2>1. t.mail \in [Players -> Nat]
    BY UpdateType DEF t
  <2> QED BY <2>1, PurseAt
<1>6. /\ \A l \in Lots : ~Touches(t, l) => LotIn(mem', callbacks', l) = LotIn(mem, callbacks, l)
      /\ \A l : RegistersIn(callbacks', l) = RegistersIn(callbacks, l)
      /\ \A q \in Players :
           PurseOf'[q] = PurseOf[q] + t.mail[q]
                           + (IF q \in DOMAIN t.purse THEN t.purse[q] - mem.purse[q] ELSE 0)
  BY <1>1, <1>2, <1>z, PlainEntries
<1>7. ASSUME NEW l \in ended
      PROVE  LotIn(mem', callbacks', l) = Ledger!Owned(Ledger!Winner(LotOf[l]))
  <2>1. mem'.bag[l] = Nobody /\ mem'.parcel[l] = t.parcel[l] /\ mem'.row[l] = NoRow
    BY <1>1, <1>2, <1>4, <1>5, ApplyFacts
  <2>2. t.parcel[l] = Ledger!Winner(LotOf[l]) /\ t.parcel[l] # Nobody
    BY <1>4, <1>5 DEF Ledger!Winner
  <2>3. PICK w : w = mem'
    OBVIOUS
  <2>4. w.bag[l] = Nobody /\ w.parcel[l] # Nobody /\ w.row[l] = NoRow /\ RegistersIn(callbacks', l) = {}
    BY <1>5, <1>6, <2>1, <2>2, <2>3
  <2>5. LotIn(w, callbacks', l) = Ledger!Owned(w.parcel[l])
    BY <2>4, EntryCases
  <2> QED BY <2>1, <2>2, <2>3, <2>5
<1>8. LotOf' = [l \in Lots |-> IF l \in ended THEN Ledger!Owned(Ledger!Winner(LotOf[l])) ELSE LotOf[l]]
  <2>1. /\ LotOf' = [l \in Lots |-> LotIn(mem', callbacks', l)]
        /\ \A l \in Lots : LotOf[l] = LotIn(mem, callbacks, l)
    BY LedgerIs
  <2>2. \A l \in Lots \ ended : LotIn(mem', callbacks', l) = LotOf[l]
    BY <1>4, <1>6, <2>1 DEF Touches
  <2> QED BY <1>7, <2>1, <2>2
<1>9. ASSUME NEW q \in Players
      PROVE  t.mail[q] = SumFunction([l \in ended |->
                 IF LotOf[l].owner = q THEN Ledger!Proceeds(LotOf[l]) ELSE 0])
  <2>1. ASSUME NEW l \in ended
        PROVE  Gets(q, l) = IF LotOf[l].owner = q THEN Ledger!Proceeds(LotOf[l]) ELSE 0
    <3>1. Ledger!Cut(mem.row[l].bid) = Cut(mem.row[l].bid)
      BY DEF Ledger!Cut, Cut
    <3>2. Profit(mem.row[l])[q] = IF q = mem.row[l].owner
                                    THEN mem.row[l].bid + Deposit - Cut(mem.row[l].bid) ELSE 0
      BY DEF Profit
    <3>3. Ledger!Proceeds(LotOf[l])
            = IF mem.row[l].bidder = Nobody THEN 0
              ELSE mem.row[l].bid + Deposit - Cut(mem.row[l].bid)
      BY <1>5, <3>1 DEF Ledger!Proceeds
    <3> QED BY <1>5, <3>2, <3>3 DEF Gets
  <2>2. [l \in ended |-> Gets(q, l)]
          = [l \in ended |-> IF LotOf[l].owner = q THEN Ledger!Proceeds(LotOf[l]) ELSE 0]
    BY <2>1
  <2> QED BY <1>3, <2>2
<1>10. PurseOf' = [q \in Players |-> PurseOf[q] +
         SumFunction([l \in ended |-> IF LotOf[l].owner = q THEN Ledger!Proceeds(LotOf[l]) ELSE 0])]
  <2> DEFINE G(q) == SumFunction([l \in ended |->
                        IF LotOf[l].owner = q THEN Ledger!Proceeds(LotOf[l]) ELSE 0])
             F == [q \in Players |-> PurseOf[q] + G(q)]
  <2>1. \A q \in Players : t.mail[q] = G(q)
    BY <1>9
  <2> HIDE DEF G
  <2>2. ASSUME NEW q \in Players PROVE PurseOf'[q] = PurseOf[q] + G(q)
    <3>1. PurseOf'[q] = PurseOf[q] + t.mail[q] + 0
      BY <1>4, <1>6
    <3>2. PurseOf[q] \in Nat /\ t.mail[q] \in Int
      BY <1>2, PurseAt DEF Transaction
    <3> QED BY <2>1, <3>1, <3>2
  <2>3. F = [q \in Players |-> F[q]] /\ \A q \in Players : PurseOf'[q] = F[q]
    BY <2>2
  <2> HIDE DEF F
  <2>4. PurseOf' = F
    BY <2>3, PurseUpdate
  <2> QED BY <2>4 DEF F, G
<1>11. Ledger!Close(ended)
  BY <1>1, <1>5, <1>8, <1>10, LedgerSums DEF Ledger!Close
<1> QED BY <1>1, <1>11 DEF Ledger!Entry

\* Mail is taken.
LEMMA MoneyLedger ==
    ASSUME TypeInv, NEW p \in Players, TakeMoney(p)
    PROVE  UNCHANGED ledgerVars
<1> DEFINE t == MoneyTx(p)
<1>1. mem' = Apply(mem, t) /\ UNCHANGED <<db, session, callbacks, sales, leaves, faults, drops>>
  BY MoneySends
<1>2. t \in Transaction
  BY MoneyType
<1>3. /\ t.bag = Empty /\ t.parcel = Empty /\ t.row = Empty
      /\ t.purse = Only(p, mem.purse[p] + mem.post[p]) /\ t.mail = [NoGold EXCEPT ![p] = -mem.post[p]]
  BY TxFacts DEF MoneyTx
<1>4. /\ \A l : ~Touches(t, l)
      /\ DOMAIN t.purse = {p} /\ t.purse[p] = mem.purse[p] + mem.post[p]
      /\ \A q \in Players : t.mail[q] = IF q = p THEN -mem.post[p] ELSE 0
  <2>1. PICK gold : gold = mem.purse[p] + mem.post[p]
    OBVIOUS
  <2>2. t.purse = Only(p, gold)
    BY <1>3, <2>1
  <2>3. DOMAIN t.purse = {p} /\ t.purse[p] = gold
    BY <2>2, OnlyFacts
  <2>4. \A q \in Players : t.mail[q] = IF q = p THEN -mem.post[p] ELSE 0
    BY <1>3 DEF NoGold
  <2>5. \A l : ~Touches(t, l)
    BY <1>3, OnlyFacts DEF Touches
  <2> QED BY <2>1, <2>3, <2>4, <2>5
<1> HIDE DEF t
<1>z. \A q \in Players : mem.post[q] + t.mail[q] >= 0
  BY <1>4, PurseAt
<1>5. /\ \A l \in Lots : ~Touches(t, l) => LotIn(mem', callbacks', l) = LotIn(mem, callbacks, l)
      /\ \A q \in Players :
           PurseOf'[q] = PurseOf[q] + t.mail[q]
                           + (IF q \in DOMAIN t.purse THEN t.purse[q] - mem.purse[q] ELSE 0)
  BY <1>1, <1>2, <1>z, PlainEntries
<1>6. \A q \in Players : PurseOf'[q] = PurseOf[q]
  <2>1. ASSUME NEW q \in Players PROVE PurseOf'[q] = PurseOf[q]
    <3>1. PurseOf[q] \in Nat /\ mem.purse[q] \in Nat /\ mem.post[q] \in Nat
      BY PurseAt
    <3>2. CASE q = p
      BY <1>4, <1>5, <3>1, <3>2
    <3>3. CASE q # p
      BY <1>4, <1>5, <3>1, <3>3
    <3> QED BY <3>2, <3>3
  <2> QED BY <2>1
<1> QED BY <1>1, <1>4, <1>5, <1>6, LedgerStutters

LEMMA ItemLedger ==
    ASSUME TypeInv, LotsInv, Intact, Clear, NEW p \in Players, NEW m \in Lots, TakeItem(p, m)
    PROVE  UNCHANGED ledgerVars
<1> DEFINE t == ItemTx(p, m)
<1>1. /\ mem.parcel[m] = p /\ mem' = Apply(mem, t)
      /\ UNCHANGED <<db, session, callbacks, sales, leaves, faults, drops>>
  BY ItemSends
<1>2. t \in Transaction /\ p # Nobody /\ mem \in World
  BY ItemType, NobodyAssumption DEF TypeInv
<1>3. /\ t.bag = Only(m, p) /\ t.parcel = Only(m, Nobody) /\ t.row = Empty
      /\ t.purse = Only(p, mem.purse[p]) /\ t.mail = NoGold
  BY TxFacts DEF ItemTx
<1>4. /\ DOMAIN t.bag = {m} /\ DOMAIN t.parcel = {m} /\ DOMAIN t.row = {}
      /\ t.bag[m] = p /\ t.parcel[m] = Nobody
      /\ DOMAIN t.purse = {p} /\ t.purse[p] = mem.purse[p]
      /\ \A q \in Players : t.mail[q] = 0
  <2>1. PICK gold : gold = mem.purse[p]
    OBVIOUS
  <2>2. t.purse = Only(p, gold)
    BY <1>3, <2>1
  <2>3. DOMAIN t.purse = {p} /\ t.purse[p] = gold
    BY <2>2, OnlyFacts
  <2>4. \A q \in Players : t.mail[q] = 0
    BY <1>3 DEF NoGold
  <2>5. /\ DOMAIN t.bag = {m} /\ DOMAIN t.parcel = {m} /\ DOMAIN t.row = {}
        /\ t.bag[m] = p /\ t.parcel[m] = Nobody
    BY <1>3, OnlyFacts
  <2> QED BY <2>1, <2>3, <2>4, <2>5
<1> HIDE DEF t
<1>z. \A q \in Players : mem.post[q] + t.mail[q] >= 0
  BY <1>4, PurseAt
<1>5. /\ \A l \in Lots : ~Touches(t, l) => LotIn(mem', callbacks', l) = LotIn(mem, callbacks, l)
      /\ \A l : RegistersIn(callbacks', l) = RegistersIn(callbacks, l)
      /\ \A q \in Players :
           PurseOf'[q] = PurseOf[q] + t.mail[q]
                           + (IF q \in DOMAIN t.purse THEN t.purse[q] - mem.purse[q] ELSE 0)
  BY <1>1, <1>2, <1>z, PlainEntries
<1>6. \A q \in Players : PurseOf'[q] = PurseOf[q]
  <2>1. ASSUME NEW q \in Players PROVE PurseOf'[q] = PurseOf[q]
    <3>1. PurseOf[q] \in Nat /\ mem.purse[q] \in Nat
      BY PurseAt
    <3> QED BY <1>4, <1>5, <3>1
  <2> QED BY <2>1
<1>7. /\ LotOf[m] = Ledger!Owned(p) /\ LotOf[m] = LotIn(mem, callbacks, m)
      /\ mem.row[m] = NoRow /\ RegistersIn(callbacks, m) = {}
  BY <1>1, <1>2, LotAt
<1>8. LotIn(mem', callbacks', m) = Ledger!Owned(p)
  <2>1. mem'.bag[m] = p /\ mem'.row[m] = NoRow
    BY <1>1, <1>2, <1>4, <1>7, ApplyFacts
  <2>2. PICK w : w = mem'
    OBVIOUS
  <2>3. w.bag[m] = p /\ w.row[m] = NoRow /\ RegistersIn(callbacks', m) = {}
    BY <1>5, <1>7, <2>1, <2>2
  <2>4. LotIn(w, callbacks', m) = Ledger!Owned(w.bag[m])
    BY <1>2, <2>3, EntryCases
  <2> QED BY <2>2, <2>3, <2>4
<1>9. \A l \in Lots : LotIn(mem', callbacks', l) = LotIn(mem, callbacks, l)
  BY <1>4, <1>5, <1>7, <1>8 DEF Touches
<1> QED BY <1>1, <1>6, <1>9, LedgerStutters

\* Callbacks that no longer count: what they held is lost, and nothing else.
LEMMA LostCallbacks ==
    ASSUME TypeInv, LotsInv, Intact, Clear, mem' = mem, AwaitedIn(callbacks') \subseteq AwaitedIn(callbacks),
           \A f \in AwaitedIn(callbacks') :
             callbacks'[f].register = callbacks[f].register /\ callbacks'[f].pays = callbacks[f].pays
    PROVE  /\ \A q \in Players : PurseOf'[q] <= PurseOf[q]
           /\ \A l \in Lots : LotIn(mem', callbacks', l) \in {LotIn(mem, callbacks, l), Ledger!Missing}
           /\ AwaitedIn(callbacks') = AwaitedIn(callbacks) =>
                /\ \A q \in Players : PurseOf'[q] = PurseOf[q]
                /\ \A l \in Lots : LotIn(mem', callbacks', l) = LotIn(mem, callbacks, l)
<1>1. ASSUME NEW q \in Players
      PROVE  /\ PurseOf'[q] <= PurseOf[q]
             /\ AwaitedIn(callbacks') = AwaitedIn(callbacks) => PurseOf'[q] = PurseOf[q]
  <2>1. IsFiniteSet(DOMAIN callbacks)
    BY FinitePlayers, FS_Subset DEF TypeInv
  <2>2. \A f \in DOMAIN callbacks : callbacks[f].pays.mail \in [Players -> Nat]
    BY CallbackFacts
  <2>3. PICK d : d = callbacks'
    OBVIOUS
  <2>4. /\ AwaitedIn(d) \subseteq AwaitedIn(callbacks)
        /\ \A f \in AwaitedIn(d) : d[f].pays = callbacks[f].pays
    BY <2>3
  <2>5. /\ OwedIn(callbacks, q) \in Nat /\ OwedIn(d, q) \in Nat /\ OwedIn(d, q) <= OwedIn(callbacks, q)
        /\ AwaitedIn(d) = AwaitedIn(callbacks) => OwedIn(d, q) = OwedIn(callbacks, q)
    BY <2>1, <2>2, <2>4, OwedCompare
  <2>6. /\ PurseOf[q] = mem.purse[q] + mem.post[q] + OwedIn(callbacks, q)
        /\ PurseOf'[q] = mem.purse[q] + mem.post[q] + OwedIn(d, q)
        /\ mem.purse[q] \in Nat /\ mem.post[q] \in Nat
    BY <2>3, PurseAt
  <2> QED BY <2>3, <2>5, <2>6
<1>2. ASSUME NEW l \in Lots
      PROVE  /\ LotIn(mem', callbacks', l) \in {LotIn(mem, callbacks, l), Ledger!Missing}
             /\ AwaitedIn(callbacks') = AwaitedIn(callbacks) =>
                  LotIn(mem', callbacks', l) = LotIn(mem, callbacks, l)
  <2>1. PICK d : d = callbacks'
    OBVIOUS
  <2>2. /\ RegistersIn(d, l) = RegistersIn(callbacks, l) \cap AwaitedIn(d)
        /\ ParcelsIn(d, l) = ParcelsIn(callbacks, l) \cap AwaitedIn(d)
        /\ RegistersIn(callbacks, l) \subseteq AwaitedIn(callbacks)
        /\ ParcelsIn(callbacks, l) \subseteq AwaitedIn(callbacks)
        /\ \A f \in AwaitedIn(d) : d[f].register = callbacks[f].register /\ d[f].pays = callbacks[f].pays
    BY <2>1 DEF RegistersIn, ParcelsIn
  <2>3. ASSUME RegistersIn(d, l) = RegistersIn(callbacks, l), ParcelsIn(d, l) = ParcelsIn(callbacks, l)
        PROVE  LotIn(mem', callbacks', l) = LotIn(mem, callbacks, l)
    <3>1. LotIn(mem, d, l) = LotIn(mem, callbacks, l)
      BY <2>2, <2>3, EntrySame
    <3> QED BY <2>1, <3>1
  <2>4. PICK x \in Place : Agrees(x, l)
    BY DEF LotsInv, LotInv
  <2>5. ASSUME RegistersIn(d, l) # RegistersIn(callbacks, l) \/ ParcelsIn(d, l) # ParcelsIn(callbacks, l)
        PROVE  LotIn(mem', callbacks', l) = Ledger!Missing
    <3>1. Registers(l) = RegistersIn(callbacks, l) /\ Parcels(l) = ParcelsIn(callbacks, l)
      BY LedgerIs
    <3>2. Registers(l) # {} \/ Parcels(l) # {}
      BY <2>2, <2>5, <3>1
    <3>3. PlaceOf(mem, l) = Nowhere
      BY <2>4, <3>2, Present
    <3>4. mem.bag[l] = Nobody /\ mem.parcel[l] = Nobody /\ mem.row[l] = NoRow
      BY <3>3, SpotFacts DEF TypeInv, Clear, Listed
    <3>5. RegistersIn(d, l) = {} /\ ParcelsIn(d, l) = {}
      <4>1. \/ Parcels(l) = {} /\ \E f : Registers(l) = {f}
            \/ Registers(l) = {} /\ \E f : Parcels(l) = {f}
        BY <2>4, <3>2 DEF Agrees
      <4> QED BY <2>2, <2>5, <3>1, <4>1
    <3>6. LotIn(mem, d, l) = Ledger!Missing
      BY <3>4, <3>5, EntryCases
    <3> QED BY <2>1, <3>6
  <2>6. AwaitedIn(d) = AwaitedIn(callbacks) =>
          RegistersIn(d, l) = RegistersIn(callbacks, l) /\ ParcelsIn(d, l) = ParcelsIn(callbacks, l)
    BY <2>2
  <2> QED BY <2>1, <2>3, <2>5, <2>6
<1> QED BY <1>1, <1>2

LEMMA LostIsMishap ==
    ASSUME TypeInv, LotsInv, Intact, Clear, mem' = mem, AwaitedIn(callbacks') \subseteq AwaitedIn(callbacks),
           \A f \in AwaitedIn(callbacks') :
             callbacks'[f].register = callbacks[f].register /\ callbacks'[f].pays = callbacks[f].pays,
           leaves' + faults' > leaves + faults
    PROVE  Ledger!Entry
<1>1. /\ \A q \in Players : PurseOf'[q] <= PurseOf[q]
      /\ \A l \in Lots : LotIn(mem', callbacks', l) \in {LotIn(mem, callbacks, l), Ledger!Missing}
  BY LostCallbacks
<1>2. \A l \in Lots : LotOf[l] = LotIn(mem, callbacks, l) /\ LotOf'[l] = LotIn(mem', callbacks', l)
  BY LedgerIs
<1>3. Ledger!Mishap
  BY <1>1, <1>2 DEF Ledger!Mishap
<1> QED BY <1>3 DEF Ledger!Entry

LEMMA FailLedger ==
    ASSUME TypeInv, LotsInv, Intact, Clear, Fail
    PROVE  Ledger!Entry
<1>1. /\ queue # <<>> /\ callbacks' = Answer(Head(queue).asks, "false") /\ faults' = faults + 1
      /\ mem' = mem /\ leaves' = leaves
  BY DEF Fail
<1>2. /\ DOMAIN callbacks' = DOMAIN callbacks
      /\ \A f \in DOMAIN callbacks :
           /\ callbacks'[f].register = callbacks[f].register /\ callbacks'[f].pays = callbacks[f].pays
           /\ callbacks'[f].answer = IF f = Head(queue).asks THEN "false" ELSE callbacks[f].answer
  <2>1. PICK answer \in {"true", "false"} : answer = "false"
    OBVIOUS
  <2>2. callbacks' = Answer(Head(queue).asks, answer)
    BY <1>1, <2>1
  <2>3. PICK d : d = Answer(Head(queue).asks, answer)
    OBVIOUS
  <2>4. /\ DOMAIN d = DOMAIN callbacks
        /\ \A f \in DOMAIN callbacks :
             /\ d[f].register = callbacks[f].register /\ d[f].pays = callbacks[f].pays
             /\ d[f].answer = IF f = Head(queue).asks THEN answer ELSE callbacks[f].answer
    BY <1>1, <2>3, AnswerFacts, ZenonT(60)
  <2>5. d = callbacks'
    BY <2>2, <2>3
  <2> QED BY <2>1, <2>4, <2>5
<1>3. /\ AwaitedIn(callbacks') \subseteq AwaitedIn(callbacks)
      /\ \A f \in AwaitedIn(callbacks') :
           callbacks'[f].register = callbacks[f].register /\ callbacks'[f].pays = callbacks[f].pays
  BY <1>2 DEF AwaitedIn
<1>4. leaves' + faults' > leaves + faults
  BY <1>1 DEF TypeInv
<1> QED BY <1>1, <1>3, <1>4, LostIsMishap

LEMMA LeaveLedger ==
    ASSUME TypeInv, LotsInv, Intact, Clear, NEW p \in Players, Leave(p)
    PROVE  Ledger!Entry
<1>1. /\ leaves' = leaves + 1 /\ mem' = mem /\ faults' = faults
      /\ DOMAIN callbacks' \subseteq DOMAIN callbacks
      /\ \A f \in DOMAIN callbacks' : callbacks'[f] = callbacks[f]
  <2>1. /\ leaves' = leaves + 1 /\ UNCHANGED <<mem, db, sales, faults, drops>>
        /\ DOMAIN callbacks' = {f \in DOMAIN callbacks : callbacks[f].session # p}
        /\ \A f \in DOMAIN callbacks' : callbacks'[f] = callbacks[f]
    BY LeaveFacts, ZenonT(60)
  <2> QED BY <2>1
<1>2. /\ AwaitedIn(callbacks') \subseteq AwaitedIn(callbacks)
      /\ \A f \in AwaitedIn(callbacks') :
           callbacks'[f].register = callbacks[f].register /\ callbacks'[f].pays = callbacks[f].pays
  <2>1. PICK d : d = callbacks'
    OBVIOUS
  <2>2. DOMAIN d \subseteq DOMAIN callbacks /\ \A f \in DOMAIN d : d[f] = callbacks[f]
    BY <1>1, <2>1
  <2>3. /\ AwaitedIn(d) \subseteq AwaitedIn(callbacks)
        /\ \A f \in AwaitedIn(d) : d[f].register = callbacks[f].register /\ d[f].pays = callbacks[f].pays
    BY <2>2 DEF AwaitedIn
  <2> QED BY <2>1, <2>3
<1>3. leaves' + faults' > leaves + faults
  BY <1>1 DEF TypeInv
<1> QED BY <1>1, <1>2, <1>3, LostIsMishap

\* The database worker moves nothing in the ledger.
LEMMA CommitLedger ==
    ASSUME TypeInv, LotsInv, Intact, Clear, Commit
    PROVE  UNCHANGED ledgerVars
<1>1. /\ queue # <<>> /\ callbacks' = Answer(Head(queue).asks, "true")
      /\ mem' = mem /\ leaves' = leaves /\ faults' = faults /\ drops' = drops
  BY DEF Commit
<1>2. /\ DOMAIN callbacks' = DOMAIN callbacks
      /\ \A f \in DOMAIN callbacks :
           /\ callbacks'[f].register = callbacks[f].register /\ callbacks'[f].pays = callbacks[f].pays
           /\ callbacks'[f].answer = IF f = Head(queue).asks THEN "true" ELSE callbacks[f].answer
  <2>1. PICK answer \in {"true", "false"} : answer = "true"
    OBVIOUS
  <2>2. callbacks' = Answer(Head(queue).asks, answer)
    BY <1>1, <2>1
  <2>3. PICK d : d = Answer(Head(queue).asks, answer)
    OBVIOUS
  <2>4. /\ DOMAIN d = DOMAIN callbacks
        /\ \A f \in DOMAIN callbacks :
             /\ d[f].register = callbacks[f].register /\ d[f].pays = callbacks[f].pays
             /\ d[f].answer = IF f = Head(queue).asks THEN answer ELSE callbacks[f].answer
    BY <1>1, <2>3, AnswerFacts, ZenonT(60)
  <2>5. d = callbacks'
    BY <2>2, <2>3
  <2> QED BY <2>1, <2>4, <2>5
<1>3. \A f \in DOMAIN callbacks : f = Head(queue).asks => callbacks[f].answer = "none"
  <2>1. Head(queue) = queue[1] /\ 1 \in 1 .. Len(queue)
    BY <1>1, HeadFacts DEF TypeInv
  <2>2. NoFuture \notin DOMAIN callbacks
    BY NobodyAssumption DEF TypeInv
  <2> QED BY <2>1, <2>2 DEF TypeInv, Asking
<1>4. /\ AwaitedIn(callbacks') = AwaitedIn(callbacks)
      /\ \A f \in AwaitedIn(callbacks') :
           callbacks'[f].register = callbacks[f].register /\ callbacks'[f].pays = callbacks[f].pays
  BY <1>2, <1>3 DEF AwaitedIn
<1>5. /\ \A q \in Players : PurseOf'[q] = PurseOf[q]
      /\ \A l \in Lots : LotIn(mem', callbacks', l) = LotIn(mem, callbacks, l)
  BY <1>1, <1>4, LostCallbacks
<1> QED BY <1>1, <1>5, LedgerStutters

\* A callback moves what it holds into memory.
LEMMA CallbackLedger ==
    ASSUME TypeInv, LotsInv, Intact, Clear, NEW f \in DOMAIN callbacks, ProcessCallback(f)
    PROVE  UNCHANGED ledgerVars
<1> DEFINE u == CallbackTx(f)
<1>1. /\ callbacks[f].answer \in {"true", "false"}
      /\ callbacks' = Restrict(callbacks, DOMAIN callbacks \ {f})
      /\ leaves' = leaves /\ faults' = faults /\ drops' = drops
      /\ \/ callbacks[f].answer # "true" /\ mem' = mem
         \/ callbacks[f].answer = "true" /\ mem' = Apply(mem, u)
  BY CallbackSteps, CallbackFacts DEF Callback
<1>2. /\ DOMAIN callbacks' = DOMAIN callbacks \ {f}
      /\ \A g \in DOMAIN callbacks' : callbacks'[g] = callbacks[g]
  BY <1>1, RestrictFacts
<1>3. CASE callbacks[f].answer # "true" /\ mem' = mem
  <2>1. /\ AwaitedIn(callbacks') = AwaitedIn(callbacks)
        /\ \A g \in AwaitedIn(callbacks') :
             callbacks'[g].register = callbacks[g].register /\ callbacks'[g].pays = callbacks[g].pays
    BY <1>1, <1>2, <1>3 DEF AwaitedIn
  <2>2. /\ \A q \in Players : PurseOf'[q] = PurseOf[q]
        /\ \A l \in Lots : LotIn(mem', callbacks', l) = LotIn(mem, callbacks, l)
    BY <1>3, <2>1, LostCallbacks
  <2> QED BY <1>1, <2>2, LedgerStutters
<1>4. CASE callbacks[f].answer = "true" /\ mem' = Apply(mem, u)
  <2>1. /\ u \in Transaction /\ u.mail = callbacks[f].pays.mail /\ u.purse = Empty /\ u.bag = Empty
        /\ u.row = callbacks[f].register /\ u.parcel = callbacks[f].pays.parcel
        /\ callbacks[f].register \in Partial(Lots, Offer)
        /\ callbacks[f].pays.parcel \in Partial(Lots, Players)
        /\ callbacks[f].pays.mail \in [Players -> Nat]
    BY CallbackFacts
  <2>2. /\ DOMAIN u.bag = {} /\ DOMAIN u.purse = {}
        /\ \A l \in DOMAIN u.row : u.row[l].owner # Nobody
        /\ \A l \in DOMAIN u.parcel : u.parcel[l] # Nobody
    BY <2>1, OnlyFacts, PartialFacts, NobodyAssumption DEF Offer
  <2> HIDE DEF u
  <2>3. /\ AwaitedIn(callbacks') = AwaitedIn(callbacks) \ {f} /\ f \in AwaitedIn(callbacks)
        /\ AwaitedIn(callbacks) \subseteq DOMAIN callbacks
    BY <1>2, <1>4 DEF AwaitedIn
  <2>4. \A q \in Players : PurseOf'[q] = PurseOf[q]
    <3>1. ASSUME NEW q \in Players PROVE PurseOf'[q] = PurseOf[q]
      <4>1. IsFiniteSet(DOMAIN callbacks)
        BY FinitePlayers, FS_Subset DEF TypeInv
      <4>2. \A g \in DOMAIN callbacks : callbacks[g].pays.mail \in [Players -> Nat]
        BY CallbackFacts
      <4>3. PICK d : d = callbacks'
        OBVIOUS
      <4>4. /\ AwaitedIn(d) = AwaitedIn(callbacks) \ {f}
            /\ \A g \in AwaitedIn(d) : d[g].pays = callbacks[g].pays
        BY <1>2, <2>3, <4>3
      <4>5. /\ OwedIn(d, q) \in Nat
            /\ \A g : g \in AwaitedIn(callbacks) /\ AwaitedIn(d) = AwaitedIn(callbacks) \ {g}
                        => OwedIn(callbacks, q) = OwedIn(d, q) + callbacks[g].pays.mail[q]
        BY <4>1, <4>2, <4>4, OwedCompare, ZenonT(60)
      <4>6. OwedIn(callbacks, q) = OwedIn(d, q) + callbacks[f].pays.mail[q]
        BY <2>3, <4>4, <4>5
      <4>8. callbacks[f].pays.mail[q] \in Nat /\ mem.post[q] \in Nat
        BY <2>1, PurseAt
      <4>9. mem.post[q] + u.mail[q] >= 0 /\ mem \in World
        BY <2>1, <4>8 DEF TypeInv
      <4>7. mem'.purse[q] = mem.purse[q] /\ mem'.post[q] = mem.post[q] + callbacks[f].pays.mail[q]
        <5>1. mem'.purse[q] = mem.purse[q]
          BY <1>4, <2>1, <2>2, <4>9, ApplyFacts
        <5>2. mem'.post[q] = mem.post[q] + u.mail[q]
          BY <1>4, <2>1, <4>9, ApplyFacts
        <5> QED BY <2>1, <5>1, <5>2
      <4> QED BY <4>3, <4>5, <4>6, <4>7, <4>8, PurseAt
    <3> QED BY <3>1
  <2>5. ASSUME NEW l \in Lots
        PROVE  LotIn(mem', callbacks', l) = LotIn(mem, callbacks, l)
    <3>1. /\ RegistersIn(callbacks', l) = RegistersIn(callbacks, l) \ {f}
          /\ ParcelsIn(callbacks', l) = ParcelsIn(callbacks, l) \ {f}
          /\ RegistersIn(callbacks, l) \subseteq AwaitedIn(callbacks)
          /\ ParcelsIn(callbacks, l) \subseteq AwaitedIn(callbacks)
          /\ f \in RegistersIn(callbacks, l) <=> l \in DOMAIN u.row
          /\ f \in ParcelsIn(callbacks, l) <=> l \in DOMAIN u.parcel
      BY <1>2, <2>1, <2>3 DEF RegistersIn, ParcelsIn
    <3>2. PICK x \in Place : Agrees(x, l)
      BY DEF LotsInv, LotInv
    <3>3. Registers(l) = RegistersIn(callbacks, l) /\ Parcels(l) = ParcelsIn(callbacks, l)
      BY LedgerIs
    <3>4. Registers(l) # {} \/ Parcels(l) # {} =>
            /\ mem.bag[l] = Nobody /\ mem.parcel[l] = Nobody /\ mem.row[l] = NoRow
            /\ \/ Parcels(l) = {} /\ \E g : Registers(l) = {g}
               \/ Registers(l) = {} /\ \E g : Parcels(l) = {g}
      <4>1. Registers(l) # {} \/ Parcels(l) # {} => PlaceOf(mem, l) = Nowhere
        BY <3>2, Present
      <4>2. PlaceOf(mem, l) = Nowhere =>
              mem.bag[l] = Nobody /\ mem.parcel[l] = Nobody /\ mem.row[l] = NoRow
        BY SpotFacts DEF TypeInv, Clear, Listed
      <4>3. Registers(l) # {} \/ Parcels(l) # {} =>
              \/ Parcels(l) = {} /\ \E g : Registers(l) = {g}
              \/ Registers(l) = {} /\ \E g : Parcels(l) = {g}
        BY <3>2 DEF Agrees
      <4> QED BY <4>1, <4>2, <4>3
    <3>5. /\ mem'.bag[l] = mem.bag[l]
          /\ mem'.parcel[l] = IF l \in DOMAIN u.parcel THEN u.parcel[l] ELSE mem.parcel[l]
          /\ mem'.row[l] = IF l \in DOMAIN u.row THEN u.row[l] ELSE mem.row[l]
      BY <1>4, <2>1, <2>2, ApplyFacts DEF TypeInv
    <3>6. PICK w : w = mem'
      OBVIOUS
    <3>7. CASE l \in DOMAIN u.row
      <4>1. RegistersIn(callbacks, l) = {f} /\ RegistersIn(callbacks', l) = {}
        BY <3>1, <3>3, <3>4, <3>7
      <4>2. callbacks[f].register[l] = u.row[l] /\ w.row[l] = u.row[l] /\ u.row[l].owner # Nobody
        BY <2>1, <2>2, <3>5, <3>6, <3>7
      <4>3. LotIn(mem, callbacks, l)
              = Ledger!Listed(callbacks[f].register[l].owner, callbacks[f].register[l].bidder,
                              callbacks[f].register[l].bid)
        BY <4>1, <4>2, EntryCases
      <4>4. LotIn(w, callbacks', l) = Ledger!Listed(w.row[l].owner, w.row[l].bidder, w.row[l].bid)
        BY <4>1, <4>2, EntryCases
      <4> QED BY <3>6, <4>2, <4>3, <4>4
    <3>8. CASE l \in DOMAIN u.parcel
      <4>1. /\ ParcelsIn(callbacks, l) = {f} /\ RegistersIn(callbacks, l) = {}
            /\ RegistersIn(callbacks', l) = {} /\ l \notin DOMAIN u.row
            /\ mem.bag[l] = Nobody /\ mem.parcel[l] = Nobody /\ mem.row[l] = NoRow
        BY <3>1, <3>3, <3>4, <3>8
      <4>2. /\ callbacks[f].pays.parcel[l] = u.parcel[l] /\ w.parcel[l] = u.parcel[l]
            /\ u.parcel[l] # Nobody /\ w.bag[l] = Nobody /\ w.row[l] = NoRow
        BY <2>1, <2>2, <3>5, <3>6, <3>8, <4>1
      <4>3. LotIn(mem, callbacks, l) = Ledger!Owned(callbacks[f].pays.parcel[l])
        BY <4>1, EntryCases
      <4>4. LotIn(w, callbacks', l) = Ledger!Owned(w.parcel[l])
        BY <4>1, <4>2, EntryCases
      <4> QED BY <3>6, <4>2, <4>3, <4>4
    <3>9. CASE l \notin DOMAIN u.row /\ l \notin DOMAIN u.parcel
      <4>1. ~Touches(u, l)
        BY <2>2, <3>9 DEF Touches
      <4>2. /\ RegistersIn(callbacks', l) = RegistersIn(callbacks, l)
            /\ ParcelsIn(callbacks', l) = ParcelsIn(callbacks, l)
            /\ \A g \in RegistersIn(callbacks, l) : callbacks'[g].register = callbacks[g].register
            /\ \A g \in ParcelsIn(callbacks, l) : callbacks'[g].pays = callbacks[g].pays
        BY <1>2, <2>3, <3>1, <3>9
      <4> QED BY <1>4, <2>1, <4>1, <4>2, EntryKept
    <3> QED BY <3>7, <3>8, <3>9
  <2> QED BY <1>1, <2>4, <2>5, LedgerStutters
<1> QED BY <1>1, <1>3, <1>4

\* What a player would find in the table once the queue has drained is no less
\* than his gold in memory: a handler writes what memory has, and one that may
\* still fail writes no more than was there before it.
Lower(p) ==
    {z \in Nat \X Transaction \X Nat :
       /\ p \notin DOMAIN z[2].purse => z[3] <= z[1]
       /\ p \in DOMAIN z[2].purse => /\ z[3] <= z[2].purse[p]
                                     /\ z[2].asks # NoFuture => z[3] <= z[1]}

Backed(q, d, w, p) ==
    \E a \in Nat : a <= d.purse[p] /\ \E h : Trace(h, q, Nat, Lower(p), a, w.purse[p])

PursesInv == drops = 0 => \A p \in Players : Backed(queue, db, mem, p)

LEMMA LowerStep ==
    \A p, x, t, y : <<x, t, y>> \in Lower(p) <=>
      /\ x \in Nat /\ t \in Transaction /\ y \in Nat
      /\ p \notin DOMAIN t.purse => y <= x
      /\ p \in DOMAIN t.purse => y <= t.purse[p] /\ (t.asks # NoFuture => y <= x)
  BY DEF Lower

LEMMA PursesPrimed ==
    PursesInv' <=> (drops' = 0 => \A p \in Players : Backed(queue', db', mem', p))
  BY DEF PursesInv, Backed

LEMMA BackedAppend ==
    ASSUME NEW q \in Seq(Transaction), NEW t \in Transaction, NEW d, NEW w, NEW v, NEW p,
           Backed(q, d, w, p), <<w.purse[p], t, v.purse[p]>> \in Lower(p)
    PROVE  Backed(Append(q, t), d, v, p)
<1>1. PICK a \in Nat :
        a <= d.purse[p] /\ \E h : Trace(h, q, Nat, Lower(p), a, w.purse[p])
  BY DEF Backed
<1>2. v.purse[p] \in Nat
  BY LowerStep
<1>3. \E h : Trace(h, Append(q, t), Nat, Lower(p), a, v.purse[p])
  BY <1>1, <1>2, TraceAppend
<1> QED BY <1>1, <1>3 DEF Backed

\* The head is taken: it was applied, or it failed.
LEMMA BackedTail ==
    ASSUME NEW q \in Seq(Transaction), q # <<>>, NEW d, NEW e, NEW w, NEW p, Backed(q, d, w, p),
           d.purse[p] \in Nat, e.purse[p] \in Nat,
           \/ e.purse[p] = IF p \in DOMAIN Head(q).purse THEN Head(q).purse[p] ELSE d.purse[p]
           \/ e.purse[p] = d.purse[p] /\ Head(q).asks # NoFuture
    PROVE  Backed(Tail(q), e, w, p)
<1>1. PICK a \in Nat :
        a <= d.purse[p] /\ \E h : Trace(h, q, Nat, Lower(p), a, w.purse[p])
  BY DEF Backed
<1>2. PICK c \in Nat : /\ <<a, Head(q), c>> \in Lower(p)
                       /\ \E h : Trace(h, Tail(q), Nat, Lower(p), c, w.purse[p])
  BY <1>1, TraceTail
<1>3. PICK t : t = Head(q)
  OBVIOUS
<1>4. /\ p \notin DOMAIN t.purse => c <= a
      /\ p \in DOMAIN t.purse => c <= t.purse[p] /\ (t.asks # NoFuture => c <= a)
  BY <1>2, <1>3, LowerStep
<1>5. c <= e.purse[p]
  BY <1>1, <1>3, <1>4
<1> QED BY <1>2, <1>5 DEF Backed

\* The same transactions, some of which nobody waits for any more.
LEMMA BackedAsks ==
    ASSUME NEW q \in Seq(Transaction), NEW r \in Seq(Transaction), NEW d, NEW w, NEW p,
           Backed(q, d, w, p), Len(r) = Len(q),
           \A k \in 1 .. Len(q) : r[k].purse = q[k].purse /\ r[k].asks \in {q[k].asks, NoFuture}
    PROVE  Backed(r, d, w, p)
<1>1. PICK a \in Nat :
        a <= d.purse[p] /\ \E h : Trace(h, q, Nat, Lower(p), a, w.purse[p])
  BY DEF Backed
<1>2. Len(q) \in Nat /\ \A k \in 1 .. Len(q) : r[k] \in Transaction
  OBVIOUS
<1>3. ASSUME NEW k \in 1 .. Len(q), NEW x \in Nat, NEW y \in Nat, <<x, q[k], y>> \in Lower(p)
      PROVE  <<x, r[k], y>> \in Lower(p)
  <2>1. r[k].purse = q[k].purse /\ r[k].asks \in {q[k].asks, NoFuture} /\ r[k] \in Transaction
    BY <1>2
  <2>2. PICK s : s = q[k]
    OBVIOUS
  <2>3. PICK t : t = r[k]
    OBVIOUS
  <2>4. /\ p \notin DOMAIN s.purse => y <= x
        /\ p \in DOMAIN s.purse => y <= s.purse[p] /\ (s.asks # NoFuture => y <= x)
    BY <1>3, <2>2, LowerStep
  <2>5. <<x, t, y>> \in Lower(p)
    BY <2>1, <2>2, <2>3, <2>4, LowerStep
  <2> QED BY <2>3, <2>5
<1>4. \E h : Trace(h, r, Nat, Lower(p), a, w.purse[p])
  BY <1>1, <1>2, <1>3, TraceWeaken
<1> QED BY <1>1, <1>4 DEF Backed

\* Nothing in the queue sets this gold: what memory has is no more than what
\* the table has, and either may be taken for the other.
LEMMA BackedQuiet ==
    ASSUME NEW q \in Seq(Transaction), NEW d, NEW w, NEW p,
           \A k \in 1 .. Len(q) : p \notin DOMAIN q[k].purse
    PROVE  /\ Backed(q, d, w, p) /\ d.purse[p] \in Nat => w.purse[p] <= d.purse[p]
           /\ \A v : v.purse[p] = d.purse[p] /\ d.purse[p] \in Nat => Backed(q, d, v, p)
<1>0. Len(q) \in Nat /\ \A k \in 1 .. Len(q) : q[k] \in Transaction
  OBVIOUS
<1>1. ASSUME Backed(q, d, w, p), d.purse[p] \in Nat
      PROVE  w.purse[p] <= d.purse[p]
  <2>1. PICK a \in Nat :
          a <= d.purse[p] /\ \E h : Trace(h, q, Nat, Lower(p), a, w.purse[p])
    BY <1>1 DEF Backed
  <2> DEFINE C == {x \in Nat : x <= a}
  <2>2. ASSUME NEW k \in 1 .. Len(q), NEW x \in Nat, NEW y \in Nat,
               <<x, q[k], y>> \in Lower(p), x \in C
        PROVE  y \in C
    <3>1. y <= x
      BY <2>2, LowerStep
    <3> QED BY <2>2, <3>1
  <2>3. a \in C
    OBVIOUS
  <2> HIDE DEF C
  <2>4. w.purse[p] \in C
    BY <1>0, <2>1, <2>2, <2>3, TraceKeeps
  <2> QED BY <1>1, <2>1, <2>4 DEF C
<1>2. ASSUME NEW v, v.purse[p] = d.purse[p], d.purse[p] \in Nat
      PROVE  Backed(q, d, v, p)
  <2>0. PICK b \in Nat : b = d.purse[p]
    BY <1>2
  <2> DEFINE h == [k \in 0 .. Len(q) |-> b]
  <2>1. \A k \in 1 .. Len(q) : <<b, q[k], b>> \in Lower(p)
    BY <1>0, <2>0, LowerStep
  <2>2. /\ h \in [0 .. Len(q) -> Nat] /\ h[0] = b /\ h[Len(q)] = b
        /\ \A k \in 1 .. Len(q) : h[k-1] = b /\ h[k] = b
    BY <1>0
  <2> HIDE DEF h
  <2>3. Trace(h, q, Nat, Lower(p), b, b)
    BY <2>1, <2>2 DEF Trace
  <2> QED BY <1>2, <2>0, <2>3 DEF Backed
<1> QED BY <1>1, <1>2

\* A handler sends what it has set in memory; if it may fail, that is no more
\* than was there.
LEMMA SendPurses ==
    ASSUME TypeInv, TypeInv', PursesInv, NEW t \in Transaction, Send(t), db' = db, drops' = drops,
           \A q \in Players : <<mem.purse[q], t, mem'.purse[q]>> \in Lower(q)
    PROVE  PursesInv'
<1>1. queue' = Append(queue, t) /\ queue \in Seq(Transaction)
  BY SendFacts DEF TypeInv
<1>2. PICK w : w = mem'
  OBVIOUS
<1>3. ASSUME drops = 0, NEW p \in Players PROVE Backed(Append(queue, t), db, w, p)
  <2>1. Backed(queue, db, mem, p) /\ <<mem.purse[p], t, w.purse[p]>> \in Lower(p)
    BY <1>2, <1>3 DEF PursesInv
  <2> QED BY <1>1, <2>1, BackedAppend
<1>4. drops' = 0 => \A p \in Players : Backed(queue', db', mem', p)
  BY <1>1, <1>2, <1>3
<1> QED BY <1>4, PursesPrimed

LEMMA QuietPurses ==
    ASSUME PursesInv, queue' = queue, db' = db, drops' = drops,
           \A q \in Players : mem'.purse[q] = mem.purse[q]
    PROVE  PursesInv'
<1>1. drops' = 0 => \A p \in Players : Backed(queue', db', mem', p)
  BY DEF PursesInv, Backed
<1> QED BY <1>1, PursesPrimed

LEMMA HandlerPurses ==
    ASSUME TypeInv, TypeInv', PursesInv, NEW t \in Transaction, NEW u \in Transaction, Send(t),
           mem' = Apply(mem, u), u.purse = t.purse, db' = db, drops' = drops,
           t.asks # NoFuture => \A q \in DOMAIN t.purse : t.purse[q] <= mem.purse[q]
    PROVE  PursesInv'
<1>1. ASSUME NEW q \in Players
      PROVE  <<mem.purse[q], t, mem'.purse[q]>> \in Lower(q)
  <2>1. mem'.purse[q] = IF q \in DOMAIN t.purse THEN t.purse[q] ELSE mem.purse[q]
    BY ApplyFacts DEF TypeInv
  <2>2. mem.purse[q] \in Nat /\ mem'.purse[q] \in Nat
    <3>1. mem.purse \in [Players -> Nat] /\ mem'.purse \in [Players -> Nat]
      BY WorldFacts DEF TypeInv
    <3> QED BY <3>1
  <2>3. PICK x \in Nat : x = mem.purse[q]
    BY <2>2
  <2>4. PICK y \in Nat : y = mem'.purse[q]
    BY <2>2
  <2>5. <<x, t, y>> \in Lower(q)
    BY <2>1, <2>3, <2>4, LowerStep
  <2> QED BY <2>3, <2>4, <2>5
<1> QED BY <1>1, SendPurses

LEMMA SellPurses ==
    ASSUME TypeInv, TypeInv', PursesInv, NEW p \in Players, NEW l \in Lots, SellItem(p, l)
    PROVE  PursesInv'
<1> DEFINE t == SellTx(p, l)
           u == WithoutRow(SellTx(p, l))
<1>1. mem' = Apply(mem, u) /\ Send(t) /\ UNCHANGED <<db, session, leaves, faults, drops>>
  BY SellSends
<1>2. t \in Transaction /\ u \in Transaction
  BY SellType
<1>3. t.purse = Only(p, mem.purse[p] - Deposit)
  BY TxFacts DEF SellTx
<1>4. u.purse = t.purse
  BY <1>2 DEF WithoutRow, Transaction
<1>5. PICK rest : rest = mem.purse[p] - Deposit
  OBVIOUS
<1>6. t.purse = Only(p, rest)
  BY <1>3, <1>5
<1>7. DOMAIN t.purse = {p} /\ t.purse[p] = rest
  BY <1>6, OnlyFacts
<1> HIDE DEF t, u
<1>8. rest <= mem.purse[p]
  <2>1. mem.purse[p] \in Nat
    BY PurseAt
  <2> QED BY <1>5, <2>1, GoldAssumption
<1>9. \A q \in DOMAIN t.purse : t.purse[q] <= mem.purse[q]
  BY <1>7, <1>8
<1> QED BY <1>1, <1>2, <1>4, <1>9, HandlerPurses

\* A bid costs something: it is more than the last one, and so is the buyout.
LEMMA BidPurses ==
    ASSUME TypeInv, TypeInv', PursesInv, Cheap, NEW p \in Players, NEW l \in Lots,
           NEW price \in Prices, PlaceBid(p, l, price)
    PROVE  PursesInv'
<1> DEFINE t == BidTx(p, l, price)
<1>0. PICK cost : cost = Cost(p, mem.row[l], Paid(l, price))
  OBVIOUS
<1>1. /\ mem' = Apply(mem, t) /\ Send(t) /\ Listed(mem, l) /\ price > mem.row[l].bid
      /\ UNCHANGED <<db, session, sales, leaves, faults, drops>>
  BY BidSends
<1>2. t \in Transaction /\ Paid(l, price) \in Nat /\ cost \in Int
  BY <1>0, BidType
<1>3. t.purse = Only(p, mem.purse[p] - cost)
  BY <1>0, TxFacts DEF BidTx
<1>4. PICK rest : rest = mem.purse[p] - cost
  OBVIOUS
<1>5. t.purse = Only(p, rest)
  BY <1>3, <1>4
<1>6. DOMAIN t.purse = {p} /\ t.purse[p] = rest
  BY <1>5, OnlyFacts
<1> HIDE DEF t
<1>7. cost >= 0
  <2>1. mem.row[l].bid \in Nat /\ price \in Nat /\ Buyout[l] \in Nat
    BY WorldFacts, LotAssumption DEF TypeInv
  <2>2. Paid(l, price) > mem.row[l].bid
    <3>1. CASE Buys(l, price)
      BY <1>1, <2>1, <3>1 DEF Paid, Buys, Cheap
    <3>2. CASE ~Buys(l, price)
      BY <1>1, <3>2 DEF Paid
    <3> QED BY <3>1, <3>2
  <2> QED BY <1>0, <1>2, <2>1, <2>2 DEF Cost
<1>8. rest <= mem.purse[p]
  <2>1. mem.purse[p] \in Nat
    BY PurseAt
  <2> QED BY <1>2, <1>4, <1>7, <2>1
<1>9. \A q \in DOMAIN t.purse : t.purse[q] <= mem.purse[q]
  BY <1>6, <1>8
<1> QED BY <1>1, <1>2, <1>9, HandlerPurses

LEMMA PlainPurses ==
    ASSUME TypeInv, TypeInv', PursesInv, NEW p, NEW l, NEW ended, NEW t, Plain(p, l, ended, t)
    PROVE  PursesInv'
<1>1. /\ t \in Transaction /\ t.asks = NoFuture /\ Send(t) /\ mem' = Apply(mem, t)
      /\ UNCHANGED <<db, session, callbacks, sales, leaves, faults, drops>>
  BY PlainSteps
<1> QED BY <1>1, HandlerPurses

LEMMA CallbackPurses ==
    ASSUME TypeInv, TypeInv', PursesInv, NEW f \in DOMAIN callbacks, ProcessCallback(f)
    PROVE  PursesInv'
<1>1. /\ UNCHANGED <<db, session, sales, leaves, faults, drops>>
      /\ mem' = mem \/ mem' = Apply(mem, CallbackTx(f))
      /\ queue' = queue \/ Send(callbacks[f].pays)
  BY CallbackSteps
<1>2. /\ CallbackTx(f) \in Transaction /\ CallbackTx(f).purse = Empty
      /\ callbacks[f].pays \in Transaction /\ callbacks[f].pays.purse = Empty
  BY CallbackFacts
<1>3. \A q \in Players : mem'.purse[q] = mem.purse[q]
  <2>1. CASE mem' = mem
    BY <2>1
  <2>2. CASE mem' = Apply(mem, CallbackTx(f))
    BY <1>2, <2>2, ApplyFacts, OnlyFacts DEF TypeInv
  <2> QED BY <1>1, <2>1, <2>2
<1>4. CASE queue' = queue
  BY <1>1, <1>3, <1>4, QuietPurses
<1>5. CASE Send(callbacks[f].pays)
  <2>1. DOMAIN callbacks[f].pays.purse = {}
    BY <1>2, OnlyFacts
  <2>2. ASSUME NEW q \in Players
        PROVE  <<mem.purse[q], callbacks[f].pays, mem'.purse[q]>> \in Lower(q)
    <3>1. PICK x \in Nat : x = mem.purse[q]
      BY PurseAt
    <3>2. PICK t \in Transaction : t = callbacks[f].pays
      BY <1>2
    <3>3. <<x, t, x>> \in Lower(q)
      BY <2>1, <3>2, LowerStep
    <3> QED BY <1>3, <3>1, <3>2, <3>3
  <2> QED BY <1>1, <1>2, <1>5, <2>2, SendPurses
<1> QED BY <1>1, <1>4, <1>5

LEMMA CommitPurses ==
    ASSUME TypeInv, TypeInv', PursesInv, Commit
    PROVE  PursesInv'
<1>1. /\ queue # <<>> /\ db' = Apply(db, Head(queue)) /\ queue' = Tail(queue)
      /\ mem' = mem /\ drops' = drops
  BY DEF Commit
<1>2. queue \in Seq(Transaction) /\ Head(queue) \in Transaction /\ db \in World
  BY <1>1, HeadFacts DEF TypeInv
<1>3. PICK e : e = db'
  OBVIOUS
<1>4. ASSUME drops = 0, NEW p \in Players PROVE Backed(Tail(queue), e, mem, p)
  <2>1. e.purse[p] = IF p \in DOMAIN Head(queue).purse THEN Head(queue).purse[p] ELSE db.purse[p]
    BY <1>1, <1>2, <1>3, ApplyFacts
  <2>2. Backed(queue, db, mem, p)
    BY <1>4 DEF PursesInv
  <2>3. db.purse[p] \in Nat /\ e.purse[p] \in Nat
    <3>1. db.purse \in [Players -> Nat] /\ e.purse \in [Players -> Nat]
      BY <1>1, <1>2, <1>3, ApplyFacts, WorldFacts
    <3> QED BY <3>1
  <2> QED BY <1>1, <1>2, <2>1, <2>2, <2>3, BackedTail
<1>5. drops' = 0 => \A p \in Players : Backed(queue', db', mem', p)
  BY <1>1, <1>3, <1>4
<1> QED BY <1>5, PursesPrimed

LEMMA FailPurses ==
    ASSUME TypeInv, PursesInv, Fail
    PROVE  PursesInv'
<1>1. /\ queue # <<>> /\ Head(queue).asks # NoFuture /\ queue' = Tail(queue)
      /\ mem' = mem /\ db' = db /\ drops' = drops
  BY DEF Fail
<1>2. queue \in Seq(Transaction) /\ db \in World
  BY DEF TypeInv
<1>3. ASSUME drops = 0, NEW p \in Players PROVE Backed(Tail(queue), db, mem, p)
  <2>1. Backed(queue, db, mem, p) /\ db.purse[p] \in Nat
    BY <1>2, <1>3, WorldFacts DEF PursesInv
  <2> QED BY <1>1, <1>2, <2>1, BackedTail
<1>4. drops' = 0 => \A p \in Players : Backed(queue', db', mem', p)
  BY <1>1, <1>3
<1> QED BY <1>4, PursesPrimed

LEMMA DropPurses ==
    ASSUME TypeInv, Drop
    PROVE  PursesInv'
<1>1. drops' # 0
  BY DEF Drop, TypeInv
<1> QED BY <1>1, PursesPrimed

LEMMA LeavePurses ==
    ASSUME TypeInv, PursesInv, NEW p \in Players, Leave(p)
    PROVE  PursesInv'
<1>1. /\ UNCHANGED <<mem, db, sales, faults, drops>> /\ Len(queue) \in Nat
      /\ \E q \in Seq(Transaction) :
           /\ queue' = Append(q, SaveTx(p)) \/ queue' = q
           /\ Len(q) = Len(queue)
           /\ \A k \in 1 .. Len(queue) :
                /\ q[k].purse = queue[k].purse /\ q[k].bag = queue[k].bag
                /\ q[k].parcel = queue[k].parcel /\ q[k].row = queue[k].row
                /\ q[k].mail = queue[k].mail
                /\ q[k].asks = IF queue[k].asks \in DOMAIN callbacks' THEN queue[k].asks
                               ELSE NoFuture
  BY LeaveFacts, ZenonT(60)
<1>2. PICK q \in Seq(Transaction) :
         /\ queue' = Append(q, SaveTx(p)) \/ queue' = q
         /\ Len(q) = Len(queue)
         /\ \A k \in 1 .. Len(queue) :
              /\ q[k].purse = queue[k].purse /\ q[k].bag = queue[k].bag
              /\ q[k].parcel = queue[k].parcel /\ q[k].row = queue[k].row
              /\ q[k].mail = queue[k].mail
              /\ q[k].asks = IF queue[k].asks \in DOMAIN callbacks' THEN queue[k].asks
                             ELSE NoFuture
  BY <1>1
<1>3. SaveTx(p) \in Transaction /\ SaveTx(p).purse = Only(p, mem.purse[p])
      /\ SaveTx(p).asks = NoFuture
  BY SaveType, TxFacts DEF SaveTx
<1>4. DOMAIN SaveTx(p).purse = {p} /\ SaveTx(p).purse[p] = mem.purse[p]
  <2>1. PICK x : x = mem.purse[p]
    OBVIOUS
  <2>2. SaveTx(p).purse = Only(p, x)
    BY <1>3, <2>1
  <2> QED BY <2>1, <2>2, OnlyFacts
<1>5. ASSUME drops = 0, NEW r \in Players
      PROVE  Backed(q, db, mem, r) /\ Backed(Append(q, SaveTx(p)), db, mem, r)
  <2>1. Backed(queue, db, mem, r)
    BY <1>5 DEF PursesInv
  <2>2. \A k \in 1 .. Len(queue) : q[k].purse = queue[k].purse
                                   /\ q[k].asks \in {queue[k].asks, NoFuture}
    BY <1>2
  <2>3. queue \in Seq(Transaction)
    BY DEF TypeInv
  <2>4. Backed(q, db, mem, r)
    BY <1>2, <2>1, <2>2, <2>3, BackedAsks
  <2>5. PICK x \in Nat : x = mem.purse[r]
    BY PurseAt
  <2>6. PICK t \in Transaction : t = SaveTx(p)
    BY <1>3
  <2>7. <<x, t, x>> \in Lower(r)
    BY <1>3, <1>4, <2>5, <2>6, LowerStep
  <2> QED BY <2>4, <2>5, <2>6, <2>7, BackedAppend
<1>6. drops' = 0 => \A r \in Players : Backed(queue', db', mem', r)
  BY <1>1, <1>2, <1>5
<1> QED BY <1>6, PursesPrimed

LEMMA ReturnPurses ==
    ASSUME TypeInv, PursesInv, NEW p \in Players, Return(p)
    PROVE  PursesInv'
<1>1. /\ \A k \in 1 .. Len(queue) :
           /\ p \notin DOMAIN queue[k].purse /\ queue[k].mail[p] = 0
           /\ \A l \in DOMAIN queue[k].parcel : queue[k].parcel[l] # p
      /\ mem'.purse = [mem.purse EXCEPT ![p] = db.purse[p]]
      /\ UNCHANGED <<db, queue, callbacks, sales, leaves, faults, drops>>
  BY ReturnFacts, ZenonT(60)
<1>2. PICK w : w = mem'
  OBVIOUS
<1>3. mem.purse \in [Players -> Nat] /\ db.purse \in [Players -> Nat]
      /\ queue \in Seq(Transaction)
  BY WorldFacts DEF TypeInv
<1>4. ASSUME drops = 0, NEW r \in Players PROVE Backed(queue, db, w, r)
  <2>1. CASE r = p
    <3>1. w.purse[p] = db.purse[p] /\ db.purse[p] \in Nat
      BY <1>1, <1>2, <1>3
    <3>2. \A k \in 1 .. Len(queue) : p \notin DOMAIN queue[k].purse
      BY <1>1
    <3> QED BY <1>3, <2>1, <3>1, <3>2, BackedQuiet
  <2>2. CASE r # p
    <3>1. w.purse[r] = mem.purse[r]
      BY <1>1, <1>2, <1>3, <2>2
    <3>2. Backed(queue, db, mem, r)
      BY <1>4 DEF PursesInv
    <3> QED BY <3>1, <3>2 DEF Backed
  <2> QED BY <2>1, <2>2
<1>5. drops' = 0 => \A r \in Players : Backed(queue', db', mem', r)
  BY <1>1, <1>2, <1>4
<1> QED BY <1>5, PursesPrimed

\* An auction that is not there has no bid, and a bid is below the buyout.
Tidy(r, l) ==
    /\ r.owner = Nobody => r = NoRow
    /\ r.owner # Nobody /\ Buyout[l] # 0 => r.bid < Buyout[l]

LEMMA TidyIs == Clear /\ Cheap <=> \A l \in Lots : Tidy(mem.row[l], l)
  BY DEF Clear, Cheap, Tidy, Listed

LEMMA TidyPrimed == (Clear /\ Cheap)' <=> \A l \in Lots : Tidy(mem'.row[l], l)
  BY DEF Clear, Cheap, Tidy, Listed

LEMMA TidyRows ==
    /\ \A l \in Lots : Tidy(NoRow, l)
    /\ \A l \in Lots : \A r \in Offer : Tidy(r, l)
<1>1. NoRow.owner = Nobody
  BY DEF NoRow
<1>2. \A l \in Lots : Buyout[l] \in Nat
  BY LotAssumption
<1> QED BY <1>1, <1>2 DEF Tidy, Offer

LEMMA TidyApply ==
    ASSUME TypeInv, Clear, Cheap, NEW u \in Transaction, mem' = Apply(mem, u),
           \A l \in DOMAIN u.row : Tidy(u.row[l], l)
    PROVE  (Clear /\ Cheap)'
<1>1. ASSUME NEW l \in Lots PROVE Tidy(mem'.row[l], l)
  <2>1. mem'.row[l] = IF l \in DOMAIN u.row THEN u.row[l] ELSE mem.row[l]
    BY ApplyFacts DEF TypeInv
  <2>2. Tidy(mem.row[l], l)
    BY TidyIs
  <2> QED BY <2>1, <2>2
<1> QED BY <1>1, TidyPrimed

LEMMA TidySame ==
    ASSUME Clear, Cheap, mem'.row = mem.row
    PROVE  (Clear /\ Cheap)'
  BY TidyIs, TidyPrimed

LEMMA SellTidy ==
    ASSUME TypeInv, Clear, Cheap, NEW p \in Players, NEW l \in Lots, SellItem(p, l)
    PROVE  (Clear /\ Cheap)'
<1> DEFINE u == WithoutRow(SellTx(p, l))
<1>1. mem' = Apply(mem, u)
  BY SellSends
<1>2. u \in Transaction
  BY SellType
<1>3. u.row = Empty
  BY TxExcept, TxFacts DEF SellTx, WithoutRow
<1> HIDE DEF u
<1> QED BY <1>1, <1>2, <1>3, TidyApply, OnlyFacts

LEMMA BidTidy ==
    ASSUME TypeInv, Clear, Cheap, NEW p \in Players, NEW l \in Lots, NEW price \in Prices,
           PlaceBid(p, l, price)
    PROVE  (Clear /\ Cheap)'
<1> DEFINE t == BidTx(p, l, price)
<1>1. /\ mem' = Apply(mem, t) /\ Listed(mem, l) /\ t \in Transaction
      /\ Bid(p, l, price).owner = mem.row[l].owner /\ Bid(p, l, price).bid = Paid(l, price)
  BY BidSends, BidType
<1>2. PICK r : r = IF Buys(l, price) THEN NoRow ELSE Bid(p, l, price)
  OBVIOUS
<1>3. t.row = Only(l, r)
  BY <1>2, TxFacts DEF BidTx
<1>4. Tidy(r, l)
  <2>1. CASE Buys(l, price)
    BY <1>2, <2>1, TidyRows
  <2>2. CASE ~Buys(l, price)
    <3>1. r.owner # Nobody /\ r.bid = price
      BY <1>1, <1>2, <2>2 DEF Listed, Paid
    <3>2. price \in Nat /\ Buyout[l] \in Nat /\ (Buyout[l] # 0 => price < Buyout[l])
      BY <2>2, LotAssumption DEF Buys
    <3> QED BY <3>1, <3>2 DEF Tidy
  <2> QED BY <2>1, <2>2
<1>5. DOMAIN t.row = {l} /\ t.row[l] = r
  BY <1>3, OnlyFacts
<1> HIDE DEF t
<1> QED BY <1>1, <1>4, <1>5, TidyApply

LEMMA PlainTidy ==
    ASSUME TypeInv, Clear, Cheap, NEW p, NEW l, NEW ended, NEW t, Plain(p, l, ended, t)
    PROVE  (Clear /\ Cheap)'
<1>1. t \in Transaction /\ mem' = Apply(mem, t)
  BY PlainSteps
<1>2. \A m \in DOMAIN t.row : m \in Lots /\ t.row[m] = NoRow
  <2>1. CASE p \in Players /\ l \in Lots /\ RemoveItem(p, l) /\ t = RemoveTx(p, l)
    <3>1. t.row = Only(l, NoRow)
      BY <2>1, TxFacts DEF RemoveTx
    <3>2. DOMAIN t.row = {l} /\ t.row[l] = NoRow
      BY <3>1, OnlyFacts
    <3> QED BY <2>1, <3>2
  <2>2. CASE ended \in SUBSET Lots /\ Update(ended) /\ t = UpdateTx(ended)
    <3>1. t.row = [m \in ended |-> NoRow]
      BY <2>2, TxFacts DEF UpdateTx
    <3> QED BY <2>2, <3>1
  <2>3. CASE p \in Players /\ TakeMoney(p) /\ t = MoneyTx(p)
    <3>1. t.row = Empty
      BY <2>3, TxFacts DEF MoneyTx
    <3> QED BY <3>1, OnlyFacts
  <2>4. CASE p \in Players /\ l \in Lots /\ TakeItem(p, l) /\ t = ItemTx(p, l)
    <3>1. t.row = Empty
      BY <2>4, TxFacts DEF ItemTx
    <3> QED BY <3>1, OnlyFacts
  <2> QED BY <2>1, <2>2, <2>3, <2>4 DEF Plain
<1>3. \A m \in DOMAIN t.row : Tidy(t.row[m], m)
  BY <1>2, TidyRows
<1> QED BY <1>1, <1>3, TidyApply

LEMMA CallbackTidy ==
    ASSUME TypeInv, Clear, Cheap, NEW f \in DOMAIN callbacks, ProcessCallback(f)
    PROVE  (Clear /\ Cheap)'
<1>1. mem' = mem \/ mem' = Apply(mem, CallbackTx(f))
  BY CallbackSteps
<1>2. /\ CallbackTx(f) \in Transaction /\ CallbackTx(f).row = callbacks[f].register
      /\ callbacks[f].register \in Partial(Lots, Offer)
  BY CallbackFacts
<1>3. \A m \in DOMAIN CallbackTx(f).row : Tidy(CallbackTx(f).row[m], m)
  <2>1. \A m \in DOMAIN CallbackTx(f).row : m \in Lots /\ CallbackTx(f).row[m] \in Offer
    BY <1>2, PartialFacts
  <2> QED BY <2>1, TidyRows
<1>4. CASE mem' = mem
  BY <1>4, TidySame
<1>5. CASE mem' = Apply(mem, CallbackTx(f))
  BY <1>2, <1>3, <1>5, TidyApply
<1> QED BY <1>1, <1>4, <1>5

----------------------------------------------------------------------------
LedgerInv == Clear /\ Cheap /\ PursesInv

LEMMA LedgerInvInit == Init => LedgerInv
<1> SUFFICES ASSUME Init PROVE LedgerInv
  OBVIOUS
<1>1. PICK owner \in [Lots -> Players], bidder \in [Lots -> Players \cup {Nobody}],
           listed \in SUBSET Lots :
        /\ \A l \in Lots : bidder[l] = Nobody \/ Buyout[l] = 0 \/ StartBid[l] < Buyout[l]
        /\ db = LoadAuctions(owner, bidder, listed) /\ mem = db
  BY Zenon DEF Init
<1>2. mem.row = [l \in Lots |->
         IF l \in listed
           THEN [owner |-> owner[l], bidder |-> bidder[l],
                 bid |-> IF bidder[l] = Nobody THEN 0 ELSE StartBid[l]]
           ELSE NoRow]
  <2>1. mem = LoadAuctions(owner, bidder, listed)
    BY <1>1
  <2> QED BY <2>1, Zenon DEF LoadAuctions
<1>3. ASSUME NEW l \in Lots PROVE Tidy(mem.row[l], l)
  <2>1. CASE l \notin listed
    BY <1>2, <2>1, TidyRows
  <2>2. CASE l \in listed
    <3>1. PICK b : b = IF bidder[l] = Nobody THEN 0 ELSE StartBid[l]
      OBVIOUS
    <3>2. mem.row[l] = [owner |-> owner[l], bidder |-> bidder[l], bid |-> b]
      BY <1>2, <2>2, <3>1
    <3>3. mem.row[l].owner # Nobody /\ mem.row[l].bid = b
      BY <3>2, NobodyAssumption
    <3>4. Buyout[l] # 0 => b < Buyout[l]
      <4>1. Buyout[l] \in Nat /\ StartBid[l] \in Nat
        BY LotAssumption
      <4>2. bidder[l] = Nobody \/ Buyout[l] = 0 \/ StartBid[l] < Buyout[l]
        BY <1>1
      <4> QED BY <3>1, <4>1, <4>2
    <3> QED BY <3>3, <3>4 DEF Tidy
  <2> QED BY <2>1, <2>2
<1>4. Clear /\ Cheap
  BY <1>3, TidyIs
<1>5. PursesInv
  <2>1. db \in World /\ queue = <<>>
    BY DEF Init
  <2>2. ASSUME NEW p \in Players PROVE Backed(queue, db, mem, p)
    <3>1. db.purse[p] \in Nat
      BY <2>1, WorldFacts
    <3>2. queue \in Seq(Transaction) /\ Len(queue) = 0
      BY <2>1
    <3>3. \A k \in 1 .. Len(queue) : p \notin DOMAIN queue[k].purse
      BY <3>2
    <3>4. mem.purse[p] = db.purse[p]
      BY <1>1
    <3> QED BY <3>1, <3>2, <3>3, <3>4, BackedQuiet
  <2> QED BY <2>2 DEF PursesInv
<1> QED BY <1>4, <1>5 DEF LedgerInv

LEMMA LedgerInvNext == TypeInv /\ TypeInv' /\ LedgerInv /\ [Next]_vars => LedgerInv'
<1> SUFFICES ASSUME TypeInv, TypeInv', LedgerInv, [Next]_vars PROVE LedgerInv'
  OBVIOUS
<1>0. Clear /\ Cheap /\ PursesInv
  BY DEF LedgerInv
<1>a. ASSUME (Clear /\ Cheap)', PursesInv' PROVE LedgerInv'
  BY <1>a DEF LedgerInv
<1>1. CASE \E p \in Players, l \in Lots : SellItem(p, l)
  BY <1>0, <1>1, <1>a, SellTidy, SellPurses
<1>2. CASE \E p \in Players, l \in Lots : \E price \in Prices : PlaceBid(p, l, price)
  BY <1>0, <1>2, <1>a, BidTidy, BidPurses
<1>3. CASE \E p, l, ended, t : Plain(p, l, ended, t)
  BY <1>0, <1>3, <1>a, PlainTidy, PlainPurses
<1>4. CASE \E f \in DOMAIN callbacks : ProcessCallback(f)
  BY <1>0, <1>4, <1>a, CallbackTidy, CallbackPurses
<1>5. CASE Commit
  <2>1. mem' = mem
    BY <1>5 DEF Commit
  <2> QED BY <1>0, <1>5, <1>a, <2>1, TidySame, CommitPurses
<1>6. CASE Fail
  <2>1. mem' = mem
    BY <1>6 DEF Fail
  <2> QED BY <1>0, <1>6, <1>a, <2>1, TidySame, FailPurses
<1>10. CASE Drop
  <2>1. mem' = mem
    BY <1>10 DEF Drop
  <2> QED BY <1>0, <1>10, <1>a, <2>1, TidySame, DropPurses
<1>7. CASE \E p \in Players : Leave(p)
  <2>1. mem' = mem
    BY <1>7 DEF Leave
  <2> QED BY <1>0, <1>7, <1>a, <2>1, TidySame, LeavePurses
<1>8. CASE \E p \in Players : Return(p)
  <2>1. mem'.row = mem.row
    BY <1>8, ReturnFacts, ZenonT(60)
  <2> QED BY <1>0, <1>8, <1>a, <2>1, TidySame, ReturnPurses
<1>9. CASE UNCHANGED vars
  <2>1. mem' = mem /\ queue' = queue /\ db' = db /\ drops' = drops
    BY <1>9 DEF vars
  <2> QED BY <1>0, <1>a, <2>1, TidySame, QuietPurses
<1> QED BY <1>1, <1>2, <1>3, <1>4, <1>5, <1>6, <1>7, <1>8, <1>9, <1>10, NextCases

\* What the player who is back finds in his bags and mails: what he had there,
\* and what was nowhere.
LEMMA ReturnPlace ==
    ASSUME TypeInv, NEW l \in Lots, LotInv(l), drops = 0, NEW p \in Players, Return(p)
    PROVE  \/ mem'.bag[l] = mem.bag[l] /\ mem'.parcel[l] = mem.parcel[l]
           \/ /\ PlaceOf(mem, l) = Nowhere /\ Registers(l) = {} /\ Parcels(l) = {}
              /\ mem'.bag[l] = p \/ (mem'.bag[l] = Nobody /\ mem'.parcel[l] = p)
<1>1. /\ \A k \in 1 .. Len(queue) :
           /\ p \notin DOMAIN queue[k].purse /\ queue[k].mail[p] = 0
           /\ \A m \in DOMAIN queue[k].parcel : queue[k].parcel[m] # p
      /\ \A m \in Lots : mem'.bag[m] = IF db.bag[m] = p THEN p
                                       ELSE IF mem.bag[m] = p THEN Nobody ELSE mem.bag[m]
      /\ \A m \in Lots : mem'.parcel[m] = IF db.parcel[m] = p THEN p
                                          ELSE IF mem.parcel[m] = p THEN Nobody
                                          ELSE mem.parcel[m]
  BY ReturnFacts, ZenonT(60)
<1>2. PICK x \in Place : Drains(x, l) /\ Agrees(x, l)
  BY DEF LotInv
<1>3. mem \in World /\ Len(queue) \in Nat
  BY DEF TypeInv
<1>4. (x.bag = p <=> db.bag[l] = p) /\ (x.parcel = p <=> db.parcel[l] = p)
  <2>1. PlaceOf(db, l) \in Place /\ \E h : Trace(h, queue, Place, LotSteps(l), PlaceOf(db, l), x)
    BY <1>2, DrainsFacts
  <2>2. PlaceOf(db, l).bag = db.bag[l] /\ PlaceOf(db, l).parcel = db.parcel[l]
    BY DEF PlaceOf
  <2> QED BY <1>1, <1>3, <2>1, <2>2, TraceHolds
<1>5. PICK b : b = mem'.bag[l]
  OBVIOUS
<1>6. PICK c : c = mem'.parcel[l]
  OBVIOUS
<1>7. /\ b = IF x.bag = p THEN p ELSE IF mem.bag[l] = p THEN Nobody ELSE mem.bag[l]
      /\ c = IF x.parcel = p THEN p ELSE IF mem.parcel[l] = p THEN Nobody ELSE mem.parcel[l]
  BY <1>1, <1>4, <1>5, <1>6
<1>8. CASE x = PlaceOf(mem, l)
  <2>1. x.bag = mem.bag[l] /\ x.parcel = mem.parcel[l]
    BY <1>8 DEF PlaceOf
  <2> QED BY <1>5, <1>6, <1>7, <2>1
<1>9. CASE x # PlaceOf(mem, l)
  <2>1. PlaceOf(mem, l) = Nowhere
    BY <1>2, <1>9 DEF Agrees
  <2>2. mem.bag[l] = Nobody /\ mem.parcel[l] = Nobody /\ p # Nobody
    BY <1>3, <2>1, SpotFacts, NobodyAssumption
  <2>3. CASE x.bag # p /\ x.parcel # p
    BY <1>5, <1>6, <1>7, <2>2, <2>3
  <2>4. CASE x.bag = p \/ x.parcel = p
    <3>1. x.owner = Nobody /\ x # Nowhere
      BY <2>2, <2>4, PlaceFacts DEF Place
    <3>2. Registers(l) = {} /\ Parcels(l) = {}
      BY <1>2, <1>9, <3>1 DEF Agrees
    <3> QED BY <1>5, <1>6, <1>7, <2>1, <2>2, <2>4, <3>2
  <2> QED BY <2>3, <2>4
<1> QED BY <1>8, <1>9

LEMMA ReturnEntry ==
    ASSUME TypeInv, LotsInv, Intact, Clear, drops = 0, NEW p \in Players, Return(p), NEW l \in Lots
    PROVE  \/ LotIn(mem', callbacks', l) = LotIn(mem, callbacks, l)
           \/ /\ LotIn(mem, callbacks, l) = Ledger!Missing
              /\ LotIn(mem', callbacks', l) = Ledger!Owned(p)
<1>1. mem'.row = mem.row /\ UNCHANGED <<db, queue, callbacks, sales, leaves, faults, drops>>
  BY ReturnFacts, ZenonT(60)
<1>2. PICK w : w = mem'
  OBVIOUS
<1>3. CASE mem'.bag[l] = mem.bag[l] /\ mem'.parcel[l] = mem.parcel[l]
  <2>1. w.bag[l] = mem.bag[l] /\ w.parcel[l] = mem.parcel[l] /\ w.row[l] = mem.row[l]
    BY <1>1, <1>2, <1>3
  <2>2. LotIn(w, callbacks, l) = LotIn(mem, callbacks, l)
    BY <2>1, EntrySame
  <2> QED BY <1>1, <1>2, <2>2
<1>4. CASE /\ PlaceOf(mem, l) = Nowhere /\ Registers(l) = {} /\ Parcels(l) = {}
           /\ mem'.bag[l] = p \/ (mem'.bag[l] = Nobody /\ mem'.parcel[l] = p)
  <2>1. mem.bag[l] = Nobody /\ mem.parcel[l] = Nobody /\ mem.row[l] = NoRow
    BY <1>4, SpotFacts DEF TypeInv, Clear, Listed
  <2>2. RegistersIn(callbacks, l) = {} /\ ParcelsIn(callbacks, l) = {}
    BY <1>4, LedgerIs
  <2>3. LotIn(mem, callbacks, l) = Ledger!Missing
    BY <2>1, <2>2, EntryCases
  <2>4. /\ w.row[l] = NoRow /\ p # Nobody
        /\ w.bag[l] = p \/ (w.bag[l] = Nobody /\ w.parcel[l] = p)
    BY <1>1, <1>2, <1>4, <2>1, NobodyAssumption
  <2>5. LotIn(w, callbacks, l) = Ledger!Owned(p)
    BY <2>2, <2>4, EntryCases
  <2> QED BY <1>1, <1>2, <2>3, <2>5
<1>5. LotInv(l)
  BY DEF LotsInv
<1> QED BY <1>3, <1>4, <1>5, ReturnPlace

\* Who is back has at least the gold he had.
LEMMA ReturnPurse ==
    ASSUME TypeInv, PursesInv, drops = 0, NEW p \in Players, Return(p)
    PROVE  /\ PurseOf'[p] >= PurseOf[p]
           /\ \A q \in Players \ {p} : PurseOf'[q] = PurseOf[q]
<1>1. /\ \A k \in 1 .. Len(queue) :
           /\ p \notin DOMAIN queue[k].purse /\ queue[k].mail[p] = 0
           /\ \A l \in DOMAIN queue[k].parcel : queue[k].parcel[l] # p
      /\ mem'.purse = [mem.purse EXCEPT ![p] = db.purse[p]]
      /\ mem'.post = [mem.post EXCEPT ![p] = db.post[p]]
      /\ UNCHANGED <<db, queue, callbacks, sales, leaves, faults, drops>>
  BY ReturnFacts, ZenonT(60)
<1>2. /\ mem.purse \in [Players -> Nat] /\ db.purse \in [Players -> Nat]
      /\ mem.post \in [Players -> Nat] /\ queue \in Seq(Transaction)
  BY WorldFacts DEF TypeInv
<1>3. mem.post[p] = db.post[p]
  BY <1>1, ReturnPost
<1>4. mem.purse[p] <= db.purse[p]
  <2>1. Backed(queue, db, mem, p) /\ db.purse[p] \in Nat
    BY <1>2 DEF PursesInv
  <2>2. \A k \in 1 .. Len(queue) : p \notin DOMAIN queue[k].purse
    BY <1>1
  <2> QED BY <1>2, <2>1, <2>2, BackedQuiet
<1>5. /\ mem'.purse[p] = db.purse[p] /\ mem'.post[p] = mem.post[p]
      /\ \A q \in Players \ {p} : mem'.purse[q] = mem.purse[q] /\ mem'.post[q] = mem.post[q]
  BY <1>1, <1>2, <1>3
<1>6. \A q : OwedIn(callbacks', q) = OwedIn(callbacks, q)
  BY <1>1
<1>7. PurseOf'[p] >= PurseOf[p]
  <2>1. db.purse[p] \in Nat
    BY <1>2
  <2> QED BY <1>4, <1>5, <1>6, <2>1, PurseAt
<1>8. ASSUME NEW q \in Players \ {p} PROVE PurseOf'[q] = PurseOf[q]
  BY <1>5, <1>6, PurseAt
<1> QED BY <1>7, <1>8

\* Without a failure nothing is new; after one, it is what Recover allows.
LEMMA ReturnLedger ==
    ASSUME TypeInv, TypeInv', LotsInv, Intact, GoldInv, Clear, PursesInv,
           NEW p \in Players, Return(p)
    PROVE  Ledger!Entry \/ UNCHANGED ledgerVars
<1>1. session[p] = "left" /\ UNCHANGED <<db, queue, callbacks, sales, leaves, faults, drops>>
  BY ReturnFacts, ZenonT(60)
<1>2. leaves > 0 /\ drops = 0
  BY <1>1 DEF TypeInv, Intact
<1>3. CASE faults = 0
  <2>1. PICK w \in Rich : Ends(w) /\ Follows(w)
    BY <1>2, <1>3 DEF GoldInv
  <2>2. mem' = mem
    BY <1>2, <2>1, ReturnGold
  <2>3. /\ \A q \in Players : PurseOf'[q] = PurseOf[q]
        /\ \A l \in Lots : LotIn(mem', callbacks', l) = LotIn(mem, callbacks, l)
    BY <1>1, <2>2, LedgerIs
  <2> QED BY <1>1, <2>3, LedgerStutters
<1>4. CASE faults # 0
  <2>1. PICK found \in SUBSET Lots :
          \A l \in Lots : l \in found <=> LotIn(mem', callbacks', l) # LotIn(mem, callbacks, l)
    <3>1. {l \in Lots : LotIn(mem', callbacks', l) # LotIn(mem, callbacks, l)} \in SUBSET Lots
      OBVIOUS
    <3> QED BY <3>1
  <2>2. \A l \in Lots :
          /\ l \in found => /\ LotIn(mem, callbacks, l) = Ledger!Missing
                            /\ LotIn(mem', callbacks', l) = Ledger!Owned(p)
          /\ l \notin found => LotIn(mem', callbacks', l) = LotIn(mem, callbacks, l)
    BY <1>2, <2>1, ReturnEntry
  <2>3. /\ LotOf = [l \in Lots |-> LotIn(mem, callbacks, l)]
        /\ LotOf' = [l \in Lots |-> LotIn(mem', callbacks', l)]
    BY LedgerIs
  <2>4. /\ \A l \in found : LotOf[l] = Ledger!Missing
        /\ LotOf' = [l \in Lots |-> IF l \in found THEN Ledger!Owned(p) ELSE LotOf[l]]
    BY <2>2, <2>3
  <2>5. PurseOf'[p] >= PurseOf[p] /\ \A q \in Players \ {p} : PurseOf'[q] = PurseOf[q]
    BY <1>2, ReturnPurse
  <2>6. PurseOf' = [PurseOf EXCEPT ![p] = PurseOf'[p]]
    <3>1. PICK F : F = [PurseOf EXCEPT ![p] = PurseOf'[p]]
      OBVIOUS
    <3>2. F = [q \in Players |-> F[q]] /\ \A q \in Players : PurseOf'[q] = F[q]
      BY <2>5, <3>1, PurseDomain
    <3> QED BY <3>1, <3>2, PurseUpdate
  <2>7. faults > 0 /\ leaves' = leaves /\ faults' = faults
    BY <1>1, <1>4 DEF TypeInv
  <2>8. Ledger!Recover
    BY <1>2, <2>4, <2>5, <2>6, <2>7 DEF Ledger!Recover
  <2> QED BY <2>8 DEF Ledger!Entry
<1> QED BY <1>3, <1>4

----------------------------------------------------------------------------
LEMMA LedgerInit == Init => Ledger!Init
<1> SUFFICES ASSUME Init PROVE Ledger!Init
  OBVIOUS
<1>1. TypeInv /\ LedgerInv
  BY TypeInit, LedgerInvInit
<1>2. LotsInv
  BY InitLot DEF LotsInv
<1>3. PurseOf \in [Players -> Nat]
  <2>1. \A q \in Players : PurseOf[q] \in Nat
    BY <1>1, PurseAt
  <2>2. PurseOf = [q \in Players |-> PurseOf[q]]
    BY LedgerIs
  <2> QED BY <2>1, <2>2
<1>4. leaves = 0 /\ faults = 0 /\ Intact = TRUE
  BY DEF Init, Intact
<1>5. ASSUME NEW l \in Lots
      PROVE  \E p \in Players :
               \/ LotOf[l] = Ledger!Owned(p)
               \/ \E q \in Players \cup {Nobody} : LotOf[l] = Ledger!Listed(p, q, LotOf[l].bid)
  <2>1. mem \in World
    BY <1>1 DEF TypeInv
  <2>2. CASE Listed(mem, l)
    <3>1. LotOf[l] = Ledger!Listed(mem.row[l].owner, mem.row[l].bidder, mem.row[l].bid)
      BY <1>1, <1>2, <2>2, <1>4, LotAt DEF LedgerInv
    <3>2. LotOf[l].bid = mem.row[l].bid
      BY <3>1 DEF Ledger!Listed
    <3>3. mem.row[l] \in Row
      BY <2>1, WorldFacts
    <3>4. mem.row[l].owner \in Players /\ mem.row[l].bidder \in Players \cup {Nobody}
      BY <2>2, <3>3 DEF Row, Listed
    <3> QED BY <3>1, <3>2, <3>4
  <2>3. CASE ~Listed(mem, l)
    <3>1. mem.bag[l] # Nobody
      <4>1. PICK owner \in [Lots -> Players], bidder \in [Lots -> Players \cup {Nobody}],
                 listed \in SUBSET Lots : mem = LoadAuctions(owner, bidder, listed)
        BY DEF Init
      <4>2. /\ mem.bag = [m \in Lots |-> IF m \in listed THEN Nobody ELSE owner[m]]
            /\ mem.row = [m \in Lots |->
                  IF m \in listed
                    THEN [owner |-> owner[m], bidder |-> bidder[m],
                          bid |-> IF bidder[m] = Nobody THEN 0 ELSE StartBid[m]]
                    ELSE NoRow]
        BY <4>1, Zenon DEF LoadAuctions
      <4>3. owner[l] \in Players /\ owner[l] # Nobody
        BY NobodyAssumption
      <4>4. l \in listed => mem.row[l].owner = owner[l]
        BY <4>2
      <4>5. l \notin listed
        BY <2>3, <4>3, <4>4 DEF Listed
      <4> QED BY <4>2, <4>3, <4>5
    <3>2. LotOf[l] = Ledger!Owned(mem.bag[l])
      BY <1>1, <1>2, <3>1, <1>4, LotAt DEF LedgerInv
    <3>3. mem.bag[l] \in Players
      BY <2>1, <3>1, WorldFacts
    <3> QED BY <3>2, <3>3
  <2> QED BY <2>2, <2>3
<1> QED BY <1>3, <1>4, <1>5 DEF Ledger!Init

LEMMA LedgerEntry ==
    ASSUME TypeInv, TypeInv', LotsInv, Intact, Intact', GoldInv, LedgerInv, [Next]_vars
    PROVE  Ledger!Entry \/ UNCHANGED ledgerVars
<1>0. Clear /\ Cheap /\ PursesInv
  BY DEF LedgerInv
<1>1. CASE \E p \in Players, l \in Lots : SellItem(p, l)
  BY <1>0, <1>1, SellLedger
<1>2. CASE \E p \in Players, l \in Lots : \E price \in Prices : PlaceBid(p, l, price)
  BY <1>0, <1>2, BidLedger
<1>3. CASE \E p, l, ended, t : Plain(p, l, ended, t)
  <2>1. PICK p, l, ended, t : Plain(p, l, ended, t)
    BY <1>3
  <2>2. CASE p \in Players /\ l \in Lots /\ RemoveItem(p, l)
    BY <1>0, <2>2, RemoveLedger
  <2>3. CASE ended \in SUBSET Lots /\ Update(ended)
    BY <1>0, <2>3, UpdateLedger
  <2>4. CASE p \in Players /\ TakeMoney(p)
    BY <2>4, MoneyLedger
  <2>5. CASE p \in Players /\ l \in Lots /\ TakeItem(p, l)
    BY <1>0, <2>5, ItemLedger
  <2> QED BY <2>1, <2>2, <2>3, <2>4, <2>5 DEF Plain
<1>4. CASE \E f \in DOMAIN callbacks : ProcessCallback(f)
  BY <1>0, <1>4, CallbackLedger
<1>5. CASE Commit
  BY <1>0, <1>5, CommitLedger
<1>6. CASE Fail
  BY <1>0, <1>6, FailLedger
<1>7. CASE \E p \in Players : Leave(p)
  BY <1>0, <1>7, LeaveLedger
<1>8. CASE \E p \in Players : Return(p)
  BY <1>0, <1>8, ReturnLedger
<1>9. CASE Drop \/ UNCHANGED vars
  <2>1. mem' = mem /\ callbacks' = callbacks /\ leaves' = leaves /\ faults' = faults
    BY <1>9 DEF Drop, vars
  <2>2. PurseOf' = PurseOf /\ LotOf' = LotOf
    BY <2>1, LedgerIs
  <2>3. Intact' = Intact
    BY DEF Intact
  <2> QED BY <2>1, <2>2, <2>3 DEF ledgerVars
<1> QED BY <1>1, <1>2, <1>3, <1>4, <1>5, <1>6, <1>7, <1>8, <1>9, NextCases

LEMMA LedgerNext ==
    ASSUME TypeInv, TypeInv', LotsInv, GoldInv, LedgerInv, [Next]_vars
    PROVE  Ledger!Next \/ UNCHANGED ledgerVars
<1>1. CASE Intact'
  <2>1. Intact
    BY <1>1, IntactStays
  <2>2. Ledger!Entry \/ UNCHANGED ledgerVars
    BY <1>1, <2>1, LedgerEntry
  <2> QED BY <2>1, <2>2 DEF Ledger!Next
<1>2. CASE ~Intact'
  BY <1>2 DEF Ledger!Next
<1> QED BY <1>1, <1>2

LEMMA LedgerAlways == Spec => [](TypeInv /\ LotsInv /\ GoldInv /\ LedgerInv)
<1>1. Spec => [](TypeInv /\ LotsInv /\ GoldInv)
  BY GoldAlways
<1>2. Init => LedgerInv
  BY LedgerInvInit
<1>3. TypeInv /\ TypeInv' /\ LedgerInv /\ [Next]_vars => LedgerInv'
  BY LedgerInvNext
<1> QED BY <1>1, <1>2, <1>3, PTL DEF Spec

\* The auction house keeps the ledger its players expect: every coin and every item moves
\* as a bid, a sale, a return or a withdrawal says, in whatever order handlers, expiry,
\* callbacks and the database worker run.  A lost session or a failed transaction takes
\* away and gives nobody anything; who left after a failure may find a missing item again,
\* and gold.  All of this until a player who left reads tables that miss a transaction.
THEOREM LedgerIsImplemented == Spec => ImplementsLedger
<1>1. Init => Ledger!Init
  BY LedgerInit
<1>2. /\ (TypeInv /\ LotsInv /\ GoldInv /\ LedgerInv) /\ TypeInv' /\ [Next]_vars
      => [Ledger!Next]_<<PurseOf, LotOf, leaves, faults, Intact>>
  BY LedgerNext DEF ledgerVars
<1> QED BY <1>1, <1>2, LedgerAlways, PTL DEF Spec, ImplementsLedger, Ledger!Spec

=============================================================================
