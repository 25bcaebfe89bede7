---------------------------- MODULE AuctionHouse ----------------------------
(***************************************************************************)
(* The auction house: the handlers that sell, bid and cancel                *)
(* (Handlers/AuctionHouseHandler.cpp), the expiry of auctions and their     *)
(* mails (AuctionHouse/AuctionHouseMgr.cpp), against the queue of the       *)
(* character database.  A handler changes memory at once, hands a           *)
(* transaction to the database and leaves the rest to a callback that only  *)
(* its own session can run, ticks later.                                    *)
(***************************************************************************)
EXTENDS Integers, SequencesExt

CONSTANTS
    Players,     \* characters, one per account
    Nobody,
    Lots,        \* items, and the auctions of them
    Deposit,     \* GetAuctionDeposit
    CutPct,      \* the cut of the house, in percent of the bid
    StartBid, Buyout,   \* what the seller asks, per lot; Buyout 0: none
    Prices,      \* prices the clients send
    StartGold,   \* what a player owns, bids and deposits included
    Futures,     \* bound: callbacks that wait at a time
    NoFuture,
    MaxQueue,    \* bound: transactions waiting for the database
    MaxSales,    \* bound: items put up for sale
    MaxLeaves,   \* bound: connections lost
    MaxFailures  \* bound: transactions that fail

ASSUME GoldAssumption == Deposit \in Nat /\ CutPct \in 0 .. 100
ASSUME LotAssumption == /\ StartBid \in [Lots -> Nat] /\ Buyout \in [Lots -> Nat]
                        /\ Prices \subseteq Nat \ {0} /\ StartGold \in Nat
ASSUME NobodyAssumption == Nobody \notin Players /\ NoFuture \notin Futures
ASSUME FiniteAssumption == IsFiniteSet(Players) /\ IsFiniteSet(Lots) /\ IsFiniteSet(Futures)
ASSUME LimitAssumption == MaxQueue \in Nat /\ MaxSales \in Nat
                          /\ MaxLeaves \in Nat /\ MaxFailures \in Nat

VARIABLES
    mem,        \* the world in memory: gold, mail, items and auctions
    db,         \* the tables of the character database, of the same shape
    queue,      \* transactions handed to the database, in order
    session,    \* per player: "in" or "left"
    callbacks,  \* _transactionCallbacks of the sessions, by the future they wait for
    sales, leaves,
    faults,     \* transactions that failed and whose callback was told so
    drops       \* transactions that failed and that nobody waited for

vars == <<mem, db, queue, session, callbacks, sales, leaves, faults, drops>>

NoRow == [owner |-> Nobody, bidder |-> Nobody, bid |-> 0]
Row == [owner : Players \cup {Nobody}, bidder : Players \cup {Nobody}, bid : Nat]

\* purse: characters.money; post: gold in the mail; bag, parcel: who has the
\* item in his inventory, in his mail; row: auctionhouse.
World == [purse : [Players -> Nat], post : [Players -> Nat],
          bag : [Lots -> Players \cup {Nobody}],
          parcel : [Lots -> Players \cup {Nobody}], row : [Lots -> Row]]

\* A transaction: the values it sets, the gold it mails, the future it answers.
Empty == [x \in {} |-> x]
Nothing == [purse |-> Empty, bag |-> Empty, parcel |-> Empty, row |-> Empty,
            mail |-> [p \in Players |-> 0], asks |-> NoFuture]
Only(x, value) == [y \in {x} |-> value]

Set(old, writes) ==
    [x \in DOMAIN old |-> IF x \in DOMAIN writes THEN writes[x] ELSE old[x]]

\* A mail that is missing from the tables is not there to be emptied.
Apply(w, t) ==
    [purse |-> Set(w.purse, t.purse), bag |-> Set(w.bag, t.bag),
     parcel |-> Set(w.parcel, t.parcel), row |-> Set(w.row, t.row),
     post |-> [p \in Players |-> IF w.post[p] + t.mail[p] < 0 THEN 0
                                 ELSE w.post[p] + t.mail[p]]]

Listed(w, l) == w.row[l].owner # Nobody

\* GetAuctionCut and GetAuctionOutBid.
Cut(bid) == (bid * CutPct) \div 100
OutBid(bid) == IF (bid * 5) \div 100 > 0 THEN (bid * 5) \div 100 ELSE 1

\* LoadAuctionItems and LoadAuctions, on a database that holds every item once.
\* A bid in it is below the buyout: one that reaches it was a purchase.
LoadAuctions(owner, bidder, listed) ==
    [purse |-> [p \in Players |-> StartGold - SumFunction(
         [l \in listed |-> (IF owner[l] = p THEN Deposit ELSE 0)
                            + (IF bidder[l] = p THEN StartBid[l] ELSE 0)])],
     post |-> [p \in Players |-> 0],
     bag |-> [l \in Lots |-> IF l \in listed THEN Nobody ELSE owner[l]],
     parcel |-> [l \in Lots |-> Nobody],
     row |-> [l \in Lots |->
         IF l \in listed
           THEN [owner |-> owner[l], bidder |-> bidder[l],
                 bid |-> IF bidder[l] = Nobody THEN 0 ELSE StartBid[l]]
           ELSE NoRow]]

Init ==
    \E owner \in [Lots -> Players], bidder \in [Lots -> Players \cup {Nobody}],
       listed \in SUBSET Lots :
      /\ \A l \in Lots : bidder[l] # owner[l] /\ (l \notin listed => bidder[l] = Nobody)
      /\ \A l \in Lots : bidder[l] = Nobody \/ Buyout[l] = 0 \/ StartBid[l] < Buyout[l]
      /\ db = LoadAuctions(owner, bidder, listed)
      /\ db \in World
      /\ mem = db /\ queue = <<>>
      /\ session = [p \in Players |-> "in"]
      /\ callbacks = Empty
      /\ sales = 0 /\ leaves = 0 /\ faults = 0 /\ drops = 0

----------------------------------------------------------------------------
(* The packet handlers.                                                    *)

\* Faults of Send: the gold of the player is left out; so is DeleteFromDB.
SendUnsaved(t) ==
    Len(queue) < MaxQueue /\ queue' = Append(queue, [t EXCEPT !.purse = Empty])
SendUndeleted(t) ==
    LET kept == {l \in DOMAIN t.row : t.row[l] # NoRow}
    IN  /\ Len(queue) < MaxQueue
        /\ queue' = Append(queue, [t EXCEPT !.row = [l \in kept |-> t.row[l]]])

\* BeginTransaction to CommitTransaction.
Send(t) == Len(queue) < MaxQueue /\ queue' = Append(queue, t)

FreeFuture == DOMAIN callbacks # Futures
NewFuture == CHOOSE f \in Futures : f \notin DOMAIN callbacks

\* AddTransactionCallback: what the callback registers in memory and what it
\* mails, if the transaction succeeds.
Await(p, register, pays) ==
    LET c == [session |-> p, answer |-> "none", register |-> register, pays |-> pays]
    IN  callbacks' = [f \in DOMAIN callbacks \cup {NewFuture} |->
                        IF f = NewFuture THEN c ELSE callbacks[f]]

\* Fault: any gold will do.
HasSomeMoney(p, gold) == mem.purse[p] > 0
HasEnoughMoney(p, gold) == mem.purse[p] >= gold

\* HandleAuctionSellItem: the deposit and the item leave the seller at once,
\* the auction is in memory only when the callback has run.
SellItem(p, l) ==
    LET row == [owner |-> p, bidder |-> Nobody, bid |-> 0]
        t == [Nothing EXCEPT !.purse = Only(p, mem.purse[p] - Deposit),
                             !.bag = Only(l, Nobody), !.row = Only(l, row), !.asks = NewFuture]
    IN  /\ session[p] = "in" /\ mem.bag[l] = p /\ ~Listed(mem, l)
        /\ HasEnoughMoney(p, Deposit) /\ sales < MaxSales /\ FreeFuture
        /\ sales' = sales + 1
        /\ mem' = Apply(mem, [t EXCEPT !.row = Empty])
        /\ Send(t)
        /\ Await(p, Only(l, row), Nothing)
        /\ UNCHANGED <<db, session, leaves, faults, drops>>

\* SendAuctionOutbiddedMail, SendAuctionSuccessfulMail, SendAuctionWonMail.
Refund(a) == [p \in Players |-> IF p = a.bidder THEN a.bid ELSE 0]
Profit(a) == [p \in Players |-> IF p = a.owner THEN a.bid + Deposit - Cut(a.bid) ELSE 0]
Both(m, n) == [p \in Players |-> m[p] + n[p]]

\* Who raises his own bid pays the difference.  Fault: he pays it all.
CostInFull(p, a, paid) == paid
Cost(p, a, paid) == IF a.bidder = p THEN paid - a.bid ELSE paid

\* HandleAuctionPlaceBid: a bid or a buyout.
PlaceBid(p, l, price) ==
    LET a == mem.row[l]
        buys == Buyout[l] # 0 /\ price >= Buyout[l]
        paid == IF buys THEN Buyout[l] ELSE price
        bid == [a EXCEPT !.bidder = p, !.bid = paid]
        t == [Nothing EXCEPT !.purse = Only(p, mem.purse[p] - Cost(p, a, paid)),
                             !.row = Only(l, IF buys THEN NoRow ELSE bid), !.asks = NewFuture]
        refund == IF a.bidder \in {p, Nobody} THEN Nothing.mail ELSE Refund(a)
    IN  /\ session[p] = "in" /\ Listed(mem, l) /\ a.owner # p
        /\ price > a.bid /\ price >= StartBid[l]
        /\ buys \/ price >= a.bid + OutBid(a.bid)
        /\ HasEnoughMoney(p, price) /\ FreeFuture
        /\ mem' = Apply(mem, t)
        /\ Send(t)
        /\ Await(p, Empty,
                 [Nothing EXCEPT !.mail = IF buys THEN Both(refund, Profit(bid)) ELSE refund,
                                 !.parcel = IF buys THEN Only(l, p) ELSE Empty])
        /\ UNCHANGED <<db, session, sales, leaves, faults, drops>>

\* HandleAuctionRemoveItem: one transaction, no callback.
RemoveItem(p, l) ==
    LET a == mem.row[l]
        t == [Nothing EXCEPT
                !.purse = IF a.bidder = Nobody THEN Empty
                          ELSE Only(p, mem.purse[p] - Cut(a.bid)),
                !.mail = IF a.bidder = Nobody THEN @ ELSE Refund(a),
                !.parcel = Only(l, p), !.row = Only(l, NoRow)]
    IN  /\ session[p] = "in" /\ Listed(mem, l) /\ a.owner = p
        /\ a.bidder # Nobody => HasEnoughMoney(p, Cut(a.bid))
        /\ mem' = Apply(mem, t)
        /\ Send(t)
        /\ UNCHANGED <<db, session, callbacks, sales, leaves, faults, drops>>

\* AuctionHouseObject::Update: whatever has expired, in one transaction.
Update(ended) ==
    LET Sold(l) == mem.row[l].bidder # Nobody
        Gets(p, l) == IF Sold(l) THEN Profit(mem.row[l])[p] ELSE 0
        t == [Nothing EXCEPT
                !.mail = [p \in Players |-> SumFunction([l \in ended |-> Gets(p, l)])],
                !.parcel = [l \in ended |-> IF Sold(l) THEN mem.row[l].bidder
                                            ELSE mem.row[l].owner],
                !.row = [l \in ended |-> NoRow]]
    IN  /\ ended # {} /\ \A l \in ended : Listed(mem, l)
        /\ mem' = Apply(mem, t)
        /\ Send(t)
        /\ UNCHANGED <<db, session, callbacks, sales, leaves, faults, drops>>

\* HandleMailTakeMoney and HandleMailTakeItem, for the mails sent above: they
\* set the absolute amount of gold, like every handler.
TakeMoney(p) ==
    LET gold == mem.post[p]
        t == [Nothing EXCEPT !.purse = Only(p, mem.purse[p] + gold), !.mail[p] = -gold]
    IN  /\ session[p] = "in" /\ gold > 0
        /\ mem' = Apply(mem, t)
        /\ Send(t)
        /\ UNCHANGED <<db, session, callbacks, sales, leaves, faults, drops>>

\* Fault: the mail keeps it.
TakeItemAgain(p, l) ==
    LET t == [Nothing EXCEPT !.bag = Only(l, p), !.purse = Only(p, mem.purse[p])]
    IN  /\ session[p] = "in" /\ mem.parcel[l] = p
        /\ mem' = Apply(mem, t)
        /\ Send(t)
        /\ UNCHANGED <<db, session, callbacks, sales, leaves, faults, drops>>

TakeItem(p, l) ==
    LET t == [Nothing EXCEPT !.bag = Only(l, p), !.parcel = Only(l, Nobody),
                             !.purse = Only(p, mem.purse[p])]
    IN  /\ session[p] = "in" /\ mem.parcel[l] = p
        /\ mem' = Apply(mem, t)
        /\ Send(t)
        /\ UNCHANGED <<db, session, callbacks, sales, leaves, faults, drops>>

----------------------------------------------------------------------------
(* The sessions and the database worker.                                   *)

\* A callback that is not ready is passed over, whatever was added before or
\* after it.  One that was told of a failure returns at once.
ProcessCallback(f) ==
    LET c == callbacks[f]
        done == c.answer = "true"
    IN  /\ c.answer # "none"
        /\ mem' = IF done THEN Apply(mem, [c.pays EXCEPT !.row = c.register]) ELSE mem
        /\ IF done /\ c.pays # Nothing THEN Send(c.pays) ELSE UNCHANGED queue
        /\ callbacks' = Restrict(callbacks, DOMAIN callbacks \ {f})
        /\ UNCHANGED <<db, session, sales, leaves, faults, drops>>

\* The promise of the task; its callback may be gone with its session.
Answer(f, answer) ==
    IF f = NoFuture THEN callbacks ELSE [callbacks EXCEPT ![f].answer = answer]

\* The worker commits the transaction at the head and answers its future.
Commit ==
    /\ queue # <<>>
    /\ db' = Apply(db, Head(queue))
    /\ queue' = Tail(queue)
    /\ callbacks' = Answer(Head(queue).asks, "true")
    /\ UNCHANGED <<mem, session, sales, leaves, faults, drops>>

\* The transaction of a waiting callback fails and is rolled back.
Fail ==
    /\ queue # <<>> /\ Head(queue).asks # NoFuture /\ faults + drops < MaxFailures
    /\ queue' = Tail(queue)
    /\ callbacks' = Answer(Head(queue).asks, "false")
    /\ faults' = faults + 1
    /\ UNCHANGED <<mem, db, session, sales, leaves, drops>>

\* A transaction nobody waits for fails: an error, or a deadlock of a minute.
\* It is cleaned up, and nothing in memory learns of it.
Drop ==
    /\ queue # <<>> /\ Head(queue).asks = NoFuture /\ faults + drops < MaxFailures
    /\ queue' = Tail(queue)
    /\ drops' = drops + 1
    /\ UNCHANGED <<mem, db, session, callbacks, sales, leaves, faults>>

\* The connection is lost and the session moves to m_offlineSessions, where no
\* callback runs.  ~WorldSession saves the character when its body leaves the
\* world, unless callbacks were waiting, answered or not: they go with it.
Leave(p) ==
    LET lost == {f \in DOMAIN callbacks : callbacks[f].session = p}
        unasked == [k \in DOMAIN queue |->
                      [queue[k] EXCEPT !.asks = IF @ \in DOMAIN callbacks' THEN @ ELSE NoFuture]]
    IN  /\ session[p] = "in" /\ leaves < MaxLeaves /\ Len(queue) < MaxQueue
        /\ session' = [session EXCEPT ![p] = "left"]
        /\ callbacks' = Restrict(callbacks, DOMAIN callbacks \ lost)
        /\ queue' = IF lost = {}
                      THEN Append(unasked, [Nothing EXCEPT !.purse = Only(p, mem.purse[p])])
                      ELSE unasked
        /\ leaves' = leaves + 1
        /\ UNCHANGED <<mem, db, sales, faults, drops>>

\* What p holds in memory once it has been read from a table.
Loaded(held, table, p) ==
    [l \in Lots |-> IF table[l] = p THEN p ELSE IF held[l] = p THEN Nobody ELSE held[l]]

\* The player is back: his gold, his items and his mails are read after all
\* that was sent for him.
Return(p) ==
    /\ session[p] = "left"
    /\ \A k \in DOMAIN queue :
         /\ p \notin DOMAIN queue[k].purse /\ queue[k].mail[p] = 0
         /\ \A l \in DOMAIN queue[k].parcel : queue[k].parcel[l] # p
    /\ session' = [session EXCEPT ![p] = "in"]
    /\ mem' = [mem EXCEPT !.purse[p] = db.purse[p], !.post[p] = db.post[p],
                          !.bag = Loaded(@, db.bag, p), !.parcel = Loaded(@, db.parcel, p)]
    /\ UNCHANGED <<db, queue, callbacks, sales, leaves, faults, drops>>

Next ==
    \/ \E p \in Players, l \in Lots :
         \/ SellItem(p, l)
         \/ \E price \in Prices : PlaceBid(p, l, price)
         \/ RemoveItem(p, l) \/ TakeItem(p, l)
    \/ \E ended \in SUBSET Lots : Update(ended)
    \/ \E p \in Players : TakeMoney(p) \/ Leave(p) \/ Return(p)
    \/ \E f \in DOMAIN callbacks : ProcessCallback(f)
    \/ Commit \/ Fail \/ Drop

Spec == Init /\ [][Next]_vars

----------------------------------------------------------------------------
(* Properties.                                                             *)

TypeOK ==
    /\ mem \in World /\ db \in World
    /\ \A k \in DOMAIN queue : queue[k].asks \in DOMAIN callbacks \cup {NoFuture}
    /\ session \in [Players -> {"in", "left"}]
    /\ DOMAIN callbacks \subseteq Futures
    /\ \A f \in DOMAIN callbacks : callbacks[f].answer \in {"none", "true", "false"}
    /\ sales \in 0 .. MaxSales /\ leaves \in 0 .. MaxLeaves
    /\ faults \in Nat /\ drops \in Nat /\ faults + drops <= MaxFailures

\* The callbacks that still have an effect.
Awaited == {f \in DOMAIN callbacks : callbacks[f].answer # "false"}
Registers(l) == {f \in Awaited : l \in DOMAIN callbacks[f].register}
Parcels(l) == {f \in Awaited : l \in DOMAIN callbacks[f].pays.parcel}

Places(w, l) ==
    Cardinality({r \in {"bag"} : w.bag[l] # Nobody} \cup {r \in {"parcel"} : w.parcel[l] # Nobody}
                \cup {r \in {"row"} : Listed(w, l)})

\* Memory is not harmed by a transaction that is dropped until a player who
\* left reads the tables it is missing from.
Intact == drops = 0 \/ leaves = 0

\* An item is in one bag, one mail or one auction, or a callback is about to
\* put it there: it is never sold twice, mailed twice or both (AddAItem
\* asserts a part of it), and it is lost only with a session or a failure.
OneItem ==
    Intact =>
      \A l \in Lots :
        LET n == Places(mem, l) + Cardinality(Registers(l)) + Cardinality(Parcels(l))
        IN  n <= 1 /\ (n = 0 => leaves > 0 \/ faults > 0)

Worth(w) ==
      SumFunction([p \in Players |-> w.purse[p] + w.post[p]])
    + SumFunction([l \in Lots |-> IF Listed(w, l) THEN w.row[l].bid + Deposit ELSE 0])

\* Whenever the process dies, the database holds every item at most once,
\* unless a transaction nobody waited for has failed, and, unless any has, no
\* gold that was not there at the start: what is paid is durable no later than
\* what it pays for.
DurableSound ==
    drops = 0 =>
      /\ \A l \in Lots : Places(db, l) <= 1
      /\ faults = 0 => Worth(db) <= StartGold * Cardinality(Players)

\* When the database has caught up it holds what the world holds, unless a
\* transaction failed; an auction it holds alone waits for its seller's
\* callback, or lost it.
Flushed ==
    queue = <<>> /\ faults = 0 /\ drops = 0 =>
        /\ db.purse = mem.purse /\ db.post = mem.post
        /\ db.bag = mem.bag /\ db.parcel = mem.parcel
        /\ \A l \in Lots : db.row[l] # mem.row[l] =>
             /\ ~Listed(mem, l) /\ db.row[l].bidder = Nobody
             /\ Registers(l) # {} \/ leaves > 0

\* The ledger a player would keep: what a callback is going to mail is his.
Owed(p) == SumFunction([f \in Awaited |-> callbacks[f].pays.mail[p]])

PurseOf == [p \in Players |-> mem.purse[p] + mem.post[p] + Owed(p)]

HolderOf(l) ==
    IF mem.bag[l] # Nobody THEN mem.bag[l]
    ELSE IF mem.parcel[l] # Nobody THEN mem.parcel[l]
    ELSE IF Parcels(l) # {} THEN callbacks[CHOOSE f \in Parcels(l) : TRUE].pays.parcel[l]
    ELSE Nobody

RowOf(l) ==
    IF Registers(l) # {} THEN callbacks[CHOOSE f \in Registers(l) : TRUE].register[l]
    ELSE mem.row[l]

LotOf == [l \in Lots |->
    LET a == RowOf(l)
        listed == a.owner # Nobody
    IN  [owner |-> IF listed THEN a.owner ELSE HolderOf(l), listed |-> listed,
         bidder |-> a.bidder, bid |-> a.bid]]

Ledger == INSTANCE AuctionLedger WITH
            purse <- PurseOf, lot <- LotOf, left <- leaves, failed <- faults, kept <- Intact

\* The auction house keeps the ledger: every coin and every item moves as a
\* bid, a sale, a return or a withdrawal says, whatever the order in which
\* handlers, expiry, callbacks and the database worker run, and as long as no
\* player reads tables that miss a transaction.
ImplementsLedger == Ledger!Spec
=============================================================================
