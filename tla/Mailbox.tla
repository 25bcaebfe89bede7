------------------------------ MODULE Mailbox ------------------------------
(***************************************************************************)
(* Mail between players: the handlers (Handlers/MailHandler.cpp), the       *)
(* sending (Mails/Mail.cpp), the loading and saving of a player's box       *)
(* (Entities/Player/Player.cpp) and the expiry of old mails, which reads    *)
(* the database past the queue (ObjectMgr::ReturnOrDeleteOldMails).  A box  *)
(* is in memory while its player is in the world and in the database all    *)
(* the time; what is enqueued is executed later, in order, and is lost with *)
(* the process.                                                             *)
(***************************************************************************)
EXTENDS Integers, SequencesExt

CONSTANTS
    Players, Nobody,
    Items,
    MaxMails,    \* bound: mails, the ids of GenerateMailID
    Gold,        \* amounts of gold a mail carries
    COD,         \* amounts a mail with an item asks for on delivery
    Postage,
    StartGold,   \* of every player
    MaxQueue,    \* bound: entries of the queue when a handler runs
    MaxScans,    \* bound: mails that expire while the server is up
    MaxCrashes   \* bound: restarts of the process

ASSUME GoldAssumption == /\ Gold \cup COD \subseteq Nat /\ Postage \in Nat /\ StartGold \in Nat
ASSUME LimitAssumption == /\ MaxMails \in Nat /\ MaxQueue \in Nat
                          /\ MaxScans \in Nat /\ MaxCrashes \in Nat
ASSUME NobodyAssumption == Nobody \notin Players
ASSUME FiniteAssumption == IsFiniteSet(Players) /\ IsFiniteSet(Items)

Ids == 1 .. MaxMails

VARIABLES
    db,       \* the tables of the character database
    queue,    \* what is enqueued: transactions, statements, loads of a player
    session,  \* per player: "out", "loading" or "in" (found by ObjectAccessor)
    answer,   \* per player: the answer of his load, once executed
    mem,      \* per player: his gold, his bag and his box while he is in
    nextId,   \* _mailId
    scans, crashes,
    unseen,   \* history: mails to a player in the world that his box cannot show
    raced     \* history: an expired mail was looked at too late or too early

vars == <<db, queue, session, answer, mem, nextId, scans, crashes, unseen, raced>>

\* kind: "sent", "returned" or "payment" (MAIL_CHECK_MASK_RETURNED and
\* _COD_PAYMENT), read: MAIL_CHECK_MASK_READ.
Row == [from : Players, to : Players, gold : Nat, cod : Nat,
        kind : {"sent", "returned", "payment"}, read : BOOLEAN, has : BOOLEAN]
NoRow == [kind |-> "none"]

\* A mail in memory: the row, its items, and MailState.
Mail(row, items) == [row |-> row, items |-> items, state |-> "unchanged"]
NoMail == [state |-> "none"]
Absent == [gold |-> 0, bag |-> {}, box |-> [id \in Ids |-> NoMail]]

----------------------------------------------------------------------------
(* The database.  An entry names the values it sets: gold of characters,    *)
(* mails inserted, fields updated (where the row exists), mails deleted     *)
(* with their items, items by mail, items by inventory, instances deleted.  *)

Empty == [x \in {} |-> x]
Only(x, value) == [y \in {x} |-> value]
Nothing == [gold |-> Empty, ins |-> Empty, upd |-> Empty, del |-> {}, at |-> Empty,
            inv |-> Empty, destroy |-> {}, loads |-> Nobody]

Set(old, writes) ==
    [x \in DOMAIN old |-> IF x \in DOMAIN writes THEN writes[x] ELSE old[x]]

Apply(d, t) ==
    [gold |-> Set(d.gold, t.gold),
     row |-> [id \in Ids |->
                IF id \in t.del THEN NoRow
                ELSE IF id \in DOMAIN t.ins THEN t.ins[id]
                ELSE IF id \in DOMAIN t.upd /\ d.row[id] # NoRow THEN Set(d.row[id], t.upd[id])
                ELSE d.row[id]],
     at |-> [i \in Items |-> IF i \in DOMAIN t.at THEN t.at[i]
                             ELSE IF d.at[i] \in t.del THEN 0 ELSE d.at[i]],
     inv |-> Set(d.inv, t.inv),
     alive |-> d.alive \ t.destroy]

\* What the database will hold when the queue is empty.
Future ==
    LET after[k \in 0 .. Len(queue)] ==
          IF k = 0 THEN db ELSE Apply(after[k - 1], queue[k])
    IN  after[Len(queue)]

IsTo(d, id, p) == d.row[id] # NoRow /\ d.row[id].to = p

\* The items of a mail, as CHAR_SEL_MAIL_ASYNCH joins them.
ItemsOf(d, id) == {i \in d.alive : d.at[i] = id}

\* What LoadFromDB reads of player p: gold, inventory, _LoadMailAsynch.
Load(d, p) ==
    [gold |-> d.gold[p],
     bag |-> {i \in d.alive : d.inv[i] = p},
     box |-> [id \in Ids |-> IF IsTo(d, id, p) THEN Mail(d.row[id], ItemsOf(d, id))
                             ELSE NoMail]]

Init ==
    \E owner \in [Items -> Players] :
      /\ db = [gold |-> [p \in Players |-> StartGold], row |-> [id \in Ids |-> NoRow],
               at |-> [i \in Items |-> 0], inv |-> owner, alive |-> Items]
      /\ queue = <<>>
      /\ session = [p \in Players |-> "out"]
      /\ answer = [p \in Players |-> Absent] /\ mem = answer
      /\ nextId = 1
      /\ scans = 0 /\ crashes = 0
      /\ unseen = {} /\ raced = FALSE

----------------------------------------------------------------------------
(* A player enters and leaves the world.                                    *)

Enqueue(entries) == Len(queue) < MaxQueue /\ queue' = queue \o entries

\* HandlePlayerLoginOpcode: all of the character is asked for in one holder.
Login(p) ==
    /\ session[p] = "out"
    /\ session' = [session EXCEPT ![p] = "loading"]
    /\ Enqueue(<<[Nothing EXCEPT !.loads = p]>>)
    /\ UNCHANGED <<db, answer, mem, nextId, scans, crashes, unseen, raced>>

\* The database worker executes the head of the queue.
Execute ==
    /\ queue # <<>>
    /\ db' = Apply(db, Head(queue))
    /\ queue' = Tail(queue)
    /\ LET p == Head(queue).loads
       IN  answer' = IF p = Nobody THEN answer ELSE [answer EXCEPT ![p] = Load(db, p)]
    /\ UNCHANGED <<session, mem, nextId, scans, crashes, unseen, raced>>

\* HandlePlayerLoginFromDB.
EnterWorld(p) ==
    /\ session[p] = "loading" /\ \A k \in DOMAIN queue : queue[k].loads # p
    /\ session' = [session EXCEPT ![p] = "in"]
    /\ mem' = [mem EXCEPT ![p] = answer[p]]
    /\ answer' = [answer EXCEPT ![p] = Absent]
    /\ UNCHANGED <<db, queue, nextId, scans, crashes, unseen, raced>>

\* _SaveMail: changed mails are updated, deleted ones deleted with their items.
InState(m, state) == {id \in Ids : m.box[id].state = state}

SaveMail(m) ==
    [Nothing EXCEPT
       !.upd = [id \in InState(m, "changed") |->
                  [gold |-> m.box[id].row.gold, cod |-> m.box[id].row.cod,
                   read |-> m.box[id].row.read, has |-> m.box[id].items # {}]],
       !.del = InState(m, "deleted"),
       !.destroy = UNION {m.box[id].items : id \in InState(m, "deleted")}]

Saved(m) ==
    [m EXCEPT !.box = [id \in Ids |->
       IF @[id].state = "deleted" THEN NoMail
       ELSE IF @[id].state = "changed" THEN Mail(@[id].row, @[id].items) ELSE @[id]]]

\* LogoutPlayer: the character is saved, then forgotten.
Logout(p) ==
    /\ session[p] = "in"
    /\ session' = [session EXCEPT ![p] = "out"]
    /\ Enqueue(<<[SaveMail(mem[p]) EXCEPT !.gold = Only(p, mem[p].gold)]>>)
    /\ mem' = [mem EXCEPT ![p] = Absent]
    /\ unseen' = {id \in unseen : ~IsTo(Future, id, p)}
    /\ UNCHANGED <<db, answer, nextId, scans, crashes, raced>>

----------------------------------------------------------------------------
(* The handlers.                                                            *)

\* SendMailTo: the row and the items go to the transaction; a receiver who is
\* in the world gets the mail in his box at once, one who is loading does not.
Post(m, row, items) ==
    IF session[row.to] = "in"
      THEN [m EXCEPT ![row.to].box[nextId] = Mail(row, items)] ELSE m
Posted(t, row, items) ==
    [t EXCEPT !.ins = Only(nextId, row),
              !.at = [i \in items \cup DOMAIN @ |-> IF i \in items THEN nextId ELSE @[i]]]
Unseen(row) == IF session[row.to] = "loading" THEN unseen \cup {nextId} ELSE unseen

Letter(p, q, gold, cod, kind, items) ==
    [from |-> p, to |-> q, gold |-> gold, cod |-> cod, kind |-> kind, read |-> FALSE,
     has |-> items # {}]

\* Fault: nobody counts.
HasNoLimit(p, gold) == TRUE
HasEnoughMoney(p, gold) == mem[p].gold >= gold

\* HandleSendMail: COD is dropped from a mail without items.
SendMail(p, q, gold, cod, items) ==
    LET row == Letter(p, q, gold, IF items = {} THEN 0 ELSE cod, "sent", items)
        left == mem[p].gold - (gold + Postage)
        t == [Nothing EXCEPT !.gold = Only(p, left), !.inv = [i \in items |-> Nobody]]
    IN  /\ session[p] = "in" /\ p # q /\ nextId \in Ids
        /\ items \subseteq mem[p].bag /\ HasEnoughMoney(p, gold + Postage)
        /\ mem' = Post([mem EXCEPT ![p].gold = left, ![p].bag = @ \ items], row, items)
        /\ Enqueue(<<Posted(t, row, items)>>)
        /\ nextId' = nextId + 1
        /\ unseen' = Unseen(row)
        /\ UNCHANGED <<db, session, answer, scans, crashes, raced>>

HasMail(p, id) ==
    /\ session[p] = "in" /\ mem[p].box[id].state \in {"unchanged", "changed"}

\* HandleMailMarkAsRead: saved with the character.
MarkAsRead(p, id) ==
    /\ HasMail(p, id)
    /\ mem' = [mem EXCEPT ![p].box[id] = [@ EXCEPT !.row.read = TRUE, !.state = "changed"]]
    /\ UNCHANGED <<db, queue, session, answer, nextId, scans, crashes, unseen, raced>>

\* HandleMailDelete: likewise, whatever the mail holds.
Delete(p, id) ==
    /\ HasMail(p, id) /\ mem[p].box[id].row.cod = 0
    /\ mem' = [mem EXCEPT ![p].box[id].state = "deleted"]
    /\ UNCHANGED <<db, queue, session, answer, nextId, scans, crashes, unseen, raced>>

\* Fault: RemoveMail is forgotten.
RemoveNoMail(m, p, id) == m
RemoveMail(m, p, id) == [m EXCEPT ![p].box[id] = NoMail]

\* HandleMailReturnToSender: the mail is deleted and a new one sent back.
ReturnToSender(p, id) ==
    LET m == mem[p].box[id]
        row == Letter(p, m.row.from, m.row.gold, 0, "returned", m.items)
    IN  /\ HasMail(p, id) /\ nextId \in Ids
        /\ mem' = Post(RemoveMail(mem, p, id), row, m.items)
        /\ Enqueue(<<Posted([Nothing EXCEPT !.del = {id}], row, m.items)>>)
        /\ nextId' = nextId + 1
        /\ unseen' = Unseen(row)
        /\ UNCHANGED <<db, session, answer, scans, crashes, raced>>

\* The loop over removedItems in _SaveMail.  Fault: it is left out.
RemovesNone(i) == Empty
Removes(i) == Only(i, 0)

\* HandleMailTakeItem: what is to be paid on delivery goes to the sender in a
\* mail of the same transaction, and so does whatever else of the box changed.
TakeItem(p, id, i) ==
    LET m == mem[p].box[id]
        cod == m.row.cod
        taken == [mem[p] EXCEPT !.gold = @ - cod, !.bag = @ \cup {i},
                                !.box[id].items = @ \ {i}, !.box[id].row.cod = 0,
                                !.box[id].state = "changed"]
        t == [SaveMail(taken) EXCEPT !.gold = Only(p, taken.gold), !.at = Removes(i),
                                     !.inv = Only(i, p)]
        payment == Letter(p, m.row.from, cod, 0, "payment", {})
        box == [mem EXCEPT ![p] = Saved(taken)]
    IN  /\ HasMail(p, id) /\ i \in m.items /\ HasEnoughMoney(p, cod)
        /\ IF cod = 0
             THEN /\ mem' = box /\ Enqueue(<<t>>) /\ UNCHANGED <<nextId, unseen>>
             ELSE /\ nextId \in Ids
                  /\ mem' = Post(box, payment, {})
                  /\ Enqueue(<<Posted(t, payment, {})>>)
                  /\ nextId' = nextId + 1
                  /\ unseen' = Unseen(payment)
        /\ UNCHANGED <<db, session, answer, scans, crashes, raced>>

\* HandleMailTakeMoney, for a mail with gold: a client asks for no other.
TakeMoney(p, id) ==
    LET m == mem[p].box[id]
        taken == [mem[p] EXCEPT !.gold = @ + m.row.gold, !.box[id].row.gold = 0,
                                !.box[id].state = "changed"]
    IN  /\ HasMail(p, id) /\ m.row.gold > 0
        /\ mem' = [mem EXCEPT ![p] = Saved(taken)]
        /\ Enqueue(<<[SaveMail(taken) EXCEPT !.gold = Only(p, taken.gold)]>>)
        /\ UNCHANGED <<db, session, answer, nextId, scans, crashes, unseen, raced>>

----------------------------------------------------------------------------
(* ReturnOrDeleteOldMails reads the tables as they are, whatever is queued,  *)
(* and enqueues single statements for the mails of players not in the world. *)

\* A mail with items goes back once, unless it was read and needs no payment.
GoesBack(row) == row.has /\ row.kind = "sent" /\ (row.read => row.cod > 0)

Expiry(id) ==
    LET row == db.row[id]
        items == ItemsOf(db, id)
        back == [from |-> row.to, to |-> row.from, cod |-> 0, kind |-> "returned",
                 read |-> FALSE]
    IN  IF GoesBack(row) THEN <<[Nothing EXCEPT !.upd = Only(id, back)]>>
        ELSE SetToSeq({[Nothing EXCEPT !.destroy = {i}] : i \in {j \in items : row.has}})
             \o <<[Nothing EXCEPT !.del = {id}]>>

\* Something queued is about to change the mail.
Pending(id) ==
    \E k \in DOMAIN queue :
      \/ id \in DOMAIN queue[k].ins \cup DOMAIN queue[k].upd \cup queue[k].del
      \/ \E i \in DOMAIN queue[k].at : db.at[i] = id

\* Fault: players in the world are not passed over.
MayExpireAny(id) == db.row[id] # NoRow
MayExpire(id) == db.row[id] # NoRow /\ session[db.row[id].to] # "in"

\* One old mail of a scan.  A scan that finds several takes as many of these
\* steps: no statement of one mail is about another.
ReturnOrDeleteOldMails(id) ==
    /\ MayExpire(id)
    /\ Len(queue) < MaxQueue
    /\ queue' = queue \o Expiry(id)
    /\ unseen' = IF GoesBack(db.row[id]) /\ session[db.row[id].from] # "out"
                   THEN unseen \cup {id} ELSE unseen
    /\ raced' = (raced \/ session[db.row[id].to] = "loading" \/ Pending(id))
    /\ UNCHANGED <<db, session, answer, mem, nextId, crashes>>

\* Every six hours, from World::Update.
Scan(id) ==
    /\ scans < MaxScans
    /\ scans' = scans + 1
    /\ ReturnOrDeleteOldMails(id)

\* The process dies: what was not executed is lost.  SetHighestGuids at start.
Crash ==
    /\ crashes < MaxCrashes
    /\ crashes' = crashes + 1
    /\ queue' = <<>>
    /\ session' = [p \in Players |-> "out"]
    /\ answer' = [p \in Players |-> Absent] /\ mem' = answer'
    /\ nextId' = 1 + Max({0} \cup {id \in Ids : db.row[id] # NoRow})
    /\ unseen' = {}
    /\ UNCHANGED <<db, scans, raced>>

Next ==
    \/ \E p \in Players : Login(p) \/ EnterWorld(p) \/ Logout(p)
    \/ \E p, q \in Players, gold \in Gold, cod \in COD, items \in SUBSET Items :
         SendMail(p, q, gold, cod, items)
    \/ \E p \in Players, id \in Ids :
         \/ MarkAsRead(p, id) \/ Delete(p, id) \/ ReturnToSender(p, id)
         \/ TakeMoney(p, id) \/ \E i \in Items : TakeItem(p, id, i)
    \/ \E id \in Ids : Scan(id)
    \/ Execute \/ Crash

Spec == Init /\ [][Next]_vars

----------------------------------------------------------------------------
(* Properties.                                                             *)

TypeOK ==
    /\ \A p \in Players : mem[p].gold \in Nat /\ mem[p].bag \subseteq Items
    /\ session \in [Players -> {"out", "loading", "in"}]
    /\ \A id \in Ids : db.row[id] \in Row \cup {NoRow}
    /\ db.gold \in [Players -> Nat] /\ db.at \in [Items -> 0 .. MaxMails]
    /\ db.inv \in [Items -> Players \cup {Nobody}] /\ db.alive \subseteq Items
    /\ nextId \in 1 .. MaxMails + 1 /\ unseen \subseteq Ids

InMail(d, i) == d.at[i] # 0 /\ d.row[d.at[i]] # NoRow

Worth(row) == IF row # NoRow THEN row.gold ELSE 0
Wealth(d) == SumFunction(d.gold) + SumFunction([id \in Ids |-> Worth(d.row[id])])

\* Whenever the process dies, each item that was not destroyed is in one
\* inventory or in one mail, never in both or in neither, a destroyed one is in
\* no inventory, and there is no more gold than at the start.
DurableOnce ==
    ~raced =>
      /\ \A i \in Items : IF i \in db.alive THEN (db.inv[i] # Nobody) # InMail(db, i)
                          ELSE db.inv[i] = Nobody
      /\ Wealth(db) <= StartGold * Cardinality(Players)

\* Nobody in the world has an item another one has, in bag or box.
Holds(p) == mem[p].bag \cup UNION {mem[p].box[id].items :
              id \in InState(mem[p], "unchanged") \cup InState(mem[p], "changed")}

OneHolder ==
    ~raced => /\ \A p, q \in Players : p # q => Holds(p) \cap Holds(q) = {}
              /\ \A p \in Players, id \in Ids :
                   mem[p].box[id] # NoMail => mem[p].bag \cap mem[p].box[id].items = {}

\* What a player in the world has is what the database will have, except for
\* the reading and the deletion of mails, saved later; his box lacks only mails
\* that arrived while he was loading, or came back from the expiry.
MemoryAhead ==
    ~raced => \A p \in Players : session[p] = "in" =>
      LET f == Load(Future, p)
      IN  /\ mem[p].gold = f.gold /\ mem[p].bag = f.bag
          /\ \A id \in Ids :
               IF mem[p].box[id] = NoMail THEN f.box[id] # NoMail => id \in unseen
               ELSE /\ f.box[id] # NoMail
                    /\ mem[p].box[id].items = f.box[id].items
                    /\ mem[p].box[id].row.gold = f.box[id].row.gold
                    /\ mem[p].box[id].row.cod = f.box[id].row.cod
=============================================================================
