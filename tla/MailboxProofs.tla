--------------------------- MODULE MailboxProofs ---------------------------
(***************************************************************************)
(* Proofs about Mailbox, for any players, items, amounts and bounds.        *)
(***************************************************************************)
EXTENDS Mailbox, FoldTheorems, SequenceTheorems

Partial(S, T) == UNION {[D -> T] : D \in SUBSET S}

World == [gold : [Players -> Nat], row : [Ids -> Row \cup {NoRow}], at : [Items -> Ids \cup {0}],
          inv : [Items -> Players \cup {Nobody}], alive : SUBSET Items]

\* What is written into the row of a mail: by its owner, or when it goes back.
Change == [gold : Nat, cod : Nat, read : BOOLEAN, has : BOOLEAN]
Return == [from : Players, to : Players, cod : {0}, kind : {"returned"}, read : {FALSE}]

\* An item is put into a mail by the transaction that inserts the mail.
Entry == {t \in [gold : Partial(Players, Nat), ins : Partial(Ids, Row),
                 upd : Partial(Ids, Change \cup Return), del : SUBSET Ids,
                 at : Partial(Items, Ids \cup {0}), inv : Partial(Items, Players \cup {Nobody}),
                 destroy : SUBSET Items, loads : Players \cup {Nobody}] :
            \A i \in DOMAIN t.at : t.at[i] # 0 => t.at[i] \in DOMAIN t.ins}

Letters == [row : Row, items : SUBSET Items, state : {"unchanged", "changed", "deleted"}]
Box == [Ids -> Letters \cup {NoMail}]
Memory == [gold : Nat, bag : SUBSET Items, box : Box]

----------------------------------------------------------------------------
(* Partial functions, rows and the database.                                *)

LEMMA PartialFacts ==
    ASSUME NEW S, NEW T
    PROVE  /\ \A f \in Partial(S, T) : DOMAIN f \subseteq S /\ \A x \in DOMAIN f : f[x] \in T
           /\ Empty \in Partial(S, T) /\ DOMAIN Empty = {}
           /\ \A x \in S : \A v \in T : Only(x, v) \in Partial(S, T)
           /\ \A x, v : DOMAIN Only(x, v) = {x} /\ Only(x, v)[x] = v
           /\ \A D \in SUBSET S : [D -> T] \subseteq Partial(S, T)
<1>1. \A f \in Partial(S, T) : DOMAIN f \subseteq S /\ \A x \in DOMAIN f : f[x] \in T
  BY DEF Partial
<1>2. Empty \in Partial(S, T) /\ DOMAIN Empty = {}
  <2>1. Empty \in [{} -> T] /\ {} \in SUBSET S
    BY DEF Empty
  <2> QED BY <2>1 DEF Partial, Empty
<1>3. \A x, v : DOMAIN Only(x, v) = {x} /\ Only(x, v)[x] = v
  BY DEF Only
<1>4. \A D \in SUBSET S : [D -> T] \subseteq Partial(S, T)
  BY DEF Partial
<1>5. ASSUME NEW x \in S, NEW v \in T PROVE Only(x, v) \in Partial(S, T)
  <2>1. Only(x, v) \in [{x} -> T] /\ {x} \in SUBSET S
    BY DEF Only
  <2> QED BY <1>4, <2>1
<1> QED BY <1>1, <1>2, <1>3, <1>4, <1>5

LEMMA RowIsThere == \A r \in Row : r # NoRow
  BY DEF Row, NoRow

LEMMA MailIsThere == \A m \in Letters : m # NoMail
  BY DEF Letters, NoMail

\* A row keeps what is not written.
LEMMA ChangeRow ==
    ASSUME NEW r \in Row, NEW c \in Change
    PROVE  /\ Set(r, c) \in Row
           /\ Set(r, c).from = r.from /\ Set(r, c).to = r.to /\ Set(r, c).kind = r.kind
           /\ Set(r, c).gold = c.gold /\ Set(r, c).cod = c.cod
           /\ Set(r, c).read = c.read /\ Set(r, c).has = c.has
<1>1. DOMAIN r = {"from", "to", "gold", "cod", "kind", "read", "has"}
  BY DEF Row
<1>2. DOMAIN c = {"gold", "cod", "read", "has"}
  BY DEF Change
<1>3. Set(r, c) = [from |-> r.from, to |-> r.to, gold |-> c.gold, cod |-> c.cod,
                   kind |-> r.kind, read |-> c.read, has |-> c.has]
  BY <1>1, <1>2 DEF Set
<1>4. /\ r.from \in Players /\ r.to \in Players /\ r.kind \in {"sent", "returned", "payment"}
      /\ c.gold \in Nat /\ c.cod \in Nat /\ c.read \in BOOLEAN /\ c.has \in BOOLEAN
  BY DEF Row, Change
<1> QED BY <1>3, <1>4 DEF Row

LEMMA ReturnRow ==
    ASSUME NEW r \in Row, NEW c \in Return
    PROVE  /\ Set(r, c) \in Row
           /\ Set(r, c).from = c.from /\ Set(r, c).to = c.to /\ Set(r, c).kind = c.kind
           /\ Set(r, c).gold = r.gold /\ Set(r, c).cod = c.cod
           /\ Set(r, c).read = c.read /\ Set(r, c).has = r.has
<1>1. DOMAIN r = {"from", "to", "gold", "cod", "kind", "read", "has"}
  BY DEF Row
<1>2. DOMAIN c = {"from", "to", "cod", "kind", "read"}
  BY DEF Return
<1>3. Set(r, c) = [from |-> c.from, to |-> c.to, gold |-> r.gold, cod |-> c.cod,
                   kind |-> c.kind, read |-> c.read, has |-> r.has]
  BY <1>1, <1>2 DEF Set
<1>4. /\ c.from \in Players /\ c.to \in Players /\ c.kind \in {"sent", "returned", "payment"}
      /\ r.gold \in Nat /\ c.cod \in Nat /\ c.read \in BOOLEAN /\ r.has \in BOOLEAN
  <2>1. c.from \in Players /\ c.to \in Players /\ c.kind = "returned" /\ c.cod = 0
    BY DEF Return
  <2>2. c.read \in BOOLEAN
    BY DEF Return
  <2>3. r.gold \in Nat /\ r.has \in BOOLEAN
    BY DEF Row
  <2>4. c.cod \in Nat /\ c.kind \in {"sent", "returned", "payment"}
    BY <2>1
  <2> QED BY <2>1, <2>2, <2>3, <2>4
<1> QED BY <1>3, <1>4 DEF Row

LEMMA WorldFacts ==
    ASSUME NEW w \in World
    PROVE  /\ w.gold \in [Players -> Nat] /\ w.row \in [Ids -> Row \cup {NoRow}]
           /\ w.at \in [Items -> Ids \cup {0}] /\ w.inv \in [Items -> Players \cup {Nobody}]
           /\ w.alive \in SUBSET Items
  BY DEF World

LEMMA IsWorld ==
    ASSUME NEW a \in [Players -> Nat], NEW b \in [Ids -> Row \cup {NoRow}],
           NEW c \in [Items -> Ids \cup {0}], NEW d \in [Items -> Players \cup {Nobody}],
           NEW e \in SUBSET Items
    PROVE  [gold |-> a, row |-> b, at |-> c, inv |-> d, alive |-> e] \in World
  BY DEF World

LEMMA EntryFacts ==
    ASSUME NEW t \in Entry
    PROVE  /\ t.gold \in Partial(Players, Nat) /\ t.ins \in Partial(Ids, Row)
           /\ t.upd \in Partial(Ids, Change \cup Return) /\ t.del \in SUBSET Ids
           /\ t.at \in Partial(Items, Ids \cup {0})
           /\ t.inv \in Partial(Items, Players \cup {Nobody})
           /\ t.destroy \in SUBSET Items /\ t.loads \in Players \cup {Nobody}
           /\ \A i \in DOMAIN t.at : t.at[i] # 0 => t.at[i] \in DOMAIN t.ins
  BY DEF Entry

LEMMA SetFacts ==
    \A S, T, old : \A writes \in Partial(S, T) : old \in [S -> T] =>
        /\ Set(old, writes) \in [S -> T]
        /\ \A x \in S : Set(old, writes)[x] = IF x \in DOMAIN writes THEN writes[x] ELSE old[x]
<1> SUFFICES ASSUME NEW S, NEW T, NEW old \in [S -> T], NEW writes \in Partial(S, T)
             PROVE  /\ Set(old, writes) \in [S -> T]
                    /\ \A x \in S : Set(old, writes)[x]
                                      = IF x \in DOMAIN writes THEN writes[x] ELSE old[x]
  OBVIOUS
<1>1. \A x \in DOMAIN writes : writes[x] \in T
  BY PartialFacts
<1> QED BY <1>1 DEF Set

\* The row of a mail after an entry of the queue.
RowAfter(w, t, id) ==
    IF id \in t.del THEN NoRow
    ELSE IF id \in DOMAIN t.ins THEN t.ins[id]
    ELSE IF id \in DOMAIN t.upd /\ w.row[id] # NoRow THEN Set(w.row[id], t.upd[id])
    ELSE w.row[id]

LEMMA RowAfterType ==
    ASSUME NEW w \in World, NEW t \in Entry, NEW id \in Ids
    PROVE  RowAfter(w, t, id) \in Row \cup {NoRow}
<1>1. w.row[id] \in Row \cup {NoRow}
  BY WorldFacts
<1>2. CASE id \in t.del
  BY <1>2 DEF RowAfter
<1>3. CASE id \notin t.del /\ id \in DOMAIN t.ins
  <2>1. t.ins[id] \in Row
    BY <1>3, EntryFacts, PartialFacts
  <2> QED BY <1>3, <2>1 DEF RowAfter
<1>4. CASE id \notin t.del /\ id \notin DOMAIN t.ins /\ id \in DOMAIN t.upd /\ w.row[id] # NoRow
  <2>1. t.upd[id] \in Change \cup Return
    BY <1>4, EntryFacts, PartialFacts
  <2>2. Set(w.row[id], t.upd[id]) \in Row
    BY <1>1, <1>4, <2>1, ChangeRow, ReturnRow
  <2> QED BY <1>4, <2>2 DEF RowAfter
<1>5. CASE id \notin t.del /\ id \notin DOMAIN t.ins /\ ~(id \in DOMAIN t.upd /\ w.row[id] # NoRow)
  BY <1>1, <1>5 DEF RowAfter
<1> QED BY <1>2, <1>3, <1>4, <1>5

\* What Apply does, field by field.
LEMMA ApplyFacts ==
    ASSUME NEW w \in World, NEW t \in Entry
    PROVE  /\ Apply(w, t) \in World
           /\ \A p \in Players : Apply(w, t).gold[p]
                                   = IF p \in DOMAIN t.gold THEN t.gold[p] ELSE w.gold[p]
           /\ \A id \in Ids : Apply(w, t).row[id] = RowAfter(w, t, id)
           /\ \A i \in Items :
                /\ Apply(w, t).at[i] = IF i \in DOMAIN t.at THEN t.at[i]
                                       ELSE IF w.at[i] \in t.del THEN 0 ELSE w.at[i]
                /\ Apply(w, t).inv[i] = IF i \in DOMAIN t.inv THEN t.inv[i] ELSE w.inv[i]
           /\ Apply(w, t).alive = w.alive \ t.destroy
<1> DEFINE a == Set(w.gold, t.gold)
           b == [id \in Ids |-> RowAfter(w, t, id)]
           c == [i \in Items |-> IF i \in DOMAIN t.at THEN t.at[i]
                                 ELSE IF w.at[i] \in t.del THEN 0 ELSE w.at[i]]
           d == Set(w.inv, t.inv)
           e == w.alive \ t.destroy
<1>1. Apply(w, t) = [gold |-> a, row |-> b, at |-> c, inv |-> d, alive |-> e]
  BY DEF Apply, RowAfter
<1>2. /\ a \in [Players -> Nat]
      /\ \A p \in Players : a[p] = IF p \in DOMAIN t.gold THEN t.gold[p] ELSE w.gold[p]
  BY WorldFacts, EntryFacts, SetFacts
<1>3. b \in [Ids -> Row \cup {NoRow}]
  BY RowAfterType
<1>4. c \in [Items -> Ids \cup {0}]
  <2>1. \A i \in DOMAIN t.at : t.at[i] \in Ids \cup {0}
    BY EntryFacts, PartialFacts
  <2>2. \A i \in Items : w.at[i] \in Ids \cup {0}
    BY WorldFacts
  <2> QED BY <2>1, <2>2
<1>5. /\ d \in [Items -> Players \cup {Nobody}]
      /\ \A i \in Items : d[i] = IF i \in DOMAIN t.inv THEN t.inv[i] ELSE w.inv[i]
  BY WorldFacts, EntryFacts, SetFacts
<1>6. e \in SUBSET Items
  BY WorldFacts
<1>7. /\ \A id \in Ids : b[id] = RowAfter(w, t, id)
      /\ \A i \in Items : c[i] = IF i \in DOMAIN t.at THEN t.at[i]
                                 ELSE IF w.at[i] \in t.del THEN 0 ELSE w.at[i]
      /\ e = w.alive \ t.destroy
  OBVIOUS
<1> HIDE DEF a, b, c, d, e
<1>8. Apply(w, t) \in World
  BY <1>1, <1>2, <1>3, <1>4, <1>5, <1>6, IsWorld
<1>9. /\ Apply(w, t).gold = a /\ Apply(w, t).row = b /\ Apply(w, t).at = c
      /\ Apply(w, t).inv = d /\ Apply(w, t).alive = e
  BY <1>1
<1> QED BY <1>2, <1>5, <1>7, <1>8, <1>9

----------------------------------------------------------------------------
(* Memory and entries of the queue, one field at a time.                    *)

Mem(gold, bag, box) == [gold |-> gold, bag |-> bag, box |-> box]
Put(row, items, state) == [row |-> row, items |-> items, state |-> state]
Tx(gold, ins, upd, del, at, inv, destroy, loads) ==
    [gold |-> gold, ins |-> ins, upd |-> upd, del |-> del, at |-> at, inv |-> inv,
     destroy |-> destroy, loads |-> loads]

LEMMA MemExcept ==
    \A g, b, x, e :
        /\ [Mem(g, b, x) EXCEPT !.gold = e] = Mem(e, b, x)
        /\ [Mem(g, b, x) EXCEPT !.bag = e] = Mem(g, e, x)
        /\ [Mem(g, b, x) EXCEPT !.box = e] = Mem(g, b, e)
        /\ Mem(g, b, x).gold = g /\ Mem(g, b, x).bag = b /\ Mem(g, b, x).box = x
  BY DEF Mem

LEMMA PutExcept ==
    \A r, it, s, e :
        /\ [Put(r, it, s) EXCEPT !.row = e] = Put(e, it, s)
        /\ [Put(r, it, s) EXCEPT !.items = e] = Put(r, e, s)
        /\ [Put(r, it, s) EXCEPT !.state = e] = Put(r, it, e)
        /\ Put(r, it, s).row = r /\ Put(r, it, s).items = it /\ Put(r, it, s).state = s
  BY DEF Put

LEMMA MemoryFacts ==
    \A m \in Memory : /\ m = Mem(m.gold, m.bag, m.box)
                      /\ m.gold \in Nat /\ m.bag \in SUBSET Items /\ m.box \in Box
                      /\ DOMAIN m.box = Ids
                      /\ \A id \in Ids : m.box[id] \in Letters \cup {NoMail}
  BY DEF Memory, Mem, Box

LEMMA IsMemory ==
    \A g \in Nat, b \in SUBSET Items, x \in Box : Mem(g, b, x) \in Memory
  BY DEF Memory, Mem

LEMMA LetterFacts ==
    \A a \in Letters : /\ a = Put(a.row, a.items, a.state) /\ a # NoMail
                       /\ a.row \in Row /\ a.items \in SUBSET Items
                       /\ a.state \in {"unchanged", "changed", "deleted"}
  BY MailIsThere DEF Letters, Put

LEMMA IsLetter ==
    \A r \in Row, it \in SUBSET Items, s \in {"unchanged", "changed", "deleted"} :
        Put(r, it, s) \in Letters
  BY DEF Letters, Put

LEMMA RowFacts ==
    \A r \in Row : /\ r.from \in Players /\ r.to \in Players /\ r.gold \in Nat /\ r.cod \in Nat
                   /\ r.kind \in {"sent", "returned", "payment"}
                   /\ r.read \in BOOLEAN /\ r.has \in BOOLEAN
  BY DEF Row

LEMMA RowExcept ==
    ASSUME NEW r \in Row, NEW n \in Nat, NEW b \in BOOLEAN
    PROVE  /\ [r EXCEPT !.cod = n] \in Row /\ [r EXCEPT !.gold = n] \in Row
           /\ [r EXCEPT !.read = b] \in Row
           /\ [r EXCEPT !.cod = n].cod = n /\ [r EXCEPT !.cod = n].gold = r.gold
           /\ [r EXCEPT !.gold = n].gold = n /\ [r EXCEPT !.gold = n].cod = r.cod
           /\ [r EXCEPT !.read = b].gold = r.gold /\ [r EXCEPT !.read = b].cod = r.cod
           /\ [r EXCEPT !.read = b].read = b
           /\ [r EXCEPT !.cod = n].read = r.read /\ [r EXCEPT !.gold = n].read = r.read
           /\ [r EXCEPT !.cod = n].from = r.from /\ [r EXCEPT !.gold = n].from = r.from
  BY DEF Row

LEMMA LetterRow ==
    ASSUME NEW p \in Players, NEW q \in Players, NEW gold \in Nat, NEW cod \in Nat,
           NEW kind \in {"sent", "returned", "payment"}, NEW items
    PROVE  /\ Letter(p, q, gold, cod, kind, items) \in Row
           /\ Letter(p, q, gold, cod, kind, items).to = q
           /\ Letter(p, q, gold, cod, kind, items).gold = gold
           /\ Letter(p, q, gold, cod, kind, items).cod = cod
           /\ Letter(p, q, gold, cod, kind, items).has = (items # {})
  BY DEF Letter, Row

LEMMA TxFacts ==
    \A a, b, c, d, e, f, g, h :
        /\ Tx(a, b, c, d, e, f, g, h).gold = a /\ Tx(a, b, c, d, e, f, g, h).ins = b
        /\ Tx(a, b, c, d, e, f, g, h).upd = c /\ Tx(a, b, c, d, e, f, g, h).del = d
        /\ Tx(a, b, c, d, e, f, g, h).at = e /\ Tx(a, b, c, d, e, f, g, h).inv = f
        /\ Tx(a, b, c, d, e, f, g, h).destroy = g /\ Tx(a, b, c, d, e, f, g, h).loads = h
  BY DEF Tx

LEMMA TxType ==
    ASSUME NEW a \in Partial(Players, Nat), NEW b \in Partial(Ids, Row),
           NEW c \in Partial(Ids, Change \cup Return), NEW d \in SUBSET Ids,
           NEW e \in Partial(Items, Ids \cup {0}), NEW f \in Partial(Items, Players \cup {Nobody}),
           NEW g \in SUBSET Items, NEW h \in Players \cup {Nobody},
           \A i \in DOMAIN e : e[i] # 0 => e[i] \in DOMAIN b
    PROVE  Tx(a, b, c, d, e, f, g, h) \in Entry
<1>1. Tx(a, b, c, d, e, f, g, h) \in
        [gold : Partial(Players, Nat), ins : Partial(Ids, Row),
         upd : Partial(Ids, Change \cup Return), del : SUBSET Ids,
         at : Partial(Items, Ids \cup {0}), inv : Partial(Items, Players \cup {Nobody}),
         destroy : SUBSET Items, loads : Players \cup {Nobody}]
  BY DEF Tx
<1> QED BY <1>1, TxFacts DEF Entry

LEMMA TxExcept ==
    \A a, b, c, d, e, f, g, h, x :
        /\ [Tx(a, b, c, d, e, f, g, h) EXCEPT !.gold = x] = Tx(x, b, c, d, e, f, g, h)
        /\ [Tx(a, b, c, d, e, f, g, h) EXCEPT !.ins = x] = Tx(a, x, c, d, e, f, g, h)
        /\ [Tx(a, b, c, d, e, f, g, h) EXCEPT !.upd = x] = Tx(a, b, x, d, e, f, g, h)
        /\ [Tx(a, b, c, d, e, f, g, h) EXCEPT !.del = x] = Tx(a, b, c, x, e, f, g, h)
        /\ [Tx(a, b, c, d, e, f, g, h) EXCEPT !.at = x] = Tx(a, b, c, d, x, f, g, h)
        /\ [Tx(a, b, c, d, e, f, g, h) EXCEPT !.inv = x] = Tx(a, b, c, d, e, x, g, h)
        /\ [Tx(a, b, c, d, e, f, g, h) EXCEPT !.destroy = x] = Tx(a, b, c, d, e, f, x, h)
        /\ [Tx(a, b, c, d, e, f, g, h) EXCEPT !.loads = x] = Tx(a, b, c, d, e, f, g, x)
  BY DEF Tx

LEMMA NothingIsTx == Nothing = Tx(Empty, Empty, Empty, {}, Empty, Empty, {}, Nobody)
  BY DEF Nothing, Tx

----------------------------------------------------------------------------
(* Entries that are written by the actions.                                 *)

Updates(m) == [id \in InState(m, "changed") |->
                 [gold |-> m.box[id].row.gold, cod |-> m.box[id].row.cod,
                  read |-> m.box[id].row.read, has |-> m.box[id].items # {}]]
Deleted(m) == InState(m, "deleted")
Destroyed(m) == UNION {m.box[id].items : id \in Deleted(m)}

LoadTx(p) == Tx(Empty, Empty, Empty, {}, Empty, Empty, {}, p)
SaveTx(gold, m) == Tx(gold, Empty, Updates(m), Deleted(m), Empty, Empty, Destroyed(m), Nobody)
SendTx(p, left, n, row, items) ==
    Tx(Only(p, left), Only(n, row), Empty, {}, [i \in items |-> n], [i \in items |-> Nobody],
       {}, Nobody)
BackTx(id, n, row, items) ==
    Tx(Empty, Only(n, row), Empty, {id}, [i \in items |-> n], Empty, {}, Nobody)
TakeTx(p, m, ins, i) ==
    Tx(Only(p, m.gold), ins, Updates(m), Deleted(m), Only(i, 0), Only(i, p), Destroyed(m), Nobody)
ReturnTx(id, back) == Tx(Empty, Empty, Only(id, back), {}, Empty, Empty, {}, Nobody)
DestroyTx(i) == Tx(Empty, Empty, Empty, {}, Empty, Empty, {i}, Nobody)
DeleteTx(id) == Tx(Empty, Empty, Empty, {id}, Empty, Empty, {}, Nobody)

LEMMA SaveMailIs ==
    \A m : SaveMail(m) = SaveTx(Empty, m)
<1> SUFFICES ASSUME NEW m PROVE SaveMail(m) = SaveTx(Empty, m)
  OBVIOUS
<1> DEFINE u == Updates(m)
           d == Deleted(m)
           g == Destroyed(m)
<1>1. SaveMail(m) = [Nothing EXCEPT !.upd = u, !.del = d, !.destroy = g]
  BY DEF SaveMail, Updates, Deleted, Destroyed
<1>2. SaveTx(Empty, m) = Tx(Empty, Empty, u, d, Empty, Empty, g, Nobody)
  BY DEF SaveTx
<1> HIDE DEF u, d, g
<1>3. [Nothing EXCEPT !.upd = u] = Tx(Empty, Empty, u, {}, Empty, Empty, {}, Nobody)
  BY NothingIsTx, TxExcept
<1>4. [Tx(Empty, Empty, u, {}, Empty, Empty, {}, Nobody) EXCEPT !.del = d]
        = Tx(Empty, Empty, u, d, Empty, Empty, {}, Nobody)
  BY TxExcept
<1>5. [Tx(Empty, Empty, u, d, Empty, Empty, {}, Nobody) EXCEPT !.destroy = g]
        = Tx(Empty, Empty, u, d, Empty, Empty, g, Nobody)
  BY TxExcept
<1>6. [Nothing EXCEPT !.upd = u, !.del = d, !.destroy = g]
        = [[[Nothing EXCEPT !.upd = u] EXCEPT !.del = d] EXCEPT !.destroy = g]
  OBVIOUS
<1> QED BY <1>1, <1>2, <1>3, <1>4, <1>5, <1>6

LEMMA LoadIs ==
    \A p : [Nothing EXCEPT !.loads = p] = LoadTx(p)
  BY NothingIsTx, TxExcept DEF LoadTx

LEMMA SaveIs ==
    \A m, x : [SaveMail(m) EXCEPT !.gold = x] = SaveTx(x, m)
  BY SaveMailIs, TxExcept DEF SaveTx

\* Posted for the transactions it is used with.
LEMMA PostedIs ==
    ASSUME NEW t, NEW row, NEW items
    PROVE  Posted(t, row, items)
             = [[t EXCEPT !.ins = Only(nextId, row)] EXCEPT
                  !.at = [i \in items \cup DOMAIN t.at |-> IF i \in items THEN nextId ELSE t.at[i]]]
  BY DEF Posted

LEMMA PostedNew ==
    ASSUME NEW a, NEW d, NEW f, NEW row, NEW items
    PROVE  Posted(Tx(a, Empty, Empty, d, Empty, f, {}, Nobody), row, items)
             = Tx(a, Only(nextId, row), Empty, d, [i \in items |-> nextId], f, {}, Nobody)
<1> DEFINE t == Tx(a, Empty, Empty, d, Empty, f, {}, Nobody)
           at == [i \in items \cup DOMAIN t.at |-> IF i \in items THEN nextId ELSE t.at[i]]
           o == Only(nextId, row)
<1>1. at = [i \in items |-> nextId]
  <2>1. t.at = Empty /\ DOMAIN Empty = {}
    BY TxFacts DEF Empty
  <2> HIDE DEF t
  <2>2. items \cup DOMAIN t.at = items
    BY <2>1
  <2> QED BY <2>2
<1>2. Posted(t, row, items) = [[t EXCEPT !.ins = o] EXCEPT !.at = at]
  BY PostedIs
<1> HIDE DEF at, o
<1>3. [t EXCEPT !.ins = o] = Tx(a, o, Empty, d, Empty, f, {}, Nobody)
  BY TxExcept
<1>4. [Tx(a, o, Empty, d, Empty, f, {}, Nobody) EXCEPT !.at = at]
        = Tx(a, o, Empty, d, at, f, {}, Nobody)
  BY TxExcept
<1> QED BY <1>1, <1>2, <1>3, <1>4 DEF o

LEMMA SendIs ==
    ASSUME NEW p, NEW left, NEW row, NEW items
    PROVE  Posted([Nothing EXCEPT !.gold = Only(p, left), !.inv = [i \in items |-> Nobody]],
                  row, items)
             = SendTx(p, left, nextId, row, items)
<1> DEFINE a == Only(p, left)
           f == [i \in items |-> Nobody]
<1>1. SendTx(p, left, nextId, row, items)
        = Tx(a, Only(nextId, row), Empty, {}, [i \in items |-> nextId], f, {}, Nobody)
  BY DEF SendTx
<1> HIDE DEF a, f
<1>2. [Nothing EXCEPT !.gold = a] = Tx(a, Empty, Empty, {}, Empty, Empty, {}, Nobody)
  BY NothingIsTx, TxExcept
<1>3. [Tx(a, Empty, Empty, {}, Empty, Empty, {}, Nobody) EXCEPT !.inv = f]
        = Tx(a, Empty, Empty, {}, Empty, f, {}, Nobody)
  BY TxExcept
<1>4. [Nothing EXCEPT !.gold = a, !.inv = f] = [[Nothing EXCEPT !.gold = a] EXCEPT !.inv = f]
  OBVIOUS
<1>5. [Nothing EXCEPT !.gold = a, !.inv = f] = Tx(a, Empty, Empty, {}, Empty, f, {}, Nobody)
  BY <1>2, <1>3, <1>4
<1>6. Posted([Nothing EXCEPT !.gold = a, !.inv = f], row, items)
        = Tx(a, Only(nextId, row), Empty, {}, [i \in items |-> nextId], f, {}, Nobody)
  BY <1>5, PostedNew
<1> QED BY <1>1, <1>6 DEF a, f

LEMMA BackIs ==
    ASSUME NEW id, NEW row, NEW items
    PROVE  Posted([Nothing EXCEPT !.del = {id}], row, items) = BackTx(id, nextId, row, items)
<1>1. [Nothing EXCEPT !.del = {id}] = Tx(Empty, Empty, Empty, {id}, Empty, Empty, {}, Nobody)
  <2>1. PICK d : d = {id}
    OBVIOUS
  <2>2. [Nothing EXCEPT !.del = d] = Tx(Empty, Empty, Empty, d, Empty, Empty, {}, Nobody)
    BY NothingIsTx, TxExcept
  <2> QED BY <2>1, <2>2
<1> QED BY <1>1, PostedNew DEF BackTx

LEMMA TakeIs ==
    ASSUME NEW p, NEW m, NEW i
    PROVE  [SaveMail(m) EXCEPT !.gold = Only(p, m.gold), !.at = Removes(i), !.inv = Only(i, p)]
             = TakeTx(p, m, Empty, i)
<1> DEFINE a == Only(p, m.gold)
           c == Updates(m)
           d == Deleted(m)
           e == Only(i, 0)
           f == Only(i, p)
           g == Destroyed(m)
<1>1. SaveMail(m) = Tx(Empty, Empty, c, d, Empty, Empty, g, Nobody)
  BY SaveMailIs DEF SaveTx
<1>2. TakeTx(p, m, Empty, i) = Tx(a, Empty, c, d, e, f, g, Nobody)
  BY DEF TakeTx
<1>3. Removes(i) = e
  BY DEF Removes
<1> HIDE DEF a, c, d, e, f, g
<1>4. [SaveMail(m) EXCEPT !.gold = a] = Tx(a, Empty, c, d, Empty, Empty, g, Nobody)
  BY <1>1, TxExcept
<1>5. [Tx(a, Empty, c, d, Empty, Empty, g, Nobody) EXCEPT !.at = e]
        = Tx(a, Empty, c, d, e, Empty, g, Nobody)
  BY TxExcept
<1>6. [Tx(a, Empty, c, d, e, Empty, g, Nobody) EXCEPT !.inv = f]
        = Tx(a, Empty, c, d, e, f, g, Nobody)
  BY TxExcept
<1>7. [SaveMail(m) EXCEPT !.gold = a, !.at = e, !.inv = f]
        = [[[SaveMail(m) EXCEPT !.gold = a] EXCEPT !.at = e] EXCEPT !.inv = f]
  OBVIOUS
<1>8. [SaveMail(m) EXCEPT !.gold = a, !.at = e, !.inv = f] = TakeTx(p, m, Empty, i)
  BY <1>2, <1>4, <1>5, <1>6, <1>7
<1> QED BY <1>3, <1>8 DEF a, f

LEMMA TakePaidIs ==
    ASSUME NEW p, NEW m, NEW i, NEW row
    PROVE  Posted(TakeTx(p, m, Empty, i), row, {}) = TakeTx(p, m, Only(nextId, row), i)
<1> DEFINE a == Only(p, m.gold)
           c == Updates(m)
           d == Deleted(m)
           e == Only(i, 0)
           f == Only(i, p)
           g == Destroyed(m)
           o == Only(nextId, row)
           t == TakeTx(p, m, Empty, i)
           at == [j \in {} \cup DOMAIN t.at |-> IF j \in {} THEN nextId ELSE t.at[j]]
<1>1. t = Tx(a, Empty, c, d, e, f, g, Nobody)
  BY DEF TakeTx
<1>2. TakeTx(p, m, o, i) = Tx(a, o, c, d, e, f, g, Nobody)
  BY DEF TakeTx
<1>3. at = e
  <2>2. e = [j \in DOMAIN e |-> e[j]]
    BY DEF Only
  <2>1. t.at = e
    <3> HIDE DEF a, c, d, e, f, g, t
    <3> QED BY <1>1, TxFacts
  <2> HIDE DEF t, e
  <2> QED BY <2>1, <2>2
<1>4. Posted(t, row, {}) = [[t EXCEPT !.ins = o] EXCEPT !.at = at]
  BY PostedIs
<1> HIDE DEF a, c, d, e, f, g, o, t, at
<1>5. [t EXCEPT !.ins = o] = Tx(a, o, c, d, e, f, g, Nobody)
  BY <1>1, TxExcept
<1>6. [Tx(a, o, c, d, e, f, g, Nobody) EXCEPT !.at = e] = Tx(a, o, c, d, e, f, g, Nobody)
  BY TxExcept
<1> QED BY <1>2, <1>3, <1>4, <1>5, <1>6 DEF o, t

----------------------------------------------------------------------------
(* Memory after the actions.                                                *)

Cleaned(box) == [id \in Ids |-> IF box[id].state = "deleted" THEN NoMail
                                ELSE IF box[id].state = "changed"
                                       THEN Put(box[id].row, box[id].items, "unchanged")
                                ELSE box[id]]
WithItem(m, id, i) ==
    Mem(m.gold - m.box[id].row.cod, m.bag \cup {i},
        [m.box EXCEPT ![id] = Put([@.row EXCEPT !.cod = 0], @.items \ {i}, "changed")])
WithGold(m, id) ==
    Mem(m.gold + m.box[id].row.gold, m.bag,
        [m.box EXCEPT ![id] = Put([@.row EXCEPT !.gold = 0], @.items, "changed")])
Marked(m, id) ==
    Mem(m.gold, m.bag, [m.box EXCEPT ![id] = Put([@.row EXCEPT !.read = TRUE], @.items, "changed")])
Dropped(m, id) == Mem(m.gold, m.bag, [m.box EXCEPT ![id] = Put(@.row, @.items, "deleted")])
Without(m, id) == Mem(m.gold, m.bag, [m.box EXCEPT ![id] = NoMail])
Spent(m, left, items) == Mem(left, m.bag \ items, m.box)
Arrived(m, n, row, items) ==
    Mem(m.gold, m.bag, [m.box EXCEPT ![n] = Put(row, items, "unchanged")])

\* A mail that is somehow there.
LEMMA InBox ==
    ASSUME NEW m \in Memory, NEW id \in Ids
    PROVE  /\ m.box[id].state # "none" => m.box[id] \in Letters
           /\ m.box[id] = NoMail <=> m.box[id].state = "none"
           /\ m.box[id] # NoMail => m.box[id] \in Letters
<1>1. m.box[id] \in Letters \cup {NoMail}
  BY MemoryFacts
<1>2. NoMail.state = "none"
  BY DEF NoMail
<1> QED BY <1>1, <1>2, LetterFacts

LEMMA BoxWith ==
    ASSUME NEW x \in Box, NEW id \in Ids, NEW a \in Letters \cup {NoMail}
    PROVE  /\ [x EXCEPT ![id] = a] \in Box /\ [x EXCEPT ![id] = a][id] = a
           /\ \A k \in Ids \ {id} : [x EXCEPT ![id] = a][k] = x[k]
  BY DEF Box

LEMMA CleanedBox ==
    ASSUME NEW m \in Memory
    PROVE  Cleaned(m.box) \in Box
<1>1. ASSUME NEW id \in Ids PROVE Cleaned(m.box)[id] \in Letters \cup {NoMail}
  <2>1. CASE m.box[id].state = "deleted"
    BY <2>1 DEF Cleaned
  <2>2. CASE m.box[id].state = "changed"
    <3>1. m.box[id] \in Letters
      BY <2>2, InBox
    <3>2. Put(m.box[id].row, m.box[id].items, "unchanged") \in Letters
      BY <3>1, LetterFacts, IsLetter
    <3>3. Cleaned(m.box)[id] = Put(m.box[id].row, m.box[id].items, "unchanged")
      BY <2>2 DEF Cleaned
    <3> QED BY <3>2, <3>3
  <2>3. CASE m.box[id].state # "deleted" /\ m.box[id].state # "changed"
    BY <2>3, MemoryFacts DEF Cleaned
  <2> QED BY <2>1, <2>2, <2>3
<1> QED BY <1>1 DEF Box, Cleaned

LEMMA SavedIs ==
    ASSUME NEW m \in Memory
    PROVE  Saved(m) = Mem(m.gold, m.bag, Cleaned(m.box)) /\ Saved(m) \in Memory
<1> DEFINE x == Cleaned(m.box)
<1>1. Saved(m) = [m EXCEPT !.box = x]
  BY DEF Saved, Cleaned, Mail, Put
<1> HIDE DEF x
<1>2. m = Mem(m.gold, m.bag, m.box)
  BY MemoryFacts
<1>3. Saved(m) = Mem(m.gold, m.bag, x)
  BY <1>1, <1>2, MemExcept
<1>4. x \in Box
  BY CleanedBox DEF x
<1>5. Mem(m.gold, m.bag, x) \in Memory
  BY <1>4, MemoryFacts, IsMemory
<1> QED BY <1>3, <1>5 DEF x

LEMMA BoxTwice ==
    \A x, k, a, b : k \in DOMAIN x =>
        /\ [x EXCEPT ![k] = a][k] = a /\ DOMAIN [x EXCEPT ![k] = a] = DOMAIN x
        /\ [[x EXCEPT ![k] = a] EXCEPT ![k] = b] = [x EXCEPT ![k] = b]
  OBVIOUS

\* What takes one mail to another leaves a memory of the right type.
LEMMA IsMemoryWith ==
    ASSUME NEW m \in Memory, NEW id \in Ids, NEW a \in Letters \cup {NoMail},
           NEW g \in Nat, NEW b \in SUBSET Items
    PROVE  Mem(g, b, [m.box EXCEPT ![id] = a]) \in Memory
<1>1. m.box \in Box
  BY MemoryFacts
<1>2. [m.box EXCEPT ![id] = a] \in Box
  BY <1>1, BoxWith
<1> QED BY <1>2, IsMemory

LEMMA WithItemIs ==
    ASSUME NEW m \in Memory, NEW id \in Ids, m.box[id].state # "none", NEW i \in Items,
           m.gold >= m.box[id].row.cod
    PROVE  /\ [m EXCEPT !.gold = @ - m.box[id].row.cod, !.bag = @ \cup {i},
                        !.box[id].items = @ \ {i}, !.box[id].row.cod = 0,
                        !.box[id].state = "changed"]
                = WithItem(m, id, i)
           /\ WithItem(m, id, i) \in Memory
<1>1. PICK g, b, x, r, j, s :
         /\ g = m.gold /\ b = m.bag /\ x = m.box
         /\ r = m.box[id].row /\ j = m.box[id].items /\ s = m.box[id].state
  OBVIOUS
<1>2. /\ m = Mem(g, b, x) /\ id \in DOMAIN x /\ x[id] = Put(r, j, s)
      /\ g \in Nat /\ b \in SUBSET Items /\ r \in Row /\ j \in SUBSET Items
  BY <1>1, InBox, MemoryFacts, LetterFacts
<1>3. PICK h, c, k : h = g - r.cod /\ c = b \cup {i} /\ k = j \ {i}
  OBVIOUS
<1>4. /\ h \in Nat /\ c \in SUBSET Items
      /\ Put([r EXCEPT !.cod = 0], k, "changed") \in Letters
  <2>1. r.cod \in Nat /\ [r EXCEPT !.cod = 0] \in Row
    BY <1>2, RowFacts, RowExcept
  <2>2. g >= r.cod
    BY <1>1
  <2>3. h \in Nat
    BY <1>2, <1>3, <2>1, <2>2
  <2>4. c \in SUBSET Items /\ k \in SUBSET Items
    BY <1>2, <1>3
  <2> QED BY <2>1, <2>3, <2>4, IsLetter
<1>5. [m EXCEPT !.gold = @ - m.box[id].row.cod, !.bag = @ \cup {i},
                !.box[id].items = @ \ {i}, !.box[id].row.cod = 0, !.box[id].state = "changed"]
        = [m EXCEPT !.gold = h, !.bag = c,
                !.box[id].items = k, !.box[id].row.cod = 0, !.box[id].state = "changed"]
  BY <1>1, <1>3
<1>6. [Mem(g, b, x) EXCEPT !.gold = h, !.bag = c, !.box[id].items = k,
                           !.box[id].row.cod = 0, !.box[id].state = "changed"]
        = Mem(h, c, [x EXCEPT ![id] = Put([r EXCEPT !.cod = 0], k, "changed")])
  <2> DEFINE y == [x EXCEPT ![id] = Put(r, k, s)]
             z == [x EXCEPT ![id] = Put([r EXCEPT !.cod = 0], k, s)]
             v == [x EXCEPT ![id] = Put([r EXCEPT !.cod = 0], k, "changed")]
  <2>1. /\ y[id] = Put(r, k, s) /\ DOMAIN y = DOMAIN x
        /\ z = [y EXCEPT ![id] = Put([r EXCEPT !.cod = 0], k, s)]
    BY <1>2, BoxTwice
  <2>2. /\ z[id] = Put([r EXCEPT !.cod = 0], k, s) /\ DOMAIN z = DOMAIN x
        /\ v = [z EXCEPT ![id] = Put([r EXCEPT !.cod = 0], k, "changed")]
    BY <1>2, BoxTwice
  <2>3. [[Mem(g, b, x) EXCEPT !.gold = h] EXCEPT !.bag = c] = Mem(h, c, x)
    <3>1. [Mem(g, b, x) EXCEPT !.gold = h] = Mem(h, b, x)
      BY MemExcept
    <3>2. [Mem(h, b, x) EXCEPT !.bag = c] = Mem(h, c, x)
      BY MemExcept
    <3> QED BY <3>1, <3>2
  <2>4. [Mem(h, c, x) EXCEPT !.box[id].items = k] = Mem(h, c, y)
    <3>1. [Mem(h, c, x) EXCEPT !.box[id].items = k]
            = Mem(h, c, [x EXCEPT ![id] = [x[id] EXCEPT !.items = k]])
      BY DEF Mem
    <3>2. [x[id] EXCEPT !.items = k] = Put(r, k, s)
      BY <1>2, PutExcept
    <3> QED BY <3>1, <3>2
  <2> HIDE DEF y, z, v
  <2>5. [Mem(h, c, y) EXCEPT !.box[id].row.cod = 0] = Mem(h, c, z)
    <3>1. [Mem(h, c, y) EXCEPT !.box[id].row.cod = 0]
            = Mem(h, c, [y EXCEPT ![id] = [y[id] EXCEPT !.row = [y[id].row EXCEPT !.cod = 0]]])
      BY DEF Mem
    <3>2. [y[id] EXCEPT !.row = [y[id].row EXCEPT !.cod = 0]] = Put([r EXCEPT !.cod = 0], k, s)
      BY <2>1, PutExcept
    <3> QED BY <2>1, <3>1, <3>2
  <2>6. [Mem(h, c, z) EXCEPT !.box[id].state = "changed"] = Mem(h, c, v)
    <3>1. [Mem(h, c, z) EXCEPT !.box[id].state = "changed"]
            = Mem(h, c, [z EXCEPT ![id] = [z[id] EXCEPT !.state = "changed"]])
      BY DEF Mem
    <3>2. [z[id] EXCEPT !.state = "changed"] = Put([r EXCEPT !.cod = 0], k, "changed")
      BY <2>2, PutExcept
    <3> QED BY <2>2, <3>1, <3>2
  <2>7. [Mem(g, b, x) EXCEPT !.gold = h, !.bag = c, !.box[id].items = k,
                             !.box[id].row.cod = 0, !.box[id].state = "changed"]
          = [[[[[Mem(g, b, x) EXCEPT !.gold = h] EXCEPT !.bag = c]
                EXCEPT !.box[id].items = k] EXCEPT !.box[id].row.cod = 0]
                EXCEPT !.box[id].state = "changed"]
    OBVIOUS
  <2> QED BY <2>3, <2>4, <2>5, <2>6, <2>7 DEF v
<1>7. WithItem(m, id, i) = Mem(h, c, [x EXCEPT ![id] = Put([r EXCEPT !.cod = 0], k, "changed")])
  BY <1>1, <1>3 DEF WithItem
<1>8. Mem(h, c, [x EXCEPT ![id] = Put([r EXCEPT !.cod = 0], k, "changed")]) \in Memory
  BY <1>1, <1>4, IsMemoryWith
<1> QED BY <1>2, <1>5, <1>6, <1>7, <1>8

LEMMA WithGoldIs ==
    ASSUME NEW m \in Memory, NEW id \in Ids, m.box[id].state # "none"
    PROVE  /\ [m EXCEPT !.gold = @ + m.box[id].row.gold, !.box[id].row.gold = 0,
                        !.box[id].state = "changed"]
                = WithGold(m, id)
           /\ WithGold(m, id) \in Memory
<1>1. PICK g, b, x, r, j, s :
         /\ g = m.gold /\ b = m.bag /\ x = m.box
         /\ r = m.box[id].row /\ j = m.box[id].items /\ s = m.box[id].state
  OBVIOUS
<1>2. /\ m = Mem(g, b, x) /\ id \in DOMAIN x /\ x[id] = Put(r, j, s)
      /\ g \in Nat /\ b \in SUBSET Items /\ r \in Row /\ j \in SUBSET Items
  BY <1>1, InBox, MemoryFacts, LetterFacts
<1>3. PICK h : h = g + r.gold
  OBVIOUS
<1>4. h \in Nat /\ Put([r EXCEPT !.gold = 0], j, "changed") \in Letters
  <2>1. r.gold \in Nat /\ [r EXCEPT !.gold = 0] \in Row
    BY <1>2, RowFacts, RowExcept
  <2> QED BY <1>2, <1>3, <2>1, IsLetter
<1>5. [m EXCEPT !.gold = @ + m.box[id].row.gold, !.box[id].row.gold = 0,
                !.box[id].state = "changed"]
        = [m EXCEPT !.gold = h, !.box[id].row.gold = 0, !.box[id].state = "changed"]
  BY <1>1, <1>3
<1>6. [Mem(g, b, x) EXCEPT !.gold = h, !.box[id].row.gold = 0, !.box[id].state = "changed"]
        = Mem(h, b, [x EXCEPT ![id] = Put([r EXCEPT !.gold = 0], j, "changed")])
  <2> DEFINE z == [x EXCEPT ![id] = Put([r EXCEPT !.gold = 0], j, s)]
             v == [x EXCEPT ![id] = Put([r EXCEPT !.gold = 0], j, "changed")]
  <2>1. /\ z[id] = Put([r EXCEPT !.gold = 0], j, s) /\ DOMAIN z = DOMAIN x
        /\ v = [z EXCEPT ![id] = Put([r EXCEPT !.gold = 0], j, "changed")]
    BY <1>2, BoxTwice
  <2>2. [Mem(g, b, x) EXCEPT !.gold = h] = Mem(h, b, x)
    BY MemExcept
  <2>3. [Mem(h, b, x) EXCEPT !.box[id].row.gold = 0] = Mem(h, b, z)
    <3>1. [Mem(h, b, x) EXCEPT !.box[id].row.gold = 0]
            = Mem(h, b, [x EXCEPT ![id] = [x[id] EXCEPT !.row = [x[id].row EXCEPT !.gold = 0]]])
      BY DEF Mem
    <3>2. [x[id] EXCEPT !.row = [x[id].row EXCEPT !.gold = 0]] = Put([r EXCEPT !.gold = 0], j, s)
      BY <1>2, PutExcept
    <3> QED BY <3>1, <3>2
  <2> HIDE DEF z, v
  <2>4. [Mem(h, b, z) EXCEPT !.box[id].state = "changed"] = Mem(h, b, v)
    <3>1. [Mem(h, b, z) EXCEPT !.box[id].state = "changed"]
            = Mem(h, b, [z EXCEPT ![id] = [z[id] EXCEPT !.state = "changed"]])
      BY DEF Mem
    <3>2. [z[id] EXCEPT !.state = "changed"] = Put([r EXCEPT !.gold = 0], j, "changed")
      BY <2>1, PutExcept
    <3> QED BY <2>1, <3>1, <3>2
  <2>5. [Mem(g, b, x) EXCEPT !.gold = h, !.box[id].row.gold = 0, !.box[id].state = "changed"]
          = [[[Mem(g, b, x) EXCEPT !.gold = h] EXCEPT !.box[id].row.gold = 0]
                EXCEPT !.box[id].state = "changed"]
    OBVIOUS
  <2> QED BY <2>2, <2>3, <2>4, <2>5 DEF v
<1>7. WithGold(m, id) = Mem(h, b, [x EXCEPT ![id] = Put([r EXCEPT !.gold = 0], j, "changed")])
  BY <1>1, <1>3 DEF WithGold
<1>8. Mem(h, b, [x EXCEPT ![id] = Put([r EXCEPT !.gold = 0], j, "changed")]) \in Memory
  BY <1>1, <1>2, <1>4, IsMemoryWith
<1> QED BY <1>2, <1>5, <1>6, <1>7, <1>8

\* The other changes of one memory among all.
LEMMA MarkedIs ==
    ASSUME NEW f \in [Players -> Memory], NEW p \in Players, NEW id \in Ids,
           f[p].box[id].state # "none"
    PROVE  /\ [f EXCEPT ![p].box[id] = [@ EXCEPT !.row.read = TRUE, !.state = "changed"]]
                = [f EXCEPT ![p] = Marked(f[p], id)]
           /\ Marked(f[p], id) \in Memory
<1>1. PICK m, g, b, x, r, j, s :
         /\ m = f[p] /\ g = m.gold /\ b = m.bag /\ x = m.box
         /\ r = m.box[id].row /\ j = m.box[id].items /\ s = m.box[id].state
  OBVIOUS
<1>2. /\ m \in Memory /\ m = Mem(g, b, x) /\ id \in DOMAIN x /\ x[id] = Put(r, j, s)
      /\ g \in Nat /\ b \in SUBSET Items /\ r \in Row /\ j \in SUBSET Items
  BY <1>1, InBox, MemoryFacts, LetterFacts
<1>3. PICK a : a = Put([r EXCEPT !.read = TRUE], j, "changed")
  OBVIOUS
<1>4. [x[id] EXCEPT !.row.read = TRUE, !.state = "changed"] = a
  <2>0. PICK yes : yes = TRUE
    OBVIOUS
  <2>1. PICK c, e : c = x[id] /\ e = [c.row EXCEPT !.read = yes]
    OBVIOUS
  <2>2. [c EXCEPT !.row.read = yes, !.state = "changed"]
          = [[c EXCEPT !.row = e] EXCEPT !.state = "changed"]
    BY <2>1
  <2>3. c = Put(r, j, s) /\ e = [r EXCEPT !.read = yes]
    BY <1>2, <2>1, PutExcept
  <2>4. [c EXCEPT !.row = e] = Put(e, j, s)
    BY <2>3, PutExcept
  <2>5. [Put(e, j, s) EXCEPT !.state = "changed"] = Put(e, j, "changed")
    BY PutExcept
  <2>6. [c EXCEPT !.row.read = yes, !.state = "changed"] = Put(e, j, "changed")
    BY <2>2, <2>4, <2>5
  <2>7. [x[id] EXCEPT !.row.read = TRUE, !.state = "changed"] = Put(e, j, "changed")
    BY <2>0, <2>1, <2>6, Zenon
  <2>8. a = Put(e, j, "changed")
    BY <1>3, <2>0, <2>3, Zenon
  <2> QED BY <2>7, <2>8
<1>5. a \in Letters
  <2>1. [r EXCEPT !.read = TRUE] \in Row
    BY <1>2 DEF Row
  <2> QED BY <1>2, <1>3, <2>1, IsLetter
<1>6. [f EXCEPT ![p].box[id] = a] = [f EXCEPT ![p] = [f[p] EXCEPT !.box[id] = a]]
  OBVIOUS
<1>7. [Mem(g, b, x) EXCEPT !.box[id] = a] = Mem(g, b, [x EXCEPT ![id] = a])
  BY DEF Mem
<1>8. Marked(f[p], id) = Mem(g, b, [x EXCEPT ![id] = a])
  BY <1>1, <1>3 DEF Marked
<1>9. Mem(g, b, [x EXCEPT ![id] = a]) \in Memory
  BY <1>1, <1>2, <1>5, IsMemoryWith
<1>10. [f EXCEPT ![p].box[id] = [@ EXCEPT !.row.read = TRUE, !.state = "changed"]]
         = [f EXCEPT ![p].box[id] = a]
  BY <1>1, <1>4
<1> QED BY <1>1, <1>2, <1>6, <1>7, <1>8, <1>9, <1>10

LEMMA DroppedIs ==
    ASSUME NEW f \in [Players -> Memory], NEW p \in Players, NEW id \in Ids,
           f[p].box[id].state # "none"
    PROVE  /\ [f EXCEPT ![p].box[id].state = "deleted"] = [f EXCEPT ![p] = Dropped(f[p], id)]
           /\ Dropped(f[p], id) \in Memory
<1>1. PICK m, g, b, x, r, j, s :
         /\ m = f[p] /\ g = m.gold /\ b = m.bag /\ x = m.box
         /\ r = m.box[id].row /\ j = m.box[id].items /\ s = m.box[id].state
  OBVIOUS
<1>2. /\ m \in Memory /\ m = Mem(g, b, x) /\ id \in DOMAIN x /\ x[id] = Put(r, j, s)
      /\ g \in Nat /\ b \in SUBSET Items /\ r \in Row /\ j \in SUBSET Items
  BY <1>1, InBox, MemoryFacts, LetterFacts
<1> DEFINE v == [x EXCEPT ![id] = Put(r, j, "deleted")]
<1>3. [Mem(g, b, x) EXCEPT !.box[id].state = "deleted"] = Mem(g, b, v)
  <2>1. [Mem(g, b, x) EXCEPT !.box[id].state = "deleted"]
          = Mem(g, b, [x EXCEPT ![id] = [x[id] EXCEPT !.state = "deleted"]])
    BY DEF Mem
  <2>2. [x[id] EXCEPT !.state = "deleted"] = Put(r, j, "deleted")
    BY <1>2, PutExcept
  <2> QED BY <2>1, <2>2
<1>4. [f EXCEPT ![p].box[id].state = "deleted"]
        = [f EXCEPT ![p] = [f[p] EXCEPT !.box[id].state = "deleted"]]
  OBVIOUS
<1> HIDE DEF v
<1>5. Dropped(f[p], id) = Mem(g, b, v)
  BY <1>1 DEF Dropped, v
<1>6. Mem(g, b, v) \in Memory
  <2>1. Put(r, j, "deleted") \in Letters
    BY <1>2, IsLetter
  <2> QED BY <1>1, <1>2, <2>1, IsMemoryWith DEF v
<1> QED BY <1>1, <1>2, <1>3, <1>4, <1>5, <1>6

LEMMA WithoutIs ==
    ASSUME NEW f \in [Players -> Memory], NEW p \in Players, NEW id \in Ids
    PROVE  /\ RemoveMail(f, p, id) = [f EXCEPT ![p] = Without(f[p], id)]
           /\ Without(f[p], id) \in Memory
<1>1. PICK m, g, b, x : m = f[p] /\ g = m.gold /\ b = m.bag /\ x = m.box
  OBVIOUS
<1>2. m \in Memory /\ m = Mem(g, b, x) /\ g \in Nat /\ b \in SUBSET Items
  BY <1>1, MemoryFacts
<1>3. RemoveMail(f, p, id) = [f EXCEPT ![p] = [f[p] EXCEPT !.box[id] = NoMail]]
  BY DEF RemoveMail
<1>4. [Mem(g, b, x) EXCEPT !.box[id] = NoMail] = Mem(g, b, [x EXCEPT ![id] = NoMail])
  BY DEF Mem
<1>5. Mem(g, b, [x EXCEPT ![id] = NoMail]) \in Memory
  BY <1>1, <1>2, IsMemoryWith
<1>6. Without(f[p], id) = Mem(g, b, [x EXCEPT ![id] = NoMail])
  BY <1>1 DEF Without
<1> QED BY <1>1, <1>2, <1>3, <1>4, <1>5, <1>6

LEMMA SpentIs ==
    ASSUME NEW m \in Memory, NEW left \in Nat, NEW items
    PROVE  /\ [[m EXCEPT !.gold = left] EXCEPT !.bag = m.bag \ items] = Spent(m, left, items)
           /\ Spent(m, left, items) \in Memory
<1>1. PICK g, b, x : g = m.gold /\ b = m.bag /\ x = m.box
  OBVIOUS
<1>2. m = Mem(g, b, x) /\ g \in Nat /\ b \in SUBSET Items /\ x \in Box
  BY <1>1, MemoryFacts
<1>3. [Mem(g, b, x) EXCEPT !.gold = left] = Mem(left, b, x)
  BY MemExcept
<1>4. PICK c : c = b \ items
  OBVIOUS
<1>5. [Mem(left, b, x) EXCEPT !.bag = c] = Mem(left, c, x)
  BY MemExcept
<1>6. Spent(m, left, items) = Mem(left, c, x)
  BY <1>1, <1>4 DEF Spent
<1>7. c \in SUBSET Items
  BY <1>2, <1>4
<1>8. Mem(left, c, x) \in Memory
  BY <1>2, <1>7, IsMemory
<1> QED BY <1>1, <1>2, <1>3, <1>4, <1>5, <1>6, <1>8

LEMMA ArrivedIs ==
    ASSUME NEW f \in [Players -> Memory], nextId \in Ids, NEW row \in Row, NEW items \in SUBSET Items
    PROVE  /\ Post(f, row, items) \in [Players -> Memory]
           /\ \A r \in Players :
                Post(f, row, items)[r]
                  = IF r = row.to /\ session[r] = "in" THEN Arrived(f[r], nextId, row, items) ELSE f[r]
<1> DEFINE q == row.to
<1>1. q \in Players
  BY RowFacts
<1>2. PICK m, g, b, x, n : m = f[q] /\ g = m.gold /\ b = m.bag /\ x = m.box /\ n = nextId
  OBVIOUS
<1>3. m \in Memory /\ m = Mem(g, b, x) /\ g \in Nat /\ b \in SUBSET Items
  BY <1>1, <1>2, MemoryFacts
<1>4. PICK a : a = Put(row, items, "unchanged")
  OBVIOUS
<1>5. a \in Letters /\ a = Mail(row, items)
  BY <1>4, IsLetter DEF Mail, Put
<1>6. [f EXCEPT ![q].box[n] = a] = [f EXCEPT ![q] = [f[q] EXCEPT !.box[n] = a]]
  OBVIOUS
<1>7. [Mem(g, b, x) EXCEPT !.box[n] = a] = Mem(g, b, [x EXCEPT ![n] = a])
  BY DEF Mem
<1>8. Arrived(f[q], n, row, items) = Mem(g, b, [x EXCEPT ![n] = a])
  BY <1>2, <1>4 DEF Arrived
<1>9. Mem(g, b, [x EXCEPT ![n] = a]) \in Memory
  BY <1>2, <1>3, <1>5, IsMemoryWith
<1>10. Post(f, row, items) = IF session[q] = "in" THEN [f EXCEPT ![q].box[n] = a] ELSE f
  BY <1>2, <1>5 DEF Post
<1>11. [f EXCEPT ![q].box[n] = a] = [f EXCEPT ![q] = Arrived(f[q], n, row, items)]
  BY <1>2, <1>3, <1>6, <1>7, <1>8
<1>12. Arrived(f[q], n, row, items) \in Memory
  BY <1>8, <1>9
<1> HIDE DEF q
<1>13. CASE session[q] = "in"
  <2>1. Post(f, row, items) = [f EXCEPT ![q] = Arrived(f[q], n, row, items)]
    BY <1>10, <1>11, <1>13
  <2> QED BY <1>1, <1>2, <1>12, <1>13, <2>1 DEF q
<1>14. CASE session[q] # "in"
  BY <1>10, <1>14 DEF q
<1> QED BY <1>13, <1>14

----------------------------------------------------------------------------
(* Types of the entries.                                                    *)

TypeInv ==
    /\ db \in World /\ queue \in Seq(Entry)
    /\ session \in [Players -> {"out", "loading", "in"}]
    /\ answer \in [Players -> Memory] /\ mem \in [Players -> Memory]
    /\ nextId \in 1 .. MaxMails + 1 /\ unseen \in SUBSET Ids /\ raced \in BOOLEAN

LEMMA UpdatesFacts ==
    ASSUME NEW m \in Memory
    PROVE  /\ Updates(m) \in Partial(Ids, Change \cup Return)
           /\ DOMAIN Updates(m) = InState(m, "changed")
           /\ \A id \in InState(m, "changed") :
                /\ m.box[id] \in Letters /\ Updates(m)[id] \in Change
                /\ Updates(m)[id].gold = m.box[id].row.gold
                /\ Updates(m)[id].cod = m.box[id].row.cod
                /\ Updates(m)[id].has = (m.box[id].items # {})
           /\ Deleted(m) \in SUBSET Ids /\ Destroyed(m) \in SUBSET Items
           /\ \A i : i \in Destroyed(m) <=> \E id \in Deleted(m) : i \in m.box[id].items
<1>1. ASSUME NEW id \in InState(m, "changed")
      PROVE  /\ m.box[id] \in Letters /\ Updates(m)[id] \in Change
             /\ Updates(m)[id].gold = m.box[id].row.gold
             /\ Updates(m)[id].cod = m.box[id].row.cod
             /\ Updates(m)[id].has = (m.box[id].items # {})
  <2>1. id \in Ids /\ m.box[id] \in Letters
    BY InBox DEF InState
  <2>2. /\ m.box[id].row.gold \in Nat /\ m.box[id].row.cod \in Nat
        /\ m.box[id].row.read \in BOOLEAN
    BY <2>1, LetterFacts, RowFacts
  <2>3. Updates(m)[id] = [gold |-> m.box[id].row.gold, cod |-> m.box[id].row.cod,
                          read |-> m.box[id].row.read, has |-> m.box[id].items # {}]
    BY DEF Updates
  <2>4. Updates(m)[id] \in Change
    BY <2>2, <2>3 DEF Change
  <2> QED BY <2>1, <2>3, <2>4
<1>2. DOMAIN Updates(m) = InState(m, "changed") /\ InState(m, "changed") \in SUBSET Ids
  BY DEF Updates, InState
<1>3. Updates(m) \in [InState(m, "changed") -> Change \cup Return]
  <2>1. \A id \in InState(m, "changed") : Updates(m)[id] \in Change \cup Return
    BY <1>1
  <2>2. Updates(m) = [id \in InState(m, "changed") |-> Updates(m)[id]]
    BY DEF Updates
  <2> QED BY <2>1, <2>2
<1>4. Updates(m) \in Partial(Ids, Change \cup Return)
  BY <1>2, <1>3, PartialFacts
<1>5. Deleted(m) \in SUBSET Ids /\ \A id \in Deleted(m) : m.box[id] \in Letters
  BY InBox DEF Deleted, InState
<1>6. \A i : i \in Destroyed(m) <=> \E id \in Deleted(m) : i \in m.box[id].items
  BY DEF Destroyed
<1>7. Destroyed(m) \in SUBSET Items
  BY <1>5, <1>6, LetterFacts
<1> QED BY <1>1, <1>2, <1>4, <1>5, <1>6, <1>7

LEMMA PartialType ==
    \A S, T : /\ Empty \in Partial(S, T)
              /\ \A x \in S : \A v \in T : Only(x, v) \in Partial(S, T)
  BY PartialFacts

LEMMA NoDomain == DOMAIN Empty = {}
  BY DEF Empty

LEMMA OnlyFacts == \A x, v : DOMAIN Only(x, v) = {x} /\ Only(x, v)[x] = v
  BY DEF Only

LEMMA AllFacts ==
    ASSUME NEW S, NEW T, NEW D \in SUBSET S, NEW v \in T
    PROVE  [x \in D |-> v] \in Partial(S, T)
<1>1. [x \in D |-> v] \in [D -> T]
  OBVIOUS
<1> QED BY <1>1, PartialFacts

LEMMA LoadTxType == \A p \in Players : LoadTx(p) \in Entry
<1> SUFFICES ASSUME NEW p \in Players PROVE LoadTx(p) \in Entry
  OBVIOUS
<1> QED BY PartialType, NoDomain, TxType DEF LoadTx

LEMMA SaveTxType ==
    ASSUME NEW m \in Memory, NEW gold \in Partial(Players, Nat)
    PROVE  SaveTx(gold, m) \in Entry
  BY PartialType, NoDomain, UpdatesFacts, TxType DEF SaveTx

LEMMA SendTxType ==
    ASSUME NEW p \in Players, NEW left \in Nat, NEW n \in Ids, NEW row \in Row,
           NEW items \in SUBSET Items
    PROVE  SendTx(p, left, n, row, items) \in Entry
<1>1. /\ Only(p, left) \in Partial(Players, Nat) /\ Only(n, row) \in Partial(Ids, Row)
      /\ Empty \in Partial(Ids, Change \cup Return)
  BY PartialType
<1>2. /\ [i \in items |-> n] \in Partial(Items, Ids \cup {0})
      /\ [i \in items |-> Nobody] \in Partial(Items, Players \cup {Nobody})
  BY AllFacts
<1>3. \A j \in DOMAIN [i \in items |-> n] : [i \in items |-> n][j] \in DOMAIN Only(n, row)
  BY OnlyFacts
<1> QED BY <1>1, <1>2, <1>3, TxType DEF SendTx

LEMMA BackTxType ==
    ASSUME NEW id \in Ids, NEW n \in Ids, NEW row \in Row, NEW items \in SUBSET Items
    PROVE  BackTx(id, n, row, items) \in Entry
<1>1. /\ Empty \in Partial(Players, Nat) /\ Only(n, row) \in Partial(Ids, Row)
      /\ Empty \in Partial(Ids, Change \cup Return)
      /\ Empty \in Partial(Items, Players \cup {Nobody})
  BY PartialType
<1>2. [i \in items |-> n] \in Partial(Items, Ids \cup {0})
  BY AllFacts
<1>3. \A j \in DOMAIN [i \in items |-> n] : [i \in items |-> n][j] \in DOMAIN Only(n, row)
  BY OnlyFacts
<1> QED BY <1>1, <1>2, <1>3, TxType DEF BackTx

LEMMA TakeTxType ==
    ASSUME NEW p \in Players, NEW m \in Memory, NEW ins \in Partial(Ids, Row), NEW i \in Items
    PROVE  TakeTx(p, m, ins, i) \in Entry
<1>1. m.gold \in Nat
  BY MemoryFacts
<1>2. Only(p, m.gold) \in Partial(Players, Nat)
  BY <1>1, PartialType
<1>3. Only(i, 0) \in Partial(Items, Ids \cup {0})
  <2>1. 0 \in Ids \cup {0}
    OBVIOUS
  <2> QED BY <2>1, PartialType
<1>4. Only(i, p) \in Partial(Items, Players \cup {Nobody})
  <2>1. p \in Players \cup {Nobody}
    OBVIOUS
  <2> QED BY <2>1, PartialType
<1>5. \A j \in DOMAIN Only(i, 0) : Only(i, 0)[j] = 0
  BY DEF Only
<1>6. /\ Updates(m) \in Partial(Ids, Change \cup Return)
      /\ Deleted(m) \in SUBSET Ids /\ Destroyed(m) \in SUBSET Items
  BY UpdatesFacts
<1>7. Nobody \in Players \cup {Nobody}
  OBVIOUS
<1> QED BY <1>2, <1>3, <1>4, <1>5, <1>6, <1>7, TxType DEF TakeTx

LEMMA ReturnTxType ==
    ASSUME NEW id \in Ids, NEW back \in Return
    PROVE  ReturnTx(id, back) \in Entry
  BY PartialType, NoDomain, TxType DEF ReturnTx

LEMMA DestroyTxType == \A i \in Items : DestroyTx(i) \in Entry
<1> SUFFICES ASSUME NEW i \in Items PROVE DestroyTx(i) \in Entry
  OBVIOUS
<1> QED BY PartialType, NoDomain, TxType DEF DestroyTx

LEMMA DeleteTxType == \A id \in Ids : DeleteTx(id) \in Entry
<1> SUFFICES ASSUME NEW id \in Ids PROVE DeleteTx(id) \in Entry
  OBVIOUS
<1> QED BY PartialType, NoDomain, TxType DEF DeleteTx

\* What a player reads.
LEMMA LoadFacts ==
    ASSUME NEW w \in World, NEW p \in Players
    PROVE  /\ Load(w, p) \in Memory
           /\ Load(w, p).gold = w.gold[p] /\ Load(w, p).bag = {i \in w.alive : w.inv[i] = p}
           /\ \A id \in Ids :
                /\ ~IsTo(w, id, p) => Load(w, p).box[id] = NoMail
                /\ IsTo(w, id, p) => /\ Load(w, p).box[id] = Put(w.row[id], ItemsOf(w, id), "unchanged")
                                     /\ Load(w, p).box[id] \in Letters
<1> DEFINE g == w.gold[p]
           b == {i \in w.alive : w.inv[i] = p}
           x == [id \in Ids |-> IF IsTo(w, id, p) THEN Mail(w.row[id], ItemsOf(w, id)) ELSE NoMail]
<1>1. Load(w, p) = Mem(g, b, x)
  BY DEF Load, Mem
<1>2. g \in Nat /\ b \in SUBSET Items
  BY WorldFacts
<1>3. ASSUME NEW id \in Ids, IsTo(w, id, p)
      PROVE  x[id] = Put(w.row[id], ItemsOf(w, id), "unchanged") /\ x[id] \in Letters
  <2>1. w.row[id] \in Row /\ ItemsOf(w, id) \in SUBSET Items
    BY <1>3, WorldFacts DEF IsTo, ItemsOf
  <2>2. x[id] = Put(w.row[id], ItemsOf(w, id), "unchanged")
    BY <1>3 DEF Mail, Put
  <2> QED BY <2>1, <2>2, IsLetter
<1>4. \A id \in Ids : ~IsTo(w, id, p) => x[id] = NoMail
  OBVIOUS
<1>5. x \in Box
  BY <1>3, <1>4 DEF Box
<1> HIDE DEF g, b, x
<1>6. Load(w, p) \in Memory
  BY <1>1, <1>2, <1>5, IsMemory
<1>7. Load(w, p).gold = g /\ Load(w, p).bag = b /\ Load(w, p).box = x
  BY <1>1, MemExcept
<1> QED BY <1>3, <1>4, <1>6, <1>7 DEF g, b

LEMMA AbsentFacts ==
    /\ Absent \in Memory /\ Absent.bag = {}
    /\ \A id \in Ids : Absent.box[id] = NoMail
<1> DEFINE x == [id \in Ids |-> NoMail]
<1>1. x \in Box /\ Absent = Mem(0, {}, x)
  BY DEF Box, Absent, Mem
<1> HIDE DEF x
<1>2. Absent \in Memory /\ Absent.bag = {} /\ Absent.box = x
  BY <1>1, IsMemory, MemExcept
<1> QED BY <1>2 DEF x

----------------------------------------------------------------------------
(* What the actions do, under the type invariant.                           *)

LEMMA EnqueueOne ==
    ASSUME queue \in Seq(Entry), NEW t \in Entry, Enqueue(<<t>>)
    PROVE  queue' = Append(queue, t) /\ queue' \in Seq(Entry)
<1>1. queue' = Append(queue, t)
  BY AppendIsConcat DEF Enqueue
<1> QED BY <1>1, AppendProperties

LEMMA LoginFacts ==
    ASSUME TypeInv, NEW p \in Players, Login(p)
    PROVE  /\ queue' = Append(queue, LoadTx(p)) /\ queue' \in Seq(Entry)
           /\ session[p] = "out" /\ session' = [session EXCEPT ![p] = "loading"]
           /\ UNCHANGED <<db, answer, mem, nextId, unseen, raced>>
<1>1. Enqueue(<<LoadTx(p)>>)
  BY LoadIs DEF Login
<1>2. queue' = Append(queue, LoadTx(p)) /\ queue' \in Seq(Entry)
  BY <1>1, LoadTxType, EnqueueOne DEF TypeInv
<1> QED BY <1>2 DEF Login

LEMMA LogoutFacts ==
    ASSUME TypeInv, NEW p \in Players, Logout(p)
    PROVE  /\ queue' = Append(queue, SaveTx(Only(p, mem[p].gold), mem[p]))
           /\ queue' \in Seq(Entry)
           /\ SaveTx(Only(p, mem[p].gold), mem[p]) \in Entry
           /\ session[p] = "in" /\ session' = [session EXCEPT ![p] = "out"]
           /\ mem' = [mem EXCEPT ![p] = Absent]
           /\ unseen' = {id \in unseen : ~IsTo(Future, id, p)}
           /\ UNCHANGED <<db, answer, nextId, raced>>
<1> DEFINE t == SaveTx(Only(p, mem[p].gold), mem[p])
<1>1. Enqueue(<<t>>)
  BY SaveIs DEF Logout
<1>2. mem[p] \in Memory /\ mem[p].gold \in Nat
  BY MemoryFacts DEF TypeInv
<1>3. Only(p, mem[p].gold) \in Partial(Players, Nat)
  BY <1>2, PartialType
<1>4. t \in Entry
  BY <1>2, <1>3, SaveTxType
<1> HIDE DEF t
<1>5. queue' = Append(queue, t) /\ queue' \in Seq(Entry)
  BY <1>1, <1>4, EnqueueOne DEF TypeInv
<1> QED BY <1>4, <1>5 DEF Logout, t

LEMMA SendFacts ==
    ASSUME TypeInv, NEW p \in Players, NEW q \in Players, NEW gold \in Gold, NEW cod \in COD,
           NEW items \in SUBSET Items, SendMail(p, q, gold, cod, items)
    PROVE  \E row \in Row, left \in Nat :
             /\ row.to = q /\ row.gold = gold /\ row.has = (items # {})
             /\ mem[p].gold = left + (gold + Postage)
             /\ session[p] = "in" /\ nextId \in Ids /\ items \subseteq mem[p].bag
             /\ queue' = Append(queue, SendTx(p, left, nextId, row, items))
             /\ queue' \in Seq(Entry) /\ SendTx(p, left, nextId, row, items) \in Entry
             /\ mem' = Post([mem EXCEPT ![p] = Spent(mem[p], left, items)], row, items)
             /\ nextId' = nextId + 1 /\ unseen' = Unseen(row)
             /\ UNCHANGED <<db, session, answer, raced>>
<1> DEFINE c == IF items = {} THEN 0 ELSE cod
           row == Letter(p, q, gold, c, "sent", items)
           left == mem[p].gold - (gold + Postage)
           t == SendTx(p, left, nextId, row, items)
<1>1. mem \in [Players -> Memory] /\ mem[p] \in Memory /\ mem[p].gold \in Nat
  BY MemoryFacts DEF TypeInv
<1>2. gold \in Nat /\ cod \in Nat /\ c \in Nat /\ Postage \in Nat
  BY GoldAssumption
<1>3. mem[p].gold >= gold + Postage /\ nextId \in Ids
  BY DEF SendMail, HasEnoughMoney
<1>4. left \in Nat /\ mem[p].gold = left + (gold + Postage)
  BY <1>1, <1>2, <1>3
<1>5. row \in Row /\ row.to = q /\ row.gold = gold /\ row.has = (items # {})
  <2>1. "sent" \in {"sent", "returned", "payment"}
    OBVIOUS
  <2> HIDE DEF c
  <2> QED BY <1>2, <2>1, LetterRow
<1>6. /\ Enqueue(<<Posted([Nothing EXCEPT !.gold = Only(p, left), !.inv = [i \in items |-> Nobody]],
                        row, items)>>)
      /\ mem' = Post([mem EXCEPT ![p].gold = left, ![p].bag = @ \ items], row, items)
  BY DEF SendMail
<1>7. /\ session[p] = "in" /\ items \subseteq mem[p].bag
      /\ nextId' = nextId + 1 /\ unseen' = Unseen(row)
      /\ UNCHANGED <<db, session, answer, raced>>
  BY DEF SendMail
<1> HIDE DEF row, left, c
<1>8. Enqueue(<<t>>)
  BY <1>6, SendIs
<1>9. t \in Entry
  BY <1>3, <1>4, <1>5, SendTxType
<1>10. mem' = Post([mem EXCEPT ![p] = Spent(mem[p], left, items)], row, items)
  <2>1. [mem EXCEPT ![p].gold = left, ![p].bag = @ \ items]
          = [mem EXCEPT ![p] = [[mem[p] EXCEPT !.gold = left] EXCEPT !.bag = mem[p].bag \ items]]
    OBVIOUS
  <2>2. [[mem[p] EXCEPT !.gold = left] EXCEPT !.bag = mem[p].bag \ items]
          = Spent(mem[p], left, items)
    BY <1>1, <1>4, SpentIs
  <2> QED BY <1>6, <2>1, <2>2
<1> HIDE DEF t
<1>11. queue' = Append(queue, t) /\ queue' \in Seq(Entry)
  BY <1>8, <1>9, EnqueueOne DEF TypeInv
<1> QED BY <1>3, <1>4, <1>5, <1>7, <1>9, <1>10, <1>11 DEF t

LEMMA BackFacts ==
    ASSUME TypeInv, NEW p \in Players, NEW id \in Ids, ReturnToSender(p, id)
    PROVE  \E row \in Row, items \in SUBSET Items :
             /\ mem[p].box[id] \in Letters
             /\ items = mem[p].box[id].items /\ row.gold = mem[p].box[id].row.gold
             /\ row.has = (items # {})
             /\ session[p] = "in" /\ nextId \in Ids
             /\ queue' = Append(queue, BackTx(id, nextId, row, items))
             /\ queue' \in Seq(Entry) /\ BackTx(id, nextId, row, items) \in Entry
             /\ mem' = Post([mem EXCEPT ![p] = Without(mem[p], id)], row, items)
             /\ nextId' = nextId + 1 /\ unseen' = Unseen(row)
             /\ UNCHANGED <<db, session, answer, raced>>
<1> DEFINE m == mem[p].box[id]
           items == m.items
           row == Letter(p, m.row.from, m.row.gold, 0, "returned", items)
           t == BackTx(id, nextId, row, items)
<1>1. mem \in [Players -> Memory] /\ mem[p] \in Memory
  BY DEF TypeInv
<1>2. m.state # "none" /\ nextId \in Ids /\ session[p] = "in"
  BY DEF ReturnToSender, HasMail
<1>3. m \in Letters
  BY <1>1, <1>2, InBox
<1>4. m.row.from \in Players /\ m.row.gold \in Nat /\ items \in SUBSET Items
  BY <1>3, LetterFacts, RowFacts
<1>5. /\ Enqueue(<<Posted([Nothing EXCEPT !.del = {id}], row, items)>>)
      /\ mem' = Post(RemoveMail(mem, p, id), row, items)
      /\ nextId' = nextId + 1 /\ unseen' = Unseen(row)
      /\ UNCHANGED <<db, session, answer, raced>>
  BY DEF ReturnToSender
<1> HIDE DEF m, items
<1>6. row \in Row /\ row.gold = m.row.gold /\ row.has = (items # {})
  <2>1. "returned" \in {"sent", "returned", "payment"} /\ 0 \in Nat
    OBVIOUS
  <2>2. PICK kind, none : kind = "returned" /\ none = 0
    OBVIOUS
  <2>3. /\ Letter(p, m.row.from, m.row.gold, none, kind, items) \in Row
        /\ Letter(p, m.row.from, m.row.gold, none, kind, items).gold = m.row.gold
        /\ Letter(p, m.row.from, m.row.gold, none, kind, items).has = (items # {})
    BY <1>4, <2>1, <2>2, LetterRow
  <2> QED BY <2>2, <2>3
<1> HIDE DEF row
<1>7. Enqueue(<<t>>)
  BY <1>5, BackIs
<1>8. t \in Entry
  BY <1>2, <1>4, <1>6, BackTxType
<1>9. mem' = Post([mem EXCEPT ![p] = Without(mem[p], id)], row, items)
  BY <1>1, <1>5, WithoutIs
<1> HIDE DEF t
<1>10. queue' = Append(queue, t) /\ queue' \in Seq(Entry)
  BY <1>7, <1>8, EnqueueOne DEF TypeInv
<1> QED BY <1>2, <1>3, <1>4, <1>5, <1>6, <1>8, <1>9, <1>10 DEF t, m, items

LEMMA TakeMoneyFacts ==
    ASSUME TypeInv, NEW p \in Players, NEW id \in Ids, TakeMoney(p, id)
    PROVE  \E taken \in Memory :
             /\ taken = WithGold(mem[p], id) /\ mem[p].box[id] \in Letters /\ session[p] = "in"
             /\ mem[p].box[id].state # "deleted"
             /\ queue' = Append(queue, SaveTx(Only(p, taken.gold), taken))
             /\ queue' \in Seq(Entry) /\ SaveTx(Only(p, taken.gold), taken) \in Entry
             /\ Saved(taken) \in Memory /\ mem' = [mem EXCEPT ![p] = Saved(taken)]
             /\ UNCHANGED <<db, session, answer, nextId, unseen, raced>>
<1> DEFINE m == mem[p]
           taken == WithGold(m, id)
           t == SaveTx(Only(p, taken.gold), taken)
<1>1. mem \in [Players -> Memory] /\ m \in Memory
  BY DEF TypeInv
<1>2. m.box[id].state \in {"unchanged", "changed"} /\ session[p] = "in"
  BY DEF TakeMoney, HasMail
<1>3. m.box[id].state # "none" /\ m.box[id] \in Letters
  BY <1>1, <1>2, InBox
<1>4. [mem[p] EXCEPT !.gold = @ + mem[p].box[id].row.gold, !.box[id].row.gold = 0,
                     !.box[id].state = "changed"] = taken /\ taken \in Memory
  BY <1>1, <1>3, WithGoldIs
<1>5. /\ mem' = [mem EXCEPT ![p] = Saved(taken)]
      /\ Enqueue(<<[SaveMail(taken) EXCEPT !.gold = Only(p, taken.gold)]>>)
      /\ UNCHANGED <<db, session, answer, nextId, unseen, raced>>
  BY <1>4 DEF TakeMoney
<1> HIDE DEF taken
<1>6. Enqueue(<<t>>)
  BY <1>5, SaveIs
<1>7. t \in Entry
  <2>1. Only(p, taken.gold) \in Partial(Players, Nat)
    BY <1>4, MemoryFacts, PartialType
  <2> QED BY <1>4, <2>1, SaveTxType
<1> HIDE DEF t
<1>8. queue' = Append(queue, t) /\ queue' \in Seq(Entry)
  BY <1>6, <1>7, EnqueueOne DEF TypeInv
<1>9. Saved(taken) \in Memory
  BY <1>4, SavedIs
<1> QED BY <1>2, <1>3, <1>4, <1>5, <1>7, <1>8, <1>9 DEF t, taken

LEMMA TakeItemFacts ==
    ASSUME TypeInv, NEW p \in Players, NEW id \in Ids, NEW i \in Items, TakeItem(p, id, i)
    PROVE  \E taken \in Memory :
             /\ taken = WithItem(mem[p], id, i) /\ mem[p].box[id] \in Letters /\ session[p] = "in"
             /\ mem[p].box[id].state # "deleted" /\ i \in mem[p].box[id].items
             /\ mem[p].gold >= mem[p].box[id].row.cod
             /\ Saved(taken) \in Memory /\ queue' \in Seq(Entry)
             /\ UNCHANGED <<db, session, answer, raced>>
             /\ \/ /\ mem[p].box[id].row.cod = 0
                   /\ queue' = Append(queue, TakeTx(p, taken, Empty, i))
                   /\ TakeTx(p, taken, Empty, i) \in Entry
                   /\ mem' = [mem EXCEPT ![p] = Saved(taken)]
                   /\ UNCHANGED <<nextId, unseen>>
                \/ \E row \in Row :
                     /\ row.gold = mem[p].box[id].row.cod /\ row.has = FALSE /\ nextId \in Ids
                     /\ queue' = Append(queue, TakeTx(p, taken, Only(nextId, row), i))
                     /\ TakeTx(p, taken, Only(nextId, row), i) \in Entry
                     /\ mem' = Post([mem EXCEPT ![p] = Saved(taken)], row, {})
                     /\ nextId' = nextId + 1 /\ unseen' = Unseen(row)
<1> DEFINE m == mem[p]
           taken == WithItem(m, id, i)
           t == TakeTx(p, taken, Empty, i)
           row == Letter(p, m.box[id].row.from, m.box[id].row.cod, 0, "payment", {})
           u == TakeTx(p, taken, Only(nextId, row), i)
<1>1. mem \in [Players -> Memory] /\ m \in Memory
  BY DEF TypeInv
<1>2. /\ m.box[id].state \in {"unchanged", "changed"} /\ session[p] = "in"
      /\ i \in m.box[id].items /\ m.gold >= m.box[id].row.cod
  BY DEF TakeItem, HasMail, HasEnoughMoney
<1>3. m.box[id].state # "none" /\ m.box[id] \in Letters
  BY <1>1, <1>2, InBox
<1>4. /\ [mem[p] EXCEPT !.gold = @ - mem[p].box[id].row.cod, !.bag = @ \cup {i},
                        !.box[id].items = @ \ {i}, !.box[id].row.cod = 0,
                        !.box[id].state = "changed"] = taken
      /\ taken \in Memory
  BY <1>1, <1>2, <1>3, WithItemIs
<1> DEFINE s == [SaveMail(taken) EXCEPT !.gold = Only(p, taken.gold), !.at = Removes(i),
                                        !.inv = Only(i, p)]
<1>5. /\ UNCHANGED <<db, session, answer, raced>>
      /\ IF m.box[id].row.cod = 0
           THEN /\ mem' = [mem EXCEPT ![p] = Saved(taken)] /\ Enqueue(<<s>>)
                /\ UNCHANGED <<nextId, unseen>>
           ELSE /\ nextId \in Ids
                /\ mem' = Post([mem EXCEPT ![p] = Saved(taken)], row, {})
                /\ Enqueue(<<Posted(s, row, {})>>)
                /\ nextId' = nextId + 1
                /\ unseen' = Unseen(row)
  BY <1>4 DEF TakeItem
<1> HIDE DEF taken
<1>6. s = t
  BY TakeIs
<1> HIDE DEF s
<1>7. Saved(taken) \in Memory
  BY <1>4, SavedIs
<1>8. CASE m.box[id].row.cod = 0
  <2>1. t \in Entry
    BY <1>4, PartialType, TakeTxType
  <2>2. Enqueue(<<t>>)
    BY <1>5, <1>6, <1>8
  <2> HIDE DEF t
  <2>3. queue' = Append(queue, t) /\ queue' \in Seq(Entry)
    BY <2>1, <2>2, EnqueueOne DEF TypeInv
  <2> QED BY <1>2, <1>3, <1>4, <1>5, <1>7, <1>8, <2>1, <2>3 DEF t, taken
<1>9. CASE m.box[id].row.cod # 0
  <2>1. nextId \in Ids
    BY <1>5, <1>9
  <2>2. row \in Row /\ row.gold = m.box[id].row.cod /\ row.has = FALSE
    <3>1. m.box[id].row.from \in Players /\ m.box[id].row.cod \in Nat
      BY <1>3, LetterFacts, RowFacts
    <3>2. PICK kind, none : kind = "payment" /\ none = 0
      OBVIOUS
    <3>3. /\ Letter(p, m.box[id].row.from, m.box[id].row.cod, none, kind, {}) \in Row
          /\ Letter(p, m.box[id].row.from, m.box[id].row.cod, none, kind, {}).gold
               = m.box[id].row.cod
          /\ Letter(p, m.box[id].row.from, m.box[id].row.cod, none, kind, {}).has = ({} # {})
      BY <3>1, <3>2, LetterRow
    <3> QED BY <3>2, <3>3
  <2> HIDE DEF row
  <2>3. u \in Entry
    <3>1. Only(nextId, row) \in Partial(Ids, Row)
      BY <2>1, <2>2, PartialType
    <3> QED BY <1>4, <3>1, TakeTxType
  <2>4. Enqueue(<<u>>)
    <3>1. Enqueue(<<Posted(s, row, {})>>)
      BY <1>5, <1>9
    <3>2. Posted(s, row, {}) = u
      BY <1>6, TakePaidIs
    <3> QED BY <3>1, <3>2
  <2> HIDE DEF u
  <2>5. queue' = Append(queue, u) /\ queue' \in Seq(Entry)
    BY <2>3, <2>4, EnqueueOne DEF TypeInv
  <2>6. /\ mem' = Post([mem EXCEPT ![p] = Saved(taken)], row, {})
        /\ nextId' = nextId + 1 /\ unseen' = Unseen(row)
    BY <1>5, <1>9
  <2> QED BY <1>2, <1>3, <1>4, <1>5, <1>7, <2>1, <2>2, <2>3, <2>5, <2>6 DEF u, taken
<1> QED BY <1>8, <1>9

LEMMA MarkFacts ==
    ASSUME TypeInv, NEW p \in Players, NEW id \in Ids, MarkAsRead(p, id)
    PROVE  /\ session[p] = "in" /\ mem[p].box[id] \in Letters
           /\ mem' = [mem EXCEPT ![p] = Marked(mem[p], id)] /\ Marked(mem[p], id) \in Memory
           /\ UNCHANGED <<db, queue, session, answer, nextId, unseen, raced>>
<1>1. mem \in [Players -> Memory] /\ mem[p] \in Memory
  BY DEF TypeInv
<1>2. mem[p].box[id].state \in {"unchanged", "changed"} /\ session[p] = "in"
  BY DEF MarkAsRead, HasMail
<1>3. mem[p].box[id].state # "none" /\ mem[p].box[id] \in Letters
  BY <1>1, <1>2, InBox
<1>4. /\ [mem EXCEPT ![p].box[id] = [@ EXCEPT !.row.read = TRUE, !.state = "changed"]]
            = [mem EXCEPT ![p] = Marked(mem[p], id)]
      /\ Marked(mem[p], id) \in Memory
  BY <1>1, <1>3, MarkedIs
<1> QED BY <1>2, <1>3, <1>4 DEF MarkAsRead

LEMMA DeleteFacts ==
    ASSUME TypeInv, NEW p \in Players, NEW id \in Ids, Delete(p, id)
    PROVE  /\ session[p] = "in" /\ mem[p].box[id] \in Letters
           /\ mem' = [mem EXCEPT ![p] = Dropped(mem[p], id)] /\ Dropped(mem[p], id) \in Memory
           /\ UNCHANGED <<db, queue, session, answer, nextId, unseen, raced>>
<1>1. mem \in [Players -> Memory] /\ mem[p] \in Memory
  BY DEF TypeInv
<1>2. mem[p].box[id].state \in {"unchanged", "changed"} /\ session[p] = "in"
  BY DEF Delete, HasMail
<1>3. mem[p].box[id].state # "none" /\ mem[p].box[id] \in Letters
  BY <1>1, <1>2, InBox
<1>4. /\ [mem EXCEPT ![p].box[id].state = "deleted"] = [mem EXCEPT ![p] = Dropped(mem[p], id)]
      /\ Dropped(mem[p], id) \in Memory
  BY <1>1, <1>3, DroppedIs
<1> QED BY <1>2, <1>3, <1>4 DEF Delete

LEMMA ExecuteFacts ==
    ASSUME TypeInv, Execute
    PROVE  \E t \in Entry :
             /\ queue # <<>> /\ t = queue[1] /\ t = Head(queue)
             /\ db' = Apply(db, t) /\ db' \in World
             /\ queue' = Tail(queue) /\ queue' \in Seq(Entry)
             /\ answer' \in [Players -> Memory]
             /\ \A p \in Players : answer'[p] = IF t.loads = p THEN Load(db, p) ELSE answer[p]
             /\ UNCHANGED <<session, mem, nextId, unseen, raced>>
<1>1. PICK t : t = Head(queue)
  OBVIOUS
<1>2. queue # <<>> /\ db' = Apply(db, t) /\ queue' = Tail(queue)
  BY <1>1 DEF Execute
<1>3. t \in Entry /\ t = queue[1] /\ queue' \in Seq(Entry)
  BY <1>1, <1>2, HeadTailProperties DEF TypeInv
<1>4. db' \in World
  BY <1>2, <1>3, ApplyFacts DEF TypeInv
<1>5. answer' = IF t.loads = Nobody THEN answer ELSE [answer EXCEPT ![t.loads] = Load(db, t.loads)]
  BY <1>1 DEF Execute
<1>6. t.loads \in Players \cup {Nobody} /\ Nobody \notin Players
  BY <1>3, EntryFacts, NobodyAssumption
<1>7. answer \in [Players -> Memory] /\ db \in World
  BY DEF TypeInv
<1>8. \A p \in Players : Load(db, p) \in Memory
  BY <1>7, LoadFacts
<1>9. /\ answer' \in [Players -> Memory]
      /\ \A p \in Players : answer'[p] = IF t.loads = p THEN Load(db, p) ELSE answer[p]
  BY <1>5, <1>6, <1>7, <1>8
<1>10. UNCHANGED <<session, mem, nextId, unseen, raced>>
  BY DEF Execute
<1> QED BY <1>1, <1>2, <1>3, <1>4, <1>9, <1>10

LEMMA SetToSeqFacts ==
    ASSUME NEW S, IsFiniteSet(S)
    PROVE  /\ SetToSeq(S) \in Seq(S)
           /\ \A x \in S : \E k \in 1 .. Len(SetToSeq(S)) : SetToSeq(S)[k] = x
<1> DEFINE n == Cardinality(S)
           f == SetToSeq(S)
<1>1. n \in Nat /\ ExistsBijection(1 .. n, S)
  BY FS_CardinalityType
<1>2. \E g \in [1 .. n -> S] : IsInjective(g)
  BY <1>1 DEF ExistsBijection, Bijection, Injection, IsInjective
<1>3. f \in [1 .. n -> S] /\ IsInjective(f)
  BY <1>2 DEF SetToSeq
<1>4. IsFiniteSet(1 .. n) /\ Cardinality(1 .. n) = n
  BY <1>1, FS_Interval
<1> HIDE DEF f
<1>5. f \in Injection(1 .. n, S)
  BY <1>3 DEF Injection
<1>6. f \in Surjection(1 .. n, S)
  <2>1. Cardinality(1 .. n) = Cardinality(S)
    BY <1>4
  <2> QED BY <1>5, <2>1, FS_Injection
<1>7. f \in Seq(S) /\ Len(f) = n
  BY <1>1, <1>3
<1>8. \A x \in S : \E k \in 1 .. n : f[k] = x
  BY <1>6 DEF Surjection
<1> QED BY <1>7, <1>8 DEF f

\* The statements that destroy the items of a mail, in some order.
LEMMA DestroysFacts ==
    ASSUME NEW D \in SUBSET Items
    PROVE  \E s \in Seq(Entry) :
             /\ s = SetToSeq({[Nothing EXCEPT !.destroy = {i}] : i \in D})
             /\ \A k \in 1 .. Len(s) : \E i \in D : s[k] = DestroyTx(i)
             /\ \A i \in D : \E k \in 1 .. Len(s) : s[k] = DestroyTx(i)
<1> DEFINE S == {DestroyTx(i) : i \in D}
           f == [i \in D |-> DestroyTx(i)]
           s == SetToSeq(S)
<1>1. ASSUME NEW i PROVE [Nothing EXCEPT !.destroy = {i}] = DestroyTx(i)
  <2>1. PICK d : d = {i}
    OBVIOUS
  <2>2. [Nothing EXCEPT !.destroy = d] = Tx(Empty, Empty, Empty, {}, Empty, Empty, d, Nobody)
    BY NothingIsTx, TxExcept
  <2> QED BY <2>1, <2>2 DEF DestroyTx
<1>2. {[Nothing EXCEPT !.destroy = {i}] : i \in D} = S
  BY <1>1
<1>3. IsFiniteSet(S)
  <2>1. IsFiniteSet(D)
    BY FiniteAssumption, FS_Subset
  <2>2. f \in [D -> S] /\ \A x \in S : \E i \in D : f[i] = x
    OBVIOUS
  <2>3. f \in Surjection(D, S)
    <3> HIDE DEF f, S
    <3> QED BY <2>2 DEF Surjection
  <2> QED BY <2>1, <2>3, FS_Surjection
<1>4. \A x \in S : x \in Entry
  BY DestroyTxType
<1>5. \A x : x \in S <=> \E i \in D : x = DestroyTx(i)
  OBVIOUS
<1> HIDE DEF S
<1>6. /\ s \in Seq(S)
      /\ \A x \in S : \E k \in 1 .. Len(s) : s[k] = x
  BY <1>3, SetToSeqFacts
<1> HIDE DEF s
<1>7. s \in Seq(Entry)
  BY <1>4, <1>6, SeqMonotonic
<1>8. \A k \in 1 .. Len(s) : s[k] \in S
  BY <1>6
<1>9. s = SetToSeq({[Nothing EXCEPT !.destroy = {i}] : i \in D})
  BY <1>2 DEF s
<1>10. /\ \A k \in 1 .. Len(s) : \E i \in D : s[k] = DestroyTx(i)
       /\ \A i \in D : \E k \in 1 .. Len(s) : s[k] = DestroyTx(i)
  BY <1>5, <1>6, <1>8
<1> QED BY <1>7, <1>9, <1>10

LEMMA ScanFacts ==
    ASSUME TypeInv, NEW id \in Ids, Scan(id)
    PROVE  \E row \in Row :
             /\ row = db.row[id] /\ session[row.to] # "in"
             /\ unseen' = IF GoesBack(row) /\ session[row.from] # "out"
                            THEN unseen \cup {id} ELSE unseen
             /\ raced' = (raced \/ session[row.to] = "loading" \/ Pending(id))
             /\ UNCHANGED <<db, session, answer, mem, nextId>>
             /\ queue' \in Seq(Entry)
             /\ \/ \E back \in Return :
                     /\ GoesBack(row) /\ back.to = row.from
                     /\ ReturnTx(id, back) \in Entry
                     /\ queue' = Append(queue, ReturnTx(id, back))
                \/ \E s \in Seq(Entry) :
                     /\ ~GoesBack(row) /\ DeleteTx(id) \in Entry
                     /\ queue' = Append(queue \o s, DeleteTx(id))
                     /\ \A k \in 1 .. Len(s) : \E i \in ItemsOf(db, id) : s[k] = DestroyTx(i)
                     /\ row.has => \A i \in ItemsOf(db, id) :
                                     \E k \in 1 .. Len(s) : s[k] = DestroyTx(i)
<1>1. PICK row : row = db.row[id]
  OBVIOUS
<1>2. /\ row # NoRow /\ session[row.to] # "in"
      /\ queue' = queue \o Expiry(id)
      /\ unseen' = IF GoesBack(row) /\ session[row.from] # "out" THEN unseen \cup {id} ELSE unseen
      /\ raced' = (raced \/ session[row.to] = "loading" \/ Pending(id))
      /\ UNCHANGED <<db, session, answer, mem, nextId>>
  BY <1>1 DEF Scan, ReturnOrDeleteOldMails, MayExpire
<1>3. row \in Row /\ db \in World /\ queue \in Seq(Entry)
  BY <1>1, <1>2, WorldFacts DEF TypeInv
<1>4. row.from \in Players /\ row.to \in Players
  BY <1>3, RowFacts
<1>5. CASE GoesBack(row)
  <2> DEFINE back == [from |-> row.to, to |-> row.from, cod |-> 0, kind |-> "returned",
                      read |-> FALSE]
  <2>1. Expiry(id) = <<[Nothing EXCEPT !.upd = Only(id, back)]>>
    BY <1>1, <1>5 DEF Expiry
  <2>2. back \in Return /\ back.to = row.from
    BY <1>4 DEF Return
  <2> HIDE DEF back
  <2>3. [Nothing EXCEPT !.upd = Only(id, back)] = ReturnTx(id, back)
    BY NothingIsTx, TxExcept DEF ReturnTx
  <2>4. ReturnTx(id, back) \in Entry
    BY <2>2, ReturnTxType
  <2>5. queue' = Append(queue, ReturnTx(id, back)) /\ queue' \in Seq(Entry)
    BY <1>2, <1>3, <2>1, <2>3, <2>4, AppendIsConcat, AppendProperties
  <2> QED BY <1>1, <1>2, <1>3, <1>5, <2>2, <2>4, <2>5
<1>6. CASE ~GoesBack(row)
  <2> DEFINE D == {j \in ItemsOf(db, id) : row.has}
  <2>1. D \in SUBSET Items
    BY <1>3, WorldFacts DEF ItemsOf
  <2>2. Expiry(id) = SetToSeq({[Nothing EXCEPT !.destroy = {i}] : i \in D})
                       \o <<[Nothing EXCEPT !.del = {id}]>>
    BY <1>1, <1>6 DEF Expiry
  <2>3. (\A i \in D : i \in ItemsOf(db, id)) /\ (row.has => \A i \in ItemsOf(db, id) : i \in D)
    OBVIOUS
  <2> HIDE DEF D
  <2>4. PICK s \in Seq(Entry) :
          /\ s = SetToSeq({[Nothing EXCEPT !.destroy = {i}] : i \in D})
          /\ \A k \in 1 .. Len(s) : \E i \in D : s[k] = DestroyTx(i)
          /\ \A i \in D : \E k \in 1 .. Len(s) : s[k] = DestroyTx(i)
    BY <2>1, DestroysFacts
  <2>5. [Nothing EXCEPT !.del = {id}] = DeleteTx(id)
    <3>1. PICK d : d = {id}
      OBVIOUS
    <3>2. [Nothing EXCEPT !.del = d] = Tx(Empty, Empty, Empty, d, Empty, Empty, {}, Nobody)
      BY NothingIsTx, TxExcept
    <3> QED BY <3>1, <3>2 DEF DeleteTx
  <2>6. DeleteTx(id) \in Entry
    BY DeleteTxType
  <2>7. PICK t \in Entry : t = DeleteTx(id)
    BY <2>6
  <2>8. queue' = queue \o (s \o <<t>>)
    BY <1>2, <2>2, <2>4, <2>5, <2>7
  <2>9. <<t>> \in Seq(Entry)
    OBVIOUS
  <2>10. queue' = (queue \o s) \o <<t>> /\ queue \o s \in Seq(Entry)
    BY <1>3, <2>8, <2>9, ConcatAssociative, ConcatProperties
  <2>11. queue' = Append(queue \o s, t) /\ queue' \in Seq(Entry)
    BY <2>10, AppendIsConcat, AppendProperties
  <2>12. \A k \in 1 .. Len(s) : \E i \in ItemsOf(db, id) : s[k] = DestroyTx(i)
    BY <2>3, <2>4
  <2>13. row.has => \A i \in ItemsOf(db, id) : \E k \in 1 .. Len(s) : s[k] = DestroyTx(i)
    BY <2>3, <2>4
  <2> QED BY <1>1, <1>2, <1>3, <1>6, <2>6, <2>7, <2>11, <2>12, <2>13
<1> QED BY <1>5, <1>6

LEMMA EnterFacts ==
    ASSUME TypeInv, NEW p \in Players, EnterWorld(p)
    PROVE  /\ session[p] = "loading" /\ \A k \in 1 .. Len(queue) : queue[k].loads # p
           /\ session' = [session EXCEPT ![p] = "in"]
           /\ mem' = [mem EXCEPT ![p] = answer[p]]
           /\ answer' = [answer EXCEPT ![p] = Absent]
           /\ UNCHANGED <<db, queue, nextId, unseen, raced>>
<1>1. DOMAIN queue = 1 .. Len(queue)
  BY LenProperties DEF TypeInv
<1> QED BY <1>1 DEF EnterWorld

LEMMA MaxFacts ==
    ASSUME NEW n \in Nat, NEW S \in SUBSET (0 .. n), S # {}
    PROVE  Max(S) \in S /\ \A x \in S : Max(S) >= x
<1> DEFINE C == {k \in 0 .. n : \A T \in SUBSET (0 .. k) : T # {} => \E m \in T : \A x \in T : m >= x}
<1>1. 0 \in C
  <2>1. \A T \in SUBSET (0 .. 0) : T # {} => \E m \in T : \A x \in T : m >= x
    <3>1. 0 .. 0 = {0}
      OBVIOUS
    <3>2. \A T \in SUBSET {0} : T # {} => \E m \in T : \A x \in T : m >= x
      <4> SUFFICES ASSUME NEW T \in SUBSET {0}, T # {} PROVE \E m \in T : \A x \in T : m >= x
        OBVIOUS
      <4>1. T = {0}
        OBVIOUS
      <4> QED BY <4>1
    <3> QED BY <3>1, <3>2
  <2> QED BY <2>1
<1>2. ASSUME NEW k \in 1 .. n, k - 1 \in C PROVE k \in C
  <2>1. ASSUME NEW T \in SUBSET (0 .. k), T # {} PROVE \E m \in T : \A x \in T : m >= x
    <3>1. CASE k \in T
      BY <3>1
    <3>2. CASE k \notin T
      <4>1. T \in SUBSET (0 .. k - 1)
        BY <3>2
      <4> QED BY <1>2, <2>1, <4>1
    <3> QED BY <3>1, <3>2
  <2> QED BY <2>1
<1> HIDE DEF C
<1>3. 0 .. n \subseteq C
  BY <1>1, <1>2, Steps
<1>4. n \in C
  BY <1>3
<1>5. \E m \in S : \A x \in S : m >= x
  BY <1>4 DEF C
<1> QED BY <1>5 DEF Max

LEMMA CrashFacts ==
    ASSUME TypeInv, Crash
    PROVE  /\ queue' = <<>> /\ queue' \in Seq(Entry) /\ Len(queue') = 0
           /\ session' = [p \in Players |-> "out"]
           /\ answer' = [p \in Players |-> Absent] /\ mem' = [p \in Players |-> Absent]
           /\ nextId' \in 1 .. MaxMails + 1
           /\ \A id \in Ids : id >= nextId' => db.row[id] = NoRow
           /\ unseen' = {} /\ UNCHANGED <<db, raced>>
<1> DEFINE S == {0} \cup {id \in Ids : db.row[id] # NoRow}
<1>1. MaxMails \in Nat
  BY LimitAssumption
<1>2. S \in SUBSET (0 .. MaxMails) /\ S # {}
  BY <1>1 DEF Ids
<1>3. nextId' = 1 + Max(S)
  BY DEF Crash
<1>4. \A id \in Ids : db.row[id] # NoRow => id \in S
  OBVIOUS
<1> HIDE DEF S
<1>5. Max(S) \in S /\ \A x \in S : Max(S) >= x
  BY <1>1, <1>2, MaxFacts
<1>6. PICK n : n = Max(S)
  OBVIOUS
<1>7. n \in 0 .. MaxMails /\ \A x \in S : n >= x
  BY <1>2, <1>5, <1>6
<1>8. nextId' \in 1 .. MaxMails + 1
  BY <1>1, <1>3, <1>6, <1>7
<1>9. \A id \in Ids : id >= nextId' => db.row[id] = NoRow
  BY <1>1, <1>3, <1>4, <1>6, <1>7 DEF Ids
<1>10. <<>> \in Seq(Entry) /\ Len(<<>>) = 0
  OBVIOUS
<1> QED BY <1>8, <1>9, <1>10 DEF Crash

----------------------------------------------------------------------------
(* Types.                                                                   *)

LEMMA PostType ==
    ASSUME TypeInv, NEW p \in Players, NEW m \in Memory, NEW row \in Row,
           NEW items \in SUBSET Items, nextId \in Ids,
           mem' = Post([mem EXCEPT ![p] = m], row, items),
           nextId' = nextId + 1, unseen' = Unseen(row)
    PROVE  /\ mem' \in [Players -> Memory] /\ nextId' \in 1 .. MaxMails + 1
           /\ unseen' \in SUBSET Ids
<1>1. [mem EXCEPT ![p] = m] \in [Players -> Memory]
  BY DEF TypeInv
<1>2. mem' \in [Players -> Memory]
  BY <1>1, ArrivedIs
<1>3. nextId' \in 1 .. MaxMails + 1
  BY LimitAssumption DEF Ids
<1>4. unseen' \in SUBSET Ids
  BY DEF Unseen, TypeInv
<1> QED BY <1>2, <1>3, <1>4

LEMMA TypeInit == Init => TypeInv
<1> SUFFICES ASSUME Init PROVE TypeInv
  OBVIOUS
<1>1. PICK owner \in [Items -> Players] :
        db = [gold |-> [p \in Players |-> StartGold], row |-> [id \in Ids |-> NoRow],
              at |-> [i \in Items |-> 0], inv |-> owner, alive |-> Items]
  BY DEF Init
<1>2. db \in World
  <2>1. [p \in Players |-> StartGold] \in [Players -> Nat]
    BY GoldAssumption
  <2>2. [id \in Ids |-> NoRow] \in [Ids -> Row \cup {NoRow}]
    OBVIOUS
  <2>3. [i \in Items |-> 0] \in [Items -> Ids \cup {0}]
    OBVIOUS
  <2>4. owner \in [Items -> Players \cup {Nobody}] /\ Items \in SUBSET Items
    OBVIOUS
  <2> QED BY <1>1, <2>1, <2>2, <2>3, <2>4, IsWorld
<1>3. queue \in Seq(Entry)
  BY DEF Init
<1>4. /\ session \in [Players -> {"out", "loading", "in"}]
      /\ unseen \in SUBSET Ids /\ raced \in BOOLEAN
  BY DEF Init
<1>5. answer \in [Players -> Memory] /\ mem \in [Players -> Memory]
  BY AbsentFacts DEF Init
<1>6. nextId \in 1 .. MaxMails + 1
  BY LimitAssumption DEF Init
<1> QED BY <1>2, <1>3, <1>4, <1>5, <1>6 DEF TypeInv

LEMMA TypeStep == TypeInv /\ [Next]_vars => TypeInv'
<1> SUFFICES ASSUME TypeInv, [Next]_vars PROVE TypeInv'
  OBVIOUS
<1>1. ASSUME NEW p \in Players, Login(p) PROVE TypeInv'
  BY <1>1, LoginFacts DEF TypeInv
<1>2. ASSUME NEW p \in Players, EnterWorld(p) PROVE TypeInv'
  <2>1. mem' \in [Players -> Memory] /\ answer' \in [Players -> Memory]
    BY <1>2, EnterFacts, AbsentFacts DEF TypeInv
  <2>2. session' \in [Players -> {"out", "loading", "in"}]
    BY <1>2, EnterFacts DEF TypeInv
  <2> QED BY <1>2, <2>1, <2>2, EnterFacts DEF TypeInv
<1>3. ASSUME NEW p \in Players, Logout(p) PROVE TypeInv'
  <2>1. mem' \in [Players -> Memory]
    BY <1>3, LogoutFacts, AbsentFacts DEF TypeInv
  <2>2. session' \in [Players -> {"out", "loading", "in"}] /\ unseen' \in SUBSET Ids
    BY <1>3, LogoutFacts DEF TypeInv
  <2> QED BY <1>3, <2>1, <2>2, LogoutFacts DEF TypeInv
<1>4. ASSUME NEW p \in Players, NEW q \in Players, NEW gold \in Gold, NEW cod \in COD,
             NEW items \in SUBSET Items, SendMail(p, q, gold, cod, items)
      PROVE  TypeInv'
  <2>1. PICK row \in Row, left \in Nat :
          /\ nextId \in Ids /\ queue' \in Seq(Entry)
          /\ mem' = Post([mem EXCEPT ![p] = Spent(mem[p], left, items)], row, items)
          /\ nextId' = nextId + 1 /\ unseen' = Unseen(row)
          /\ UNCHANGED <<db, session, answer, raced>>
    BY <1>4, SendFacts
  <2>2. Spent(mem[p], left, items) \in Memory
    BY SpentIs DEF TypeInv
  <2>3. /\ mem' \in [Players -> Memory] /\ nextId' \in 1 .. MaxMails + 1
        /\ unseen' \in SUBSET Ids
    BY <2>1, <2>2, PostType
  <2> QED BY <2>1, <2>3 DEF TypeInv
<1>5. ASSUME NEW p \in Players, NEW id \in Ids, MarkAsRead(p, id) PROVE TypeInv'
  BY <1>5, MarkFacts DEF TypeInv
<1>6. ASSUME NEW p \in Players, NEW id \in Ids, Delete(p, id) PROVE TypeInv'
  BY <1>6, DeleteFacts DEF TypeInv
<1>7. ASSUME NEW p \in Players, NEW id \in Ids, ReturnToSender(p, id) PROVE TypeInv'
  <2>1. PICK row \in Row, items \in SUBSET Items :
          /\ nextId \in Ids /\ queue' \in Seq(Entry)
          /\ mem' = Post([mem EXCEPT ![p] = Without(mem[p], id)], row, items)
          /\ nextId' = nextId + 1 /\ unseen' = Unseen(row)
          /\ UNCHANGED <<db, session, answer, raced>>
    BY <1>7, BackFacts
  <2>2. Without(mem[p], id) \in Memory
    BY WithoutIs DEF TypeInv
  <2>3. /\ mem' \in [Players -> Memory] /\ nextId' \in 1 .. MaxMails + 1
        /\ unseen' \in SUBSET Ids
    BY <2>1, <2>2, PostType
  <2> QED BY <2>1, <2>3 DEF TypeInv
<1>8. ASSUME NEW p \in Players, NEW id \in Ids, TakeMoney(p, id) PROVE TypeInv'
  <2>1. PICK m \in Memory :
          /\ queue' \in Seq(Entry) /\ mem' = [mem EXCEPT ![p] = m]
          /\ UNCHANGED <<db, session, answer, nextId, unseen, raced>>
    BY <1>8, TakeMoneyFacts
  <2> QED BY <2>1 DEF TypeInv
<1>9. ASSUME NEW p \in Players, NEW id \in Ids, NEW i \in Items, TakeItem(p, id, i)
      PROVE  TypeInv'
  <2>1. PICK m \in Memory :
          /\ queue' \in Seq(Entry) /\ UNCHANGED <<db, session, answer, raced>>
          /\ \/ mem' = [mem EXCEPT ![p] = m] /\ UNCHANGED <<nextId, unseen>>
             \/ \E row \in Row : /\ nextId \in Ids /\ mem' = Post([mem EXCEPT ![p] = m], row, {})
                                 /\ nextId' = nextId + 1 /\ unseen' = Unseen(row)
    <3>1. PICK taken \in Memory :
            /\ Saved(taken) \in Memory /\ queue' \in Seq(Entry)
            /\ UNCHANGED <<db, session, answer, raced>>
            /\ \/ mem' = [mem EXCEPT ![p] = Saved(taken)] /\ UNCHANGED <<nextId, unseen>>
               \/ \E row \in Row : /\ nextId \in Ids
                                   /\ mem' = Post([mem EXCEPT ![p] = Saved(taken)], row, {})
                                   /\ nextId' = nextId + 1 /\ unseen' = Unseen(row)
      BY <1>9, TakeItemFacts
    <3> QED BY <3>1
  <2>2. CASE mem' = [mem EXCEPT ![p] = m] /\ UNCHANGED <<nextId, unseen>>
    BY <2>1, <2>2 DEF TypeInv
  <2>3. CASE \E row \in Row : /\ nextId \in Ids /\ mem' = Post([mem EXCEPT ![p] = m], row, {})
                              /\ nextId' = nextId + 1 /\ unseen' = Unseen(row)
    <3>1. /\ mem' \in [Players -> Memory] /\ nextId' \in 1 .. MaxMails + 1
          /\ unseen' \in SUBSET Ids
      <4>1. PICK row \in Row :
              /\ nextId \in Ids /\ mem' = Post([mem EXCEPT ![p] = m], row, {})
              /\ nextId' = nextId + 1 /\ unseen' = Unseen(row)
        BY <2>3
      <4>2. {} \in SUBSET Items
        OBVIOUS
      <4> QED BY <4>1, <4>2, PostType
    <3> QED BY <2>1, <3>1 DEF TypeInv
  <2> QED BY <2>1, <2>2, <2>3
<1>10. ASSUME NEW id \in Ids, Scan(id) PROVE TypeInv'
  <2>1. PICK row \in Row :
          /\ unseen' = IF GoesBack(row) /\ session[row.from] # "out"
                         THEN unseen \cup {id} ELSE unseen
          /\ raced' = (raced \/ session[row.to] = "loading" \/ Pending(id))
          /\ UNCHANGED <<db, session, answer, mem, nextId>>
          /\ queue' \in Seq(Entry)
    BY <1>10, ScanFacts
  <2>2. unseen' \in SUBSET Ids
    BY <2>1 DEF TypeInv
  <2>3. raced' \in BOOLEAN
    BY <2>1, Zenon
  <2> QED BY <2>1, <2>2, <2>3 DEF TypeInv
<1>11. ASSUME Execute PROVE TypeInv'
  BY <1>11, ExecuteFacts DEF TypeInv
<1>12. ASSUME Crash PROVE TypeInv'
  BY <1>12, CrashFacts, AbsentFacts DEF TypeInv
<1>13. CASE UNCHANGED vars
  BY <1>13 DEF TypeInv, vars
<1> QED BY <1>1, <1>2, <1>3, <1>4, <1>5, <1>6, <1>7, <1>8, <1>9, <1>10, <1>11, <1>12, <1>13 DEF Next

LEMMA TypeAlways == Spec => []TypeInv
<1>1. Init => TypeInv
  BY TypeInit
<1>2. TypeInv /\ [Next]_vars => TypeInv'
  BY TypeStep
<1> QED BY <1>1, <1>2, PTL DEF Spec

\* Gold, boxes and the tables keep their types: no gold below zero in memory or
\* in the database, whatever the handlers and the expiry do in which order.
THEOREM TypeCorrect == Spec => []TypeOK
<1>1. ASSUME TypeInv PROVE TypeOK
  <2>1. \A p \in Players : mem[p].gold \in Nat /\ mem[p].bag \subseteq Items
    BY <1>1, MemoryFacts DEF TypeInv
  <2>2. /\ \A id \in Ids : db.row[id] \in Row \cup {NoRow}
        /\ db.gold \in [Players -> Nat]
        /\ db.inv \in [Items -> Players \cup {Nobody}] /\ db.alive \subseteq Items
    BY <1>1, WorldFacts DEF TypeInv
  <2>3. db.at \in [Items -> 0 .. MaxMails]
    <3>1. db.at \in [Items -> Ids \cup {0}]
      BY <1>1, WorldFacts DEF TypeInv
    <3>2. Ids \cup {0} = 0 .. MaxMails
      BY LimitAssumption DEF Ids
    <3> QED BY <3>1, <3>2
  <2> QED BY <1>1, <2>1, <2>2, <2>3 DEF TypeInv, TypeOK
<1> QED BY <1>1, TypeAlways, PTL

----------------------------------------------------------------------------
(* The inductive invariant.  The queue is drained from db through h[1],     *)
(* h[2], ... to h[Len(queue)]; in each of these states an item is in one     *)
(* inventory or in one mail, and what a player has in memory, or will have   *)
(* from the load he waits for, fits the last one.                           *)

Drains(d, q, h) ==
    /\ h \in [0 .. Len(q) -> World] /\ h[0] = d
    /\ \A k \in 1 .. Len(q) : h[k] = Apply(h[k - 1], q[k])

Whole(w) ==
    \A i \in Items :
      /\ w.at[i] # 0 => w.row[w.at[i]] # NoRow
      /\ i \in w.alive /\ w.at[i] # 0 => w.inv[i] = Nobody /\ w.row[w.at[i]].has = TRUE
      /\ i \in w.alive /\ w.at[i] = 0 => w.inv[i] # Nobody
      /\ i \notin w.alive => w.inv[i] = Nobody

Fresh(n, w) == \A id \in Ids : id >= n => w.row[id] = NoRow

FitsMail(r, x, U, w, id) ==
    /\ x[id] = NoMail => (IsTo(w, id, r) => id \in U)
    /\ x[id] # NoMail => /\ IsTo(w, id, r) /\ x[id].items = ItemsOf(w, id)
                         /\ x[id].row.gold = w.row[id].gold /\ x[id].row.cod = w.row[id].cod

Fits(r, m, U, w) ==
    /\ m.gold = w.gold[r] /\ m.bag = {i \in w.alive : w.inv[i] = r}
    /\ \A id \in Ids : FitsMail(r, m.box, U, w, id)

Bound == StartGold * Cardinality(Players)

\* q, s, a, m, n and U are queue, session, answer, mem, nextId and unseen.
Good(h, q, s, a, m, n, U) ==
    /\ \A k \in 0 .. Len(q) : Whole(h[k]) /\ Wealth(h[k]) <= Bound
    /\ Fresh(n, h[Len(q)])
    /\ \A p \in Players : s[p] # "in" => m[p] = Absent
    /\ \A p \in Players : s[p] = "in" => Fits(p, m[p], U, h[Len(q)])
    /\ \A p \in Players : \A k \in 1 .. Len(q) : q[k].loads = p =>
         /\ s[p] = "loading" /\ Fits(p, Load(h[k - 1], p), U, h[Len(q)])
         /\ \A j \in 1 .. Len(q) : q[j].loads = p => j = k
    /\ \A p \in Players : s[p] = "loading" /\ (\A k \in 1 .. Len(q) : q[k].loads # p) =>
         Fits(p, a[p], U, h[Len(q)])

Inv == ~raced => \E h : /\ Drains(db, queue, h)
                        /\ Good(h, queue, session, answer, mem, nextId, unseen)

LEMMA FutureIs ==
    ASSUME NEW h, Drains(db, queue, h), queue \in Seq(Entry)
    PROVE  Future = h[Len(queue)]
<1> DEFINE n == Len(queue)
           Eq(f) == f = [k \in 0 .. n |-> IF k = 0 THEN db ELSE Apply(f[k - 1], queue[k])]
           f == CHOOSE f : Eq(f)
           C == {k \in 0 .. n : f[k] = h[k]}
<1>1. n \in Nat
  BY LenProperties
<1>2. Future = f[n]
  BY DEF Future
<1>3. Eq(h)
  BY <1>1 DEF Drains
<1>4. Eq(f)
  BY <1>3
<1> HIDE DEF f
<1>5. \A k \in 0 .. n : f[k] = IF k = 0 THEN db ELSE Apply(f[k - 1], queue[k])
  BY <1>4
<1> HIDE DEF Eq, n
<1>6. 0 \in C
  BY <1>1, <1>5 DEF Drains, n
<1>7. ASSUME NEW k \in 1 .. n, k - 1 \in C PROVE k \in C
  <2>1. k \in 0 .. n /\ k # 0 /\ f[k - 1] = h[k - 1]
    BY <1>1, <1>7
  <2>2. f[k] = Apply(f[k - 1], queue[k])
    BY <1>5, <2>1
  <2>3. h[k] = Apply(h[k - 1], queue[k])
    BY DEF Drains, n
  <2> QED BY <2>1, <2>2, <2>3
<1>8. 0 .. n \subseteq C
  <2> HIDE DEF C
  <2> QED BY <1>1, <1>6, <1>7, Steps
<1> QED BY <1>1, <1>2, <1>8 DEF n

\* What an entry t leaves fits as before: s2, m2 and U2 are session, mem and
\* unseen after the step that enqueues it.
Follows(s, U, t, w, v, s2, m2, U2) ==
    /\ \A p \in Players : s2[p] # "in" => m2[p] = Absent
    /\ \A p \in Players : s2[p] = "in" => Fits(p, m2[p], U2, v)
    /\ \A p \in Players : s[p] = "loading" => s2[p] = "loading"
    /\ \A p \in Players : t.loads = p =>
         s[p] # "loading" /\ s2[p] = "loading" /\ Fits(p, Load(w, p), U2, v)
    /\ \A p \in Players : t.loads # p /\ s2[p] = "loading" => s[p] = "loading"
    /\ \A p \in Players : s[p] = "loading" => \A y : Fits(p, y, U, w) => Fits(p, y, U2, v)

Ends(g, q, v) == g[Len(q)] = v

\* One more entry.
LEMMA ExtendTo ==
    ASSUME NEW d, NEW q \in Seq(Entry), NEW s, NEW a, NEW m, NEW n, NEW U, NEW h,
           Drains(d, q, h), Good(h, q, s, a, m, n, U),
           NEW t \in Entry, NEW w, w = h[Len(q)], NEW v, v = Apply(w, t),
           NEW s2, NEW m2, NEW n2, NEW U2,
           Whole(v), Wealth(v) <= Bound, Fresh(n2, v), Follows(s, U, t, w, v, s2, m2, U2),
           NEW r, r = Append(q, t)
    PROVE  \E g : Drains(d, r, g) /\ Good(g, r, s2, a, m2, n2, U2) /\ Ends(g, r, v)
<1> DEFINE l == Len(q)
           g == [k \in 0 .. l + 1 |-> IF k = l + 1 THEN v ELSE h[k]]
<1>a. /\ \A p \in Players : s2[p] # "in" => m2[p] = Absent
      /\ \A p \in Players : s2[p] = "in" => Fits(p, m2[p], U2, v)
      /\ \A p \in Players : s[p] = "loading" => s2[p] = "loading"
      /\ \A p \in Players : t.loads = p =>
           s[p] # "loading" /\ s2[p] = "loading" /\ Fits(p, Load(w, p), U2, v)
      /\ \A p \in Players : t.loads # p /\ s2[p] = "loading" => s[p] = "loading"
      /\ \A p \in Players : s[p] = "loading" => \A y : Fits(p, y, U, w) => Fits(p, y, U2, v)
  BY DEF Follows
<1>1. /\ l \in Nat /\ Len(r) = l + 1 /\ r[l + 1] = t
      /\ \A k \in 1 .. l : r[k] = q[k]
  BY LenProperties, AppendProperties
<1>2. /\ h \in [0 .. l -> World] /\ h[0] = d /\ w = h[l] /\ w \in World
      /\ \A k \in 1 .. l : h[k] = Apply(h[k - 1], q[k])
  BY <1>1 DEF Drains
<1>3. v \in World
  BY <1>2, ApplyFacts
<1>4. /\ \A k \in 0 .. l : g[k] = h[k]
      /\ g[l + 1] = v /\ g \in [0 .. l + 1 -> World]
  BY <1>1, <1>2, <1>3
<1> HIDE DEF g, l
<1>5. Drains(d, r, g)
  <2>1. g[0] = d
    BY <1>1, <1>2, <1>4
  <2>2. ASSUME NEW k \in 1 .. l + 1 PROVE g[k] = Apply(g[k - 1], r[k])
    <3>1. CASE k = l + 1
      <4>1. g[k - 1] = w
        BY <1>1, <1>2, <1>4, <3>1
      <4> QED BY <1>1, <1>4, <3>1, <4>1
    <3>2. CASE k # l + 1
      <4>1. k \in 1 .. l /\ k \in 0 .. l /\ k - 1 \in 0 .. l
        BY <1>1, <3>2
      <4> QED BY <1>1, <1>2, <1>4, <4>1
    <3> QED BY <3>1, <3>2
  <2> QED BY <1>1, <1>4, <2>1, <2>2 DEF Drains
<1>6. Good(g, r, s2, a, m2, n2, U2)
  <2>1. \A k \in 0 .. l + 1 : Whole(g[k]) /\ Wealth(g[k]) <= Bound
    <3>1. \A k \in 0 .. l : Whole(h[k]) /\ Wealth(h[k]) <= Bound
      BY DEF Good, l
    <3> QED BY <1>1, <1>4, <3>1
  <2>2. \A p \in Players : \A k \in 1 .. l : q[k].loads = p =>
          /\ s[p] = "loading" /\ Fits(p, Load(h[k - 1], p), U, w)
          /\ \A j \in 1 .. l : q[j].loads = p => j = k
    BY DEF Good, l
  <2>3. ASSUME NEW p \in Players, NEW k \in 1 .. l + 1, r[k].loads = p
        PROVE  /\ s2[p] = "loading" /\ Fits(p, Load(g[k - 1], p), U2, v)
               /\ \A j \in 1 .. l + 1 : r[j].loads = p => j = k
    <3>1. CASE k = l + 1
      <4>1. t.loads = p /\ g[k - 1] = w
        BY <1>1, <1>2, <1>4, <1>a, <2>3, <3>1
      <4>2. \A j \in 1 .. l : q[j].loads # p
        BY <1>a, <2>2, <4>1
      <4>3. ASSUME NEW j \in 1 .. l + 1, r[j].loads = p PROVE j = k
        BY <1>1, <3>1, <4>2, <4>3
      <4> QED BY <1>a, <4>1, <4>3
    <3>2. CASE k # l + 1
      <4>1. k \in 1 .. l /\ k - 1 \in 0 .. l
        BY <1>1, <3>2
      <4>2. q[k].loads = p /\ g[k - 1] = h[k - 1]
        BY <1>1, <1>4, <2>3, <4>1
      <4>3. s[p] = "loading" /\ Fits(p, Load(h[k - 1], p), U, w)
        BY <2>2, <4>1, <4>2
      <4>4. t.loads # p
        BY <1>a, <4>3
      <4>5. ASSUME NEW j \in 1 .. l + 1, r[j].loads = p PROVE j = k
        <5>1. j # l + 1
          BY <1>1, <4>4, <4>5
        <5>2. j \in 1 .. l
          BY <1>1, <5>1
        <5> QED BY <1>1, <2>2, <4>1, <4>2, <4>5, <5>2
      <4> QED BY <1>a, <4>2, <4>3, <4>5
    <3> QED BY <3>1, <3>2
  <2>4. ASSUME NEW p \in Players, s2[p] = "loading", \A k \in 1 .. l + 1 : r[k].loads # p
        PROVE  Fits(p, a[p], U2, v)
    <3>1. t.loads # p
      BY <1>1, <2>4
    <3>2. \A k \in 1 .. l : q[k].loads # p
      BY <1>1, <2>4
    <3>3. s[p] = "loading"
      BY <1>a, <2>4, <3>1
    <3>4. Fits(p, a[p], U, w)
      BY <3>2, <3>3 DEF Good, l
    <3> QED BY <1>a, <3>3, <3>4
  <2>5. \A p \in Players : \A k \in 1 .. Len(r) : r[k].loads = p =>
         /\ s2[p] = "loading" /\ Fits(p, Load(g[k - 1], p), U2, g[Len(r)])
         /\ \A j \in 1 .. Len(r) : r[j].loads = p => j = k
    BY <1>1, <1>4, <2>3
  <2>6. \A p \in Players : s2[p] = "loading" /\ (\A k \in 1 .. Len(r) : r[k].loads # p) =>
         Fits(p, a[p], U2, g[Len(r)])
    BY <1>1, <1>4, <2>4
  <2>7. \A k \in 0 .. Len(r) : Whole(g[k]) /\ Wealth(g[k]) <= Bound
    BY <1>1, <2>1
  <2>8. g[Len(r)] = v
    BY <1>1, <1>4
  <2> QED BY <1>a, <2>5, <2>6, <2>7, <2>8 DEF Good
<1>7. Ends(g, r, v)
  BY <1>1, <1>4 DEF Ends
<1> QED BY <1>5, <1>6, <1>7

LEMMA Extend ==
    ASSUME NEW d, NEW q \in Seq(Entry), NEW s, NEW a, NEW m, NEW n, NEW U, NEW h,
           Drains(d, q, h), Good(h, q, s, a, m, n, U),
           NEW t \in Entry, NEW w, w = h[Len(q)], NEW v, v = Apply(w, t),
           NEW s2, NEW m2, NEW n2, NEW U2,
           Whole(v), Wealth(v) <= Bound, Fresh(n2, v), Follows(s, U, t, w, v, s2, m2, U2)
    PROVE  \E g : Drains(d, Append(q, t), g) /\ Good(g, Append(q, t), s2, a, m2, n2, U2)
<1>1. PICK r : r = Append(q, t)
  OBVIOUS
<1>2. \E g : Drains(d, r, g) /\ Good(g, r, s2, a, m2, n2, U2) /\ Ends(g, r, v)
  BY <1>1, ExtendTo
<1> QED BY <1>1, <1>2

\* The head of the queue is executed.
LEMMA Shift ==
    ASSUME NEW d, NEW q \in Seq(Entry), q # <<>>, NEW s, NEW a, NEW m, NEW n, NEW U, NEW h,
           Drains(d, q, h), Good(h, q, s, a, m, n, U), NEW a2,
           \A p \in Players : a2[p] = IF q[1].loads = p THEN Load(d, p) ELSE a[p]
    PROVE  \E g : /\ Drains(Apply(d, q[1]), Tail(q), g)
                  /\ Good(g, Tail(q), s, a2, m, n, U)
<1> DEFINE l == Len(q) - 1
           g == [k \in 0 .. l |-> h[k + 1]]
<1>0. PICK r : r = Tail(q)
  OBVIOUS
<1>1. /\ l \in Nat /\ Len(q) = l + 1 /\ Len(r) = l
      /\ \A k \in 1 .. l : r[k] = q[k + 1]
  BY <1>0, LenProperties, EmptySeq, HeadTailProperties
<1>2. /\ h \in [0 .. l + 1 -> World] /\ h[0] = d
      /\ \A k \in 1 .. l + 1 : h[k] = Apply(h[k - 1], q[k])
  BY <1>1 DEF Drains
<1>3. g \in [0 .. l -> World] /\ \A k \in 0 .. l : g[k] = h[k + 1]
  BY <1>1, <1>2
<1> HIDE DEF g, l
<1>4. Drains(Apply(d, q[1]), r, g)
  <2>1. g[0] = Apply(d, q[1])
    <3>1. g[0] = h[1] /\ 1 \in 1 .. l + 1 /\ 1 - 1 = 0
      BY <1>1, <1>3
    <3> QED BY <1>2, <3>1
  <2>2. ASSUME NEW k \in 1 .. l PROVE g[k] = Apply(g[k - 1], r[k])
    <3>1. /\ k \in 0 .. l /\ k - 1 \in 0 .. l /\ k + 1 \in 1 .. l + 1
          /\ (k - 1) + 1 = k /\ (k + 1) - 1 = k
      BY <1>1
    <3>2. g[k] = h[k + 1] /\ g[k - 1] = h[k]
      BY <1>3, <3>1
    <3>3. h[k + 1] = Apply(h[k], q[k + 1])
      BY <1>2, <3>1
    <3> QED BY <1>1, <3>2, <3>3
  <2> QED BY <1>1, <1>3, <2>1, <2>2 DEF Drains
<1>5. Good(g, r, s, a2, m, n, U)
  <2>0. g[l] = h[l + 1] /\ Len(r) = l /\ Len(q) = l + 1
    BY <1>1, <1>3
  <2>1. \A k \in 0 .. l : Whole(g[k]) /\ Wealth(g[k]) <= Bound
    <3>1. \A k \in 0 .. l + 1 : Whole(h[k]) /\ Wealth(h[k]) <= Bound
      BY <2>0 DEF Good
    <3>2. \A k \in 0 .. l : k + 1 \in 0 .. l + 1
      BY <1>1
    <3> QED BY <1>3, <3>1, <3>2
  <2>2. /\ Fresh(n, h[l + 1])
        /\ \A p \in Players : s[p] # "in" => m[p] = Absent
        /\ \A p \in Players : s[p] = "in" => Fits(p, m[p], U, h[l + 1])
    BY <2>0 DEF Good
  <2>3. \A p \in Players : \A k \in 1 .. l + 1 : q[k].loads = p =>
          /\ s[p] = "loading" /\ Fits(p, Load(h[k - 1], p), U, h[l + 1])
          /\ \A j \in 1 .. l + 1 : q[j].loads = p => j = k
    BY <2>0 DEF Good
  <2>4. ASSUME NEW p \in Players, NEW k \in 1 .. l, r[k].loads = p
        PROVE  /\ s[p] = "loading" /\ Fits(p, Load(g[k - 1], p), U, g[l])
               /\ \A j \in 1 .. l : r[j].loads = p => j = k
    <3>1. /\ k + 1 \in 1 .. l + 1 /\ q[k + 1].loads = p /\ (k + 1) - 1 = k
          /\ g[k - 1] = h[k]
      <4>1. k - 1 \in 0 .. l /\ (k - 1) + 1 = k /\ k + 1 \in 1 .. l + 1 /\ (k + 1) - 1 = k
        BY <1>1
      <4> QED BY <1>1, <1>3, <2>4, <4>1
    <3>2. /\ s[p] = "loading" /\ Fits(p, Load(h[k], p), U, h[l + 1])
          /\ \A j \in 1 .. l + 1 : q[j].loads = p => j = k + 1
      BY <2>3, <3>1
    <3>3. ASSUME NEW j \in 1 .. l, r[j].loads = p PROVE j = k
      <4>1. j + 1 \in 1 .. l + 1 /\ q[j + 1].loads = p
        BY <1>1, <3>3
      <4>2. j + 1 = k + 1
        BY <3>2, <4>1
      <4> QED BY <1>1, <4>2
    <3> QED BY <2>0, <3>1, <3>2, <3>3
  <2>5. ASSUME NEW p \in Players, s[p] = "loading", \A k \in 1 .. l : r[k].loads # p
        PROVE  Fits(p, a2[p], U, g[l])
    <3>1. CASE q[1].loads = p
      <4>1. 1 \in 1 .. l + 1 /\ 1 - 1 = 0
        BY <1>1
      <4>2. Fits(p, Load(h[0], p), U, h[l + 1])
        BY <2>3, <3>1, <4>1
      <4> QED BY <1>2, <2>0, <3>1, <4>2
    <3>2. CASE q[1].loads # p
      <4>1. ASSUME NEW k \in 1 .. l + 1 PROVE q[k].loads # p
        <5>1. CASE k = 1
          BY <3>2, <5>1
        <5>2. CASE k # 1
          <6>1. k - 1 \in 1 .. l /\ (k - 1) + 1 = k
            BY <1>1, <5>2
          <6>2. r[k - 1] = q[k]
            BY <1>1, <6>1
          <6> QED BY <2>5, <6>1, <6>2
        <5> QED BY <5>1, <5>2
      <4>2. Fits(p, a[p], U, h[l + 1])
        BY <2>0, <2>5, <4>1 DEF Good
      <4> QED BY <2>0, <3>2, <4>2
    <3> QED BY <3>1, <3>2
  <2> QED BY <2>0, <2>1, <2>2, <2>4, <2>5 DEF Good
<1> QED BY <1>0, <1>4, <1>5

----------------------------------------------------------------------------
(* An entry that only touches what a player has: his gold, his items, the    *)
(* mails to him, and a mail n that is new.                                  *)

Owned(p, w, i) == w.inv[i] = p \/ (w.at[i] # 0 /\ IsTo(w, w.at[i], p))

Sound(p, n, w, t) ==
    /\ DOMAIN t.gold \subseteq {p} /\ DOMAIN t.ins \subseteq {n}
    /\ \A id \in t.del \cup DOMAIN t.upd : IsTo(w, id, p)
    /\ \A id \in DOMAIN t.upd : t.upd[id] \in Change
    /\ DOMAIN t.inv \subseteq DOMAIN t.at
    /\ \A i \in DOMAIN t.at :
         /\ i \in w.alive /\ i \notin t.destroy /\ Owned(p, w, i)
         /\ t.at[i] # 0 => /\ t.ins[n].has = TRUE
                           /\ i \in DOMAIN t.inv => t.inv[i] = Nobody
                           /\ i \notin DOMAIN t.inv => w.inv[i] = Nobody
         /\ t.at[i] = 0 => i \in DOMAIN t.inv /\ t.inv[i] = p
    /\ \A i \in t.destroy : w.at[i] # 0 /\ IsTo(w, w.at[i], p)
    /\ \A i \in w.alive : w.at[i] \in t.del => i \in t.destroy \/ i \in DOMAIN t.at
    /\ \A i \in w.alive \ DOMAIN t.at : w.at[i] \in DOMAIN t.upd => t.upd[w.at[i]].has = TRUE

LEMMA RowsAfter ==
    ASSUME NEW w \in World, NEW t \in Entry, NEW p, NEW n, Fresh(n, w), n \in Nat,
           Sound(p, n, w, t), NEW v, v = Apply(w, t)
    PROVE  /\ \A id \in DOMAIN t.ins : id = n /\ n \in Ids /\ v.row[n] = t.ins[n] /\ v.row[n] \in Row
           /\ \A id \in t.del : v.row[id] = NoRow
           /\ \A id \in Ids : w.row[id] = NoRow /\ id \notin DOMAIN t.ins => v.row[id] = NoRow
           /\ \A id \in Ids : w.row[id] # NoRow /\ id \notin t.del =>
                /\ v.row[id] \in Row /\ v.row[id].to = w.row[id].to
                /\ id \notin DOMAIN t.upd => v.row[id] = w.row[id]
                /\ id \in DOMAIN t.upd => /\ v.row[id].gold = t.upd[id].gold
                                          /\ v.row[id].cod = t.upd[id].cod
                                          /\ v.row[id].has = t.upd[id].has
<1>1. /\ \A id \in Ids : v.row[id] = RowAfter(w, t, id) /\ v.row[id] \in Row \cup {NoRow}
      /\ \A id \in Ids : w.row[id] \in Row \cup {NoRow}
  BY ApplyFacts, WorldFacts
<1>2. /\ DOMAIN t.ins \subseteq Ids /\ (\A id \in DOMAIN t.ins : t.ins[id] \in Row)
      /\ t.del \subseteq Ids
  BY EntryFacts, PartialFacts
<1>3. \A id \in Ids : id = n => w.row[id] = NoRow
  BY DEF Fresh, Ids
<1>4. ASSUME NEW id \in DOMAIN t.ins
      PROVE  id = n /\ n \in Ids /\ v.row[n] = t.ins[n] /\ v.row[n] \in Row
  <2>1. id = n /\ n \in Ids
    BY <1>2 DEF Sound
  <2>2. n \notin t.del
    BY <1>3, <2>1 DEF Sound, IsTo
  <2>3. RowAfter(w, t, n) = t.ins[n]
    BY <2>1, <2>2 DEF RowAfter
  <2> QED BY <1>1, <1>2, <2>1, <2>3
<1>5. \A id \in t.del : v.row[id] = NoRow
  BY <1>1, <1>2 DEF RowAfter
<1>6. ASSUME NEW id \in Ids, w.row[id] = NoRow, id \notin DOMAIN t.ins PROVE v.row[id] = NoRow
  BY <1>1, <1>6 DEF RowAfter
<1>7. ASSUME NEW id \in Ids, w.row[id] # NoRow, id \notin t.del
      PROVE  /\ v.row[id] \in Row /\ v.row[id].to = w.row[id].to
             /\ id \notin DOMAIN t.upd => v.row[id] = w.row[id]
             /\ id \in DOMAIN t.upd => /\ v.row[id].gold = t.upd[id].gold
                                       /\ v.row[id].cod = t.upd[id].cod
                                       /\ v.row[id].has = t.upd[id].has
  <2>1. id \notin DOMAIN t.ins
    BY <1>3, <1>7 DEF Sound
  <2>2. w.row[id] \in Row
    BY <1>1, <1>7
  <2>3. CASE id \notin DOMAIN t.upd
    <3>1. v.row[id] = w.row[id]
      BY <1>1, <1>7, <2>1, <2>3 DEF RowAfter
    <3> QED BY <2>2, <2>3, <3>1
  <2>4. CASE id \in DOMAIN t.upd
    <3>1. v.row[id] = Set(w.row[id], t.upd[id])
      BY <1>1, <1>7, <2>1, <2>4 DEF RowAfter
    <3>2. t.upd[id] \in Change
      BY <2>4 DEF Sound
    <3> QED BY <2>2, <2>4, <3>1, <3>2, ChangeRow
  <2> QED BY <2>3, <2>4
<1> QED BY <1>4, <1>5, <1>6, <1>7

LEMMA FreshAfter ==
    ASSUME NEW w \in World, NEW t \in Entry, NEW p, NEW n, Fresh(n, w), n \in Nat,
           Sound(p, n, w, t), NEW v, v = Apply(w, t)
    PROVE  Fresh(n + 1, v) /\ (DOMAIN t.ins = {} => Fresh(n, v))
<1>1. /\ \A id \in DOMAIN t.ins : id = n
      /\ \A id \in Ids : w.row[id] = NoRow /\ id \notin DOMAIN t.ins => v.row[id] = NoRow
  BY RowsAfter
<1>2. ASSUME NEW id \in Ids, id >= n + 1 PROVE v.row[id] = NoRow
  <2>1. id # n /\ id >= n
    BY <1>2 DEF Ids
  <2> QED BY <1>1, <2>1 DEF Fresh
<1>3. ASSUME NEW id \in Ids, id >= n, DOMAIN t.ins = {} PROVE v.row[id] = NoRow
  BY <1>1, <1>3 DEF Fresh
<1> QED BY <1>2, <1>3 DEF Fresh

LEMMA ItemsAfter ==
    ASSUME NEW w \in World, NEW t \in Entry, NEW v, v = Apply(w, t)
    PROVE  /\ v.alive = w.alive \ t.destroy /\ v.alive \subseteq Items
           /\ \A i \in Items :
                /\ i \in DOMAIN t.at => v.at[i] = t.at[i]
                /\ i \notin DOMAIN t.at /\ w.at[i] \in t.del => v.at[i] = 0
                /\ i \notin DOMAIN t.at /\ w.at[i] \notin t.del => v.at[i] = w.at[i]
                /\ i \in DOMAIN t.inv => v.inv[i] = t.inv[i]
                /\ i \notin DOMAIN t.inv => v.inv[i] = w.inv[i]
                /\ w.at[i] \in Ids \cup {0} /\ w.inv[i] \in Players \cup {Nobody}
  BY ApplyFacts, WorldFacts

LEMMA WholeAfter ==
    ASSUME NEW w \in World, NEW t \in Entry, NEW p \in Players, NEW n, Fresh(n, w), n \in Nat,
           Whole(w), Sound(p, n, w, t), NEW v, v = Apply(w, t)
    PROVE  Whole(v)
<1>0. p # Nobody /\ 0 \notin Ids
  BY NobodyAssumption DEF Ids
<1>1. /\ \A id \in DOMAIN t.ins : id = n /\ n \in Ids /\ v.row[n] = t.ins[n] /\ v.row[n] \in Row
      /\ \A id \in Ids : w.row[id] # NoRow /\ id \notin t.del =>
           /\ v.row[id] \in Row
           /\ id \notin DOMAIN t.upd => v.row[id] = w.row[id]
           /\ id \in DOMAIN t.upd => v.row[id].has = t.upd[id].has
  BY RowsAfter
<1>2. /\ DOMAIN t.at \subseteq Items
      /\ \A i \in DOMAIN t.at : t.at[i] # 0 => t.at[i] \in DOMAIN t.ins
  BY EntryFacts, PartialFacts
<1>3. SUFFICES ASSUME NEW i \in Items
               PROVE  /\ v.at[i] # 0 => v.row[v.at[i]] # NoRow
                      /\ i \in v.alive /\ v.at[i] # 0 =>
                           v.inv[i] = Nobody /\ v.row[v.at[i]].has = TRUE
                      /\ i \in v.alive /\ v.at[i] = 0 => v.inv[i] # Nobody
                      /\ i \notin v.alive => v.inv[i] = Nobody
  BY DEF Whole
<1>4. /\ w.at[i] # 0 => w.row[w.at[i]] # NoRow
      /\ i \in w.alive /\ w.at[i] # 0 => w.inv[i] = Nobody /\ w.row[w.at[i]].has = TRUE
      /\ i \in w.alive /\ w.at[i] = 0 => w.inv[i] # Nobody
      /\ i \notin w.alive => w.inv[i] = Nobody
  BY DEF Whole
<1>5. CASE i \in DOMAIN t.at
  <2>1. i \in v.alive /\ v.at[i] = t.at[i]
    BY <1>5, ItemsAfter DEF Sound
  <2>2. CASE t.at[i] # 0
    <3>1. t.at[i] = n /\ n \in DOMAIN t.ins
      BY <1>1, <1>2, <1>5, <2>2
    <3>2. v.row[v.at[i]] \in Row /\ v.row[v.at[i]].has = TRUE
      BY <1>1, <1>5, <2>1, <2>2, <3>1 DEF Sound
    <3>3. v.inv[i] = Nobody
      BY <1>5, <2>2, ItemsAfter DEF Sound
    <3> QED BY <2>1, <2>2, <3>2, <3>3, RowIsThere
  <2>3. CASE t.at[i] = 0
    <3>1. v.inv[i] = p
      BY <1>5, <2>3, ItemsAfter DEF Sound
    <3> QED BY <1>0, <2>1, <2>3, <3>1
  <2> QED BY <2>2, <2>3
<1>6. CASE i \notin DOMAIN t.at
  <2>1. v.inv[i] = w.inv[i]
    BY <1>6, ItemsAfter DEF Sound
  <2>2. w.at[i] \in Ids \cup {0} /\ v.alive = w.alive \ t.destroy
    BY ItemsAfter
  <2>3. CASE w.at[i] \in t.del
    <3>1. v.at[i] = 0
      BY <1>6, <2>3, ItemsAfter
    <3>2. i \notin v.alive
      BY <1>6, <2>2, <2>3 DEF Sound
    <3>3. w.at[i] # 0
      BY <1>0, <2>3, EntryFacts
    <3>4. v.inv[i] = Nobody
      BY <1>4, <2>1, <3>3
    <3> QED BY <3>1, <3>2, <3>4
  <2>4. CASE w.at[i] \notin t.del
    <3>1. v.at[i] = w.at[i]
      BY <1>6, <2>4, ItemsAfter
    <3>2. w.at[i] # 0 => v.row[w.at[i]] \in Row
      BY <1>1, <1>4, <2>2, <2>4
    <3>3. i \notin v.alive => v.inv[i] = Nobody
      <4>1. CASE i \in t.destroy
        BY <1>4, <2>1, <4>1 DEF Sound
      <4>2. CASE i \notin t.destroy
        BY <1>4, <2>1, <2>2, <4>2
      <4> QED BY <4>1, <4>2
    <3>4. ASSUME i \in v.alive, w.at[i] # 0 PROVE v.row[w.at[i]].has = TRUE
      <4>1. i \in w.alive /\ w.at[i] \in Ids /\ w.row[w.at[i]] # NoRow
        BY <1>4, <2>2, <3>4
      <4>2. CASE w.at[i] \in DOMAIN t.upd
        BY <1>1, <1>6, <2>4, <4>1, <4>2 DEF Sound
      <4>3. CASE w.at[i] \notin DOMAIN t.upd
        BY <1>1, <1>4, <2>4, <3>4, <4>1, <4>3
      <4> QED BY <4>2, <4>3
    <3> QED BY <1>4, <2>1, <2>2, <3>1, <3>2, <3>3, <3>4, RowIsThere
  <2> QED BY <2>3, <2>4
<1> QED BY <1>5, <1>6

\* What fits but for the mail that is new.
FitsBut(r, m, U, w, n) ==
    /\ m.gold = w.gold[r] /\ m.bag = {i \in w.alive : w.inv[i] = r}
    /\ \A id \in Ids : IF id = n THEN m.box[id] = NoMail ELSE FitsMail(r, m.box, U, w, id)

\* Players whom the entry is not about have what they had.
LEMMA OthersFit ==
    ASSUME NEW w \in World, NEW t \in Entry, NEW p \in Players, NEW n, Fresh(n, w), n \in Nat,
           Whole(w), Sound(p, n, w, t), NEW v, v = Apply(w, t),
           NEW r \in Players, r # p, NEW m, NEW U, Fits(r, m, U, w)
    PROVE  /\ FitsBut(r, m, U, v, n)
           /\ \A id \in Ids : id # n => (IsTo(v, id, r) <=> IsTo(w, id, r))
<1>0. r # Nobody /\ p # Nobody /\ 0 \notin Ids
  BY NobodyAssumption DEF Ids
<1>1. /\ \A id \in DOMAIN t.ins : id = n
      /\ \A id \in t.del : v.row[id] = NoRow
      /\ \A id \in Ids : w.row[id] = NoRow /\ id \notin DOMAIN t.ins => v.row[id] = NoRow
      /\ \A id \in Ids : w.row[id] # NoRow /\ id \notin t.del =>
           /\ v.row[id] \in Row /\ v.row[id].to = w.row[id].to
           /\ id \notin DOMAIN t.upd => v.row[id] = w.row[id]
  BY RowsAfter
<1>2. /\ DOMAIN t.at \subseteq Items
      /\ \A i \in DOMAIN t.at : t.at[i] # 0 => t.at[i] \in DOMAIN t.ins
      /\ t.del \subseteq Ids /\ t.destroy \subseteq Items
  BY EntryFacts, PartialFacts
<1>3. \A i \in Items :
        /\ i \in w.alive /\ w.at[i] # 0 => w.inv[i] = Nobody
        /\ i \notin w.alive => w.inv[i] = Nobody
  BY DEF Whole
<1>4. v.gold[r] = w.gold[r]
  <2>1. r \notin DOMAIN t.gold
    BY DEF Sound
  <2> QED BY <2>1, ApplyFacts
<1>5. \A i \in Items : v.inv[i] = r /\ i \in v.alive <=> w.inv[i] = r /\ i \in w.alive
  <2> SUFFICES ASSUME NEW i \in Items
               PROVE  v.inv[i] = r /\ i \in v.alive <=> w.inv[i] = r /\ i \in w.alive
    OBVIOUS
  <2>1. CASE i \in DOMAIN t.at
    <3>1. i \in w.alive /\ w.inv[i] # r
      BY <1>0, <1>3, <2>1 DEF Sound, Owned
    <3>2. v.inv[i] # r
      <4>1. CASE i \in DOMAIN t.inv
        <5>1. t.inv[i] = p \/ t.inv[i] = Nobody
          BY <2>1, <4>1 DEF Sound
        <5> QED BY <1>0, <4>1, <5>1, ItemsAfter
      <4>2. CASE i \notin DOMAIN t.inv
        BY <3>1, <4>2, ItemsAfter
      <4> QED BY <4>1, <4>2
    <3> QED BY <3>1, <3>2
  <2>2. CASE i \notin DOMAIN t.at
    <3>1. v.inv[i] = w.inv[i] /\ v.alive = w.alive \ t.destroy
      BY <2>2, ItemsAfter DEF Sound
    <3>2. i \in t.destroy => w.inv[i] = Nobody
      BY <1>3 DEF Sound
    <3> QED BY <1>0, <3>1, <3>2
  <2> QED BY <2>1, <2>2
<1>6. {i \in v.alive : v.inv[i] = r} = {i \in w.alive : w.inv[i] = r}
  <2>1. v.alive \subseteq Items /\ w.alive \subseteq Items
    BY ItemsAfter, WorldFacts
  <2> QED BY <1>5, <2>1
<1>7. ASSUME NEW id \in Ids, id # n PROVE IsTo(v, id, r) <=> IsTo(w, id, r)
  <2>1. CASE id \in t.del
    <3>1. IsTo(w, id, p) /\ v.row[id] = NoRow
      BY <1>1, <2>1 DEF Sound
    <3> QED BY <3>1 DEF IsTo
  <2>2. CASE id \notin t.del /\ w.row[id] = NoRow
    BY <1>1, <1>7, <2>2 DEF IsTo
  <2>3. CASE id \notin t.del /\ w.row[id] # NoRow
    BY <1>1, <2>3, RowIsThere DEF IsTo
  <2> QED BY <2>1, <2>2, <2>3
<1>8. ASSUME NEW id \in Ids, id # n, IsTo(w, id, r)
      PROVE  v.row[id] = w.row[id] /\ ItemsOf(v, id) = ItemsOf(w, id)
  <2>1. ~IsTo(w, id, p) /\ w.row[id] # NoRow
    BY <1>8 DEF IsTo
  <2>2. id \notin t.del /\ id \notin DOMAIN t.upd
    BY <2>1 DEF Sound
  <2>3. v.row[id] = w.row[id]
    BY <1>1, <2>1, <2>2
  <2>4. ASSUME NEW i \in Items
        PROVE  i \in v.alive /\ v.at[i] = id <=> i \in w.alive /\ w.at[i] = id
    <3>1. CASE i \in DOMAIN t.at
      <4>1. w.at[i] # id
        BY <1>0, <1>3, <2>1, <3>1 DEF Sound, Owned
      <4>2. v.at[i] # id
        <5>1. t.at[i] = 0 \/ t.at[i] = n
          BY <1>1, <1>2, <3>1
        <5> QED BY <1>0, <1>8, <3>1, <5>1, ItemsAfter
      <4> QED BY <4>1, <4>2
    <3>2. CASE i \notin DOMAIN t.at
      <4>1. v.at[i] = id <=> w.at[i] = id
        BY <1>0, <2>2, <3>2, ItemsAfter
      <4>2. w.at[i] = id => i \notin t.destroy
        BY <2>1 DEF Sound
      <4> QED BY <4>1, <4>2, ItemsAfter
    <3> QED BY <3>1, <3>2
  <2>5. ItemsOf(v, id) = ItemsOf(w, id)
    <3>1. v.alive \subseteq Items /\ w.alive \subseteq Items
      BY ItemsAfter, WorldFacts
    <3> QED BY <2>4, <3>1 DEF ItemsOf
  <2> QED BY <2>3, <2>5
<1>9. ASSUME NEW id \in Ids
      PROVE  IF id = n THEN m.box[id] = NoMail ELSE FitsMail(r, m.box, U, v, id)
  <2>1. FitsMail(r, m.box, U, w, id)
    BY DEF Fits
  <2>2. CASE id = n
    <3>1. ~IsTo(w, id, r)
      BY <2>2 DEF Fresh, IsTo
    <3> QED BY <2>1, <2>2, <3>1 DEF FitsMail
  <2>3. CASE id # n
    BY <1>7, <1>8, <2>1, <2>3 DEF FitsMail
  <2> QED BY <2>2, <2>3
<1>10. m.gold = v.gold[r] /\ m.bag = {i \in v.alive : v.inv[i] = r}
  BY <1>4, <1>6 DEF Fits
<1> QED BY <1>7, <1>9, <1>10 DEF FitsBut

\* The new mail: in the box, or on the list of those that are not seen.
LEMMA NewMail ==
    ASSUME NEW r \in Players, NEW m, NEW U, NEW v, NEW n, FitsBut(r, m, U, v, n)
    PROVE  /\ n \in Ids /\ IsTo(v, n, r) => \A V : U \subseteq V /\ n \in V => Fits(r, m, V, v)
           /\ ~(n \in Ids /\ IsTo(v, n, r)) => \A V : U \subseteq V => Fits(r, m, V, v)
           /\ m \in Memory /\ n \in Ids /\ IsTo(v, n, r) =>
                Fits(r, Arrived(m, n, v.row[n], ItemsOf(v, n)), U, v)
<1>1. /\ m.gold = v.gold[r] /\ m.bag = {i \in v.alive : v.inv[i] = r}
      /\ \A id \in Ids : id = n => m.box[id] = NoMail
      /\ \A id \in Ids : id # n => FitsMail(r, m.box, U, v, id)
  BY DEF FitsBut
<1>2. ASSUME n \in Ids, IsTo(v, n, r), NEW V, U \subseteq V, n \in V PROVE Fits(r, m, V, v)
  <2>1. \A id \in Ids : FitsMail(r, m.box, V, v, id)
    BY <1>1, <1>2 DEF FitsMail
  <2> QED BY <1>1, <2>1 DEF Fits
<1>3. ASSUME ~(n \in Ids /\ IsTo(v, n, r)), NEW V, U \subseteq V PROVE Fits(r, m, V, v)
  <2>1. \A id \in Ids : FitsMail(r, m.box, V, v, id)
    BY <1>1, <1>3 DEF FitsMail
  <2> QED BY <1>1, <2>1 DEF Fits
<1>4. ASSUME m \in Memory, n \in Ids, IsTo(v, n, r)
      PROVE  Fits(r, Arrived(m, n, v.row[n], ItemsOf(v, n)), U, v)
  <2>1. PICK x, c : c = Put(v.row[n], ItemsOf(v, n), "unchanged") /\ x = [m.box EXCEPT ![n] = c]
    OBVIOUS
  <2>2. DOMAIN m.box = Ids
    BY <1>4, MemoryFacts
  <2>3. x[n] = c /\ \A id \in Ids : id # n => x[id] = m.box[id]
    BY <1>4, <2>1, <2>2
  <2>4. c.row = v.row[n] /\ c.items = ItemsOf(v, n) /\ c # NoMail
    <3>1. c.state = "unchanged" /\ NoMail.state = "none"
      BY <2>1 DEF Put, NoMail
    <3>2. c # NoMail
      BY <3>1
    <3> QED BY <2>1, <3>2, PutExcept
  <2>5. FitsMail(r, x, U, v, n)
    BY <1>4, <2>3, <2>4 DEF FitsMail
  <2>6. \A id \in Ids : FitsMail(r, x, U, v, id)
    BY <1>1, <2>3, <2>5 DEF FitsMail
  <2>7. Arrived(m, n, v.row[n], ItemsOf(v, n)) = Mem(m.gold, m.bag, x)
    BY <2>1 DEF Arrived
  <2>8. Fits(r, Mem(m.gold, m.bag, x), U, v)
    BY <1>1, <2>6, MemExcept DEF Fits
  <2> QED BY <2>7, <2>8
<1> QED BY <1>2, <1>3, <1>4

\* A handler of p that sends no mail.
Plain(h, p, t, w, v, m) ==
    /\ Drains(db, queue, h) /\ Good(h, queue, session, answer, mem, nextId, unseen)
    /\ session[p] = "in" /\ t.loads = Nobody /\ w = h[Len(queue)] /\ v = Apply(w, t)
    /\ Sound(p, nextId, w, t) /\ DOMAIN t.ins = {} /\ Wealth(v) <= Bound
    /\ FitsBut(p, m, unseen, v, nextId)
    /\ queue' = Append(queue, t) /\ mem' = [mem EXCEPT ![p] = m]
    /\ UNCHANGED <<db, session, answer, nextId, unseen>>

LEMMA PlainStep ==
    ASSUME TypeInv, NEW h, NEW p \in Players, NEW t \in Entry, NEW w, NEW v, NEW m,
           Plain(h, p, t, w, v, m)
    PROVE  \E g : /\ Drains(db', queue', g)
                  /\ Good(g, queue', session', answer', mem', nextId', unseen')
<1>a. /\ Drains(db, queue, h) /\ Good(h, queue, session, answer, mem, nextId, unseen)
      /\ session[p] = "in" /\ t.loads = Nobody /\ w = h[Len(queue)] /\ v = Apply(w, t)
      /\ Sound(p, nextId, w, t) /\ DOMAIN t.ins = {} /\ Wealth(v) <= Bound
      /\ FitsBut(p, m, unseen, v, nextId)
      /\ queue' = Append(queue, t) /\ mem' = [mem EXCEPT ![p] = m]
      /\ UNCHANGED <<db, session, answer, nextId, unseen>>
  BY DEF Plain
<1>1. /\ queue \in Seq(Entry) /\ nextId \in Nat /\ DOMAIN mem = Players
      /\ Len(queue) \in 0 .. Len(queue)
  BY <1>a, LimitAssumption, LenProperties DEF TypeInv
<1>2. /\ w \in World /\ Whole(w) /\ Fresh(nextId, w)
      /\ \A r \in Players : session[r] # "in" => mem[r] = Absent
      /\ \A r \in Players : session[r] = "in" => Fits(r, mem[r], unseen, w)
  BY <1>a, <1>1 DEF Drains, Good
<1>3. Whole(v) /\ Fresh(nextId, v)
  BY <1>a, <1>1, <1>2, WholeAfter, FreshAfter
<1>4. \A r \in Players : ~(nextId \in Ids /\ IsTo(v, nextId, r))
  BY <1>a, <1>1, <1>3 DEF Fresh, IsTo
<1>5. ASSUME NEW r \in Players, r # p, NEW y, Fits(r, y, unseen, w) PROVE Fits(r, y, unseen, v)
  <2>1. FitsBut(r, y, unseen, v, nextId)
    BY <1>a, <1>1, <1>2, <1>5, OthersFit
  <2> QED BY <1>a, <1>4, <2>1, NewMail
<1>6. Fits(p, m, unseen, v)
  BY <1>a, <1>4, NewMail
<1>7. \A r \in Players : session[r] = "in" => Fits(r, mem'[r], unseen, v)
  BY <1>a, <1>1, <1>2, <1>5, <1>6
<1>8. \A r \in Players : session[r] # "in" => mem'[r] = Absent
  BY <1>a, <1>1, <1>2
<1>9. \A r \in Players : t.loads # r
  BY <1>a, NobodyAssumption
<1>10. \A r \in Players : session[r] = "loading" =>
         \A y : Fits(r, y, unseen, w) => Fits(r, y, unseen, v)
  BY <1>a, <1>5
<1>11. PICK m2 : m2 = mem'
  OBVIOUS
<1>12. /\ \A r \in Players : session[r] # "in" => m2[r] = Absent
       /\ \A r \in Players : session[r] = "in" => Fits(r, m2[r], unseen, v)
  BY <1>a, <1>7, <1>8, <1>11
<1>13. \E g : /\ Drains(db, Append(queue, t), g)
              /\ Good(g, Append(queue, t), session, answer, m2, nextId, unseen)
  <2>1. Follows(session, unseen, t, w, v, session, m2, unseen)
    BY <1>a, <1>9, <1>10, <1>12 DEF Follows
  <2> QED BY <1>a, <1>1, <1>3, <2>1, Extend
<1> QED BY <1>a, <1>11, <1>13

\* A handler of p that sends one.
Sends(h, p, t, w, v, m, row, items) ==
    /\ Drains(db, queue, h) /\ Good(h, queue, session, answer, mem, nextId, unseen)
    /\ session[p] = "in" /\ nextId \in Ids
    /\ t.loads = Nobody /\ w = h[Len(queue)] /\ v = Apply(w, t)
    /\ Sound(p, nextId, w, t) /\ t.ins = Only(nextId, row) /\ Wealth(v) <= Bound
    /\ FitsBut(p, m, unseen, v, nextId) /\ items = ItemsOf(v, nextId)
    /\ queue' = Append(queue, t) /\ mem' = Post([mem EXCEPT ![p] = m], row, items)
    /\ nextId' = nextId + 1 /\ unseen' = Unseen(row)
    /\ UNCHANGED <<db, session, answer>>

LEMMA PostStep ==
    ASSUME TypeInv, NEW h, NEW p \in Players, NEW t \in Entry, NEW w, NEW v, NEW m \in Memory,
           NEW row \in Row, NEW items \in SUBSET Items, Sends(h, p, t, w, v, m, row, items)
    PROVE  \E g : /\ Drains(db', queue', g)
                  /\ Good(g, queue', session', answer', mem', nextId', unseen')
<1>a. /\ Drains(db, queue, h) /\ Good(h, queue, session, answer, mem, nextId, unseen)
      /\ session[p] = "in" /\ nextId \in Ids
      /\ t.loads = Nobody /\ w = h[Len(queue)] /\ v = Apply(w, t)
      /\ Sound(p, nextId, w, t) /\ t.ins = Only(nextId, row) /\ Wealth(v) <= Bound
      /\ FitsBut(p, m, unseen, v, nextId) /\ items = ItemsOf(v, nextId)
      /\ queue' = Append(queue, t) /\ mem' = Post([mem EXCEPT ![p] = m], row, items)
      /\ nextId' = nextId + 1 /\ unseen' = Unseen(row)
      /\ UNCHANGED <<db, session, answer>>
  BY DEF Sends
<1>1. /\ queue \in Seq(Entry) /\ nextId \in Nat /\ mem \in [Players -> Memory]
      /\ Len(queue) \in 0 .. Len(queue)
  BY <1>a, LimitAssumption, LenProperties DEF TypeInv
<1>2. /\ w \in World /\ Whole(w) /\ Fresh(nextId, w)
      /\ \A r \in Players : session[r] # "in" => mem[r] = Absent
      /\ \A r \in Players : session[r] = "in" => Fits(r, mem[r], unseen, w)
  BY <1>a, <1>1 DEF Drains, Good
<1>3. Whole(v) /\ Fresh(nextId + 1, v)
  BY <1>a, <1>1, <1>2, WholeAfter, FreshAfter
<1>4. v.row[nextId] = row
  <2>1. nextId \in DOMAIN t.ins /\ t.ins[nextId] = row
    BY <1>a DEF Only
  <2> QED BY <1>a, <1>1, <1>2, <2>1, RowsAfter
<1>5. \A r \in Players : IsTo(v, nextId, r) <=> r = row.to
  BY <1>a, <1>4, RowIsThere DEF IsTo
<1>6. PICK f, m2, U2 : f = [mem EXCEPT ![p] = m] /\ m2 = mem' /\ U2 = unseen'
  OBVIOUS
<1>7. f \in [Players -> Memory] /\ f[p] = m /\ \A r \in Players : r # p => f[r] = mem[r]
  BY <1>a, <1>1, <1>6
<1>8. /\ unseen \subseteq U2
      /\ session[row.to] = "loading" => nextId \in U2
      /\ session[row.to] # "loading" => U2 = unseen
  BY <1>a, <1>6 DEF Unseen
<1>9. \A r \in Players : m2[r] = IF r = row.to /\ session[r] = "in"
                                  THEN Arrived(f[r], nextId, row, items) ELSE f[r]
  <2>1. m2 = Post(f, row, items)
    BY <1>a, <1>6
  <2> QED BY <1>a, <1>7, <2>1, ArrivedIs
<1>10. ASSUME NEW r \in Players, r # p, NEW y, Fits(r, y, unseen, w)
       PROVE  FitsBut(r, y, unseen, v, nextId)
  BY <1>a, <1>1, <1>2, <1>10, OthersFit
<1>11. ASSUME NEW r \in Players, session[r] = "in" PROVE Fits(r, m2[r], U2, v)
  <2>1. FitsBut(r, f[r], unseen, v, nextId) /\ f[r] \in Memory
    BY <1>a, <1>2, <1>7, <1>10, <1>11
  <2>2. CASE r = row.to
    <3>1. Fits(r, Arrived(f[r], nextId, v.row[nextId], ItemsOf(v, nextId)), unseen, v)
      BY <1>a, <1>5, <2>1, <2>2, NewMail
    <3>2. U2 = unseen
      BY <1>a, <1>8, <1>11, <2>2
    <3> QED BY <1>a, <1>4, <1>9, <1>11, <2>2, <3>1, <3>2
  <2>3. CASE r # row.to
    <3>1. Fits(r, f[r], U2, v)
      BY <1>a, <1>5, <1>8, <2>1, <2>3, NewMail
    <3> QED BY <1>a, <1>9, <2>3, <3>1
  <2> QED BY <1>a, <2>2, <2>3
<1>12. ASSUME NEW r \in Players, session[r] = "loading", NEW y, Fits(r, y, unseen, w)
       PROVE  Fits(r, y, U2, v)
  <2>1. FitsBut(r, y, unseen, v, nextId)
    BY <1>a, <1>10, <1>12
  <2>2. CASE r = row.to
    BY <1>a, <1>5, <1>8, <1>12, <2>1, <2>2, NewMail
  <2>3. CASE r # row.to
    BY <1>a, <1>5, <1>8, <2>1, <2>3, NewMail
  <2> QED BY <1>a, <2>2, <2>3
<1>13. \A r \in Players : session[r] # "in" => m2[r] = Absent
  BY <1>a, <1>2, <1>7, <1>9
<1>14. \A r \in Players : t.loads # r
  BY <1>a, NobodyAssumption
<1>15. PICK n2 : n2 = nextId + 1
  OBVIOUS
<1>16. \E g : /\ Drains(db, Append(queue, t), g)
              /\ Good(g, Append(queue, t), session, answer, m2, n2, U2)
  <2>1. Follows(session, unseen, t, w, v, session, m2, U2)
    BY <1>a, <1>11, <1>12, <1>13, <1>14 DEF Follows
  <2>2. Fresh(n2, v)
    BY <1>a, <1>3, <1>15
  <2> QED BY <1>a, <1>1, <1>3, <2>1, <2>2, Extend
<1> QED BY <1>a, <1>6, <1>15, <1>16

----------------------------------------------------------------------------
(* Gold.                                                                    *)

Worths(w) == [id \in Ids |-> Worth(w.row[id])]

LEMMA WorthFacts ==
    /\ \A r \in Row : Worth(r) = r.gold /\ Worth(r) \in Nat
    /\ Worth(NoRow) = 0
    /\ \A w \in World : \A id \in Ids : Worth(w.row[id]) \in Nat /\ Worths(w)[id] = Worth(w.row[id])
<1>1. \A r \in Row : Worth(r) = r.gold /\ Worth(r) \in Nat
  BY RowIsThere, RowFacts DEF Worth
<1>2. Worth(NoRow) = 0
  BY DEF Worth
<1>3. ASSUME NEW w \in World, NEW id \in Ids
      PROVE  Worth(w.row[id]) \in Nat /\ Worths(w)[id] = Worth(w.row[id])
  <2>1. w.row[id] \in Row \cup {NoRow}
    BY WorldFacts
  <2>2. Worths(w)[id] = Worth(w.row[id])
    BY DEF Worths
  <2> QED BY <1>1, <1>2, <2>1, <2>2
<1> QED BY <1>1, <1>2, <1>3

LEMMA WealthIs ==
    ASSUME NEW w \in World
    PROVE  /\ Wealth(w) = SumFunctionOnSet(w.gold, Players) + SumFunctionOnSet(Worths(w), Ids)
           /\ SumFunctionOnSet(w.gold, Players) \in Int /\ SumFunctionOnSet(Worths(w), Ids) \in Int
           /\ IsFiniteSet(Players) /\ IsFiniteSet(Ids)
<1>1. DOMAIN w.gold = Players /\ DOMAIN Worths(w) = Ids
  BY WorldFacts DEF Worths
<1>2. IsFiniteSet(Players) /\ IsFiniteSet(Ids)
  BY FiniteAssumption, LimitAssumption, FS_Interval DEF Ids
<1>3. \A p \in Players : w.gold[p] \in Int
  BY WorldFacts
<1>4. \A id \in Ids : Worths(w)[id] \in Int
  BY WorthFacts
<1>5. SumFunctionOnSet(w.gold, Players) \in Int
  <2>1. PICK f : f = w.gold
    OBVIOUS
  <2> QED BY <1>2, <1>3, <2>1, SumInt
<1>6. SumFunctionOnSet(Worths(w), Ids) \in Int
  <2>1. PICK f : f = Worths(w)
    OBVIOUS
  <2> QED BY <1>2, <1>4, <2>1, SumInt
<1>7. Wealth(w) = SumFunctionOnSet(w.gold, Players) + SumFunctionOnSet(Worths(w), Ids)
  BY <1>1 DEF Wealth, SumFunction, Worths
<1> QED BY <1>2, <1>5, <1>6, <1>7

\* Gold changes hands between p and the mails a and b; other mails lose.
LEMMA WealthStep ==
    ASSUME NEW w \in World, NEW v \in World, NEW p \in Players, NEW a \in Ids, NEW b \in Ids,
           \A r \in Players \ {p} : v.gold[r] = w.gold[r],
           \A x \in Ids \ {a, b} : Worth(v.row[x]) <= Worth(w.row[x]),
           a = b => v.gold[p] + Worth(v.row[a]) <= w.gold[p] + Worth(w.row[a]),
           a # b => v.gold[p] + Worth(v.row[a]) + Worth(v.row[b])
                      <= w.gold[p] + Worth(w.row[a]) + Worth(w.row[b])
    PROVE  Wealth(v) <= Wealth(w)
<1>1. PICK f, g, x, y : f = w.gold /\ g = v.gold /\ x = Worths(w) /\ y = Worths(v)
  OBVIOUS
<1>2. /\ \A r \in Players : f[r] \in Int /\ g[r] \in Int
      /\ \A id \in Ids : x[id] \in Int /\ y[id] \in Int
  BY <1>1, WorldFacts, WorthFacts
<1>3. /\ \A r \in Players \ {p} : g[r] = f[r]
      /\ \A id \in Ids \ {a, b} : y[id] <= x[id]
      /\ a = b => g[p] + y[a] <= f[p] + x[a]
      /\ a # b => g[p] + y[a] + y[b] <= f[p] + x[a] + x[b]
  BY <1>1, WorthFacts
<1>4. /\ Wealth(w) = SumFunctionOnSet(f, Players) + SumFunctionOnSet(x, Ids)
      /\ Wealth(v) = SumFunctionOnSet(g, Players) + SumFunctionOnSet(y, Ids)
      /\ SumFunctionOnSet(f, Players) \in Int /\ SumFunctionOnSet(g, Players) \in Int
      /\ SumFunctionOnSet(x, Ids) \in Int /\ SumFunctionOnSet(y, Ids) \in Int
      /\ IsFiniteSet(Players) /\ IsFiniteSet(Ids)
  BY <1>1, WealthIs
<1>5. SumFunctionOnSet(g, Players) = SumFunctionOnSet(f, Players) + (g[p] - f[p])
  BY <1>2, <1>3, <1>4, SumChange
<1>6. PICK x1 : x1 = [id \in Ids |-> IF id = a THEN y[a] ELSE x[id]]
  OBVIOUS
<1>7. PICK x2 : x2 = [id \in Ids |-> IF id = b THEN y[b] ELSE x1[id]]
  OBVIOUS
<1>8. /\ \A id \in Ids : x1[id] \in Int /\ x2[id] \in Int
      /\ \A id \in Ids \ {a} : x1[id] = x[id]
      /\ \A id \in Ids \ {b} : x2[id] = x1[id]
      /\ x1[a] = y[a] /\ x2[b] = y[b]
      /\ \A id \in Ids : y[id] <= x2[id]
  BY <1>2, <1>3, <1>6, <1>7
<1>9. SumFunctionOnSet(x1, Ids) = SumFunctionOnSet(x, Ids) + (x1[a] - x[a])
  BY <1>2, <1>4, <1>8, SumChange
<1>10. SumFunctionOnSet(x2, Ids) = SumFunctionOnSet(x1, Ids) + (x2[b] - x1[b])
  BY <1>4, <1>8, SumChange
<1>11. SumFunctionOnSet(y, Ids) <= SumFunctionOnSet(x2, Ids)
  BY <1>2, <1>4, <1>8, SumLeq
<1>12. PICK F, G, X, Y, X2 :
         /\ F = SumFunctionOnSet(f, Players) /\ G = SumFunctionOnSet(g, Players)
         /\ X = SumFunctionOnSet(x, Ids) /\ Y = SumFunctionOnSet(y, Ids)
         /\ X2 = SumFunctionOnSet(x2, Ids)
  OBVIOUS
<1>13. PICK fp, gp, xa, xb, ya, yb :
         /\ fp = f[p] /\ gp = g[p] /\ xa = x[a] /\ xb = x[b] /\ ya = y[a] /\ yb = y[b]
  OBVIOUS
<1>14. /\ F \in Int /\ G \in Int /\ X \in Int /\ Y \in Int
       /\ fp \in Int /\ gp \in Int /\ xa \in Int /\ xb \in Int /\ ya \in Int /\ yb \in Int
  BY <1>2, <1>4, <1>12, <1>13
<1>15. G = F + (gp - fp) /\ Y <= X2
  BY <1>5, <1>11, <1>12, <1>13
<1>16. CASE a = b
  <2>1. X2 = X + (ya - xa) + (yb - ya)
    BY <1>8, <1>9, <1>10, <1>12, <1>13, <1>16
  <2>2. ya = yb /\ gp + ya <= fp + xa
    BY <1>3, <1>13, <1>16
  <2>3. G + Y <= F + X
    BY <1>14, <1>15, <2>1, <2>2
  <2> QED BY <1>4, <1>12, <2>3
<1>17. CASE a # b
  <2>1. X2 = X + (ya - xa) + (yb - xb)
    BY <1>8, <1>9, <1>10, <1>12, <1>13, <1>17
  <2>2. gp + ya + yb <= fp + xa + xb
    BY <1>3, <1>13, <1>17
  <2>3. G + Y <= F + X
    BY <1>14, <1>15, <2>1, <2>2
  <2> QED BY <1>4, <1>12, <2>3
<1> QED BY <1>16, <1>17

LEMMA WealthSame ==
    ASSUME NEW w \in World, NEW v \in World,
           \A r \in Players : v.gold[r] = w.gold[r],
           \A x \in Ids : Worth(v.row[x]) <= Worth(w.row[x])
    PROVE  Wealth(v) <= Wealth(w)
<1>1. PICK f, g, x, y : f = w.gold /\ g = v.gold /\ x = Worths(w) /\ y = Worths(v)
  OBVIOUS
<1>2. /\ \A r \in Players : f[r] \in Int /\ g[r] \in Int /\ g[r] = f[r]
      /\ \A id \in Ids : x[id] \in Int /\ y[id] \in Int /\ y[id] <= x[id]
  BY <1>1, WorldFacts, WorthFacts
<1>3. /\ Wealth(w) = SumFunctionOnSet(f, Players) + SumFunctionOnSet(x, Ids)
      /\ Wealth(v) = SumFunctionOnSet(g, Players) + SumFunctionOnSet(y, Ids)
      /\ SumFunctionOnSet(f, Players) \in Int
      /\ SumFunctionOnSet(x, Ids) \in Int /\ SumFunctionOnSet(y, Ids) \in Int
      /\ IsFiniteSet(Players) /\ IsFiniteSet(Ids)
  BY <1>1, WealthIs
<1>4. SumFunctionOnSet(g, Players) = SumFunctionOnSet(f, Players)
  BY <1>2, <1>3, SumAgree
<1>5. SumFunctionOnSet(y, Ids) <= SumFunctionOnSet(x, Ids)
  BY <1>2, <1>3, SumLeq
<1> QED BY <1>3, <1>4, <1>5

----------------------------------------------------------------------------
(* What the entry leaves to the player it is about.                         *)

LEMMA OwnAfter ==
    ASSUME NEW w \in World, NEW t \in Entry, NEW p \in Players, NEW n, Fresh(n, w), n \in Nat,
           Whole(w), Sound(p, n, w, t), NEW v, v = Apply(w, t)
    PROVE  /\ \A i \in Items : v.inv[i] = p /\ i \in v.alive <=>
                 IF i \in DOMAIN t.inv THEN t.inv[i] = p ELSE w.inv[i] = p /\ i \in w.alive
           /\ \A id \in Ids : id # n => (IsTo(v, id, p) <=> IsTo(w, id, p) /\ id \notin t.del)
           /\ \A id \in Ids : id # n /\ id \notin t.del =>
                 ItemsOf(v, id) = {i \in ItemsOf(w, id) : i \notin DOMAIN t.at /\ i \notin t.destroy}
           /\ n \in Ids => ItemsOf(v, n) = {i \in DOMAIN t.at : t.at[i] = n}
<1>0. p # Nobody /\ 0 \notin Ids
  BY NobodyAssumption DEF Ids
<1>1. /\ \A id \in DOMAIN t.ins : id = n
      /\ \A id \in t.del : v.row[id] = NoRow
      /\ \A id \in Ids : w.row[id] = NoRow /\ id \notin DOMAIN t.ins => v.row[id] = NoRow
      /\ \A id \in Ids : w.row[id] # NoRow /\ id \notin t.del =>
           v.row[id] \in Row /\ v.row[id].to = w.row[id].to
  BY RowsAfter
<1>2. /\ DOMAIN t.at \subseteq Items /\ DOMAIN t.inv \subseteq Items
      /\ \A i \in DOMAIN t.at : t.at[i] # 0 => t.at[i] \in DOMAIN t.ins
      /\ t.del \subseteq Ids /\ t.destroy \subseteq Items
  BY EntryFacts, PartialFacts
<1>3. \A i \in Items :
        /\ w.at[i] # 0 => w.row[w.at[i]] # NoRow
        /\ i \in w.alive /\ w.at[i] # 0 => w.inv[i] = Nobody
        /\ i \notin w.alive => w.inv[i] = Nobody
  BY DEF Whole
<1>4. v.alive \subseteq Items /\ w.alive \subseteq Items /\ v.alive = w.alive \ t.destroy
  BY ItemsAfter, WorldFacts
<1>5. ASSUME NEW i \in Items
      PROVE  v.inv[i] = p /\ i \in v.alive <=>
               IF i \in DOMAIN t.inv THEN t.inv[i] = p ELSE w.inv[i] = p /\ i \in w.alive
  <2>1. CASE i \in DOMAIN t.inv
    <3>1. i \in v.alive
      BY <1>4, <2>1 DEF Sound
    <3> QED BY <2>1, <3>1, ItemsAfter
  <2>2. CASE i \notin DOMAIN t.inv
    <3>1. v.inv[i] = w.inv[i]
      BY <2>2, ItemsAfter
    <3>2. i \in t.destroy => w.inv[i] = Nobody
      BY <1>3 DEF Sound
    <3> QED BY <1>0, <1>4, <2>2, <3>1, <3>2
  <2> QED BY <2>1, <2>2
<1>6. ASSUME NEW id \in Ids, id # n PROVE IsTo(v, id, p) <=> IsTo(w, id, p) /\ id \notin t.del
  <2>1. CASE id \in t.del
    BY <1>1, <2>1 DEF IsTo
  <2>2. CASE id \notin t.del /\ w.row[id] = NoRow
    BY <1>1, <1>6, <2>2 DEF IsTo
  <2>3. CASE id \notin t.del /\ w.row[id] # NoRow
    BY <1>1, <2>3, RowIsThere DEF IsTo
  <2> QED BY <2>1, <2>2, <2>3
<1>7. ASSUME NEW id \in Ids, id # n, id \notin t.del
      PROVE  ItemsOf(v, id) = {i \in ItemsOf(w, id) : i \notin DOMAIN t.at /\ i \notin t.destroy}
  <2>1. ASSUME NEW i \in Items
        PROVE  i \in v.alive /\ v.at[i] = id <=>
                 i \in w.alive /\ w.at[i] = id /\ i \notin DOMAIN t.at /\ i \notin t.destroy
    <3>1. CASE i \in DOMAIN t.at
      <4>1. t.at[i] = 0 \/ t.at[i] = n
        BY <1>1, <1>2, <3>1
      <4> QED BY <1>0, <1>7, <3>1, <4>1, ItemsAfter
    <3>2. CASE i \notin DOMAIN t.at
      <4>1. v.at[i] = id <=> w.at[i] = id
        BY <1>0, <1>7, <3>2, ItemsAfter
      <4> QED BY <1>4, <3>2, <4>1
    <3> QED BY <3>1, <3>2
  <2> QED BY <1>4, <2>1 DEF ItemsOf
<1>8. ASSUME n \in Ids PROVE ItemsOf(v, n) = {i \in DOMAIN t.at : t.at[i] = n}
  <2>1. w.row[n] = NoRow
    BY <1>8 DEF Fresh
  <2>2. ASSUME NEW i \in Items
        PROVE  i \in v.alive /\ v.at[i] = n <=> i \in DOMAIN t.at /\ t.at[i] = n
    <3>1. CASE i \in DOMAIN t.at
      <4>1. i \in v.alive
        BY <1>4, <3>1 DEF Sound
      <4> QED BY <3>1, <4>1, ItemsAfter
    <3>2. CASE i \notin DOMAIN t.at
      <4>1. w.at[i] # n
        BY <1>0, <1>3, <1>8, <2>1
      <4> QED BY <1>0, <1>8, <3>2, <4>1, ItemsAfter
    <3> QED BY <3>1, <3>2
  <2> QED BY <1>2, <1>4, <2>2 DEF ItemsOf
<1> QED BY <1>5, <1>6, <1>7, <1>8

\* A box that is about to be saved: it lacks only mails of U and the items D.
Ready(p, x, U, w, D) ==
    \A id \in Ids :
      /\ x[id] = NoMail => (IsTo(w, id, p) => id \in U)
      /\ x[id] # NoMail =>
           /\ IsTo(w, id, p) /\ x[id].items = ItemsOf(w, id) \ D
           /\ x[id].state = "unchanged" => /\ x[id].row.gold = w.row[id].gold
                                           /\ x[id].row.cod = w.row[id].cod

\* The transaction of _SaveMail, with the items D taken out of the mails.
SaveAll(gold, ins, m, at, inv) ==
    Tx(gold, ins, Updates(m), Deleted(m), at, inv, Destroyed(m), Nobody)

Taken(p, w, D, at, inv) ==
    /\ DOMAIN at = D /\ DOMAIN inv = D
    /\ \A i \in D : at[i] = 0 /\ inv[i] = p /\ i \in w.alive /\ Owned(p, w, i)

LEMMA SaveSound ==
    ASSUME NEW w \in World, NEW p \in Players, NEW n, Fresh(n, w), n \in Nat, Whole(w),
           NEW m \in Memory, NEW U, NEW D, Ready(p, m.box, U, w, D),
           NEW gold, NEW ins, NEW at, NEW inv, Taken(p, w, D, at, inv),
           DOMAIN gold \subseteq {p}, DOMAIN ins \subseteq {n}
    PROVE  Sound(p, n, w, SaveAll(gold, ins, m, at, inv))
<1>1. PICK t : t = SaveAll(gold, ins, m, at, inv)
  OBVIOUS
<1>2. /\ t.gold = gold /\ t.ins = ins /\ t.upd = Updates(m) /\ t.del = Deleted(m)
      /\ t.at = at /\ t.inv = inv /\ t.destroy = Destroyed(m)
  BY <1>1, TxFacts DEF SaveAll
<1>3. /\ DOMAIN Updates(m) = InState(m, "changed")
      /\ \A id \in InState(m, "changed") :
           /\ m.box[id] \in Letters /\ Updates(m)[id] \in Change
           /\ Updates(m)[id].has = (m.box[id].items # {})
      /\ \A i : i \in Destroyed(m) <=> \E id \in Deleted(m) : i \in m.box[id].items
  BY UpdatesFacts
<1>4. ASSUME NEW id, id \in Deleted(m) \/ id \in InState(m, "changed")
      PROVE  id \in Ids /\ m.box[id] # NoMail /\ IsTo(w, id, p) /\ m.box[id].items = ItemsOf(w, id) \ D
  <2>1. id \in Ids /\ m.box[id].state # "none"
    BY <1>4 DEF Deleted, InState
  <2>2. m.box[id] # NoMail
    BY <2>1 DEF NoMail
  <2> QED BY <2>1, <2>2 DEF Ready
<1>5. ASSUME NEW i \in Destroyed(m)
      PROVE  i \in w.alive /\ w.at[i] \in Deleted(m) /\ i \notin D
  <2>1. PICK id \in Deleted(m) : i \in m.box[id].items
    BY <1>3
  <2>2. i \in ItemsOf(w, id) /\ i \notin D
    BY <1>4, <2>1
  <2> QED BY <2>1, <2>2 DEF ItemsOf
<1>6. ASSUME NEW i \in w.alive, i \notin D, w.at[i] \in Deleted(m) \/ w.at[i] \in InState(m, "changed")
      PROVE  i \in m.box[w.at[i]].items
  <2>1. m.box[w.at[i]].items = ItemsOf(w, w.at[i]) \ D
    BY <1>4, <1>6
  <2>2. i \in ItemsOf(w, w.at[i])
    BY DEF ItemsOf
  <2> QED BY <1>6, <2>1, <2>2
<1>7. DOMAIN t.gold \subseteq {p} /\ DOMAIN t.ins \subseteq {n} /\ DOMAIN t.inv \subseteq DOMAIN t.at
  BY <1>2 DEF Taken
<1>8. /\ \A id \in t.del \cup DOMAIN t.upd : IsTo(w, id, p)
      /\ \A id \in DOMAIN t.upd : t.upd[id] \in Change
  BY <1>2, <1>3, <1>4
<1>9. ASSUME NEW i \in DOMAIN t.at
      PROVE  /\ i \in w.alive /\ i \notin t.destroy /\ Owned(p, w, i)
             /\ t.at[i] = 0 /\ i \in DOMAIN t.inv /\ t.inv[i] = p
  <2>1. i \in D
    BY <1>2 DEF Taken
  <2>2. i \notin Destroyed(m)
    BY <1>5, <2>1
  <2> QED BY <1>2, <2>1, <2>2 DEF Taken
<1>10. \A i \in t.destroy : w.at[i] # 0 /\ IsTo(w, w.at[i], p)
  <2>1. 0 \notin Ids
    BY DEF Ids
  <2> QED BY <1>2, <1>4, <1>5, <2>1
<1>11. \A i \in w.alive : w.at[i] \in t.del => i \in t.destroy \/ i \in DOMAIN t.at
  BY <1>2, <1>3, <1>6 DEF Taken
<1>12. ASSUME NEW i \in w.alive \ DOMAIN t.at, w.at[i] \in DOMAIN t.upd
       PROVE  t.upd[w.at[i]].has = TRUE
  <2>1. i \notin D /\ w.at[i] \in InState(m, "changed")
    BY <1>2, <1>3, <1>12 DEF Taken
  <2>2. m.box[w.at[i]].items # {}
    BY <1>6, <2>1
  <2>3. PICK yes : yes = (m.box[w.at[i]].items # {})
    OBVIOUS
  <2>4. Updates(m)[w.at[i]].has = yes
    BY <1>3, <2>1, <2>3
  <2>5. yes = TRUE
    BY <2>2, <2>3
  <2> QED BY <1>2, <2>4, <2>5
<1>13. Sound(p, n, w, t)
  BY <1>7, <1>8, <1>9, <1>10, <1>11, <1>12 DEF Sound
<1> QED BY <1>1, <1>13

LEMMA CleanedFacts ==
    ASSUME NEW m \in Memory, NEW id \in Ids
    PROVE  /\ id \in Deleted(m) => Cleaned(m.box)[id] = NoMail
           /\ id \in InState(m, "changed") =>
                /\ Cleaned(m.box)[id] # NoMail
                /\ Cleaned(m.box)[id].row = m.box[id].row
                /\ Cleaned(m.box)[id].items = m.box[id].items
           /\ id \notin Deleted(m) /\ id \notin InState(m, "changed") =>
                /\ Cleaned(m.box)[id] = m.box[id]
                /\ m.box[id] # NoMail => m.box[id].state = "unchanged"
<1>1. PICK x : x = m.box
  OBVIOUS
<1>2. /\ id \in Deleted(m) <=> x[id].state = "deleted"
      /\ id \in InState(m, "changed") <=> x[id].state = "changed"
  BY <1>1 DEF Deleted, InState
<1>3. CASE x[id].state = "deleted"
  <2>1. Cleaned(x)[id] = NoMail
    BY <1>3 DEF Cleaned
  <2> QED BY <1>1, <1>2, <1>3, <2>1
<1>4. CASE x[id].state = "changed"
  <2>1. Cleaned(x)[id] = Put(x[id].row, x[id].items, "unchanged")
    BY <1>4 DEF Cleaned
  <2>2. Put(x[id].row, x[id].items, "unchanged") # NoMail
    <3>1. Put(x[id].row, x[id].items, "unchanged").state = "unchanged" /\ NoMail.state = "none"
      BY DEF Put, NoMail
    <3> QED BY <3>1
  <2> QED BY <1>1, <1>2, <1>4, <2>1, <2>2, PutExcept
<1>5. CASE x[id].state # "deleted" /\ x[id].state # "changed"
  <2>1. Cleaned(x)[id] = x[id]
    BY <1>5 DEF Cleaned
  <2>2. x[id] # NoMail => x[id].state = "unchanged"
    BY <1>1, <1>5, InBox, LetterFacts
  <2> QED BY <1>1, <1>2, <1>5, <2>1, <2>2
<1> QED BY <1>3, <1>4, <1>5

LEMMA SaveFits ==
    ASSUME NEW w \in World, NEW p \in Players, NEW n, Fresh(n, w), n \in Nat, Whole(w),
           NEW m \in Memory, NEW U, NEW D, Ready(p, m.box, U, w, D),
           NEW ins, NEW at, NEW inv, Taken(p, w, D, at, inv), DOMAIN ins \subseteq {n},
           NEW t \in Entry, t = SaveAll(Only(p, m.gold), ins, m, at, inv), NEW v, v = Apply(w, t),
           m.bag = {i \in w.alive : w.inv[i] = p} \cup D
    PROVE  Sound(p, n, w, t) /\ FitsBut(p, Saved(m), U, v, n)
<1>1. /\ t.gold = Only(p, m.gold) /\ t.upd = Updates(m) /\ t.del = Deleted(m)
      /\ t.at = at /\ t.inv = inv /\ t.destroy = Destroyed(m)
  BY TxFacts DEF SaveAll
<1>2. DOMAIN Only(p, m.gold) \subseteq {p} /\ Only(p, m.gold)[p] = m.gold
  BY OnlyFacts
<1>3. Sound(p, n, w, t)
  BY <1>2, SaveSound
<1>4. /\ DOMAIN Updates(m) = InState(m, "changed")
      /\ \A id \in InState(m, "changed") :
           /\ Updates(m)[id].gold = m.box[id].row.gold /\ Updates(m)[id].cod = m.box[id].row.cod
      /\ \A i : i \in Destroyed(m) <=> \E id \in Deleted(m) : i \in m.box[id].items
  BY UpdatesFacts
<1>5. v.gold[p] = m.gold
  <2>1. p \in DOMAIN t.gold /\ t.gold[p] = m.gold
    BY <1>1 DEF Only
  <2> QED BY <2>1, ApplyFacts
<1>6. {i \in v.alive : v.inv[i] = p} = m.bag
  <2>1. \A i \in Items : v.inv[i] = p /\ i \in v.alive <=>
                           IF i \in DOMAIN t.inv THEN t.inv[i] = p ELSE w.inv[i] = p /\ i \in w.alive
    BY <1>3, OwnAfter
  <2>2. \A i \in Items : i \in DOMAIN t.inv <=> i \in D
    BY <1>1 DEF Taken
  <2>3. \A i \in D : t.inv[i] = p
    BY <1>1 DEF Taken
  <2>4. D \subseteq Items /\ v.alive \subseteq Items /\ w.alive \subseteq Items
    BY ItemsAfter, WorldFacts DEF Taken
  <2> QED BY <2>1, <2>2, <2>3, <2>4
<1>7. PICK x, y : x = m.box /\ y = Cleaned(m.box)
  OBVIOUS
<1>8. Saved(m).gold = m.gold /\ Saved(m).bag = m.bag /\ Saved(m).box = y
  BY <1>7, SavedIs, MemExcept
<1>9. /\ \A id \in Ids : id # n => (IsTo(v, id, p) <=> IsTo(w, id, p) /\ id \notin t.del)
      /\ \A id \in Ids : id # n /\ id \notin t.del =>
           ItemsOf(v, id) = {i \in ItemsOf(w, id) : i \notin DOMAIN t.at /\ i \notin t.destroy}
  BY <1>3, OwnAfter
<1>10. \A id \in Ids : w.row[id] # NoRow /\ id \notin t.del =>
         /\ id \notin DOMAIN t.upd => v.row[id] = w.row[id]
         /\ id \in DOMAIN t.upd => v.row[id].gold = t.upd[id].gold /\ v.row[id].cod = t.upd[id].cod
  BY <1>3, RowsAfter
<1>11. \A i \in Destroyed(m) : w.at[i] \in Deleted(m)
  <2> SUFFICES ASSUME NEW i \in Destroyed(m) PROVE w.at[i] \in Deleted(m)
    OBVIOUS
  <2>1. PICK id \in Deleted(m) : i \in m.box[id].items
    BY <1>4
  <2>2. id \in Ids /\ m.box[id] # NoMail
    <3>1. id \in Ids /\ m.box[id].state = "deleted"
      BY DEF Deleted, InState
    <3> QED BY <3>1 DEF NoMail
  <2>3. i \in ItemsOf(w, id)
    BY <2>1, <2>2 DEF Ready
  <2> QED BY <2>3 DEF ItemsOf
<1>12. ASSUME NEW id \in Ids, id # n, id \notin Deleted(m)
       PROVE  ItemsOf(v, id) = ItemsOf(w, id) \ D
  <2>1. \A i \in ItemsOf(w, id) : i \notin Destroyed(m)
    BY <1>11, <1>12 DEF ItemsOf
  <2>2. DOMAIN t.at = D /\ t.destroy = Destroyed(m) /\ t.del = Deleted(m)
    BY <1>1 DEF Taken
  <2> QED BY <1>9, <1>12, <2>1, <2>2
<1>13. ASSUME NEW id \in Ids, id = n PROVE y[id] = NoMail
  <2>1. ~IsTo(w, id, p)
    BY <1>13 DEF Fresh, IsTo
  <2>2. x[id] = NoMail
    BY <1>7, <2>1 DEF Ready
  <2>3. x[id].state = "none"
    BY <2>2 DEF NoMail
  <2>4. y[id] = x[id]
    BY <1>7, <2>3 DEF Cleaned
  <2> QED BY <2>2, <2>4
<1>14. ASSUME NEW id \in Ids, id # n PROVE FitsMail(p, y, U, v, id)
  <2>0. /\ IsTo(v, id, p) <=> IsTo(w, id, p) /\ id \notin Deleted(m)
        /\ id \notin Deleted(m) => ItemsOf(v, id) = ItemsOf(w, id) \ D
        /\ x[id] = NoMail => (IsTo(w, id, p) => id \in U)
        /\ x[id] # NoMail =>
             /\ IsTo(w, id, p) /\ x[id].items = ItemsOf(w, id) \ D
             /\ x[id].state = "unchanged" => /\ x[id].row.gold = w.row[id].gold
                                             /\ x[id].row.cod = w.row[id].cod
    BY <1>1, <1>7, <1>9, <1>12, <1>14 DEF Ready
  <2>1. CASE id \in Deleted(m)
    <3>1. y[id] = NoMail /\ ~IsTo(v, id, p)
      BY <1>7, <2>0, <2>1, CleanedFacts
    <3> QED BY <3>1 DEF FitsMail
  <2>2. CASE id \notin Deleted(m) /\ id \in InState(m, "changed")
    <3>1. y[id] # NoMail /\ y[id].row = x[id].row /\ y[id].items = x[id].items
      BY <1>7, <2>2, CleanedFacts
    <3>2. x[id] # NoMail
      BY <1>7, <2>2 DEF InState, NoMail
    <3>3. w.row[id] # NoRow
      BY <2>0, <3>2 DEF IsTo
    <3>4. v.row[id].gold = x[id].row.gold /\ v.row[id].cod = x[id].row.cod
      BY <1>1, <1>4, <1>7, <1>10, <2>2, <3>3
    <3> QED BY <2>0, <2>2, <3>1, <3>2, <3>4 DEF FitsMail
  <2>3. CASE id \notin Deleted(m) /\ id \notin InState(m, "changed")
    <3>1. y[id] = x[id] /\ (x[id] # NoMail => x[id].state = "unchanged")
      BY <1>7, <2>3, CleanedFacts
    <3>2. IsTo(w, id, p) => v.row[id] = w.row[id]
      BY <1>1, <1>4, <1>10, <2>3 DEF IsTo
    <3> QED BY <2>0, <2>3, <3>1, <3>2 DEF FitsMail
  <2> QED BY <2>1, <2>2, <2>3
<1>15. FitsBut(p, Saved(m), U, v, n)
  BY <1>5, <1>6, <1>8, <1>13, <1>14 DEF FitsBut
<1> QED BY <1>3, <1>15

\* What a mail is worth after a save.
LEMMA SaveWorth ==
    ASSUME NEW w \in World, NEW p \in Players, NEW n, Fresh(n, w), n \in Nat,
           NEW m \in Memory, NEW gold, NEW ins, NEW at, NEW inv,
           NEW t \in Entry, t = SaveAll(gold, ins, m, at, inv), Sound(p, n, w, t),
           NEW v, v = Apply(w, t), NEW id \in Ids, id \notin DOMAIN ins
    PROVE  /\ id \notin InState(m, "changed") => Worth(v.row[id]) <= Worth(w.row[id])
           /\ id \in InState(m, "changed") => /\ Worth(v.row[id]) = m.box[id].row.gold
                                              /\ w.row[id] \in Row
<1>1. t.ins = ins /\ t.upd = Updates(m) /\ t.del = Deleted(m)
  BY TxFacts DEF SaveAll
<1>2. /\ DOMAIN Updates(m) = InState(m, "changed")
      /\ \A k \in InState(m, "changed") : Updates(m)[k].gold = m.box[k].row.gold
      /\ Deleted(m) \in SUBSET Ids
  BY UpdatesFacts
<1>3. Worth(w.row[id]) \in Nat /\ Worth(NoRow) = 0 /\ w.row[id] \in Row \cup {NoRow}
  BY WorthFacts, WorldFacts
<1>4. /\ id \in t.del => v.row[id] = NoRow
      /\ w.row[id] = NoRow => v.row[id] = NoRow
      /\ w.row[id] # NoRow /\ id \notin t.del =>
           /\ v.row[id] \in Row
           /\ id \notin DOMAIN t.upd => v.row[id] = w.row[id]
           /\ id \in DOMAIN t.upd => v.row[id].gold = t.upd[id].gold
  BY <1>1, RowsAfter
<1>5. ASSUME id \notin InState(m, "changed") PROVE Worth(v.row[id]) <= Worth(w.row[id])
  <2>1. v.row[id] = NoRow \/ v.row[id] = w.row[id]
    BY <1>1, <1>2, <1>4, <1>5
  <2>2. CASE v.row[id] = NoRow
    BY <1>3, <2>2
  <2>3. CASE v.row[id] = w.row[id]
    BY <1>3, <2>3
  <2> QED BY <2>1, <2>2, <2>3
<1>6. ASSUME id \in InState(m, "changed")
      PROVE  Worth(v.row[id]) = m.box[id].row.gold /\ w.row[id] \in Row
  <2>1. IsTo(w, id, p) /\ id \in DOMAIN t.upd
    BY <1>1, <1>2, <1>6 DEF Sound
  <2>2. w.row[id] # NoRow /\ w.row[id] \in Row
    BY <1>3, <2>1 DEF IsTo
  <2>3. id \notin t.del
    BY <1>1, <1>6 DEF InState, Deleted
  <2>4. v.row[id] \in Row /\ v.row[id].gold = m.box[id].row.gold
    BY <1>1, <1>2, <1>4, <1>6, <2>1, <2>2, <2>3
  <2> QED BY <2>2, <2>4, WorthFacts
<1> QED BY <1>5, <1>6

----------------------------------------------------------------------------
(* The steps.                                                               *)

LEMMA NowFacts ==
    ASSUME TypeInv, NEW h, Drains(db, queue, h),
           Good(h, queue, session, answer, mem, nextId, unseen), NEW w, w = h[Len(queue)]
    PROVE  /\ w \in World /\ Whole(w) /\ Fresh(nextId, w) /\ nextId \in Nat
           /\ Wealth(w) <= Bound /\ Wealth(w) \in Int /\ Bound \in Int
           /\ queue \in Seq(Entry) /\ mem \in [Players -> Memory]
           /\ \A r \in Players : session[r] # "in" => mem[r] = Absent
           /\ \A r \in Players : session[r] = "in" => Fits(r, mem[r], unseen, w)
<1>1. /\ queue \in Seq(Entry) /\ nextId \in Nat /\ mem \in [Players -> Memory]
      /\ Len(queue) \in 0 .. Len(queue)
  BY LimitAssumption, LenProperties DEF TypeInv
<1>2. /\ w \in World /\ Whole(w) /\ Fresh(nextId, w) /\ Wealth(w) <= Bound
      /\ \A r \in Players : session[r] # "in" => mem[r] = Absent
      /\ \A r \in Players : session[r] = "in" => Fits(r, mem[r], unseen, w)
  BY <1>1 DEF Drains, Good
<1>3. Wealth(w) \in Int
  BY <1>2, WealthIs
<1>4. Bound \in Int
  <2>1. Cardinality(Players) \in Nat
    BY FiniteAssumption, FS_CardinalityType
  <2> QED BY <2>1, GoldAssumption DEF Bound
<1> QED BY <1>1, <1>2, <1>3, <1>4

\* Nothing is taken out.
LEMMA ReadyNow ==
    ASSUME NEW w, NEW p, NEW m, NEW U, Fits(p, m, U, w)
    PROVE  /\ Ready(p, m.box, U, w, {}) /\ Taken(p, w, {}, Empty, Empty)
           /\ m.bag = {i \in w.alive : w.inv[i] = p} \cup {}
<1>1. /\ m.bag = {i \in w.alive : w.inv[i] = p}
      /\ \A id \in Ids : FitsMail(p, m.box, U, w, id)
  BY DEF Fits
<1>2. Ready(p, m.box, U, w, {})
  <2> SUFFICES ASSUME NEW id \in Ids
               PROVE  /\ m.box[id] = NoMail => (IsTo(w, id, p) => id \in U)
                      /\ m.box[id] # NoMail =>
                           /\ IsTo(w, id, p) /\ m.box[id].items = ItemsOf(w, id) \ {}
                           /\ m.box[id].state = "unchanged" =>
                                m.box[id].row.gold = w.row[id].gold /\ m.box[id].row.cod = w.row[id].cod
    BY DEF Ready
  <2> QED BY <1>1 DEF FitsMail
<1>3. Taken(p, w, {}, Empty, Empty)
  BY NoDomain DEF Taken
<1> QED BY <1>1, <1>2, <1>3

\* A save of what the player has costs nobody anything.
LEMMA SaveWealth ==
    ASSUME NEW w \in World, NEW p \in Players, NEW n, Fresh(n, w), n \in Nat, Whole(w),
           NEW m \in Memory, NEW U, Fits(p, m, U, w), 
           NEW t \in Entry, t = SaveAll(Only(p, m.gold), Empty, m, Empty, Empty),
           Sound(p, n, w, t), NEW v, v = Apply(w, t)
    PROVE  Wealth(v) <= Wealth(w)
<1>1. v \in World
  BY ApplyFacts
<1>2. ASSUME NEW r \in Players PROVE v.gold[r] = w.gold[r]
  <2>1. t.gold = Only(p, m.gold) /\ m.gold = w.gold[p]
    BY TxFacts DEF SaveAll, Fits
  <2>2. v.gold[r] = IF r \in DOMAIN t.gold THEN t.gold[r] ELSE w.gold[r]
    BY ApplyFacts
  <2>3. CASE r = p
    <3>1. r \in DOMAIN t.gold /\ t.gold[r] = m.gold
      BY <2>1, <2>3 DEF Only
    <3> QED BY <2>1, <2>2, <2>3, <3>1
  <2>4. CASE r # p
    <3>1. r \notin DOMAIN t.gold
      BY <2>1, <2>4 DEF Only
    <3> QED BY <2>2, <3>1
  <2> QED BY <2>3, <2>4
<1>3. ASSUME NEW id \in Ids PROVE Worth(v.row[id]) <= Worth(w.row[id])
  <2>1. id \notin DOMAIN Empty
    BY NoDomain
  <2>2. CASE id \notin InState(m, "changed")
    BY <2>1, <2>2, SaveWorth
  <2>3. CASE id \in InState(m, "changed")
    <3>1. Worth(v.row[id]) = m.box[id].row.gold /\ w.row[id] \in Row
      BY <2>1, <2>3, SaveWorth
    <3>2. m.box[id] # NoMail
      BY <2>3 DEF InState, NoMail
    <3>3. m.box[id].row.gold = w.row[id].gold
      BY <3>2 DEF Fits, FitsMail
    <3>4. Worth(w.row[id]) = w.row[id].gold /\ Worth(w.row[id]) \in Nat
      BY <3>1, WorthFacts
    <3> QED BY <3>1, <3>3, <3>4
  <2> QED BY <2>2, <2>3
<1> QED BY <1>1, <1>2, <1>3, WealthSame

LEMMA LogoutGood ==
    ASSUME TypeInv, NEW h, Drains(db, queue, h),
           Good(h, queue, session, answer, mem, nextId, unseen), NEW p \in Players, Logout(p)
    PROVE  \E g : /\ Drains(db', queue', g)
                  /\ Good(g, queue', session', answer', mem', nextId', unseen')
<1>1. PICK w, t, m : /\ w = h[Len(queue)] /\ m = mem[p]
                     /\ t = SaveTx(Only(p, mem[p].gold), mem[p])
  OBVIOUS
<1>2. PICK v, s2, m2, U2 : v = Apply(w, t) /\ s2 = session' /\ m2 = mem' /\ U2 = unseen'
  OBVIOUS
<1>3. /\ w \in World /\ Whole(w) /\ Fresh(nextId, w) /\ nextId \in Nat
      /\ Wealth(w) <= Bound /\ Wealth(w) \in Int /\ Bound \in Int
      /\ queue \in Seq(Entry) /\ mem \in [Players -> Memory]
      /\ \A r \in Players : session[r] # "in" => mem[r] = Absent
      /\ \A r \in Players : session[r] = "in" => Fits(r, mem[r], unseen, w)
  BY <1>1, NowFacts
<1>4. /\ queue' = Append(queue, t) /\ t \in Entry
      /\ session[p] = "in" /\ s2 = [session EXCEPT ![p] = "out"]
      /\ m2 = [mem EXCEPT ![p] = Absent]
      /\ U2 = {id \in unseen : ~IsTo(Future, id, p)}
      /\ UNCHANGED <<db, answer, nextId, raced>>
  BY <1>1, <1>2, LogoutFacts
<1>5. Future = w
  BY <1>1, <1>3, FutureIs
<1>6. t = SaveAll(Only(p, m.gold), Empty, m, Empty, Empty) /\ m \in Memory
  BY <1>1, <1>3 DEF SaveAll, SaveTx
<1>7. Fits(p, m, unseen, w)
  BY <1>1, <1>3, <1>4
<1>8. Sound(p, nextId, w, t)
  <2>1. DOMAIN Empty \subseteq {nextId}
    BY NoDomain
  <2>2. Ready(p, m.box, unseen, w, {}) /\ Taken(p, w, {}, Empty, Empty)
    BY <1>7, ReadyNow
  <2>3. DOMAIN Only(p, m.gold) \subseteq {p}
    BY OnlyFacts
  <2>4. PICK gold, none, D : gold = Only(p, m.gold) /\ none = Empty /\ D = {}
    OBVIOUS
  <2>5. Sound(p, nextId, w, SaveAll(gold, none, m, none, none))
    BY <1>3, <1>6, <2>1, <2>2, <2>3, <2>4, SaveSound
  <2> QED BY <1>6, <2>4, <2>5
<1>9. Wealth(v) <= Wealth(w) /\ v \in World /\ Wealth(v) \in Int
  <2>1. v \in World
    BY <1>2, <1>3, <1>4, ApplyFacts
  <2>2. Wealth(v) <= Wealth(w)
    BY <1>2, <1>3, <1>4, <1>6, <1>7, <1>8, SaveWealth
  <2> QED BY <2>1, <2>2, WealthIs
<1>10. Whole(v)
  BY <1>2, <1>3, <1>4, <1>8, WholeAfter
<1>11. t.loads = Nobody /\ DOMAIN t.ins = {}
  BY <1>6, TxFacts, NoDomain DEF SaveAll
<1>12. Fresh(nextId, v)
  BY <1>2, <1>3, <1>4, <1>8, <1>11, FreshAfter
<1>13. \A r \in Players : ~(nextId \in Ids /\ IsTo(v, nextId, r))
  BY <1>3, <1>12 DEF Fresh, IsTo
<1>14. ASSUME NEW r \in Players, r # p, NEW y, Fits(r, y, unseen, w) PROVE Fits(r, y, U2, v)
  <2>1. /\ FitsBut(r, y, unseen, v, nextId)
        /\ \A id \in Ids : id # nextId => (IsTo(v, id, r) <=> IsTo(w, id, r))
    BY <1>2, <1>3, <1>4, <1>8, <1>14, OthersFit
  <2>2. Fits(r, y, unseen, v)
    BY <1>13, <2>1, NewMail
  <2>3. \A id \in Ids : IsTo(v, id, r) /\ id \in unseen => id \in U2
    <3> SUFFICES ASSUME NEW id \in Ids, IsTo(v, id, r), id \in unseen PROVE id \in U2
      OBVIOUS
    <3>1. id # nextId
      BY <1>13
    <3>2. IsTo(w, id, r)
      BY <2>1, <3>1
    <3>3. ~IsTo(w, id, p)
      BY <1>14, <3>2 DEF IsTo
    <3> QED BY <1>4, <1>5, <3>3
  <2>4. \A id \in Ids : FitsMail(r, y.box, U2, v, id)
    BY <2>2, <2>3 DEF Fits, FitsMail
  <2> QED BY <2>2, <2>4 DEF Fits
<1>15. \A r \in Players : s2[r] = (IF r = p THEN "out" ELSE session[r]) /\ m2[r] = (IF r = p THEN Absent ELSE mem[r])
  BY <1>3, <1>4 DEF TypeInv
<1>16. Follows(session, unseen, t, w, v, s2, m2, U2)
  <2>1. \A r \in Players : s2[r] # "in" => m2[r] = Absent
    BY <1>3, <1>15
  <2>2. \A r \in Players : s2[r] = "in" => Fits(r, m2[r], U2, v)
    BY <1>3, <1>14, <1>15
  <2>3. \A r \in Players : session[r] = "loading" => s2[r] = "loading"
    BY <1>4, <1>15
  <2>4. \A r \in Players : t.loads # r
    BY <1>11, NobodyAssumption
  <2>5. \A r \in Players : s2[r] = "loading" => session[r] = "loading"
    BY <1>4, <1>15
  <2>6. \A r \in Players : session[r] = "loading" =>
          \A y : Fits(r, y, unseen, w) => Fits(r, y, U2, v)
    BY <1>4, <1>14
  <2> QED BY <2>1, <2>2, <2>3, <2>4, <2>5, <2>6 DEF Follows
<1>17. Wealth(v) <= Bound
  BY <1>3, <1>9
<1>18. \E g : /\ Drains(db, Append(queue, t), g)
              /\ Good(g, Append(queue, t), s2, answer, m2, nextId, U2)
  BY <1>1, <1>2, <1>3, <1>4, <1>10, <1>12, <1>16, <1>17, Extend
<1> QED BY <1>2, <1>4, <1>18

LEMMA WithGoldFacts ==
    ASSUME NEW m \in Memory, NEW id \in Ids, m.box[id] \in Letters, NEW g, g = WithGold(m, id)
    PROVE  /\ g.gold = m.gold + m.box[id].row.gold /\ g.bag = m.bag
           /\ g.box[id].items = m.box[id].items /\ g.box[id].state = "changed"
           /\ g.box[id].row.gold = 0 /\ g.box[id].row \in Row
           /\ \A k \in Ids \ {id} : g.box[k] = m.box[k]
<1>1. PICK a, z : a = m.box[id] /\ z = 0
  OBVIOUS
<1>2. PICK r : r = [a.row EXCEPT !.gold = z]
  OBVIOUS
<1>3. a.row \in Row /\ z \in Nat
  BY <1>1, LetterFacts
<1>4. r \in Row /\ r.gold = z
  BY <1>2, <1>3, RowExcept
<1>5. PICK b : b = Put(r, a.items, "changed")
  OBVIOUS
<1>6. g = Mem(m.gold + a.row.gold, m.bag, [m.box EXCEPT ![id] = b])
  BY <1>1, <1>2, <1>5 DEF WithGold
<1>7. g.gold = m.gold + a.row.gold /\ g.bag = m.bag /\ g.box = [m.box EXCEPT ![id] = b]
  BY <1>6, MemExcept
<1>8. g.box[id] = b /\ \A k \in Ids \ {id} : g.box[k] = m.box[k]
  BY <1>7, MemoryFacts
<1>9. b.row = r /\ b.items = a.items /\ b.state = "changed"
  BY <1>5, PutExcept
<1> QED BY <1>1, <1>4, <1>7, <1>8, <1>9

LEMMA WithItemFacts ==
    ASSUME NEW m \in Memory, NEW id \in Ids, m.box[id] \in Letters, NEW i,
           NEW g, g = WithItem(m, id, i)
    PROVE  /\ g.gold = m.gold - m.box[id].row.cod /\ g.bag = m.bag \cup {i}
           /\ g.box[id].items = m.box[id].items \ {i} /\ g.box[id].state = "changed"
           /\ g.box[id].row.gold = m.box[id].row.gold /\ g.box[id].row \in Row
           /\ \A k \in Ids \ {id} : g.box[k] = m.box[k]
<1>1. PICK a, z : a = m.box[id] /\ z = 0
  OBVIOUS
<1>2. PICK r : r = [a.row EXCEPT !.cod = z]
  OBVIOUS
<1>3. a.row \in Row /\ z \in Nat
  BY <1>1, LetterFacts
<1>4. r \in Row /\ r.gold = a.row.gold
  BY <1>2, <1>3, RowExcept
<1>5. PICK b : b = Put(r, a.items \ {i}, "changed")
  OBVIOUS
<1>6. g = Mem(m.gold - a.row.cod, m.bag \cup {i}, [m.box EXCEPT ![id] = b])
  BY <1>1, <1>2, <1>5 DEF WithItem
<1>7. g.gold = m.gold - a.row.cod /\ g.bag = m.bag \cup {i} /\ g.box = [m.box EXCEPT ![id] = b]
  BY <1>6, MemExcept
<1>8. g.box[id] = b /\ \A k \in Ids \ {id} : g.box[k] = m.box[k]
  BY <1>7, MemoryFacts
<1>9. b.row = r /\ b.items = a.items \ {i} /\ b.state = "changed"
  BY <1>5, PutExcept
<1> QED BY <1>1, <1>4, <1>7, <1>8, <1>9

\* A save of what fits but for one mail: what the others have, and the gold of
\* the other mails.
LEMMA SaveOthers ==
    ASSUME NEW w \in World, NEW p \in Players, NEW n, Fresh(n, w), n \in Nat,
           NEW m, NEW U, Fits(p, m, U, w), NEW id \in Ids,
           NEW x \in Memory, \A k \in Ids \ {id} : x.box[k] = m.box[k],
           NEW gold, NEW ins, NEW at, NEW inv,
           NEW t \in Entry, t = SaveAll(gold, ins, x, at, inv), Sound(p, n, w, t),
           NEW v, v = Apply(w, t)
    PROVE  /\ \A r \in Players \ {p} : v.gold[r] = w.gold[r]
           /\ \A k \in Ids \ {id} : k \notin DOMAIN ins => Worth(v.row[k]) <= Worth(w.row[k])
<1>1. ASSUME NEW r \in Players \ {p} PROVE v.gold[r] = w.gold[r]
  <2>1. r \notin DOMAIN t.gold
    BY DEF Sound
  <2> QED BY <2>1, ApplyFacts
<1>2. ASSUME NEW k \in Ids \ {id}, k \notin DOMAIN ins PROVE Worth(v.row[k]) <= Worth(w.row[k])
  <2>1. CASE k \notin InState(x, "changed")
    BY <1>2, <2>1, SaveWorth
  <2>2. CASE k \in InState(x, "changed")
    <3>1. Worth(v.row[k]) = x.box[k].row.gold /\ w.row[k] \in Row
      BY <1>2, <2>2, SaveWorth
    <3>2. m.box[k] # NoMail /\ x.box[k] = m.box[k]
      BY <1>2, <2>2 DEF InState, NoMail
    <3>3. m.box[k].row.gold = w.row[k].gold
      BY <3>2 DEF Fits, FitsMail
    <3>4. Worth(w.row[k]) = w.row[k].gold /\ Worth(w.row[k]) \in Nat
      BY <3>1, WorthFacts
    <3> QED BY <3>1, <3>2, <3>3, <3>4
  <2> QED BY <2>1, <2>2
<1> QED BY <1>1, <1>2

LEMMA TakeMoneyGood ==
    ASSUME TypeInv, NEW h, Drains(db, queue, h),
           Good(h, queue, session, answer, mem, nextId, unseen),
           NEW p \in Players, NEW id \in Ids, TakeMoney(p, id)
    PROVE  \E g : /\ Drains(db', queue', g)
                  /\ Good(g, queue', session', answer', mem', nextId', unseen')
<1>0. PICK x \in Memory :
             /\ x = WithGold(mem[p], id) /\ mem[p].box[id] \in Letters /\ session[p] = "in"
             /\ mem[p].box[id].state # "deleted"
             /\ queue' = Append(queue, SaveTx(Only(p, x.gold), x))
             /\ queue' \in Seq(Entry) /\ SaveTx(Only(p, x.gold), x) \in Entry
             /\ Saved(x) \in Memory /\ mem' = [mem EXCEPT ![p] = Saved(x)]
             /\ UNCHANGED <<db, session, answer, nextId, unseen, raced>>
  BY TakeMoneyFacts
<1>1. PICK w, m, y : w = h[Len(queue)] /\ m = mem[p] /\ y = Saved(x)
  OBVIOUS
<1>2. PICK gold, none, D : gold = Only(p, x.gold) /\ none = Empty /\ D = {}
  OBVIOUS
<1>3. PICK t : t = SaveAll(gold, none, x, none, none)
  OBVIOUS
<1>4. PICK v : v = Apply(w, t)
  OBVIOUS
<1>5. /\ w \in World /\ Whole(w) /\ Fresh(nextId, w) /\ nextId \in Nat
      /\ Wealth(w) <= Bound /\ Wealth(w) \in Int /\ Bound \in Int
      /\ mem \in [Players -> Memory] /\ Fits(p, m, unseen, w)
  BY <1>0, <1>1, NowFacts
<1>6. t \in Entry /\ queue' = Append(queue, t) /\ m \in Memory
  BY <1>0, <1>1, <1>2, <1>3, <1>5 DEF SaveAll, SaveTx
<1>7. /\ x.gold = m.gold + m.box[id].row.gold /\ x.bag = m.bag
      /\ x.box[id].items = m.box[id].items /\ x.box[id].state = "changed"
      /\ x.box[id].row.gold = 0 /\ x.box[id].row \in Row
      /\ \A k \in Ids \ {id} : x.box[k] = m.box[k]
  BY <1>0, <1>1, <1>6, WithGoldFacts
<1>8. /\ Ready(p, m.box, unseen, w, D) /\ Taken(p, w, D, none, none)
      /\ x.bag = {i \in w.alive : w.inv[i] = p} \cup D
  BY <1>2, <1>5, <1>7, ReadyNow
<1>9. m.box[id] # NoMail /\ x.box[id] # NoMail
  BY <1>0, <1>1, <1>7, MailIsThere DEF NoMail
<1>10. Ready(p, x.box, unseen, w, D)
  <2> SUFFICES ASSUME NEW k \in Ids
               PROVE  /\ x.box[k] = NoMail => (IsTo(w, k, p) => k \in unseen)
                      /\ x.box[k] # NoMail =>
                           /\ IsTo(w, k, p) /\ x.box[k].items = ItemsOf(w, k) \ D
                           /\ x.box[k].state = "unchanged" =>
                                x.box[k].row.gold = w.row[k].gold /\ x.box[k].row.cod = w.row[k].cod
    BY DEF Ready
  <2>1. CASE k = id
    BY <1>7, <1>8, <1>9, <2>1 DEF Ready
  <2>2. CASE k # id
    BY <1>7, <1>8, <2>2 DEF Ready
  <2> QED BY <2>1, <2>2
<1>11. DOMAIN none \subseteq {nextId} /\ DOMAIN none = {}
  BY <1>2, NoDomain
<1>12. Sound(p, nextId, w, t) /\ FitsBut(p, y, unseen, v, nextId)
  <2>1. t = SaveAll(Only(p, x.gold), none, x, none, none)
    BY <1>2, <1>3
  <2>2. Sound(p, nextId, w, t) /\ FitsBut(p, Saved(x), unseen, v, nextId)
    BY <1>4, <1>5, <1>6, <1>8, <1>10, <1>11, <2>1, SaveFits
  <2> QED BY <1>1, <2>2
<1>13. t.loads = Nobody /\ DOMAIN t.ins = {}
  BY <1>3, <1>11, TxFacts DEF SaveAll
<1>14. v \in World /\ Wealth(v) \in Int
  <2>1. v \in World
    BY <1>4, <1>5, <1>6, ApplyFacts
  <2> QED BY <2>1, WealthIs
<1>15. Wealth(v) <= Wealth(w)
  <2>1. /\ \A r \in Players \ {p} : v.gold[r] = w.gold[r]
        /\ \A k \in Ids \ {id} : k \notin DOMAIN none => Worth(v.row[k]) <= Worth(w.row[k])
    BY <1>3, <1>4, <1>5, <1>6, <1>7, <1>12, SaveOthers
  <2>2. id \in InState(x, "changed") /\ id \notin DOMAIN none
    BY <1>7, <1>11 DEF InState
  <2>3. Worth(v.row[id]) = 0 /\ w.row[id] \in Row
    BY <1>3, <1>4, <1>5, <1>6, <1>7, <1>12, <2>2, SaveWorth
  <2>4. v.gold[p] = m.gold + m.box[id].row.gold
    <3>1. y.gold = x.gold
      BY <1>1, SavedIs, MemExcept
    <3> QED BY <1>7, <1>12, <3>1 DEF FitsBut
  <2>5. m.gold = w.gold[p] /\ m.box[id].row.gold = w.row[id].gold
    BY <1>5, <1>9 DEF Fits, FitsMail
  <2>6. Worth(w.row[id]) = w.row[id].gold /\ w.gold[p] \in Nat /\ w.row[id].gold \in Nat
    BY <1>5, <2>3, WorthFacts, WorldFacts
  <2>7. v.gold[p] + Worth(v.row[id]) <= w.gold[p] + Worth(w.row[id])
    BY <2>3, <2>4, <2>5, <2>6
  <2>8. \A k \in Ids \ {id, id} : Worth(v.row[k]) <= Worth(w.row[k])
    BY <1>11, <2>1
  <2> QED BY <1>5, <1>14, <2>1, <2>7, <2>8, WealthStep
<1>16. Wealth(v) <= Bound
  BY <1>5, <1>14, <1>15
<1>17. mem' = [mem EXCEPT ![p] = y] /\ UNCHANGED <<db, session, answer, nextId, unseen>>
  BY <1>0, <1>1
<1>18. Plain(h, p, t, w, v, y)
  BY <1>0, <1>1, <1>4, <1>6, <1>12, <1>13, <1>16, <1>17 DEF Plain
<1> QED BY <1>6, <1>18, PlainStep

LEMMA TakeItemGood ==
    ASSUME TypeInv, NEW h, Drains(db, queue, h),
           Good(h, queue, session, answer, mem, nextId, unseen),
           NEW p \in Players, NEW id \in Ids, NEW i \in Items, TakeItem(p, id, i)
    PROVE  \E g : /\ Drains(db', queue', g)
                  /\ Good(g, queue', session', answer', mem', nextId', unseen')
<1>0. PICK x \in Memory :
             /\ x = WithItem(mem[p], id, i) /\ mem[p].box[id] \in Letters /\ session[p] = "in"
             /\ mem[p].box[id].state # "deleted" /\ i \in mem[p].box[id].items
             /\ mem[p].gold >= mem[p].box[id].row.cod
             /\ Saved(x) \in Memory /\ queue' \in Seq(Entry)
             /\ UNCHANGED <<db, session, answer, raced>>
             /\ \/ /\ mem[p].box[id].row.cod = 0
                   /\ queue' = Append(queue, TakeTx(p, x, Empty, i))
                   /\ TakeTx(p, x, Empty, i) \in Entry
                   /\ mem' = [mem EXCEPT ![p] = Saved(x)]
                   /\ UNCHANGED <<nextId, unseen>>
                \/ \E row \in Row :
                     /\ row.gold = mem[p].box[id].row.cod /\ row.has = FALSE /\ nextId \in Ids
                     /\ queue' = Append(queue, TakeTx(p, x, Only(nextId, row), i))
                     /\ TakeTx(p, x, Only(nextId, row), i) \in Entry
                     /\ mem' = Post([mem EXCEPT ![p] = Saved(x)], row, {})
                     /\ nextId' = nextId + 1 /\ unseen' = Unseen(row)
  BY TakeItemFacts
<1>1. PICK w, m, y : w = h[Len(queue)] /\ m = mem[p] /\ y = Saved(x)
  OBVIOUS
<1>2. PICK at, inv, D : at = Only(i, 0) /\ inv = Only(i, p) /\ D = {i}
  OBVIOUS
<1>5. /\ w \in World /\ Whole(w) /\ Fresh(nextId, w) /\ nextId \in Nat
      /\ Wealth(w) <= Bound /\ Wealth(w) \in Int /\ Bound \in Int
      /\ mem \in [Players -> Memory] /\ Fits(p, m, unseen, w) /\ m \in Memory
  BY <1>0, <1>1, NowFacts
<1>7. /\ x.gold = m.gold - m.box[id].row.cod /\ x.bag = m.bag \cup {i}
      /\ x.box[id].items = m.box[id].items \ {i} /\ x.box[id].state = "changed"
      /\ x.box[id].row.gold = m.box[id].row.gold /\ x.box[id].row \in Row
      /\ \A k \in Ids \ {id} : x.box[k] = m.box[k]
  BY <1>0, <1>1, <1>5, WithItemFacts
<1>8. /\ m.bag = {j \in w.alive : w.inv[j] = p}
      /\ \A k \in Ids : FitsMail(p, m.box, unseen, w, k)
  BY <1>5 DEF Fits
<1>9. m.box[id] # NoMail /\ x.box[id] # NoMail
  BY <1>0, <1>1, <1>7, MailIsThere DEF NoMail
<1>10. /\ IsTo(w, id, p) /\ m.box[id].items = ItemsOf(w, id)
       /\ m.box[id].row.gold = w.row[id].gold
  BY <1>8, <1>9 DEF FitsMail
<1>11. i \in w.alive /\ w.at[i] = id /\ w.at[i] # 0
  <2>1. i \in ItemsOf(w, id) /\ 0 \notin Ids
    BY <1>0, <1>1, <1>10 DEF Ids
  <2> QED BY <2>1 DEF ItemsOf
<1>12. Taken(p, w, D, at, inv)
  <2>1. /\ DOMAIN at = {i} /\ DOMAIN inv = {i} /\ at[i] = 0 /\ inv[i] = p
    BY <1>2, OnlyFacts
  <2>2. Owned(p, w, i)
    BY <1>10, <1>11 DEF Owned
  <2> QED BY <1>2, <1>11, <2>1, <2>2 DEF Taken
<1>13. x.bag = {j \in w.alive : w.inv[j] = p} \cup D
  BY <1>2, <1>7, <1>8
<1>14. Ready(p, x.box, unseen, w, D)
  <2> SUFFICES ASSUME NEW k \in Ids
               PROVE  /\ x.box[k] = NoMail => (IsTo(w, k, p) => k \in unseen)
                      /\ x.box[k] # NoMail =>
                           /\ IsTo(w, k, p) /\ x.box[k].items = ItemsOf(w, k) \ D
                           /\ x.box[k].state = "unchanged" =>
                                x.box[k].row.gold = w.row[k].gold /\ x.box[k].row.cod = w.row[k].cod
    BY DEF Ready
  <2>1. CASE k = id
    BY <1>2, <1>7, <1>9, <1>10, <2>1
  <2>2. CASE k # id
    <3>1. x.box[k] = m.box[k]
      BY <1>7, <2>2
    <3>2. i \notin ItemsOf(w, k)
      BY <1>11, <2>2 DEF ItemsOf
    <3>3. ItemsOf(w, k) \ D = ItemsOf(w, k)
      BY <1>2, <3>2
    <3>4. FitsMail(p, m.box, unseen, w, k)
      BY <1>8
    <3> QED BY <3>1, <3>3, <3>4 DEF FitsMail
  <2> QED BY <2>1, <2>2
<1>15. ASSUME NEW ins, DOMAIN ins \subseteq {nextId}, NEW t \in Entry, t = TakeTx(p, x, ins, i),
              NEW v, v = Apply(w, t)
       PROVE  /\ Sound(p, nextId, w, t) /\ FitsBut(p, y, unseen, v, nextId)
              /\ t.loads = Nobody /\ t.ins = ins /\ v \in World /\ Wealth(v) \in Int
              /\ \A r \in Players \ {p} : v.gold[r] = w.gold[r]
              /\ \A k \in Ids \ {id} : k \notin DOMAIN ins => Worth(v.row[k]) <= Worth(w.row[k])
              /\ id \notin DOMAIN ins => Worth(v.row[id]) = Worth(w.row[id]) /\ Worth(w.row[id]) \in Nat
              /\ v.gold[p] = w.gold[p] - m.box[id].row.cod
              /\ v.gold[p] \in Nat /\ w.gold[p] \in Nat
              /\ nextId \in Ids => ItemsOf(v, nextId) = {}
  <2>1. t = SaveAll(Only(p, x.gold), ins, x, at, inv)
    BY <1>2, <1>15 DEF SaveAll, TakeTx
  <2>2. Sound(p, nextId, w, t) /\ FitsBut(p, y, unseen, v, nextId)
    <3>1. Sound(p, nextId, w, t) /\ FitsBut(p, Saved(x), unseen, v, nextId)
      BY <1>5, <1>12, <1>13, <1>14, <1>15, <2>1, SaveFits
    <3> QED BY <1>1, <3>1
  <2>3. t.loads = Nobody /\ t.ins = ins /\ t.at = at
    BY <2>1, TxFacts DEF SaveAll
  <2>4. v \in World
    BY <1>5, <1>15, ApplyFacts
  <2>5. PICK gold : gold = Only(p, x.gold)
    OBVIOUS
  <2>6. t = SaveAll(gold, ins, x, at, inv)
    BY <2>1, <2>5
  <2>7. /\ \A r \in Players \ {p} : v.gold[r] = w.gold[r]
        /\ \A k \in Ids \ {id} : k \notin DOMAIN ins => Worth(v.row[k]) <= Worth(w.row[k])
    BY <1>5, <1>7, <1>15, <2>2, <2>6, SaveOthers
  <2>8. id \notin DOMAIN ins => Worth(v.row[id]) = Worth(w.row[id]) /\ Worth(w.row[id]) \in Nat
    <3> SUFFICES ASSUME id \notin DOMAIN ins
                 PROVE  Worth(v.row[id]) = Worth(w.row[id]) /\ Worth(w.row[id]) \in Nat
      OBVIOUS
    <3>1. id \in InState(x, "changed")
      BY <1>7 DEF InState
    <3>2. Worth(v.row[id]) = x.box[id].row.gold /\ w.row[id] \in Row
      BY <1>5, <1>15, <2>2, <2>6, <3>1, SaveWorth
    <3> QED BY <1>7, <1>10, <3>2, WorthFacts
  <2>9. v.gold[p] = w.gold[p] - m.box[id].row.cod /\ v.gold[p] \in Nat /\ w.gold[p] \in Nat
    <3>1. y.gold = x.gold
      BY <1>1, SavedIs, MemExcept
    <3>2. v.gold[p] = m.gold - m.box[id].row.cod
      BY <1>7, <2>2, <3>1 DEF FitsBut
    <3>3. m.gold = w.gold[p]
      BY <1>5 DEF Fits
    <3> QED BY <1>5, <2>4, <3>2, <3>3, WorldFacts
  <2>10. nextId \in Ids => ItemsOf(v, nextId) = {}
    <3> SUFFICES ASSUME nextId \in Ids PROVE ItemsOf(v, nextId) = {}
      OBVIOUS
    <3>1. ItemsOf(v, nextId) = {j \in DOMAIN t.at : t.at[j] = nextId}
      BY <1>5, <1>15, <2>2, OwnAfter
    <3>2. \A j \in DOMAIN at : at[j] = 0
      BY <1>12 DEF Taken
    <3>3. nextId # 0
      BY DEF Ids
    <3> QED BY <2>3, <3>1, <3>2, <3>3
  <2> QED BY <2>2, <2>3, <2>4, <2>7, <2>8, <2>9, <2>10, WealthIs
<1>16. /\ m.box[id].row.cod \in Nat
  BY <1>0, <1>1, LetterFacts, RowFacts
<1>17. CASE /\ mem[p].box[id].row.cod = 0
            /\ queue' = Append(queue, TakeTx(p, x, Empty, i))
            /\ TakeTx(p, x, Empty, i) \in Entry
            /\ mem' = [mem EXCEPT ![p] = Saved(x)]
            /\ UNCHANGED <<nextId, unseen>>
  <2>1. PICK none : none = Empty
    OBVIOUS
  <2>2. PICK t, v : t = TakeTx(p, x, none, i) /\ v = Apply(w, t)
    OBVIOUS
  <2>3. DOMAIN none = {} /\ t \in Entry /\ queue' = Append(queue, t)
    BY <1>17, <2>1, <2>2, NoDomain
  <2>4. /\ Sound(p, nextId, w, t) /\ FitsBut(p, y, unseen, v, nextId)
        /\ t.loads = Nobody /\ t.ins = none /\ v \in World /\ Wealth(v) \in Int
        /\ \A r \in Players \ {p} : v.gold[r] = w.gold[r]
        /\ \A k \in Ids \ {id} : k \notin DOMAIN none => Worth(v.row[k]) <= Worth(w.row[k])
        /\ id \notin DOMAIN none => Worth(v.row[id]) = Worth(w.row[id]) /\ Worth(w.row[id]) \in Nat
        /\ v.gold[p] = w.gold[p] - m.box[id].row.cod
        /\ v.gold[p] \in Nat /\ w.gold[p] \in Nat
    BY <1>15, <2>2, <2>3
  <2>5. Wealth(v) <= Wealth(w)
    <3>1. v.gold[p] = w.gold[p]
      BY <1>1, <1>17, <2>4
    <3>2. \A r \in Players : v.gold[r] = w.gold[r]
      BY <2>4, <3>1
    <3>3. \A k \in Ids : Worth(v.row[k]) <= Worth(w.row[k])
      BY <2>3, <2>4
    <3> QED BY <1>5, <2>4, <3>2, <3>3, WealthSame
  <2>6. Wealth(v) <= Bound
    BY <1>5, <2>4, <2>5
  <2>7. Plain(h, p, t, w, v, y)
    BY <1>0, <1>1, <1>17, <2>2, <2>3, <2>4, <2>6 DEF Plain
  <2> QED BY <2>3, <2>7, PlainStep
<1>18. ASSUME NEW row \in Row,
              /\ row.gold = mem[p].box[id].row.cod /\ row.has = FALSE /\ nextId \in Ids
              /\ queue' = Append(queue, TakeTx(p, x, Only(nextId, row), i))
              /\ TakeTx(p, x, Only(nextId, row), i) \in Entry
              /\ mem' = Post([mem EXCEPT ![p] = Saved(x)], row, {})
              /\ nextId' = nextId + 1 /\ unseen' = Unseen(row)
       PROVE  \E g : /\ Drains(db', queue', g)
                     /\ Good(g, queue', session', answer', mem', nextId', unseen')
  <2>1. PICK ins, items : ins = Only(nextId, row) /\ items = {}
    OBVIOUS
  <2>2. PICK t, v : t = TakeTx(p, x, ins, i) /\ v = Apply(w, t)
    OBVIOUS
  <2>3. /\ DOMAIN ins = {nextId} /\ nextId \in DOMAIN ins /\ ins[nextId] = row /\ t \in Entry
        /\ queue' = Append(queue, t)
    BY <1>18, <2>1, <2>2 DEF Only
  <2>4. /\ Sound(p, nextId, w, t) /\ FitsBut(p, y, unseen, v, nextId)
        /\ t.loads = Nobody /\ t.ins = ins /\ v \in World /\ Wealth(v) \in Int
        /\ \A r \in Players \ {p} : v.gold[r] = w.gold[r]
        /\ \A k \in Ids \ {id} : k \notin DOMAIN ins => Worth(v.row[k]) <= Worth(w.row[k])
        /\ id \notin DOMAIN ins => Worth(v.row[id]) = Worth(w.row[id]) /\ Worth(w.row[id]) \in Nat
        /\ v.gold[p] = w.gold[p] - m.box[id].row.cod
        /\ v.gold[p] \in Nat /\ w.gold[p] \in Nat
        /\ nextId \in Ids => ItemsOf(v, nextId) = {}
    BY <1>15, <2>2, <2>3
  <2>5. id # nextId
    BY <1>5, <1>10, <1>18 DEF Fresh, IsTo
  <2>6. Worth(w.row[nextId]) = 0 /\ Worth(v.row[nextId]) = m.box[id].row.cod
    <3>1. w.row[nextId] = NoRow
      BY <1>5, <1>18 DEF Fresh
    <3>2. v.row[nextId] = row
      <4>1. nextId \in DOMAIN t.ins /\ t.ins[nextId] = row
        BY <2>3, <2>4
      <4>2. t \in Entry /\ v = Apply(w, t) /\ Sound(p, nextId, w, t)
        BY <2>2, <2>3, <2>4
      <4>3. PICK n : n = nextId
        OBVIOUS
      <4>4. \A k \in DOMAIN t.ins : k = n /\ n \in Ids /\ v.row[n] = t.ins[n] /\ v.row[n] \in Row
        BY <1>5, <4>2, <4>3, RowsAfter
      <4> QED BY <4>1, <4>3, <4>4
    <3> QED BY <1>1, <1>18, <3>1, <3>2, WorthFacts
  <2>7. Wealth(v) <= Wealth(w)
    <3>1. \A k \in Ids \ {id, nextId} : Worth(v.row[k]) <= Worth(w.row[k])
      BY <2>3, <2>4
    <3>2. id \notin DOMAIN ins
      BY <2>3, <2>5
    <3>3. v.gold[p] + Worth(v.row[id]) + Worth(v.row[nextId])
            <= w.gold[p] + Worth(w.row[id]) + Worth(w.row[nextId])
      BY <1>16, <2>4, <2>6, <3>2
    <3> QED BY <1>5, <1>18, <2>4, <2>5, <3>1, <3>3, WealthStep
  <2>8. Wealth(v) <= Bound
    BY <1>5, <2>4, <2>7
  <2>9. Sends(h, p, t, w, v, y, row, items)
    BY <1>0, <1>1, <1>18, <2>1, <2>2, <2>3, <2>4, <2>8 DEF Sends
  <2>10. y \in Memory /\ items \in SUBSET Items
    BY <1>0, <1>1, <2>1
  <2> QED BY <2>3, <2>9, <2>10, PostStep
<1> QED BY <1>0, <1>17, <1>18

LEMMA SendGood ==
    ASSUME TypeInv,
           NEW p \in Players, NEW q \in Players, NEW gold \in Gold, NEW cod \in COD,
           NEW items \in SUBSET Items, SendMail(p, q, gold, cod, items)
    PROVE  \A h : Drains(db, queue, h) /\ Good(h, queue, session, answer, mem, nextId, unseen) =>
             \E g : /\ Drains(db', queue', g)
                    /\ Good(g, queue', session', answer', mem', nextId', unseen')
<1>0. PICK row \in Row, left \in Nat :
             /\ row.to = q /\ row.gold = gold /\ row.has = (items # {})
             /\ mem[p].gold = left + (gold + Postage)
             /\ session[p] = "in" /\ nextId \in Ids /\ items \subseteq mem[p].bag
             /\ queue' = Append(queue, SendTx(p, left, nextId, row, items))
             /\ queue' \in Seq(Entry) /\ SendTx(p, left, nextId, row, items) \in Entry
             /\ mem' = Post([mem EXCEPT ![p] = Spent(mem[p], left, items)], row, items)
             /\ nextId' = nextId + 1 /\ unseen' = Unseen(row)
             /\ UNCHANGED <<db, session, answer, raced>>
  BY SendFacts
<1> SUFFICES ASSUME NEW h, Drains(db, queue, h),
                    Good(h, queue, session, answer, mem, nextId, unseen)
             PROVE  \E g : /\ Drains(db', queue', g)
                           /\ Good(g, queue', session', answer', mem', nextId', unseen')
  OBVIOUS
<1>1. PICK w, m, n, y : /\ w = h[Len(queue)] /\ m = mem[p] /\ n = nextId
                        /\ y = Spent(mem[p], left, items)
  OBVIOUS
<1>2. PICK t : t = SendTx(p, left, n, row, items)
  OBVIOUS
<1>3. PICK v : v = Apply(w, t)
  OBVIOUS
<1>4. /\ w \in World /\ Whole(w) /\ Fresh(n, w) /\ n \in Nat /\ n \in Ids
      /\ Wealth(w) <= Bound /\ Wealth(w) \in Int /\ Bound \in Int
      /\ mem \in [Players -> Memory] /\ Fits(p, m, unseen, w) /\ m \in Memory
  BY <1>0, <1>1, NowFacts
<1>5. /\ t.gold = Only(p, left) /\ t.ins = Only(n, row) /\ t.upd = Empty /\ t.del = {}
      /\ t.at = [i \in items |-> n] /\ t.inv = [i \in items |-> Nobody]
      /\ t.destroy = {} /\ t.loads = Nobody /\ t \in Entry /\ queue' = Append(queue, t)
  BY <1>0, <1>1, <1>2, TxFacts DEF SendTx
<1>6. /\ DOMAIN t.gold = {p} /\ t.gold[p] = left /\ DOMAIN t.ins = {n} /\ t.ins[n] = row
      /\ DOMAIN t.upd = {}
      /\ DOMAIN t.at = items /\ (\A i \in items : t.at[i] = n)
      /\ DOMAIN t.inv = items /\ (\A i \in items : t.inv[i] = Nobody)
  BY <1>5, NoDomain DEF Only
<1>7. /\ m.gold = w.gold[p] /\ m.bag = {i \in w.alive : w.inv[i] = p}
      /\ \A id \in Ids : FitsMail(p, m.box, unseen, w, id)
  BY <1>4 DEF Fits
<1>8. \A i \in items : i \in w.alive /\ w.inv[i] = p
  BY <1>0, <1>1, <1>7
<1>9. Sound(p, n, w, t)
  <2>1. ASSUME NEW i \in items PROVE t.ins[n].has = TRUE
    <3>1. PICK yes : yes = (items # {})
      OBVIOUS
    <3>2. row.has = yes /\ yes = TRUE
      BY <1>0, <2>1, <3>1
    <3> QED BY <1>6, <3>2
  <2>2. \A i \in items : Owned(p, w, i)
    BY <1>8 DEF Owned
  <2>3. n # 0
    BY <1>4 DEF Ids
  <2> QED BY <1>5, <1>6, <1>8, <2>1, <2>2, <2>3 DEF Sound
<1>10. v \in World /\ Wealth(v) \in Int
  <2>1. v \in World
    BY <1>3, <1>4, <1>5, ApplyFacts
  <2> QED BY <2>1, WealthIs
<1>11. /\ \A i \in Items : v.inv[i] = p /\ i \in v.alive <=>
            IF i \in DOMAIN t.inv THEN t.inv[i] = p ELSE w.inv[i] = p /\ i \in w.alive
       /\ \A id \in Ids : id # n => (IsTo(v, id, p) <=> IsTo(w, id, p) /\ id \notin t.del)
       /\ \A id \in Ids : id # n /\ id \notin t.del =>
             ItemsOf(v, id) = {i \in ItemsOf(w, id) : i \notin DOMAIN t.at /\ i \notin t.destroy}
       /\ n \in Ids => ItemsOf(v, n) = {i \in DOMAIN t.at : t.at[i] = n}
  BY <1>3, <1>4, <1>5, <1>9, OwnAfter
<1>12. ItemsOf(v, n) = items
  BY <1>4, <1>6, <1>11
<1>13. /\ \A id \in DOMAIN t.ins : id = n /\ n \in Ids /\ v.row[n] = t.ins[n] /\ v.row[n] \in Row
       /\ \A id \in Ids : w.row[id] = NoRow /\ id \notin DOMAIN t.ins => v.row[id] = NoRow
       /\ \A id \in Ids : w.row[id] # NoRow /\ id \notin t.del =>
            (id \notin DOMAIN t.upd => v.row[id] = w.row[id])
  <2>1. /\ \A id \in DOMAIN t.ins : id = n /\ n \in Ids /\ v.row[n] = t.ins[n] /\ v.row[n] \in Row
        /\ \A id \in t.del : v.row[id] = NoRow
        /\ \A id \in Ids : w.row[id] = NoRow /\ id \notin DOMAIN t.ins => v.row[id] = NoRow
        /\ \A id \in Ids : w.row[id] # NoRow /\ id \notin t.del =>
             /\ v.row[id] \in Row /\ v.row[id].to = w.row[id].to
             /\ id \notin DOMAIN t.upd => v.row[id] = w.row[id]
             /\ id \in DOMAIN t.upd => /\ v.row[id].gold = t.upd[id].gold
                                       /\ v.row[id].cod = t.upd[id].cod
                                       /\ v.row[id].has = t.upd[id].has
    BY <1>3, <1>4, <1>5, <1>9, RowsAfter
  <2> QED BY <2>1
<1>14. /\ v.row[n] = row /\ w.row[n] = NoRow
       /\ \A id \in Ids : id # n => v.row[id] = w.row[id]
  BY <1>4, <1>5, <1>6, <1>13 DEF Fresh
<1>15. /\ \A r \in Players \ {p} : v.gold[r] = w.gold[r]
       /\ v.gold[p] = left
  <2>1. \A r \in Players : v.gold[r] = IF r \in DOMAIN t.gold THEN t.gold[r] ELSE w.gold[r]
    BY <1>3, <1>4, <1>5, ApplyFacts
  <2>2. \A r \in Players \ {p} : r \notin DOMAIN t.gold
    BY <1>6
  <2>3. p \in DOMAIN t.gold /\ t.gold[p] = left
    BY <1>6
  <2>4. \A r \in Players \ {p} : v.gold[r] = w.gold[r]
    BY <2>1, <2>2
  <2>5. v.gold[p] = left
    BY <2>1, <2>3
  <2> QED BY <2>4, <2>5
<1>16. y.gold = left /\ y.bag = m.bag \ items /\ y.box = m.box /\ y \in Memory
  <2>1. y = Spent(m, left, items)
    BY <1>1
  <2>2. y \in Memory
    BY <1>4, <2>1, SpentIs
  <2>3. PICK bag : bag = m.bag \ items
    OBVIOUS
  <2>4. y = Mem(left, bag, m.box)
    BY <2>1, <2>3 DEF Spent
  <2> QED BY <2>2, <2>3, <2>4, MemExcept
<1>17. FitsBut(p, y, unseen, v, n)
  <2>1. y.bag = {i \in v.alive : v.inv[i] = p}
    <3>1. \A i \in Items : v.inv[i] = p /\ i \in v.alive <=> i \in m.bag /\ i \notin items
      BY <1>6, <1>7, <1>11, NobodyAssumption
    <3>2. v.alive \subseteq Items /\ m.bag \subseteq Items
      BY <1>4, <1>10, WorldFacts, MemoryFacts
    <3> QED BY <1>16, <3>1, <3>2
  <2>2. ASSUME NEW id \in Ids, id = n PROVE y.box[id] = NoMail
    <3>1. ~IsTo(w, id, p)
      BY <1>14, <2>2 DEF IsTo
    <3>2. FitsMail(p, m.box, unseen, w, id)
      BY <1>7
    <3> QED BY <1>16, <3>1, <3>2 DEF FitsMail
  <2>3. ASSUME NEW id \in Ids, id # n PROVE FitsMail(p, y.box, unseen, v, id)
    <3>1. FitsMail(p, m.box, unseen, w, id)
      BY <1>7
    <3>2. IsTo(v, id, p) <=> IsTo(w, id, p)
      BY <1>5, <1>11, <2>3
    <3>3. ItemsOf(v, id) = ItemsOf(w, id)
      <4>1. ASSUME NEW i \in ItemsOf(w, id) PROVE i \notin items
        <5>1. i \in w.alive /\ w.at[i] = id /\ i \in Items
          BY <1>4, WorldFacts DEF ItemsOf
        <5>2. w.inv[i] = Nobody
          <6>1. id # 0
            BY DEF Ids
          <6> QED BY <1>4, <5>1, <6>1 DEF Whole
        <5> QED BY <1>8, <5>2, NobodyAssumption
      <4>2. ItemsOf(v, id) = {i \in ItemsOf(w, id) : i \notin items /\ i \notin {}}
        BY <1>5, <1>6, <1>11, <2>3
      <4> QED BY <4>1, <4>2
    <3>4. v.row[id] = w.row[id]
      BY <1>14, <2>3
    <3> QED BY <1>16, <3>1, <3>2, <3>3, <3>4 DEF FitsMail
  <2> QED BY <1>15, <1>16, <2>1, <2>2, <2>3 DEF FitsBut
<1>18. Wealth(v) <= Wealth(w)
  <2>1. gold \in Nat /\ Postage \in Nat
    BY GoldAssumption
  <2>2. Worth(v.row[n]) = gold /\ Worth(w.row[n]) = 0
    BY <1>0, <1>14, WorthFacts
  <2>3. v.gold[p] + Worth(v.row[n]) <= w.gold[p] + Worth(w.row[n])
    BY <1>0, <1>1, <1>7, <1>15, <2>1, <2>2
  <2>4. \A id \in Ids \ {n, n} : Worth(v.row[id]) <= Worth(w.row[id])
    <3> SUFFICES ASSUME NEW id \in Ids \ {n, n} PROVE Worth(v.row[id]) <= Worth(w.row[id])
      OBVIOUS
    <3>1. v.row[id] = w.row[id] /\ Worth(w.row[id]) \in Nat
      BY <1>4, <1>14, WorthFacts
    <3> QED BY <3>1
  <2> QED BY <1>4, <1>10, <1>15, <2>3, <2>4, WealthStep
<1>19. Wealth(v) <= Bound
  BY <1>4, <1>10, <1>18
<1>20. Sends(h, p, t, w, v, y, row, items)
  BY <1>0, <1>1, <1>3, <1>5, <1>9, <1>12, <1>17, <1>19 DEF Sends
<1> QED BY <1>5, <1>16, <1>20, PostStep

LEMMA BackGood ==
    ASSUME TypeInv, NEW p \in Players, NEW id \in Ids, ReturnToSender(p, id)
    PROVE  \A h : Drains(db, queue, h) /\ Good(h, queue, session, answer, mem, nextId, unseen) =>
             \E g : /\ Drains(db', queue', g)
                    /\ Good(g, queue', session', answer', mem', nextId', unseen')
<1>0. PICK row \in Row, items \in SUBSET Items :
             /\ mem[p].box[id] \in Letters
             /\ items = mem[p].box[id].items /\ row.gold = mem[p].box[id].row.gold
             /\ row.has = (items # {})
             /\ session[p] = "in" /\ nextId \in Ids
             /\ queue' = Append(queue, BackTx(id, nextId, row, items))
             /\ queue' \in Seq(Entry) /\ BackTx(id, nextId, row, items) \in Entry
             /\ mem' = Post([mem EXCEPT ![p] = Without(mem[p], id)], row, items)
             /\ nextId' = nextId + 1 /\ unseen' = Unseen(row)
             /\ UNCHANGED <<db, session, answer, raced>>
  BY BackFacts
<1> SUFFICES ASSUME NEW h, Drains(db, queue, h),
                    Good(h, queue, session, answer, mem, nextId, unseen)
             PROVE  \E g : /\ Drains(db', queue', g)
                           /\ Good(g, queue', session', answer', mem', nextId', unseen')
  OBVIOUS
<1>1. PICK w, m, n, y : /\ w = h[Len(queue)] /\ m = mem[p] /\ n = nextId
                        /\ y = Without(mem[p], id)
  OBVIOUS
<1>2. PICK t : t = BackTx(id, n, row, items)
  OBVIOUS
<1>3. PICK v : v = Apply(w, t)
  OBVIOUS
<1>4. /\ w \in World /\ Whole(w) /\ Fresh(n, w) /\ n \in Nat /\ n \in Ids
      /\ Wealth(w) <= Bound /\ Wealth(w) \in Int /\ Bound \in Int
      /\ mem \in [Players -> Memory] /\ Fits(p, m, unseen, w) /\ m \in Memory
  BY <1>0, <1>1, NowFacts
<1>5. /\ t.gold = Empty /\ t.ins = Only(n, row) /\ t.upd = Empty /\ t.del = {id}
      /\ t.at = [i \in items |-> n] /\ t.inv = Empty
      /\ t.destroy = {} /\ t.loads = Nobody /\ t \in Entry /\ queue' = Append(queue, t)
  BY <1>0, <1>1, <1>2, TxFacts DEF BackTx
<1>6. /\ DOMAIN t.gold = {} /\ DOMAIN t.ins = {n} /\ t.ins[n] = row
      /\ DOMAIN t.upd = {} /\ DOMAIN t.inv = {}
      /\ DOMAIN t.at = items /\ (\A i \in items : t.at[i] = n)
  BY <1>5, NoDomain DEF Only
<1>7. /\ m.gold = w.gold[p] /\ m.bag = {i \in w.alive : w.inv[i] = p}
      /\ \A k \in Ids : FitsMail(p, m.box, unseen, w, k)
  BY <1>4 DEF Fits
<1>8. /\ IsTo(w, id, p) /\ items = ItemsOf(w, id) /\ row.gold = w.row[id].gold
      /\ w.row[id] # NoRow /\ id # n /\ id # 0 /\ n # 0
  <2>1. m.box[id] # NoMail
    BY <1>0, <1>1, MailIsThere
  <2>2. FitsMail(p, m.box, unseen, w, id)
    BY <1>7
  <2>3. IsTo(w, id, p) /\ items = ItemsOf(w, id) /\ row.gold = w.row[id].gold
    BY <1>0, <1>1, <2>1, <2>2 DEF FitsMail
  <2>4. w.row[id] # NoRow
    BY <2>3 DEF IsTo
  <2>5. id # n
    BY <1>4, <2>4 DEF Fresh
  <2> QED BY <1>4, <2>3, <2>4, <2>5 DEF Ids
<1>9. \A i \in items : i \in w.alive /\ w.at[i] = id /\ w.inv[i] = Nobody /\ i \in Items
  <2> SUFFICES ASSUME NEW i \in items
               PROVE  i \in w.alive /\ w.at[i] = id /\ w.inv[i] = Nobody /\ i \in Items
    OBVIOUS
  <2>1. i \in w.alive /\ w.at[i] = id
    BY <1>8 DEF ItemsOf
  <2> QED BY <1>4, <1>8, <2>1 DEF Whole
<1>10. Sound(p, n, w, t)
  <2>1. ASSUME NEW i \in items PROVE t.ins[n].has = TRUE
    <3>1. PICK yes : yes = (items # {})
      OBVIOUS
    <3>2. row.has = yes /\ yes = TRUE
      BY <1>0, <2>1, <3>1
    <3> QED BY <1>6, <3>2
  <2>2. \A i \in items : Owned(p, w, i)
    BY <1>8, <1>9 DEF Owned
  <2>3. \A i \in w.alive : w.at[i] \in t.del => i \in items
    BY <1>5, <1>8 DEF ItemsOf
  <2> QED BY <1>5, <1>6, <1>8, <1>9, <2>1, <2>2, <2>3 DEF Sound
<1>11. v \in World /\ Wealth(v) \in Int
  <2>1. v \in World
    BY <1>3, <1>4, <1>5, ApplyFacts
  <2> QED BY <2>1, WealthIs
<1>12. /\ \A i \in Items : v.inv[i] = p /\ i \in v.alive <=>
            IF i \in DOMAIN t.inv THEN t.inv[i] = p ELSE w.inv[i] = p /\ i \in w.alive
       /\ \A k \in Ids : k # n => (IsTo(v, k, p) <=> IsTo(w, k, p) /\ k \notin t.del)
       /\ \A k \in Ids : k # n /\ k \notin t.del =>
             ItemsOf(v, k) = {i \in ItemsOf(w, k) : i \notin DOMAIN t.at /\ i \notin t.destroy}
       /\ n \in Ids => ItemsOf(v, n) = {i \in DOMAIN t.at : t.at[i] = n}
  BY <1>3, <1>4, <1>5, <1>10, OwnAfter
<1>13. ItemsOf(v, n) = items
  BY <1>4, <1>6, <1>12
<1>14. /\ v.row[n] = row /\ w.row[n] = NoRow /\ v.row[id] = NoRow
       /\ \A k \in Ids : k # n /\ k # id => v.row[k] = w.row[k]
  <2>1. /\ \A k \in DOMAIN t.ins : k = n /\ n \in Ids /\ v.row[n] = t.ins[n] /\ v.row[n] \in Row
        /\ \A k \in t.del : v.row[k] = NoRow
        /\ \A k \in Ids : w.row[k] = NoRow /\ k \notin DOMAIN t.ins => v.row[k] = NoRow
        /\ \A k \in Ids : w.row[k] # NoRow /\ k \notin t.del =>
             /\ v.row[k] \in Row /\ v.row[k].to = w.row[k].to
             /\ k \notin DOMAIN t.upd => v.row[k] = w.row[k]
             /\ k \in DOMAIN t.upd => /\ v.row[k].gold = t.upd[k].gold
                                      /\ v.row[k].cod = t.upd[k].cod
                                      /\ v.row[k].has = t.upd[k].has
    BY <1>3, <1>4, <1>5, <1>10, RowsAfter
  <2>2. w.row[n] = NoRow
    BY <1>4 DEF Fresh
  <2> QED BY <1>5, <1>6, <2>1, <2>2
<1>15. \A r \in Players : v.gold[r] = w.gold[r]
  <2>1. \A r \in Players : v.gold[r] = IF r \in DOMAIN t.gold THEN t.gold[r] ELSE w.gold[r]
    BY <1>3, <1>4, <1>5, ApplyFacts
  <2> QED BY <1>6, <2>1
<1>16. /\ y.gold = m.gold /\ y.bag = m.bag /\ y \in Memory
       /\ y.box[id] = NoMail /\ \A k \in Ids : k # id => y.box[k] = m.box[k]
  <2>1. y = Without(m, id)
    BY <1>1
  <2>2. y \in Memory
    BY <1>1, <1>4, WithoutIs
  <2>3. PICK x : x = [m.box EXCEPT ![id] = NoMail]
    OBVIOUS
  <2>4. y = Mem(m.gold, m.bag, x)
    BY <2>1, <2>3 DEF Without
  <2>5. y.gold = m.gold /\ y.bag = m.bag /\ y.box = x
    BY <2>4, MemExcept
  <2>6. x[id] = NoMail /\ \A k \in Ids : k # id => x[k] = m.box[k]
    BY <1>4, <2>3, MemoryFacts
  <2> QED BY <2>2, <2>5, <2>6
<1>17. FitsBut(p, y, unseen, v, n)
  <2>1. y.bag = {i \in v.alive : v.inv[i] = p}
    <3>1. \A i \in Items : v.inv[i] = p /\ i \in v.alive <=> i \in m.bag
      BY <1>6, <1>7, <1>12
    <3>2. v.alive \subseteq Items /\ m.bag \subseteq Items
      BY <1>4, <1>11, WorldFacts, MemoryFacts
    <3> QED BY <1>16, <3>1, <3>2
  <2>2. ASSUME NEW k \in Ids, k = n PROVE y.box[k] = NoMail
    <3>1. ~IsTo(w, k, p)
      BY <1>14, <2>2 DEF IsTo
    <3>2. FitsMail(p, m.box, unseen, w, k)
      BY <1>7
    <3> QED BY <1>8, <1>16, <2>2, <3>1, <3>2 DEF FitsMail
  <2>3. ASSUME NEW k \in Ids, k # n PROVE FitsMail(p, y.box, unseen, v, k)
    <3>1. CASE k = id
      <4>1. ~IsTo(v, k, p)
        BY <1>14, <3>1 DEF IsTo
      <4> QED BY <1>16, <3>1, <4>1 DEF FitsMail
    <3>2. CASE k # id
      <4>1. FitsMail(p, m.box, unseen, w, k)
        BY <1>7
      <4>2. IsTo(v, k, p) <=> IsTo(w, k, p)
        BY <1>5, <1>12, <2>3, <3>2
      <4>3. ItemsOf(v, k) = ItemsOf(w, k)
        <5>1. \A i \in ItemsOf(w, k) : i \notin items
          BY <1>9, <3>2 DEF ItemsOf
        <5>2. ItemsOf(v, k) = {i \in ItemsOf(w, k) : i \notin items /\ i \notin {}}
          BY <1>5, <1>6, <1>12, <2>3, <3>2
        <5> QED BY <5>1, <5>2
      <4>4. v.row[k] = w.row[k] /\ y.box[k] = m.box[k]
        BY <1>14, <1>16, <2>3, <3>2
      <4> QED BY <4>1, <4>2, <4>3, <4>4 DEF FitsMail
    <3> QED BY <3>1, <3>2
  <2>4. y.gold = v.gold[p]
    BY <1>7, <1>15, <1>16
  <2> QED BY <2>1, <2>2, <2>3, <2>4 DEF FitsBut
<1>18. Wealth(v) <= Wealth(w)
  <2>1. w.row[id] \in Row
    BY <1>4, <1>8, WorldFacts
  <2>2. /\ Worth(v.row[n]) = row.gold /\ Worth(w.row[n]) = 0
        /\ Worth(v.row[id]) = 0 /\ Worth(w.row[id]) = row.gold /\ row.gold \in Nat
    BY <1>8, <1>14, <2>1, WorthFacts, RowFacts
  <2>3. v.gold[p] = w.gold[p] /\ w.gold[p] \in Nat
    BY <1>4, <1>15, WorldFacts
  <2>4. v.gold[p] + Worth(v.row[id]) + Worth(v.row[n])
          <= w.gold[p] + Worth(w.row[id]) + Worth(w.row[n])
    BY <2>2, <2>3
  <2>5. \A k \in Ids \ {id, n} : Worth(v.row[k]) <= Worth(w.row[k])
    <3> SUFFICES ASSUME NEW k \in Ids \ {id, n} PROVE Worth(v.row[k]) <= Worth(w.row[k])
      OBVIOUS
    <3>1. v.row[k] = w.row[k] /\ Worth(w.row[k]) \in Nat
      BY <1>4, <1>14, WorthFacts
    <3> QED BY <3>1
  <2>6. \A r \in Players \ {p} : v.gold[r] = w.gold[r]
    BY <1>15
  <2> QED BY <1>4, <1>8, <1>11, <2>4, <2>5, <2>6, WealthStep
<1>19. Wealth(v) <= Bound
  BY <1>4, <1>11, <1>18
<1>20. Sends(h, p, t, w, v, y, row, items)
  BY <1>0, <1>1, <1>3, <1>5, <1>10, <1>13, <1>17, <1>19 DEF Sends
<1> QED BY <1>5, <1>16, <1>20, PostStep

\* What is read of a player fits what it is read from.
LEMMA LoadFits ==
    ASSUME NEW w \in World, NEW p \in Players, NEW U
    PROVE  Fits(p, Load(w, p), U, w)
<1>1. PICK l : l = Load(w, p)
  OBVIOUS
<1>2. /\ l.gold = w.gold[p] /\ l.bag = {i \in w.alive : w.inv[i] = p}
      /\ \A id \in Ids :
           /\ ~IsTo(w, id, p) => l.box[id] = NoMail
           /\ IsTo(w, id, p) => /\ l.box[id] = Put(w.row[id], ItemsOf(w, id), "unchanged")
                                /\ l.box[id] \in Letters
  BY <1>1, LoadFacts
<1>3. ASSUME NEW id \in Ids PROVE FitsMail(p, l.box, U, w, id)
  <2>1. CASE IsTo(w, id, p)
    <3>1. PICK items : items = ItemsOf(w, id)
      OBVIOUS
    <3>2. l.box[id] = Put(w.row[id], items, "unchanged") /\ l.box[id] # NoMail
      BY <1>2, <2>1, <3>1, MailIsThere
    <3>3. l.box[id].row = w.row[id] /\ l.box[id].items = items
      BY <3>2, PutExcept
    <3> QED BY <2>1, <3>1, <3>2, <3>3 DEF FitsMail
  <2>2. CASE ~IsTo(w, id, p)
    BY <1>2, <2>2 DEF FitsMail
  <2> QED BY <2>1, <2>2
<1> QED BY <1>1, <1>2, <1>3 DEF Fits

LEMMA LoadChanges ==
    ASSUME NEW w \in World, NEW p \in Players
    PROVE  Apply(w, LoadTx(p)) = w
<1>1. PICK t, v : t = LoadTx(p) /\ v = Apply(w, t)
  OBVIOUS
<1>2. /\ t.gold = Empty /\ t.ins = Empty /\ t.upd = Empty /\ t.del = {} /\ t.at = Empty
      /\ t.inv = Empty /\ t.destroy = {} /\ t \in Entry
  BY <1>1, TxFacts, LoadTxType DEF LoadTx
<1>3. /\ v \in World
      /\ \A r \in Players : v.gold[r] = IF r \in DOMAIN t.gold THEN t.gold[r] ELSE w.gold[r]
      /\ \A id \in Ids : v.row[id] = RowAfter(w, t, id)
  BY <1>1, <1>2, ApplyFacts
<1>4. /\ \A r \in Players : v.gold[r] = w.gold[r]
      /\ \A i \in Items : v.at[i] = w.at[i] /\ v.inv[i] = w.inv[i]
      /\ v.alive = w.alive
  <2>1. /\ v.alive = w.alive \ t.destroy
        /\ \A i \in Items :
             /\ i \in DOMAIN t.at => v.at[i] = t.at[i]
             /\ i \notin DOMAIN t.at /\ w.at[i] \in t.del => v.at[i] = 0
             /\ i \notin DOMAIN t.at /\ w.at[i] \notin t.del => v.at[i] = w.at[i]
             /\ i \in DOMAIN t.inv => v.inv[i] = t.inv[i]
             /\ i \notin DOMAIN t.inv => v.inv[i] = w.inv[i]
             /\ w.at[i] \in Ids \cup {0} /\ w.inv[i] \in Players \cup {Nobody}
    <3>1. t \in Entry /\ v = Apply(w, t)
      BY <1>1, <1>2
    <3> QED BY <3>1, ItemsAfter
  <2> QED BY <1>2, <1>3, <2>1, NoDomain
<1>5. \A id \in Ids : v.row[id] = w.row[id]
  BY <1>2, <1>3, NoDomain DEF RowAfter
<1>6. /\ w.gold \in [Players -> Nat] /\ w.row \in [Ids -> Row \cup {NoRow}]
      /\ w.at \in [Items -> Ids \cup {0}] /\ w.inv \in [Items -> Players \cup {Nobody}]
      /\ v.gold \in [Players -> Nat] /\ v.row \in [Ids -> Row \cup {NoRow}]
      /\ v.at \in [Items -> Ids \cup {0}] /\ v.inv \in [Items -> Players \cup {Nobody}]
  BY <1>3, WorldFacts
<1>7. v.gold = w.gold
  BY <1>4, <1>6
<1>8. v.row = w.row
  BY <1>5, <1>6
<1>9. v.at = w.at
  BY <1>4, <1>6
<1>10. v.inv = w.inv
  BY <1>4, <1>6
<1>11. v = w
  BY <1>3, <1>4, <1>7, <1>8, <1>9, <1>10 DEF World
<1> QED BY <1>1, <1>11

LEMMA LoginGood ==
    ASSUME TypeInv, NEW p \in Players, Login(p)
    PROVE  \A h : Drains(db, queue, h) /\ Good(h, queue, session, answer, mem, nextId, unseen) =>
             \E g : /\ Drains(db', queue', g)
                    /\ Good(g, queue', session', answer', mem', nextId', unseen')
<1> SUFFICES ASSUME NEW h, Drains(db, queue, h),
                    Good(h, queue, session, answer, mem, nextId, unseen)
             PROVE  \E g : /\ Drains(db', queue', g)
                           /\ Good(g, queue', session', answer', mem', nextId', unseen')
  OBVIOUS
<1>1. PICK w, t, s2 : w = h[Len(queue)] /\ t = LoadTx(p) /\ s2 = session'
  OBVIOUS
<1>2. /\ w \in World /\ Whole(w) /\ Fresh(nextId, w) /\ nextId \in Nat
      /\ Wealth(w) <= Bound /\ queue \in Seq(Entry)
      /\ \A r \in Players : session[r] # "in" => mem[r] = Absent
      /\ \A r \in Players : session[r] = "in" => Fits(r, mem[r], unseen, w)
  BY <1>1, NowFacts
<1>3. /\ queue' = Append(queue, t) /\ session[p] = "out"
      /\ s2 = [session EXCEPT ![p] = "loading"]
      /\ UNCHANGED <<db, answer, mem, nextId, unseen, raced>>
  BY <1>1, LoginFacts
<1>4. PICK v : v = Apply(w, t)
  OBVIOUS
<1>5. v = w /\ t \in Entry /\ t.loads = p
  BY <1>1, <1>2, <1>4, LoadChanges, LoadTxType, TxFacts DEF LoadTx
<1>6. Fits(p, Load(w, p), unseen, v)
  BY <1>2, <1>5, LoadFits
<1>7. \A r \in Players : s2[r] = IF r = p THEN "loading" ELSE session[r]
  BY <1>3 DEF TypeInv
<1>8. Follows(session, unseen, t, w, v, s2, mem, unseen)
  <2>1. \A r \in Players : s2[r] # "in" => mem[r] = Absent
    BY <1>2, <1>3, <1>7
  <2>2. \A r \in Players : s2[r] = "in" => Fits(r, mem[r], unseen, v)
    BY <1>2, <1>5, <1>7
  <2>3. \A r \in Players : session[r] = "loading" => s2[r] = "loading"
    BY <1>7
  <2>4. \A r \in Players : t.loads = r =>
          session[r] # "loading" /\ s2[r] = "loading" /\ Fits(r, Load(w, r), unseen, v)
    BY <1>3, <1>5, <1>6, <1>7
  <2>5. \A r \in Players : t.loads # r /\ s2[r] = "loading" => session[r] = "loading"
    BY <1>5, <1>7
  <2>6. \A r \in Players : session[r] = "loading" =>
          \A y : Fits(r, y, unseen, w) => Fits(r, y, unseen, v)
    BY <1>5
  <2> QED BY <2>1, <2>2, <2>3, <2>4, <2>5, <2>6 DEF Follows
<1>9. Whole(v) /\ Wealth(v) <= Bound /\ Fresh(nextId, v)
  BY <1>2, <1>5
<1>10. \E g : /\ Drains(db, Append(queue, t), g)
              /\ Good(g, Append(queue, t), s2, answer, mem, nextId, unseen)
  <2>1. PICK m2, U2, n2 : m2 = mem /\ U2 = unseen /\ n2 = nextId
    OBVIOUS
  <2>2. Follows(session, unseen, t, w, v, s2, m2, U2) /\ Fresh(n2, v)
    BY <1>8, <1>9, <2>1
  <2>3. \E g : /\ Drains(db, Append(queue, t), g)
               /\ Good(g, Append(queue, t), s2, answer, m2, n2, U2)
    <3>1. /\ t \in Entry /\ v = Apply(w, t) /\ w = h[Len(queue)] /\ queue \in Seq(Entry)
          /\ Whole(v) /\ Wealth(v) <= Bound
      BY <1>1, <1>2, <1>4, <1>5, <1>9
    <3> QED BY <2>2, <3>1, Extend
  <2> QED BY <2>1, <2>3
<1> QED BY <1>1, <1>3, <1>10

LEMMA EnterGood ==
    ASSUME TypeInv, NEW p \in Players, EnterWorld(p)
    PROVE  \A h : Drains(db, queue, h) /\ Good(h, queue, session, answer, mem, nextId, unseen) =>
             \E g : /\ Drains(db', queue', g)
                    /\ Good(g, queue', session', answer', mem', nextId', unseen')
<1> SUFFICES ASSUME NEW h, Drains(db, queue, h),
                    Good(h, queue, session, answer, mem, nextId, unseen)
             PROVE  Good(h, queue, session', answer', mem', nextId, unseen)
  BY EnterFacts
<1>1. /\ session[p] = "loading" /\ \A k \in 1 .. Len(queue) : queue[k].loads # p
      /\ session' = [session EXCEPT ![p] = "in"]
      /\ mem' = [mem EXCEPT ![p] = answer[p]]
      /\ answer' = [answer EXCEPT ![p] = Absent]
  BY EnterFacts
<1>2. PICK s2, m2, a2 : s2 = session' /\ m2 = mem' /\ a2 = answer'
  OBVIOUS
<1>3. \A r \in Players : /\ s2[r] = IF r = p THEN "in" ELSE session[r]
                         /\ m2[r] = IF r = p THEN answer[p] ELSE mem[r]
                         /\ a2[r] = IF r = p THEN Absent ELSE answer[r]
  BY <1>1, <1>2 DEF TypeInv
<1>4. PICK w : w = h[Len(queue)]
  OBVIOUS
<1>5. /\ \A k \in 0 .. Len(queue) : Whole(h[k]) /\ Wealth(h[k]) <= Bound
      /\ Fresh(nextId, w)
      /\ \A r \in Players : session[r] # "in" => mem[r] = Absent
      /\ \A r \in Players : session[r] = "in" => Fits(r, mem[r], unseen, w)
      /\ \A r \in Players : \A k \in 1 .. Len(queue) : queue[k].loads = r =>
           /\ session[r] = "loading" /\ Fits(r, Load(h[k - 1], r), unseen, w)
           /\ \A j \in 1 .. Len(queue) : queue[j].loads = r => j = k
      /\ \A r \in Players : session[r] = "loading" /\ (\A k \in 1 .. Len(queue) : queue[k].loads # r) =>
           Fits(r, answer[r], unseen, w)
  BY <1>4 DEF Good
<1>6. Fits(p, answer[p], unseen, w)
  BY <1>1, <1>5
<1>7. \A r \in Players : s2[r] # "in" => m2[r] = Absent
  BY <1>3, <1>5
<1>8. \A r \in Players : s2[r] = "in" => Fits(r, m2[r], unseen, w)
  BY <1>3, <1>5, <1>6
<1>9. \A r \in Players : \A k \in 1 .. Len(queue) : queue[k].loads = r =>
        /\ s2[r] = "loading" /\ Fits(r, Load(h[k - 1], r), unseen, w)
        /\ \A j \in 1 .. Len(queue) : queue[j].loads = r => j = k
  BY <1>1, <1>3, <1>5
<1>10. \A r \in Players : s2[r] = "loading" /\ (\A k \in 1 .. Len(queue) : queue[k].loads # r) =>
         Fits(r, a2[r], unseen, w)
  BY <1>3, <1>5
<1>11. Good(h, queue, s2, a2, m2, nextId, unseen)
  BY <1>4, <1>5, <1>7, <1>8, <1>9, <1>10 DEF Good
<1> QED BY <1>2, <1>11

\* What is saved later, with the character, leaves everything as it was.
LEMMA KeptGood ==
    ASSUME TypeInv, NEW h, Drains(db, queue, h),
           Good(h, queue, session, answer, mem, nextId, unseen),
           NEW p \in Players, session[p] = "in", NEW id \in Ids, mem[p].box[id] \in Letters,
           NEW a \in Letters, a.items = mem[p].box[id].items,
           a.row.gold = mem[p].box[id].row.gold, a.row.cod = mem[p].box[id].row.cod,
           NEW f, f = [mem EXCEPT ![p] = Mem(mem[p].gold, mem[p].bag, [mem[p].box EXCEPT ![id] = a])]
    PROVE  Good(h, queue, session, answer, f, nextId, unseen)
<1>1. PICK w, m, x : w = h[Len(queue)] /\ m = mem[p] /\ x = [mem[p].box EXCEPT ![id] = a]
  OBVIOUS
<1>2. PICK y : y = Mem(m.gold, m.bag, x)
  OBVIOUS
<1>3. /\ mem \in [Players -> Memory] /\ Fits(p, m, unseen, w) /\ m \in Memory
      /\ \A r \in Players : session[r] # "in" => mem[r] = Absent
      /\ \A r \in Players : session[r] = "in" => Fits(r, mem[r], unseen, w)
  BY <1>1, NowFacts
<1>4. \A r \in Players : f[r] = IF r = p THEN y ELSE mem[r]
  BY <1>1, <1>2, <1>3
<1>5. y.gold = m.gold /\ y.bag = m.bag /\ y.box = x
  BY <1>2, MemExcept
<1>6. x[id] = a /\ \A k \in Ids : k # id => x[k] = m.box[k]
  BY <1>1, <1>3, MemoryFacts
<1>7. /\ m.gold = w.gold[p] /\ m.bag = {i \in w.alive : w.inv[i] = p}
      /\ \A k \in Ids : FitsMail(p, m.box, unseen, w, k)
  BY <1>3 DEF Fits
<1>8. a # NoMail /\ m.box[id] # NoMail
  BY <1>1, MailIsThere
<1>9. ASSUME NEW k \in Ids PROVE FitsMail(p, x, unseen, w, k)
  <2>1. FitsMail(p, m.box, unseen, w, k)
    BY <1>7
  <2>2. CASE k = id
    BY <1>1, <1>6, <1>8, <2>1, <2>2 DEF FitsMail
  <2>3. CASE k # id
    BY <1>6, <2>1, <2>3 DEF FitsMail
  <2> QED BY <2>2, <2>3
<1>10. Fits(p, y, unseen, w)
  BY <1>5, <1>7, <1>9 DEF Fits
<1>11. /\ \A r \in Players : session[r] # "in" => f[r] = Absent
       /\ \A r \in Players : session[r] = "in" => Fits(r, f[r], unseen, w)
  BY <1>3, <1>4, <1>10
<1> QED BY <1>1, <1>11 DEF Good

LEMMA MarkGood ==
    ASSUME TypeInv, NEW p \in Players, NEW id \in Ids, MarkAsRead(p, id)
    PROVE  \A h : Drains(db, queue, h) /\ Good(h, queue, session, answer, mem, nextId, unseen) =>
             \E g : /\ Drains(db', queue', g)
                    /\ Good(g, queue', session', answer', mem', nextId', unseen')
<1>1. /\ session[p] = "in" /\ mem[p].box[id] \in Letters
      /\ mem' = [mem EXCEPT ![p] = Marked(mem[p], id)] /\ Marked(mem[p], id) \in Memory
      /\ UNCHANGED <<db, queue, session, answer, nextId, unseen, raced>>
  BY MarkFacts
<1> SUFFICES ASSUME NEW h, Drains(db, queue, h),
                    Good(h, queue, session, answer, mem, nextId, unseen)
             PROVE  Good(h, queue, session, answer, mem', nextId, unseen)
  BY <1>1
<1>2. PICK b, yes : b = mem[p].box[id] /\ yes = TRUE
  OBVIOUS
<1>3. PICK r : r = [b.row EXCEPT !.read = yes]
  OBVIOUS
<1>4. b.row \in Row /\ b.items \in SUBSET Items /\ yes \in BOOLEAN
  BY <1>1, <1>2, LetterFacts
<1>5. r \in Row /\ r.gold = b.row.gold /\ r.cod = b.row.cod
  <2>1. PICK c : c = b.row
    OBVIOUS
  <2>2. c \in Row /\ r = [c EXCEPT !.read = yes]
    BY <1>3, <1>4, <2>1
  <2>3. r \in Row
    BY <1>4, <2>2 DEF Row
  <2>4. r.gold = c.gold /\ r.cod = c.cod
    BY <2>2 DEF Row
  <2> QED BY <2>1, <2>3, <2>4
<1>6. PICK a : a = Put(r, b.items, "changed")
  OBVIOUS
<1>7. a \in Letters
  BY <1>4, <1>5, <1>6, IsLetter
<1>8. a.row = r /\ a.items = b.items
  BY <1>6, PutExcept
<1>9. PICK x : x = [mem[p].box EXCEPT ![id] = a]
  OBVIOUS
<1>10. Marked(mem[p], id) = Mem(mem[p].gold, mem[p].bag, x)
  BY <1>2, <1>3, <1>6, <1>9 DEF Marked
<1>11. PICK f : f = mem'
  OBVIOUS
<1>12. f = [mem EXCEPT ![p] = Mem(mem[p].gold, mem[p].bag, [mem[p].box EXCEPT ![id] = a])]
  BY <1>1, <1>9, <1>10, <1>11
<1>13. a.items = mem[p].box[id].items /\ a.row.gold = mem[p].box[id].row.gold
       /\ a.row.cod = mem[p].box[id].row.cod
  BY <1>2, <1>5, <1>8
<1>14. Good(h, queue, session, answer, f, nextId, unseen)
  BY <1>1, <1>7, <1>12, <1>13, KeptGood
<1> QED BY <1>11, <1>14

LEMMA DeleteGood ==
    ASSUME TypeInv, NEW p \in Players, NEW id \in Ids, Delete(p, id)
    PROVE  \A h : Drains(db, queue, h) /\ Good(h, queue, session, answer, mem, nextId, unseen) =>
             \E g : /\ Drains(db', queue', g)
                    /\ Good(g, queue', session', answer', mem', nextId', unseen')
<1>1. /\ session[p] = "in" /\ mem[p].box[id] \in Letters
      /\ mem' = [mem EXCEPT ![p] = Dropped(mem[p], id)] /\ Dropped(mem[p], id) \in Memory
      /\ UNCHANGED <<db, queue, session, answer, nextId, unseen, raced>>
  BY DeleteFacts
<1> SUFFICES ASSUME NEW h, Drains(db, queue, h),
                    Good(h, queue, session, answer, mem, nextId, unseen)
             PROVE  Good(h, queue, session, answer, mem', nextId, unseen)
  BY <1>1
<1>2. PICK b : b = mem[p].box[id]
  OBVIOUS
<1>3. b.row \in Row /\ b.items \in SUBSET Items
  BY <1>1, <1>2, LetterFacts
<1>4. PICK a : a = Put(b.row, b.items, "deleted")
  OBVIOUS
<1>5. a \in Letters
  BY <1>3, <1>4, IsLetter
<1>6. a.row = b.row /\ a.items = b.items
  BY <1>4, PutExcept
<1>7. PICK x : x = [mem[p].box EXCEPT ![id] = a]
  OBVIOUS
<1>8. Dropped(mem[p], id) = Mem(mem[p].gold, mem[p].bag, x)
  BY <1>2, <1>4, <1>7 DEF Dropped
<1>9. PICK f : f = mem'
  OBVIOUS
<1>10. f = [mem EXCEPT ![p] = Mem(mem[p].gold, mem[p].bag, [mem[p].box EXCEPT ![id] = a])]
  BY <1>1, <1>7, <1>8, <1>9
<1>11. a.items = mem[p].box[id].items /\ a.row.gold = mem[p].box[id].row.gold
       /\ a.row.cod = mem[p].box[id].row.cod
  BY <1>2, <1>6
<1>12. Good(h, queue, session, answer, f, nextId, unseen)
  BY <1>1, <1>5, <1>10, <1>11, KeptGood
<1> QED BY <1>9, <1>12

LEMMA ExecuteGood ==
    ASSUME TypeInv, Execute
    PROVE  \A h : Drains(db, queue, h) /\ Good(h, queue, session, answer, mem, nextId, unseen) =>
             \E g : /\ Drains(db', queue', g)
                    /\ Good(g, queue', session', answer', mem', nextId', unseen')
<1>1. PICK t \in Entry :
             /\ queue # <<>> /\ t = queue[1] /\ t = Head(queue)
             /\ db' = Apply(db, t) /\ db' \in World
             /\ queue' = Tail(queue) /\ queue' \in Seq(Entry)
             /\ answer' \in [Players -> Memory]
             /\ \A p \in Players : answer'[p] = IF t.loads = p THEN Load(db, p) ELSE answer[p]
             /\ UNCHANGED <<session, mem, nextId, unseen, raced>>
  BY ExecuteFacts
<1> SUFFICES ASSUME NEW h, Drains(db, queue, h),
                    Good(h, queue, session, answer, mem, nextId, unseen)
             PROVE  \E g : /\ Drains(db', queue', g)
                           /\ Good(g, queue', session, answer', mem, nextId, unseen)
  BY <1>1
<1>2. PICK a2 : a2 = answer'
  OBVIOUS
<1>3. /\ queue \in Seq(Entry) /\ queue # <<>>
      /\ \A p \in Players : a2[p] = IF queue[1].loads = p THEN Load(db, p) ELSE answer[p]
  BY <1>1, <1>2 DEF TypeInv
<1>4. \E g : /\ Drains(Apply(db, queue[1]), Tail(queue), g)
             /\ Good(g, Tail(queue), session, a2, mem, nextId, unseen)
  BY <1>3, Shift
<1> QED BY <1>1, <1>2, <1>4

LEMMA CrashGood ==
    ASSUME TypeInv, Crash
    PROVE  \A h : Drains(db, queue, h) /\ Good(h, queue, session, answer, mem, nextId, unseen) =>
             \E g : /\ Drains(db', queue', g)
                    /\ Good(g, queue', session', answer', mem', nextId', unseen')
<1> SUFFICES ASSUME NEW h, Drains(db, queue, h),
                    Good(h, queue, session, answer, mem, nextId, unseen)
             PROVE  \E g : /\ Drains(db', queue', g)
                           /\ Good(g, queue', session', answer', mem', nextId', unseen')
  OBVIOUS
<1>1. /\ queue' = <<>> /\ queue' \in Seq(Entry) /\ Len(queue') = 0
      /\ session' = [p \in Players |-> "out"]
      /\ answer' = [p \in Players |-> Absent] /\ mem' = [p \in Players |-> Absent]
      /\ nextId' \in 1 .. MaxMails + 1
      /\ \A id \in Ids : id >= nextId' => db.row[id] = NoRow
      /\ unseen' = {} /\ UNCHANGED <<db, raced>>
  BY CrashFacts
<1>2. PICK g, q, s, a, m, n, U : /\ g = [k \in 0 .. 0 |-> db] /\ q = queue' /\ s = session'
                                 /\ a = answer' /\ m = mem' /\ n = nextId' /\ U = unseen'
  OBVIOUS
<1>3. 0 .. 0 = {0} /\ 1 .. 0 = {} /\ Len(q) = 0 /\ g[0] = db /\ db \in World
  BY <1>1, <1>2 DEF TypeInv
<1>4. Drains(db, q, g)
  BY <1>2, <1>3 DEF Drains
<1>5. Whole(db) /\ Wealth(db) <= Bound
  <2>1. 0 \in 0 .. Len(queue) /\ h[0] = db
    BY LenProperties DEF TypeInv, Drains
  <2> QED BY <2>1 DEF Good
<1>6. Fresh(n, db)
  BY <1>1, <1>2 DEF Fresh
<1>7. \A p \in Players : s[p] # "in" /\ s[p] # "loading" /\ m[p] = Absent
  BY <1>1, <1>2
<1>8. Good(g, q, s, a, m, n, U)
  BY <1>3, <1>5, <1>6, <1>7 DEF Good
<1> QED BY <1>1, <1>2, <1>4, <1>8

----------------------------------------------------------------------------
(* The expiry of a mail.  Nothing that is queued is about it, so it will be  *)
(* what it is when the queue is empty.                                       *)

LEMMA StaysPut ==
    ASSUME TypeInv, NEW h, Drains(db, queue, h), NEW id \in Ids, ~Pending(id),
           NEW w, w = h[Len(queue)]
    PROVE  /\ w.row[id] = db.row[id] /\ w.alive \subseteq db.alive
           /\ \A i \in Items : w.at[i] = id <=> db.at[i] = id
<1> DEFINE C == {k \in 0 .. Len(queue) :
                   /\ h[k].row[id] = db.row[id] /\ h[k].alive \subseteq db.alive
                   /\ \A i \in Items : h[k].at[i] = id <=> db.at[i] = id}
<1>1. /\ queue \in Seq(Entry) /\ Len(queue) \in Nat /\ DOMAIN queue = 1 .. Len(queue)
      /\ \A k \in 1 .. Len(queue) : queue[k] \in Entry
  BY LenProperties, ElementOfSeq DEF TypeInv
<1>2. /\ h \in [0 .. Len(queue) -> World] /\ h[0] = db
      /\ \A k \in 1 .. Len(queue) : h[k] = Apply(h[k - 1], queue[k])
  BY DEF Drains
<1>3. 0 \in C
  BY <1>1, <1>2
<1>4. ASSUME NEW k \in 1 .. Len(queue), k - 1 \in C PROVE k \in C
  <2>1. PICK d, t, v : d = h[k - 1] /\ t = queue[k] /\ v = h[k]
    OBVIOUS
  <2>2. /\ t \in Entry /\ v = Apply(d, t) /\ d \in World
    BY <1>1, <1>2, <2>1
  <2>3. /\ id \notin DOMAIN t.ins /\ id \notin DOMAIN t.upd /\ id \notin t.del
        /\ \A i \in DOMAIN t.at : db.at[i] # id
    BY <1>1, <2>1 DEF Pending
  <2>4. /\ d.row[id] = db.row[id] /\ d.alive \subseteq db.alive
        /\ \A i \in Items : d.at[i] = id <=> db.at[i] = id
    BY <1>4, <2>1
  <2>5. v.row[id] = db.row[id]
    <3>1. v.row[id] = RowAfter(d, t, id)
      BY <2>2, ApplyFacts
    <3> QED BY <2>3, <2>4, <3>1 DEF RowAfter
  <2>6. /\ v.alive = d.alive \ t.destroy
        /\ \A i \in Items :
             /\ i \in DOMAIN t.at => v.at[i] = t.at[i]
             /\ i \notin DOMAIN t.at /\ d.at[i] \in t.del => v.at[i] = 0
             /\ i \notin DOMAIN t.at /\ d.at[i] \notin t.del => v.at[i] = d.at[i]
    <3>1. /\ v.alive = d.alive \ t.destroy /\ v.alive \subseteq Items
          /\ \A i \in Items :
               /\ i \in DOMAIN t.at => v.at[i] = t.at[i]
               /\ i \notin DOMAIN t.at /\ d.at[i] \in t.del => v.at[i] = 0
               /\ i \notin DOMAIN t.at /\ d.at[i] \notin t.del => v.at[i] = d.at[i]
               /\ i \in DOMAIN t.inv => v.inv[i] = t.inv[i]
               /\ i \notin DOMAIN t.inv => v.inv[i] = d.inv[i]
               /\ d.at[i] \in Ids \cup {0} /\ d.inv[i] \in Players \cup {Nobody}
      BY <2>2, ItemsAfter
    <3> QED BY <3>1
  <2>7. ASSUME NEW i \in Items PROVE v.at[i] = id <=> db.at[i] = id
    <3>0. id # 0
      BY DEF Ids
    <3>1. CASE i \in DOMAIN t.at
      <4>1. t.at[i] # 0 => t.at[i] \in DOMAIN t.ins
        BY <2>2, <3>1, EntryFacts
      <4> QED BY <2>3, <2>6, <3>0, <3>1, <4>1
    <3>2. CASE i \notin DOMAIN t.at /\ d.at[i] \in t.del
      BY <2>3, <2>4, <2>6, <3>0, <3>2
    <3>3. CASE i \notin DOMAIN t.at /\ d.at[i] \notin t.del
      BY <2>4, <2>6, <3>3
    <3> QED BY <3>1, <3>2, <3>3
  <2>8. v.alive \subseteq db.alive
    BY <2>4, <2>6
  <2> QED BY <1>1, <2>1, <2>5, <2>7, <2>8
<1>5. 0 .. Len(queue) \subseteq C
  <2> HIDE DEF C
  <2> QED BY <1>1, <1>3, <1>4, Steps
<1>6. Len(queue) \in C
  BY <1>1, <1>5
<1> QED BY <1>6

\* The mail goes back: its row changes hands, the items stay with it.
LEMMA ReturnedWorld ==
    ASSUME NEW w \in World, NEW id \in Ids, w.row[id] # NoRow, NEW back \in Return,
           NEW t \in Entry, t = ReturnTx(id, back), NEW v, v = Apply(w, t)
    PROVE  /\ v \in World /\ w.row[id] \in Row /\ v.row[id] \in Row /\ v.row[id].to = back.to
           /\ v.row[id].gold = w.row[id].gold /\ v.row[id].has = w.row[id].has
           /\ \A k \in Ids : k # id => v.row[k] = w.row[k]
           /\ \A r \in Players : v.gold[r] = w.gold[r]
           /\ \A i \in Items : v.at[i] = w.at[i] /\ v.inv[i] = w.inv[i]
           /\ v.alive = w.alive
<1>1. /\ t.gold = Empty /\ t.ins = Empty /\ t.upd = Only(id, back) /\ t.del = {}
      /\ t.at = Empty /\ t.inv = Empty /\ t.destroy = {}
  BY TxFacts DEF ReturnTx
<1>2. /\ DOMAIN t.gold = {} /\ DOMAIN t.ins = {} /\ DOMAIN t.upd = {id} /\ t.upd[id] = back
      /\ DOMAIN t.at = {} /\ DOMAIN t.inv = {}
  BY <1>1, NoDomain DEF Only
<1>3. v \in World /\ \A k \in Ids : v.row[k] = RowAfter(w, t, k)
  BY ApplyFacts
<1>4. w.row[id] \in Row
  BY WorldFacts
<1>5. v.row[id] = Set(w.row[id], back)
  BY <1>1, <1>2, <1>3 DEF RowAfter
<1>6. /\ v.row[id] \in Row /\ v.row[id].to = back.to
      /\ v.row[id].gold = w.row[id].gold /\ v.row[id].has = w.row[id].has
  BY <1>4, <1>5, ReturnRow
<1>7. \A k \in Ids : k # id => v.row[k] = w.row[k]
  BY <1>1, <1>2, <1>3 DEF RowAfter
<1>8. \A r \in Players : v.gold[r] = w.gold[r]
  <2>1. \A r \in Players : v.gold[r] = IF r \in DOMAIN t.gold THEN t.gold[r] ELSE w.gold[r]
    BY ApplyFacts
  <2> QED BY <1>2, <2>1
<1>9. /\ \A i \in Items : v.at[i] = w.at[i] /\ v.inv[i] = w.inv[i]
      /\ v.alive = w.alive
  <2>1. /\ v.alive = w.alive \ t.destroy /\ v.alive \subseteq Items
        /\ \A i \in Items :
             /\ i \in DOMAIN t.at => v.at[i] = t.at[i]
             /\ i \notin DOMAIN t.at /\ w.at[i] \in t.del => v.at[i] = 0
             /\ i \notin DOMAIN t.at /\ w.at[i] \notin t.del => v.at[i] = w.at[i]
             /\ i \in DOMAIN t.inv => v.inv[i] = t.inv[i]
             /\ i \notin DOMAIN t.inv => v.inv[i] = w.inv[i]
             /\ w.at[i] \in Ids \cup {0} /\ w.inv[i] \in Players \cup {Nobody}
    BY ItemsAfter
  <2> QED BY <1>1, <1>2, <2>1
<1> QED BY <1>3, <1>4, <1>6, <1>7, <1>8, <1>9

LEMMA ReturnedFits ==
    ASSUME NEW w \in World, NEW id \in Ids, w.row[id] # NoRow, NEW back \in Return,
           NEW t \in Entry, t = ReturnTx(id, back), NEW v, v = Apply(w, t),
           NEW r \in Players, r # w.row[id].to, NEW U, NEW V, U \subseteq V,
           r = back.to => id \in V, NEW m, Fits(r, m, U, w)
    PROVE  Fits(r, m, V, v)
<1>1. /\ v \in World /\ w.row[id] \in Row /\ v.row[id] \in Row /\ v.row[id].to = back.to
      /\ v.row[id].gold = w.row[id].gold /\ v.row[id].has = w.row[id].has
      /\ \A k \in Ids : k # id => v.row[k] = w.row[k]
      /\ \A q \in Players : v.gold[q] = w.gold[q]
      /\ \A i \in Items : v.at[i] = w.at[i] /\ v.inv[i] = w.inv[i]
      /\ v.alive = w.alive
  BY ReturnedWorld
<1>2. /\ m.gold = w.gold[r] /\ m.bag = {i \in w.alive : w.inv[i] = r}
      /\ \A k \in Ids : FitsMail(r, m.box, U, w, k)
  BY DEF Fits
<1>3. w.alive \subseteq Items
  BY WorldFacts
<1>4. m.bag = {i \in v.alive : v.inv[i] = r}
  BY <1>1, <1>2, <1>3
<1>5. ASSUME NEW k \in Ids PROVE FitsMail(r, m.box, V, v, k)
  <2>1. FitsMail(r, m.box, U, w, k)
    BY <1>2
  <2>2. CASE k = id
    <3>1. ~IsTo(w, k, r)
      BY <2>2 DEF IsTo
    <3>2. m.box[k] = NoMail
      BY <2>1, <3>1 DEF FitsMail
    <3>3. IsTo(v, k, r) => k \in V
      BY <1>1, <2>2 DEF IsTo
    <3> QED BY <3>2, <3>3 DEF FitsMail
  <2>3. CASE k # id
    <3>1. v.row[k] = w.row[k]
      BY <1>1, <2>3
    <3>2. ItemsOf(v, k) = ItemsOf(w, k)
      BY <1>1, <1>3 DEF ItemsOf
    <3>3. IsTo(v, k, r) <=> IsTo(w, k, r)
      BY <3>1 DEF IsTo
    <3> QED BY <2>1, <3>1, <3>2, <3>3 DEF FitsMail
  <2> QED BY <2>2, <2>3
<1> QED BY <1>1, <1>2, <1>4, <1>5 DEF Fits

LEMMA ReturnGood ==
    ASSUME TypeInv, NEW h, Drains(db, queue, h),
           Good(h, queue, session, answer, mem, nextId, unseen),
           NEW id \in Ids, ~Pending(id), db.row[id] # NoRow, session[db.row[id].to] = "out",
           NEW back \in Return, back.to = db.row[id].from, ReturnTx(id, back) \in Entry,
           NEW V, V = IF session[db.row[id].from] # "out" THEN unseen \cup {id} ELSE unseen
    PROVE  \E g : /\ Drains(db, Append(queue, ReturnTx(id, back)), g)
                  /\ Good(g, Append(queue, ReturnTx(id, back)), session, answer, mem, nextId, V)
<1>1. PICK w, t, from, to : /\ w = h[Len(queue)] /\ t = ReturnTx(id, back)
                            /\ from = db.row[id].from /\ to = db.row[id].to
  OBVIOUS
<1>2. PICK v : v = Apply(w, t)
  OBVIOUS
<1>3. /\ w \in World /\ Whole(w) /\ Fresh(nextId, w) /\ nextId \in Nat
      /\ Wealth(w) <= Bound /\ Wealth(w) \in Int /\ Bound \in Int
      /\ queue \in Seq(Entry) /\ mem \in [Players -> Memory]
      /\ \A r \in Players : session[r] # "in" => mem[r] = Absent
      /\ \A r \in Players : session[r] = "in" => Fits(r, mem[r], unseen, w)
  BY <1>1, NowFacts
<1>4. w.row[id] = db.row[id]
  BY <1>1, StaysPut
<1>5. t \in Entry /\ t.loads = Nobody /\ w.row[id] # NoRow
  BY <1>1, <1>4, TxFacts DEF ReturnTx
<1>6. /\ v \in World /\ w.row[id] \in Row /\ v.row[id] \in Row /\ v.row[id].to = back.to
      /\ v.row[id].gold = w.row[id].gold /\ v.row[id].has = w.row[id].has
      /\ \A k \in Ids : k # id => v.row[k] = w.row[k]
      /\ \A q \in Players : v.gold[q] = w.gold[q]
      /\ \A i \in Items : v.at[i] = w.at[i] /\ v.inv[i] = w.inv[i]
      /\ v.alive = w.alive
  BY <1>1, <1>2, <1>3, <1>5, ReturnedWorld
<1>7. ASSUME NEW r \in Players, session[r] # "out", NEW y, Fits(r, y, unseen, w)
      PROVE  Fits(r, y, V, v)
  <2>1. r # w.row[id].to /\ unseen \subseteq V /\ (r = back.to => id \in V)
    BY <1>4, <1>7
  <2> QED BY <1>1, <1>2, <1>3, <1>5, <1>7, <2>1, ReturnedFits
<1>8. Whole(v)
  <2> SUFFICES ASSUME NEW i \in Items
               PROVE  /\ v.at[i] # 0 => v.row[v.at[i]] # NoRow
                      /\ i \in v.alive /\ v.at[i] # 0 => v.inv[i] = Nobody /\ v.row[v.at[i]].has = TRUE
                      /\ i \in v.alive /\ v.at[i] = 0 => v.inv[i] # Nobody
                      /\ i \notin v.alive => v.inv[i] = Nobody
    BY DEF Whole
  <2>1. /\ w.at[i] # 0 => w.row[w.at[i]] # NoRow
        /\ i \in w.alive /\ w.at[i] # 0 => w.inv[i] = Nobody /\ w.row[w.at[i]].has = TRUE
        /\ i \in w.alive /\ w.at[i] = 0 => w.inv[i] # Nobody
        /\ i \notin w.alive => w.inv[i] = Nobody
    BY <1>3 DEF Whole
  <2>2. w.at[i] \in Ids \cup {0}
    BY <1>3, WorldFacts
  <2>3. CASE w.at[i] = id
    BY <1>6, <2>1, <2>3, RowIsThere
  <2>4. CASE w.at[i] # id
    BY <1>6, <2>1, <2>2, <2>4
  <2> QED BY <2>3, <2>4
<1>9. Fresh(nextId, v)
  <2> SUFFICES ASSUME NEW k \in Ids, k >= nextId PROVE v.row[k] = NoRow
    BY DEF Fresh
  <2>1. w.row[k] = NoRow
    BY <1>3 DEF Fresh
  <2> QED BY <1>5, <1>6, <2>1
<1>10. Wealth(v) <= Bound
  <2>1. ASSUME NEW k \in Ids PROVE Worth(v.row[k]) <= Worth(w.row[k])
    <3>1. Worth(w.row[k]) \in Nat
      BY <1>3, WorthFacts
    <3>2. Worth(v.row[k]) = Worth(w.row[k])
      BY <1>6, WorthFacts
    <3> QED BY <3>1, <3>2
  <2>2. Wealth(v) <= Wealth(w)
    BY <1>3, <1>6, <2>1, WealthSame
  <2>3. Wealth(v) \in Int
    BY <1>6, WealthIs
  <2> QED BY <1>3, <2>2, <2>3
<1>11. Follows(session, unseen, t, w, v, session, mem, V)
  <2>1. \A r \in Players : session[r] = "in" => Fits(r, mem[r], V, v)
    BY <1>3, <1>7
  <2>2. \A r \in Players : t.loads # r
    BY <1>5, NobodyAssumption
  <2>3. \A r \in Players : session[r] = "loading" => \A y : Fits(r, y, unseen, w) => Fits(r, y, V, v)
    BY <1>7
  <2> QED BY <1>3, <2>1, <2>2, <2>3 DEF Follows
<1>12. \E g : /\ Drains(db, Append(queue, t), g)
              /\ Good(g, Append(queue, t), session, answer, mem, nextId, V)
  <2>1. PICK m2, n2 : m2 = mem /\ n2 = nextId
    OBVIOUS
  <2>2. /\ t \in Entry /\ v = Apply(w, t) /\ w = h[Len(queue)] /\ queue \in Seq(Entry)
        /\ Whole(v) /\ Wealth(v) <= Bound /\ Fresh(n2, v)
        /\ Follows(session, unseen, t, w, v, session, m2, V)
    BY <1>1, <1>2, <1>3, <1>5, <1>8, <1>9, <1>10, <1>11, <2>1
  <2>3. \E g : /\ Drains(db, Append(queue, t), g)
               /\ Good(g, Append(queue, t), session, answer, m2, n2, V)
    BY <2>2, Extend
  <2> QED BY <2>1, <2>3
<1> QED BY <1>1, <1>12

\* An entry about a player who is out of the world, that takes away.
Takes(d, q, s, a, m, n, U, h, p, t, w, v) ==
    /\ Drains(d, q, h) /\ Good(h, q, s, a, m, n, U) /\ s[p] = "out"
    /\ t.loads = Nobody /\ DOMAIN t.ins = {} /\ DOMAIN t.gold = {} /\ DOMAIN t.upd = {}
    /\ w = h[Len(q)] /\ v = Apply(w, t) /\ Sound(p, n, w, t)

LEMMA OutStep ==
    ASSUME NEW d, NEW q \in Seq(Entry), NEW s, NEW a, NEW m, NEW n \in Nat, NEW U, NEW h,
           NEW p \in Players, NEW t \in Entry, NEW w, NEW v, Takes(d, q, s, a, m, n, U, h, p, t, w, v),
           NEW r, r = Append(q, t)
    PROVE  \E g : Drains(d, r, g) /\ Good(g, r, s, a, m, n, U) /\ Ends(g, r, v)
<1>1. /\ Drains(d, q, h) /\ Good(h, q, s, a, m, n, U) /\ s[p] = "out"
      /\ t.loads = Nobody /\ DOMAIN t.ins = {} /\ DOMAIN t.gold = {} /\ DOMAIN t.upd = {}
      /\ w = h[Len(q)] /\ v = Apply(w, t) /\ Sound(p, n, w, t)
  BY DEF Takes
<1>2. Len(q) \in Nat /\ Len(q) \in 0 .. Len(q)
  BY LenProperties
<1>3. /\ w \in World /\ Whole(w) /\ Fresh(n, w) /\ Wealth(w) <= Bound
      /\ \A z \in Players : s[z] # "in" => m[z] = Absent
      /\ \A z \in Players : s[z] = "in" => Fits(z, m[z], U, w)
  BY <1>1, <1>2 DEF Drains, Good
<1>4. Whole(v) /\ Fresh(n, v) /\ v \in World
  BY <1>1, <1>3, WholeAfter, FreshAfter, ApplyFacts
<1>5. \A z \in Players : ~(n \in Ids /\ IsTo(v, n, z))
  BY <1>4 DEF Fresh, IsTo
<1>6. ASSUME NEW z \in Players, z # p, NEW y, Fits(z, y, U, w) PROVE Fits(z, y, U, v)
  <2>1. FitsBut(z, y, U, v, n)
    BY <1>1, <1>3, <1>6, OthersFit
  <2> QED BY <1>5, <2>1, NewMail
<1>7. Wealth(v) <= Bound
  <2>1. \A z \in Players : v.gold[z] = w.gold[z]
    <3>1. \A z \in Players : v.gold[z] = IF z \in DOMAIN t.gold THEN t.gold[z] ELSE w.gold[z]
      <4>1. v = Apply(w, t) /\ w \in World
        BY <1>1, <1>3
      <4> QED BY <4>1, ApplyFacts
    <3> QED BY <1>1, <3>1
  <2>2. ASSUME NEW k \in Ids PROVE Worth(v.row[k]) <= Worth(w.row[k])
    <3>1. v.row[k] = RowAfter(w, t, k)
      BY <1>1, <1>3, ApplyFacts
    <3>2. v.row[k] = NoRow \/ v.row[k] = w.row[k]
      BY <1>1, <3>1 DEF RowAfter
    <3>3. Worth(w.row[k]) \in Nat /\ Worth(NoRow) = 0
      BY <1>3, WorthFacts
    <3>4. CASE v.row[k] = NoRow
      BY <3>3, <3>4
    <3>5. CASE v.row[k] = w.row[k]
      BY <3>3, <3>5
    <3> QED BY <3>2, <3>4, <3>5
  <2>3. Wealth(v) <= Wealth(w)
    BY <1>3, <1>4, <2>1, <2>2, WealthSame
  <2>4. Wealth(v) \in Int /\ Wealth(w) \in Int
    BY <1>3, <1>4, WealthIs
  <2>5. Bound \in Int
    <3>1. Cardinality(Players) \in Nat
      BY FiniteAssumption, FS_CardinalityType
    <3> QED BY <3>1, GoldAssumption DEF Bound
  <2> QED BY <1>3, <2>3, <2>4, <2>5
<1>8. Follows(s, U, t, w, v, s, m, U)
  <2>1. \A z \in Players : s[z] = "in" => Fits(z, m[z], U, v)
    BY <1>1, <1>3, <1>6
  <2>2. \A z \in Players : t.loads # z
    BY <1>1, NobodyAssumption
  <2>3. \A z \in Players : s[z] = "loading" => \A y : Fits(z, y, U, w) => Fits(z, y, U, v)
    BY <1>1, <1>6
  <2> QED BY <1>3, <2>1, <2>2, <2>3 DEF Follows
<1>9. PICK m2, n2 : m2 = m /\ n2 = n
  OBVIOUS
<1>10. /\ q \in Seq(Entry) /\ t \in Entry /\ r = Append(q, t)
       /\ v = Apply(w, t) /\ w = h[Len(q)] /\ Drains(d, q, h) /\ Good(h, q, s, a, m, n, U)
       /\ Whole(v) /\ Wealth(v) <= Bound /\ Fresh(n2, v) /\ Follows(s, U, t, w, v, s, m2, U)
  BY <1>1, <1>4, <1>7, <1>8, <1>9
<1>11. \E g : Drains(d, r, g) /\ Good(g, r, s, a, m2, n2, U) /\ Ends(g, r, v)
  BY <1>10, ExtendTo
<1> QED BY <1>9, <1>11

\* One more element of a sequence that is enqueued.
LEMMA OneMore ==
    ASSUME NEW S, NEW q \in Seq(S), NEW s \in Seq(S), NEW k \in 1 .. Len(s)
    PROVE  /\ q \o SubSeq(s, 1, k - 1) \in Seq(S) /\ s[k] \in S
           /\ q \o SubSeq(s, 1, k) = Append(q \o SubSeq(s, 1, k - 1), s[k])
<1>1. Len(s) \in Nat /\ Len(q) \in Nat /\ k \in Int /\ k >= 1 /\ k <= Len(s)
  BY LenProperties
<1>2. s[k] \in S /\ \A j \in 1 .. k : s[j] \in S
  BY <1>1, ElementOfSeq
<1>3. PICK a, z, b, x, y : /\ a = SubSeq(s, 1, k) /\ z = SubSeq(s, 1, k - 1)
                           /\ b = q \o a /\ x = q \o z /\ y = Append(x, s[k])
  OBVIOUS
<1>4. a \in Seq(S) /\ Len(a) = k /\ \A j \in 1 .. k : a[j] = s[j]
  BY <1>1, <1>2, <1>3, SubSeqProperties
<1>5. z \in Seq(S) /\ Len(z) = k - 1 /\ \A j \in 1 .. k - 1 : z[j] = s[j]
  BY <1>1, <1>2, <1>3, SubSeqProperties
<1>6. PICK l : l = Len(q)
  OBVIOUS
<1>7. /\ b \in Seq(S) /\ Len(b) = l + k
      /\ \A i \in 1 .. l + k : b[i] = IF i <= l THEN q[i] ELSE a[i - l]
  <2>1. a \in Seq(S)
    BY <1>4
  <2>2. /\ q \o a \in Seq(S) /\ Len(q \o a) = Len(q) + Len(a)
        /\ \A i \in 1 .. Len(q) + Len(a) :
             (q \o a)[i] = IF i <= Len(q) THEN q[i] ELSE a[i - Len(q)]
    BY <2>1, ConcatProperties
  <2> QED BY <1>3, <1>4, <1>6, <2>2
<1>8. /\ x \in Seq(S) /\ Len(x) = l + (k - 1)
      /\ \A i \in 1 .. l + (k - 1) : x[i] = IF i <= l THEN q[i] ELSE z[i - l]
  <2>1. z \in Seq(S)
    BY <1>5
  <2>2. /\ q \o z \in Seq(S) /\ Len(q \o z) = Len(q) + Len(z)
        /\ \A i \in 1 .. Len(q) + Len(z) :
             (q \o z)[i] = IF i <= Len(q) THEN q[i] ELSE z[i - Len(q)]
    BY <2>1, ConcatProperties
  <2> QED BY <1>3, <1>5, <1>6, <2>2
<1>9. PICK n : n = l + (k - 1)
  OBVIOUS
<1>10. n \in Nat /\ n + 1 = l + k /\ l \in Nat
  BY <1>1, <1>6, <1>9
<1>11. y \in Seq(S) /\ Len(y) = n + 1 /\ y[n + 1] = s[k] /\ \A i \in 1 .. n : y[i] = x[i]
  BY <1>2, <1>3, <1>8, <1>9, AppendProperties
<1>12. Len(b) = Len(y)
  BY <1>7, <1>10, <1>11
<1>13. ASSUME NEW i \in 1 .. n + 1 PROVE b[i] = y[i]
  <2>1. CASE i = n + 1
    <3>1. i \in 1 .. l + k /\ ~(i <= l) /\ i - l = k
      BY <1>1, <1>9, <1>10, <2>1
    <3>2. b[i] = a[k]
      BY <1>7, <3>1
    <3>3. a[k] = s[k]
      BY <1>1, <1>4
    <3> QED BY <1>11, <2>1, <3>2, <3>3
  <2>2. CASE i # n + 1
    <3>1. i \in 1 .. n /\ i \in 1 .. l + (k - 1) /\ i \in 1 .. l + k
      BY <1>9, <1>10, <2>2
    <3>2. y[i] = x[i]
      BY <1>11, <3>1
    <3>3. CASE i <= l
      BY <1>7, <1>8, <3>1, <3>2, <3>3
    <3>4. CASE ~(i <= l)
      <4>1. PICK j : j = i - l
        OBVIOUS
      <4>2. j \in 1 .. k - 1 /\ j \in 1 .. k
        BY <1>1, <1>9, <1>10, <3>1, <3>4, <4>1
      <4>3. b[i] = a[j] /\ x[i] = z[j]
        BY <1>7, <1>8, <3>1, <3>4, <4>1
      <4> QED BY <1>4, <1>5, <3>2, <4>2, <4>3
    <3> QED BY <3>3, <3>4
  <2> QED BY <2>1, <2>2
<1>14. b = y
  <2>1. \A i \in 1 .. Len(b) : b[i] = y[i]
    BY <1>7, <1>10, <1>13
  <2> QED BY <1>7, <1>11, <1>12, <2>1, SeqEqual
<1> QED BY <1>2, <1>3, <1>8, <1>14

\* What the first k statements of a deletion leave: the mail, without items.
Emptied(u, k, s, id) ==
    /\ u.row[id] = db.row[id] /\ u.alive \subseteq db.alive
    /\ \A i \in Items : u.at[i] = id <=> db.at[i] = id
    /\ \A j \in 1 .. k : \A i \in Items : s[j] = DestroyTx(i) => i \notin u.alive

Reached(r, k, s, id) ==
    \E g : /\ Drains(db, r, g) /\ Good(g, r, session, answer, mem, nextId, unseen)
           /\ Emptied(g[Len(r)], k, s, id)

LEMMA DestroyIs ==
    \A i, j \in Items : DestroyTx(i) = DestroyTx(j) => i = j
<1> SUFFICES ASSUME NEW i \in Items, NEW j \in Items, DestroyTx(i) = DestroyTx(j) PROVE i = j
  OBVIOUS
<1>1. DestroyTx(i).destroy = {i} /\ DestroyTx(j).destroy = {j}
  BY TxFacts DEF DestroyTx
<1> QED BY <1>1

LEMMA DestroyStep ==
    ASSUME TypeInv, NEW id \in Ids, db.row[id] \in Row, session[db.row[id].to] = "out",
           NEW q \in Seq(Entry), NEW s, NEW k \in Nat, k # 0, Reached(q, k - 1, s, id),
           NEW i \in ItemsOf(db, id), s[k] = DestroyTx(i), NEW r, r = Append(q, s[k])
    PROVE  Reached(r, k, s, id)
<1>1. PICK g : /\ Drains(db, q, g) /\ Good(g, q, session, answer, mem, nextId, unseen)
               /\ Emptied(g[Len(q)], k - 1, s, id)
  BY DEF Reached
<1>2. PICK w, t, p : w = g[Len(q)] /\ t = DestroyTx(i) /\ p = db.row[id].to
  OBVIOUS
<1>3. PICK v : v = Apply(w, t)
  OBVIOUS
<1>4. i \in Items /\ db.at[i] = id /\ id # 0 /\ p \in Players
  <2>1. db \in World
    BY DEF TypeInv
  <2>2. db.alive \subseteq Items
    BY <2>1, WorldFacts
  <2>3. i \in db.alive /\ db.at[i] = id
    BY DEF ItemsOf
  <2> QED BY <1>2, <2>2, <2>3, LimitAssumption DEF Ids, Row
<1>5. /\ t \in Entry /\ t.gold = Empty /\ t.ins = Empty /\ t.upd = Empty /\ t.del = {}
      /\ t.at = Empty /\ t.inv = Empty /\ t.destroy = {i} /\ t.loads = Nobody
  BY <1>2, <1>4, DestroyTxType, TxFacts DEF DestroyTx
<1>6. /\ DOMAIN t.gold = {} /\ DOMAIN t.ins = {} /\ DOMAIN t.upd = {}
      /\ DOMAIN t.at = {} /\ DOMAIN t.inv = {}
  BY <1>5, NoDomain
<1>7. /\ w.row[id] = db.row[id] /\ w.alive \subseteq db.alive
      /\ \A j \in Items : w.at[j] = id <=> db.at[j] = id
      /\ \A m \in 1 .. k - 1 : \A j \in Items : s[m] = DestroyTx(j) => j \notin w.alive
  BY <1>1, <1>2 DEF Emptied
<1>8. IsTo(w, id, p)
  <2>1. w.row[id] # NoRow
    BY <1>7, RowIsThere
  <2> QED BY <1>2, <1>7, <2>1 DEF IsTo
<1>9. Sound(p, nextId, w, t)
  <2>1. w.at[i] = id
    BY <1>4, <1>7
  <2> QED BY <1>4, <1>5, <1>6, <1>8, <2>1 DEF Sound
<1>10. w \in World
  <2>1. Len(q) \in 0 .. Len(q)
    BY LenProperties
  <2> QED BY <1>1, <1>2, <2>1 DEF Drains
<1>11. Emptied(v, k, s, id)
  <2>1. v.row[id] = w.row[id]
    <3>1. v.row[id] = RowAfter(w, t, id)
      BY <1>3, <1>5, <1>10, ApplyFacts
    <3> QED BY <1>5, <1>6, <3>1 DEF RowAfter
  <2>2. /\ v.alive = w.alive \ t.destroy /\ v.alive \subseteq Items
        /\ \A j \in Items :
             /\ j \in DOMAIN t.at => v.at[j] = t.at[j]
             /\ j \notin DOMAIN t.at /\ w.at[j] \in t.del => v.at[j] = 0
             /\ j \notin DOMAIN t.at /\ w.at[j] \notin t.del => v.at[j] = w.at[j]
             /\ j \in DOMAIN t.inv => v.inv[j] = t.inv[j]
             /\ j \notin DOMAIN t.inv => v.inv[j] = w.inv[j]
             /\ w.at[j] \in Ids \cup {0} /\ w.inv[j] \in Players \cup {Nobody}
    <3>1. v = Apply(w, t) /\ t \in Entry
      BY <1>3, <1>5
    <3> QED BY <1>10, <3>1, ItemsAfter
  <2>3. v.alive = w.alive \ {i} /\ \A j \in Items : v.at[j] = w.at[j]
    BY <1>5, <1>6, <2>2
  <2>4. ASSUME NEW m \in 1 .. k, NEW j \in Items, s[m] = DestroyTx(j) PROVE j \notin v.alive
    <3>1. CASE m = k
      <4>1. j = i
        BY <1>4, <2>4, <3>1, DestroyIs
      <4> QED BY <2>3, <4>1
    <3>2. CASE m # k
      <4>1. m \in 1 .. k - 1
        BY <3>2
      <4> QED BY <1>7, <2>3, <2>4, <4>1
    <3> QED BY <3>1, <3>2
  <2> QED BY <1>7, <2>1, <2>3, <2>4 DEF Emptied
<1>12. Takes(db, q, session, answer, mem, nextId, unseen, g, p, t, w, v)
  BY <1>1, <1>2, <1>3, <1>5, <1>6, <1>9 DEF Takes
<1>13. nextId \in Nat
  BY LimitAssumption DEF TypeInv
<1>14. \E f : Drains(db, r, f) /\ Good(f, r, session, answer, mem, nextId, unseen) /\ Ends(f, r, v)
  <2>1. r = Append(q, t)
    BY <1>2
  <2> QED BY <1>4, <1>5, <1>12, <1>13, <2>1, OutStep
<1> QED BY <1>11, <1>14 DEF Reached, Ends

LEMMA DestroysGood ==
    ASSUME TypeInv, NEW id \in Ids, db.row[id] \in Row, session[db.row[id].to] = "out",
           queue \in Seq(Entry), NEW s \in Seq(Entry), Reached(queue, 0, s, id),
           \A k \in 1 .. Len(s) : \E i \in ItemsOf(db, id) : s[k] = DestroyTx(i)
    PROVE  Reached(queue \o s, Len(s), s, id)
<1> DEFINE C == {k \in 0 .. Len(s) : Reached(queue \o SubSeq(s, 1, k), k, s, id)}
<1>1. Len(s) \in Nat
  BY LenProperties
<1>2. 0 \in C
  <2>1. SubSeq(s, 1, 0) = <<>>
    BY SubSeqEmpty
  <2>2. queue \o <<>> = queue
    BY ConcatEmptySeq
  <2>3. Reached(queue \o SubSeq(s, 1, 0), 0, s, id)
    BY <2>1, <2>2
  <2> QED BY <1>1, <2>3
<1>3. ASSUME NEW k \in 1 .. Len(s), k - 1 \in C PROVE k \in C
  <2>1. PICK q, r : q = queue \o SubSeq(s, 1, k - 1) /\ r = queue \o SubSeq(s, 1, k)
    OBVIOUS
  <2>2. q \in Seq(Entry) /\ r = Append(q, s[k])
    BY <2>1, OneMore
  <2>3. Reached(q, k - 1, s, id)
    BY <1>3, <2>1
  <2>4. PICK i \in ItemsOf(db, id) : s[k] = DestroyTx(i)
    OBVIOUS
  <2>5. k \in Nat /\ k # 0 /\ k \in 0 .. Len(s)
    BY <1>1
  <2>6. Reached(r, k, s, id)
    BY <2>2, <2>3, <2>4, <2>5, DestroyStep
  <2> QED BY <2>1, <2>5, <2>6
<1>4. 0 .. Len(s) \subseteq C
  <2> HIDE DEF C
  <2> QED BY <1>1, <1>2, <1>3, Steps
<1>5. Len(s) \in 0 .. Len(s)
  BY <1>1
<1>6. SubSeq(s, 1, Len(s)) = s
  BY SubSeqFull
<1>7. Reached(queue \o SubSeq(s, 1, Len(s)), Len(s), s, id)
  BY <1>4, <1>5
<1> QED BY <1>6, <1>7

LEMMA DeletedGood ==
    ASSUME TypeInv, NEW h, Drains(db, queue, h),
           Good(h, queue, session, answer, mem, nextId, unseen),
           NEW id \in Ids, ~Pending(id), db.row[id] \in Row, session[db.row[id].to] = "out",
           NEW s \in Seq(Entry), DeleteTx(id) \in Entry,
           \A k \in 1 .. Len(s) : \E i \in ItemsOf(db, id) : s[k] = DestroyTx(i),
           db.row[id].has => \A i \in ItemsOf(db, id) : \E k \in 1 .. Len(s) : s[k] = DestroyTx(i)
    PROVE  \E g : /\ Drains(db, Append(queue \o s, DeleteTx(id)), g)
                  /\ Good(g, Append(queue \o s, DeleteTx(id)), session, answer, mem, nextId, unseen)
<1>1. /\ queue \in Seq(Entry) /\ queue \o s \in Seq(Entry) /\ db \in World /\ nextId \in Nat
  <2>1. queue \in Seq(Entry) /\ db \in World /\ nextId \in Nat
    BY LimitAssumption DEF TypeInv
  <2> QED BY <2>1, ConcatProperties
<1>2. Reached(queue, 0, s, id)
  <2>1. PICK w : w = h[Len(queue)]
    OBVIOUS
  <2>2. /\ w.row[id] = db.row[id] /\ w.alive \subseteq db.alive
        /\ \A i \in Items : w.at[i] = id <=> db.at[i] = id
    BY <2>1, StaysPut
  <2>3. Emptied(w, 0, s, id)
    BY <2>2 DEF Emptied
  <2> QED BY <2>1, <2>3 DEF Reached
<1>3. PICK q : q = queue \o s
  OBVIOUS
<1>4. Reached(q, Len(s), s, id)
  BY <1>1, <1>2, <1>3, DestroysGood
<1>5. PICK g : /\ Drains(db, q, g) /\ Good(g, q, session, answer, mem, nextId, unseen)
               /\ Emptied(g[Len(q)], Len(s), s, id)
  BY <1>4 DEF Reached
<1>6. PICK w, t, p, r : w = g[Len(q)] /\ t = DeleteTx(id) /\ p = db.row[id].to /\ r = Append(q, t)
  OBVIOUS
<1>7. PICK v : v = Apply(w, t)
  OBVIOUS
<1>8. /\ t \in Entry /\ t.gold = Empty /\ t.ins = Empty /\ t.upd = Empty /\ t.del = {id}
      /\ t.at = Empty /\ t.inv = Empty /\ t.destroy = {} /\ t.loads = Nobody
  BY <1>6, TxFacts DEF DeleteTx
<1>9. /\ DOMAIN t.gold = {} /\ DOMAIN t.ins = {} /\ DOMAIN t.upd = {}
      /\ DOMAIN t.at = {} /\ DOMAIN t.inv = {}
  BY <1>8, NoDomain
<1>10. /\ w.row[id] = db.row[id] /\ w.alive \subseteq db.alive
       /\ \A j \in Items : w.at[j] = id <=> db.at[j] = id
       /\ \A m \in 1 .. Len(s) : \A j \in Items : s[m] = DestroyTx(j) => j \notin w.alive
  BY <1>5, <1>6 DEF Emptied
<1>11. w \in World /\ Whole(w)
  <2>1. Len(q) \in 0 .. Len(q)
    BY <1>1, <1>3, LenProperties
  <2> QED BY <1>5, <1>6, <2>1 DEF Drains, Good
<1>12. IsTo(w, id, p) /\ p \in Players
  <2>1. w.row[id] # NoRow
    BY <1>10, RowIsThere
  <2> QED BY <1>6, <1>10, <2>1 DEF IsTo, Row
<1>13. ASSUME NEW i \in Items, i \in w.alive, w.at[i] = id PROVE FALSE
  <2>1. i \in ItemsOf(db, id)
    BY <1>10, <1>13 DEF ItemsOf
  <2>2. db.row[id].has = TRUE
    <3>1. w.at[i] # 0
      BY <1>13, LimitAssumption DEF Ids
    <3> QED BY <1>10, <1>11, <1>13, <3>1 DEF Whole
  <2>3. PICK k \in 1 .. Len(s) : s[k] = DestroyTx(i)
    BY <2>1, <2>2
  <2> QED BY <1>10, <1>13, <2>3
<1>14. Sound(p, nextId, w, t)
  <2>1. w.alive \subseteq Items
    BY <1>11, WorldFacts
  <2> QED BY <1>8, <1>9, <1>12, <1>13, <2>1 DEF Sound
<1>15. Takes(db, q, session, answer, mem, nextId, unseen, g, p, t, w, v)
  BY <1>5, <1>6, <1>7, <1>8, <1>9, <1>14 DEF Takes
<1>16. \E f : Drains(db, r, f) /\ Good(f, r, session, answer, mem, nextId, unseen) /\ Ends(f, r, v)
  <2>1. r = Append(q, t) /\ q \in Seq(Entry)
    BY <1>1, <1>3, <1>6
  <2> QED BY <1>1, <1>8, <1>12, <1>15, <2>1, OutStep
<1> QED BY <1>3, <1>6, <1>16

LEMMA ScanGood ==
    ASSUME TypeInv, NEW id \in Ids, Scan(id), ~raced'
    PROVE  \A h : Drains(db, queue, h) /\ Good(h, queue, session, answer, mem, nextId, unseen) =>
             \E g : /\ Drains(db', queue', g)
                    /\ Good(g, queue', session', answer', mem', nextId', unseen')
<1>0. PICK row \in Row :
         /\ row = db.row[id] /\ session[row.to] # "in"
         /\ unseen' = IF GoesBack(row) /\ session[row.from] # "out"
                        THEN unseen \cup {id} ELSE unseen
         /\ raced' = (raced \/ session[row.to] = "loading" \/ Pending(id))
         /\ UNCHANGED <<db, session, answer, mem, nextId>>
         /\ queue' \in Seq(Entry)
         /\ \/ \E back \in Return :
                 /\ GoesBack(row) /\ back.to = row.from
                 /\ ReturnTx(id, back) \in Entry
                 /\ queue' = Append(queue, ReturnTx(id, back))
            \/ \E s \in Seq(Entry) :
                 /\ ~GoesBack(row) /\ DeleteTx(id) \in Entry
                 /\ queue' = Append(queue \o s, DeleteTx(id))
                 /\ \A k \in 1 .. Len(s) : \E i \in ItemsOf(db, id) : s[k] = DestroyTx(i)
                 /\ row.has => \A i \in ItemsOf(db, id) :
                                 \E k \in 1 .. Len(s) : s[k] = DestroyTx(i)
  BY ScanFacts
<1> SUFFICES ASSUME NEW h, Drains(db, queue, h),
                    Good(h, queue, session, answer, mem, nextId, unseen)
             PROVE  \E g : /\ Drains(db', queue', g)
                           /\ Good(g, queue', session', answer', mem', nextId', unseen')
  OBVIOUS
<1>1. session[row.to] # "loading" /\ ~Pending(id)
  BY <1>0
<1>2. session[db.row[id].to] = "out" /\ db.row[id] \in Row /\ db.row[id] # NoRow
  <2>1. session[row.to] \in {"out", "loading", "in"}
    BY DEF TypeInv, Row
  <2> QED BY <1>0, <1>1, <2>1, RowIsThere
<1>3. PICK V : V = unseen'
  OBVIOUS
<1>4. CASE \E back \in Return :
             /\ GoesBack(row) /\ back.to = row.from
             /\ ReturnTx(id, back) \in Entry
             /\ queue' = Append(queue, ReturnTx(id, back))
  <2>1. PICK back \in Return :
             /\ GoesBack(row) /\ back.to = row.from
             /\ ReturnTx(id, back) \in Entry
             /\ queue' = Append(queue, ReturnTx(id, back))
    BY <1>4
  <2>2. V = IF session[db.row[id].from] # "out" THEN unseen \cup {id} ELSE unseen
    BY <1>0, <1>3, <2>1
  <2>3. back.to = db.row[id].from
    BY <1>0, <2>1
  <2>4. \E g : /\ Drains(db, Append(queue, ReturnTx(id, back)), g)
               /\ Good(g, Append(queue, ReturnTx(id, back)), session, answer, mem, nextId, V)
    BY <1>1, <1>2, <2>1, <2>2, <2>3, ReturnGood
  <2> QED BY <1>0, <1>3, <2>1, <2>4
<1>5. CASE \E s \in Seq(Entry) :
             /\ ~GoesBack(row) /\ DeleteTx(id) \in Entry
             /\ queue' = Append(queue \o s, DeleteTx(id))
             /\ \A k \in 1 .. Len(s) : \E i \in ItemsOf(db, id) : s[k] = DestroyTx(i)
             /\ row.has => \A i \in ItemsOf(db, id) :
                             \E k \in 1 .. Len(s) : s[k] = DestroyTx(i)
  <2>1. PICK s \in Seq(Entry) :
             /\ ~GoesBack(row) /\ DeleteTx(id) \in Entry
             /\ queue' = Append(queue \o s, DeleteTx(id))
             /\ \A k \in 1 .. Len(s) : \E i \in ItemsOf(db, id) : s[k] = DestroyTx(i)
             /\ row.has => \A i \in ItemsOf(db, id) :
                             \E k \in 1 .. Len(s) : s[k] = DestroyTx(i)
    BY <1>5
  <2>2. db.row[id].has => \A i \in ItemsOf(db, id) :
                            \E k \in 1 .. Len(s) : s[k] = DestroyTx(i)
    BY <1>0, <2>1
  <2>3. \E g : /\ Drains(db, Append(queue \o s, DeleteTx(id)), g)
               /\ Good(g, Append(queue \o s, DeleteTx(id)), session, answer, mem, nextId, unseen)
    BY <1>1, <1>2, <2>1, <2>2, DeletedGood
  <2> QED BY <1>0, <2>1, <2>3
<1> QED BY <1>0, <1>4, <1>5

----------------------------------------------------------------------------
(* The inductive invariant holds at the start and is kept by every step.    *)

LEMMA InvInit == Init => Inv
<1> SUFFICES ASSUME Init PROVE Inv
  OBVIOUS
<1>1. PICK owner \in [Items -> Players] :
        db = [gold |-> [p \in Players |-> StartGold], row |-> [id \in Ids |-> NoRow],
              at |-> [i \in Items |-> 0], inv |-> owner, alive |-> Items]
  BY DEF Init
<1>2. /\ queue = <<>> /\ Len(queue) = 0 /\ session = [p \in Players |-> "out"]
      /\ mem = [p \in Players |-> Absent]
  BY DEF Init
<1>3. db \in World
  BY TypeInit DEF TypeInv
<1>4. /\ \A p \in Players : db.gold[p] = StartGold
      /\ \A id \in Ids : db.row[id] = NoRow
      /\ \A i \in Items : db.at[i] = 0 /\ db.inv[i] = owner[i]
      /\ db.alive = Items
  BY <1>1
<1>5. PICK h, q, s, a, m, n, U : /\ h = [k \in 0 .. 0 |-> db] /\ q = queue /\ s = session
                                 /\ a = answer /\ m = mem /\ n = nextId /\ U = unseen
  OBVIOUS
<1>6. 0 .. 0 = {0} /\ 1 .. 0 = {} /\ Len(q) = 0 /\ h[0] = db
  BY <1>2, <1>5
<1>7. Drains(db, q, h)
  BY <1>3, <1>5, <1>6 DEF Drains
<1>8. Whole(db)
  <2>1. \A i \in Items : owner[i] # Nobody
    BY NobodyAssumption
  <2> QED BY <1>4, <2>1 DEF Whole
<1>9. Wealth(db) <= Bound
  <2>1. PICK f, g : f = db.gold /\ g = Worths(db)
    OBVIOUS
  <2>2. /\ Wealth(db) = SumFunctionOnSet(f, Players) + SumFunctionOnSet(g, Ids)
        /\ IsFiniteSet(Players) /\ IsFiniteSet(Ids)
    BY <1>3, <2>1, WealthIs
  <2>3. \A p \in Players : f[p] = StartGold
    BY <1>4, <2>1
  <2>4. \A id \in Ids : g[id] = 0
    BY <1>3, <1>4, <2>1, WorthFacts
  <2>5. SumFunctionOnSet(f, Players) = StartGold * Cardinality(Players)
    BY <2>2, <2>3, GoldAssumption, SumConstant
  <2>6. SumFunctionOnSet(g, Ids) = 0
    BY <2>2, <2>4, SumZero
  <2>7. Bound = StartGold * Cardinality(Players)
    BY DEF Bound
  <2>8. PICK b : b = Bound
    OBVIOUS
  <2>9. b \in Int /\ Wealth(db) = b + 0
    <3>1. Cardinality(Players) \in Nat
      BY FiniteAssumption, FS_CardinalityType
    <3> QED BY <2>2, <2>5, <2>6, <2>7, <2>8, <3>1, GoldAssumption
  <2> QED BY <2>8, <2>9
<1>10. Fresh(n, db)
  BY <1>4 DEF Fresh
<1>11. \A p \in Players : s[p] # "in" /\ s[p] # "loading" /\ m[p] = Absent
  BY <1>2, <1>5
<1>12. Good(h, q, s, a, m, n, U)
  BY <1>6, <1>8, <1>9, <1>10, <1>11 DEF Good
<1> QED BY <1>5, <1>7, <1>12 DEF Inv

LEMMA InvStep == TypeInv /\ Inv /\ [Next]_vars => Inv'
<1> DEFINE Goal == \E g : /\ Drains(db', queue', g)
                          /\ Good(g, queue', session', answer', mem', nextId', unseen')
<1> SUFFICES ASSUME TypeInv, Inv, [Next]_vars, ~raced' PROVE Goal
  BY DEF Inv
<1>1. ~raced
  <2>1. ASSUME NEW id \in Ids, Scan(id) PROVE ~raced
    <3>1. raced' = (raced \/ session[db.row[id].to] = "loading" \/ Pending(id))
      BY <2>1 DEF Scan, ReturnOrDeleteOldMails
    <3> QED BY <3>1
  <2>2. ASSUME NEW p \in Players, Login(p) \/ EnterWorld(p) \/ Logout(p) PROVE ~raced
    BY <2>2 DEF Login, EnterWorld, Logout
  <2>3. ASSUME NEW p \in Players, NEW q \in Players, NEW gold \in Gold, NEW cod \in COD,
               NEW items \in SUBSET Items, SendMail(p, q, gold, cod, items)
        PROVE  ~raced
    <3>1. UNCHANGED raced
      BY <2>3 DEF SendMail
    <3> QED BY <3>1
  <2>4. ASSUME NEW p \in Players, NEW id \in Ids, MarkAsRead(p, id) \/ Delete(p, id) PROVE ~raced
    BY <2>4 DEF MarkAsRead, Delete
  <2>5. ASSUME NEW p \in Players, NEW id \in Ids, ReturnToSender(p, id) PROVE ~raced
    <3>1. UNCHANGED raced
      BY <2>5 DEF ReturnToSender
    <3> QED BY <3>1
  <2>6. ASSUME NEW p \in Players, NEW id \in Ids, TakeMoney(p, id) PROVE ~raced
    <3>1. UNCHANGED raced
      BY <2>6 DEF TakeMoney
    <3> QED BY <3>1
  <2>7. ASSUME NEW p \in Players, NEW id \in Ids, NEW i \in Items, TakeItem(p, id, i) PROVE ~raced
    <3>1. UNCHANGED raced
      BY <2>7 DEF TakeItem
    <3> QED BY <3>1
  <2>8. CASE Execute
    BY <2>8 DEF Execute
  <2>9. CASE Crash
    BY <2>9 DEF Crash
  <2>10. CASE UNCHANGED vars
    BY <2>10 DEF vars
  <2> QED BY <2>1, <2>2, <2>3, <2>4, <2>5, <2>6, <2>7, <2>8, <2>9, <2>10 DEF Next
<1>2. PICK h : /\ Drains(db, queue, h)
               /\ Good(h, queue, session, answer, mem, nextId, unseen)
  BY <1>1 DEF Inv
<1> HIDE DEF Goal
<1>3. ASSUME NEW p \in Players, Login(p) PROVE Goal
  BY <1>2, <1>3, LoginGood DEF Goal
<1>4. ASSUME NEW p \in Players, EnterWorld(p) PROVE Goal
  BY <1>2, <1>4, EnterGood DEF Goal
<1>5. ASSUME NEW p \in Players, Logout(p) PROVE Goal
  BY <1>2, <1>5, LogoutGood DEF Goal
<1>6. ASSUME NEW p \in Players, NEW q \in Players, NEW gold \in Gold, NEW cod \in COD,
             NEW items \in SUBSET Items, SendMail(p, q, gold, cod, items)
      PROVE  Goal
  BY <1>2, <1>6, SendGood DEF Goal
<1>7. ASSUME NEW p \in Players, NEW id \in Ids, MarkAsRead(p, id) PROVE Goal
  BY <1>2, <1>7, MarkGood DEF Goal
<1>8. ASSUME NEW p \in Players, NEW id \in Ids, Delete(p, id) PROVE Goal
  BY <1>2, <1>8, DeleteGood DEF Goal
<1>9. ASSUME NEW p \in Players, NEW id \in Ids, ReturnToSender(p, id) PROVE Goal
  BY <1>2, <1>9, BackGood DEF Goal
<1>10. ASSUME NEW p \in Players, NEW id \in Ids, TakeMoney(p, id) PROVE Goal
  BY <1>2, <1>10, TakeMoneyGood DEF Goal
<1>11. ASSUME NEW p \in Players, NEW id \in Ids, NEW i \in Items, TakeItem(p, id, i) PROVE Goal
  BY <1>2, <1>11, TakeItemGood DEF Goal
<1>12. ASSUME NEW id \in Ids, Scan(id) PROVE Goal
  BY <1>2, <1>12, ScanGood DEF Goal
<1>13. ASSUME Execute PROVE Goal
  BY <1>2, <1>13, ExecuteGood DEF Goal
<1>14. ASSUME Crash PROVE Goal
  BY <1>2, <1>14, CrashGood DEF Goal
<1>15. CASE UNCHANGED vars
  BY <1>2, <1>15 DEF Goal, vars
<1> QED BY <1>3, <1>4, <1>5, <1>6, <1>7, <1>8, <1>9, <1>10, <1>11, <1>12, <1>13, <1>14, <1>15 DEF Next

LEMMA InvAlways == Spec => [](TypeInv /\ Inv)
<1>1. Init => TypeInv /\ Inv
  BY TypeInit, InvInit
<1>2. TypeInv /\ Inv /\ [Next]_vars => (TypeInv /\ Inv)'
  BY TypeStep, InvStep
<1> QED BY <1>1, <1>2, PTL DEF Spec

----------------------------------------------------------------------------
(* What follows from it.                                                    *)

\* Wherever the process stops, after any prefix of what was enqueued, each item
\* is in one inventory or in one mail of the tables, a destroyed one in none,
\* and mail has made no gold: one transaction holds both sides of every move
\* (HandleSendMail, HandleMailTakeItem, HandleMailTakeMoney, _SaveMail).  Like
\* the next two, until ReturnOrDeleteOldMails looks at a mail that something
\* queued is about, or whose receiver is loading.
THEOREM DurableOnceAlways == Spec => []DurableOnce
<1>1. ASSUME TypeInv, Inv PROVE DurableOnce
  <2> SUFFICES ASSUME ~raced
               PROVE  /\ \A i \in Items : IF i \in db.alive THEN (db.inv[i] # Nobody) # InMail(db, i)
                                          ELSE db.inv[i] = Nobody
                      /\ Wealth(db) <= StartGold * Cardinality(Players)
    BY DEF DurableOnce
  <2>1. PICK h : /\ Drains(db, queue, h)
                 /\ Good(h, queue, session, answer, mem, nextId, unseen)
    BY <1>1 DEF Inv
  <2>2. Whole(db) /\ Wealth(db) <= Bound
    <3>1. 0 \in 0 .. Len(queue) /\ h[0] = db
      BY <1>1, <2>1, LenProperties DEF TypeInv, Drains
    <3> QED BY <2>1, <3>1 DEF Good
  <2>3. ASSUME NEW i \in Items
        PROVE  IF i \in db.alive THEN (db.inv[i] # Nobody) # InMail(db, i) ELSE db.inv[i] = Nobody
    <3>1. /\ db.at[i] # 0 => db.row[db.at[i]] # NoRow
          /\ i \in db.alive /\ db.at[i] # 0 => db.inv[i] = Nobody
          /\ i \in db.alive /\ db.at[i] = 0 => db.inv[i] # Nobody
          /\ i \notin db.alive => db.inv[i] = Nobody
      BY <2>2 DEF Whole
    <3>2. InMail(db, i) <=> db.at[i] # 0
      BY <3>1 DEF InMail
    <3>3. CASE db.at[i] = 0
      BY <3>1, <3>2, <3>3, Zenon DEF InMail
    <3>4. CASE db.at[i] # 0
      BY <3>1, <3>2, <3>4, Zenon DEF InMail
    <3> QED BY <3>3, <3>4
  <2> QED BY <2>2, <2>3 DEF Bound
<1> QED BY <1>1, InvAlways, PTL

LEMMA HeldIs ==
    ASSUME TypeInv, NEW h, Drains(db, queue, h),
           Good(h, queue, session, answer, mem, nextId, unseen),
           NEW w, w = h[Len(queue)], NEW p \in Players, NEW i \in Holds(p)
    PROVE  i \in Items /\ i \in w.alive /\ Owned(p, w, i)
<1>1. /\ w \in World /\ mem[p] \in Memory
      /\ session[p] # "in" => mem[p] = Absent
      /\ session[p] = "in" => Fits(p, mem[p], unseen, w)
  BY NowFacts
<1>2. w.alive \subseteq Items
  BY <1>1, WorldFacts
<1>3. PICK m : m = mem[p]
  OBVIOUS
<1>4. i \in m.bag \/ \E id \in Ids : m.box[id] # NoMail /\ i \in m.box[id].items
  <2>1. NoMail.state = "none"
    BY DEF NoMail
  <2> QED BY <1>3, <2>1 DEF Holds, InState
<1>5. m # Absent
  BY <1>4 DEF Absent
<1>6. Fits(p, m, unseen, w)
  BY <1>1, <1>3, <1>5
<1>7. CASE i \in m.bag
  BY <1>2, <1>6, <1>7 DEF Fits, Owned
<1>8. ASSUME NEW id \in Ids, m.box[id] # NoMail, i \in m.box[id].items
      PROVE  i \in Items /\ i \in w.alive /\ Owned(p, w, i)
  <2>1. IsTo(w, id, p) /\ m.box[id].items = ItemsOf(w, id)
    BY <1>6, <1>8 DEF Fits, FitsMail
  <2>2. i \in w.alive /\ w.at[i] = id /\ id # 0
    BY <1>8, <2>1 DEF ItemsOf, Ids
  <2> QED BY <1>2, <2>1, <2>2 DEF Owned
<1> QED BY <1>4, <1>7, <1>8

\* No item is with two players in the world, nor twice with one: a box entered
\* with the answer of a load and the boxes others changed meanwhile agree.
THEOREM OneHolderAlways == Spec => []OneHolder
<1>1. ASSUME TypeInv, Inv PROVE OneHolder
  <2> SUFFICES ASSUME ~raced
               PROVE  /\ \A p, q \in Players : p # q => Holds(p) \cap Holds(q) = {}
                      /\ \A p \in Players, id \in Ids :
                           mem[p].box[id] # NoMail => mem[p].bag \cap mem[p].box[id].items = {}
    BY DEF OneHolder
  <2>1. PICK h : /\ Drains(db, queue, h)
                 /\ Good(h, queue, session, answer, mem, nextId, unseen)
    BY <1>1 DEF Inv
  <2>2. PICK w : w = h[Len(queue)]
    OBVIOUS
  <2>3. /\ w \in World /\ Whole(w)
        /\ \A p \in Players : session[p] # "in" => mem[p] = Absent
        /\ \A p \in Players : session[p] = "in" => Fits(p, mem[p], unseen, w)
    BY <1>1, <2>1, <2>2, NowFacts
  <2>4. ASSUME NEW p \in Players, NEW q \in Players, NEW i, i \in Holds(p), i \in Holds(q)
        PROVE  p = q
    <3>1. i \in Items /\ i \in w.alive /\ Owned(p, w, i)
      BY <1>1, <2>1, <2>2, <2>4, HeldIs
    <3>2. Owned(q, w, i)
      BY <1>1, <2>1, <2>2, <2>4, HeldIs
    <3>3. w.at[i] # 0 => w.inv[i] = Nobody
      BY <2>3, <3>1 DEF Whole
    <3>4. p # Nobody /\ q # Nobody
      BY NobodyAssumption
    <3> QED BY <3>1, <3>2, <3>3, <3>4 DEF Owned, IsTo
  <2>5. ASSUME NEW p \in Players, NEW id \in Ids, mem[p].box[id] # NoMail,
               NEW i, i \in mem[p].bag, i \in mem[p].box[id].items
        PROVE  FALSE
    <3>1. mem[p] # Absent
      BY <2>5 DEF Absent
    <3>2. Fits(p, mem[p], unseen, w)
      BY <2>3, <3>1
    <3>3. i \in w.alive /\ w.inv[i] = p /\ mem[p].box[id].items = ItemsOf(w, id)
      BY <2>5, <3>2 DEF Fits, FitsMail
    <3>4. i \in w.alive /\ w.at[i] = id /\ id # 0
      BY <2>5, <3>3 DEF ItemsOf, Ids
    <3>5. i \in Items
      BY <2>3, <3>3, WorldFacts
    <3>6. w.inv[i] = Nobody
      BY <2>3, <3>4, <3>5 DEF Whole
    <3> QED BY <3>3, <3>6, NobodyAssumption
  <2> QED BY <2>4, <2>5
<1> QED BY <1>1, InvAlways, PTL

\* What a player in the world has in memory is what the database will have once
\* the queue is executed, so a crash later than that loses none of it: the box
\* lacks only mails that SendMailTo and the expiry could not show (unseen).
THEOREM MemoryAheadAlways == Spec => []MemoryAhead
<1>1. ASSUME TypeInv, Inv PROVE MemoryAhead
  <2>1. ASSUME ~raced, NEW p \in Players, session[p] = "in"
        PROVE  /\ mem[p].gold = Load(Future, p).gold /\ mem[p].bag = Load(Future, p).bag
               /\ \A id \in Ids :
                    IF mem[p].box[id] = NoMail THEN Load(Future, p).box[id] # NoMail => id \in unseen
                    ELSE /\ Load(Future, p).box[id] # NoMail
                         /\ mem[p].box[id].items = Load(Future, p).box[id].items
                         /\ mem[p].box[id].row.gold = Load(Future, p).box[id].row.gold
                         /\ mem[p].box[id].row.cod = Load(Future, p).box[id].row.cod
    <3>1. PICK h : /\ Drains(db, queue, h)
                   /\ Good(h, queue, session, answer, mem, nextId, unseen)
      BY <1>1, <2>1 DEF Inv
    <3>2. PICK w, f : w = h[Len(queue)] /\ f = Load(w, p)
      OBVIOUS
    <3>3. w \in World /\ Fits(p, mem[p], unseen, w)
      BY <1>1, <2>1, <3>1, <3>2, NowFacts
    <3>4. Future = w
      BY <1>1, <3>1, <3>2, FutureIs DEF TypeInv
    <3>5. /\ f.gold = w.gold[p] /\ f.bag = {i \in w.alive : w.inv[i] = p}
          /\ \A id \in Ids :
               /\ ~IsTo(w, id, p) => f.box[id] = NoMail
               /\ IsTo(w, id, p) => /\ f.box[id] = Put(w.row[id], ItemsOf(w, id), "unchanged")
                                    /\ f.box[id] \in Letters
      BY <3>2, <3>3, LoadFacts
    <3>6. ASSUME NEW id \in Ids
          PROVE  IF mem[p].box[id] = NoMail THEN f.box[id] # NoMail => id \in unseen
                 ELSE /\ f.box[id] # NoMail /\ mem[p].box[id].items = f.box[id].items
                      /\ mem[p].box[id].row.gold = f.box[id].row.gold
                      /\ mem[p].box[id].row.cod = f.box[id].row.cod
      <4>1. FitsMail(p, mem[p].box, unseen, w, id)
        BY <3>3 DEF Fits
      <4>2. IsTo(w, id, p) => /\ f.box[id] # NoMail /\ f.box[id].row = w.row[id]
                              /\ f.box[id].items = ItemsOf(w, id)
        BY <3>5, LetterFacts, PutExcept
      <4> QED BY <3>5, <4>1, <4>2 DEF FitsMail
    <3> QED BY <3>2, <3>3, <3>4, <3>5, <3>6 DEF Fits
  <2> QED BY <2>1 DEF MemoryAhead
<1> QED BY <1>1, InvAlways, PTL
=============================================================================
