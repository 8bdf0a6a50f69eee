--------------------------- MODULE EconomyInvariant ---------------------------
(***************************************************************************)
(* The definitions EconomyProofs needs to speak of Economy: the sets that  *)
(* tables, statements and operations are in, the state of a handler as a   *)
(* record, the operations the handlers submit, the inductive invariant     *)
(* IInv (memory and the settled database agree, whatever is pending, and   *)
(* an item's way to its settled place can be followed operation by         *)
(* operation), and the sums that say where the money is.                   *)
(***************************************************************************)
EXTENDS Economy

-----------------------------------------------------------------------------
(* Loops as runs: the folds of the model, step by step. *)

(* The loop of SqlTransaction::Execute over its statements. *)
NextFold(base, seq) == Fold(ExecuteNext, base, seq)
TransactionFold(base, seq) == Fold(ExecuteTransaction, base, seq)

-----------------------------------------------------------------------------
(* Types of the database, the statements and the operations. *)

(* The tables of the database are finite; ids are numbers. *)
FiniteNats == {D \in SUBSET Nat : IsFiniteSet(D)}
Table(R) == {t \in UNION {[D -> R] : D \in FiniteNats} : \A x \in DOMAIN t : t[x].id = x}

AuctionRow == {a \in Auction : /\ a.buyout = Buyout
                               /\ Buyout # 0 => a.bid < Buyout
                               /\ a.bidder = Nobody => a.bid = 0}

Letter == [id : Nat, from : Players \cup {Nobody}, to : Players \cup {Nobody}, money : Nat, cod : Nat,
           item : Items \cup {Nobody}, kind : {"normal", "auction"}, deleted : BOOLEAN]

MailRow == {m \in Letter : m.item = Nobody}

Enclosures == {E \in SUBSET (Nat \X Items) : IsFiniteSet(E)}

Db == [money : [Players -> 0 .. MaxMoney], inventory : [Items -> Players \cup {Nobody}],
       auction : Table(AuctionRow), mail : Table(MailRow), mailItems : Enclosures]

GoldStatement == [does : {"gold"}, player : Players, money : 0 .. MaxMoney]
CarryStatement == [does : {"carry"}, item : Items, player : Players]
MoveStatement == [does : {"move"}, item : Items, player : Players]
DropStatement == [does : {"drop"}, item : Items]
ListStatement == {st \in [does : {"list"}, auction : Nat, item : Items, row : AuctionRow] :
                    st.row.id = st.auction /\ st.row.item = st.item}
BidStatement == {st \in [does : {"bid"}, auction : Nat, bidder : Players, bid : Nat] :
                    Buyout # 0 => st.bid < Buyout}
UnlistStatement == [does : {"unlist"}, auction : Nat, item : Items]
MailStatement == {st \in [does : {"mail"}, mail : Nat, row : MailRow] : st.row.id = st.mail}
EncloseStatement == [does : {"enclose"}, mail : Nat, item : Items]
UpdateStatement == [does : {"update"}, mail : Nat, money : Nat, cod : Nat]
DeleteStatement == [does : {"delete"}, mail : Nat]
RemoveStatement == [does : {"remove"}, item : Items]
EmptyStatement == [does : {"empty"}, mail : Nat]

Statement == UNION {GoldStatement, CarryStatement, MoveStatement, DropStatement, ListStatement, BidStatement,
                    UnlistStatement, MailStatement, EncloseStatement, UpdateStatement, DeleteStatement,
                    RemoveStatement, EmptyStatement}

(* An operation saves the money of the player whose serial id it has, of      *)
(* nobody else.                                                               *)
Operation == {op \in [serial : Players \cup {Nobody}, statements : Seq(Statement)] :
                \A st \in ToSet(op.statements) : st.does = "gold" => st.player = op.serial}

(* The statement keeps databases in S. *)
Keeps(S, st) == \A d \in S : ~DuplicateKey(d, st) => ExecuteStatement(d, st) \in S
KeepsRollback(S, db) == \A d \in S : [d EXCEPT !.money = db.money, !.mail = db.mail] \in S

(* Where the loop over the statements of a transaction is. *)
At == [db : Db, failed : BOOLEAN]

(* The operations that the handlers hand over. *)
Start(db) == [db |-> db, failed |-> FALSE]

Op(serial, sts) == [serial |-> serial, statements |-> sts]

(* ROLLBACK restores the tables with transactions: characters and mail. *)
Rollback(d, db) == [d EXCEPT !.money = db.money, !.mail = db.mail]

-----------------------------------------------------------------------------
(* What the operations of the handlers do to the database. *)

(* What an operation says of mails: which it inserts, which it changes. *)
Inserts(op, m, p) == \E st \in ToSet(op.statements) : st.does = "mail" /\ st.mail = m /\ st.row.to = p
Inserting(op, m) == \E st \in ToSet(op.statements) : st.does = "mail" /\ st.mail = m
Touching(op, m) == \E st \in ToSet(op.statements) : st.does \in {"update", "delete"} /\ st.mail = m

NoMail(op) == \A m : ~Inserting(op, m) /\ ~Touching(op, m)

SerialIds == Players \cup {Nobody}

(* An operation, its serial id and its statements. *)
OpFacts(op, serial, S) ==
  /\ op \in Operation
  /\ op.serial = serial
  /\ ToSet(op.statements) = S

(* A database by its tables. *)
Becomes(e, money, inventory, auction, mail, mailItems) ==
  /\ e.money = money
  /\ e.inventory = inventory
  /\ e.auction = auction
  /\ e.mail = mail
  /\ e.mailItems = mailItems

(* The operations of the handlers, by their statements. *)
SaveOp(p, v) == Op(p, <<SaveGold(p, v)>>)
ListOp(a, p, v) == Op(p, <<DeleteInventory(a.item), InsertAuction(a), SaveGold(p, v)>>)
BidOp(a) == Op(Nobody, <<UpdateAuction(a)>>)
UnlistOp(a) == Op(Nobody, <<DeleteAuction(a)>>)
CancelOp(a, p, v) == Op(p, <<DeleteAuction(a), SaveGold(p, v)>>)
MailOp(m) == Op(Nobody, <<InsertMail(m)>>)
ParcelOp(r, m) == Op(Nobody, <<InsertMail(r), InsertMailItem(m)>>)
DropOp(i, p) == Op(p, <<DeleteInventory(i)>>)
MoneyOp(m, p, v) == Op(p, <<UpdateMail(m), SaveGold(p, v)>>)
ItemOp(m, i, p, v) == Op(p, <<InsertInventory(i, p), SaveGold(p, v), UpdateMail(m), DeleteMailItem(i)>>)
ReturnOp(m, p) == Op(p, <<DeleteMail(m), DeleteMailItems(m)>>)

(* mail_items without an item, without a mail; mail with a row saved,         *)
(* deleted.                                                                   *)
Extracted(items, i) == {r \in items : r[2] # i}
Cleared(items, m) == {r \in items : r[1] # m}

UpdatedMail(db, m) ==
  IF m.id \in DOMAIN db.mail
  THEN [db.mail EXCEPT ![m.id] = [db.mail[m.id] EXCEPT !.money = m.money, !.cod = m.cod]] ELSE db.mail

DeletedMail(db, m) ==
  IF m.id \in DOMAIN db.mail
  THEN [db.mail EXCEPT ![m.id] = [db.mail[m.id] EXCEPT !.deleted = TRUE]] ELSE db.mail

Taking(m, i, p, v) == {InsertInventory(i, p), SaveGold(p, v), UpdateMail(m), DeleteMailItem(i)}

(* The statements of a trade and what they make of the inventory. *)
Moves(items, p) == {UpdateInventory(i, p) : i \in items}
TradeOp(items, p, v) == Op(p, StoreItems(items, p) \o <<SaveGold(p, v)>>)

Arrived(db, items, p) ==
  [i \in Items |-> IF i \in items /\ db.inventory[i] # Nobody THEN p ELSE db.inventory[i]]

(* The database after k of the moves. *)
MovedTo(d, db, sts, k, p) ==
  /\ d \in Db
  /\ Becomes(d, db.money, d.inventory, db.auction, db.mail, db.mailItems)
  /\ \A i \in Items : d.inventory[i] =
       IF (\E j \in 1 .. k : sts[j].item = i) /\ db.inventory[i] # Nobody THEN p ELSE db.inventory[i]

-----------------------------------------------------------------------------
(* The state of a handler and the operations it hands over. *)

(* The mailbox of a player. *)
Box(p) == {b \in Table(Letter) : \A m \in DOMAIN b : b[m].to = p /\ ~b[m].deleted}

Record(s) ==
  s \in [wallet : {s.wallet}, bag : {s.bag}, mailbox : {s.mailbox}, auctions : {s.auctions},
         nextAuction : {s.nextAuction}, nextMail : {s.nextMail}, pending : {s.pending},
         settled : {s.settled}, spoiled : {s.spoiled}, burnt : {s.burnt}]

(* The types of the record of the state that handlers work on. *)
Typed(s) ==
  /\ Record(s)
  /\ s.wallet \in [Players -> 0 .. MaxMoney]
  /\ s.bag \in [Players -> SUBSET Items]
  /\ DOMAIN s.mailbox = Players
  /\ s.mailbox = [p \in Players |-> s.mailbox[p]]
  /\ \A p \in Players : s.mailbox[p] \in Box(p)
  /\ s.auctions \in Table(AuctionRow)
  /\ s.nextAuction \in Nat /\ s.nextMail \in Nat
  /\ s.pending \in Seq(Operation)
  /\ s.settled \in Db
  /\ s.burnt \in Nat

SameMemory(s, t) ==
  /\ t.wallet = s.wallet /\ t.bag = s.bag /\ t.mailbox = s.mailbox /\ t.auctions = s.auctions
  /\ t.nextAuction = s.nextAuction /\ t.nextMail = s.nextMail /\ t.burnt = s.burnt

SameDatabase(s, t) == t.pending = s.pending /\ t.settled = s.settled /\ t.spoiled = s.spoiled

(* t is s after op was handed over. *)
Submitted(s, t, op) ==
  /\ Typed(t)
  /\ SameMemory(s, t)
  /\ t.pending = Append(s.pending, op)
  /\ t.settled = ExecuteTransaction(s.settled, op)
  /\ s.spoiled \subseteq t.spoiled
  /\ Keys(op) \cap s.spoiled # {} => Keys(op) \subseteq t.spoiled

(* settled is what the rows become when the queue is executed in order. *)
Settles(s, db) == s.settled = TransactionFold(db, s.pending)

-----------------------------------------------------------------------------
(* The rows and the queue: Based. *)

(* The mail is, was or will be one of the player's: only he may change it. *)
Claim(s, db, m, p) ==
  \/ m \in DOMAIN db.mail /\ db.mail[m].to = p
  \/ m \in DOMAIN s.mailbox[p]
  \/ \E n \in 1 .. Len(s.pending) :
        \/ Inserts(s.pending[n], m, p)
        \/ s.pending[n].serial = p /\ Touching(s.pending[n], m)

(* A mail has one receiver, in memory, in the rows and in the queue. *)
OneReceiver(s, db) == \A m \in Nat : \A p, q \in Players : Claim(s, db, m, p) /\ Claim(s, db, m, q) => p = q

(* The ids of mails are below the next one. *)
Numbered(s, db) ==
  /\ \A m \in Nat : \A p \in Players : Claim(s, db, m, p) => m < s.nextMail
  /\ \A m \in DOMAIN db.mail : m < s.nextMail
  /\ \A m \in DOMAIN s.settled.mail : m < s.nextMail

(* A mail is inserted once, with an id no row has. *)
NewMails(s, db) ==
  \A m \in Nat : \A n \in 1 .. Len(s.pending) : Inserting(s.pending[n], m) =>
    /\ m < s.nextMail
    /\ m \notin DOMAIN db.mail
    /\ \A k \in 1 .. Len(s.pending) : Inserting(s.pending[k], m) => k = n

(* Operations that change a mail carry the serial id of a player: his others  *)
(* wait for them, and his login.                                              *)
Signed(s) == \A n \in 1 .. Len(s.pending) : \A m : Touching(s.pending[n], m) => s.pending[n].serial \in Players

(* What the order of the queue rests on: the part of the invariant about the  *)
(* rows and the operations that are pending.                                  *)
Based(s, db) ==
  /\ Typed(s)
  /\ db \in Db
  /\ Settles(s, db)
  /\ OneReceiver(s, db)
  /\ Numbered(s, db)
  /\ NewMails(s, db)
  /\ Signed(s)

-----------------------------------------------------------------------------
(* Mails and payments. *)

(* A mail before MailDraft::SendMailTo gives it an id. *)
Draft == [from : SerialIds, to : SerialIds, money : Nat, cod : Nat, item : Items \cup {Nobody},
          kind : {"normal", "auction"}]

Sent(s, mail) == [id |-> s.nextMail, from |-> mail.from, to |-> mail.to, money |-> mail.money,
                  cod |-> mail.cod, item |-> mail.item, kind |-> mail.kind, deleted |-> FALSE]
Opened(m) == [m EXCEPT !.item = Nobody]
SendOp(m) == IF m.item = Nobody THEN MailOp(Opened(m)) ELSE ParcelOp(Opened(m), m)

(* t is s after the mail m was sent. *)
IsSent(s, t, m) ==
  /\ Typed(t)
  /\ t.wallet = s.wallet /\ t.bag = s.bag /\ t.auctions = s.auctions
  /\ t.nextAuction = s.nextAuction /\ t.burnt = s.burnt /\ t.nextMail = s.nextMail + 1
  /\ \A p \in Players : t.mailbox[p] = IF p = m.to /\ p \in online THEN With(s.mailbox[p], m.id, m) ELSE s.mailbox[p]
  /\ t.pending = Append(s.pending, SendOp(m))
  /\ t.settled = ExecuteTransaction(s.settled, SendOp(m))
  /\ s.spoiled \subseteq t.spoiled
  /\ Keys(SendOp(m)) \cap s.spoiled # {} => Keys(SendOp(m)) \subseteq t.spoiled

(* t is s but for the money of the players in P. *)
IsPaid(s, t, P) ==
  /\ Typed(t)
  /\ \A q \in Players \ P : t.wallet[q] = s.wallet[q]
  /\ t.bag = s.bag /\ t.mailbox = s.mailbox /\ t.auctions = s.auctions
  /\ t.nextAuction = s.nextAuction /\ t.nextMail = s.nextMail
  /\ SameDatabase(s, t)

(* What was received and what was paid, or lost above the limit, add up. *)
Accounted(s, t, p, gain, loss) ==
  loss <= s.wallet[p] + gain => t.wallet[p] + t.burnt + loss = s.wallet[p] + s.burnt + gain

-----------------------------------------------------------------------------
(* Memory and the settled database: Agrees. *)

(* Where the database says an item is, and that it is in one place at most. *)
Has(table, i, a) == a \in DOMAIN table /\ table[a].item = i
SameRow(t, u, a) == (a \in DOMAIN t <=> a \in DOMAIN u) /\ (a \in DOMAIN t => t[a] = u[a])

Single(db, i) ==
  /\ \A a, b \in DOMAIN db.auction : db.auction[a].item = i /\ db.auction[b].item = i => a = b
  /\ \A m, n \in Nat : <<m, i>> \in db.mailItems /\ <<n, i>> \in db.mailItems => m = n
  /\ db.inventory[i] # Nobody => /\ \A a \in DOMAIN db.auction : db.auction[a].item # i
                                 /\ \A m \in Nat : <<m, i>> \notin db.mailItems
  /\ \A a \in DOMAIN db.auction : db.auction[a].item = i => \A m \in Nat : <<m, i>> \notin db.mailItems

Free(db, i) ==
  /\ db.inventory[i] = Nobody
  /\ \A a \in DOMAIN db.auction : db.auction[a].item # i
  /\ \A m \in Nat : <<m, i>> \notin db.mailItems

(* Bags, auctions and mails agree with the database about the item, which is  *)
(* in one place at most.                                                      *)
Held(s, on, i) ==
  /\ \A p \in on : s.settled.inventory[i] = p <=> i \in s.bag[p]
  /\ \A a \in Nat : Has(s.auctions, i, a) <=> Has(s.settled.auction, i, a)
  /\ \A p \in on : \A m \in DOMAIN s.mailbox[p] : s.mailbox[p][m].item = i => <<m, i>> \in s.settled.mailItems
  /\ Single(s.settled, i)

(* The parts of the agreement of memory and settled database; on is who is    *)
(* online.                                                                    *)
MoneyAgrees(s, p) == <<"money", p>> \in s.spoiled \/ s.settled.money[p] = s.wallet[p]
AuctionAgrees(s, a) == <<"auction", a>> \in s.spoiled \/ SameRow(s.auctions, s.settled.auction, a)
MailAgrees(s, p, m) ==
  <<"mail", m>> \in s.spoiled \/ (m \in DOMAIN s.settled.mail /\ s.settled.mail[m] = Opened(s.mailbox[p][m]))
ItemAgrees(s, on, i) == <<"item", i>> \in s.spoiled \/ Held(s, on, i)

Away(s, p) == s.wallet[p] = 0 /\ s.bag[p] = {} /\ s.mailbox[p] = <<>>

(* Memory and the settled database agree on all that is not spoiled, the      *)
(* money of the players in P excepted: between two calls of a handler it is   *)
(* not saved yet.                                                             *)
Agrees(s, on, P) ==
  /\ \A p \in Players \ on : Away(s, p)
  /\ \A p \in on \ P : MoneyAgrees(s, p)
  /\ \A a \in Nat : AuctionAgrees(s, a)
  /\ \A p \in on : \A m \in DOMAIN s.mailbox[p] : MailAgrees(s, p, m)
  /\ \A i \in Items : ItemAgrees(s, on, i)

(* Nothing changes for those who are away. *)
Apart(t, s, on) ==
  \A p \in Players \ on : t.wallet[p] = s.wallet[p] /\ t.bag[p] = s.bag[p] /\ t.mailbox[p] = s.mailbox[p]

(* The rows of a mail that was sent. *)
Encloses(t, s, m) ==
  /\ t.settled.money = s.settled.money
  /\ t.settled.inventory = s.settled.inventory
  /\ t.settled.auction = s.settled.auction
  /\ DOMAIN t.settled.mail = DOMAIN s.settled.mail \cup {m.id}
  /\ t.settled.mail[m.id] = Opened(m)
  /\ \A n \in DOMAIN s.settled.mail : n # m.id => t.settled.mail[n] = s.settled.mail[n]
  /\ \A n \in Nat : \A i \in Items :
        <<n, i>> \in t.settled.mailItems <=> <<n, i>> \in s.settled.mailItems \/ (n = m.id /\ i = m.item)

(* The mailboxes after a mail was sent. *)
Receives(t, s, m) ==
  \A p \in Players :
    \/ t.mailbox[p] = s.mailbox[p]
    \/ /\ p = m.to /\ p \in online
       /\ DOMAIN t.mailbox[p] = DOMAIN s.mailbox[p] \cup {m.id}
       /\ t.mailbox[p][m.id] = m
       /\ \A n \in DOMAIN s.mailbox[p] : n # m.id => t.mailbox[p][n] = s.mailbox[p][n]

-----------------------------------------------------------------------------
(* The way of an item through the bags: Ordered. *)

(* The operation takes the item from holder x to holder y; if it moves it, it *)
(* names it, and a player who gains or loses it is the one whose serial id    *)
(* the operation has, or it moves in a trade.                                 *)
Leads(op, i, x, y) ==
  /\ \A d \in Db : d.inventory[i] = x => ExecuteTransaction(d, op).inventory[i] = y
  /\ x # y => /\ <<"item", i>> \in Keys(op)
              /\ \/ \E st \in ToSet(op.statements) : st.does = "move" /\ st.item = i
                 \/ x = op.serial /\ y = Nobody
                 \/ x = Nobody /\ y = op.serial

(* h is the way of the item from the bag the rows have it in to the bag the   *)
(* settled database has it in, one step per operation of the queue.           *)
Route(h, s, db, i) ==
  /\ h \in [0 .. Len(s.pending) -> SerialIds]
  /\ h[0] = db.inventory[i]
  /\ h[Len(s.pending)] = s.settled.inventory[i]
  /\ \A k \in 1 .. Len(s.pending) : Leads(s.pending[k], i, h[k - 1], h[k])

Routed(s, db, i) == \E h : Route(h, s, db, i)

(* Items that are not spoiled and that no operation overtook have a route. *)
Ordered(s, db, late) == \A i \in Items : <<"item", i>> \in s.spoiled \/ i \in late \/ Routed(s, db, i)

(* The operation moves no item from or to a bag. *)
Stationary(op) == \A d \in Db : ExecuteTransaction(d, op).inventory = d.inventory

(* t is s after op was added to the queue, perhaps with more spoiled. *)
Adds(s, t, op) ==
  /\ t.pending = Append(s.pending, op)
  /\ t.settled = ExecuteTransaction(s.settled, op)
  /\ t.settled \in Db
  /\ s.spoiled \subseteq t.spoiled

-----------------------------------------------------------------------------
(* The auction house. *)

(* The invariant of a handler's state between two of its calls; P are those   *)
(* whose money is not saved yet.                                              *)
Sound(s, db, P) == Based(s, db) /\ Agrees(s, online, P) /\ Ordered(s, db, overtaken)

(* The steps of the auction house's handlers on memory. *)
Listed(s, p, a) ==
  [s EXCEPT !.auctions = With(@, a.id, a), !.nextAuction = a.id + 1, !.bag[p] = @ \ {a.item}]

Lists(t, s, p, a) ==
  /\ t.wallet = s.wallet /\ t.mailbox = s.mailbox /\ SameDatabase(s, t)
  /\ t.nextAuction = a.id + 1 /\ t.burnt = s.burnt
  /\ t.auctions = With(s.auctions, a.id, a)
  /\ \A q \in Players : t.bag[q] = IF q = p THEN s.bag[p] \ {a.item} ELSE s.bag[q]

(* An auction with another bidder. *)
Rebid(s, a, w) == [s EXCEPT !.auctions[a.id] = w]

(* The item of an auction is in the mail m and the auction is gone. *)
Gives(t, s, a, m) ==
  /\ t.bag = s.bag /\ t.wallet = s.wallet /\ s.spoiled \subseteq t.spoiled
  /\ Receives(t, s, m)
  /\ DOMAIN t.auctions = DOMAIN s.auctions \ {a.id}
  /\ \A b \in DOMAIN t.auctions : t.auctions[b] = s.auctions[b]
  /\ t.settled.inventory = s.settled.inventory
  /\ DOMAIN t.settled.auction = DOMAIN s.settled.auction \ {a.id}
  /\ \A b \in DOMAIN t.settled.auction : t.settled.auction[b] = s.settled.auction[b]
  /\ DOMAIN t.settled.mail = DOMAIN s.settled.mail \cup {m.id}
  /\ t.settled.mail[m.id] = Opened(m)
  /\ \A n \in DOMAIN s.settled.mail : n # m.id => t.settled.mail[n] = s.settled.mail[n]
  /\ \A n \in Nat : \A i \in Items :
        <<n, i>> \in t.settled.mailItems <=> <<n, i>> \in s.settled.mailItems \/ (n = m.id /\ i = m.item)

(* The price is not below the bid that was refunded. *)
Covers(price, a) == price \in Nat /\ a.bid <= price

-----------------------------------------------------------------------------
(* Mail. *)

(* An item is taken out of a bag. *)
Packed(s, p, i) == [s EXCEPT !.bag[p] = @ \ {i}]

Packs(t, s, p, i) ==
  /\ t.wallet = s.wallet /\ t.mailbox = s.mailbox /\ t.auctions = s.auctions /\ SameDatabase(s, t)
  /\ t.nextAuction = s.nextAuction /\ t.nextMail = s.nextMail /\ t.burnt = s.burnt
  /\ \A q \in Players : t.bag[q] = IF q = p THEN s.bag[p] \ {i} ELSE s.bag[q]

(* Every player has a mailbox. *)
Boxes(b) == DOMAIN b = Players /\ b = [q \in Players |-> b[q]] /\ \A q \in Players : b[q] \in Box(q)

(* A mail is rewritten in its mailbox. *)
Rewrite(b, p, id, l) == [b EXCEPT ![p] = [b[p] EXCEPT ![id] = l]]

(* t is s with the mail rewritten. *)
IsRewritten(s, t, p, id, l, P) ==
  /\ Typed(t)
  /\ \A q \in Players \ P : t.wallet[q] = s.wallet[q]
  /\ t.auctions = s.auctions /\ t.nextAuction = s.nextAuction /\ t.nextMail = s.nextMail
  /\ SameDatabase(s, t)
  /\ \A q \in Players : DOMAIN t.mailbox[q] = DOMAIN s.mailbox[q]
  /\ t.mailbox[p][id] = l
  /\ \A q \in Players : \A n \in DOMAIN s.mailbox[q] : q # p \/ n # id => t.mailbox[q][n] = s.mailbox[q][n]
  /\ \A q \in Players : q # p => t.mailbox[q] = s.mailbox[q]

(* The item of a mail is taken. *)
Taken(s, p, m) == [s EXCEPT !.mailbox[p][m.id].item = Nobody, !.mailbox[p][m.id].cod = 0,
                            !.bag[p] = @ \cup {m.item}]

Delivered(m) == [m EXCEPT !.item = Nobody, !.cod = 0]

(* The mailboxes with one mail rewritten. *)
Rewrites(t, s, p, id, l) ==
  /\ \A q \in Players : DOMAIN t.mailbox[q] = DOMAIN s.mailbox[q]
  /\ t.mailbox[p][id] = l
  /\ \A q \in Players : \A n \in DOMAIN s.mailbox[q] : q # p \/ n # id => t.mailbox[q][n] = s.mailbox[q][n]
  /\ \A q \in Players : q # p => t.mailbox[q] = s.mailbox[q]

Amended(m, l) == [Opened(m) EXCEPT !.money = l.money, !.cod = l.cod]

(* The save of an item that was taken. *)
SaveTaken(u, p, m) == Submit(u, p, <<InsertInventory(m.item, p), SaveGold(p, u.wallet[p])>>
                                     \o SaveMail(u.mailbox[p][m.id], m.item))

(* A mail is dropped from its mailbox. *)
Forgotten(s, p, m) == [s EXCEPT !.mailbox[p] = Without(@, {m.id})]

Forgets(t, s, p, id) ==
    /\ Typed(t) /\ SameDatabase(s, t)
    /\ t.wallet = s.wallet /\ t.bag = s.bag /\ t.auctions = s.auctions
    /\ t.nextAuction = s.nextAuction /\ t.nextMail = s.nextMail /\ t.burnt = s.burnt
    /\ \A q \in Players : \A n : n \in DOMAIN t.mailbox[q] <=> n \in DOMAIN s.mailbox[q] /\ (q # p \/ n # id)
    /\ \A q \in Players : \A n \in DOMAIN t.mailbox[q] : t.mailbox[q][n] = s.mailbox[q][n]
    /\ \A q \in Players : q # p => t.mailbox[q] = s.mailbox[q]

-----------------------------------------------------------------------------
(* Trade. *)

(* Two bags exchange items. *)
Swapped(s, p, q, mine, his) == [s EXCEPT !.bag[p] = (@ \ mine) \cup his, !.bag[q] = (@ \ his) \cup mine]

Swaps(t, s, p, q, mine, his) ==
    /\ t.wallet = s.wallet /\ t.mailbox = s.mailbox /\ t.auctions = s.auctions /\ SameDatabase(s, t)
    /\ t.nextAuction = s.nextAuction /\ t.nextMail = s.nextMail /\ t.burnt = s.burnt
    /\ t.bag[p] = (s.bag[p] \ mine) \cup his
    /\ t.bag[q] = (s.bag[q] \ his) \cup mine
    /\ \A r \in Players : r # p /\ r # q => t.bag[r] = s.bag[r]

(* t is s after one side of a trade was saved. *)
Trades(t, s, items, p) ==
    /\ t.wallet = s.wallet /\ t.bag = s.bag /\ t.mailbox = s.mailbox /\ t.auctions = s.auctions
    /\ t.nextAuction = s.nextAuction /\ t.nextMail = s.nextMail /\ t.burnt = s.burnt
    /\ s.spoiled \subseteq t.spoiled
    /\ t.settled.money = [s.settled.money EXCEPT ![p] = s.wallet[p]]
    /\ t.settled.inventory = Arrived(s.settled, items, p)
    /\ t.settled.auction = s.settled.auction
    /\ t.settled.mail = s.settled.mail
    /\ t.settled.mailItems = s.settled.mailItems

(* The auction HandleAuctionSellItem makes. *)
NewAuctionRow(s, p, i) ==
    [id |-> GenerateAuctionID(s), item |-> i, owner |-> p, startbid |-> StartBid,
     buyout |-> Buyout, deposit |-> Deposit, bidder |-> Nobody, bid |-> 0]

-----------------------------------------------------------------------------
(* Logout and login. *)

(* t is s with money, bag and mailbox of a player set. *)
Equips(t, s, p, v, things, box) ==
    /\ Record(t) /\ SameDatabase(s, t)
    /\ t.auctions = s.auctions /\ t.nextAuction = s.nextAuction /\ t.nextMail = s.nextMail /\ t.burnt = s.burnt
    /\ t.wallet[p] = v /\ t.bag[p] = things /\ t.mailbox[p] = box
    /\ \A q \in Players : q # p => /\ t.wallet[q] = s.wallet[q]
                                   /\ t.bag[q] = s.bag[q]
                                   /\ t.mailbox[q] = s.mailbox[q]

(* The statements that change a mail's row, a player's money. *)
Rewriting(st, m) == st.does \in {"mail", "update", "delete"} /\ st.mail = m
Paying(st, p) == st.does = "gold" /\ st.player = p

(* Where the rows of mail come from, and which stay. *)
MailOrigin(t, u, st) == \A m \in DOMAIN t :
    \/ st.does = "mail" /\ st.mail = m /\ st.row.to = t[m].to
    \/ m \in DOMAIN u /\ u[m].to = t[m].to
MailKept(t, u, st) == \A m \in DOMAIN u : ~Rewriting(st, m) => m \in DOMAIN t /\ t[m] = u[m]

(* How a login reads the item of a mail. *)
Enclosed(db, m) == {i \in Items : <<m, i>> \in db.mailItems}
Loaded(db, m) ==
    [db.mail[m] EXCEPT !.item = IF Enclosed(db, m) = {} THEN Nobody ELSE CHOOSE i \in Enclosed(db, m) : TRUE]

(* The items a login finds where they will not be once the queue is executed. *)
Misread(s, db, p) ==
    {<<"item", i>> : i \in {i \in Items :
        \/ db.inventory[i] # s.settled.inventory[i]
        \/ \E m \in DOMAIN LoadMails(db, p) : LoadMails(db, p)[m].item = i /\ <<m, i>> \notin s.settled.mailItems}}

-----------------------------------------------------------------------------
(* The workers of the database, and a restart. *)

(* Ids of mails below k. *)
Below(db, k) == \A m \in DOMAIN db.mail : m < k

(* The item is in the same places. *)
SameHolder(d, e, i) ==
    /\ d.inventory[i] = e.inventory[i]
    /\ \A a : Has(d.auction, i, a) <=> Has(e.auction, i, a)
    /\ \A m : <<m, i>> \in d.mailItems <=> <<m, i>> \in e.mailItems

(* t is s after a worker executed operation n. *)
Executed(t, s, db, n) ==
    /\ Record(t)
    /\ SameMemory(s, t)
    /\ t.pending = RemoveAt(s.pending, n)
    /\ t.settled = TransactionFold(ExecuteTransaction(db, s.pending[n]), t.pending)
    /\ t.spoiled = s.spoiled \cup Differences(s.settled, t.settled)

(* The items whose operations were executed out of order, once worker n of    *)
(* the queue is done: the history variable overtaken.                         *)
Overtakes(late, s, t, n) == {i \in Items :
    /\ \E m \in 1 .. Len(t.pending) : <<"item", i>> \in Keys(t.pending[m])
    /\ \/ i \in late
       \/ \E m \in 1 .. n - 1 : <<"item", i>> \in Keys(s.pending[m]) \cap Keys(s.pending[n])}

-----------------------------------------------------------------------------
(* The invariant and the theorems. *)

(* The three parts of the invariant, for the state of the specification. *)
Consistent == Based(State, rows) /\ Agrees(State, online, {}) /\ Ordered(State, rows, overtaken)

IInv ==
    /\ online \subseteq Players
    /\ Consistent
    /\ requests \subseteq Mails
    /\ calls \in 0 .. MaxCalls
    /\ relogs \in 0 .. MaxRelogs

-----------------------------------------------------------------------------
(* What a login reads. *)

(* What RelogLoadsSave says of a player who logs in. *)
ReadsSettled(p) ==
    /\ <<"money", p>> \in spoiled \/ wallet'[p] = settled.money[p]
    /\ \A i \in Items : \/ <<"item", i>> \in spoiled \/ i \in overtaken \/ Moving(i)
                        \/ i \in bag'[p] <=> settled.inventory[i] = p

-----------------------------------------------------------------------------
(* The money of the game: GoldConserved. *)

(* The money of the characters: of those in the world in memory, of the       *)
(* others in the database.                                                    *)
Purses(s) == [p \in Players |-> IF p \in online THEN s.wallet[p] ELSE s.settled.money[p]]

(* The bids and deposits of auctions, and the money of mails. *)
Stakes(house) == [a \in DOMAIN house |-> house[a].bid + house[a].deposit]
Posted(mails) == [m \in {m \in DOMAIN mails : ~mails[m].deleted} |-> mails[m].money]

(* All the money, as the handlers' record of the state has it. *)
Wealth(s) == Sum(Purses(s)) + Sum(Stakes(s.auctions)) + Sum(Posted(s.settled.mail)) + s.burnt

(* As long as nothing is spoiled there is x of it. *)
Balanced(s, x) == s.spoiled = {} => Wealth(s) = x

(* The characters' money is kept: those in the world have it in memory, the   *)
(* others in the database.                                                    *)
Kept(s, t) ==
  /\ t.wallet = s.wallet
  /\ t.burnt = s.burnt
  /\ s.spoiled \subseteq t.spoiled
  /\ \A p \in Players \ online : t.settled.money[p] = s.settled.money[p]

(* A state in the middle of a handler, and the money there is of it. *)
Amounts(s, db, x) == Based(s, db) /\ x \in Int /\ Balanced(s, x)

(* The money of a database: of characters, of auctions and of mails. *)
Accounts(db) == Sum(db.money) + Sum(Stakes(db.auction)) + Sum(Posted(db.mail))

(* What there is of it from the start. *)
Hoard == Money * Cardinality(Players)
================================================================================
