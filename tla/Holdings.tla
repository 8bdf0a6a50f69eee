-------------------------------- MODULE Holdings --------------------------------
(***************************************************************************)
(* What players own, in memory and in the database: money, items in bags,   *)
(* mails with money and items, items in the auction house.                  *)
(*                                                                          *)
(* The handlers change memory at once, in the world's thread, and hand the  *)
(* database operations over.  Those of a player's transactions carry his    *)
(* guid as serial id and are executed in order; the mails and the updates   *)
(* of auctions carry none, and the delay threads may execute them in any    *)
(* order relative to all the others: this is what AsyncDatabase promises.   *)
(* The tables are those of create_databases.sql, with their unique keys and *)
(* their engines: a failed transaction leaves what it did to MyISAM tables. *)
(*                                                                          *)
(* settled, spoiled and overtaken are history: the database if the           *)
(* operations were executed in the order they were handed over; the rows    *)
(* for which it no longer is what memory says because an operation overtook *)
(* another, or a login read where an item is before one that moves it; and  *)
(* the items with operations pending that one executed should have followed.*)
(* AuctionHouse, Mail and Trade describe the handlers, as functions of the  *)
(* state.                                                                   *)
(***************************************************************************)
EXTENDS Naturals, Sequences, FiniteSets, FiniteSetsExt, SequencesExt

CONSTANTS
    Players,        \* characters, each of an account of its own
    Items,          \* items that can be traded
    Nobody,         \* the guid 0
    Money,          \* what each character has at the start
    MaxMoney,       \* MAX_MONEY_AMOUNT
    MaxCalls,       \* bound: requests of players
    MaxPending,     \* bound: database operations pending when one more handler runs
    MaxRelogs       \* bound: logins, and restarts of the server

ASSUME NobodyAssumption == Nobody \notin Players \cup Items
ASSUME FiniteAssumption == IsFiniteSet(Players) /\ IsFiniteSet(Items)
ASSUME MoneyAssumption == Money \in Nat /\ MaxMoney \in Nat /\ Money <= MaxMoney
ASSUME BoundAssumption == MaxCalls \in Nat /\ MaxPending \in Nat /\ MaxRelogs \in Nat

VARIABLES
    online,         \* the characters in the world
    wallet,         \* GetMoney() of those online
    bag,            \* the items they carry
    mailbox,        \* MasterPlayer::m_mail of those online, by id
    auctions,       \* AuctionHouseObject::AuctionsMap, by id
    nextAuction,    \* ObjectMgr::m_NextAuctionId
    nextMail,       \* ObjectMgr::m_MailIds
    requests,       \* mails whose receiver's mailbox is being counted in the database
    rows,           \* the database
    pending,        \* operations handed over and not executed, in the order of submission
    settled,        \* history: the database once they are executed in that order
    spoiled,        \* history: rows that an operation executed out of that order changed
    overtaken,      \* history: items of which operations are executed in another order
    burnt,          \* history: money taken out of the game
    calls, relogs   \* bounds: requests and logins so far

memoryVars == <<wallet, bag, mailbox, auctions, nextAuction, nextMail>>
databaseVars == <<rows, pending, settled, spoiled, overtaken>>
vars == <<online, memoryVars, requests, databaseVars, burnt, calls, relogs>>

State == [wallet |-> wallet, bag |-> bag, mailbox |-> mailbox, auctions |-> auctions,
          nextAuction |-> nextAuction, nextMail |-> nextMail, pending |-> pending,
          settled |-> settled, spoiled |-> spoiled, burnt |-> burnt]

Become(state) == \E s \in {state} :
    /\ wallet' = s.wallet /\ bag' = s.bag /\ mailbox' = s.mailbox /\ auctions' = s.auctions
    /\ nextAuction' = s.nextAuction /\ nextMail' = s.nextMail /\ pending' = s.pending
    /\ settled' = s.settled /\ spoiled' = s.spoiled /\ burnt' = s.burnt

-----------------------------------------------------------------------------
(* The database. *)

Without(f, S) == [x \in DOMAIN f \ S |-> f[x]]
With(f, x, v) == [y \in DOMAIN f \cup {x} |-> IF y = x THEN v ELSE f[y]]

(* The state after a loop over seq, each step evaluated before the next one.  *)
Fold(Step(_, _), base, seq) ==
    LET after[i \in 0 .. Len(seq)] ==
            IF i = 0 THEN base ELSE CHOOSE r \in {Step(s, seq[i]) : s \in {after[i - 1]}} : TRUE
    IN  after[Len(seq)]

(* Statements.  An item or a mail id beside the key says what else is read.   *)
SaveGold(p, money) == [does |-> "gold", player |-> p, money |-> money]
InsertInventory(i, p) == [does |-> "carry", item |-> i, player |-> p]
UpdateInventory(i, p) == [does |-> "move", item |-> i, player |-> p]
DeleteInventory(i) == [does |-> "drop", item |-> i]
InsertAuction(a) == [does |-> "list", auction |-> a.id, item |-> a.item, row |-> a]
UpdateAuction(a) == [does |-> "bid", auction |-> a.id, bidder |-> a.bidder, bid |-> a.bid]
DeleteAuction(a) == [does |-> "unlist", auction |-> a.id, item |-> a.item]
InsertMail(m) == [does |-> "mail", mail |-> m.id, row |-> m]
InsertMailItem(m) == [does |-> "enclose", mail |-> m.id, item |-> m.item]
UpdateMail(m) == [does |-> "update", mail |-> m.id, money |-> m.money, cod |-> m.cod]
DeleteMail(m) == [does |-> "delete", mail |-> m.id]
DeleteMailItem(i) == [does |-> "remove", item |-> i]
DeleteMailItems(m) == [does |-> "empty", mail |-> m.id]

(* The primary key of character_inventory and the unique key on itemguid.     *)
DuplicateKey(db, st) ==
    \/ st.does = "carry" /\ db.inventory[st.item] # Nobody
    \/ st.does = "list" /\ \E a \in DOMAIN db.auction : db.auction[a].item = st.item

ExecuteStatement(db, st) ==
    CASE st.does = "gold" -> [db EXCEPT !.money[st.player] = st.money]
      [] st.does = "carry" -> [db EXCEPT !.inventory[st.item] = st.player]
      [] st.does = "move" ->
            IF db.inventory[st.item] = Nobody THEN db ELSE [db EXCEPT !.inventory[st.item] = st.player]
      [] st.does = "drop" -> [db EXCEPT !.inventory[st.item] = Nobody]
      [] st.does = "list" -> [db EXCEPT !.auction = With(@, st.auction, st.row)]
      [] st.does = "bid" ->
            IF st.auction \notin DOMAIN db.auction THEN db
            ELSE [db EXCEPT !.auction[st.auction].bidder = st.bidder, !.auction[st.auction].bid = st.bid]
      [] st.does = "unlist" -> [db EXCEPT !.auction = Without(@, {st.auction})]
      [] st.does = "mail" -> [db EXCEPT !.mail = With(@, st.mail, st.row)]
      [] st.does = "enclose" -> [db EXCEPT !.mailItems = @ \cup {<<st.mail, st.item>>}]
      [] st.does = "update" ->
            IF st.mail \notin DOMAIN db.mail THEN db
            ELSE [db EXCEPT !.mail[st.mail].money = st.money, !.mail[st.mail].cod = st.cod]
      [] st.does = "delete" ->
            IF st.mail \notin DOMAIN db.mail THEN db ELSE [db EXCEPT !.mail[st.mail].deleted = TRUE]
      [] st.does = "remove" -> [db EXCEPT !.mailItems = {r \in @ : r[2] # st.item}]
      [] st.does = "empty" -> [db EXCEPT !.mailItems = {r \in @ : r[1] # st.mail}]

(* A statement that fails ends its transaction: `characters` and `mail` are   *)
(* rolled back, `character_inventory`, `auction` and `mail_items` are not.    *)
ExecuteNext(at, st) ==
    IF at.failed THEN at
    ELSE IF DuplicateKey(at.db, st) THEN [at EXCEPT !.failed = TRUE]
    ELSE [at EXCEPT !.db = ExecuteStatement(@, st)]

ExecuteTransaction(db, op) ==
    LET end == Fold(ExecuteNext, [db |-> db, failed |-> FALSE], op.statements)
    IN  IF end.failed THEN [end.db EXCEPT !.money = db.money, !.mail = db.mail] ELSE end.db

(* The rows an operation is about. *)
Keys(op) == UNION {
    (IF "player" \in DOMAIN st THEN {<<"money", st.player>>} ELSE {})
      \cup (IF "item" \in DOMAIN st THEN {<<"item", st.item>>} ELSE {})
      \cup (IF "auction" \in DOMAIN st THEN {<<"auction", st.auction>>} ELSE {})
      \cup (IF "mail" \in DOMAIN st THEN {<<"mail", st.mail>>} ELSE {}) : st \in ToSet(op.statements)}

(* A request of a player in the world.                                       *)
Request(p) ==
    /\ p \in online /\ calls < MaxCalls /\ Len(pending) <= MaxPending
    /\ calls' = calls + 1
    /\ UNCHANGED <<online, rows, overtaken, relogs>>

(* Hand a transaction, or a statement outside of one, over: serial id Nobody  *)
(* stands for 0.  One about a spoiled row spoils what else it is about.       *)
Submit(s, serial, statements) ==
    LET op == [serial |-> serial, statements |-> statements]
    IN  [s EXCEPT !.pending = Append(@, op),
                  !.settled = ExecuteTransaction(@, op),
                  !.spoiled = IF Keys(op) \cap @ = {} THEN @ ELSE @ \cup Keys(op)]

(* Where the database has an item. *)
Place(db, i) == <<db.inventory[i],
                  {a \in DOMAIN db.auction : db.auction[a].item = i},
                  {r[1] : r \in {r \in db.mailItems : r[2] = i}}>>

Row(table, id) == IF id \in DOMAIN table THEN {table[id]} ELSE {}

(* The rows in which two databases differ. *)
Differences(d, e) ==
    {<<"money", p>> : p \in {p \in Players : d.money[p] # e.money[p]}}
      \cup {<<"item", i>> : i \in {i \in Items : Place(d, i) # Place(e, i)}}
      \cup {<<"auction", a>> : a \in {a \in DOMAIN d.auction \cup DOMAIN e.auction :
                                        Row(d.auction, a) # Row(e.auction, a)}}
      \cup {<<"mail", m>> : m \in {m \in DOMAIN d.mail \cup DOMAIN e.mail : Row(d.mail, m) # Row(e.mail, m)}}

(* A delay thread executes an operation none of its serial id precedes.       *)
Execute(n) ==
    /\ n \in DOMAIN pending
    /\ \A m \in 1 .. n - 1 : pending[m].serial = Nobody \/ pending[m].serial # pending[n].serial
    /\ rows' = ExecuteTransaction(rows, pending[n])
    /\ pending' = RemoveAt(pending, n)
    /\ settled' = Fold(ExecuteTransaction, rows', pending')
    /\ spoiled' = spoiled \cup Differences(settled, settled')
    /\ overtaken' = {i \in Items :
          /\ \E m \in DOMAIN pending' : <<"item", i>> \in Keys(pending'[m])
          /\ \/ i \in overtaken
             \/ \E m \in 1 .. n - 1 : <<"item", i>> \in Keys(pending[m]) \cap Keys(pending[n])}
    /\ UNCHANGED <<online, memoryVars, requests, burnt, calls, relogs>>

-----------------------------------------------------------------------------
(* Money and mails. *)

(* Player::ModifyMoney: never below zero, never above MAX_MONEY_AMOUNT.       *)
ModifyMoney(s, p, gain, loss) ==
    LET sum == s.wallet[p] + gain
        left == IF sum > loss THEN sum - loss ELSE 0
        kept == IF left < MaxMoney THEN left ELSE MaxMoney
    IN  [s EXCEPT !.wallet[p] = kept, !.burnt = @ + (left - kept)]

Burn(s, money) == [s EXCEPT !.burnt = @ + money]

(* MailDraft::SendMailTo: the row, and the mail itself for a receiver who is  *)
(* online.  item is Nobody for a mail without one.                            *)
SendMailTo(s, mail) ==
    LET m == [id |-> s.nextMail, from |-> mail.from, to |-> mail.to, money |-> mail.money,
              cod |-> mail.cod, item |-> mail.item, kind |-> mail.kind, deleted |-> FALSE]
        sent == Submit([s EXCEPT !.nextMail = @ + 1], Nobody,
                       <<InsertMail([m EXCEPT !.item = Nobody])>>
                         \o (IF m.item = Nobody THEN <<>> ELSE <<InsertMailItem(m)>>))
    IN  IF m.to \in online THEN [sent EXCEPT !.mailbox[m.to] = With(@, m.id, m)] ELSE sent

(* Mutant: the transaction is not serialized with the player's guid. *)
SaveGoldUnordered(s, p, statements) == Submit(s, Nobody, statements \o <<SaveGold(p, s.wallet[p])>>)

(* Player::SaveInventoryAndGoldToDB and MasterPlayer::SaveMails, beside what  *)
(* else the handler's transaction holds.                                      *)
SaveGoldToDB(s, p, statements) == Submit(s, p, statements \o <<SaveGold(p, s.wallet[p])>>)

-----------------------------------------------------------------------------
(* Logins, logouts and restarts. *)

(* The mails LoadMails and LoadMailedItems make of the rows.                  *)
LoadMails(db, p) ==
    LET Enclosed(m) == {i \in Items : <<m, i>> \in db.mailItems}
    IN  [m \in {m \in DOMAIN db.mail : db.mail[m].to = p /\ ~db.mail[m].deleted} |->
            [db.mail[m] EXCEPT !.item = IF Enclosed(m) = {} THEN Nobody ELSE CHOOSE i \in Enclosed(m) : TRUE]]

(* The login's holder has the player's serial id: it follows his saves, not   *)
(* the mails others send him, nor the save of one who got an item from him.   *)
Login(p) ==
    /\ p \notin online /\ relogs < MaxRelogs
    /\ \A n \in DOMAIN pending : pending[n].serial # p
    /\ online' = online \cup {p}
    /\ wallet' = [wallet EXCEPT ![p] = rows.money[p]]
    /\ bag' = [bag EXCEPT ![p] = {i \in Items : rows.inventory[i] = p}]
    /\ mailbox' = [mailbox EXCEPT ![p] = LoadMails(rows, p)]
    /\ spoiled' = spoiled \cup {<<"item", i>> : i \in {i \in Items :
                      \/ rows.inventory[i] # settled.inventory[i]
                      \/ \E m \in DOMAIN mailbox'[p] : mailbox'[p][m].item = i /\ <<m, i>> \notin settled.mailItems}}
    /\ relogs' = relogs + 1
    /\ UNCHANGED <<auctions, nextAuction, nextMail, requests, rows, pending, settled, overtaken, burnt, calls>>

Logout(p) ==
    /\ p \in online /\ Len(pending) <= MaxPending
    /\ online' = online \ {p}
    /\ Become([SaveGoldToDB(State, p, <<>>) EXCEPT
                 !.wallet[p] = 0, !.bag[p] = {}, !.mailbox[p] = <<>>])
    /\ UNCHANGED <<requests, rows, overtaken, calls, relogs>>

(* The server stops, which executes what is pending, and starts again: the    *)
(* auctions and the ids come from the rows.                                   *)
Restart ==
    /\ online = {} /\ pending = <<>> /\ requests = {} /\ relogs < MaxRelogs
    /\ auctions' = rows.auction
    /\ nextAuction' = 1
    /\ nextMail' = Max(DOMAIN rows.mail \cup {0}) + 1
    /\ relogs' = relogs + 1
    /\ UNCHANGED <<online, wallet, bag, mailbox, requests, databaseVars, burnt, calls>>

(* ObjectMgr::GenerateAuctionID: the next number no auction has.              *)
GenerateAuctionID(s) ==
    CHOOSE n \in s.nextAuction .. s.nextAuction + Cardinality(DOMAIN s.auctions) :
        /\ n \notin DOMAIN s.auctions
        /\ \A k \in s.nextAuction .. n - 1 : k \in DOMAIN s.auctions

-----------------------------------------------------------------------------
(* Every character has Money; each item is carried by one of them.            *)
Init ==
    /\ online = Players
    /\ wallet = [p \in Players |-> Money]
    /\ \E owner \in [Items -> Players] :
          /\ bag = [p \in Players |-> {i \in Items : owner[i] = p}]
          /\ rows = [money |-> wallet, inventory |-> owner, auction |-> <<>>, mail |-> <<>>, mailItems |-> {}]
    /\ mailbox = [p \in Players |-> <<>>]
    /\ auctions = <<>> /\ nextAuction = 1 /\ nextMail = 1
    /\ requests = {}
    /\ pending = <<>> /\ settled = rows /\ spoiled = {} /\ overtaken = {}
    /\ burnt = 0 /\ calls = 0 /\ relogs = 0
================================================================================
