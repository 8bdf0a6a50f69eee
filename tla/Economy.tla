-------------------------------- MODULE Economy --------------------------------
(***************************************************************************)
(* Auction house, mail and trade together, over the wallets, bags,          *)
(* mailboxes and tables of Holdings: players list, bid, cancel, send, take, *)
(* return and trade, auctions end, players log out and in, and the delay    *)
(* threads execute the database operations meanwhile.                       *)
(***************************************************************************)
EXTENDS AuctionHouse, Mail, Trade

Mails == {Normal(from, to, parcel.money, parcel.cod, parcel.item) :
            from \in Players, to \in Players, parcel \in Parcels}

Next ==
    \/ \E p \in Players : Login(p) \/ Logout(p)
    \/ Restart
    \/ \E n \in DOMAIN pending : Execute(n)
    \/ \E p \in Players, i \in Items : HandleAuctionSellItem(p, i)
    \/ \E p \in Players, id \in DOMAIN auctions : HandleAuctionRemoveItem(p, id)
    \/ \E p \in Players, id \in DOMAIN auctions, price \in Prices : HandleAuctionPlaceBid(p, id, price)
    \/ \E id \in DOMAIN auctions : Update(id)
    \/ \E mail \in Mails : HandleSendMail(mail) \/ HandleSendMailOffline(mail)
    \/ \E mail \in requests : Callback(mail)
    \/ \E p \in Players : \E id \in DOMAIN mailbox[p] :
          HandleMailTakeMoney(p, id) \/ HandleMailTakeItem(p, id) \/ HandleMailReturnToSender(p, id)
    \/ \E p, q \in Players : HandleAcceptTradeOpcode(p, q)

Spec == Init /\ [][Next]_vars

-----------------------------------------------------------------------------
(* Every variable has its type; players who are away carry nothing in memory. *)
TypeOK ==
    /\ online \subseteq Players
    /\ wallet \in [Players -> 0 .. MaxMoney]
    /\ bag \in [Players -> SUBSET Items]
    /\ \A p \in Players \ online : wallet[p] = 0 /\ bag[p] = {} /\ mailbox[p] = <<>>
    /\ \A a \in DOMAIN auctions : auctions[a] \in Auction /\ auctions[a].id = a
    /\ \A p \in Players : \A m \in DOMAIN mailbox[p] :
          /\ [f \in DOMAIN mailbox[p][m] \ {"id", "deleted"} |-> mailbox[p][m][f]] \in MailFields
          /\ mailbox[p][m].id = m /\ mailbox[p][m].to = p /\ ~mailbox[p][m].deleted
    /\ requests \subseteq Mails
    /\ burnt \in Nat /\ calls \in 0 .. MaxCalls /\ relogs \in 0 .. MaxRelogs

(* Every handler hands over all that it changed: in the order of submission   *)
(* the operations lead to the money, bags, auctions and mails that memory     *)
(* holds.                                                                     *)
SavesWhatMemoryHolds ==
    /\ \A p \in online : <<"money", p>> \in spoiled \/ settled.money[p] = wallet[p]
    /\ \A i \in Items : <<"item", i>> \in spoiled
          \/ \A p \in online : settled.inventory[i] = p <=> i \in bag[p]
    /\ \A a \in DOMAIN auctions \cup DOMAIN settled.auction : <<"auction", a>> \in spoiled
          \/ Row(auctions, a) = Row(settled.auction, a)
    /\ \A p \in online : \A m \in DOMAIN mailbox[p] : <<"mail", m>> \in spoiled
          \/ /\ m \in DOMAIN settled.mail
             /\ settled.mail[m] = [mailbox[p][m] EXCEPT !.item = Nobody]

Sum(f) == FoldFunctionOnSet(LAMBDA x, y : x + y, 0, f, DOMAIN f)

(* The money of the characters, of bids and deposits, of mails, and what was  *)
(* taken out of the game by fees, cuts and lost deposits.                     *)
AllMoney(db) ==
    Sum(db.money)
      + Sum([a \in DOMAIN db.auction |-> db.auction[a].bid + db.auction[a].deposit])
      + Sum([m \in {m \in DOMAIN db.mail : ~db.mail[m].deleted} |-> db.mail[m].money])
      + burnt

(* Bids, refunds, prices, cuts, deposits and mails neither make nor lose      *)
(* money, as long as no operation overtook another about the same row.        *)
GoldConserved == spoiled = {} => AllMoney(settled) = Money * Cardinality(Players)

(* An item is in one place: a bag, an auction or a mail (or gone, once an     *)
(* auction mail with it was returned).                                        *)
OneHolder == \A i \in Items : <<"item", i>> \in spoiled
    \/ LET place == Place(settled, i)
       IN  (IF place[1] = Nobody THEN 0 ELSE 1) + Cardinality(place[2]) + Cardinality(place[3]) <= 1

(* The item is on its way from one player to another by a trade.              *)
Moving(i) == \E n \in DOMAIN pending : \E st \in ToSet(pending[n].statements) :
    st.does = "move" /\ st.item = i

(* One who logs in again plays on with what the database ends up with: his    *)
(* saves carry his serial id and his login waits for them ("Must be           *)
(* serialized in a transaction with the player GUID, or it can lead to duping *)
(* by relogging before the query completes").  Items of a trade that is not   *)
(* saved are left to TradedItemsStayTraded; so are those of which one         *)
(* operation overtook another, which may have been a trade's.                 *)
RelogLoadsSave == [][\A p \in online' \ online :
    /\ <<"money", p>> \in spoiled \/ wallet'[p] = settled.money[p]
    /\ \A i \in Items : \/ <<"item", i>> \in spoiled \/ i \in overtaken \/ Moving(i)
                        \/ i \in bag'[p] <=> settled.inventory[i] = p]_vars

(* An item is in one bag: one who traded it away does not get it back by      *)
(* logging in again ("or it can lead to duping by relogging before the query  *)
(* completes").                                                               *)
TradedItemsStayTraded == \A p, q \in Players : bag[p] \cap bag[q] # {} => p = q

(* Money taken from a mail does not come back into it: HandleMailTakeMoney    *)
(* saves "money and mail to prevent cheating".                                *)
TakenMoneyStaysTaken == pending = <<>> =>
    \A p \in online : \A m \in DOMAIN mailbox[p] :
        mailbox[p][m].money = 0 /\ m \in DOMAIN rows.mail => rows.mail[m].money = 0
================================================================================
