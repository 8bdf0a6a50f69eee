---------------------------------- MODULE Mail ----------------------------------
(***************************************************************************)
(* Mails between players: HandleSendMail with its callback, taking money    *)
(* and items, and returning a mail.                                         *)
(*                                                                          *)
(* When the receiver is not in the world his mails are counted in the       *)
(* database first: the mail is sent by a callback of that query, which      *)
(* looks at the sender again.  A mail's row is written by a transaction     *)
(* without a serial id, whatever the receiver does with it by one of his.   *)
(*                                                                          *)
(* Left out: the limits on mails, the delay of items, expiry, marking as    *)
(* read and deleting, auction mails of other types, hardcore characters.    *)
(***************************************************************************)
EXTENDS Holdings

CONSTANTS
    Fee,                \* the 30 copper of a mail
    Parcels             \* what is sent: money, what is asked for on delivery, item

ASSUME MailAssumption ==
    Fee \in Nat /\ Parcels \subseteq [money : Nat, cod : Nat, item : Items \cup {Nobody}]

MailFields == [from : Players \cup {Nobody}, to : Players, money : Nat, cod : Nat,
               item : Items \cup {Nobody}, kind : {"normal", "auction"}]

Normal(from, to, money, cod, item) ==
    [from |-> from, to |-> to, money |-> money, cod |-> cod, item |-> item, kind |-> "normal"]

-----------------------------------------------------------------------------
(* Sending *)

(* What HandleSendMailCallback checks of the sender.                          *)
CanSend(s, mail) ==
    /\ s.wallet[mail.from] >= mail.money + Fee
    /\ mail.item = Nobody \/ mail.item \in s.bag[mail.from]

(* HandleSendMailCallback once it is past its checks: money and item leave    *)
(* the sender, each item by a transaction of its own, the mail is sent, and   *)
(* the money saved.  Nothing is asked for a mail without an item.             *)
SendMail(s, mail) ==
    LET p == mail.from
        paid == ModifyMoney(Burn(s, Fee), p, 0, mail.money + Fee)
        packed == IF mail.item = Nobody THEN paid
                  ELSE Submit([paid EXCEPT !.bag[p] = @ \ {mail.item}], p, <<DeleteInventory(mail.item)>>)
        sent == SendMailTo(packed, [mail EXCEPT !.cod = IF mail.item = Nobody THEN 0 ELSE @])
    IN  SaveGoldToDB(sent, p, <<>>)

(* To a receiver in the world: the callback runs at once. *)
HandleSendMail(mail) ==
    /\ Request(mail.from)
    /\ mail.to # mail.from /\ mail.to \in online
    /\ CanSend(State, mail) /\ Become(SendMail(State, mail))
    /\ UNCHANGED requests

(* To another one: his mails are counted first. *)
HandleSendMailOffline(mail) ==
    /\ Request(mail.from)
    /\ mail.to # mail.from /\ mail.to \notin online
    /\ requests' = requests \cup {mail}
    /\ UNCHANGED <<memoryVars, pending, settled, spoiled, burnt>>

(* AsyncMailSendRequest::Callback, with the answer of the database. *)
Callback(mail) ==
    /\ mail \in requests /\ Len(pending) <= MaxPending
    /\ requests' = requests \ {mail}
    /\ IF mail.from \in online /\ CanSend(State, mail) THEN Become(SendMail(State, mail))
       ELSE UNCHANGED <<memoryVars, pending, settled, spoiled, burnt>>
    /\ UNCHANGED <<online, rows, overtaken, calls, relogs>>

-----------------------------------------------------------------------------
(* Taking and returning *)

(* MasterPlayer::SaveMails for a mail that changed. *)
SaveMail(m, removed) ==
    <<UpdateMail(m)>> \o (IF removed = Nobody THEN <<>> ELSE <<DeleteMailItem(removed)>>)

(* Mutant: the money is saved and the mail is not. *)
TakeMoneyUnsavedMail(s, p, m) ==
    LET taken == ModifyMoney([s EXCEPT !.mailbox[p][m.id].money = 0], p, m.money, 0)
    IN  SaveGoldToDB(taken, p, <<>>)

TakeMoney(s, p, m) ==
    LET taken == ModifyMoney([s EXCEPT !.mailbox[p][m.id].money = 0], p, m.money, 0)
    IN  SaveGoldToDB(taken, p, SaveMail(taken.mailbox[p][m.id], Nobody))

HandleMailTakeMoney(p, id) ==
    /\ Request(p)
    /\ id \in DOMAIN mailbox[p]
    /\ Become(TakeMoney(State, p, mailbox[p][id]))
    /\ UNCHANGED requests

(* What is asked for on delivery goes to the sender by mail, then the item to *)
(* the bag: inventory, money and mail are saved together.                     *)
TakeItem(s, p, m) ==
    LET paid == IF m.cod = 0 THEN s
                ELSE ModifyMoney(SendMailTo(s, Normal(p, m.from, m.cod, 0, Nobody)), p, 0, m.cod)
        taken == [paid EXCEPT !.mailbox[p][m.id].item = Nobody, !.mailbox[p][m.id].cod = 0,
                              !.bag[p] = @ \cup {m.item}]
    IN  Submit(taken, p, <<InsertInventory(m.item, p), SaveGold(p, taken.wallet[p])>>
                           \o SaveMail(taken.mailbox[p][m.id], m.item))

HandleMailTakeItem(p, id) ==
    /\ Request(p)
    /\ id \in DOMAIN mailbox[p]
    /\ mailbox[p][id].item # Nobody
    /\ wallet[p] >= mailbox[p][id].cod
    /\ Become(TakeItem(State, p, mailbox[p][id]))
    /\ UNCHANGED requests

(* The old mail goes, a normal one comes back as a new mail that asks for     *)
(* nothing; what an auction mail held is gone.                                *)
ReturnMail(s, p, m) ==
    LET dropped == Submit([s EXCEPT !.mailbox[p] = Without(@, {m.id})], p, <<DeleteMail(m), DeleteMailItems(m)>>)
    IN  IF m.kind = "normal" THEN SendMailTo(dropped, Normal(p, m.from, m.money, 0, m.item))
        ELSE Burn(dropped, m.money)

HandleMailReturnToSender(p, id) ==
    /\ Request(p)
    /\ id \in DOMAIN mailbox[p]
    /\ Become(ReturnMail(State, p, mailbox[p][id]))
    /\ UNCHANGED requests
================================================================================
