------------------------------ MODULE AuctionHouse ------------------------------
(***************************************************************************)
(* The auction house: HandleAuctionSellItem, HandleAuctionPlaceBid,         *)
(* HandleAuctionRemoveItem and the end of auctions in Update.               *)
(*                                                                          *)
(* A bid is kept by the auction: its money left the bidder's wallet and     *)
(* comes back by mail when he is outbid or the auction is cancelled.  The   *)
(* deposit is paid on listing and comes back with the price.  The           *)
(* operations on an auction's row are executed in the order of its owner's  *)
(* transactions only when the owner makes them.                             *)
(*                                                                          *)
(* One house (the two of the factions are linked by the setting for both);  *)
(* hardcore characters, deleted characters and the locks on an address for  *)
(* the first five minutes are left out.                                     *)
(***************************************************************************)
EXTENDS Holdings

CONSTANTS
    StartBid, Buyout,   \* what sellers ask for, 0 for no buyout
    Deposit,            \* GetAuctionDeposit
    CutPercent,         \* the house's share of the price
    Prices              \* what bidders offer

ASSUME PriceAssumption == StartBid \in Nat \ {0} /\ Buyout \in Nat /\ Prices \subseteq Nat \ {0}
ASSUME ShareAssumption == Deposit \in Nat /\ CutPercent \in 0 .. 100

Auction == [id : Nat, item : Items, owner : Players, startbid : Nat, buyout : Nat, deposit : Nat,
            bidder : Players \cup {Nobody}, bid : Nat]

GetAuctionCut(a) == (CutPercent * a.bid) \div 100
GetAuctionOutBid(a) == IF a.bid \div 100 = 0 THEN 1 ELSE (a.bid \div 100) * 5

AuctionMail(to, money, item) ==
    [from |-> Nobody, to |-> to, money |-> money, cod |-> 0, item |-> item, kind |-> "auction"]

-----------------------------------------------------------------------------
(* HandleAuctionSellItem *)

ListItem(s, p, a) ==
    LET paid == ModifyMoney(s, p, 0, a.deposit)
        listed == [paid EXCEPT !.auctions = With(@, a.id, a), !.nextAuction = a.id + 1,
                               !.bag[p] = @ \ {a.item}]
    IN  SaveGoldToDB(listed, p, <<DeleteInventory(a.item), InsertAuction(a)>>)

HandleAuctionSellItem(p, i) ==
    /\ Request(p)
    /\ i \in bag[p]
    /\ \A a \in DOMAIN auctions : auctions[a].item # i
    /\ wallet[p] >= Deposit
    /\ Become(ListItem(State, p,
            [id |-> GenerateAuctionID(State), item |-> i, owner |-> p, startbid |-> StartBid,
             buyout |-> Buyout, deposit |-> Deposit, bidder |-> Nobody, bid |-> 0]))
    /\ UNCHANGED requests

-----------------------------------------------------------------------------
(* HandleAuctionPlaceBid *)

IsBuyout(a, price) == a.buyout # 0 /\ price >= a.buyout

Acceptable(a, price) ==
    /\ price >= a.startbid /\ price > a.bid
    /\ IsBuyout(a, price) \/ price >= a.bid + GetAuctionOutBid(a)

(* Mutant: one who raises his own bid pays it again. *)
PayBidTwice(s, a, p, price) ==
    LET paid == ModifyMoney(s, p, 0, price)
    IN  IF a.bidder \in {Nobody, p} THEN paid ELSE SendMailTo(paid, AuctionMail(a.bidder, a.bid, Nobody))

(* The new bidder pays, or pays the difference to his own bid; the one he     *)
(* outbids gets his money back.                                               *)
PayBid(s, a, p, price) ==
    IF a.bidder = p THEN ModifyMoney(s, p, 0, price - a.bid)
    ELSE LET paid == ModifyMoney(s, p, 0, price)
         IN  IF a.bidder = Nobody THEN paid ELSE SendMailTo(paid, AuctionMail(a.bidder, a.bid, Nobody))

Won(a, p, price) == [a EXCEPT !.bidder = p, !.bid = price]

Bid(s, a, p, price) ==
    LET paid == PayBid(s, a, p, price)
    IN  Submit([paid EXCEPT !.auctions[a.id] = Won(a, p, price)], Nobody, <<UpdateAuction(Won(a, p, price))>>)

RemoveAuction(s, a) == [s EXCEPT !.auctions = Without(@, {a.id})]

(* Mutant: the row of an auction that ended stays. *)
EndAuctionKeptRow(s, a) ==
    LET cut == GetAuctionCut(a)
        toOwner == SendMailTo(Burn(s, cut), AuctionMail(a.owner, a.bid + a.deposit - cut, Nobody))
        toBidder == SendMailTo(toOwner, AuctionMail(a.bidder, 0, a.item))
    IN  RemoveAuction(toBidder, a)

(* SendAuctionSuccessfulMail and SendAuctionWonMail, then the auction goes.   *)
EndAuction(s, a) ==
    LET cut == GetAuctionCut(a)
        toOwner == SendMailTo(Burn(s, cut), AuctionMail(a.owner, a.bid + a.deposit - cut, Nobody))
        toBidder == SendMailTo(toOwner, AuctionMail(a.bidder, 0, a.item))
    IN  Submit(RemoveAuction(toBidder, a), Nobody, <<DeleteAuction(a)>>)

HandleAuctionPlaceBid(p, id, price) ==
    /\ Request(p)
    /\ id \in DOMAIN auctions
    /\ LET a == auctions[id]
       IN  /\ a.owner # p
           /\ Acceptable(a, price) /\ price <= wallet[p]
           /\ Become(SaveGoldToDB(
                IF IsBuyout(a, price)
                THEN EndAuction(PayBid(State, a, p, a.buyout), Won(a, p, a.buyout))
                ELSE Bid(State, a, p, price), p, <<>>))
    /\ UNCHANGED requests

-----------------------------------------------------------------------------
(* HandleAuctionRemoveItem: the owner pays the house's share of a bid, the    *)
(* bidder gets his money back, the owner his item, and the deposit is gone.   *)

CancelAuction(s, a) ==
    LET refunded == IF a.bidder = Nobody THEN s
                    ELSE Burn(ModifyMoney(SendMailTo(s, AuctionMail(a.bidder, a.bid, Nobody)),
                                          a.owner, 0, GetAuctionCut(a)), GetAuctionCut(a))
        returned == SendMailTo(Burn(refunded, a.deposit), AuctionMail(a.owner, 0, a.item))
    IN  RemoveAuction(SaveGoldToDB(returned, a.owner, <<DeleteAuction(a)>>), a)

HandleAuctionRemoveItem(p, id) ==
    /\ Request(p)
    /\ id \in DOMAIN auctions
    /\ auctions[id].owner = p
    /\ auctions[id].bidder = Nobody \/ wallet[p] >= GetAuctionCut(auctions[id])
    /\ Become(CancelAuction(State, auctions[id]))
    /\ UNCHANGED requests

-----------------------------------------------------------------------------
(* AuctionHouseObject::Update: the time of one auction has come.              *)

ExpireAuction(s, a) ==
    Submit(RemoveAuction(SendMailTo(Burn(s, a.deposit), AuctionMail(a.owner, 0, a.item)), a),
           Nobody, <<DeleteAuction(a)>>)

Update(id) ==
    /\ id \in DOMAIN auctions /\ Len(pending) <= MaxPending
    /\ LET a == auctions[id]
       IN  Become(IF a.bidder = Nobody THEN ExpireAuction(State, a) ELSE EndAuction(State, a))
    /\ UNCHANGED <<online, requests, rows, overtaken, calls, relogs>>
================================================================================
