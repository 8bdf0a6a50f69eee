--------------------------------- MODULE Trade ---------------------------------
(***************************************************************************)
(* A trade between two players in the world: the exchange when the second   *)
(* of them accepts, and the two saves that follow it.                       *)
(*                                                                          *)
(* Each side is saved by a transaction with the guid of that player.  The   *)
(* one who gives an item saves nothing about it; the row is moved by an     *)
(* UPDATE in the transaction of the one who gets it, which changes nothing  *)
(* as long as an earlier owner's INSERT was not executed.                   *)
(*                                                                          *)
(* The offers are any two that both could have accepted: TradeData keeps    *)
(* guids and resolves them at the acceptance, so that whatever left a bag   *)
(* meanwhile is skipped, and the money is compared with the wallet again.   *)
(* Left out: the windows in which the offers come about, the enchantment of *)
(* the seventh slot, distance and room in the bags, hardcore characters.    *)
(***************************************************************************)
EXTENDS Holdings

CONSTANT Offers     \* the money the two sides of a trade offer

ASSUME OffersAssumption == Offers \subseteq Nat \X Nat

(* moveItems: the rows of the items are changed when the player is saved.     *)
StoreItems(items, p) == SetToSeq({UpdateInventory(i, p) : i \in items})

(* The items of both change bags, the money of offer changes wallets, and     *)
(* p, who accepted last, is saved first.                                      *)
Exchange(s, p, q, offer, mine, his) ==
    LET moved == [s EXCEPT !.bag[p] = (@ \ mine) \cup his, !.bag[q] = (@ \ his) \cup mine]
        paid == ModifyMoney(ModifyMoney(moved, p, offer[2], offer[1]), q, offer[1], offer[2])
    IN  SaveGoldToDB(SaveGoldToDB(paid, p, StoreItems(his, p)), q, StoreItems(mine, q))

(* p accepts; q has accepted before.                                          *)
HandleAcceptTradeOpcode(p, q) ==
    /\ Request(p)
    /\ q \in online \ {p}
    /\ \E offer \in Offers, mine \in SUBSET bag[p], his \in SUBSET bag[q] :
          /\ offer # <<0, 0>> \/ mine \cup his # {}      \* bound: a trade of nothing
          /\ offer[1] <= wallet[p] /\ offer[2] <= wallet[q]
          /\ Become(Exchange(State, p, q, offer, mine, his))
    /\ UNCHANGED requests
================================================================================
