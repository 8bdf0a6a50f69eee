------------------------------- MODULE MCEconomy -------------------------------
EXTENDS Economy
CONSTANTS ann, bob, cid, sword
Two == {ann, bob}
Three == {ann, bob, cid}
Sword == {sword}
ThreePrices == {1, 2, 3}
(* Money with a demand that is ignored, an item for money.                     *)
TwoParcels == {[money |-> 1, cod |-> 1, item |-> Nobody], [money |-> 0, cod |-> 1, item |-> sword]}
(* Both in one mail: money, an item, and a demand for it.                      *)
FullParcel == {[money |-> 1, cod |-> 1, item |-> sword]}
(* A gift, and a price that the one who accepted first pays.                   *)
TwoOffers == {<<0, 0>>, <<0, 1>>}
(* The one who accepted first pays, whatever items change hands.              *)
PricedOffer == {<<0, 1>>}
Symmetry == Permutations(Players)
================================================================================
