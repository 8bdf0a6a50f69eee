----------------------------- MODULE MCPlayerLogin -----------------------------
(* PlayerLogin on small instances. *)
EXTENDS PlayerLogin, TLC

CONSTANTS a1, c1, c2

(* One account with two characters. *)
OneOwner == c1 :> a1 @@ c2 :> a1
================================================================================
