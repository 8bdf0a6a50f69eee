---------------------------- MODULE MCLookingForTeam ----------------------------
(* LookingForTeam on small instances. *)
EXTENDS LookingForTeam, TLC

(* Groups of three: 1 to 3 are players, 4 and 5 bots.                          *)
SmallRoles == 1 :> {"damage"} @@ 2 :> {"tank", "damage"} @@ 3 :> {"healer"} @@ 4 :> {"tank"} @@ 5 :> {"healer"}

(* Everybody may be grouped. *)
Everybody == Players \X Players
================================================================================
