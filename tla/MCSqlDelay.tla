------------------------------- MODULE MCSqlDelay -------------------------------
(* SqlDelay on small instances. *)
EXTENDS SqlDelay, TLC

(* The threads that call the API are interchangeable. *)
Symmetry == Permutations(Threads)
=================================================================================
