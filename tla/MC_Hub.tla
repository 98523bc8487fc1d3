------------------------------- MODULE MC_Hub -------------------------------
(* Small instances of Hub for TLC. *)
EXTENDS Hub, TLC

(* Clients are interchangeable: no action and no property names one.       *)
ClientSymmetry == Permutations(Clients)
=============================================================================
