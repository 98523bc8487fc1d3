------------------------------ MODULE MC_Server ------------------------------
(* The small instances of Server that TLC checks: the cfg files give the   *)
(* constants their values. No symmetry: they ask for liveness.             *)
EXTENDS Server
=============================================================================
