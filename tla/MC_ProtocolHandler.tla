------------------------- MODULE MC_ProtocolHandler -------------------------
(* The small instances of ProtocolHandler that TLC checks: the cfg files   *)
(* give the constants their values. No symmetry: they ask for liveness.    *)
EXTENDS ProtocolHandler
=============================================================================
