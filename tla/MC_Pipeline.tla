----------------------------- MODULE MC_Pipeline -----------------------------
(* The instance of Pipeline in which the security engine is alone, so that *)
(* what is not masked is by its own doing.                                 *)
EXTENDS Pipeline

SecurityAlone == <<"security">>
=============================================================================
