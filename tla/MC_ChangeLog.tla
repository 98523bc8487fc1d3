----------------------------- MODULE MC_ChangeLog -----------------------------
(* The instance of ChangeLog in which what a document says of its delivery *)
(* is put to it: every subscriber takes every event.                       *)
EXTENDS ChangeLog

NoFilter == Subscribers \X Changes
=============================================================================
