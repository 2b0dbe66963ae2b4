----------------------------- MODULE MCPlayPage -----------------------------
(* Instances of PlayPage for TLC.                                           *)
EXTENDS PlayPage
=============================================================================
