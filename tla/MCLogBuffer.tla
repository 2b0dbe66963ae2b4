---------------------------- MODULE MCLogBuffer ----------------------------
(* Instances of LogBuffer for TLC.                                         *)
EXTENDS LogBuffer, TLC
CONSTANTS p1, p2
=============================================================================
