---------------------------- MODULE MCGameIngest ----------------------------
(* Instances of GameIngest for TLC.                                        *)
EXTENDS GameIngest, TLC
=============================================================================
