---------------------------- MODULE MCMoveData -----------------------------
(* Instances of MoveData for TLC.                                           *)
EXTENDS MoveData

\* Three evaluations: a best one, ties, and signs that colours turn round.
MCPawns == {-1, 0, 2}
=============================================================================
