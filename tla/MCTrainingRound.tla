------------------------- MODULE MCTrainingRound -------------------------
(* A round of either scope needs one new game. *)
EXTENDS TrainingRound, TLC

MCMinNewMoves == [p \in Scopes |-> 1]
===========================================================================
