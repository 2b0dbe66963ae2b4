---------------------------- MODULE MCPreprocess ----------------------------
(* Instances of Preprocess for TLC: the first game has no PGN, the moves of *)
(* the two others alternate in the order of their ids.                      *)
EXTENDS Preprocess
MCMovesOf == <<0, 2, 2>>
MCRank == [m \in {2, 3} \X {1, 2} |-> 2 * m[2] + m[1] - 3]
=============================================================================
