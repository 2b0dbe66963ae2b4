---------------------------- MODULE MCEvalCache ----------------------------
(* Instances of EvalCache for TLC.                                          *)
EXTENDS EvalCache, TLC

Symmetry == Permutations(Services) \cup Permutations(Positions)
=============================================================================
