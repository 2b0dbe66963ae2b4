--------------------------- MODULE MCTrainingSlot ---------------------------
(* Instances of TrainingSlot for TLC.                                       *)
EXTENDS TrainingSlot
=============================================================================
