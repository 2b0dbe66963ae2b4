--------------------------- MODULE MCPipelineLock ---------------------------
(* Instances of PipelineLock for TLC.                                       *)
EXTENDS PipelineLock
=============================================================================
