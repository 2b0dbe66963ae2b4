---------------------------- MODULE MCPipelineRun ----------------------------
(***************************************************************************)
(* PipelineRun for TLC: every pipeline of up to two steps with at most one  *)
(* retry each, every pipeline of three steps without retries, and the       *)
(* training pipeline.                                                      *)
(***************************************************************************)
EXTENDS PipelineRun

Kinds   == [flags : SUBSET {"critical", "always", "child"}, retries : 0..1]
NoRetry == {k \in Kinds : k.retries = 0}

Plain   == [flags |-> {"critical"}, retries |-> 1]
Fit     == [flags |-> {"critical", "child"}, retries |-> 0]
Score   == [flags |-> {"critical", "child"}, retries |-> 1]
Release == [flags |-> {"always"}, retries |-> 0]
Training == <<Plain, Fit, Plain, Score, Score, Release, Plain>>

SmallPipelines ==
  [1..1 -> Kinds] \cup [1..2 -> Kinds] \cup [1..3 -> NoRetry] \cup {Training}
=============================================================================
