SPECIFICATION FairSpec
CONSTANT Pipelines <- SmallPipelines
INVARIANTS NoIdleChild NoChildLeft FlaggedStepsOnly 
PROPERTY RunEnds
CHECK_DEADLOCK FALSE
