SPECIFICATION PreFairSpec
CONSTANTS
  MaxGame = 3
  NoPgn = {1}
  MovesOf <- MCMovesOf
  Rank <- MCRank
  PageSize = 1
  MaxRetries = 1
  MaxFailures = 2
  Modes = {"incremental", "reprocess", "full_reload"}
PROPERTIES
  EveryGameIsDerived
  EndedStepIsComplete
  EngineWorkIsKept
CHECK_DEADLOCK FALSE
