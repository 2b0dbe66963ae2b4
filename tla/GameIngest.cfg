SPECIFICATION FairSpec
CONSTANTS
  MaxGame = 2
  MaxNow = 3
  MaxRetries = 1
  MaxFaults = 2
  Modes = {"incremental", "retry", "reprocess", "full_reload"}
INVARIANTS
  NothingSkipped
  ArchivedIsLoaded
PROPERTIES
  GamesArrive
CHECK_DEADLOCK FALSE
