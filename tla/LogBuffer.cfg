SPECIFICATION FairSpec
CONSTANTS
  p1 = p1
  p2 = p2
  Procs = {p1, p2}
  MaxRecords = 1
  MaxNow = 1
  MaxStarts = 3
  ClaimsApart = TRUE
INVARIANTS
  
  NothingLost
  ArchivedIsLoaded
PROPERTIES
  BufferDrains
  ObjectsAreLoaded
CHECK_DEADLOCK FALSE
