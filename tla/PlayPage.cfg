SPECIFICATION FairSpec
CONSTANTS
  MaxPly = 5
  Workers = {w1, w2}
  MaxFaults = 3
PROPERTIES
  EventOnce
  
  WorkersEnd
CHECK_DEADLOCK FALSE
