SPECIFICATION Spec
CONSTANTS
  Services = {s1, s2}
  Positions = {p1, p2}
  Plies = {0, 1}
  MaxPly = 1
  Budgets = {1, 2}
  Capacity = 1
  MaxBatch = 2
  MaxAsks = 2
  MaxFaults = 1
SYMMETRY Symmetry

  
PROPERTIES
  MemoryOnlyDeepens
CHECK_DEADLOCK FALSE
