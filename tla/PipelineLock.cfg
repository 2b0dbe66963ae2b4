SPECIFICATION LockFairSpec
CONSTANTS
  Runs = {r1, r2, r3}
  LockTimeout = 2
  SweepAfter = 3
  RunLimit = 1
  Serialised = TRUE
 
PROPERTIES  ResultIsKept DanglingLockGoes
