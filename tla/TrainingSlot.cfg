SPECIFICATION FairSpec
CONSTANTS
  Runs = {r1, r2}
  Nobody = Nobody
  StaleAfter = 2
  WaitLimit = 2
  PollTime = 1
  FitLimit = 2
  MaxLag = 1
INVARIANTS UserHoldsSlot
PROPERTIES OnlyHolderFrees ImplementsExclusiveFit  LeakedSlotRecovers
