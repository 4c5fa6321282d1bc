SPECIFICATION FairSpec
CONSTANTS
  Geo = {g}
  MaxGeomToggle = 1
  MaxThreads = 2
  MaxChildren = 3
  MaxBranchings = 2
CHECK_DEADLOCK FALSE
INVARIANT SameAsSequential
PROPERTY BranchReturns
