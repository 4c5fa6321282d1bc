SPECIFICATION Spec
CONSTANTS
  Instances <- MCNoAreaFirst
  EdgeSets <- MCEdgeSets
  MaxIterations = 3
  MaxCuts = 2
INVARIANT StartAdmitted
CHECK_DEADLOCK FALSE
