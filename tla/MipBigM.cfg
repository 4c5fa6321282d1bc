SPECIFICATION Spec
CONSTANTS
  Instances <- MCSlivers
  EdgeSets <- MCEdgeSets
  MaxIterations = 3
  MaxCuts = 2
INVARIANT EveryTourAdmitted
CHECK_DEADLOCK FALSE
