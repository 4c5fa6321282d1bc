SPECIFICATION Spec
CONSTANTS
  Instances <- MCInstances
  EdgeSets <- MCEdgeSets
  MaxIterations = 3
  MaxCuts = 2
INVARIANTS TypeOK EveryTourAdmitted ReturnsTour StartAdmitted NoCutTwice
CHECK_DEADLOCK FALSE
