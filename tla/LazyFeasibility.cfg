CONSTANTS
  MaxSites = 4
  Far = 2
  Tolerance = 1
SPECIFICATION Spec
INVARIANTS
  TypeOK
  FeasibleExact
  FarthestIsMissed
