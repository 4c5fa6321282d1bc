SPECIFICATION Spec
CONSTANTS
  h = h
  r1 = r1
  r2 = r2
  r3 = r3
  o1 = o1
  o2 = o2
  Cells = {h, r1, r2, r3, o1, o2}
  Touch <- MCTouch
  Hull <- MCHull
  Weight <- MCWeight
  Curves <- MCCurves
  Instances <- MCInstances
  StudyNames = {"rq1", "rq2", "rq3", "rq4", "long"}
  Tolerances = {1, 10, 150}
  Strategies = {"LongestEdgePlusFurthestSite", "OrderRoot", "DfsBfs", "decomposition", "indicator"}
  LowerBounds = {0, 75, 86}
  MaxExcess = 14
  MaxRows = 2
INVARIANTS TypeOK CurvesKept RowsHoldForRaw RootsSound ChecksAccept
CHECK_DEADLOCK FALSE
