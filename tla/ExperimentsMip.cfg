SPECIFICATION Spec
CONSTANTS
  h = h
  r1 = r1
  r2 = r2
  r3 = r3
  o1 = o1
  o2 = o2
  Cells = {h, r1, r2, r3, o1, o2}
  Touch <- MCTouch
  Hull <- MCHull
  Weight <- MCWeight
  Curves <- MCCurves
  Instances <- MCInstances
  StudyNames = {"rq5"}
  Tolerances = {150}
  Strategies = {"LongestEdgePlusFurthestSite", "nonconvex"}
  LowerBounds = {75, 85, 86}
  MaxExcess = 14
  MaxRows = 2
INVARIANT ChecksAccept
CHECK_DEADLOCK FALSE
