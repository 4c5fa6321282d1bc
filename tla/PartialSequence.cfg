SPECIFICATION Spec
CONSTANTS
  NumGeos = 5
  Nonconvex = {3}
  Parts = {p, q}
  TourPart = p
  Options <- MCOptions
  SimplifySize = 3
  MaxTeToggle = 1
  MaxGeomToggle = 1
CHECK_DEADLOCK FALSE
INVARIANTS TypeOK NoTourLost
PROPERTIES SimplifyKeepsTour NoTourRegained NothingForgotten DepthBounded
