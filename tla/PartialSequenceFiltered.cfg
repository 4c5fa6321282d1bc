SPECIFICATION Spec
CONSTANTS
  NumGeos = 5
  Nonconvex = {}
  Parts = {p, q}
  TourPart = p
  Options <- MCBackwards
  SimplifySize = 2
  MaxTeToggle = 1
  MaxGeomToggle = 1
CHECK_DEADLOCK FALSE
INVARIANT NoTourLost
