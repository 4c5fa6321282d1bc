SPECIFICATION Spec
CONSTANTS
  MaxNodes = 6
  Values = {1, 2, 3}
  Inf = 9
  Fanout = 2
INVARIANTS TypeOK CallsComputeRaisedBounds PruneMarksSubtree BoundsConsistent
PROPERTY BranchComputesPropagated
