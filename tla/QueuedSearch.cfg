SPECIFICATION QSpec
CONSTANTS
  Costs <- MCCosts
  Inf <- MCInf
  Opt <- MCOpt
  GapNum = 1
  GapDen = 2
  Slack = 0
  Sites = {s}
  FirstSites = {s}
  UseCutoff = TRUE
  MaxNodes = 5
  MaxFanout = 2
  Strategies <- AllStrategies
  RelTolNum = 3
  RelTolDen = 5
  AbsTol = 2
INVARIANTS TypeOK BoundsBracketOptimum OptimumNeverLost ReturnedBoundsClose ParentBoundTight CutoffNodesNeverExplored QueueHoldsOpen DivesDepthFirst
