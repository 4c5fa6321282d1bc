SPECIFICATION FairSpec
CONSTANTS
  Costs <- MCCosts
  Inf <- MCInf
  Opt <- MCOpt
  GapNum = 1
  GapDen = 3
  Slack = 1
  Sites = {s}
  FirstSites = {}
  UseCutoff = TRUE
  MaxNodes = 4
  MaxFanout = 2
INVARIANTS Sound
PROPERTIES ProgressIsKept NeverReturnedAgain KeepsPromise Returns
