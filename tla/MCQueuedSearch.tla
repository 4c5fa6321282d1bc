--------------------------- MODULE MCQueuedSearch ---------------------------
(***************************************************************************)
(* QueuedSearch with the lengths of MCBranchAndBound.  The tolerances make *)
(* 2 and 3 close and 3 and 4 close, but not 2 and 4, so that closeness is  *)
(* not transitive.                                                         *)
(***************************************************************************)
EXTENDS QueuedSearch

MCInf == 9
MCOpt == 3
MCCosts == 2 .. 4
AllStrategies == {"DfsBfs", "CheapestChildDepthFirst", "CheapestBreadthFirst",
                  "RandomNextNode"}
=============================================================================
