------------------------------ MODULE Studies ------------------------------
(* The studies under evaluation/.  For each: the configurations its script *)
(* runs on every simplified instance and the exceptions the script turns   *)
(* into a row without solution; how its notebook reads the rows; and which *)
(* checks the validation cell of the notebook makes.  Tolerances are per   *)
(* mille.                                                                  *)
EXTENDS SolutionReport, FiniteSets

\* Configurations: a solver, its tolerance, and the strategy under study.
Confs(solver, tolerances, strategies) ==
  {[solver |-> solver, eps |-> e, strategy |-> s] : e \in tolerances, s \in strategies}

Both == {"RuntimeError", "ValueError"}

-----------------------------------------------------------------------------
RootStudy ==
  [confs   |-> Confs("bnb", {10}, {"LongestEdgePlusFurthestSite", "RandomRoot",
                                   "LongestPair", "OrderRoot"}),
   catches |-> {"RuntimeError"}]

SearchStudy ==
  [confs   |-> Confs("bnb", {10, 50}, {"DfsBfs", "CheapestChildDepthFirst",
                                       "CheapestBreadthFirst"}),
   catches |-> Both]

DecompositionStudy ==
  [confs   |-> Confs("bnb", {10}, {"decomposition", "indicator", "eager indicator"}),
   catches |-> {"RuntimeError"}]

ScalabilityStudy ==
  [confs   |-> Confs("bnb", {1, 10, 50, 100, 150},
                     {"LongestEdgePlusFurthestSite", "OrderRoot"}),
   catches |-> Both]

LongStudy ==
  [confs   |-> Confs("bnb", {1}, {"LongestEdgePlusFurthestSite", "OrderRoot"}),
   catches |-> Both]

MipStudy ==
  [confs   |-> Confs("mip", {1, 10, 50, 100, 150}, {"nonconvex"}),
   catches |-> Both]

-----------------------------------------------------------------------------
\* read_row of the notebooks.  A row without solution is dropped or stops the
\* notebook; some notebooks divide by one of the bounds.
ReadRoot == [failedRow |-> "stops", dividesBy |-> "lower"]
ReadSearch == [failedRow |-> "dropped", dividesBy |-> "upper"]
ReadDecomposition == [failedRow |-> "dropped", dividesBy |-> "lower"]
ReadScalability == [failedRow |-> "dropped", dividesBy |-> "neither"]
ReadLong == [failedRow |-> "dropped", dividesBy |-> "neither"]
ReadMip == [failedRow |-> "stops", dividesBy |-> "neither"]
ReadBaseline == [failedRow |-> "dropped", dividesBy |-> "neither"]

\* The validation cells: of which solutions check_feasibility is asserted before
\* they are compared with the others ("nonempty": empty ones are passed over),
\* whether only rows of one tolerance are compared, and what is added to that
\* tolerance (the tolerance of rq1 and rq3 is the one of all their rows).
ValidateRoot == [feasible |-> "every", sameEps |-> FALSE, extra |-> 0]
ValidateSearch == [feasible |-> "nonempty", sameEps |-> TRUE, extra |-> 0]
ValidateDecomposition == [feasible |-> "none", sameEps |-> FALSE, extra |-> 0]
ValidateScalability == [feasible |-> "every", sameEps |-> TRUE, extra |-> 10]
ValidateMip == [feasible |-> "every", sameEps |-> TRUE, extra |-> 1]

\* rq5 validates the rows of the MIP together with those of rq4.
Script(study) ==
  CASE study = "rq1" -> RootStudy
    [] study = "rq2" -> SearchStudy
    [] study = "rq3" -> DecompositionStudy
    [] study = "rq4" -> ScalabilityStudy
    [] study = "long" -> LongStudy
    [] study = "rq5" -> [MipStudy EXCEPT !.confs = @ \cup ScalabilityStudy.confs]

Reader(study, conf) ==
  CASE study = "rq1" -> ReadRoot
    [] study = "rq2" -> ReadSearch
    [] study = "rq3" -> ReadDecomposition
    [] study = "rq4" -> ReadScalability
    [] study = "long" -> ReadLong
    [] study = "rq5" -> IF conf.solver = "mip" THEN ReadMip ELSE ReadBaseline

\* long_runs only reads its rows.
Validated == {"rq1", "rq2", "rq3", "rq4", "rq5"}

Validation(study) ==
  CASE study = "rq1" -> ValidateRoot
    [] study = "rq2" -> ValidateSearch
    [] study = "rq3" -> ValidateDecomposition
    [] study = "rq4" -> ValidateScalability
    [] study = "rq5" -> ValidateMip
=============================================================================
