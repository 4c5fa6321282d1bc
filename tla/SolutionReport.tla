--------------------------- MODULE SolutionReport ---------------------------
(* The solution objects (AnnotatedSolution): how solve_annotated_instance   *)
(* and the MIP solvers report what they found, and the plausibility checks  *)
(* that compare two such reports.  Lengths and bounds are naturals, relative *)
(* tolerances are per mille; the absolute part of every tolerance is below  *)
(* one unit of length.                                                      *)
EXTENDS Integers

Inf == 1000000               \* float("inf"), null in JSON and inf again
NoTrajectory == {}            \* the empty linestring of a run without a tour

IsInf(x) == x = Inf

-----------------------------------------------------------------------------
\* upper <= (1 + eps) * lower
WithinRatio(upper, lower, eps) == 1000 * upper <= (1000 + eps) * lower

\* Mutant: the tolerance of the docstring, (UB - LB) <= eps * UB + eps.
ReportedOptimalByGap(upper, lower, eps) ==
  1000 * (upper - lower) <= eps * upper
\* The optimality flag of solve_annotated_instance.
ReportedOptimal(upper, lower, eps) ==
  IF lower > 0 THEN WithinRatio(upper, lower, eps) ELSE upper = 0

\* What solve_annotated_instance returns for a trajectory (NoTrajectory: the
\* search ended without one), its length and the proven lower bound.
Report(trajectory, length, lower, eps) ==
  LET none == trajectory = NoTrajectory
  IN  [trajectory  |-> trajectory,
       lower_bound |-> lower,
       upper_bound |-> IF none THEN Inf ELSE length,
       gap         |-> IF none THEN Inf ELSE length - lower,
       is_optimal  |-> ~ none /\ ReportedOptimal(length, lower, eps),
       mip_gap     |-> FALSE]

\* What TSPNMIPSolver.solve returns: the flag is the solver status, which is
\* OPTIMAL once the gap relative to the upper bound is within MIPGap.
MipReport(trajectory, length, lower, eps) ==
  [trajectory  |-> trajectory,
   lower_bound |-> lower,
   upper_bound |-> length,
   gap         |-> length - lower,
   is_optimal  |-> 1000 * (length - lower) <= eps * length,
   mip_gap     |-> TRUE]

-----------------------------------------------------------------------------
\* self_plausibility_check divides by the lower bound of a solution that is
\* flagged optimal, or by its upper bound if its statistics hold a mip_gap.
CheckRaises(s) ==
  s.is_optimal /\ (IF s.mip_gap THEN s.upper_bound ELSE s.lower_bound) = 0

\* self_plausibility_check(eps)["valid"]; length is trajectory.length.
SelfPlausible(s, length, eps) ==
  /\ IsInf(s.upper_bound) \/ s.lower_bound <= s.upper_bound
  /\ IF IsInf(s.gap) THEN IsInf(s.upper_bound)
     ELSE ~ IsInf(s.upper_bound) /\ s.gap = s.upper_bound - s.lower_bound
  /\ IsInf(s.upper_bound) \/ length = s.upper_bound
  /\ s.is_optimal =>
       /\ ~ IsInf(s.gap) /\ ~ IsInf(s.upper_bound)
       /\ IF s.mip_gap
            \* (ub - lb) / ub <= 1 + eps
            THEN 1000 * (s.upper_bound - s.lower_bound) <= (1000 + eps) * s.upper_bound
            ELSE WithinRatio(s.upper_bound, s.lower_bound, eps)

\* np.isclose(a, b, rtol=eps): the tolerance is relative to b.
IsClose(a, b, eps) ==
  LET difference == IF a < b THEN b - a ELSE a - b
  IN  1000 * difference <= eps * b

\* The cross checks of s.plausibility_check(o, eps).
BoundsAgree(s, o) ==
  \A upper \in {s.upper_bound, o.upper_bound} :
    IsInf(upper) \/ (s.lower_bound <= upper /\ o.lower_bound <= upper)

OptimaAgree(s, o, eps) ==
  s.is_optimal /\ o.is_optimal =>
    /\ ~ IsInf(s.upper_bound) /\ ~ IsInf(o.upper_bound)
    /\ IsClose(s.upper_bound, o.upper_bound, eps)
=============================================================================
