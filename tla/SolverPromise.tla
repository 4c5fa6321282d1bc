--------------------------- MODULE SolverPromise ---------------------------
(***************************************************************************)
(* What the branch-and-bound solver promises to its caller, with no tree,  *)
(* no queue and no relaxation: a bracket lower <= Opt <= upper around the  *)
(* length of an optimal tour that only ever narrows, and a verdict.  The   *)
(* caller of branch_and_bound() gets a solution, a lower bound and, from   *)
(* the two, the claim that the solution is good enough                     *)
(* (python/tspn_bnb2/core/operations.py).  BranchAndBound implements this  *)
(* specification.                                                          *)
(***************************************************************************)
EXTENDS Naturals

CONSTANTS
  Costs,          \* the lengths tours and bounds can have
  Inf,            \* stands for std::numeric_limits<double>::infinity()
  Opt,            \* the length of an optimal tour that obeys every constraint
  GapNum, GapDen, \* the allowed optimality gap is GapNum / GapDen
  Slack           \* how far a relaxation's length may exceed its proven bound

\* ub <= (1 + gap) * lb, equivalently lb >= ub / (1 + gap) (bnb.h:100, :179).
WithinGap(u, l) == u * GapDen <= (GapDen + GapNum) * l

\* An incumbent of length u needs no further search below the bound l: it is
\* within the gap, or it is itself the relaxation that the bound came from.
GoodEnough(u, l) == WithinGap(u, l) \/ u <= l + Slack

VARIABLES
  lower,    \* the proven lower bound
  upper,    \* the length of the best solution found, Inf if there is none
  verdict   \* "searching", "proven" or "timeout"

promiseVars == <<lower, upper, verdict>>

Init ==
  /\ lower \in Costs /\ lower <= Opt
  /\ upper = Inf
  /\ verdict = "searching"

\* The search narrows the bracket from either side and never widens it.
Narrow ==
  /\ verdict = "searching"
  /\ lower' \in Costs /\ lower <= lower' /\ lower' <= Opt
  /\ upper' \in Costs \cup {Inf} /\ Opt <= upper' /\ upper' <= upper
  /\ UNCHANGED verdict

\* "proven" may be announced only when the two reported numbers show it.
Prove ==
  /\ verdict = "searching"
  /\ GoodEnough(upper, lower)
  /\ verdict' = "proven"
  /\ UNCHANGED <<lower, upper>>

GiveUp ==
  /\ verdict = "searching"
  /\ verdict' = "timeout"
  /\ UNCHANGED <<lower, upper>>

Next == Narrow \/ Prove \/ GiveUp

Spec == Init /\ [][Next]_promiseVars
=============================================================================
