-------------------------- MODULE LazyFeasibility --------------------------
(***************************************************************************)
(* What a node remembers about its trajectory while the instance grows     *)
(* (tspn_core/details/lazy_trajectory.cpp, distance_cache.h).              *)
(*                                                                         *)
(* The trajectory is computed once; distances, coverage and the verdict on *)
(* feasibility are filled in when asked for, up to the sites known at that *)
(* time, and continued later.  In between, callbacks add sites and         *)
(* simplification takes elements out of the sequence, on which the         *)
(* distances depend: the trajectory is taken to touch what it was computed *)
(* for, whatever the numbers say.                                          *)
(***************************************************************************)
EXTENDS Integers, FiniteSets, FiniteSetsExt

CONSTANTS
  MaxSites,     \* the final instance has sites 0 .. MaxSites - 1
  Far,          \* distances are 0 .. Far
  Tolerance     \* FEASIBILITY_TOLERANCE, on the same scale

ASSUME LazyFeasibilityAssumption ==
  MaxSites \in Nat \ {0} /\ Far \in Nat /\ Tolerance \in Nat

Site == 0 .. MaxSites - 1
Distance == 0 .. Far

VARIABLES
  size,         \* Instance::size(): sites 0 .. size - 1 are known
  first,        \* the sequence the node was created with (history)
  sequence,     \* the sites of its sequence, "lazy" or "fixed" (convex, exact
                \* or a part of the decomposition)
  trajectory,   \* what the solver returned, or NoTrajectory
  distances,    \* DistanceCache::cache, a function on 0 .. cache.size() - 1
  coverage,     \* coverage_info, likewise
  below,        \* feasible_below
  feasible      \* _feasible: "unset", "yes" or "no"

vars == <<size, first, sequence, trajectory, distances, coverage, below, feasible>>

NoTrajectory == [valid |-> FALSE, distance |-> <<>>]
Trajectories == [valid : BOOLEAN, distance : [Site -> Distance]]
Known == 0 .. size - 1
Sequences == UNION {[S -> {"lazy", "fixed"}] : S \in SUBSET Site}
Empty == [i \in {} |-> 0]

\* The functions on 0 .. n - 1, for n up to the number of sites.
Prefixes(S) == UNION {[0 .. n - 1 -> S] : n \in 0 .. MaxSites}

TypeOK ==
  /\ size \in 1 .. MaxSites
  /\ first \in Sequences /\ sequence \in Sequences
  /\ trajectory \in Trajectories \cup {NoTrajectory}
  /\ distances \in Prefixes(Distance) /\ coverage \in Prefixes(BOOLEAN)
  /\ below \in 0 .. MaxSites /\ feasible \in {"unset", "yes", "no"}

----------------------------------------------------------------------------
(* The caches *)

\* Trajectory::distance_geometry_sequence: elements that are active and not
\* lazy are visited by construction.
DistanceTo(t, seq, i) ==
  IF i \in DOMAIN seq /\ seq[i] = "fixed" THEN 0 ELSE t.distance[i]

\* Mutant of FilledDistances: what was cached is computed anew.
FilledDistancesAnew(t, seq) == [i \in Known |-> DistanceTo(t, seq, i)]

\* DistanceCache::fill_cache: continue where the cache ends.
FilledDistances(t, seq) ==
  [i \in Known |-> IF i \in DOMAIN distances THEN distances[i] ELSE DistanceTo(t, seq, i)]

\* Mutant of FilledCoverage: touching at the tolerance does not cover.
FilledCoverageStrict(t, seq) ==
  [i \in Known |-> IF i \in DOMAIN coverage THEN coverage[i]
                   ELSE FilledDistances(t, seq)[i] < Tolerance]

\* trigger_coverage, likewise.
FilledCoverage(t, seq) ==
  [i \in Known |-> IF i \in DOMAIN coverage THEN coverage[i]
                   ELSE FilledDistances(t, seq)[i] <= Tolerance]

\* distances(i) fills its cache only if i lies beyond its end.
DistancesAfterCoverage(t, seq) ==
  IF Known \subseteq DOMAIN coverage THEN distances ELSE FilledDistances(t, seq)

\* What the loop of is_feasible finds: it looks from feasible_below on.
Uncovered(t, seq) == {i \in Known : i >= below /\ ~FilledCoverage(t, seq)[i]}

\* Mutant of Verdict: once found feasible, always feasible.
VerdictRemembered(t, seq) ==
  IF feasible # "unset" THEN feasible
  ELSE IF Uncovered(t, seq) = {} THEN "yes" ELSE "no"

\* _feasible after the loop, ...
Verdict(t, seq) ==
  IF feasible = "no" \/ Uncovered(t, seq) # {} THEN "no" ELSE "yes"

\* Mutant of BelowAfter: the site that stopped the loop counts as checked.
BelowAfterPast(t, seq) == Min({size} \cup Uncovered(t, seq)) + 1

\* ... and feasible_below: where the loop stopped.
BelowAfter(t, seq) == Min({size} \cup Uncovered(t, seq))

\* is_feasible as a step on the caches, for the trajectory t.
CheckFeasible(t, seq) ==
  IF feasible = "no" \/ ~t.valid
    THEN UNCHANGED <<distances, coverage, below, feasible>>
    ELSE /\ distances' = DistancesAfterCoverage(t, seq)
         /\ coverage' = FilledCoverage(t, seq)
         /\ below' = BelowAfter(t, seq)
         /\ feasible' = Verdict(t, seq)

\* What is_feasible returns.
IsFeasible == trajectory.valid /\ Verdict(trajectory, sequence) = "yes"

----------------------------------------------------------------------------
(* The life of a node's trajectory *)

\* A node of the tree, its element for each site of the sequence, before
\* anything was computed.
Init ==
  /\ size \in 1 .. MaxSites
  /\ first \in {s \in Sequences : DOMAIN s \subseteq Known}
  /\ sequence = first
  /\ trajectory = NoTrajectory
  /\ distances = Empty /\ coverage = Empty
  /\ below = 0 /\ feasible = "unset"

\* get_lower_bound on a node that was not evaluated (the root): only
\* trigger_computation.
ComputeBound ==
  /\ trajectory = NoTrajectory
  /\ trajectory' \in Trajectories
  /\ distances' = Empty
  /\ UNCHANGED <<size, first, sequence, coverage, below, feasible>>

\* evaluate_child: trigger_lazy_evaluation asks for feasibility first; then
\* simplify takes elements out of the sequence, but never the first.
EvaluateChild ==
  /\ trajectory = NoTrajectory
  /\ \E t \in Trajectories : trajectory' = t /\ CheckFeasible(t, sequence)
  /\ \E kept \in SUBSET DOMAIN sequence :
       /\ kept # {} \/ sequence = Empty
       /\ trajectory'.valid \/ kept = DOMAIN sequence
       /\ sequence' = [i \in kept |-> sequence[i]]
  /\ UNCHANGED <<size, first>>

\* is_feasible, from the loop or from a callback.
AskFeasible ==
  /\ trajectory # NoTrajectory
  /\ CheckFeasible(trajectory, sequence)
  /\ UNCHANGED <<size, first, sequence, trajectory>>

\* get_distances, when FarthestPoly chooses the polygon to branch on.
AskDistances ==
  /\ trajectory # NoTrajectory
  /\ distances' = FilledDistances(trajectory, sequence)
  /\ UNCHANGED <<size, first, sequence, trajectory, coverage, below, feasible>>

\* get_coverage, when RandomPoly does.
AskCoverage ==
  /\ trajectory # NoTrajectory
  /\ distances' = DistancesAfterCoverage(trajectory, sequence)
  /\ coverage' = FilledCoverage(trajectory, sequence)
  /\ UNCHANGED <<size, first, sequence, trajectory, below, feasible>>

\* EventContext::add_lazy_site, while this or another node is visited.
AddSite ==
  /\ size < MaxSites
  /\ size' = size + 1
  /\ UNCHANGED <<first, sequence, trajectory, distances, coverage, below, feasible>>

Next == ComputeBound \/ EvaluateChild \/ AskFeasible \/ AskDistances \/ AskCoverage \/ AddSite

Spec == Init /\ [][Next]_vars

----------------------------------------------------------------------------
(* Properties *)

\* The sites that the trajectory misses, judged from scratch and by the
\* sequence it was computed for.
Missed == {i \in Known : DistanceTo(trajectory, first, i) > Tolerance}

\* Whenever is_feasible is asked, however much of the caches is filled and
\* however many sites were added since, the answer is right for all sites
\* known now; taking elements out of the sequence changes no answer.
FeasibleExact ==
  trajectory # NoTrajectory => (IsFeasible <=> trajectory.valid /\ Missed = {})

\* On a node that is not feasible, the site FarthestPoly chooses exists, is
\* missed by the trajectory, and if it is in the sequence it is there as a
\* hull that can be refined (the assertions of seq_contains).
FarthestIsMissed ==
  trajectory.valid /\ ~IsFeasible =>
    LET d == FilledDistances(trajectory, sequence)
    IN  \A i \in Known : (\A j \in Known : d[j] <= d[i]) =>
          /\ d[i] >= Tolerance
          /\ i \in Missed
          /\ i \in DOMAIN sequence => sequence[i] = "lazy"

----------------------------------------------------------------------------
(* The inductive invariant of LazyFeasibilityProofs *)

\* Every cached value is the one of the trajectory t and the sequence it was
\* computed for.
CachesFit(t) ==
  /\ \A i \in DOMAIN distances : distances[i] = DistanceTo(t, first, i)
  /\ \A i \in DOMAIN coverage : coverage[i] <=> DistanceTo(t, first, i) <= Tolerance
  /\ \A i \in Known : i < below => DistanceTo(t, first, i) <= Tolerance
  /\ feasible = "no" => \E i \in Known : ~(DistanceTo(t, first, i) <= Tolerance)

\* An element leaves the sequence only after its distance was cached.
CachesOrdered ==
  /\ DOMAIN first \subseteq Known /\ DOMAIN sequence \subseteq DOMAIN first
  /\ \A i \in DOMAIN sequence : sequence[i] = first[i]
  /\ DOMAIN first \ DOMAIN sequence \subseteq DOMAIN distances
  /\ DOMAIN coverage \subseteq DOMAIN distances /\ DOMAIN distances \subseteq Known
  /\ below \in 0 .. size
  /\ trajectory = NoTrajectory =>
       /\ sequence = first /\ distances = Empty /\ coverage = Empty
       /\ below = 0 /\ feasible = "unset"

CachesRight ==
  /\ TypeOK
  /\ CachesOrdered
  /\ trajectory # NoTrajectory => CachesFit(trajectory)

=============================================================================
