----------------------- MODULE LazyFeasibilityProofs -----------------------
(***************************************************************************)
(* The cached verdict on feasibility is exact, for any number of sites,    *)
(* any scale of distances and any order of questions, new sites and        *)
(* simplification.                                                         *)
(***************************************************************************)
EXTENDS LazyFeasibility, Recursion

\* A computed trajectory can be told from a missing one.
LEMMA TrajectoryExists ==
  ASSUME NEW t \in Trajectories
  PROVE  t # NoTrajectory
<1>1. t.distance \in [Site -> Distance] /\ 0 \in Site
  BY LazyFeasibilityAssumption DEF Trajectories, Site
<1>2. DOMAIN t.distance # {}
  BY <1>1
<1>3. DOMAIN NoTrajectory.distance = {}
  BY DEF NoTrajectory
<1>4. QED
  BY <1>2, <1>3

\* Distances are numbers, also those that are bypassed.
LEMMA DistancesAreNumbers ==
  ASSUME NEW t \in Trajectories, NEW seq, NEW i \in Site
  PROVE  DistanceTo(t, seq, i) \in Distance /\ DistanceTo(t, seq, i) \in Nat
  BY LazyFeasibilityAssumption DEF Trajectories, DistanceTo, Distance

\* Sites that are known are sites.
LEMMA KnownAreSites ==
  ASSUME TypeOK
  PROVE  Known \subseteq Site /\ size \in Nat
  BY LazyFeasibilityAssumption DEF TypeOK, Known, Site

\* What the caches hold after being filled is what a computation from scratch
\* for the original sequence gives.
LEMMA FilledExactly ==
  ASSUME TypeOK, CachesOrdered, NEW t \in Trajectories, CachesFit(t)
  PROVE  \A i \in Known :
           /\ FilledDistances(t, sequence)[i] = DistanceTo(t, first, i)
           /\ FilledCoverage(t, sequence)[i] <=> DistanceTo(t, first, i) <= Tolerance
<1> SUFFICES ASSUME NEW i \in Known
             PROVE  /\ FilledDistances(t, sequence)[i] = DistanceTo(t, first, i)
                    /\ FilledCoverage(t, sequence)[i] <=> DistanceTo(t, first, i) <= Tolerance
  OBVIOUS
<1>1. FilledDistances(t, sequence)[i] = DistanceTo(t, first, i)
  <2>1. CASE i \in DOMAIN distances
    BY <2>1 DEF FilledDistances, CachesFit
  <2>2. CASE i \notin DOMAIN distances
    <3>1. FilledDistances(t, sequence)[i] = DistanceTo(t, sequence, i)
      BY <2>2 DEF FilledDistances
    <3>2. i \in DOMAIN first <=> i \in DOMAIN sequence
      BY <2>2 DEF CachesOrdered
    <3>3. DistanceTo(t, sequence, i) = DistanceTo(t, first, i)
      BY <3>2 DEF CachesOrdered, DistanceTo
    <3>4. QED
      BY <3>1, <3>3
  <2>3. QED
    BY <2>1, <2>2
<1>2. FilledCoverage(t, sequence)[i] <=> DistanceTo(t, first, i) <= Tolerance
  <2>1. CASE i \in DOMAIN coverage
    BY <2>1 DEF FilledCoverage, CachesFit
  <2>2. CASE i \notin DOMAIN coverage
    BY <1>1, <2>2 DEF FilledCoverage
  <2>3. QED
    BY <2>1, <2>2
<1>3. QED
  BY <1>1, <1>2

\* The verdict of the incremental loop is right.
LEMMA VerdictExact ==
  ASSUME TypeOK, CachesOrdered, NEW t \in Trajectories, CachesFit(t)
  PROVE  /\ Verdict(t, sequence) \in {"yes", "no"}
         /\ Verdict(t, sequence) = "yes" <=>
              \A i \in Known : DistanceTo(t, first, i) <= Tolerance
<1>1. \A i \in Known : FilledCoverage(t, sequence)[i] <=> DistanceTo(t, first, i) <= Tolerance
  BY FilledExactly
<1>2. CASE feasible = "no"
  BY <1>2 DEF Verdict, CachesFit
<1>3. CASE feasible # "no"
  <2>1. \A i \in Known : ~(i >= below) => DistanceTo(t, first, i) <= Tolerance
    BY DEF CachesFit, CachesOrdered, Known, TypeOK
  <2>2. QED
    BY <1>1, <1>3, <2>1 DEF Verdict, Uncovered
<1>4. QED
  BY <1>2, <1>3

\* From the invariant, is_feasible returns the right answer.
THEOREM CachesRightImpliesExact == CachesRight => FeasibleExact
<1> SUFFICES ASSUME CachesRight, trajectory # NoTrajectory
             PROVE  IsFeasible <=> trajectory.valid /\ Missed = {}
  BY DEF FeasibleExact
<1>1. TypeOK /\ CachesOrdered /\ CachesFit(trajectory) /\ trajectory \in Trajectories
  BY DEF CachesRight, TypeOK
<1>2. Verdict(trajectory, sequence) = "yes" <=>
        \A i \in Known : DistanceTo(trajectory, first, i) <= Tolerance
  BY <1>1, VerdictExact
<1>3. \A i \in Known : DistanceTo(trajectory, first, i) \in Nat
  BY <1>1, KnownAreSites, DistancesAreNumbers
<1>4. Missed = {} <=> \A i \in Known : DistanceTo(trajectory, first, i) <= Tolerance
  BY <1>3, LazyFeasibilityAssumption DEF Missed
<1>5. QED
  BY <1>2, <1>4 DEF IsFeasible

\* And the site to branch on is one that the trajectory misses.
THEOREM CachesRightImpliesMissed == CachesRight => FarthestIsMissed
<1> DEFINE d == FilledDistances(trajectory, sequence)
<1> SUFFICES ASSUME CachesRight, trajectory.valid, ~IsFeasible,
                    NEW i \in Known, \A j \in Known : d[j] <= d[i]
             PROVE  /\ d[i] >= Tolerance
                    /\ i \in Missed
                    /\ i \in DOMAIN sequence => sequence[i] = "lazy"
  BY DEF FarthestIsMissed
<1>1. trajectory # NoTrajectory
  BY DEF NoTrajectory
<1>2. TypeOK /\ CachesOrdered /\ CachesFit(trajectory) /\ trajectory \in Trajectories
  BY <1>1 DEF CachesRight, TypeOK
<1>3. PICK j \in Known : j \in Missed
  BY <1>1, CachesRightImpliesExact DEF FeasibleExact, Missed
<1>4. \A k \in Known : d[k] = DistanceTo(trajectory, first, k) /\ d[k] \in Nat
  BY <1>2, FilledExactly, KnownAreSites, DistancesAreNumbers
<1>5. d[j] > Tolerance /\ d[j] <= d[i] /\ d[i] \in Nat /\ d[j] \in Nat
  BY <1>3, <1>4 DEF Missed
<1>6. d[i] > Tolerance /\ d[i] # 0
  BY <1>5, LazyFeasibilityAssumption
<1>7. i \in Missed
  BY <1>4, <1>6 DEF Missed
<1>8. ASSUME i \in DOMAIN sequence PROVE sequence[i] = "lazy"
  <2>1. first[i] = sequence[i] /\ i \in DOMAIN first
    BY <1>2, <1>8 DEF CachesOrdered
  <2>2. ~(first[i] = "fixed")
    BY <1>4, <1>6, <2>1 DEF DistanceTo
  <2>3. sequence[i] \in {"lazy", "fixed"}
    BY <1>2, <1>8 DEF TypeOK, Sequences
  <2>4. QED
    BY <2>1, <2>2, <2>3
<1>9. QED
  BY <1>6, <1>7, <1>8, <1>5, LazyFeasibilityAssumption

----------------------------------------------------------------------------
(* The invariant is inductive *)

\* Filled caches have the right type.
LEMMA FilledTypes ==
  ASSUME TypeOK, CachesOrdered, NEW t \in Trajectories
  PROVE  /\ FilledDistances(t, sequence) \in Prefixes(Distance)
         /\ FilledCoverage(t, sequence) \in Prefixes(BOOLEAN)
         /\ DistancesAfterCoverage(t, sequence) \in Prefixes(Distance)
         /\ DOMAIN FilledDistances(t, sequence) = Known
         /\ DOMAIN FilledCoverage(t, sequence) = Known
<1>1. size \in 0 .. MaxSites /\ Known = 0 .. size - 1 /\ Known \subseteq Site
  BY KnownAreSites, LazyFeasibilityAssumption DEF TypeOK, Known
<1>2. \A i \in DOMAIN distances : distances[i] \in Distance
  BY DEF TypeOK, Prefixes
<1>3. \A i \in DOMAIN coverage : coverage[i] \in BOOLEAN
  BY DEF TypeOK, Prefixes
<1>4. \A i \in Known : DistanceTo(t, sequence, i) \in Distance
  BY <1>1, DistancesAreNumbers
<1>5. FilledDistances(t, sequence) \in [Known -> Distance]
  BY <1>2, <1>4 DEF FilledDistances
<1>6. FilledCoverage(t, sequence) \in [Known -> BOOLEAN]
  <2> DEFINE c(i) == IF i \in DOMAIN coverage THEN coverage[i]
                     ELSE FilledDistances(t, sequence)[i] <= Tolerance
  <2>1. ASSUME NEW i \in Known PROVE c(i) \in BOOLEAN
    <3>1. CASE i \in DOMAIN coverage
      BY <1>3, <3>1
    <3>2. CASE i \notin DOMAIN coverage
      BY <3>2
    <3>3. QED
      BY <3>1, <3>2
  <2>2. FilledCoverage(t, sequence) = [i \in Known |-> c(i)]
    BY DEF FilledCoverage
  <2> HIDE DEF c
  <2>3. QED
    BY <2>1, <2>2
<1>7. /\ FilledDistances(t, sequence) \in Prefixes(Distance)
      /\ FilledCoverage(t, sequence) \in Prefixes(BOOLEAN)
  BY <1>1, <1>5, <1>6 DEF Prefixes
<1>8. DistancesAfterCoverage(t, sequence) \in Prefixes(Distance)
  BY <1>7 DEF DistancesAfterCoverage, TypeOK
<1>9. QED
  BY <1>5, <1>6, <1>7, <1>8

\* is_feasible keeps the caches right.
LEMMA CheckKeepsCaches ==
  ASSUME TypeOK, CachesOrdered, NEW t \in Trajectories, CachesFit(t),
         CheckFeasible(t, sequence), UNCHANGED <<size, first>>
  PROVE  /\ CachesFit(t)'
         /\ distances' \in Prefixes(Distance) /\ coverage' \in Prefixes(BOOLEAN)
         /\ below' \in 0 .. size /\ feasible' \in {"unset", "yes", "no"}
         /\ DOMAIN distances \subseteq DOMAIN distances'
         /\ DOMAIN coverage' \subseteq DOMAIN distances' /\ DOMAIN distances' \subseteq Known
         /\ t.valid /\ feasible # "no" => DOMAIN first \subseteq DOMAIN distances'
<1>0. Known' = Known
  BY DEF Known
<1>1. CASE feasible = "no" \/ ~t.valid
  <2>1. UNCHANGED <<distances, coverage, below, feasible>>
    BY <1>1 DEF CheckFeasible
  <2>2. CachesFit(t)'
    BY <1>0, <2>1 DEF CachesFit, DistanceTo
  <2>3. QED
    BY <1>1, <2>1, <2>2 DEF CachesOrdered, TypeOK
<1>2. CASE ~(feasible = "no" \/ ~t.valid)
  <2>1. /\ distances' = DistancesAfterCoverage(t, sequence)
        /\ coverage' = FilledCoverage(t, sequence)
        /\ below' = BelowAfter(t, sequence)
        /\ feasible' = Verdict(t, sequence)
    BY <1>2 DEF CheckFeasible
  <2>2. \A i \in Known : /\ FilledDistances(t, sequence)[i] = DistanceTo(t, first, i)
                         /\ FilledCoverage(t, sequence)[i] <=> DistanceTo(t, first, i) <= Tolerance
    BY FilledExactly
  <2>3. /\ DOMAIN distances' = Known /\ DOMAIN coverage' = Known
        /\ distances' \in Prefixes(Distance) /\ coverage' \in Prefixes(BOOLEAN)
    <3>1. DOMAIN DistancesAfterCoverage(t, sequence) = Known
      BY FilledTypes DEF DistancesAfterCoverage, CachesOrdered
    <3>2. QED
      BY <2>1, <3>1, FilledTypes
  <2>4. \A i \in DOMAIN distances' : distances'[i] = DistanceTo(t, first, i)
    BY <2>1, <2>2, <2>3 DEF DistancesAfterCoverage, CachesFit
  <2>5. \A i \in DOMAIN coverage' : coverage'[i] <=> DistanceTo(t, first, i) <= Tolerance
    BY <2>1, <2>2, <2>3
  <2>6. /\ feasible' \in {"yes", "no"}
        /\ feasible' = "yes" <=> \A i \in Known : DistanceTo(t, first, i) <= Tolerance
    BY <2>1, VerdictExact
  <2>7. below' \in 0 .. size /\ \A i \in Known : i < below' => DistanceTo(t, first, i) <= Tolerance
    <3> DEFINE S == {size} \cup Uncovered(t, sequence)
    <3>1. S \subseteq 0 .. size /\ size \in Nat /\ Known = 0 .. size - 1
      BY KnownAreSites DEF Uncovered, Known
    <3>2. below' \in S /\ \A i \in S : below' <= i
      BY <2>1, <3>1, MinIsLeast DEF BelowAfter
    <3>3. ASSUME NEW i \in Known, i < below' PROVE DistanceTo(t, first, i) <= Tolerance
      <4>1. i \notin Uncovered(t, sequence)
        BY <3>1, <3>2, <3>3
      <4>2. i < below \/ FilledCoverage(t, sequence)[i]
        BY <3>1, <4>1 DEF Uncovered, CachesOrdered
      <4>3. QED
        BY <2>2, <4>2 DEF CachesFit
    <3>4. QED
      BY <3>1, <3>2, <3>3
  <2>8. CachesFit(t)'
    BY <1>0, <2>4, <2>5, <2>6, <2>7 DEF CachesFit, DistanceTo
  <2>9. QED
    BY <2>3, <2>6, <2>7, <2>8 DEF CachesOrdered
<1>3. QED
  BY <1>1, <1>2

LEMMA InitCachesRight == Init => CachesRight
<1> SUFFICES ASSUME Init PROVE CachesRight
  OBVIOUS
<1>1. Empty \in Prefixes(Distance) /\ Empty \in Prefixes(BOOLEAN) /\ DOMAIN Empty = {}
  <2>1. 0 .. 0 - 1 = {} /\ 0 \in 0 .. MaxSites
    BY LazyFeasibilityAssumption
  <2>2. Empty \in [0 .. 0 - 1 -> Distance] /\ Empty \in [0 .. 0 - 1 -> BOOLEAN]
    BY <2>1 DEF Empty
  <2>3. QED
    BY <2>1, <2>2 DEF Prefixes, Empty
<1>2. TypeOK
  BY <1>1, LazyFeasibilityAssumption DEF Init, TypeOK
<1>3. CachesOrdered
  BY <1>1, LazyFeasibilityAssumption DEF Init, CachesOrdered
<1>4. QED
  BY <1>2, <1>3 DEF Init, CachesRight

\* On a node that was not computed the caches are empty, hence fit any
\* trajectory.
LEMMA EmptyCachesFit ==
  ASSUME CachesRight, trajectory = NoTrajectory, NEW t \in Trajectories
  PROVE  CachesFit(t)
<1>1. distances = Empty /\ coverage = Empty /\ below = 0 /\ feasible = "unset"
  BY DEF CachesRight, CachesOrdered
<1>2. \A i \in Known : ~(i < 0)
  BY KnownAreSites DEF CachesRight, Site
<1>3. DOMAIN distances = {} /\ DOMAIN coverage = {}
  BY <1>1 DEF Empty
<1>4. QED
  BY <1>1, <1>2, <1>3 DEF CachesFit

LEMMA ComputeBoundStep ==
  ASSUME CachesRight, ComputeBound
  PROVE  CachesRight'
<1>1. PICK t \in Trajectories : trajectory' = t
  BY DEF ComputeBound
<1>2. UNCHANGED <<size, first, sequence, distances, coverage, below, feasible>> /\ Known' = Known
  BY DEF ComputeBound, CachesRight, CachesOrdered, Known
<1>3. CachesFit(t)
  BY EmptyCachesFit DEF ComputeBound
<1>4. CachesFit(trajectory)'
  BY <1>1, <1>2, <1>3 DEF CachesFit, DistanceTo
<1>5. TypeOK'
  BY <1>1, <1>2 DEF CachesRight, TypeOK
<1>6. CachesOrdered'
  BY <1>1, <1>2, TrajectoryExists DEF CachesRight, CachesOrdered
<1>7. QED
  BY <1>4, <1>5, <1>6 DEF CachesRight

LEMMA EvaluateChildStep ==
  ASSUME CachesRight, EvaluateChild
  PROVE  CachesRight'
<1>1. PICK t \in Trajectories : trajectory' = t /\ CheckFeasible(t, sequence)
  BY DEF EvaluateChild
<1>2. PICK kept \in SUBSET DOMAIN sequence :
        /\ t.valid \/ kept = DOMAIN sequence
        /\ sequence' = [i \in kept |-> sequence[i]]
  BY <1>1 DEF EvaluateChild
<1>3. UNCHANGED <<size, first>> /\ Known' = Known /\ feasible = "unset" /\ sequence = first
  BY DEF EvaluateChild, CachesRight, CachesOrdered, Known
<1>4. TypeOK /\ CachesOrdered /\ CachesFit(t)
  BY EmptyCachesFit DEF EvaluateChild, CachesRight
<1>5. /\ CachesFit(t)'
      /\ distances' \in Prefixes(Distance) /\ coverage' \in Prefixes(BOOLEAN)
      /\ below' \in 0 .. size /\ feasible' \in {"unset", "yes", "no"}
      /\ DOMAIN coverage' \subseteq DOMAIN distances' /\ DOMAIN distances' \subseteq Known
      /\ t.valid => DOMAIN first \subseteq DOMAIN distances'
  BY <1>1, <1>3, <1>4, CheckKeepsCaches
<1>6. CachesFit(trajectory)'
  BY <1>1, <1>5 DEF CachesFit, DistanceTo
<1>7. sequence' \in Sequences
  <2>1. \A i \in kept : sequence[i] \in {"lazy", "fixed"}
    BY <1>2, <1>4 DEF TypeOK, Sequences
  <2>2. kept \in SUBSET Site
    BY <1>2, <1>4 DEF TypeOK, Sequences
  <2>3. QED
    BY <1>2, <2>1, <2>2 DEF Sequences
<1>8. TypeOK'
  <2>1. below' \in 0 .. MaxSites
    BY <1>4, <1>5, LazyFeasibilityAssumption DEF TypeOK
  <2>2. QED
    BY <1>1, <1>3, <1>4, <1>5, <1>7, <2>1 DEF TypeOK
<1>9. CachesOrdered'
  BY <1>1, <1>2, <1>3, <1>4, <1>5, TrajectoryExists DEF CachesOrdered
<1>10. QED
  BY <1>6, <1>8, <1>9 DEF CachesRight

LEMMA AskFeasibleStep ==
  ASSUME CachesRight, AskFeasible
  PROVE  CachesRight'
<1>1. /\ trajectory # NoTrajectory /\ CheckFeasible(trajectory, sequence)
      /\ UNCHANGED <<size, first, sequence, trajectory>> /\ Known' = Known
  BY DEF AskFeasible, Known
<1>2. PICK t \in Trajectories : t = trajectory
  BY <1>1 DEF CachesRight, TypeOK
<1>3. TypeOK /\ CachesOrdered /\ CachesFit(t)
  BY <1>1, <1>2 DEF CachesRight
<1>4. /\ CachesFit(t)'
      /\ distances' \in Prefixes(Distance) /\ coverage' \in Prefixes(BOOLEAN)
      /\ below' \in 0 .. size /\ feasible' \in {"unset", "yes", "no"}
      /\ DOMAIN distances \subseteq DOMAIN distances'
      /\ DOMAIN coverage' \subseteq DOMAIN distances' /\ DOMAIN distances' \subseteq Known
  BY <1>1, <1>2, <1>3, CheckKeepsCaches
<1>5. CachesFit(trajectory)'
  BY <1>1, <1>2, <1>4 DEF CachesFit, DistanceTo
<1>6. TypeOK'
  <2>1. below' \in 0 .. MaxSites
    BY <1>3, <1>4, LazyFeasibilityAssumption DEF TypeOK
  <2>2. QED
    BY <1>1, <1>3, <1>4, <2>1 DEF TypeOK
<1>7. CachesOrdered'
  BY <1>1, <1>3, <1>4 DEF CachesOrdered
<1>8. QED
  BY <1>5, <1>6, <1>7 DEF CachesRight

LEMMA AskDistancesStep ==
  ASSUME CachesRight, AskDistances
  PROVE  CachesRight'
<1>1. /\ trajectory # NoTrajectory /\ distances' = FilledDistances(trajectory, sequence)
      /\ UNCHANGED <<size, first, sequence, trajectory, coverage, below, feasible>>
      /\ Known' = Known
  BY DEF AskDistances, Known
<1>2. TypeOK /\ CachesOrdered /\ CachesFit(trajectory) /\ trajectory \in Trajectories
  BY <1>1 DEF CachesRight, TypeOK
<1>3. DOMAIN distances' = Known /\ distances' \in Prefixes(Distance)
  BY <1>1, <1>2, FilledTypes
<1>4. \A i \in Known : distances'[i] = DistanceTo(trajectory, first, i)
  BY <1>1, <1>2, FilledExactly
<1>5. CachesFit(trajectory)'
  BY <1>1, <1>2, <1>3, <1>4 DEF CachesFit, DistanceTo
<1>6. TypeOK'
  BY <1>1, <1>2, <1>3 DEF TypeOK
<1>7. CachesOrdered'
  BY <1>1, <1>2, <1>3 DEF CachesOrdered
<1>8. QED
  BY <1>5, <1>6, <1>7 DEF CachesRight

LEMMA AskCoverageStep ==
  ASSUME CachesRight, AskCoverage
  PROVE  CachesRight'
<1>1. /\ trajectory # NoTrajectory
      /\ distances' = DistancesAfterCoverage(trajectory, sequence)
      /\ coverage' = FilledCoverage(trajectory, sequence)
      /\ UNCHANGED <<size, first, sequence, trajectory, below, feasible>>
      /\ Known' = Known
  BY DEF AskCoverage, Known
<1>2. TypeOK /\ CachesOrdered /\ CachesFit(trajectory) /\ trajectory \in Trajectories
  BY <1>1 DEF CachesRight, TypeOK
<1>3. /\ distances' \in Prefixes(Distance) /\ coverage' \in Prefixes(BOOLEAN)
      /\ DOMAIN coverage' = Known
  BY <1>1, <1>2, FilledTypes
<1>4. DOMAIN distances' = Known
  BY <1>1, <1>2, FilledTypes DEF DistancesAfterCoverage, CachesOrdered
<1>5. \A i \in Known : /\ FilledDistances(trajectory, sequence)[i] = DistanceTo(trajectory, first, i)
                       /\ FilledCoverage(trajectory, sequence)[i]
                            <=> DistanceTo(trajectory, first, i) <= Tolerance
  BY <1>2, FilledExactly
<1>6. \A i \in Known : distances'[i] = DistanceTo(trajectory, first, i)
  BY <1>1, <1>2, <1>4, <1>5 DEF DistancesAfterCoverage, CachesFit
<1>7. CachesFit(trajectory)'
  BY <1>1, <1>2, <1>3, <1>4, <1>5, <1>6 DEF CachesFit, DistanceTo
<1>8. TypeOK'
  BY <1>1, <1>2, <1>3 DEF TypeOK
<1>9. CachesOrdered'
  BY <1>1, <1>2, <1>3, <1>4 DEF CachesOrdered
<1>10. QED
  BY <1>7, <1>8, <1>9 DEF CachesRight

LEMMA AddSiteStep ==
  ASSUME CachesRight, AddSite
  PROVE  CachesRight'
<1>1. /\ size < MaxSites /\ size' = size + 1
      /\ UNCHANGED <<first, sequence, trajectory, distances, coverage, below, feasible>>
  BY DEF AddSite
<1>2. TypeOK /\ CachesOrdered /\ size \in Nat
  BY KnownAreSites DEF CachesRight
<1>3. Known \subseteq Known' /\ \A i \in Known' : i < below => i \in Known
  BY <1>1, <1>2 DEF Known, CachesOrdered
<1>4. TypeOK'
  BY <1>1, <1>2, LazyFeasibilityAssumption DEF TypeOK
<1>5. CachesOrdered'
  BY <1>1, <1>2, <1>3 DEF CachesOrdered
<1>6. ASSUME trajectory # NoTrajectory PROVE CachesFit(trajectory)'
  <2>1. CachesFit(trajectory)
    BY <1>6 DEF CachesRight
  <2>2. QED
    BY <1>1, <1>3, <2>1 DEF CachesFit, DistanceTo
<1>7. QED
  BY <1>1, <1>4, <1>5, <1>6 DEF CachesRight

\* The caches are always right: the invariant behind the two theorems below.
THEOREM CachesStayRight == Spec => []CachesRight
<1>1. Init => CachesRight
  BY InitCachesRight
<1>2. CachesRight /\ [Next]_vars => CachesRight'
  <2> SUFFICES ASSUME CachesRight, [Next]_vars PROVE CachesRight'
    OBVIOUS
  <2>1. CASE ComputeBound
    BY <2>1, ComputeBoundStep
  <2>2. CASE EvaluateChild
    BY <2>2, EvaluateChildStep
  <2>3. CASE AskFeasible
    BY <2>3, AskFeasibleStep
  <2>4. CASE AskDistances
    BY <2>4, AskDistancesStep
  <2>5. CASE AskCoverage
    BY <2>5, AskCoverageStep
  <2>6. CASE AddSite
    BY <2>6, AddSiteStep
  <2>7. CASE UNCHANGED vars
    BY <2>7 DEF vars, CachesRight, TypeOK, CachesOrdered, CachesFit, DistanceTo, Known
  <2>8. QED
    BY <2>1, <2>2, <2>3, <2>4, <2>5, <2>6, <2>7 DEF Next
<1>3. QED
  BY <1>1, <1>2, PTL DEF Spec

\* is_feasible, computed incrementally, is exact for the sites known when it is
\* asked (the assumption that BranchAndBound makes of a node).
THEOREM FeasibilityIsExact == Spec => []FeasibleExact
  BY CachesStayRight, CachesRightImpliesExact, PTL

\* FarthestPoly never branches on a site that is covered or cannot be refined.
THEOREM BranchesOnMissedSite == Spec => []FarthestIsMissed
  BY CachesStayRight, CachesRightImpliesMissed, PTL

\* The caches are prefixes that end within the known sites, and whatever is
\* stored about a node keeps its type (lazy_trajectory.h, distance_cache.h).
THEOREM CachesKeepTypes == Spec => []TypeOK
<1>1. CachesRight => TypeOK
  BY DEF CachesRight
<1>2. QED
  BY <1>1, CachesStayRight, PTL
=============================================================================
