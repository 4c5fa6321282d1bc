-------------------------- MODULE PreSimplifyProofs --------------------------
(***************************************************************************)
(* The preprocessing keeps every tour, on any plane and for any number of  *)
(* sites: removing holes and filling pockets because a curve cannot stay   *)
(* within one and still reach a far site, and erasing supersites because   *)
(* what a site is erased for is kept or was itself erased for something    *)
(* that is.                                                                *)
(***************************************************************************)
EXTENDS Experiments, Recursion

\* A connected curve that meets an area C of the complement of A and something
\* apart from C passes through A.
LEMMA CurveLeavesArea ==
  ASSUME NEW T \in Curves, NEW A, NEW C \in Parts(Cells \ A), NEW S, Apart(C, S),
         T \cap C # {}, T \cap S # {}
  PROVE  T \cap A # {}
<1> SUFFICES ASSUME T \cap A = {} PROVE FALSE
  OBVIOUS
<1> DEFINE Q == T \cap C
<1>1. T \in SUBSET Cells /\ Connected(T)
  BY PlaneAssumption
<1>2. Separated(C, (Cells \ A) \ C)
  BY DEF Parts
<1>3. T \ Q \subseteq (Cells \ A) \ C
  BY <1>1
<1>4. Separated(Q, T \ Q)
  BY <1>2, <1>3 DEF Separated
<1>5. Q \in SUBSET T /\ Q # {} /\ Q # T
  BY DEF Apart
<1> QED BY <1>1, <1>4, <1>5 DEF Connected

\* So what an operation adds to a site because of a far site is met by no
\* curve through all sites that does not meet the site itself.
LEMMA ExtendedNotMissed ==
  ASSUME NEW i \in DOMAIN sites, NEW areas \in SUBSET Parts(Cells \ sites[i]),
         NEW T \in Curves,
         T \cap Extended(i, areas) # {},
         \A j \in DOMAIN sites : j # i => T \cap sites[j] # {}
  PROVE  T \cap sites[i] # {}
<1>1. PICK c \in T : c \in Extended(i, areas)
  OBVIOUS
<1>2. CASE c \in sites[i]
  BY <1>2
<1>3. CASE c \notin sites[i]
  <2>1. PICK C \in areas : c \in C /\ FarSite(C, i)
    BY <1>1, <1>3 DEF Extended
  <2>2. PICK j \in DOMAIN sites : j # i /\ Apart(C, sites[j])
    BY <2>1 DEF FarSite
  <2>3. T \cap C # {} /\ T \cap sites[j] # {}
    BY <2>1, <2>2
  <2>4. C \in Parts(Cells \ sites[i])
    BY <2>1
  <2> QED BY <2>2, <2>3, <2>4, CurveLeavesArea
<1> QED BY <1>2, <1>3

----------------------------------------------------------------------------
\* The types of the variables.
Typed ==
  /\ input \in Seq(SUBSET Cells)
  /\ sites \in [1 .. Len(input) -> SUBSET Cells]
  /\ pos \in Nat
  /\ stage \in {"idle", "done", "failed"} \cup Operations
  /\ stage \in {"remove_holes", "convex_hull_fill"} => pos # 0
  /\ kept \subseteq DOMAIN sites

\* A curve through all transformed sites goes through all sites.
Transformed == \A T \in Curves : Visits(T, sites) => Visits(T, input)

\* Every site that was erased contains one that is kept.
Represented == \A b \in DOMAIN sites : \E a \in kept : sites[a] \subseteq sites[b]

\* No site is erased before the last loop, which goes from back to front.
NotYetErased ==
  /\ stage \in {"remove_holes", "convex_hull_fill"} => kept = DOMAIN sites
  /\ stage = "remove_supersites" => \A i \in DOMAIN sites : i <= pos => i \in kept

Inv == Typed /\ Transformed /\ Represented /\ NotYetErased

LEMMA InvCurvesKept == Inv => CurvesKept
<1> SUFFICES ASSUME Inv, NEW T \in Curves, \A i \in kept : T \cap sites[i] # {}
             PROVE  Visits(T, input)
  BY DEF CurvesKept
<1>1. ASSUME NEW b \in DOMAIN sites
      PROVE  T \cap sites[b] # {}
  <2>1. PICK a \in kept : sites[a] \subseteq sites[b]
    BY DEF Inv, Represented
  <2> QED BY <2>1
<1> QED BY <1>1 DEF Inv, Transformed, Visits

LEMMA InitInv == input \in Seq(SUBSET Cells) /\ PreInit => Inv
<1> SUFFICES ASSUME input \in Seq(SUBSET Cells), PreInit PROVE Inv
  OBVIOUS
<1>1. input \in [1 .. Len(input) -> SUBSET Cells]
  OBVIOUS
<1> QED BY <1>1 DEF PreInit, Inv, Typed, Transformed, Represented, NotYetErased

LEMMA BeginInv ==
  ASSUME Inv, NEW ops \in SUBSET Operations, Begin(ops)
  PROVE  Inv'
<1>1. input' = input /\ sites' = input /\ kept' = DOMAIN sites'
  BY DEF Begin
<1>2. Typed'
  BY <1>1 DEF Begin, Inv, Typed, Operations
<1>3. Transformed' /\ Represented' /\ NotYetErased'
  BY <1>1 DEF Begin, Transformed, Represented, NotYetErased, Visits
<1> QED BY <1>2, <1>3 DEF Inv

\* Extending one site, and going on to the next, keeps the invariant.
LEMMA ExtendInv ==
  ASSUME Inv, stage \in {"remove_holes", "convex_hull_fill"}, pos <= Len(sites),
         NEW areas \in SUBSET Parts(Cells \ sites[pos]),
         sites' = [sites EXCEPT ![pos] = Extended(pos, areas)],
         pos' = pos + 1, UNCHANGED <<input, flags, stage, kept>>
  PROVE  Inv'
<1>1. /\ sites \in [1 .. Len(input) -> SUBSET Cells] /\ Len(input) \in Nat
      /\ Len(sites) = Len(input) /\ pos \in DOMAIN sites
      /\ DOMAIN sites' = DOMAIN sites
  BY DEF Inv, Typed
<1>2. Extended(pos, areas) \in SUBSET Cells
  BY DEF Extended
<1>3. /\ sites'[pos] = Extended(pos, areas)
      /\ \A j \in DOMAIN sites : j # pos => sites'[j] = sites[j]
      /\ sites' \in [1 .. Len(input) -> SUBSET Cells]
  BY <1>1, <1>2
<1>4. Typed'
  BY <1>1, <1>3 DEF Inv, Typed
<1>5. Transformed'
  <2> SUFFICES ASSUME NEW T \in Curves, Visits(T, sites)' PROVE Visits(T, input)
    BY DEF Transformed, Visits
  <2>1. \A j \in DOMAIN sites : T \cap sites'[j] # {}
    BY <1>1 DEF Visits
  <2>2. T \cap Extended(pos, areas) # {}
    BY <2>1, <1>1, <1>3
  <2>3. \A j \in DOMAIN sites : j # pos => T \cap sites[j] # {}
    BY <2>1, <1>3
  <2>4. T \cap sites[pos] # {}
    BY <2>2, <2>3, <1>1, ExtendedNotMissed
  <2>5. Visits(T, sites)
    BY <2>3, <2>4 DEF Visits
  <2> QED BY <2>5 DEF Inv, Transformed
<1>6. kept' = DOMAIN sites'
  BY <1>1 DEF Inv, NotYetErased
<1>7. Represented' /\ NotYetErased'
  BY <1>6 DEF Represented, NotYetErased
<1> QED BY <1>4, <1>5, <1>7 DEF Inv

LEMMA RemoveHolesInv ==
  ASSUME Inv, RemoveHolesAt
  PROVE  Inv'
<1>1. CASE "remove_holes" \in flags /\ pos <= Len(sites)
  <2>1. Holes(sites[pos]) \in SUBSET Parts(Cells \ sites[pos])
    BY DEF Holes
  <2>2. /\ sites' = [sites EXCEPT ![pos] = Extended(pos, Holes(sites[pos]))]
        /\ pos' = pos + 1 /\ UNCHANGED <<input, flags, stage, kept>>
        /\ stage \in {"remove_holes", "convex_hull_fill"}
    BY <1>1 DEF RemoveHolesAt, WithoutHoles
  <2> QED BY <1>1, <2>1, <2>2, ExtendInv
<1>2. CASE ~ ("remove_holes" \in flags /\ pos <= Len(sites))
  <2>1. stage = "remove_holes" /\ stage' = "convex_hull_fill" /\ pos' = 1
    BY <1>2 DEF RemoveHolesAt
  <2>2. UNCHANGED <<input, sites, kept>>
    BY <1>2 DEF RemoveHolesAt
  <2>3. Typed'
    BY <2>1, <2>2 DEF Inv, Typed, Operations
  <2>4. Transformed' /\ Represented'
    BY <2>2 DEF Inv, Transformed, Represented, Visits
  <2>5. NotYetErased'
    BY <2>1, <2>2 DEF Inv, NotYetErased
  <2> QED BY <2>3, <2>4, <2>5 DEF Inv
<1> QED BY <1>1, <1>2

LEMMA ConvexHullFillInv ==
  ASSUME Inv, ConvexHullFillAt
  PROVE  Inv'
<1>1. CASE "convex_hull_fill" \in flags /\ pos <= Len(sites)
  <2>1. Pockets(sites[pos]) \in SUBSET Parts(Cells \ sites[pos])
    BY DEF Pockets
  <2>2. /\ sites' = [sites EXCEPT ![pos] = Extended(pos, Pockets(sites[pos]))]
        /\ pos' = pos + 1 /\ UNCHANGED <<input, flags, stage, kept>>
        /\ stage \in {"remove_holes", "convex_hull_fill"}
    BY <1>1 DEF ConvexHullFillAt, Filled
  <2> QED BY <1>1, <2>1, <2>2, ExtendInv
<1>2. CASE ~ ("convex_hull_fill" \in flags /\ pos <= Len(sites))
  <2>1. /\ stage = "convex_hull_fill" /\ stage' = "remove_supersites"
        /\ pos' = Len(sites) /\ UNCHANGED <<input, sites, kept>>
    BY <1>2 DEF ConvexHullFillAt
  <2>2. Len(sites) \in Nat
    BY DEF Inv, Typed
  <2> QED BY <2>1, <2>2 DEF Inv, Typed, Transformed, Represented, NotYetErased, Visits,
                            Operations
<1> QED BY <1>1, <1>2

LEMMA RemoveSupersitesInv ==
  ASSUME Inv, RemoveSupersitesAt
  PROVE  Inv'
<1>0. /\ UNCHANGED <<input, sites>> /\ stage = "remove_supersites"
      /\ DOMAIN sites \subseteq Nat /\ pos \in Nat
  BY DEF RemoveSupersitesAt, Inv, Typed
<1>1. Transformed'
  BY <1>0 DEF Inv, Transformed, Visits
<1>2. CASE "remove_supersites" \in flags /\ pos >= 1
  <2>1. /\ pos' = pos - 1 /\ stage' = stage
        /\ kept' = IF Supersite(pos) THEN kept \ {pos} ELSE kept
    BY <1>2 DEF RemoveSupersitesAt
  <2>2. Typed'
    BY <1>0, <1>2, <2>1 DEF Inv, Typed
  <2>3. NotYetErased'
    BY <1>0, <1>2, <2>1 DEF Inv, NotYetErased
  <2>4. Represented'
    <3>1. CASE ~ Supersite(pos)
      BY <1>0, <2>1, <3>1 DEF Inv, Represented
    <3>2. CASE Supersite(pos)
      <4>1. PICK inner \in DOMAIN sites : inner # pos /\ ContainsWithPrio(inner, pos)
        BY <3>2 DEF Supersite
      <4>2. sites[inner] \subseteq sites[pos]
        BY <4>1 DEF ContainsWithPrio
      <4>3. \E a \in kept \ {pos} : sites[a] \subseteq sites[pos]
        <5>1. CASE inner < pos
          <6>1. inner \in kept
            BY <1>0, <5>1 DEF Inv, NotYetErased
          <6> QED BY <6>1, <4>1, <4>2
        <5>2. CASE ~ (inner < pos)
          <6>1. ~ (sites[pos] \subseteq sites[inner])
            BY <4>1, <5>2 DEF ContainsWithPrio
          <6>2. PICK a \in kept : sites[a] \subseteq sites[inner]
            BY DEF Inv, Represented
          <6> QED BY <6>1, <6>2, <4>2
        <5> QED BY <5>1, <5>2
      <4>4. ASSUME NEW b \in DOMAIN sites
            PROVE  \E a \in kept \ {pos} : sites[a] \subseteq sites[b]
        <5>1. PICK a \in kept : sites[a] \subseteq sites[b]
          BY DEF Inv, Represented
        <5> QED BY <5>1, <4>3
      <4> QED BY <1>0, <2>1, <3>2, <4>4 DEF Represented
    <3> QED BY <3>1, <3>2
  <2> QED BY <1>1, <2>2, <2>3, <2>4 DEF Inv
<1>3. CASE ~ ("remove_supersites" \in flags /\ pos >= 1)
  <2>1. stage' = "done" /\ UNCHANGED <<pos, kept>>
    BY <1>3 DEF RemoveSupersitesAt
  <2> QED BY <1>0, <1>1, <2>1 DEF Inv, Typed, Represented, NotYetErased
<1> QED BY <1>2, <1>3

LEMMA StepInv == Inv /\ [PreNext]_preVars => Inv'
<1> SUFFICES ASSUME Inv, [PreNext]_preVars PROVE Inv'
  OBVIOUS
<1>1. CASE UNCHANGED preVars
  BY <1>1 DEF preVars, Inv, Typed, Transformed, Represented, NotYetErased, Visits
<1>2. CASE \E ops \in SUBSET Operations : Begin(ops)
  BY <1>2, BeginInv
<1>3. CASE RemoveHolesAt
  BY <1>3, RemoveHolesInv
<1>4. CASE ConvexHullFillAt
  BY <1>4, ConvexHullFillInv
<1>5. CASE ConvexHullFillFails
  BY <1>5 DEF ConvexHullFillFails, Inv, Typed, Transformed, Represented, NotYetErased,
              Visits
<1>6. CASE RemoveSupersitesAt
  BY <1>6, RemoveSupersitesInv
<1>7. CASE Return
  BY <1>7 DEF Return, Inv, Typed, Transformed, Represented, NotYetErased, Visits
<1> QED BY <1>1, <1>2, <1>3, <1>4, <1>5, <1>6, <1>7 DEF PreNext, SimplifyStep

----------------------------------------------------------------------------
\* Whichever operations run, whichever order the sites come in and whatever a
\* later iteration makes of what an earlier one left: a curve through the sites
\* that remain visits every site of the instance (pre_simplify.cpp).
THEOREM PreprocessingKeepsTours == PreSpec => []CurvesKept
<1>1. input \in Seq(SUBSET Cells) /\ PreInit => Inv
  BY InitInv
<1>2. Inv /\ [PreNext]_preVars => Inv'
  BY StepInv
<1>3. Inv => CurvesKept
  BY InvCurvesKept
<1> QED BY <1>1, <1>2, <1>3, PTL DEF PreSpec

\* The same within the experiments: simplification jobs for different flags,
\* extractions and solver jobs in any order and any number
\* (evaluation/00_simplification, operations.py).
THEOREM ExperimentsKeepTours == Spec => []CurvesKept
<1>1. Init => Inv
  <2> SUFFICES ASSUME Init PROVE Inv
    OBVIOUS
  <2>1. input \in Seq(SUBSET Cells) /\ PreInit
    BY InstancesAssumption DEF Init, IsInstance
  <2> QED BY <2>1, InitInv
<1>2. Inv /\ [Next]_vars => Inv'
  <2> SUFFICES ASSUME Inv, [Next]_vars PROVE Inv'
    OBVIOUS
  <2>1. ASSUME NEW ops \in SimplificationConfs, StartSimplification(ops)
        PROVE  PreNext
    BY <2>1 DEF StartSimplification, SimplificationConfs, PreNext
  <2>2. CASE Simplify
    BY <2>2, StepInv DEF Simplify, PreNext
  <2>3. CASE StoreSimplified
    BY <2>3, StepInv DEF StoreSimplified, PreNext
  <2>4. CASE Extract
    BY <2>4, StepInv DEF Extract
  <2>5. ASSUME NEW name \in StudyNames, NEW conf \in Sampled(name), SolveInstance(name, conf)
        PROVE  UNCHANGED preVars
    BY <2>5 DEF SolveInstance
  <2>6. CASE UNCHANGED vars
    BY <2>6, StepInv DEF vars
  <2> QED BY <2>1, <2>2, <2>3, <2>4, <2>5, <2>6, StepInv DEF Next
<1>3. Inv => CurvesKept
  BY InvCurvesKept
<1> QED BY <1>1, <1>2, <1>3, PTL DEF Spec

----------------------------------------------------------------------------
(* Sorting *)

\* s lists S by index, ties by the elements themselves.
Lists(s, S, index) ==
  /\ s \in [1 .. Cardinality(S) -> S]
  /\ \A k, l \in 1 .. Cardinality(S) : k < l =>
       \/ index[s[k]] < index[s[l]]
       \/ index[s[k]] = index[s[l]] /\ s[k] < s[l]

\* Every element is in the place that the number of those before it gives it.
LEMMA ListExists ==
  ASSUME NEW S \in SUBSET Int, IsFiniteSet(S), NEW index \in [S -> Int]
  PROVE  \E s : Lists(s, S, index)
<1> DEFINE n == Cardinality(S)
           Before(i) == {j \in S : index[j] < index[i] \/ (index[j] = index[i] /\ j < i)}
           rank == [i \in S |-> Cardinality(Before(i)) + 1]
<1>1. n \in Nat
  BY FS_CardinalityType
<1>2. ASSUME NEW i \in S
      PROVE  IsFiniteSet(Before(i)) /\ Cardinality(Before(i)) \in Nat
  <2>1. Before(i) \in SUBSET S
    OBVIOUS
  <2> HIDE DEF Before
  <2> QED BY <2>1, FS_Subset, FS_CardinalityType
<1>3. ASSUME NEW i \in S, NEW T \in SUBSET S, Before(i) \subseteq T, i \in T
      PROVE  rank[i] <= Cardinality(T)
  <2>1. i \notin Before(i)
    OBVIOUS
  <2>2. Cardinality(Before(i) \cup {i}) = Cardinality(Before(i)) + 1
    <3> HIDE DEF Before
    <3> QED BY <1>2, <2>1, FS_AddElement
  <2>3. Before(i) \cup {i} \in SUBSET T /\ IsFiniteSet(T)
    <3> HIDE DEF Before
    <3> QED BY <1>3, FS_Subset
  <2> HIDE DEF Before
  <2> QED BY <2>2, <2>3, FS_Subset
<1>4. ASSUME NEW i \in S, NEW j \in S, i \in Before(j)
      PROVE  rank[i] < rank[j]
  <2>1. ASSUME NEW k \in Before(i) PROVE k \in Before(j)
    <3>1. index[i] \in Int /\ index[j] \in Int /\ index[k] \in Int /\ k \in S
      OBVIOUS
    <3>2. index[i] < index[j] \/ (index[i] = index[j] /\ i < j)
      BY <1>4
    <3>3. index[k] < index[i] \/ (index[k] = index[i] /\ k < i)
      OBVIOUS
    <3>4. index[k] < index[j] \/ (index[k] = index[j] /\ k < j)
      BY <3>1, <3>2, <3>3
    <3> QED BY <3>1, <3>4
  <2>2. rank[i] <= Cardinality(Before(j))
    <3>1. Before(j) \in SUBSET S
      OBVIOUS
    <3> HIDE DEF Before, rank
    <3> QED BY <1>3, <1>4, <2>1, <3>1
  <2>3. rank[j] = Cardinality(Before(j)) + 1 /\ rank[i] = Cardinality(Before(i)) + 1
    OBVIOUS
  <2> HIDE DEF Before, rank
  <2> QED BY <1>2, <2>2, <2>3
<1>5. \A i, j \in S : i # j => i \in Before(j) \/ j \in Before(i)
  OBVIOUS
<1>6. rank \in [S -> 1 .. n]
  <2>1. ASSUME NEW i \in S PROVE rank[i] \in 1 .. n
    <3>1. Before(i) \subseteq S /\ rank[i] = Cardinality(Before(i)) + 1
      OBVIOUS
    <3>2. rank[i] <= n
      <4> HIDE DEF rank, Before
      <4> QED BY <1>3, <3>1
    <3> HIDE DEF rank, Before, n
    <3> QED BY <1>1, <1>2, <3>1, <3>2
  <2>2. rank = [i \in S |-> rank[i]]
    OBVIOUS
  <2> HIDE DEF rank
  <2> QED BY <2>1, <2>2
<1> HIDE DEF rank, Before, n
<1>7. IsFiniteSet(1 .. n) /\ Cardinality(1 .. n) = n
  <2>1. ASSUME NEW m \in Nat PROVE IsFiniteSet(1 .. m) /\ Cardinality(1 .. m) = m
    BY FS_Interval
  <2> QED BY <1>1, <2>1
<1>8. rank \in Injection(S, 1 .. n)
  <2>1. ASSUME NEW i \in S, NEW j \in S, rank[i] = rank[j] PROVE i = j
    <3>1. rank[i] \in Int /\ rank[j] \in Int
      BY <1>6
    <3> QED BY <1>4, <1>5, <2>1, <3>1
  <2> QED BY <1>6, <2>1 DEF Injection, IsInjective
<1>9. rank \in Surjection(S, 1 .. n)
  BY <1>7, <1>8, FS_Injection DEF n
<1>10. \A k \in 1 .. n : \E i \in S : rank[i] = k
  BY <1>9 DEF Surjection
<1> DEFINE s == [k \in 1 .. n |-> CHOOSE i \in S : rank[i] = k]
<1>11. \A k \in 1 .. n : s[k] \in S /\ rank[s[k]] = k
  BY <1>10
<1>12. s \in [1 .. n -> S]
  BY <1>11
<1>13. ASSUME NEW k \in 1 .. n, NEW l \in 1 .. n, k < l
       PROVE  \/ index[s[k]] < index[s[l]]
              \/ index[s[k]] = index[s[l]] /\ s[k] < s[l]
  <2> HIDE DEF s
  <2>1. s[k] \in Before(s[l])
    <3>1. rank[s[k]] = k /\ rank[s[l]] = l /\ s[k] \in S /\ s[l] \in S
      BY <1>11
    <3>2. s[k] # s[l]
      BY <1>13, <3>1
    <3>3. s[l] \notin Before(s[k])
      <4>1. ~ (l < k)
        BY <1>13
      <4> QED BY <1>4, <3>1, <4>1
    <3> QED BY <1>5, <3>1, <3>2, <3>3
  <2> QED BY <2>1 DEF Before
<1> HIDE DEF s
<1> QED BY <1>12, <1>13 DEF Lists, n

\* What SortedByIndex returns: every element once, in order.
LEMMA SortedLists ==
  ASSUME NEW S \in SUBSET Int, IsFiniteSet(S), NEW index \in [S -> Int]
  PROVE  LET s == SortedByIndex(index)
             n == Cardinality(S)
         IN  /\ n \in Nat /\ s \in [1 .. n -> S] /\ s \in Seq(S) /\ Len(s) = n
             /\ \A k, l \in 1 .. n : k < l => index[s[k]] <= index[s[l]] /\ s[k] # s[l]
             /\ ToSet(s) = S
<1> DEFINE s == SortedByIndex(index)
           n == Cardinality(S)
<1>1. n \in Nat
  BY FS_CardinalityType
<1>2. Lists(s, S, index)
  <2> DEFINE InOrder(t) == \A k, l \in DOMAIN t : k < l =>
                             \/ index[t[k]] < index[t[l]]
                             \/ index[t[k]] = index[t[l]] /\ t[k] < t[l]
  <2>1. \A t \in [1 .. n -> S] : DOMAIN t = 1 .. n
    OBVIOUS
  <2>2. \E t \in [1 .. n -> S] : InOrder(t)
    <3>1. PICK t : Lists(t, S, index)
      BY ListExists
    <3> QED BY <2>1, <3>1 DEF Lists
  <2>3. DOMAIN index = S
    OBVIOUS
  <2>4. s = CHOOSE t \in [1 .. n -> S] : InOrder(t)
    BY <2>3 DEF SortedByIndex
  <2> HIDE DEF s
  <2>5. s \in [1 .. n -> S] /\ InOrder(s)
    <3> HIDE DEF InOrder
    <3> QED BY <2>2, <2>4
  <2> QED BY <2>1, <2>5 DEF Lists
<1> HIDE DEF s
<1>3. /\ s \in [1 .. n -> S]
      /\ \A k, l \in 1 .. n : k < l => \/ index[s[k]] < index[s[l]]
                                       \/ index[s[k]] = index[s[l]] /\ s[k] < s[l]
  BY <1>2 DEF Lists
<1> HIDE DEF n
<1>4. s \in Seq(S) /\ Len(s) = n
  BY <1>1, <1>3
<1>5. \A k, l \in 1 .. n : k < l => index[s[k]] <= index[s[l]] /\ s[k] # s[l]
  <2> SUFFICES ASSUME NEW k \in 1 .. n, NEW l \in 1 .. n, k < l
               PROVE  index[s[k]] <= index[s[l]] /\ s[k] # s[l]
    OBVIOUS
  <2>1. s[k] \in S /\ s[l] \in S /\ index[s[k]] \in Int /\ index[s[l]] \in Int
    BY <1>3
  <2>2. \/ index[s[k]] < index[s[l]]
        \/ index[s[k]] = index[s[l]] /\ s[k] < s[l]
    BY <1>3
  <2>3. s[k] \in Int /\ s[l] \in Int
    BY <2>1
  <2>4. CASE index[s[k]] < index[s[l]]
    BY <2>1, <2>4
  <2>5. CASE index[s[k]] = index[s[l]] /\ s[k] < s[l]
    BY <2>1, <2>3, <2>5
  <2> QED BY <2>2, <2>4, <2>5
<1>6. ToSet(s) = S
  <2>1. s \in Injection(1 .. n, S)
    <3>1. ASSUME NEW k \in 1 .. n, NEW l \in 1 .. n, s[k] = s[l] PROVE k = l
      BY <1>1, <1>5, <3>1
    <3> QED BY <1>3, <3>1 DEF Injection, IsInjective
  <2>2. Cardinality(1 .. n) = n
    <3>1. ASSUME NEW m \in Nat PROVE Cardinality(1 .. m) = m
      BY FS_Interval
    <3> QED BY <1>1, <3>1
  <2>3. s \in Surjection(1 .. n, S)
    BY <2>1, <2>2, FS_Injection DEF n
  <2>4. DOMAIN s = 1 .. n
    BY <1>3
  <2> QED BY <1>3, <2>3, <2>4 DEF Surjection, ToSet
<1> QED BY <1>1, <1>3, <1>4, <1>5, <1>6 DEF s, n

----------------------------------------------------------------------------
(* The annotations of a simplified instance and the root made from them *)

\* The polygons on the hull and where they meet it.
LEMMA HullFacts ==
  ASSUME NEW p \in Seq(SUBSET Cells)
  PROVE  /\ OnHull(p) \in SUBSET Int /\ OnHull(p) \subseteq 1 .. Len(p)
         /\ IsFiniteSet(OnHull(p))
         /\ \A i \in OnHull(p) : /\ Position(p[i]) \in DOMAIN Hull /\ Position(p[i]) \in Int
                                 /\ Hull[Position(p[i])] \in p[i]
<1>1. DOMAIN Hull = 1 .. Len(Hull) /\ Len(Hull) \in Nat
  BY PlaneAssumption
<1>2. DOMAIN p = 1 .. Len(p) /\ Len(p) \in Nat
  OBVIOUS
<1>3. OnHull(p) \subseteq 1 .. Len(p)
  BY <1>2 DEF OnHull
<1>4. IsFiniteSet(1 .. Len(p))
  <2>1. ASSUME NEW m \in Nat PROVE IsFiniteSet(1 .. m)
    BY FS_Interval
  <2> QED BY <1>2, <2>1
<1>5. IsFiniteSet(OnHull(p))
  BY <1>3, <1>4, FS_Subset
<1>6. ASSUME NEW i \in OnHull(p)
      PROVE  /\ Position(p[i]) \in DOMAIN Hull /\ Position(p[i]) \in Int
             /\ Hull[Position(p[i])] \in p[i]
  <2> DEFINE S == {k \in DOMAIN Hull : Hull[k] \in p[i]}
  <2>1. S \in SUBSET Nat
    BY <1>1
  <2>2. S # {}
    BY DEF OnHull, Border
  <2>3. Min(S) \in S
    <3> HIDE DEF S
    <3> QED BY <2>1, <2>2, MinIsLeast
  <2>4. Position(p[i]) = Min(S)
    BY DEF Position
  <2>5. Min(S) \in Int
    BY <2>1, <2>3
  <2> QED BY <2>3, <2>4, <2>5
<1> QED BY <1>2, <1>3, <1>5, <1>6

\* An instance without annotations, annotated.
Noted(p) == AddOrderAnnotations([polygons |-> p, annotations |-> <<>>])

\* Its annotations are those of the polygons on the hull, numbered in the order
\* in which the polygons meet it.
LEMMA NotedFacts ==
  ASSUME NEW p \in Seq(SUBSET Cells)
  PROVE  LET marks == Noted(p).annotations
             H == OnHull(p)
         IN  /\ Noted(p).polygons = p /\ DOMAIN marks = H
             /\ \A i \in H : /\ marks[i].hull_index \in Nat
                             /\ marks[i].intersections = Intersections(p, i)
                             /\ marks[i] \in Annotation
             /\ \A i, j \in H : marks[i].hull_index <= marks[j].hull_index =>
                                  Position(p[i]) <= Position(p[j])
<1> DEFINE H == OnHull(p)
           where == [i \in H |-> Position(p[i])]
           ordered == OrderedIndices(p)
           n == Cardinality(H)
           At(i) == CHOOSE k \in DOMAIN ordered : ordered[k] = i
           note == [i \in H |-> [hull_index |-> At(i) - 1, intersections |-> Intersections(p, i)]]
<1>1. /\ H \in SUBSET Int /\ IsFiniteSet(H) /\ where \in [H -> Int]
      /\ \A i \in H : where[i] = Position(p[i]) /\ Position(p[i]) \in Int
  BY HullFacts
<1>2. ordered = SortedByIndex(where)
  BY DEF OrderedIndices
<1> HIDE DEF where, ordered, H
<1>3. /\ n \in Nat /\ ordered \in [1 .. n -> H]
      /\ \A k, l \in 1 .. n : k < l => where[ordered[k]] <= where[ordered[l]]
      /\ ToSet(ordered) = H
  BY <1>1, <1>2, SortedLists
<1> HIDE DEF n
<1>4. DOMAIN ordered = 1 .. n
  BY <1>3
<1>5. ASSUME NEW i \in H PROVE At(i) \in 1 .. n /\ ordered[At(i)] = i
  <2>1. \E k \in DOMAIN ordered : ordered[k] = i
    BY <1>3 DEF ToSet
  <2>2. At(i) \in DOMAIN ordered /\ ordered[At(i)] = i
    BY <2>1
  <2> QED BY <1>4, <2>2
<1>6. Noted(p).polygons = p /\ Noted(p).annotations = note
  BY DEF Noted, AddOrderAnnotations, H, ordered
<1> HIDE DEF At
<1>7. ASSUME NEW i \in H, NEW j \in H, At(i) - 1 <= At(j) - 1
      PROVE  Position(p[i]) <= Position(p[j])
  <2>1. At(i) \in 1 .. n /\ At(j) \in 1 .. n /\ ordered[At(i)] = i /\ ordered[At(j)] = j
    BY <1>5
  <2>2. CASE At(i) = At(j)
    <3>1. i = j
      BY <2>1, <2>2
    <3> QED BY <1>1, <3>1
  <2>3. CASE At(i) # At(j)
    <3>1. At(i) < At(j)
      BY <1>3, <1>7, <2>1, <2>3
    <3>2. where[ordered[At(i)]] <= where[ordered[At(j)]]
      BY <1>3, <2>1, <3>1
    <3> QED BY <1>1, <2>1, <3>2
  <2> QED BY <2>2, <2>3
<1>8. ASSUME NEW i \in H
      PROVE  At(i) - 1 \in Nat /\ Intersections(p, i) \in SUBSET Nat
  <2>1. At(i) - 1 \in Nat
    BY <1>3, <1>5
  <2>2. H \subseteq Nat
    BY HullFacts DEF H
  <2> QED BY <2>1, <2>2 DEF Intersections, H
<1>9. \A i \in H : note[i] \in Annotation
  BY <1>8 DEF Annotation
<1> QED BY <1>6, <1>7, <1>8, <1>9 DEF H

\* OrderRoot, one polygon at a time.
RootOn(geos, root, i) ==
  IF \E k \in DOMAIN root : i \in geos[root[k]].overlaps THEN root ELSE Append(root, i)

Roots(geos, order) ==
  CHOOSE root : root = [m \in 0 .. Len(order) |->
                          IF m = 0 THEN <<>> ELSE RootOn(geos, root[m - 1], order[m])]

LEMMA RootsExist ==
  ASSUME NEW H, NEW geos, NEW order \in Seq(H)
  PROVE  /\ Roots(geos, order)[0] = <<>>
         /\ \A m \in 1 .. Len(order) :
              Roots(geos, order)[m] = RootOn(geos, Roots(geos, order)[m - 1], order[m])
<1> DEFINE n == Len(order)
           S == Seq(H)
           F == [m \in 1 .. n |-> [r \in S |-> RootOn(geos, r, order[m])]]
           Unfold(root) ==
             [m \in 0 .. n |-> IF m = 0 THEN <<>> ELSE RootOn(geos, root[m - 1], order[m])]
<1>1. n \in Nat /\ \A m \in 1 .. n : order[m] \in H
  OBVIOUS
<1>2. ASSUME NEW m \in 1 .. n, NEW r \in S PROVE RootOn(geos, r, order[m]) \in S
  <2>1. Append(r, order[m]) \in S
    BY <1>1
  <2> QED BY <2>1 DEF RootOn
<1>3. F \in [1 .. n -> [S -> S]] /\ <<>> \in S
  BY <1>2
<1>4. PICK g \in [0 .. n -> S] : Iterates(g, n, <<>>, F)
  <2> HIDE DEF n, F, S
  <2> QED BY <1>1, <1>3, RecursionExists
<1>5. g = Unfold(g)
  <2>1. ASSUME NEW m \in 0 .. n, m # 0
        PROVE  g[m] = RootOn(geos, g[m - 1], order[m])
    <3>1. m \in 1 .. n /\ m - 1 \in 0 .. n
      BY <1>1, <2>1
    <3>2. g[m] = F[m][g[m - 1]]
      <4> HIDE DEF F
      <4> QED BY <1>4, <3>1 DEF Iterates
    <3>3. g[m - 1] \in S
      BY <3>1
    <3> QED BY <3>1, <3>2, <3>3
  <2>2. g[0] = <<>>
    BY <1>4 DEF Iterates
  <2> HIDE DEF F, S
  <2> QED BY <2>1, <2>2
<1>6. \E f : f = Unfold(f)
  <2> HIDE DEF Unfold
  <2> QED BY <1>5
<1>7. Roots(geos, order) = Unfold(Roots(geos, order))
  BY <1>6 DEF Roots
<1> HIDE DEF F
<1>8. 0 \in 0 .. n /\ \A m \in 1 .. n : m \in 0 .. n /\ m # 0
  BY <1>1
<1> QED BY <1>7, <1>8

\* The polygons of a root: on the hull, in order, and pairwise disjoint.
RootSoundIn(p, root) ==
  /\ root \in Seq(OnHull(p))
  /\ \A k, l \in 1 .. Len(root) : k < l =>
       p[root[k]] \cap p[root[l]] = {} /\ Position(p[root[k]]) < Position(p[root[l]])

\* One more polygon keeps the root sound: overlaps are recorded, and polygons
\* that meet the hull at the same place overlap there.
LEMMA RootExtends ==
  ASSUME NEW p \in Seq(SUBSET Cells), NEW root, RootSoundIn(p, root), NEW i \in OnHull(p),
         \A k \in 1 .. Len(root) :
           /\ i \notin Intersections(p, root[k]) /\ root[k] # i
           /\ Position(p[root[k]]) <= Position(p[i])
  PROVE  RootSoundIn(p, Append(root, i))
<1> DEFINE H == OnHull(p)
           u == Append(root, i)
           n == Len(root)
<1>1. root \in Seq(H) /\ n \in Nat /\ \A k \in 1 .. n : root[k] \in H
  BY DEF RootSoundIn
<1>2. u \in Seq(H) /\ Len(u) = n + 1 /\ u[n + 1] = i /\ \A k \in 1 .. n : u[k] = root[k]
  BY <1>1
<1>3. ASSUME NEW k \in 1 .. n
      PROVE  p[root[k]] \cap p[i] = {} /\ Position(p[root[k]]) < Position(p[i])
  <2>1. p[root[k]] \cap p[i] = {}
    BY DEF Intersections
  <2>2. /\ Hull[Position(p[root[k]])] \in p[root[k]] /\ Hull[Position(p[i])] \in p[i]
        /\ Position(p[root[k]]) \in Int /\ Position(p[i]) \in Int
    BY <1>1, HullFacts
  <2>3. Position(p[root[k]]) # Position(p[i])
    BY <2>1, <2>2
  <2> QED BY <2>1, <2>2, <2>3
<1> HIDE DEF u, n, H
<1>4. ASSUME NEW k \in 1 .. n + 1, NEW l \in 1 .. n + 1, k < l
      PROVE  p[u[k]] \cap p[u[l]] = {} /\ Position(p[u[k]]) < Position(p[u[l]])
  <2>1. k \in 1 .. n /\ u[k] = root[k]
    BY <1>1, <1>2, <1>4
  <2>2. CASE l \in 1 .. n
    <3>1. u[l] = root[l]
      BY <1>2, <2>2
    <3> QED BY <1>4, <2>1, <2>2, <3>1 DEF RootSoundIn, n
  <2>3. CASE l = n + 1
    <3>1. u[l] = i
      BY <1>2, <2>3
    <3> QED BY <1>3, <2>1, <3>1
  <2> QED BY <1>1, <2>2, <2>3
<1> QED BY <1>2, <1>4 DEF RootSoundIn, u, H

\* What OrderRoot goes through: the polygons with an order index, sorted by it.
Indexed(geos) ==
  SortedByIndex([i \in {j \in DOMAIN geos : geos[j].order_index # {}} |->
                   CHOOSE k \in geos[i].order_index : TRUE])

LEMMA OrderRootIsLast ==
  ASSUME NEW geos
  PROVE  OrderRoot(geos) = Roots(geos, Indexed(geos))[Len(Indexed(geos))]
BY DEF OrderRoot, Roots, RootOn, Indexed

\* For the annotations of NotedFacts these are the hull polygons.
LEMMA NotedGeometries ==
  ASSUME NEW p \in Seq(SUBSET Cells)
  PROVE  LET geos  == GeometryAnnotations(Noted(p))
             order == Indexed(geos)
             H     == OnHull(p)
         IN  /\ \A i \in H : geos[i].overlaps = Intersections(p, i)
             /\ order = HullPolygons(Noted(p))
             /\ order \in Seq(H) /\ ToSet(order) = H
             /\ \A k, l \in 1 .. Len(order) : k < l =>
                  order[k] # order[l] /\ Position(p[order[k]]) <= Position(p[order[l]])
<1> DEFINE H == OnHull(p)
           marks == Noted(p).annotations
           geos == GeometryAnnotations(Noted(p))
           h == [i \in H |-> marks[i].hull_index]
           order == Indexed(geos)
           n == Cardinality(H)
<1>1. /\ Noted(p).polygons = p /\ DOMAIN marks = H
      /\ \A i \in H : /\ marks[i].hull_index \in Nat
                      /\ marks[i].intersections = Intersections(p, i)
      /\ \A i, j \in H : marks[i].hull_index <= marks[j].hull_index =>
                           Position(p[i]) <= Position(p[j])
  BY NotedFacts
<1>2. H \in SUBSET Int /\ H \subseteq DOMAIN p /\ IsFiniteSet(H)
  <2>1. DOMAIN p = 1 .. Len(p)
    OBVIOUS
  <2> QED BY <2>1, HullFacts
<1>3. geos = [i \in DOMAIN p |->
                IF i \in H THEN [order_index |-> IF marks[i].hull_index >= 0
                                                   THEN {marks[i].hull_index} ELSE {},
                                 overlaps    |-> marks[i].intersections]
                ELSE [order_index |-> {}, overlaps |-> {}]]
  BY <1>1 DEF GeometryAnnotations
<1> HIDE DEF marks, geos, H
<1>4. /\ DOMAIN geos = DOMAIN p
      /\ \A i \in H : geos[i].order_index = {h[i]} /\ geos[i].overlaps = Intersections(p, i)
      /\ \A i \in DOMAIN p : i \notin H => geos[i].order_index = {}
  BY <1>1, <1>2, <1>3
<1>5. {j \in DOMAIN geos : geos[j].order_index # {}} = H
  BY <1>2, <1>4
<1>6. \A i \in H : (CHOOSE k \in geos[i].order_index : TRUE) = h[i]
  BY <1>4
<1>7. order = SortedByIndex(h)
  <2>1. [i \in H |-> CHOOSE k \in geos[i].order_index : TRUE] = h
    BY <1>6
  <2>2. order = SortedByIndex([i \in H |-> CHOOSE k \in geos[i].order_index : TRUE])
    BY <1>5 DEF Indexed
  <2> HIDE DEF h, order
  <2> QED BY <2>1, <2>2
<1>8. HullPolygons(Noted(p)) = SortedByIndex(h)
  <2>1. {i \in DOMAIN marks : marks[i].hull_index >= 0} = H
    BY <1>1 DEF marks
  <2>2. HullPolygons(Noted(p)) =
          SortedByIndex([i \in {i \in DOMAIN marks : marks[i].hull_index >= 0} |->
                           marks[i].hull_index])
    BY DEF HullPolygons, marks
  <2> QED BY <2>1, <2>2
<1>9. h \in [H -> Int] /\ \A i \in H : h[i] = marks[i].hull_index
  <2>1. \A i \in H : marks[i].hull_index \in Int
    BY <1>1 DEF marks
  <2> QED BY <2>1
<1> HIDE DEF h, order, n
<1>10. /\ n \in Nat /\ order \in Seq(H) /\ Len(order) = n /\ order \in [1 .. n -> H]
       /\ \A k, l \in 1 .. n : k < l => h[order[k]] <= h[order[l]] /\ order[k] # order[l]
       /\ ToSet(order) = H
  <2>1. LET s == SortedByIndex(h)
            m == Cardinality(H)
        IN  /\ m \in Nat /\ s \in [1 .. m -> H] /\ s \in Seq(H) /\ Len(s) = m
            /\ \A k, l \in 1 .. m : k < l => h[s[k]] <= h[s[l]] /\ s[k] # s[l]
            /\ ToSet(s) = H
    BY <1>2, <1>9, SortedLists
  <2> QED BY <1>7, <2>1 DEF n
<1>11. ASSUME NEW k \in 1 .. n, NEW l \in 1 .. n, k < l
       PROVE  Position(p[order[k]]) <= Position(p[order[l]])
  <2>1. order[k] \in H /\ order[l] \in H /\ h[order[k]] <= h[order[l]]
    BY <1>10, <1>11
  <2>2. marks[order[k]].hull_index <= marks[order[l]].hull_index
    BY <1>9, <2>1
  <2> QED BY <1>1, <2>1, <2>2 DEF marks, H
<1> QED BY <1>4, <1>7, <1>8, <1>10, <1>11 DEF order, geos, H

\* The root made from the annotations of a simplified instance is sound.
LEMMA NotedSound ==
  ASSUME NEW p \in Seq(SUBSET Cells)
  PROVE  SoundRoot(Noted(p)) /\ IsInstance(Noted(p))
<1> DEFINE H == OnHull(p)
           geos == GeometryAnnotations(Noted(p))
           order == Indexed(geos)
           n == Len(order)
           R == Roots(geos, order)
           Passed(m, root) == \A k \in DOMAIN root : \E t \in 1 .. m : root[k] = order[t]
           P == {m \in 0 .. n : RootSoundIn(p, R[m]) /\ Passed(m, R[m])}
<1>1. /\ \A i \in H : geos[i].overlaps = Intersections(p, i)
      /\ order = HullPolygons(Noted(p)) /\ order \in Seq(H) /\ ToSet(order) = H
      /\ \A k, l \in 1 .. n : k < l =>
           order[k] # order[l] /\ Position(p[order[k]]) <= Position(p[order[l]])
  BY NotedGeometries
<1>2. Noted(p).polygons = p
  BY NotedFacts
<1>3. n \in Nat /\ \A k \in 1 .. n : order[k] \in H
  <2> HIDE DEF order
  <2> QED BY <1>1
<1>4. OrderRoot(geos) = R[n]
  BY OrderRootIsLast
<1>5. R[0] = <<>> /\ \A m \in 1 .. n : R[m] = RootOn(geos, R[m - 1], order[m])
  <2> HIDE DEF order, geos
  <2> QED BY <1>1, RootsExist
<1> HIDE DEF R, order, geos, H, n
<1>6. 0 \in P
  <2>1. RootSoundIn(p, <<>>) /\ DOMAIN <<>> = {}
    BY DEF RootSoundIn
  <2> QED BY <1>3, <1>5, <2>1
<1>7. ASSUME NEW m \in 1 .. n, m - 1 \in P PROVE m \in P
  <2> DEFINE root == R[m - 1]
             i == order[m]
  <2>1. RootSoundIn(p, root) /\ Passed(m - 1, root)
    BY <1>7
  <2>2. R[m] = RootOn(geos, root, i)
    BY <1>5
  <2>3. root \in Seq(H) /\ DOMAIN root = 1 .. Len(root)
    BY <2>1 DEF RootSoundIn, H
  <2>4. 1 .. m - 1 \subseteq 1 .. m /\ m \in 1 .. m /\ m \in 0 .. n /\ i \in H
    BY <1>3
  <2> HIDE DEF root, i
  <2>5. CASE \E k \in DOMAIN root : i \in geos[root[k]].overlaps
    <3>1. R[m] = root
      BY <2>2, <2>5 DEF RootOn
    <3>2. Passed(m, root)
      BY <2>1, <2>4
    <3> QED BY <2>1, <2>4, <3>1, <3>2
  <2>6. CASE ~ \E k \in DOMAIN root : i \in geos[root[k]].overlaps
    <3>1. R[m] = Append(root, i)
      BY <2>2, <2>6 DEF RootOn
    <3>2. ASSUME NEW k \in 1 .. Len(root)
          PROVE  /\ i \notin Intersections(p, root[k]) /\ root[k] # i
                 /\ Position(p[root[k]]) <= Position(p[i])
      <4>1. root[k] \in H /\ k \in DOMAIN root
        BY <2>3
      <4>2. i \notin Intersections(p, root[k])
        BY <1>1, <2>6, <4>1
      <4>3. PICK t \in 1 .. m - 1 : root[k] = order[t]
        BY <2>1, <4>1
      <4>4. t \in 1 .. n /\ m \in 1 .. n /\ t < m
        BY <1>3
      <4>5. order[t] # order[m] /\ Position(p[order[t]]) <= Position(p[order[m]])
        BY <1>1, <4>4
      <4> QED BY <4>2, <4>3, <4>5 DEF i
    <3>3. RootSoundIn(p, R[m])
      BY <2>1, <2>4, <3>1, <3>2, RootExtends DEF H
    <3>4. Passed(m, R[m])
      <4>1. /\ Len(R[m]) = Len(root) + 1 /\ DOMAIN R[m] = 1 .. Len(root) + 1
            /\ R[m][Len(root) + 1] = i /\ \A k \in 1 .. Len(root) : R[m][k] = root[k]
        BY <2>3, <3>1
      <4>2. ASSUME NEW k \in 1 .. Len(root) + 1
            PROVE  \E t \in 1 .. m : R[m][k] = order[t]
        <5>1. CASE k \in 1 .. Len(root)
          BY <2>1, <2>3, <2>4, <4>1, <5>1
        <5>2. CASE k = Len(root) + 1
          BY <2>4, <4>1, <5>2 DEF i
        <5>3. Len(root) \in Nat
          BY <2>3
        <5> QED BY <5>1, <5>2, <5>3
      <4> QED BY <4>1, <4>2
    <3> QED BY <2>4, <3>3, <3>4
  <2> QED BY <2>5, <2>6
<1> HIDE DEF P
<1>8. n \in P
  <2>1. 0 .. n \subseteq P
    BY <1>3, <1>6, <1>7, IntervalInduction
  <2> QED BY <1>3, <2>1
<1> DEFINE root == OrderRoot(geos)
<1>9. RootSoundIn(p, root)
  BY <1>4, <1>8 DEF P
<1>10. root \in Seq(H) /\ DOMAIN root = 1 .. Len(root)
  BY <1>9 DEF RootSoundIn, H
<1> HIDE DEF root
<1>11. ToSet(root) \subseteq ToSet(HullPolygons(Noted(p)))
  <2>1. ToSet(root) \subseteq H
    BY <1>10 DEF ToSet
  <2> QED BY <1>1, <2>1
<1>12. \A k \in DOMAIN root : p[root[k]] \cap Border # {}
  BY <1>10 DEF H, OnHull
<1>13. SoundRoot(Noted(p))
  BY <1>2, <1>9, <1>10, <1>11, <1>12 DEF SoundRoot, RootSoundIn, root, geos
<1>14. IsInstance(Noted(p))
  <2>1. DOMAIN p = 1 .. Len(p) /\ OnHull(p) \subseteq 1 .. Len(p)
    BY HullFacts
  <2>2. /\ DOMAIN Noted(p).annotations = OnHull(p)
        /\ \A i \in OnHull(p) : Noted(p).annotations[i] \in Annotation
    BY NotedFacts
  <2> QED BY <1>2, <2>1, <2>2 DEF IsInstance
<1> QED BY <1>13, <1>14

----------------------------------------------------------------------------
(* The experiments *)

\* An instance for which every curve through its polygons is one through those
\* of the raw instance, and the other way round, and whose root is sound.
FaithfulTo(raw, i) ==
  /\ IsInstance(i) /\ SoundRoot(i)
  /\ \A T \in Curves : Visits(T, i.polygons) <=> Visits(T, raw)

\* The types that the preprocessing alone did not need, and that polygons only
\* grow.
Shape ==
  /\ flags \subseteq Operations /\ pos <= Len(input) + 1
  /\ \A i \in DOMAIN sites : input[i] \subseteq sites[i]

\* A row without solution, or with one of those that the solver may return.
RowRight(raw, r) ==
  /\ FaithfulTo(raw, r.instance)
  /\ r.solution = {} \/ \E s \in Solutions(r.instance, r.conf) : r.solution = {s}

ExpInv ==
  /\ Inv /\ Shape
  /\ \A r \in simplified : \A i \in r.instance : FaithfulTo(input, i)
  /\ \A i \in archive : FaithfulTo(input, i)
  /\ \A r \in rows : RowRight(input, r)
  /\ \A r \in rows : r.conf \in Script(study).confs
  /\ study = "none" => rows = {}

\* The polygons still in the list, in their order.
LEMMA KeptFacts ==
  ASSUME Inv
  PROVE  /\ KeptPolygons \in Seq(SUBSET Cells)
         /\ \A T : Visits(T, KeptPolygons) <=> \A i \in kept : T \cap sites[i] # {}
<1> DEFINE id == [i \in kept |-> i]
           index == SortedByIndex(id)
           n == Cardinality(kept)
<1>1. /\ sites \in [1 .. Len(input) -> SUBSET Cells] /\ Len(input) \in Nat
      /\ kept \subseteq 1 .. Len(input)
  BY DEF Inv, Typed
<1>2. IsFiniteSet(kept)
  <2>1. ASSUME NEW m \in Nat PROVE IsFiniteSet(1 .. m)
    BY FS_Interval
  <2> QED BY <1>1, <2>1, FS_Subset
<1>3. kept \in SUBSET Int /\ id \in [kept -> Int]
  BY <1>1
<1> HIDE DEF id
<1>4. /\ n \in Nat /\ index \in [1 .. n -> kept] /\ ToSet(index) = kept
  BY <1>2, <1>3, SortedLists
<1>5. KeptPolygons = [k \in DOMAIN index |-> sites[index[k]]]
  BY DEF KeptPolygons, id
<1> HIDE DEF index, n
<1>6. DOMAIN index = 1 .. n /\ \A k \in 1 .. n : index[k] \in kept
  BY <1>4
<1>7. KeptPolygons \in Seq(SUBSET Cells)
  <2>1. \A k \in 1 .. n : sites[index[k]] \in SUBSET Cells
    BY <1>1, <1>6
  <2>2. KeptPolygons \in [1 .. n -> SUBSET Cells]
    BY <1>5, <1>6, <2>1
  <2> QED BY <1>4, <2>2
<1>8. \A i \in kept : \E k \in 1 .. n : index[k] = i
  BY <1>4, <1>6 DEF ToSet
<1>9. ASSUME NEW T PROVE Visits(T, KeptPolygons) <=> \A i \in kept : T \cap sites[i] # {}
  BY <1>5, <1>6, <1>8 DEF Visits
<1> QED BY <1>7, <1>9

\* So what a simplification job stores is faithful to the instance it was given.
LEMMA StoredFaithful ==
  ASSUME Inv, Shape
  PROVE  FaithfulTo(input, AddOrderAnnotations(SimplifiedInstance))
<1> DEFINE p == KeptPolygons
<1>1. p \in Seq(SUBSET Cells) /\ \A T : Visits(T, p) <=> \A i \in kept : T \cap sites[i] # {}
  BY KeptFacts
<1>2. AddOrderAnnotations(SimplifiedInstance) = Noted(p)
  BY DEF SimplifiedInstance, Noted
<1>3. ASSUME NEW T \in Curves PROVE Visits(T, p) <=> Visits(T, input)
  <2>1. (\A i \in kept : T \cap sites[i] # {}) => Visits(T, input)
    BY InvCurvesKept DEF CurvesKept
  <2>2. Visits(T, input) => \A i \in kept : T \cap sites[i] # {}
    <3>1. \A i \in kept : i \in DOMAIN sites /\ i \in DOMAIN input
      BY DEF Inv, Typed
    <3> QED BY <3>1 DEF Shape, Visits
  <2> QED BY <1>1, <2>1, <2>2
<1> HIDE DEF p
<1> QED BY <1>1, <1>2, <1>3, NotedSound, NotedFacts DEF FaithfulTo

LEMMA ShapeStep ==
  ASSUME Inv, Shape, [PreNext]_preVars
  PROVE  Shape'
<1>1. /\ sites \in [1 .. Len(input) -> SUBSET Cells] /\ Len(input) \in Nat
      /\ Len(sites) = Len(input) /\ DOMAIN sites = DOMAIN input /\ pos \in Nat
      /\ input \in Seq(SUBSET Cells)
  BY DEF Inv, Typed
<1>2. ASSUME NEW ops \in SUBSET Operations, Begin(ops) PROVE Shape'
  BY <1>1, <1>2 DEF Begin, Shape
<1>3. ASSUME NEW areas, pos \in DOMAIN sites, pos' = pos + 1,
             sites' = [sites EXCEPT ![pos] = Extended(pos, areas)], UNCHANGED <<input, flags>>
      PROVE  Shape'
  <2>1. sites[pos] \subseteq Extended(pos, areas)
    BY <1>1, <1>3 DEF Extended
  <2>2. \A i \in DOMAIN sites' : i \in DOMAIN sites /\ input[i] \subseteq sites'[i]
    BY <1>1, <1>3, <2>1 DEF Shape
  <2>3. pos' <= Len(input) + 1
    BY <1>1, <1>3
  <2> QED BY <1>3, <2>2, <2>3 DEF Shape
<1>4. ASSUME UNCHANGED <<input, flags, sites>>, pos' <= Len(input) + 1 PROVE Shape'
  BY <1>4 DEF Shape
<1>5. CASE RemoveHolesAt
  <2>1. CASE "remove_holes" \in flags /\ pos <= Len(sites)
    <3>1. pos \in DOMAIN sites
      BY <1>1, <1>5, <2>1 DEF RemoveHolesAt, Inv, Typed
    <3> QED BY <1>3, <1>5, <2>1, <3>1 DEF RemoveHolesAt, WithoutHoles
  <2>2. CASE ~ ("remove_holes" \in flags /\ pos <= Len(sites))
    <3>1. UNCHANGED <<input, flags, sites>> /\ pos' = 1
      BY <1>5, <2>2 DEF RemoveHolesAt
    <3> QED BY <1>1, <1>4, <3>1
  <2> QED BY <2>1, <2>2
<1>6. CASE ConvexHullFillAt
  <2>1. CASE "convex_hull_fill" \in flags /\ pos <= Len(sites)
    <3>1. pos \in DOMAIN sites
      BY <1>1, <1>6, <2>1 DEF ConvexHullFillAt, Inv, Typed
    <3> QED BY <1>3, <1>6, <2>1, <3>1 DEF ConvexHullFillAt, Filled
  <2>2. CASE ~ ("convex_hull_fill" \in flags /\ pos <= Len(sites))
    <3>1. UNCHANGED <<input, flags, sites>> /\ pos' = Len(sites)
      BY <1>6, <2>2 DEF ConvexHullFillAt
    <3> QED BY <1>1, <1>4, <3>1
  <2> QED BY <2>1, <2>2
<1>7. CASE RemoveSupersitesAt
  <2>1. UNCHANGED <<input, flags, sites>> /\ (pos' = pos - 1 \/ pos' = pos)
    BY <1>7 DEF RemoveSupersitesAt
  <2> QED BY <1>1, <1>4, <2>1 DEF Shape
<1>8. CASE ConvexHullFillFails \/ Return \/ UNCHANGED preVars
  BY <1>4, <1>8 DEF ConvexHullFillFails, Return, preVars, Shape
<1> QED BY <1>2, <1>5, <1>6, <1>7, <1>8 DEF PreNext, SimplifyStep

LEMMA ExpInitInv == Init => ExpInv
<1> SUFFICES ASSUME Init PROVE ExpInv
  OBVIOUS
<1>1. input \in Seq(SUBSET Cells) /\ PreInit
  BY InstancesAssumption DEF Init, IsInstance
<1>2. Inv
  BY <1>1, InitInv
<1>3. Shape
  <2>1. Len(input) \in Nat
    BY <1>1
  <2> QED BY <1>1, <2>1 DEF PreInit, Shape
<1> QED BY <1>2, <1>3 DEF Init, ExpInv

LEMMA ExpStepInv == ExpInv /\ [Next]_vars => ExpInv'
<1> SUFFICES ASSUME ExpInv, [Next]_vars PROVE ExpInv'
  OBVIOUS
<1>1. [PreNext]_preVars
  <2>1. ASSUME NEW ops \in SimplificationConfs, StartSimplification(ops)
        PROVE  PreNext
    BY <2>1 DEF StartSimplification, SimplificationConfs, PreNext
  <2>2. ASSUME NEW name \in StudyNames, NEW conf \in Sampled(name), SolveInstance(name, conf)
        PROVE  UNCHANGED preVars
    BY <2>2 DEF SolveInstance
  <2> QED BY <2>1, <2>2 DEF Next, Simplify, StoreSimplified, Extract, PreNext, vars
<1>2. input' = input
  BY <1>1 DEF PreNext, SimplifyStep, Begin, RemoveHolesAt, ConvexHullFillAt,
              ConvexHullFillFails, RemoveSupersitesAt, Return, preVars
<1>3. Inv' /\ Shape'
  BY <1>1, StepInv, ShapeStep DEF ExpInv
<1>4. ASSUME NEW ops \in SimplificationConfs, StartSimplification(ops)
      PROVE  UNCHANGED <<simplified, archive, study, rows>>
  BY <1>4 DEF StartSimplification, expVars
<1>5. CASE UNCHANGED <<simplified, archive, study, rows>>
  BY <1>2, <1>3, <1>5 DEF ExpInv
<1>6. CASE StoreSimplified
  <2>1. UNCHANGED <<archive, study, rows>>
    BY <1>6 DEF StoreSimplified
  <2>2. \A r \in simplified' : \A i \in r.instance : FaithfulTo(input, i)
    <3> DEFINE new == [flags |-> flags,
                       instance |-> IF stage = "failed" THEN {}
                                    ELSE {AddOrderAnnotations(SimplifiedInstance)}]
    <3>1. simplified' = simplified \cup {new}
      BY <1>6 DEF StoreSimplified
    <3>2. \A i \in new.instance : FaithfulTo(input, i)
      BY StoredFaithful DEF ExpInv
    <3> HIDE DEF new
    <3> QED BY <3>1, <3>2 DEF ExpInv
  <2> QED BY <1>2, <1>3, <2>1, <2>2 DEF ExpInv
<1>7. CASE Extract
  <2>1. UNCHANGED <<simplified, study, rows>> /\ archive' = Extracted
    BY <1>7 DEF Extract
  <2>2. \A i \in Extracted : \E r \in simplified : i \in r.instance
    BY DEF Extracted
  <2> QED BY <1>2, <1>3, <2>1, <2>2 DEF ExpInv
<1>8. ASSUME NEW name \in StudyNames, NEW conf \in Sampled(name), SolveInstance(name, conf)
      PROVE  ExpInv'
  <2>1. UNCHANGED <<simplified, archive>>
    BY <1>8 DEF SolveInstance
  <2>2. ASSUME NEW i \in archive, NEW solution,
               rows' = rows \cup {[instance |-> i, conf |-> conf, solution |-> solution]},
               solution = {} \/ \E s \in Solutions(i, conf) : solution = {s}
        PROVE  \A r \in rows' : RowRight(input, r)
    <3> DEFINE new == [instance |-> i, conf |-> conf, solution |-> solution]
    <3>1. RowRight(input, new)
      BY <2>2 DEF ExpInv, RowRight
    <3> HIDE DEF new
    <3> QED BY <2>2, <3>1 DEF ExpInv, new
  <2>3. \A r \in rows' : RowRight(input, r)
    <3>1. PICK i \in archive :
            \/ \E s \in Solutions(i, conf) :
                 rows' = rows \cup {[instance |-> i, conf |-> conf, solution |-> {s}]}
            \/ \E exception \in Script(name).catches :
                 rows' = rows \cup {[instance |-> i, conf |-> conf, solution |-> {}]}
      BY <1>8 DEF SolveInstance
    <3> QED BY <2>2, <3>1
  <2>4. study' = name /\ study \in {"none", name} /\ name # "none"
    BY <1>8, StudiesAssumption DEF SolveInstance, Validated
  <2>5. \A r \in rows' : r \in rows \/ r.conf = conf
    BY <1>8 DEF SolveInstance
  <2>6. \A r \in rows' : r.conf \in Script(study').confs
    <3>1. conf \in Script(name).confs
      BY DEF Sampled
    <3>2. \A r \in rows : r.conf \in Script(name).confs
      BY <2>4 DEF ExpInv
    <3> QED BY <2>4, <2>5, <3>1, <3>2
  <2> QED BY <1>2, <1>3, <2>1, <2>3, <2>4, <2>6 DEF ExpInv
<1>9. CASE Simplify \/ UNCHANGED vars
  BY <1>5, <1>9 DEF Simplify, expVars, vars
<1> QED BY <1>4, <1>5, <1>6, <1>7, <1>8, <1>9 DEF Next

\* The rows, archives and positions keep their types, for any plane and any
\* instances (evaluation/00_simplification, schemas.py).
THEOREM ExperimentsKeepTypes == Spec => []TypeOK
<1>1. ExpInv => TypeOK
  <2> SUFFICES ASSUME ExpInv PROVE TypeOK
    OBVIOUS
  <2>1. /\ input \in Seq(SUBSET Cells) /\ Len(input) \in Nat /\ pos \in Nat
        /\ sites \in [1 .. Len(input) -> SUBSET Cells] /\ pos <= Len(input) + 1
        /\ flags \subseteq Operations /\ kept \subseteq DOMAIN sites
        /\ stage \in Operations \cup {"idle", "done", "failed"}
    BY DEF ExpInv, Inv, Typed, Shape
  <2>2. sites \in Seq(SUBSET Cells) /\ DOMAIN sites = DOMAIN input /\ pos \in 0 .. Len(input) + 1
    BY <2>1
  <2>3. /\ \A r \in simplified : \A i \in r.instance : IsInstance(i)
        /\ \A i \in archive : IsInstance(i)
    BY DEF ExpInv, FaithfulTo
  <2>4. ASSUME NEW r \in rows PROVE IsInstance(r.instance) /\ Cardinality(r.solution) <= 1
    <3>1. RowRight(input, r)
      BY DEF ExpInv
    <3>2. IsInstance(r.instance)
      BY <3>1 DEF RowRight, FaithfulTo
    <3>3. r.solution = {} \/ \E s : r.solution = {s}
      BY <3>1 DEF RowRight
    <3>4. Cardinality({}) = 0 /\ \A s : Cardinality({s}) = 1
      BY FS_EmptySet, FS_Singleton
    <3>5. Cardinality(r.solution) = 0 \/ Cardinality(r.solution) = 1
      BY <3>3, <3>4
    <3> QED BY <3>2, <3>5
  <2> QED BY <2>1, <2>2, <2>3, <2>4 DEF TypeOK
<1> QED BY <1>1, ExpInitInv, ExpStepInv, PTL DEF Spec

\* The annotations that are archived with a simplified instance describe its
\* polygons, on every plane, whatever simplification fills, drops and renumbers:
\* the root made from them consists of polygons on the hull, in clockwise order
\* and pairwise disjoint (order_annotation.py:165,
\* root_node_strategy.cpp:374-462).
THEOREM ArchivedRootsAreSound == Spec => []RootsSound
<1>1. ExpInv => RootsSound
  BY DEF ExpInv, FaithfulTo, RootsSound
<1> QED BY <1>1, ExpInitInv, ExpStepInv, PTL DEF Spec

----------------------------------------------------------------------------
(* Lengths, and what the rows of a study say about the raw instance *)

\* One more cell on top of the lengths of smaller sets, and lengths as the
\* solution of that equation on the subsets of T.
Longer(T, f) ==
  [s \in SUBSET T |->
     IF s = {} THEN 0
     ELSE Weight[CHOOSE c \in s : TRUE] + f[s \ {CHOOSE c \in s : TRUE}]]

Lengths(T) == CHOOSE f : f = Longer(T, f)

LEMMA LengthIsFold ==
  ASSUME NEW T
  PROVE  Length(T) = Lengths(T)[T]
BY DEF Length, FoldSet, MapThenFoldSet, Lengths, Longer

\* Removing the cell that is chosen leaves one cell less.
LEMMA OneCellLess ==
  ASSUME NEW T \in SUBSET Cells, IsFiniteSet(T), NEW s \in SUBSET T, s # {}
  PROVE  LET c == CHOOSE c \in s : TRUE
         IN  /\ Weight[c] \in Nat /\ s \ {c} \in SUBSET T
             /\ Cardinality(s) \in Nat \ {0}
             /\ Cardinality(s \ {c}) = Cardinality(s) - 1
<1> DEFINE c == CHOOSE c \in s : TRUE
<1>1. c \in s
  OBVIOUS
<1> HIDE DEF c
<1>2. IsFiniteSet(s)
  BY FS_Subset
<1>3. /\ Cardinality(s) \in Nat /\ Cardinality(s) # 0
      /\ Cardinality(s \ {c}) = Cardinality(s) - 1
  BY <1>1, <1>2, FS_CardinalityType, FS_EmptySet, FS_RemoveElement
<1>4. Weight[c] \in Nat
  BY <1>1, WeightAssumption
<1> QED BY <1>3, <1>4 DEF c

\* The equation has a solution, so that Lengths satisfies it.
LEMMA LengthsExist ==
  ASSUME NEW T \in SUBSET Cells, IsFiniteSet(T)
  PROVE  Lengths(T) = Longer(T, Lengths(T))
<1> DEFINE n == Cardinality(T)
           S == [SUBSET T -> Nat]
           b == [s \in SUBSET T |-> 0]
           F == [i \in 1 .. n |-> [f \in S |-> Longer(T, f)]]
<1>1. n \in Nat /\ \A s \in SUBSET T : Cardinality(s) \in 0 .. n
  BY FS_CardinalityType, FS_Subset
<1>2. ASSUME NEW f \in S PROVE Longer(T, f) \in S
  <2>1. ASSUME NEW s \in SUBSET T, s # {}
        PROVE  Weight[CHOOSE c \in s : TRUE] + f[s \ {CHOOSE c \in s : TRUE}] \in Nat
    <3> DEFINE c == CHOOSE c \in s : TRUE
    <3>1. Weight[c] \in Nat /\ s \ {c} \in SUBSET T
      BY <2>1, OneCellLess
    <3> HIDE DEF c
    <3>2. f[s \ {c}] \in Nat
      BY <3>1
    <3>3. Weight[c] + f[s \ {c}] \in Nat
      BY <3>1, <3>2
    <3> QED BY <3>3 DEF c
  <2> QED BY <2>1 DEF Longer
<1>3. b \in S /\ F \in [1 .. n -> [S -> S]]
  <2>1. b \in S
    OBVIOUS
  <2>2. [f \in S |-> Longer(T, f)] \in [S -> S]
    <3> HIDE DEF S
    <3> QED BY <1>2
  <2> QED BY <2>1, <2>2
<1> HIDE DEF b, F, S, n
<1>4. PICK g \in [0 .. n -> S] : Iterates(g, n, b, F)
  BY <1>1, <1>3, RecursionExists
<1> DEFINE f == [s \in SUBSET T |-> g[Cardinality(s)][s]]
<1>5. ASSUME NEW s \in SUBSET T PROVE f[s] = Longer(T, f)[s]
  <2>1. CASE s = {}
    <3>1. Cardinality(s) = 0 /\ g[0] = b
      BY <1>4, <2>1, FS_EmptySet DEF Iterates
    <3>2. f[s] = 0
      BY <3>1 DEF b
    <3> QED BY <2>1, <3>2 DEF Longer
  <2>2. CASE s # {}
    <3> DEFINE c == CHOOSE c \in s : TRUE
               k == Cardinality(s)
    <3>1. /\ s \ {c} \in SUBSET T /\ k \in Nat \ {0} /\ Cardinality(s \ {c}) = k - 1
      BY <2>2, OneCellLess
    <3>2. k \in 1 .. n /\ k - 1 \in 0 .. n
      BY <1>1, <3>1
    <3>3. g[k] = F[k][g[k - 1]] /\ g[k - 1] \in S
      BY <1>4, <3>2 DEF Iterates
    <3>4. g[k] = Longer(T, g[k - 1])
      BY <3>2, <3>3 DEF F
    <3>5. g[k][s] = Weight[c] + g[k - 1][s \ {c}]
      BY <2>2, <3>4 DEF Longer
    <3>6. Longer(T, f)[s] = Weight[c] + f[s \ {c}]
      BY <2>2 DEF Longer
    <3>7. f[s \ {c}] = g[k - 1][s \ {c}]
      <4> HIDE DEF c
      <4> QED BY <3>1
    <3> QED BY <3>5, <3>6, <3>7
  <2> QED BY <2>1, <2>2
<1>6. f = Longer(T, f)
  <2>1. Longer(T, f) = [s \in SUBSET T |-> Longer(T, f)[s]]
    BY DEF Longer
  <2>2. f = [s \in SUBSET T |-> f[s]]
    OBVIOUS
  <2> HIDE DEF f
  <2> QED BY <1>5, <2>1, <2>2
<1>7. \E h : h = Longer(T, h)
  <2> HIDE DEF f
  <2> QED BY <1>6
<1> QED BY <1>7 DEF Lengths

\* Its values are naturals.
LEMMA LengthsAreNat ==
  ASSUME NEW T \in SUBSET Cells, IsFiniteSet(T)
  PROVE  \A s \in SUBSET T : Lengths(T)[s] \in Nat
<1> DEFINE L == Lengths(T)
           n == Cardinality(T)
           P == {k \in 0 .. n : \A s \in SUBSET T : Cardinality(s) = k => L[s] \in Nat}
<1>1. n \in Nat
  BY FS_CardinalityType
<1>2. L = Longer(T, L)
  BY LengthsExist
<1> HIDE DEF L
<1>3. \A s \in SUBSET T : L[s] = Longer(T, L)[s]
  BY <1>2
<1>4. 0 \in P
  <2>1. ASSUME NEW s \in SUBSET T, Cardinality(s) = 0 PROVE L[s] \in Nat
    <3>1. IsFiniteSet(s)
      BY FS_Subset
    <3>2. s = {}
      BY <2>1, <3>1, FS_EmptySet
    <3>3. Longer(T, L)[s] = 0
      BY <3>2 DEF Longer
    <3> QED BY <1>3, <3>3
  <2> QED BY <1>1, <2>1
<1>5. ASSUME NEW k \in 1 .. n, k - 1 \in P PROVE k \in P
  <2>1. ASSUME NEW s \in SUBSET T, Cardinality(s) = k PROVE L[s] \in Nat
    <3> DEFINE c == CHOOSE c \in s : TRUE
    <3>1. s # {}
      BY <1>1, <2>1, FS_EmptySet
    <3>2. Weight[c] \in Nat /\ s \ {c} \in SUBSET T /\ Cardinality(s \ {c}) = k - 1
      BY <2>1, <3>1, OneCellLess
    <3>3. L[s] = Weight[c] + L[s \ {c}]
      BY <1>3, <3>1 DEF Longer
    <3> HIDE DEF c
    <3>4. L[s \ {c}] \in Nat
      BY <1>5, <3>2
    <3> QED BY <3>2, <3>3, <3>4
  <2> QED BY <1>1, <2>1
<1> HIDE DEF P
<1>6. ASSUME NEW s \in SUBSET T PROVE L[s] \in Nat
  <2>1. 0 .. n \subseteq P
    BY <1>1, <1>4, <1>5, IntervalInduction
  <2>2. Cardinality(s) \in 0 .. n
    BY <1>1, FS_CardinalityType, FS_Subset
  <2>3. Cardinality(s) \in P
    BY <2>1, <2>2
  <2> QED BY <2>3 DEF P
<1> QED BY <1>6 DEF L

\* Every curve has a length.
LEMMA CurveHasLength ==
  ASSUME NEW T \in Curves
  PROVE  Length(T) \in Nat
<1>1. T \in SUBSET Cells /\ IsFiniteSet(T)
  BY PlaneAssumption, FS_Subset
<1> QED BY <1>1, LengthsAreNat, LengthIsFold

\* No curve through the polygons is shorter than the optimum.
LEMMA OptimumIsLeast ==
  ASSUME NEW p, NEW T \in Curves, Visits(T, p)
  PROVE  Optimum(p) \in Nat /\ Optimum(p) <= Length(T)
<1> DEFINE S == {Length(U) : U \in {V \in Curves : Visits(V, p)}}
<1>1. S \in SUBSET Nat /\ Length(T) \in S
  BY CurveHasLength
<1>2. Min(S) \in Nat /\ Min(S) <= Length(T)
  <2> HIDE DEF S
  <2> QED BY <1>1, MinIsLeast
<1> QED BY <1>2 DEF Optimum

\* A solution found for a faithful instance holds for the raw one.
LEMMA SolutionHoldsForRaw ==
  ASSUME NEW raw, NEW i, FaithfulTo(raw, i), NEW conf, NEW s \in Solutions(i, conf)
  PROVE  /\ s.lower_bound <= Optimum(raw)
         /\ s.trajectory # NoTrajectory =>
              Visits(s.trajectory, raw) /\ Optimum(raw) <= s.upper_bound
<1>1. \A T \in Curves : Visits(T, i.polygons) <=> Visits(T, raw)
  BY DEF FaithfulTo
<1>2. Optimum(i.polygons) = Optimum(raw)
  <2>1. {U \in Curves : Visits(U, i.polygons)} = {U \in Curves : Visits(U, raw)}
    BY <1>1
  <2> QED BY <2>1 DEF Optimum
<1>3. \A b \in Provable(i, conf) : b <= Optimum(raw)
  BY <1>2 DEF Provable, FaithfulTo
<1>4. ASSUME NEW T \in Curves, Visits(T, i.polygons)
      PROVE  Visits(T, raw) /\ Optimum(raw) <= Length(T)
  BY <1>1, <1>4, OptimumIsLeast
<1>5. \E T \in Curves \cup {NoTrajectory}, b \in Provable(i, conf) :
        /\ T # NoTrajectory => T \in Curves /\ Visits(T, i.polygons)
        /\ s = Report(T, Length(T), b, conf.eps) \/ s = MipReport(T, Length(T), b, conf.eps)
  BY DEF Solutions
<1> QED BY <1>3, <1>4, <1>5 DEF Report, MipReport

\* Whatever a study reports for a simplified form holds for the instance before
\* simplification, on every plane and for every instance: the trajectories visit
\* all its polygons, and its optimum lies between the bounds
\* (pre_simplify.cpp, operations.py:90-176, the scripts of the studies).
THEOREM StudiesSolveRaw == Spec => []RowsHoldForRaw
<1>1. ExpInv => RowsHoldForRaw
  <2> SUFFICES ASSUME ExpInv, NEW r \in ReadRows
               PROVE  LET s == SolutionOf(r)
                      IN  /\ s.lower_bound <= Optimum(input)
                          /\ s.trajectory # NoTrajectory =>
                               /\ Visits(s.trajectory, input)
                               /\ Optimum(input) <= s.upper_bound
    BY DEF RowsHoldForRaw
  <2>1. RowRight(input, r) /\ r.solution # {}
    BY DEF ReadRows, ExpInv
  <2>2. PICK s \in Solutions(r.instance, r.conf) : r.solution = {s}
    BY <2>1 DEF RowRight
  <2>3. SolutionOf(r) = s
    BY <2>2 DEF SolutionOf
  <2>4. FaithfulTo(input, r.instance)
    BY <2>1 DEF RowRight
  <2> QED BY <2>2, <2>3, <2>4, SolutionHoldsForRaw
<1> QED BY <1>1, ExpInitInv, ExpStepInv, PTL DEF Spec

----------------------------------------------------------------------------
(* The validation cells *)

\* A product grows with its factors.
LEMMA ProductGrows ==
  ASSUME NEW a \in Nat, NEW b \in Nat, NEW x \in Nat, NEW y \in Nat, a <= b, x <= y
  PROVE  a * x \in Nat /\ b * y \in Nat /\ a * x <= b * y
<1>1. PICK c \in Nat, z \in Nat : b = a + c /\ y = x + z
  <2>1. b - a \in Nat /\ b = a + (b - a) /\ y - x \in Nat /\ y = x + (y - x)
    OBVIOUS
  <2> QED BY <2>1
<1>2. a * x \in Nat /\ a * z \in Nat /\ c * x \in Nat /\ c * z \in Nat
  OBVIOUS
<1>3. b * y = a * x + a * z + c * x + c * z
  BY <1>1
<1> QED BY <1>2, <1>3

\* Two tours that are within a tolerance of lower bounds are within it of each
\* other, if both lower bounds are below both lengths.
LEMMA OptimaClose ==
  ASSUME NEW u \in Nat, NEW v \in Nat, NEW l \in Nat, NEW m \in Nat,
         NEW e \in Nat, NEW tolerance \in Nat, e <= tolerance, l <= v, m <= u, m <= v,
         WithinRatio(u, l, e), WithinRatio(v, m, e)
  PROVE  IsClose(u, v, tolerance)
<1>1. e * l \in Nat /\ e * m \in Nat /\ e * l <= tolerance * v /\ e * m <= tolerance * v
  BY ProductGrows
<1>2. 1000 * u <= 1000 * l + e * l /\ 1000 * v <= 1000 * m + e * m
  BY DEF WithinRatio
<1>3. tolerance * v \in Nat
  BY ProductGrows
<1>4. CASE u < v
  <2>1. 1000 * (v - u) <= tolerance * v
    BY <1>1, <1>2, <1>3
  <2> QED BY <1>4, <2>1 DEF IsClose
<1>5. CASE ~ (u < v)
  <2>1. 1000 * (u - v) <= tolerance * v
    BY <1>1, <1>2, <1>3
  <2> QED BY <1>5, <2>1 DEF IsClose
<1> QED BY <1>4, <1>5

\* A flagged length is within the ratio, also if it is zero.
LEMMA FlaggedIsWithin ==
  ASSUME NEW u \in Nat, NEW b \in Nat, NEW e \in Nat, ReportedOptimal(u, b, e)
  PROVE  WithinRatio(u, b, e) /\ (b = 0 => u = 0)
<1>1. CASE b > 0
  BY <1>1 DEF ReportedOptimal
<1>2. CASE b = 0
  <2>1. u = 0
    BY <1>2 DEF ReportedOptimal
  <2> QED BY <1>2, <2>1 DEF WithinRatio
<1> QED BY <1>1, <1>2

\* A report whose bound is valid passes its own check, which can only raise on a
\* tour of length zero.
LEMMA ReportPlausible ==
  ASSUME NEW T \in Curves \cup {NoTrajectory}, NEW b \in Nat, NEW e \in Nat,
         NEW tolerance \in Nat, e <= tolerance,
         T # NoTrajectory => b <= Length(T)
  PROVE  LET s == Report(T, Length(T), b, e)
         IN  /\ CheckRaises(s) => s.upper_bound = 0
             /\ SelfPlausible(s, Length(s.trajectory), tolerance)
<1> DEFINE s == Report(T, Length(T), b, e)
<1>1. CASE T = NoTrajectory
  BY <1>1 DEF Report, CheckRaises, SelfPlausible, IsInf
<1>2. CASE T # NoTrajectory
  <2> DEFINE u == Length(T)
  <2>1. T \in Curves /\ u \in Nat /\ u < Inf /\ b <= u
    BY <1>2, CurveHasLength, StudiesAssumption
  <2>2. /\ s.trajectory = T /\ s.lower_bound = b /\ s.upper_bound = u /\ s.gap = u - b
        /\ s.mip_gap = FALSE
        /\ s.is_optimal <=> ReportedOptimal(u, b, e)
    BY <1>2 DEF Report
  <2> HIDE DEF s, u
  <2>3. Inf \in Nat /\ u # Inf /\ u - b # Inf
    BY <2>1 DEF Inf
  <2>4. s.is_optimal => WithinRatio(u, b, e) /\ (b = 0 => u = 0)
    BY <2>1, <2>2, FlaggedIsWithin
  <2>5. WithinRatio(u, b, e) => WithinRatio(u, b, tolerance)
    <3>1. (1000 + e) * b <= (1000 + tolerance) * b /\ (1000 + e) * b \in Nat
          /\ (1000 + tolerance) * b \in Nat
      <4>1. 1000 + e \in Nat /\ 1000 + tolerance \in Nat /\ 1000 + e <= 1000 + tolerance
        OBVIOUS
      <4> QED BY <4>1, ProductGrows
    <3>2. 1000 * u \in Nat
      BY <2>1
    <3> QED BY <3>1, <3>2 DEF WithinRatio
  <2>6. CheckRaises(s) => s.upper_bound = 0
    BY <2>2, <2>4 DEF CheckRaises
  <2>7. SelfPlausible(s, u, tolerance)
    BY <2>1, <2>2, <2>3, <2>4, <2>5 DEF SelfPlausible, IsInf
  <2> QED BY <2>2, <2>6, <2>7 DEF s, u
<1> QED BY <1>1, <1>2

\* Two reports with the same tolerance agree if both bounds are valid for both.
LEMMA ReportsAgree ==
  ASSUME NEW T \in Curves \cup {NoTrajectory}, NEW U \in Curves \cup {NoTrajectory},
         NEW b \in Nat, NEW c \in Nat, NEW e \in Nat, NEW tolerance \in Nat, e <= tolerance,
         T # NoTrajectory => b <= Length(T) /\ c <= Length(T),
         U # NoTrajectory => b <= Length(U) /\ c <= Length(U)
  PROVE  LET s == Report(T, Length(T), b, e)
             t == Report(U, Length(U), c, e)
         IN  BoundsAgree(s, t) /\ OptimaAgree(s, t, tolerance)
<1> DEFINE s == Report(T, Length(T), b, e)
           t == Report(U, Length(U), c, e)
<1>1. /\ s.lower_bound = b /\ s.upper_bound = IF T = NoTrajectory THEN Inf ELSE Length(T)
      /\ s.is_optimal <=> T # NoTrajectory /\ ReportedOptimal(Length(T), b, e)
      /\ t.lower_bound = c /\ t.upper_bound = IF U = NoTrajectory THEN Inf ELSE Length(U)
      /\ t.is_optimal <=> U # NoTrajectory /\ ReportedOptimal(Length(U), c, e)
  BY DEF Report
<1> HIDE DEF s, t
<1>2. BoundsAgree(s, t)
  BY <1>1 DEF BoundsAgree, IsInf
<1>3. ASSUME s.is_optimal, t.is_optimal
      PROVE  /\ ~ IsInf(s.upper_bound) /\ ~ IsInf(t.upper_bound)
             /\ IsClose(s.upper_bound, t.upper_bound, tolerance)
  <2> DEFINE u == Length(T)
             v == Length(U)
  <2>1. T \in Curves /\ U \in Curves /\ T # NoTrajectory /\ U # NoTrajectory
    BY <1>1, <1>3
  <2>2. u \in Nat /\ v \in Nat /\ u < Inf /\ v < Inf
    BY <2>1, CurveHasLength, StudiesAssumption
  <2>3. b <= u /\ c <= u /\ b <= v /\ c <= v
    BY <2>1
  <2>4. ReportedOptimal(u, b, e) /\ ReportedOptimal(v, c, e)
        /\ s.upper_bound = u /\ t.upper_bound = v
    BY <1>1, <1>3, <2>1
  <2> HIDE DEF u, v
  <2>5. WithinRatio(u, b, e) /\ WithinRatio(v, c, e)
    BY <2>2, <2>4, FlaggedIsWithin
  <2>6. IsClose(u, v, tolerance)
    BY <2>2, <2>3, <2>5, OptimaClose
  <2> QED BY <2>2, <2>4, <2>6 DEF IsInf, Inf
<1> QED BY <1>2, <1>3 DEF OptimaAgree, s, t

\* What the branch-and-bound reports for a faithful instance: a bound that no
\* tour of the raw instance is below, and perhaps such a tour.
LEMMA BranchAndBoundReports ==
  ASSUME NEW raw, NEW i, FaithfulTo(raw, i), NEW conf, conf.solver = "bnb",
         NEW s \in Solutions(i, conf)
  PROVE  \E T \in Curves \cup {NoTrajectory}, b \in Nat :
           /\ s = Report(T, Length(T), b, conf.eps)
           /\ T # NoTrajectory => Visits(T, raw)
           /\ \A U \in Curves : Visits(U, raw) => b <= Length(U)
<1>1. \A T \in Curves : Visits(T, i.polygons) <=> Visits(T, raw)
  BY DEF FaithfulTo
<1>2. PICK T \in Curves \cup {NoTrajectory}, b \in Provable(i, conf) :
        /\ s = Report(T, Length(T), b, conf.eps)
        /\ T # NoTrajectory => T \in Curves /\ Visits(T, i.polygons)
  <2>1. "bnb" # "mip"
    OBVIOUS
  <2> QED BY <2>1 DEF Solutions
<1>3. b \in Nat /\ b <= Optimum(i.polygons)
  BY StudiesAssumption DEF Provable, FaithfulTo
<1>4. ASSUME NEW U \in Curves, Visits(U, raw) PROVE b <= Length(U)
  <2>1. Optimum(i.polygons) \in Nat /\ Optimum(i.polygons) <= Length(U) /\ Length(U) \in Nat
    BY <1>1, <1>4, OptimumIsLeast, CurveHasLength
  <2> QED BY <1>3, <2>1
<1> QED BY <1>1, <1>2, <1>3, <1>4

\* The studies that only hold rows of the branch-and-bound.
LEMMA StudyFacts ==
  ASSUME NEW name \in {"rq1", "rq2", "rq3", "rq4"}
  PROVE  /\ \A c \in Script(name).confs : c.solver = "bnb" /\ c.eps \in Nat
         /\ Validation(name).extra \in Nat
         /\ Validation(name).sameEps
              \/ \A c, d \in Script(name).confs : c.eps = d.eps
<1>1. ASSUME NEW E, NEW strategies, NEW c \in Confs("bnb", E, strategies)
      PROVE  c.solver = "bnb" /\ c.eps \in E
  BY DEF Confs
<1>2. Script("rq1") = RootStudy /\ Script("rq2") = SearchStudy
      /\ Script("rq3") = DecompositionStudy /\ Script("rq4") = ScalabilityStudy
  BY DEF Script
<1>3. Validation("rq1") = ValidateRoot /\ Validation("rq2") = ValidateSearch
      /\ Validation("rq3") = ValidateDecomposition /\ Validation("rq4") = ValidateScalability
  BY DEF Validation
<1>4. /\ \A c \in RootStudy.confs : c.solver = "bnb" /\ c.eps \in {10}
      /\ \A c \in SearchStudy.confs : c.solver = "bnb" /\ c.eps \in {10, 50}
      /\ \A c \in DecompositionStudy.confs : c.solver = "bnb" /\ c.eps \in {10}
      /\ \A c \in ScalabilityStudy.confs : c.solver = "bnb" /\ c.eps \in {1, 10, 50, 100, 150}
  BY <1>1 DEF RootStudy, SearchStudy, DecompositionStudy, ScalabilityStudy
<1>5. /\ ValidateRoot.extra = 0 /\ ValidateSearch.extra = 0 /\ ValidateSearch.sameEps
      /\ ValidateDecomposition.extra = 0
      /\ ValidateScalability.extra = 10 /\ ValidateScalability.sameEps
  BY DEF ValidateRoot, ValidateSearch, ValidateDecomposition, ValidateScalability
<1>6. CASE name = "rq1"
  BY <1>2, <1>3, <1>4, <1>5, <1>6
<1>7. CASE name = "rq2"
  BY <1>2, <1>3, <1>4, <1>5, <1>7
<1>8. CASE name = "rq3"
  BY <1>2, <1>3, <1>4, <1>5, <1>8
<1>9. CASE name = "rq4"
  BY <1>2, <1>3, <1>4, <1>5, <1>9
<1> QED BY <1>6, <1>7, <1>8, <1>9

\* No comparison of a validation cell fails for rows of the branch-and-bound,
\* whatever bounds and tours it reports within its promise and whichever
\* simplified forms are compared, but for the division by the bound of a tour
\* of length zero: a failed check is left to the study with the MIP solver
\* (schemas.py:209-418, the validation cells of rq1 to rq4).
THEOREM BranchAndBoundStudiesAgree == Spec => [](study # "rq5" => ChecksAccept)
<1>1. ExpInv => (study # "rq5" => ChecksAccept)
  <2> SUFFICES ASSUME ExpInv, study \in {"rq1", "rq2", "rq3", "rq4"},
                      NEW r \in ReadRows, NEW o \in ReadRows, Compared(r, o)
               PROVE  LET s == SolutionOf(r)
                          t == SolutionOf(o)
                          tolerance == r.conf.eps + Validation(study).extra
                      IN  /\ \A x \in {s, t} : CheckRaises(x) => x.upper_bound = 0
                          /\ SelfPlausible(s, Length(s.trajectory), tolerance)
                          /\ SelfPlausible(t, Length(t.trajectory), tolerance)
                          /\ BoundsAgree(s, t)
                          /\ OptimaAgree(s, t, tolerance)
    BY DEF ChecksAccept, Validated
  <2> DEFINE e == r.conf.eps
             tolerance == e + Validation(study).extra
  <2>1. /\ r.conf.solver = "bnb" /\ o.conf.solver = "bnb"
        /\ e \in Nat /\ o.conf.eps = e /\ Validation(study).extra \in Nat
    <3>1. r.conf \in Script(study).confs /\ o.conf \in Script(study).confs
      BY DEF ReadRows, ExpInv
    <3> QED BY <3>1, StudyFacts DEF Compared
  <2>2. tolerance \in Nat /\ e <= tolerance
    BY <2>1
  <2>3. ASSUME NEW q \in ReadRows, q.conf.solver = "bnb"
        PROVE  \E T \in Curves \cup {NoTrajectory}, b \in Nat :
                 /\ SolutionOf(q) = Report(T, Length(T), b, q.conf.eps)
                 /\ T # NoTrajectory => Visits(T, input)
                 /\ \A U \in Curves : Visits(U, input) => b <= Length(U)
    <3>1. RowRight(input, q) /\ q.solution # {}
      BY DEF ReadRows, ExpInv
    <3>2. PICK s \in Solutions(q.instance, q.conf) : q.solution = {s}
      BY <3>1 DEF RowRight
    <3>3. SolutionOf(q) = s /\ FaithfulTo(input, q.instance)
      BY <3>1, <3>2 DEF SolutionOf, RowRight
    <3> QED BY <2>3, <3>2, <3>3, BranchAndBoundReports
  <2>4. PICK T \in Curves \cup {NoTrajectory}, b \in Nat :
          /\ SolutionOf(r) = Report(T, Length(T), b, e)
          /\ T # NoTrajectory => Visits(T, input)
          /\ \A U \in Curves : Visits(U, input) => b <= Length(U)
    BY <2>1, <2>3
  <2>5. PICK U \in Curves \cup {NoTrajectory}, c \in Nat :
          /\ SolutionOf(o) = Report(U, Length(U), c, e)
          /\ U # NoTrajectory => Visits(U, input)
          /\ \A V \in Curves : Visits(V, input) => c <= Length(V)
    BY <2>1, <2>3
  <2> HIDE DEF e, tolerance
  <2>6. /\ T # NoTrajectory => b <= Length(T) /\ c <= Length(T)
        /\ U # NoTrajectory => b <= Length(U) /\ c <= Length(U)
    BY <2>4, <2>5
  <2>7. LET s == SolutionOf(r)
        IN  /\ CheckRaises(s) => s.upper_bound = 0
            /\ SelfPlausible(s, Length(s.trajectory), tolerance)
    BY <2>1, <2>2, <2>4, <2>6, ReportPlausible
  <2>8. LET t == SolutionOf(o)
        IN  /\ CheckRaises(t) => t.upper_bound = 0
            /\ SelfPlausible(t, Length(t.trajectory), tolerance)
    BY <2>1, <2>2, <2>5, <2>6, ReportPlausible
  <2>9. BoundsAgree(SolutionOf(r), SolutionOf(o)) /\ OptimaAgree(SolutionOf(r), SolutionOf(o), tolerance)
    BY <2>1, <2>2, <2>4, <2>5, <2>6, ReportsAgree
  <2> QED BY <2>7, <2>8, <2>9 DEF e, tolerance
<1> QED BY <1>1, ExpInitInv, ExpStepInv, PTL DEF Spec
=============================================================================
