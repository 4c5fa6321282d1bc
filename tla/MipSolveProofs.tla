--------------------------- MODULE MipSolveProofs ---------------------------
(***************************************************************************)
(* The MIP solvers, for any polygons with integer coordinates and whatever *)
(* Gurobi proposes, whenever it asks.  What the subtour callback accepts   *)
(* is one connected tour, since no edge leaves a component and with two    *)
(* edges at every vertex a component is never too small to be cut off; so  *)
(* the walk along the edges visits every polygon, and what solve returns   *)
(* is a tour.  Sums of areas along a ring show that the halfspaces of a    *)
(* convex ring describe it; with a big-M that is the largest of finitely   *)
(* many distances, no tour near the origin is ruled out; and 2-opt, whose  *)
(* swaps reverse a part of a permutation, hands over a start that the      *)
(* model admits.                                                           *)
(***************************************************************************)
EXTENDS MipInvariant, Recursion

\* The component of x.
ComponentOf(xi, x) == {y \in V : \A S \in Closed(xi) : x \in S => y \in S}

\* Vertices are finitely many, and 0 is one.
VerticesFinite == IsFiniteSet(V) /\ 0 \in V

\* There are polygons, and the numbers of the sites start with 0.
LEMMA InstanceFacts ==
  ASSUME inst \in DOMAIN Instances
  PROVE  /\ n \in Nat \ {0} /\ n - 1 \in Nat /\ 0 \in V /\ V \subseteq Nat /\ V = 0 .. n - 1
         /\ \A i \in V : i + 1 \in DOMAIN Instances[inst].sites /\ Site(i) = Instances[inst].sites[i + 1]
         /\ \A k \in DOMAIN Instances[inst].sites : k - 1 \in V /\ Site(k - 1) = Instances[inst].sites[k]
         /\ ProperInstance(Instances[inst])
<1> DEFINE sites == Instances[inst].sites
<1>1. ProperInstance(Instances[inst])
  BY InstancesAssumption
<1>2. sites \in Seq([outer : Seq(Point), pieces : Seq(Seq(Point))]) /\ sites # <<>>
  BY <1>1 DEF ProperInstance
<1> HIDE DEF sites
<1>3. Len(sites) \in Nat \ {0} /\ DOMAIN sites = 1 .. Len(sites)
  BY <1>2
<1>4. n = Len(sites)
  BY DEF n, sites
<1> QED BY <1>1, <1>3, <1>4 DEF V, Site, sites

LEMMA VerticesFiniteLemma == inst \in DOMAIN Instances => VerticesFinite
<1> SUFFICES ASSUME inst \in DOMAIN Instances PROVE VerticesFinite
  OBVIOUS
<1>1. n \in Nat \ {0}
  BY InstanceFacts
<1>2. IsFiniteSet(0 .. n - 1)
  BY <1>1, FS_Interval
<1> QED BY <1>1, <1>2 DEF V, VerticesFinite

\* A component contains its vertex and no edge leaves it.
LEMMA ComponentClosed ==
  ASSUME NEW xi \in SUBSET EdgesOn(V), NEW x \in V
  PROVE  x \in ComponentOf(xi, x) /\ ComponentOf(xi, x) \in Closed(xi)
<1> DEFINE C == ComponentOf(xi, x)
<1>1. x \in C /\ C \in SUBSET V
  BY DEF ComponentOf
<1>2. ASSUME NEW e \in xi, NEW u \in e \cap C, NEW w \in e
      PROVE  w \in C
  <2>1. w \in V
    BY DEF EdgesOn
  <2>2. ASSUME NEW S \in Closed(xi), x \in S PROVE w \in S
    <3>1. u \in S
      BY <2>2 DEF ComponentOf
    <3>2. e \subseteq S
      BY <3>1 DEF Closed
    <3> QED BY <3>2
  <2> QED BY <2>1, <2>2 DEF ComponentOf
<1>3. \A e \in xi : e \cap C = {} \/ e \subseteq C
  BY <1>2
<1> QED BY <1>1, <1>3 DEF Closed

\* What no edge leaves has a complement that no edge leaves.
LEMMA ComplementClosed ==
  ASSUME NEW xi \in SUBSET EdgesOn(V), NEW S \in Closed(xi)
  PROVE  V \ S \in Closed(xi)
<1>1. \A e \in xi : e \subseteq V
  BY DEF EdgesOn
<1>2. \A e \in xi : e \cap (V \ S) = {} \/ e \subseteq V \ S
  BY <1>1 DEF Closed
<1> QED BY <1>2 DEF Closed

\* An edge joins a vertex on it to another one.
LEMMA EdgeEnds ==
  ASSUME VerticesFinite, NEW e \in EdgesOn(V), NEW x \in e
  PROVE  \E y \in V : y # x /\ e = {x, y}
<1>1. e \in SUBSET V /\ IsFiniteSet(e) /\ Cardinality(e) = 2
  <2>1. e \in SUBSET V /\ Cardinality(e) = 2
    BY DEF EdgesOn
  <2> QED BY <2>1, FS_Subset DEF VerticesFinite
<1>2. IsFiniteSet(e \ {x}) /\ Cardinality(e \ {x}) = 1
  BY <1>1, FS_RemoveElement
<1>3. PICK y : e \ {x} = {y}
  BY <1>2, FS_Singleton
<1> QED BY <1>1, <1>3

\* A vertex has exactly two neighbours.
LEMMA TwoNeighbours ==
  ASSUME VerticesFinite, NEW xi, DegreeTwo(xi, V), NEW x \in V
  PROVE  \E y, z \in V :
           /\ y # x /\ z # x /\ y # z /\ {x, y} \in xi /\ {x, z} \in xi
           /\ \A e \in xi : x \in e => e = {x, y} \/ e = {x, z}
<1> DEFINE D == {e \in xi : x \in e}
<1>1. xi \in SUBSET EdgesOn(V) /\ Cardinality(D) = 2
  BY DEF DegreeTwo
<1>2. IsFiniteSet(D)
  <2>1. IsFiniteSet(SUBSET V)
    BY FS_SUBSET DEF VerticesFinite
  <2>2. D \in SUBSET (SUBSET V)
    BY <1>1 DEF EdgesOn
  <2> QED BY <2>1, <2>2, FS_Subset
<1>3. PICK e \in D : TRUE
  BY <1>1, FS_EmptySet
<1>4. PICK f : D \ {e} = {f}
  <2> HIDE DEF D
  <2>1. IsFiniteSet(D \ {e}) /\ Cardinality(D \ {e}) = Cardinality(D) - 1
    BY <1>2, <1>3, FS_RemoveElement
  <2>2. Cardinality(D \ {e}) = 1
    BY <1>1, <2>1
  <2> QED BY <2>1, <2>2, FS_Singleton
<1>5. ASSUME NEW d \in D
      PROVE  \E y \in V : y # x /\ d = {x, y}
  <2>1. d \in EdgesOn(V) /\ x \in d
    BY <1>1
  <2> QED BY <2>1, EdgeEnds
<1>6. D = {e, f} /\ e # f
  BY <1>3, <1>4
<1>7. PICK y \in V : y # x /\ e = {x, y}
  BY <1>5
<1>8. PICK z \in V : z # x /\ f = {x, z}
  BY <1>5, <1>6
<1>9. y # z
  BY <1>6, <1>7, <1>8
<1>10. \A d \in xi : x \in d => d = {x, y} \/ d = {x, z}
  BY <1>6, <1>7, <1>8
<1> QED BY <1>6, <1>7, <1>8, <1>9, <1>10

\* A vertex with two edges is in a component of three vertices at least.
LEMMA ComponentNotSmall ==
  ASSUME VerticesFinite, NEW xi, DegreeTwo(xi, V), NEW x \in V
  PROVE  Cardinality(ComponentOf(xi, x)) >= 3
<1> DEFINE C == ComponentOf(xi, x)
<1>1. xi \in SUBSET EdgesOn(V)
  BY DEF DegreeTwo
<1>2. x \in C /\ C \in Closed(xi) /\ C \in SUBSET V
  BY <1>1, ComponentClosed DEF Closed
<1>3. PICK y, z \in V : y # x /\ z # x /\ y # z /\ {x, y} \in xi /\ {x, z} \in xi
  BY TwoNeighbours
<1>4. {x, y} \subseteq C /\ {x, z} \subseteq C
  BY <1>2, <1>3 DEF Closed
<1>5. {x, y, z} \in SUBSET C
  BY <1>2, <1>4
<1>6. Cardinality(({x} \cup {y}) \cup {z}) = 3
  <2>1. IsFiniteSet({x}) /\ Cardinality({x}) = 1
    BY FS_Singleton
  <2>2. IsFiniteSet({x} \cup {y}) /\ Cardinality({x} \cup {y}) = 2
    BY <1>3, <2>1, FS_AddElement, SMTT(30)
  <2> QED BY <1>3, <2>2, FS_AddElement
<1>7. IsFiniteSet(C)
  BY <1>2, FS_Subset DEF VerticesFinite
<1>8. /\ Cardinality({x, y, z}) <= Cardinality(C)
      /\ {x, y, z} = ({x} \cup {y}) \cup {z}
  BY <1>5, <1>7, FS_Subset
<1>9. Cardinality(C) \in Nat
  BY <1>7, FS_CardinalityType
<1> QED BY <1>6, <1>8, <1>9

\* If every component holds vertex 0 there is only one.
LEMMA OneComponent ==
  ASSUME VerticesFinite, NEW xi \in SUBSET EdgesOn(V),
         \A x \in V : 0 \in ComponentOf(xi, x)
  PROVE  Components(xi) = {V}
<1>1. ASSUME NEW S \in Closed(xi), S # {}
      PROVE  S = V
  <2>1. S \in SUBSET V
    BY DEF Closed
  <2>2. 0 \in S
    BY <1>1, <2>1 DEF ComponentOf
  <2>3. ASSUME NEW y \in V \ S PROVE FALSE
    <3>1. V \ S \in Closed(xi)
      BY ComplementClosed
    <3>2. 0 \in V \ S
      BY <3>1 DEF ComponentOf
    <3> QED BY <2>2, <3>2
  <2> QED BY <2>1, <2>3
<1>2. \A x \in V : ComponentOf(xi, x) = V
  BY <1>1, ComponentClosed
<1>3. Components(xi) = {ComponentOf(xi, x) : x \in V}
  BY DEF Components, ComponentOf
<1> QED BY <1>2, <1>3 DEF VerticesFinite

\* What the callback lets pass is connected.
LEMMA AcceptedConnected ==
  ASSUME VerticesFinite, NEW xi, DegreeTwo(xi, V), SubtourCuts(xi) = {}
  PROVE  Components(xi) = {V}
<1>1. xi \in SUBSET EdgesOn(V)
  BY DEF DegreeTwo
<1>2. Components(xi) = {ComponentOf(xi, x) : x \in V}
  BY DEF Components, ComponentOf
<1>3. IsFiniteSet(Components(xi))
  <2>1. IsFiniteSet(SUBSET V)
    BY FS_SUBSET DEF VerticesFinite
  <2>2. Components(xi) \in SUBSET (SUBSET V)
    BY DEF Components
  <2> QED BY <2>1, <2>2, FS_Subset
<1>4. CASE Cardinality(Components(xi)) <= 1
  <2>1. ComponentOf(xi, 0) \in Components(xi)
    BY <1>2 DEF VerticesFinite
  <2>2. Cardinality(Components(xi)) = 1
    <3>1. Cardinality(Components(xi)) \in Nat /\ Cardinality(Components(xi)) # 0
      BY <1>3, <2>1, FS_CardinalityType, FS_EmptySet
    <3> QED BY <1>4, <3>1
  <2>3. PICK C : Components(xi) = {C}
    BY <1>3, <2>2, FS_Singleton
  <2>4. \A x \in V : ComponentOf(xi, x) = ComponentOf(xi, 0)
    BY <1>2, <2>3 DEF VerticesFinite
  <2>5. 0 \in ComponentOf(xi, 0)
    BY <1>1, ComponentClosed DEF VerticesFinite
  <2> QED BY <1>1, <2>4, <2>5, OneComponent
<1>5. CASE ~ (Cardinality(Components(xi)) <= 1)
  <2>1. \A x \in V : 0 \in ComponentOf(xi, x)
    BY <1>2, <1>5, ComponentNotSmall DEF SubtourCuts
  <2> QED BY <1>1, <2>1, OneComponent
<1> QED BY <1>4, <1>5

\* A component is not cut off yet: the proposal satisfies all cuts there are.
LEMMA CutsAreNew ==
  ASSUME NEW xi, DegreeTwo(xi, V), \A S \in cuts : CutSatisfied(S, xi)
  PROVE  SubtourCuts(xi) \cap cuts = {}
<1> SUFFICES ASSUME NEW C \in SubtourCuts(xi), C \in cuts PROVE FALSE
  OBVIOUS
<1>1. C \in Components(xi)
  BY DEF SubtourCuts
<1>2. PICK x \in V : C = ComponentOf(xi, x)
  BY <1>1 DEF Components, ComponentOf
<1>3. C \in Closed(xi)
  BY <1>2, ComponentClosed DEF DegreeTwo
<1>4. {e \in xi : e \cap C # {} /\ e \ C # {}} = {}
  BY <1>3 DEF Closed
<1>5. ~ CutSatisfied(C, xi)
  BY <1>4, FS_EmptySet DEF CutSatisfied
<1> QED BY <1>5

----------------------------------------------------------------------------
\* Components(xi), with the set of vertices as a parameter.
ComponentsIn(vertices, xi) ==
  {{y \in vertices : \A S \in {R \in SUBSET vertices : \A e \in xi : e \cap R = {} \/ e \subseteq R} :
                       x \in S => y \in S} : x \in vertices}

LEMMA ConnectedInVertices ==
  /\ \A xi : Components(xi) = ComponentsIn(V, xi)
  /\ IncumbentConnected <=> (incumbent # None => ComponentsIn(V, incumbent.xi) = {V})
  /\ IncumbentConnected' <=> (incumbent' # None => ComponentsIn(V', incumbent'.xi) = {V'})
<1>1. Components(incumbent.xi)' = ComponentsIn(V', incumbent'.xi)
  BY DEF Components, Closed, ComponentsIn
<1> QED BY <1>1 DEF Components, Closed, ComponentsIn, IncumbentConnected, None

\* The invariant of the callback holds at first.
LEMMA CallbackInit == Init => CallbackInv
<1> SUFFICES ASSUME Init PROVE CallbackInv
  OBVIOUS
<1>1. Cardinality({}) = 0
  BY FS_EmptySet
<1> QED BY <1>1 DEF Init, SolverInit, CallbackInv, NoCutTwice, IncumbentConnected

\* The callback adds a cut or accepts a connected tour, and either keeps its invariant.
LEMMA MipSolKeeps ==
  ASSUME CallbackInv, UNCHANGED inst, NEW xi, NEW q, NEW z, MipSol(xi, q, z)
  PROVE  CallbackInv'
<1> DEFINE new == SubtourCuts(xi)
<1>1. VerticesFinite /\ DegreeTwo(xi, V) /\ \A S \in cuts : CutSatisfied(S, xi)
  BY VerticesFiniteLemma DEF CallbackInv, MipSol, Admitted
<1>2. inst' \in DOMAIN Instances /\ V' = V /\ n' = n
  BY DEF CallbackInv, V, n
<1>3. cuts' = cuts \cup new /\ numCuts' = numCuts + Cardinality(new)
  BY DEF MipSol
<1>4. new \in SUBSET (SUBSET V)
  BY DEF SubtourCuts, Components
<1>5. NoCutTwice'
  <2>1. IsFiniteSet(SUBSET V)
    BY <1>1, FS_SUBSET DEF VerticesFinite
  <2>2. IsFiniteSet(cuts) /\ IsFiniteSet(new)
    BY <1>4, <2>1, FS_Subset DEF CallbackInv
  <2>3. cuts \cap new = {}
    BY <1>1, CutsAreNew
  <2>4. Cardinality(cuts \cup new) = Cardinality(cuts) + Cardinality(new) - Cardinality(cuts \cap new)
    BY <2>2, FS_Union
  <2>5. Cardinality(cuts \cap new) = 0
    BY <2>3, FS_EmptySet
  <2>6. Cardinality(cuts) \in Nat /\ Cardinality(new) \in Nat
    BY <2>2, FS_CardinalityType
  <2>7. Cardinality(cuts') = numCuts'
    BY <1>3, <2>4, <2>5, <2>6 DEF CallbackInv, NoCutTwice
  <2> QED BY <2>7 DEF NoCutTwice
<1>6. IncumbentConnected'
  <2>1. CASE new = {}
    <3>1. ComponentsIn(V, xi) = {V}
      BY <1>1, <2>1, AcceptedConnected, ConnectedInVertices
    <3>2. incumbent'.xi = xi
      BY <2>1 DEF MipSol
    <3> QED BY <1>2, <3>1, <3>2, ConnectedInVertices
  <2>2. CASE new # {}
    <3>1. incumbent' = incumbent
      BY <2>2 DEF MipSol
    <3> QED BY <1>2, <3>1, ConnectedInVertices DEF CallbackInv
  <2> QED BY <2>1, <2>2
<1> QED BY <1>2, <1>3, <1>4, <1>5, <1>6 DEF CallbackInv

\* Steps that touch neither the cuts nor the incumbent.
LEMMA OthersKeep ==
  ASSUME CallbackInv, UNCHANGED <<inst, cuts, numCuts, incumbent>>
  PROVE  CallbackInv'
<1>1. V' = V
  BY DEF V, n
<1>2. IncumbentConnected'
  BY <1>1, ConnectedInVertices DEF CallbackInv
<1> QED BY <1>1, <1>2 DEF CallbackInv, NoCutTwice

\* No step breaks the invariant of the callback.
LEMMA CallbackStep == CallbackInv /\ [Next]_vars => CallbackInv'
<1> SUFFICES ASSUME CallbackInv, [Next]_vars PROVE CallbackInv'
  OBVIOUS
<1>1. CASE GenerateWarmStart
  BY <1>1, OthersKeep DEF GenerateWarmStart, solverVars
<1>2. CASE ConstructSolver
  BY <1>2, OthersKeep DEF ConstructSolver, Construct
<1>3. CASE InitialSolution
  <2>1. ASSUME NEW solution, SetWarmStart(solution)
        PROVE  UNCHANGED <<cuts, numCuts, incumbent>>
    BY <2>1 DEF SetWarmStart
  <2>2. UNCHANGED <<inst, cuts, numCuts, incumbent>>
    BY <1>3, <2>1 DEF InitialSolution
  <2> QED BY <2>2, OthersKeep
<1>4. CASE StartSolve
  BY <1>4, OthersKeep DEF StartSolve, Optimize
<1>5. CASE Solve
  <2>1. CASE \E xi \in EdgeSets, q \in Positions, z \in PieceChoices : MipSol(xi, q, z)
    BY <1>5, <2>1, MipSolKeeps DEF Solve
  <2>2. CASE \E status \in Statuses : Stop(status)
    BY <1>5, <2>2, OthersKeep DEF Solve, Stop
  <2> QED BY <1>5, <2>1, <2>2 DEF Solve
<1>6. CASE UNCHANGED vars
  BY <1>6, OthersKeep DEF vars, solverVars
<1> QED BY <1>1, <1>2, <1>3, <1>4, <1>5, <1>6 DEF Next

\* No cut is added twice: every proposal with a subtour is cut off for good, and
\* Gurobi and the callback cannot go round in circles (callback.py:52-67).
THEOREM NoCutIsAddedTwice == Spec => []NoCutTwice
<1>1. CallbackInv => NoCutTwice
  BY DEF CallbackInv
<1> QED BY CallbackInit, CallbackStep, <1>1, PTL DEF Spec

\* Although the callback passes over the component of vertex 0 and over those
\* of less than three vertices, what it accepts is one connected tour
\* (callback.py:49-67).
THEOREM AcceptedToursAreConnected == Spec => []IncumbentConnected
<1>1. CallbackInv => IncumbentConnected
  BY DEF CallbackInv
<1> QED BY CallbackInit, CallbackStep, <1>1, PTL DEF Spec

----------------------------------------------------------------------------
(* The walk along the chosen edges *)

\* Where it can go on.
FreshFrom(xi, w) == {j \in V \ ToSet(w) : {Last(w), j} \in xi}

\* A walk is not empty, stays in the vertices and repeats none of them.
LEMMA PathFacts ==
  ASSUME NEW xi, NEW w, PathIn(xi, w)
  PROVE  /\ Len(w) \in Nat \ {0} /\ Last(w) = w[Len(w)]
         /\ \A i \in 1 .. Len(w) : w[i] \in V
         /\ ToSet(w) = {w[i] : i \in 1 .. Len(w)} /\ ToSet(w) \in SUBSET V
<1>1. w \in Seq(V) /\ Len(w) \in Nat \ {0}
  BY DEF PathIn
<1>2. \A i \in 1 .. Len(w) : w[i] \in V
  BY <1>1
<1>3. DOMAIN w = 1 .. Len(w)
  BY <1>1
<1>4. ToSet(w) = {w[i] : i \in 1 .. Len(w)}
  BY <1>3 DEF ToSet
<1> QED BY <1>1, <1>2, <1>4 DEF Last

\* No vertex has a third neighbour.
LEMMA NoThirdNeighbour ==
  ASSUME VerticesFinite, NEW xi, DegreeTwo(xi, V), NEW x \in V, NEW a, NEW b, NEW c,
         a # x, b # x, c # x, a # b, {x, a} \in xi, {x, b} \in xi, {x, c} \in xi
  PROVE  c = a \/ c = b
<1>1. PICK y, z \in V :
        /\ y # x /\ z # x /\ y # z /\ {x, y} \in xi /\ {x, z} \in xi
        /\ \A e \in xi : x \in e => e = {x, y} \/ e = {x, z}
  BY TwoNeighbours
<1>2. ASSUME NEW d, d # x, {x, d} \in xi PROVE d = y \/ d = z
  <2>1. {x, d} = {x, y} \/ {x, d} = {x, z}
    BY <1>1, <1>2
  <2> QED BY <1>2, <2>1
<1> QED BY <1>2

\* Where the walk cannot go on it is back next to its start.
LEMMA DeadEndMeetsStart ==
  ASSUME VerticesFinite, NEW xi, DegreeTwo(xi, V), NEW w, PathIn(xi, w),
         FreshFrom(xi, w) = {}
  PROVE  Len(w) >= 3 /\ {w[Len(w)], w[1]} \in xi
<1> DEFINE k == Len(w)
<1>1. /\ k \in Nat \ {0} /\ Last(w) = w[k] /\ \A i \in 1 .. k : w[i] \in V
      /\ ToSet(w) = {w[i] : i \in 1 .. k}
  BY PathFacts
<1>2. /\ \A i, j \in 1 .. k : w[i] = w[j] => i = j
      /\ \A i \in 1 .. k - 1 : {w[i], w[i + 1]} \in xi
  BY DEF PathIn
<1> HIDE DEF k
<1>3. \A t \in V : {w[k], t} \in xi => \E j \in 1 .. k : t = w[j]
  BY <1>1 DEF FreshFrom
<1>4. w[k] \in V
  BY <1>1
<1>5. PICK y, z \in V : /\ y # w[k] /\ z # w[k] /\ y # z
                        /\ {w[k], y} \in xi /\ {w[k], z} \in xi
  BY <1>4, TwoNeighbours
<1>6. PICK a \in 1 .. k, b \in 1 .. k : y = w[a] /\ z = w[b]
  BY <1>3, <1>5
<1>7. a # k /\ b # k /\ a # b
  BY <1>5, <1>6
<1>8. k >= 3
  BY <1>1, <1>7
<1>9. PICK j \in 1 .. k : j # k /\ j # k - 1 /\ {w[k], w[j]} \in xi
  BY <1>1, <1>5, <1>6, <1>7
<1>10. j = 1
  <2> SUFFICES ASSUME j # 1 PROVE FALSE
    OBVIOUS
  <2>1. /\ j - 1 \in 1 .. k - 1 /\ j + 1 \in 1 .. k /\ j \in 1 .. k - 1 /\ j - 1 \in 1 .. k
        /\ k \in 1 .. k /\ (j - 1) + 1 = j /\ j - 1 # j /\ j + 1 # j
        /\ j - 1 # j + 1 /\ j - 1 # k /\ j + 1 # k
    BY <1>1, <1>9
  <2>2. {w[j], w[j - 1]} \in xi /\ {w[j], w[j + 1]} \in xi /\ {w[j], w[k]} \in xi
    <3>1. {w[j - 1], w[j]} \in xi
      BY <1>2, <2>1
    <3>2. {w[j - 1], w[j]} = {w[j], w[j - 1]} /\ {w[k], w[j]} = {w[j], w[k]}
      OBVIOUS
    <3> QED BY <1>2, <1>9, <2>1, <3>1, <3>2
  <2>3. /\ w[j - 1] # w[j] /\ w[j + 1] # w[j] /\ w[k] # w[j]
        /\ w[j - 1] # w[j + 1] /\ w[k] # w[j - 1] /\ w[k] # w[j + 1]
    BY <1>2, <1>9, <2>1
  <2>4. w[j] \in V
    BY <1>1
  <2>5. w[k] = w[j - 1] \/ w[k] = w[j + 1]
    <3> DEFINE x == w[j]
               p == w[j - 1]
               q == w[j + 1]
               o == w[k]
    <3>1. /\ x \in V /\ p # x /\ q # x /\ o # x /\ p # q
          /\ {x, p} \in xi /\ {x, q} \in xi /\ {x, o} \in xi
      BY <2>2, <2>3, <2>4
    <3> HIDE DEF x, p, q, o
    <3>2. o = p \/ o = q
      BY <3>1, NoThirdNeighbour
    <3> QED BY <3>2 DEF p, q, o
  <2> QED BY <2>3, <2>5
<1> QED BY <1>8, <1>9, <1>10 DEF k

\* The positions that follow one another on a closed walk.
LEMMA NextPosition ==
  ASSUME NEW k \in Nat \ {0}, NEW i \in 1 .. k
  PROVE  After(i, k) = IF i = k THEN 1 ELSE i + 1
<1>1. CASE i = k
  <2>1. k % k = 0
    OBVIOUS
  <2> QED BY <1>1, <2>1 DEF After
<1>2. CASE i # k
  <2>1. i % k = i
    BY <1>2
  <2> QED BY <1>2, <2>1 DEF After
<1> QED BY <1>1, <1>2

\* Of the edges of the closed tour in the order of a walk.
LEMMA TourOfWalk ==
  ASSUME NEW xi, NEW w, PathIn(xi, w)
  PROVE  /\ TourEdges(w) = {{w[i], w[IF i = Len(w) THEN 1 ELSE i + 1]} : i \in 1 .. Len(w)}
         /\ \A i \in 1 .. Len(w) - 1 : {w[i + 1], w[i]} \in TourEdges(w)
         /\ {w[1], w[Len(w)]} \in TourEdges(w)
<1> DEFINE k == Len(w)
           Edge(i) == {w[i], w[IF i = k THEN 1 ELSE i + 1]}
<1>1. k \in Nat \ {0} /\ DOMAIN w = 1 .. k
  <2>1. w \in Seq(V)
    BY DEF PathIn
  <2> QED BY <2>1, PathFacts
<1>2. \A i \in 1 .. k : {w[i], w[After(i, k)]} = Edge(i)
  <2> HIDE DEF k
  <2> QED BY <1>1, NextPosition
<1>3. TourEdges(w) = {Edge(i) : i \in 1 .. k}
  <2>1. TourEdges(w) = {{w[i], w[After(i, k)]} : i \in 1 .. k}
    BY <1>1 DEF TourEdges
  <2> HIDE DEF k, Edge
  <2> QED BY <1>2, <2>1
<1> HIDE DEF k
<1>4. ASSUME NEW i \in 1 .. k - 1 PROVE {w[i + 1], w[i]} \in TourEdges(w)
  <2>1. i \in 1 .. k /\ i # k
    BY <1>1
  <2>2. Edge(i) = {w[i + 1], w[i]}
    BY <2>1
  <2> QED BY <1>3, <2>1, <2>2
<1>5. {w[1], w[k]} \in TourEdges(w)
  <2>1. k \in 1 .. k /\ Edge(k) = {w[1], w[k]}
    BY <1>1
  <2> QED BY <1>3, <2>1
<1> QED BY <1>3, <1>4, <1>5 DEF k

\* All edges at the vertices of a walk that cannot go on belong to the closed
\* tour in its order.
LEMMA DeadEndEdges ==
  ASSUME VerticesFinite, NEW xi, DegreeTwo(xi, V), NEW w, PathIn(xi, w),
         FreshFrom(xi, w) = {},
         NEW i \in 1 .. Len(w), NEW t \in V, t # w[i], {w[i], t} \in xi
  PROVE  {w[i], t} \in TourEdges(w)
<1> DEFINE k == Len(w)
           T == TourEdges(w)
<1>1. /\ k \in Nat \ {0} /\ Last(w) = w[k] /\ \A j \in 1 .. k : w[j] \in V
      /\ ToSet(w) = {w[j] : j \in 1 .. k}
  BY PathFacts
<1>2. /\ \A j, l \in 1 .. k : w[j] = w[l] => j = l
      /\ \A j \in 1 .. k - 1 : {w[j], w[j + 1]} \in xi
  BY DEF PathIn
<1>3. k >= 3 /\ {w[k], w[1]} \in xi
  BY DeadEndMeetsStart
<1>4. /\ \A j \in 1 .. k - 1 : {w[j + 1], w[j]} \in T
      /\ {w[1], w[k]} \in T
  BY TourOfWalk
<1>5. i \in 1 .. k
  OBVIOUS
<1> HIDE DEF k, T
<1>6. CASE i = 1
  <2>1. 2 \in 1 .. k /\ k \in 1 .. k /\ 1 \in 1 .. k - 1 /\ 1 \in 1 .. k /\ k # 1 /\ k # 2
        /\ 1 + 1 = 2
    BY <1>1, <1>3
  <2>2. {w[1], w[2]} \in xi /\ {w[1], w[k]} \in xi
    <3>1. {w[k], w[1]} = {w[1], w[k]}
      OBVIOUS
    <3>2. {w[1], w[1 + 1]} \in xi
      BY <1>2, <2>1
    <3> QED BY <1>3, <2>1, <3>1, <3>2
  <2>3. w[2] # w[1] /\ w[k] # w[1] /\ w[2] # w[k] /\ w[1] \in V
    BY <1>1, <1>2, <2>1
  <2>4. t = w[2] \/ t = w[k]
    BY <1>6, <2>2, <2>3, NoThirdNeighbour
  <2>5. {w[1], w[2]} \in T
    <3>1. {w[1 + 1], w[1]} \in T /\ {w[2], w[1]} = {w[1], w[2]}
      BY <1>4, <2>1
    <3> QED BY <2>1, <3>1
  <2> QED BY <1>4, <1>6, <2>4, <2>5 DEF T
<1>7. CASE i = k
  <2>1. k - 1 \in 1 .. k /\ k \in 1 .. k /\ k - 1 \in 1 .. k - 1 /\ 1 \in 1 .. k /\ k # 1
        /\ k - 1 # 1 /\ (k - 1) + 1 = k /\ k - 1 # k
    BY <1>1, <1>3
  <2>2. {w[k], w[k - 1]} \in xi
    <3>1. {w[k - 1], w[(k - 1) + 1]} \in xi
      BY <1>2, <2>1
    <3>2. {w[k - 1], w[k]} = {w[k], w[k - 1]}
      OBVIOUS
    <3> QED BY <2>1, <3>1, <3>2
  <2>3. w[1] # w[k] /\ w[k - 1] # w[k] /\ w[1] # w[k - 1] /\ w[k] \in V
    BY <1>1, <1>2, <2>1
  <2>4. t = w[1] \/ t = w[k - 1]
    BY <1>3, <1>7, <2>2, <2>3, NoThirdNeighbour
  <2>5. {w[k], w[k - 1]} \in T
    <3>1. {w[(k - 1) + 1], w[k - 1]} \in T
      BY <1>4, <2>1
    <3> QED BY <2>1, <3>1
  <2>6. {w[k], w[1]} = {w[1], w[k]}
    OBVIOUS
  <2> QED BY <1>4, <1>7, <2>4, <2>5, <2>6 DEF T
<1>8. CASE i # 1 /\ i # k
  <2>1. /\ i - 1 \in 1 .. k - 1 /\ i - 1 \in 1 .. k /\ i + 1 \in 1 .. k /\ i \in 1 .. k - 1
        /\ (i - 1) + 1 = i /\ i - 1 # i /\ i + 1 # i /\ i - 1 # i + 1
    BY <1>1, <1>5, <1>8
  <2>2. {w[i], w[i - 1]} \in xi /\ {w[i], w[i + 1]} \in xi
    <3>1. {w[i - 1], w[(i - 1) + 1]} \in xi
      BY <1>2, <2>1
    <3>2. {w[i - 1], w[i]} = {w[i], w[i - 1]}
      OBVIOUS
    <3> QED BY <1>2, <2>1, <3>1, <3>2
  <2>3. w[i - 1] # w[i] /\ w[i + 1] # w[i] /\ w[i - 1] # w[i + 1] /\ w[i] \in V
    BY <1>1, <1>2, <1>5, <2>1
  <2>4. t = w[i - 1] \/ t = w[i + 1]
    BY <2>2, <2>3, NoThirdNeighbour
  <2>5. {w[i], w[i - 1]} \in T /\ {w[i], w[i + 1]} \in T
    <3>1. {w[(i - 1) + 1], w[i - 1]} \in T
      BY <1>4, <2>1
    <3>2. {w[i + 1], w[i]} \in T /\ {w[i + 1], w[i]} = {w[i], w[i + 1]}
      BY <1>4, <2>1
    <3> QED BY <2>1, <3>1, <3>2
  <2> QED BY <2>4, <2>5 DEF T
<1> QED BY <1>6, <1>7, <1>8

\* So no edge leaves it.
LEMMA DeadEndClosed ==
  ASSUME VerticesFinite, NEW xi, DegreeTwo(xi, V), NEW w, PathIn(xi, w),
         FreshFrom(xi, w) = {}
  PROVE  ToSet(w) \in Closed(xi) /\ \A e \in xi : e \cap ToSet(w) # {} => e \in TourEdges(w)
<1> DEFINE k == Len(w)
           S == ToSet(w)
           T == TourEdges(w)
<1>1. /\ k \in Nat \ {0} /\ \A j \in 1 .. k : w[j] \in V
      /\ S = {w[j] : j \in 1 .. k} /\ S \in SUBSET V
  BY PathFacts
<1>2. \A e \in T : e \subseteq S
  <2>1. T = {{w[i], w[IF i = k THEN 1 ELSE i + 1]} : i \in 1 .. k}
    BY TourOfWalk
  <2> HIDE DEF k, T, S
  <2>2. ASSUME NEW i \in 1 .. k PROVE {w[i], w[IF i = k THEN 1 ELSE i + 1]} \subseteq S
    <3>1. (IF i = k THEN 1 ELSE i + 1) \in 1 .. k
      BY <1>1
    <3> QED BY <1>1, <3>1
  <2> QED BY <2>1, <2>2
<1>3. \A i \in 1 .. k : \A t \in V : (t # w[i] /\ {w[i], t} \in xi) => {w[i], t} \in T
  BY DeadEndEdges
<1>4. ASSUME NEW e \in xi, NEW x \in e \cap S PROVE e \in T
  <2>1. PICK i \in 1 .. k : x = w[i]
    BY <1>1
  <2>2. e \in EdgesOn(V)
    BY DEF DegreeTwo
  <2>3. PICK t \in V : t # x /\ e = {x, t}
    BY <2>2, EdgeEnds
  <2> HIDE DEF T
  <2> QED BY <1>3, <2>1, <2>3
<1>5. \A e \in xi : e \cap S # {} => e \in T
  BY <1>4
<1>6. \A e \in xi : e \cap S = {} \/ e \subseteq S
  BY <1>2, <1>5
<1> HIDE DEF T
<1> QED BY <1>1, <1>5, <1>6 DEF Closed, T

\* What no edge of one connected tour leaves is everything.
LEMMA ClosedIsAll ==
  ASSUME NEW xi \in SUBSET EdgesOn(V), Components(xi) = {V}, NEW S \in Closed(xi), S # {}
  PROVE  S = V
<1>1. S \in SUBSET V
  BY DEF Closed
<1>2. PICK x \in S : TRUE
  OBVIOUS
<1>3. ComponentOf(xi, x) \in Components(xi)
  BY <1>1, <1>2 DEF Components, ComponentOf
<1>4. ComponentOf(xi, x) = V
  BY <1>3
<1>5. ComponentOf(xi, x) \subseteq S
  BY <1>2 DEF ComponentOf
<1> QED BY <1>1, <1>4, <1>5

\* A walk has at most n vertices, and one of n vertices is everywhere.
LEMMA WalkLength ==
  ASSUME inst \in DOMAIN Instances, NEW xi, NEW w, PathIn(xi, w)
  PROVE  Len(w) <= n /\ (Len(w) = n <=> ToSet(w) = V)
<1> DEFINE k == Len(w)
           D == 1 .. k
<1>1. /\ k \in Nat \ {0} /\ \A j \in 1 .. k : w[j] \in V
      /\ ToSet(w) = {w[j] : j \in 1 .. k}
  BY PathFacts
<1>2. \A i, j \in 1 .. k : w[i] = w[j] => i = j
  BY DEF PathIn
<1>3. n \in Nat \ {0}
  BY InstanceFacts
<1>4. w \in [D -> V]
  <2>1. w \in Seq(V)
    BY DEF PathIn
  <2> QED BY <2>1
<1>5. IsFiniteSet(V) /\ Cardinality(V) = n
  <2>1. ASSUME NEW m \in Nat \ {0} PROVE IsFiniteSet(0 .. m - 1) /\ Cardinality(0 .. m - 1) = m
    BY FS_Interval
  <2> QED BY <1>3, <2>1 DEF V
<1>6. IsFiniteSet(D) /\ Cardinality(D) = k
  <2>1. ASSUME NEW m \in Nat \ {0} PROVE IsFiniteSet(1 .. m) /\ Cardinality(1 .. m) = m
    BY FS_Interval
  <2> HIDE DEF k
  <2> QED BY <1>1, <2>1
<1> HIDE DEF D
<1>7. w \in Injection(D, V)
  BY <1>2, <1>4 DEF Injection, IsInjective, D
<1>8. /\ Cardinality(D) <= Cardinality(V)
      /\ Cardinality(D) = Cardinality(V) <=> w \in Surjection(D, V)
  BY <1>5, <1>7, FS_Injection
<1>9. w \in Surjection(D, V) <=> V \subseteq ToSet(w)
  BY <1>1, <1>4 DEF Surjection, D
<1>10. ToSet(w) \subseteq V
  BY <1>1
<1> QED BY <1>5, <1>6, <1>8, <1>9, <1>10

\* On one connected tour a walk ends only after all vertices, and then the
\* edges of the tour are those of the walk.
LEMMA DeadEndIsTour ==
  ASSUME inst \in DOMAIN Instances, NEW xi, DegreeTwo(xi, V), Components(xi) = {V},
         NEW w, PathIn(xi, w), FreshFrom(xi, w) = {}
  PROVE  ToSet(w) = V /\ Len(w) = n /\ TourEdges(w) = xi
<1>1. VerticesFinite
  BY VerticesFiniteLemma
<1>2. xi \in SUBSET EdgesOn(V)
  BY DEF DegreeTwo
<1>3. ToSet(w) \in Closed(xi) /\ \A e \in xi : e \cap ToSet(w) # {} => e \in TourEdges(w)
  BY <1>1, DeadEndClosed
<1>4. ToSet(w) # {} /\ Len(w) \in Nat \ {0}
  BY PathFacts
<1>5. ToSet(w) = V
  BY <1>2, <1>3, <1>4, ClosedIsAll
<1>6. Len(w) = n
  BY <1>5, WalkLength
<1>7. xi \subseteq TourEdges(w)
  <2>1. \A e \in xi : e \cap V # {}
    <3> SUFFICES ASSUME NEW e \in xi, e \cap V = {} PROVE FALSE
      OBVIOUS
    <3>1. e = {} /\ Cardinality(e) = 2
      BY <1>2 DEF EdgesOn
    <3> QED BY <3>1, FS_EmptySet
  <2> QED BY <1>3, <1>5, <2>1
<1>8. TourEdges(w) \subseteq xi
  <2>1. TourEdges(w) = {{w[i], w[IF i = Len(w) THEN 1 ELSE i + 1]} : i \in 1 .. Len(w)}
    BY TourOfWalk
  <2>2. {w[Len(w)], w[1]} \in xi
    BY <1>1, DeadEndMeetsStart
  <2>3. \A i \in 1 .. Len(w) - 1 : {w[i], w[i + 1]} \in xi
    BY DEF PathIn
  <2>4. ASSUME NEW i \in 1 .. Len(w)
        PROVE  {w[i], w[IF i = Len(w) THEN 1 ELSE i + 1]} \in xi
    <3>1. CASE i = Len(w)
      BY <2>2, <3>1
    <3>2. CASE i # Len(w)
      <4>1. i \in 1 .. Len(w) - 1
        BY <1>4, <3>2
      <4> QED BY <2>3, <3>2, <4>1
    <3> QED BY <3>1, <3>2
  <2> QED BY <2>1, <2>4
<1> QED BY <1>5, <1>6, <1>7, <1>8

\* One step of the walk to a vertex that was not visited yet.
LEMMA PathExtends ==
  ASSUME NEW xi, NEW w, PathIn(xi, w), NEW j \in FreshFrom(xi, w)
  PROVE  PathIn(xi, Append(w, j)) /\ Len(Append(w, j)) = Len(w) + 1
<1> DEFINE k == Len(w)
           u == Append(w, j)
<1>1. /\ k \in Nat \ {0} /\ Last(w) = w[k]
      /\ ToSet(w) = {w[i] : i \in 1 .. k}
  BY PathFacts
<1>2. /\ w \in Seq(V) /\ w[1] = 0
      /\ \A i, l \in 1 .. k : w[i] = w[l] => i = l
      /\ \A i \in 1 .. k - 1 : {w[i], w[i + 1]} \in xi
  BY DEF PathIn
<1>3. j \in V /\ {w[k], j} \in xi /\ \A i \in 1 .. k : w[i] # j
  BY <1>1 DEF FreshFrom
<1>4. u \in Seq(V) /\ Len(u) = k + 1 /\ u[k + 1] = j /\ \A i \in 1 .. k : u[i] = w[i]
  BY <1>2, <1>3
<1> HIDE DEF u, k
<1>5. u # <<>> /\ u[1] = 0
  BY <1>1, <1>2, <1>4
<1>6. ASSUME NEW i \in 1 .. k + 1, NEW l \in 1 .. k + 1, u[i] = u[l]
      PROVE  i = l
  <2>1. CASE i \in 1 .. k /\ l \in 1 .. k
    BY <1>2, <1>4, <1>6, <2>1
  <2>2. CASE i = k + 1 /\ l \in 1 .. k
    BY <1>3, <1>4, <1>6, <2>2
  <2>3. CASE i \in 1 .. k /\ l = k + 1
    BY <1>3, <1>4, <1>6, <2>3
  <2> QED BY <1>1, <2>1, <2>2, <2>3
<1>7. ASSUME NEW i \in 1 .. (k + 1) - 1
      PROVE  {u[i], u[i + 1]} \in xi
  <2>1. CASE i = k
    <3>1. u[k] = w[k] /\ u[k + 1] = j
      BY <1>1, <1>4
    <3> QED BY <1>3, <2>1, <3>1
  <2>2. CASE i # k
    <3>1. i \in 1 .. k - 1 /\ i \in 1 .. k /\ i + 1 \in 1 .. k
      BY <1>1, <2>2
    <3> QED BY <1>2, <1>4, <3>1
  <2> QED BY <2>1, <2>2
<1> QED BY <1>4, <1>5, <1>6, <1>7 DEF PathIn, u, k

\* A step of the walk, and the walk itself, as ExtractTourOrder makes them.
WalkOn(xi, w) == IF FreshFrom(xi, w) = {} THEN w ELSE Append(w, Min(FreshFrom(xi, w)))

Walk(xi) ==
  CHOOSE walk : walk = [k \in 1 .. n |-> IF k = 1 THEN <<0>> ELSE WalkOn(xi, walk[k - 1])]

\* The order that is extracted is where the walk is after n positions.
LEMMA ExtractedByWalk ==
  ASSUME NEW xi, xi # {}
  PROVE  ExtractTourOrder(xi) = Walk(xi)[n]
BY DEF ExtractTourOrder, Walk, WalkOn, FreshFrom

\* The walk exists: each position follows from the one before.
LEMMA WalkSteps ==
  ASSUME inst \in DOMAIN Instances, NEW xi
  PROVE  /\ Walk(xi)[1] = <<0>>
         /\ \A k \in 2 .. n : Walk(xi)[k] = WalkOn(xi, Walk(xi)[k - 1])
<1> DEFINE S == Seq(V)
           F == [i \in 1 .. n - 1 |-> [w \in S |-> WalkOn(xi, w)]]
           Unfold(walk) == [k \in 1 .. n |-> IF k = 1 THEN <<0>> ELSE WalkOn(xi, walk[k - 1])]
<1>1. n \in Nat \ {0} /\ n - 1 \in Nat /\ 0 \in V
  BY InstanceFacts
<1>2. ASSUME NEW w \in S PROVE WalkOn(xi, w) \in S
  <2>1. CASE FreshFrom(xi, w) = {}
    BY <2>1 DEF WalkOn
  <2>2. CASE FreshFrom(xi, w) # {}
    <3>1. FreshFrom(xi, w) \in SUBSET V /\ V \subseteq Nat
      BY DEF FreshFrom, V
    <3>2. Min(FreshFrom(xi, w)) \in V
      BY <2>2, <3>1, MinIsLeast
    <3> QED BY <2>2, <3>2 DEF WalkOn
  <2> QED BY <2>1, <2>2
<1>3. F \in [1 .. n - 1 -> [S -> S]]
  BY <1>2
<1>4. <<0>> \in S
  BY <1>1
<1>5. PICK g \in [0 .. n - 1 -> S] : Iterates(g, n - 1, <<0>>, F)
  <2> DEFINE m == n - 1
             b == <<0>>
  <2>1. m \in Nat /\ b \in S /\ F \in [1 .. m -> [S -> S]]
    BY <1>1, <1>3, <1>4
  <2> HIDE DEF F, S, m, b
  <2>2. \E g \in [0 .. m -> S] : Iterates(g, m, b, F)
    BY <2>1, RecursionExists
  <2> QED BY <2>2 DEF m, b
<1> DEFINE walk == [k \in 1 .. n |-> g[k - 1]]
<1>6. walk = Unfold(walk)
  <2>1. ASSUME NEW k \in 1 .. n
        PROVE  walk[k] = IF k = 1 THEN <<0>> ELSE WalkOn(xi, walk[k - 1])
    <3>1. CASE k = 1
      BY <1>5, <3>1 DEF Iterates
    <3>2. CASE k # 1
      <4>1. k - 1 \in 1 .. n - 1 /\ k - 1 \in 1 .. n /\ (k - 1) - 1 \in 0 .. n - 1
        BY <1>1, <3>2
      <4>2. g[k - 1] = F[k - 1][g[(k - 1) - 1]]
        <5> HIDE DEF F
        <5> QED BY <1>5, <4>1 DEF Iterates
      <4>3. g[(k - 1) - 1] \in S
        BY <4>1
      <4>4. g[k - 1] = WalkOn(xi, g[(k - 1) - 1])
        BY <4>1, <4>2, <4>3
      <4>5. walk[k - 1] = g[(k - 1) - 1] /\ walk[k] = g[k - 1]
        BY <4>1
      <4> QED BY <3>2, <4>4, <4>5
    <3> QED BY <3>1, <3>2
  <2> QED BY <2>1
<1>7. \E f : f = Unfold(f)
  <2> HIDE DEF walk, Unfold
  <2> QED BY <1>6
<1>8. Walk(xi) = Unfold(Walk(xi))
  BY <1>7 DEF Walk
<1> HIDE DEF F
<1>9. 1 \in 1 .. n /\ \A k \in 2 .. n : k \in 1 .. n /\ k # 1
  BY <1>1
<1> QED BY <1>8, <1>9

\* The order that is extracted from one connected tour goes once along it.
LEMMA ExtractedOrder ==
  ASSUME inst \in DOMAIN Instances, NEW xi, DegreeTwo(xi, V), Components(xi) = {V}
  PROVE  LET order == ExtractTourOrder(xi)
         IN  /\ PathIn(xi, order) /\ Len(order) = n /\ ToSet(order) = V
             /\ TourEdges(order) = xi
<1> DEFINE w == Walk(xi)
           P == {m \in 0 .. n - 1 : PathIn(xi, w[m + 1]) /\ Len(w[m + 1]) = m + 1}
<1>1. n \in Nat \ {0} /\ n - 1 \in Nat /\ 0 \in V /\ V \subseteq Nat
  BY InstanceFacts
<1>2. VerticesFinite
  BY VerticesFiniteLemma
<1>3. w[1] = <<0>> /\ \A k \in 2 .. n : w[k] = WalkOn(xi, w[k - 1])
  BY WalkSteps
<1> HIDE DEF w
<1>4. 0 \in P
  <2>1. PathIn(xi, <<0>>) /\ Len(<<0>>) = 1
    BY <1>1 DEF PathIn
  <2>2. w[0 + 1] = <<0>> /\ 0 \in 0 .. n - 1
    BY <1>1, <1>3
  <2> QED BY <2>1, <2>2
<1>5. ASSUME NEW i \in 1 .. n - 1, i - 1 \in P PROVE i \in P
  <2> DEFINE u == w[i]
             fresh == FreshFrom(xi, u)
  <2>1. PathIn(xi, u) /\ Len(u) = i
    <3>1. (i - 1) + 1 = i
      OBVIOUS
    <3> QED BY <1>5, <3>1
  <2>2. i < n /\ i \in 0 .. n - 1 /\ i + 1 \in 2 .. n /\ (i + 1) - 1 = i
    BY <1>1
  <2>3. fresh # {}
    <3> HIDE DEF u
    <3> QED BY <2>1, <2>2, DeadEndIsTour
  <2>4. w[i + 1] = WalkOn(xi, u)
    BY <1>3, <2>2
  <2>5. w[i + 1] = Append(u, Min(fresh))
    BY <2>3, <2>4 DEF WalkOn
  <2>6. Min(fresh) \in fresh
    <3>1. fresh \in SUBSET Nat
      BY <1>1 DEF FreshFrom
    <3> HIDE DEF fresh
    <3> QED BY <2>3, <3>1, MinIsLeast
  <2> HIDE DEF u
  <2>7. PathIn(xi, w[i + 1]) /\ Len(w[i + 1]) = i + 1
    BY <2>1, <2>5, <2>6, PathExtends
  <2> QED BY <2>2, <2>7
<1> HIDE DEF P
<1>6. n - 1 \in P
  <2> DEFINE m == n - 1
  <2>1. m \in Nat /\ 0 \in P /\ \A i \in 1 .. m : i - 1 \in P => i \in P
    BY <1>1, <1>4, <1>5
  <2> HIDE DEF m
  <2>2. 0 .. m \subseteq P
    BY <2>1, IntervalInduction
  <2>3. m \in 0 .. m
    BY <2>1
  <2> QED BY <2>2, <2>3 DEF m
<1> DEFINE order == w[n]
<1>7. PathIn(xi, order) /\ Len(order) = n
  <2>1. (n - 1) + 1 = n
    BY <1>1
  <2> QED BY <1>6, <2>1 DEF P
<1>8. xi # {}
  <2>1. \E y, z \in V : {0, y} \in xi /\ {0, z} \in xi
    <3>1. \E y, z \in V :
           /\ y # 0 /\ z # 0 /\ y # z /\ {0, y} \in xi /\ {0, z} \in xi
           /\ \A e \in xi : 0 \in e => e = {0, y} \/ e = {0, z}
      BY <1>1, <1>2, TwoNeighbours
    <3> QED BY <3>1
  <2> QED BY <2>1
<1>9. ExtractTourOrder(xi) = order
  BY <1>8, ExtractedByWalk DEF w
<1> HIDE DEF order
<1>10. ToSet(order) = V
  BY <1>7, WalkLength
<1>11. FreshFrom(xi, order) = {}
  BY <1>10 DEF FreshFrom
<1>12. TourEdges(order) = xi
  BY <1>7, <1>11, DeadEndIsTour
<1> QED BY <1>7, <1>9, <1>10, <1>12

----------------------------------------------------------------------------
(* The solution that solve returns *)

\* What depends on the instance alone stays.
LEMMA InstanceStays ==
  ASSUME UNCHANGED inst
  PROVE  /\ V' = V /\ n' = n /\ Positions' = Positions
         /\ \A i : PiecesOf(i)' = PiecesOf(i)
<1>1. V' = V /\ n' = n /\ Positions' = Positions
  BY DEF V, n, Positions
<1>3. ASSUME NEW i PROVE PiecesOf(i)' = PiecesOf(i)
  <2>1. Site(i)' = Site(i)
    BY DEF Site
  <2> QED BY <2>1 DEF PiecesOf
<1> QED BY <1>1, <1>3

\* The invariant of the returned tour holds at first.
LEMMA SolutionInit == Init => SolutionInv
BY CallbackInit DEF Init, SolverInit, SolutionInv, IncumbentAdmitted, PiecesKnown, IncumbentReturned

\* The incumbent and the pieces stay, and what was returned as well.
LEMMA IncumbentStays ==
  ASSUME IncumbentAdmitted, UNCHANGED <<inst, incumbent, pieces>>
  PROVE  IncumbentAdmitted'
<1>1. V' = V /\ Positions' = Positions
  BY InstanceStays
<1> QED BY <1>1 DEF IncumbentAdmitted, ContainingPieces

\* The pieces are computed once and kept.
LEMMA PiecesStay ==
  ASSUME PiecesKnown, UNCHANGED <<inst, incumbent, pieces>>, spc # "new", spc' # "new",
         spc' \in {"constructed", "optimizing", "returned"} =>
           spc \in {"constructed", "optimizing", "returned"},
         bigM' # None \/ spc' \in {"optimizing", "returned"} =>
           \A i \in V : ~ Degenerate(pieces[i])
  PROVE  PiecesKnown'
<1>1. V' = V /\ \A i : PiecesOf(i)' = PiecesOf(i)
  BY InstanceStays
<1>2. [i \in V |-> PiecesOf(i)]' = [i \in V |-> PiecesOf(i)]
  BY <1>1
<1> QED BY <1>1, <1>2 DEF PiecesKnown

\* A model that is built has pieces that are not degenerate.
LEMMA BuiltFromPieces ==
  ASSUME PiecesKnown, ~ BuildFails
  PROVE  \A i \in V : ~ Degenerate(pieces[i])
BY DEF PiecesKnown, BuildFails

\* Gurobi's proposal becomes the incumbent or is cut off.
LEMMA SolutionProposed ==
  ASSUME SolutionInv, UNCHANGED inst, NEW xi, NEW q \in Positions, NEW z \in PieceChoices,
         MipSol(xi, q, z)
  PROVE  SolutionInv'
<1>1. CallbackInv'
  BY MipSolKeeps DEF SolutionInv
<1>2. V' = V /\ Positions' = Positions
  BY InstanceStays
<1>3. spc = "optimizing" /\ UNCHANGED <<spc, pieces, bigM>>
  BY DEF MipSol
<1>4. DegreeTwo(xi, V) /\ \A i \in V : z[i] \in ContainingPieces(i, q[i])
  BY DEF MipSol, Admitted, InNeighborhood, ContainingPieces
<1>5. z \in [V -> Int]
  <2> DEFINE m == Max({1} \cup {Len(pieces[i]) : i \in V})
  <2>1. z \in [V -> 1 .. m]
    BY DEF PieceChoices
  <2> HIDE DEF m
  <2> QED BY <2>1
<1>6. IncumbentAdmitted'
  <2>1. CASE incumbent' = incumbent
    BY <1>3, <2>1, IncumbentStays DEF SolutionInv
  <2>2. CASE incumbent' = [xi |-> xi, q |-> q, z |-> z]
    <3>1. \A i \in V : ContainingPieces(i, q[i])' = ContainingPieces(i, q[i])
      BY <1>3 DEF ContainingPieces
    <3>2. incumbent'.xi = xi /\ incumbent'.q = q /\ incumbent'.z = z
      BY <2>2
    <3>3. \A i \in V : incumbent'.z[i] \in ContainingPieces(i, incumbent.q[i])'
      BY <1>3, <1>4, <3>2 DEF ContainingPieces
    <3> QED BY <1>2, <1>4, <1>5, <3>2, <3>3 DEF IncumbentAdmitted
  <2> QED BY <2>1, <2>2 DEF MipSol
<1>7. PiecesKnown'
  <2>1. \A i : PiecesOf(i)' = PiecesOf(i)
    BY InstanceStays
  <2>2. [i \in V |-> PiecesOf(i)]' = [i \in V |-> PiecesOf(i)]
    BY <1>2, <2>1
  <2> QED BY <1>2, <1>3, <2>2 DEF SolutionInv, PiecesKnown
<1>8. IncumbentReturned'
  BY <1>3 DEF IncumbentReturned
<1> QED BY <1>1, <1>6, <1>7, <1>8 DEF SolutionInv

\* What solve makes of the incumbent.
LEMMA SolutionMade ==
  ASSUME SolutionInv, incumbent # None, NEW status, result' = Solution(status)
  PROVE  /\ PathIn(incumbent.xi, result'.order) /\ Len(result'.order) = n
         /\ ToSet(result'.order) = V /\ TourEdges(result'.order) = incumbent.xi
         /\ result'.coords = Append([k \in 1 .. n |-> incumbent.q[result'.order[k]]],
                                    incumbent.q[result'.order[1]])
         /\ solver = "mip_nonconvex" => result'.selected = [i \in V |-> incumbent.z[i] - 1]
<1> DEFINE order == ExtractTourOrder(incumbent.xi)
           points == [k \in DOMAIN order |-> incumbent.q[order[k]]]
<1>1. inst \in DOMAIN Instances /\ DegreeTwo(incumbent.xi, V) /\ Components(incumbent.xi) = {V}
  BY DEF SolutionInv, CallbackInv, IncumbentConnected, IncumbentAdmitted
<1>2. /\ PathIn(incumbent.xi, order) /\ Len(order) = n /\ ToSet(order) = V
      /\ TourEdges(order) = incumbent.xi
  BY <1>1, ExtractedOrder
<1>3. /\ result'.order = order /\ result'.coords = Append(points, Head(points))
      /\ result'.selected = SelectedPieces(incumbent.z)
  BY DEF Solution
<1>4. n \in Nat \ {0} /\ DOMAIN order = 1 .. n
  <2>1. order \in Seq(V) /\ Len(order) \in Nat \ {0}
    BY <1>2, PathFacts DEF PathIn
  <2> HIDE DEF order
  <2> QED BY <1>2, <2>1
<1> HIDE DEF order
<1>5. points = [k \in 1 .. n |-> incumbent.q[order[k]]]
  BY <1>4
<1>6. Head(points) = incumbent.q[order[1]]
  BY <1>4, <1>5
<1> HIDE DEF points
<1>7. solver = "mip_nonconvex" => SelectedPieces(incumbent.z) = [i \in V |-> incumbent.z[i] - 1]
  BY DEF SelectedPieces
<1> QED BY <1>2, <1>3, <1>5, <1>6, <1>7

\* Gurobi stops.
LEMMA SolutionStopped ==
  ASSUME SolutionInv, UNCHANGED inst, NEW status, Stop(status)
  PROVE  SolutionInv'
<1>1. /\ spc = "optimizing" /\ spc' \in {"returned", "raised"}
      /\ UNCHANGED <<solver, pieces, bigM, cuts, numCuts, incumbent>>
  BY DEF Stop, Raise
<1>2. CallbackInv'
  BY <1>1, OthersKeep DEF SolutionInv
<1>3. IncumbentAdmitted'
  BY <1>1, IncumbentStays DEF SolutionInv
<1>4. PiecesKnown'
  <2>1. \A i \in V : ~ Degenerate(pieces[i])
    BY <1>1 DEF SolutionInv, PiecesKnown
  <2> QED BY <1>1, <2>1, PiecesStay DEF SolutionInv
<1>5. IncumbentReturned'
  <2>1. CASE spc' = "returned"
    <3>1. incumbent # None /\ result' = Solution(status)
      BY <2>1 DEF Stop, Raise
    <3>2. V' = V /\ n' = n
      BY InstanceStays
    <3>3. PathIn(incumbent.xi, result.order)' <=> PathIn(incumbent.xi, result'.order)
      BY <1>1, <3>2 DEF PathIn
    <3> QED BY <1>1, <3>1, <3>2, <3>3, SolutionMade DEF IncumbentReturned
  <2>2. CASE spc' # "returned"
    BY <2>2 DEF IncumbentReturned
  <2> QED BY <2>1, <2>2
<1> QED BY <1>2, <1>3, <1>4, <1>5 DEF SolutionInv

\* Steps before Gurobi has anything: there is no incumbent to disturb.
LEMMA SolutionPrepared ==
  ASSUME SolutionInv, UNCHANGED <<inst, cuts, numCuts, incumbent>>, spc' # "returned",
         IncumbentAdmitted', PiecesKnown'
  PROVE  SolutionInv'
<1>1. CallbackInv'
  BY OthersKeep DEF SolutionInv
<1> QED BY <1>1 DEF SolutionInv, IncumbentReturned

\* Construction computes the pieces and builds no model yet.
LEMMA SolverConstructed ==
  ASSUME SolutionInv, UNCHANGED inst, NEW class, Construct(class)
  PROVE  SolutionInv'
<1>1. /\ spc = "new" /\ spc' \in {"constructed", "raised"}
      /\ pieces' = [i \in V |-> PiecesOf(i)]
      /\ UNCHANGED <<bigM, cuts, numCuts, incumbent>>
  BY DEF Construct, Raise
<1>2. bigM' = None /\ incumbent' = None /\ None' = None
  BY <1>1 DEF SolutionInv, PiecesKnown, None
<1>3. V' = V /\ [i \in V |-> PiecesOf(i)]' = [i \in V |-> PiecesOf(i)]
  <2>1. V' = V /\ \A i : PiecesOf(i)' = PiecesOf(i)
    BY InstanceStays
  <2> QED BY <2>1
<1>4. IncumbentAdmitted'
  BY <1>2 DEF IncumbentAdmitted
<1>5. PiecesKnown'
  BY <1>1, <1>2, <1>3 DEF PiecesKnown
<1> QED BY <1>1, <1>4, <1>5, SolutionPrepared

\* The model is built for the start or for Gurobi, or building it fails.
LEMMA ModelBuilt ==
  ASSUME SolutionInv, UNCHANGED <<inst, pieces, cuts, numCuts, incumbent>>,
         spc = "constructed",
         \/ BuildFails /\ spc' = "raised" /\ bigM' = bigM
         \/ ~ BuildFails /\ spc' \in {"constructed", "optimizing"}
  PROVE  SolutionInv'
<1>1. IncumbentAdmitted'
  BY IncumbentStays DEF SolutionInv
<1>2. PiecesKnown'
  <2>1. CASE ~ BuildFails
    <3>1. \A i \in V : ~ Degenerate(pieces[i])
      BY <2>1, BuiltFromPieces DEF SolutionInv
    <3> QED BY <2>1, <3>1, PiecesStay DEF SolutionInv
  <2>2. CASE BuildFails
    <3>1. bigM' = None /\ spc' = "raised"
      BY <2>2 DEF BuildFails
    <3> QED BY <3>1, PiecesStay DEF SolutionInv, None
  <2> QED BY <2>1, <2>2
<1> QED BY <1>1, <1>2, SolutionPrepared

\* No step breaks the invariant of the returned tour.
LEMMA SolutionStep == SolutionInv /\ [Next]_vars => SolutionInv'
<1> SUFFICES ASSUME SolutionInv, [Next]_vars PROVE SolutionInv'
  OBVIOUS
<1>1. ASSUME UNCHANGED <<inst, solverVars>> PROVE SolutionInv'
  <2>1. UNCHANGED <<inst, spc, solver, pieces, bigM, cuts, numCuts, incumbent, result>>
    BY <1>1 DEF solverVars
  <2>2. CallbackInv' /\ IncumbentAdmitted'
    BY <2>1, OthersKeep, IncumbentStays DEF SolutionInv
  <2>3. V' = V /\ n' = n /\ \A i : PiecesOf(i)' = PiecesOf(i)
    BY <2>1, InstanceStays
  <2>4. PiecesKnown'
    <3>1. [i \in V |-> PiecesOf(i)]' = [i \in V |-> PiecesOf(i)]
      BY <2>3
    <3> QED BY <2>1, <2>3, <3>1 DEF SolutionInv, PiecesKnown
  <2>5. IncumbentReturned'
    <3>1. PathIn(incumbent.xi, result.order)' <=> PathIn(incumbent.xi, result.order)
      BY <2>1, <2>3 DEF PathIn
    <3> QED BY <2>1, <2>3, <3>1 DEF SolutionInv, IncumbentReturned
  <2> QED BY <2>2, <2>4, <2>5 DEF SolutionInv
<1>2. CASE GenerateWarmStart
  BY <1>1, <1>2 DEF GenerateWarmStart
<1>3. CASE ConstructSolver
  BY <1>3, SolverConstructed DEF ConstructSolver
<1>4. CASE InitialSolution
  <2>1. ASSUME NEW solution, SetWarmStart(solution)
        PROVE  /\ UNCHANGED <<pieces, cuts, numCuts, incumbent>> /\ spc = "constructed"
               /\ \/ BuildFails /\ spc' = "raised" /\ bigM' = bigM
                  \/ ~ BuildFails /\ spc' \in {"constructed", "optimizing"}
    BY <2>1 DEF SetWarmStart, Raise
  <2>2. /\ UNCHANGED <<inst, pieces, cuts, numCuts, incumbent>> /\ spc = "constructed"
        /\ \/ BuildFails /\ spc' = "raised" /\ bigM' = bigM
           \/ ~ BuildFails /\ spc' \in {"constructed", "optimizing"}
    BY <1>4, <2>1 DEF InitialSolution
  <2> QED BY <2>2, ModelBuilt
<1>5. CASE StartSolve
  <2>1. /\ UNCHANGED <<inst, pieces, cuts, numCuts, incumbent>> /\ spc = "constructed"
        /\ \/ BuildFails /\ spc' = "raised" /\ bigM' = bigM
           \/ ~ BuildFails /\ spc' \in {"constructed", "optimizing"}
    BY <1>5 DEF StartSolve, Optimize, Raise
  <2> QED BY <2>1, ModelBuilt
<1>6. CASE Solve
  <2>1. CASE \E xi \in EdgeSets, q \in Positions, z \in PieceChoices : MipSol(xi, q, z)
    BY <1>6, <2>1, SolutionProposed DEF Solve
  <2>2. CASE \E status \in Statuses : Stop(status)
    BY <1>6, <2>2, SolutionStopped DEF Solve
  <2> QED BY <1>6, <2>1, <2>2 DEF Solve
<1>7. CASE UNCHANGED vars
  BY <1>1, <1>7 DEF vars
<1> QED BY <1>2, <1>3, <1>4, <1>5, <1>6, <1>7 DEF Next

----------------------------------------------------------------------------
(* Rings and their corners *)

\* Dropping the closing vertex leaves the same vertices.
LEMMA ExtractedVertices ==
  ASSUME NEW S, NEW vs \in Seq(S)
  PROVE  LET ws == ExtractVertices(vs)
             closed == Len(vs) > 1 /\ Head(vs) = Last(vs)
         IN  /\ ws \in Seq(S) /\ ToSet(ws) = ToSet(vs)
             /\ Len(ws) = IF closed THEN Len(vs) - 1 ELSE Len(vs)
             /\ \A k \in 1 .. Len(ws) : k \in 1 .. Len(vs) /\ ws[k] = vs[k]
<1> DEFINE N == Len(vs)
           closed == N > 1 /\ Head(vs) = Last(vs)
           ws == ExtractVertices(vs)
<1>1. N \in Nat /\ DOMAIN vs = 1 .. N
  OBVIOUS
<1>2. CASE closed
  <2> DEFINE us == SubSeq(vs, 1, N - 1)
  <2>1. ws = us
    BY <1>2 DEF ExtractVertices, Front
  <2>2. us \in Seq(S) /\ Len(us) = N - 1 /\ \A k \in 1 .. N - 1 : us[k] = vs[k]
    BY <1>1, <1>2
  <2>3. N > 1 /\ vs[1] = vs[N]
    BY <1>1, <1>2 DEF Last
  <2> HIDE DEF us, N, ws
  <2>4. DOMAIN us = 1 .. N - 1
    BY <2>2
  <2>5. ASSUME NEW k \in 1 .. N PROVE \E j \in 1 .. N - 1 : us[j] = vs[k]
    <3>1. CASE k = N
      <4>1. 1 \in 1 .. N - 1
        BY <1>1, <2>3
      <4>2. us[1] = vs[k]
        BY <2>2, <2>3, <3>1, <4>1
      <4> QED BY <4>1, <4>2
    <3>2. CASE k # N
      <4>1. k \in 1 .. N - 1
        BY <1>1, <3>2
      <4> QED BY <2>2, <4>1
    <3> QED BY <3>1, <3>2
  <2>6. \A j \in 1 .. N - 1 : j \in 1 .. N
    BY <1>1
  <2>7. ToSet(us) = {us[j] : j \in 1 .. N - 1} /\ ToSet(vs) = {vs[k] : k \in 1 .. N}
    BY <1>1, <2>4 DEF ToSet
  <2>8. ToSet(us) = ToSet(vs)
    BY <2>2, <2>5, <2>6, <2>7
  <2> QED BY <1>2, <2>1, <2>2, <2>6, <2>8 DEF ws, N
<1>3. CASE ~ closed
  <2>1. ws = vs
    BY <1>3 DEF ExtractVertices
  <2>2. ToSet(ws) = ToSet(vs) /\ ws \in Seq(S) /\ Len(ws) = N /\ \A k \in 1 .. N : ws[k] = vs[k]
    BY <2>1
  <2> HIDE DEF ws, N
  <2> QED BY <1>3, <2>2 DEF N, ws
<1> QED BY <1>2, <1>3

\* What the loop over the vertices has kept, as RemoveDuplicateVertices makes it.
KeepVertex(vs, k, kept) == IF k > 1 /\ vs[k] = Last(kept) THEN kept ELSE Append(kept, vs[k])

KeptVertices(vs) ==
  CHOOSE kept : kept = [k \in 0 .. Len(vs) |-> IF k = 0 THEN <<>> ELSE KeepVertex(vs, k, kept[k - 1])]

\* What is left without duplicates is what the loop has kept at its end.
LEMMA DuplicatesByLoop ==
  \A vs : RemoveDuplicateVertices(vs) = ExtractVertices(KeptVertices(vs)[Len(vs)])
<1>1. ASSUME NEW vs PROVE RemoveDuplicateVertices(vs) = ExtractVertices(KeptVertices(vs)[Len(vs)])
  BY DEF RemoveDuplicateVertices, KeptVertices, KeepVertex
<1> QED BY <1>1

\* The loop exists: what it keeps follows from what it kept one vertex before.
LEMMA KeptVerticesSteps ==
  ASSUME NEW S, NEW vs \in Seq(S)
  PROVE  /\ KeptVertices(vs) \in [0 .. Len(vs) -> Seq(S)] /\ KeptVertices(vs)[0] = <<>>
         /\ \A k \in 1 .. Len(vs) : KeptVertices(vs)[k] = KeepVertex(vs, k, KeptVertices(vs)[k - 1])
<1> DEFINE N == Len(vs)
           T == Seq(S)
           F == [k \in 1 .. N |-> [kept \in T |-> KeepVertex(vs, k, kept)]]
           Rule(g) == g = [k \in 0 .. N |-> IF k = 0 THEN <<>> ELSE KeepVertex(vs, k, g[k - 1])]
<1>1. N \in Nat /\ <<>> \in T
  OBVIOUS
<1>2. ASSUME NEW k \in 1 .. N, NEW kept \in T PROVE KeepVertex(vs, k, kept) \in T
  <2>1. vs[k] \in S
    OBVIOUS
  <2> QED BY <2>1 DEF KeepVertex
<1>3. F \in [1 .. N -> [T -> T]]
  BY <1>2
<1>4. PICK g \in [0 .. N -> T] : Iterates(g, N, <<>>, F)
  <2> HIDE DEF N, F, T
  <2> QED BY <1>1, <1>3, RecursionExists
<1>5. \A k \in 1 .. N : g[k] = KeepVertex(vs, k, g[k - 1])
  <2> TAKE k \in 1 .. N
  <2>1. g[k - 1] \in T
    BY <1>1
  <2>2. F[k][g[k - 1]] = KeepVertex(vs, k, g[k - 1])
    BY <2>1
  <2> HIDE DEF F
  <2> QED BY <1>4, <2>2 DEF Iterates
<1>6. Rule(g)
  <2>1. g[0] = <<>>
    BY <1>4 DEF Iterates
  <2>2. \A k \in 0 .. N : g[k] = IF k = 0 THEN <<>> ELSE KeepVertex(vs, k, g[k - 1])
    BY <1>1, <1>5, <2>1
  <2> HIDE DEF T
  <2> QED BY <2>2
<1>7. Rule(KeptVertices(vs))
  <2>1. \E f : Rule(f)
    <3> HIDE DEF Rule
    <3> QED BY <1>6
  <2> QED BY <2>1 DEF KeptVertices
<1> DEFINE kept == KeptVertices(vs)
<1> HIDE DEF kept
<1>8. \A k \in 0 .. N : kept[k] = IF k = 0 THEN <<>> ELSE KeepVertex(vs, k, kept[k - 1])
  BY <1>7 DEF kept
<1>9. kept[0] = <<>> /\ \A k \in 1 .. N : kept[k] = KeepVertex(vs, k, kept[k - 1])
  BY <1>1, <1>8
<1> DEFINE P == {k \in 0 .. N : kept[k] \in T}
<1>10. 0 .. N \subseteq P
  <2>1. kept[0] \in T
    BY <1>1, <1>9
  <2>4. 0 \in P
    BY <1>1, <2>1
  <2>2. ASSUME NEW i \in 1 .. N, i - 1 \in P PROVE i \in P
    <3>1. kept[i] \in T
      BY <1>2, <1>9, <2>2
    <3> QED BY <1>1, <3>1
  <2> HIDE DEF P, N
  <2> QED BY <1>1, <2>4, <2>2, IntervalInduction
<1>11. kept \in [0 .. N -> T]
  <2>1. DOMAIN kept = 0 .. N /\ kept = [k \in 0 .. N |-> kept[k]]
    BY <1>7 DEF kept
  <2> QED BY <1>10, <2>1
<1> QED BY <1>9, <1>11 DEF kept

\* The corners of a sequence of vertices are those vertices, and no corner is
\* followed by itself.
LEMMA CornersDistinct ==
  ASSUME NEW S, NEW ws \in Seq(S)
  PROVE  LET vs == RemoveDuplicateVertices(ws)
         IN  /\ vs \in Seq(S) /\ ToSet(vs) = ToSet(ws)
             /\ Len(vs) >= 2 => \A k \in DOMAIN vs : vs[k] # vs[After(k, Len(vs))]
<1> DEFINE N == Len(ws)
           kept == KeptVertices(ws)
           Good(k) == /\ \A x : x \in ToSet(kept[k]) <=> \E j \in 1 .. k : x = ws[j]
                      /\ k >= 1 => kept[k] # <<>> /\ Last(kept[k]) = ws[k]
                      /\ \A j \in 1 .. Len(kept[k]) - 1 : kept[k][j] # kept[k][j + 1]
           P == {k \in 0 .. N : Good(k)}
<1>1. N \in Nat /\ DOMAIN ws = 1 .. N
  OBVIOUS
<1>2. /\ kept \in [0 .. N -> Seq(S)] /\ kept[0] = <<>>
      /\ \A k \in 1 .. N : kept[k] = KeepVertex(ws, k, kept[k - 1])
  BY KeptVerticesSteps
<1> HIDE DEF kept, N
<1>3. 0 \in P
  BY <1>1, <1>2 DEF ToSet
<1>4. ASSUME NEW i \in 1 .. N, i - 1 \in P PROVE i \in P
  <2> DEFINE u == kept[i - 1]
             x == ws[i]
  <2>0. /\ \A y : y \in ToSet(u) <=> \E j \in 1 .. i - 1 : y = ws[j]
        /\ i - 1 >= 1 => u # <<>> /\ Last(u) = ws[i - 1]
        /\ \A j \in 1 .. Len(u) - 1 : u[j] # u[j + 1]
    BY <1>4
  <2>1. u \in Seq(S) /\ Len(u) \in Nat /\ DOMAIN u = 1 .. Len(u) /\ kept[i] = KeepVertex(ws, i, u)
        /\ i \in 0 .. N /\ x \in S
    <3>1. i - 1 \in 0 .. N /\ i \in 0 .. N
      BY <1>1
    <3>2. x \in S
      BY <1>1 DEF N
    <3>3. u \in Seq(S)
      BY <1>2, <3>1
    <3> QED BY <1>2, <3>1, <3>2, <3>3
  <2>2. \A y : (\E j \in 1 .. i : y = ws[j]) <=> (y = x \/ \E j \in 1 .. i - 1 : y = ws[j])
    <3>1. \A j : j \in 1 .. i <=> j = i \/ j \in 1 .. i - 1
      BY <1>1
    <3> QED BY <3>1
  <2> HIDE DEF u, P
  <2>3. CASE i > 1 /\ x = Last(u)
    <3>1. kept[i] = u
      BY <2>1, <2>3 DEF KeepVertex
    <3>2. i - 1 >= 1
      BY <2>3
    <3>3. x \in ToSet(u)
      <4>1. u # <<>> /\ Len(u) \in 1 .. Len(u)
        BY <2>0, <2>1, <3>2
      <4> QED BY <2>1, <2>3, <4>1 DEF ToSet, Last
    <3>4. Good(i)
      BY <2>0, <2>2, <2>3, <3>1, <3>2, <3>3
    <3> QED BY <2>1, <3>4 DEF P
  <2>4. CASE ~ (i > 1 /\ x = Last(u))
    <3> DEFINE w == Append(u, x)
    <3>1. kept[i] = w
      BY <2>1, <2>4 DEF KeepVertex
    <3>2. /\ w \in Seq(S) /\ Len(w) = Len(u) + 1 /\ w[Len(u) + 1] = x
          /\ \A j \in 1 .. Len(u) : w[j] = u[j]
      BY <2>1
    <3> HIDE DEF w
    <3>3. DOMAIN w = 1 .. Len(u) + 1 /\ w # <<>> /\ Last(w) = x
      BY <2>1, <3>2 DEF Last
    <3>4. \A y : y \in ToSet(w) <=> y = x \/ y \in ToSet(u)
      <4>1. \A j : j \in 1 .. Len(u) + 1 <=> j = Len(u) + 1 \/ j \in 1 .. Len(u)
        BY <2>1
      <4> QED BY <2>1, <3>2, <3>3, <4>1 DEF ToSet
    <3>5. ASSUME NEW j \in 1 .. Len(w) - 1 PROVE w[j] # w[j + 1]
      <4>0. j \in 1 .. Len(u)
        BY <2>1, <3>2
      <4>1. CASE j = Len(u)
        <5>1. i > 1
          <6>1. CASE i = 1
            <7>1. \A y : y \notin ToSet(u)
              BY <2>0, <6>1
            <7>2. u[j] \in ToSet(u)
              BY <2>1, <3>2, <4>1 DEF ToSet
            <7> QED BY <7>1, <7>2
          <6> QED BY <1>1, <6>1
        <5>2. x # u[Len(u)]
          BY <2>4, <5>1 DEF Last
        <5> QED BY <2>1, <3>2, <4>1, <5>2
      <4>2. CASE j # Len(u)
        <5>0. Len(u) \in Nat
          BY <2>1
        <5>1. j \in 1 .. Len(u) - 1 /\ j \in 1 .. Len(u) /\ j + 1 \in 1 .. Len(u)
          BY <4>0, <4>2, <5>0
        <5> QED BY <2>0, <3>2, <5>1
      <4> QED BY <4>1, <4>2
    <3>6. Good(i)
      BY <2>0, <2>2, <3>1, <3>3, <3>4, <3>5
    <3> QED BY <2>1, <3>6 DEF P
  <2> QED BY <2>3, <2>4
<1>5. N \in P
  <2>1. 0 .. N \subseteq P
    <3> HIDE DEF P
    <3> QED BY <1>1, <1>3, <1>4, IntervalInduction
  <2>2. N \in 0 .. N
    BY <1>1
  <2> QED BY <2>1, <2>2
<1> DEFINE us == kept[N]
           vs == RemoveDuplicateVertices(ws)
<1>6. us \in Seq(S) /\ vs = ExtractVertices(us)
  <2>1. N \in 0 .. N
    BY <1>1
  <2> QED BY <1>2, <2>1, DuplicatesByLoop DEF kept, N
<1>7. ToSet(us) = ToSet(ws) /\ \A j \in 1 .. Len(us) - 1 : us[j] # us[j + 1]
  <2>1. Good(N)
    BY <1>5
  <2>2. \A x : x \in ToSet(ws) <=> \E j \in 1 .. N : x = ws[j]
    BY <1>1 DEF ToSet
  <2> QED BY <2>1, <2>2
<1> HIDE DEF us, vs
<1> DEFINE closed == Len(us) > 1 /\ Head(us) = Last(us)
<1>8. /\ vs \in Seq(S) /\ ToSet(vs) = ToSet(us) /\ Len(vs) \in Nat /\ Len(us) \in Nat
      /\ \A k \in 1 .. Len(vs) : k \in 1 .. Len(us) /\ vs[k] = us[k]
      /\ Len(vs) = IF closed THEN Len(us) - 1 ELSE Len(us)
      /\ DOMAIN vs = 1 .. Len(vs)
  <2>1. /\ vs \in Seq(S) /\ ToSet(vs) = ToSet(us)
        /\ \A k \in 1 .. Len(vs) : k \in 1 .. Len(us) /\ vs[k] = us[k]
        /\ Len(vs) = IF closed THEN Len(us) - 1 ELSE Len(us)
    BY <1>6, ExtractedVertices
  <2> QED BY <1>6, <2>1
<1>10. Len(us) > 1 => (closed <=> us[1] = us[Len(us)])
  BY <1>6, <1>8 DEF Last
<1> HIDE DEF closed
<1>9. ASSUME Len(vs) >= 2, NEW k \in DOMAIN vs PROVE vs[k] # vs[After(k, Len(vs))]
  <2>1. Len(vs) \in Nat \ {0} /\ k \in 1 .. Len(vs)
    BY <1>8, <1>9
  <2>2. After(k, Len(vs)) = IF k = Len(vs) THEN 1 ELSE k + 1
    BY <2>1, NextPosition
  <2>3. CASE k # Len(vs)
    <3>1. k + 1 \in 1 .. Len(vs) /\ k \in 1 .. Len(us) - 1 
      BY <1>8, <2>1, <2>3
    <3> QED BY <1>7, <1>8, <2>1, <2>2, <2>3, <3>1
  <2>4. CASE k = Len(vs)
    <3>1. After(k, Len(vs)) = 1 /\ 1 \in 1 .. Len(vs) /\ vs[1] = us[1]
      BY <1>8, <1>9, <2>2, <2>4
    <3>2. CASE closed
      <4>1. k \in 1 .. Len(us) - 1 /\ k + 1 = Len(us) /\ Len(us) > 1
        BY <1>8, <1>9, <2>1, <2>4, <3>2
      <4>2. us[k] # us[Len(us)]
        BY <1>7, <4>1
      <4> QED BY <1>8, <1>10, <2>1, <3>1, <3>2, <4>1, <4>2
    <3>3. CASE ~ closed
      <4>1. k = Len(us) /\ Len(us) > 1
        BY <1>8, <1>9, <2>4, <3>3
      <4> QED BY <1>8, <1>10, <2>1, <3>1, <3>3, <4>1
    <3> QED BY <3>2, <3>3
  <2> QED BY <2>3, <2>4
<1> QED BY <1>6, <1>7, <1>8, <1>9 DEF vs

----------------------------------------------------------------------------
(* Areas *)

\* Cross products are integers, and squared distances naturals.
LEMMA CrossType ==
  /\ \A a, b, c \in Point : Cross(a, b, c) \in Int
  /\ \A p, r \in Point : Shoelace(p, r) \in Int /\ Dist2(p, r) \in Nat
<1>1. \A p \in Point : p[1] \in Int /\ p[2] \in Int
  BY DEF Point
<1>2. ASSUME NEW a \in Point, NEW b \in Point, NEW c \in Point PROVE Cross(a, b, c) \in Int
  <2>1. b[1] - a[1] \in Int /\ c[2] - a[2] \in Int /\ b[2] - a[2] \in Int /\ c[1] - a[1] \in Int
    BY <1>1
  <2> QED BY <2>1 DEF Cross
<1>3. ASSUME NEW p \in Point, NEW r \in Point PROVE Shoelace(p, r) \in Int /\ Dist2(p, r) \in Nat
  <2>1. p[1] - r[1] \in Int /\ p[2] - r[2] \in Int /\ r[1] - p[1] \in Int /\ r[2] + p[2] \in Int
    BY <1>1
  <2>2. ASSUME NEW x \in Int PROVE x * x \in Nat
    BY <2>2
  <2>3. (p[1] - r[1]) * (p[1] - r[1]) \in Nat /\ (p[2] - r[2]) * (p[2] - r[2]) \in Nat
    BY <2>1, <2>2
  <2>4. Dist2(p, r) \in Nat
    BY <2>3 DEF Dist2
  <2> QED BY <2>1, <2>4 DEF Shoelace
<1> QED BY <1>2, <1>3

\* The area of a triangle, split at a point; and what a triangle adds to the
\* shoelace formula.
LEMMA TriangleSplit ==
  ASSUME NEW a \in Point, NEW b \in Point, NEW c \in Point, NEW p \in Point
  PROVE  /\ Cross(a, b, c) = Cross(a, b, p) + Cross(b, c, p) + Cross(c, a, p)
         /\ Cross(c, a, p) = - Cross(a, c, p)
         /\ Shoelace(a, b) + Shoelace(b, c) + Shoelace(c, a) = - Cross(a, b, c)
         /\ Shoelace(a, b) + Shoelace(b, a) = 0
         /\ Cross(a, b, c) = Cross(b, c, a)
<1>1. PICK a1 \in Int, a2 \in Int : a = <<a1, a2>>
  BY DEF Point
<1>2. PICK b1 \in Int, b2 \in Int : b = <<b1, b2>>
  BY DEF Point
<1>3. PICK c1 \in Int, c2 \in Int : c = <<c1, c2>>
  BY DEF Point
<1>4. PICK p1 \in Int, p2 \in Int : p = <<p1, p2>>
  BY DEF Point
<1>5. a[1] = a1 /\ a[2] = a2 /\ b[1] = b1 /\ b[2] = b2 /\ c[1] = c1 /\ c[2] = c2 /\ p[1] = p1 /\ p[2] = p2
  BY <1>1, <1>2, <1>3, <1>4
<1>6. Cross(a, b, c) = Cross(a, b, p) + Cross(b, c, p) + Cross(c, a, p)
  BY <1>5 DEF Cross
<1>7. Cross(c, a, p) = - Cross(a, c, p)
  BY <1>5 DEF Cross
<1>8. Shoelace(a, b) + Shoelace(b, c) + Shoelace(c, a) = - Cross(a, b, c)
  BY <1>5 DEF Cross, Shoelace
<1>9. Shoelace(a, b) + Shoelace(b, a) = 0 /\ Cross(a, b, c) = Cross(b, c, a)
  BY <1>5 DEF Cross, Shoelace
<1> QED BY <1>6, <1>7, <1>8, <1>9

\* The position of a line through u and w relative to p in a triangle.
LEMMA TriangleBarycentric ==
  ASSUME NEW a \in Point, NEW b \in Point, NEW c \in Point, NEW p \in Point,
         NEW u \in Point, NEW w \in Point
  PROVE  Cross(a, b, c) * Cross(u, w, p) =
           Cross(b, c, p) * Cross(u, w, a) + Cross(c, a, p) * Cross(u, w, b)
             + Cross(a, b, p) * Cross(u, w, c)
<1>1. PICK a1 \in Int, a2 \in Int : a = <<a1, a2>>
  BY DEF Point
<1>2. PICK b1 \in Int, b2 \in Int : b = <<b1, b2>>
  BY DEF Point
<1>3. PICK c1 \in Int, c2 \in Int : c = <<c1, c2>>
  BY DEF Point
<1>4. PICK p1 \in Int, p2 \in Int : p = <<p1, p2>>
  BY DEF Point
<1>5. PICK u1 \in Int, u2 \in Int : u = <<u1, u2>>
  BY DEF Point
<1>6. PICK w1 \in Int, w2 \in Int : w = <<w1, w2>>
  BY DEF Point
<1>7. /\ a[1] = a1 /\ a[2] = a2 /\ b[1] = b1 /\ b[2] = b2 /\ c[1] = c1 /\ c[2] = c2
      /\ p[1] = p1 /\ p[2] = p2 /\ u[1] = u1 /\ u[2] = u2 /\ w[1] = w1 /\ w[2] = w2
  BY <1>1, <1>2, <1>3, <1>4, <1>5, <1>6
<1> QED BY <1>7 DEF Cross

\* The partial sums of the shoelace formula.
PartialShoelace(vs) ==
  CHOOSE sum : sum = [k \in 0 .. Len(vs) |->
                        IF k = 0 THEN 0 ELSE sum[k - 1] + Shoelace(vs[k], vs[After(k, Len(vs))])]

\* The shoelace sum is the last of its partial sums.
LEMMA ShoelaceBySums == \A vs : ShoelaceSum(vs) = PartialShoelace(vs)[Len(vs)]
<1>1. ASSUME NEW vs PROVE ShoelaceSum(vs) = PartialShoelace(vs)[Len(vs)]
  BY DEF ShoelaceSum, PartialShoelace
<1> QED BY <1>1

\* The partial sums exist: each follows from the one before.
LEMMA ShoelaceSteps ==
  ASSUME NEW vs \in Seq(Point)
  PROVE  /\ PartialShoelace(vs) \in [0 .. Len(vs) -> Int] /\ PartialShoelace(vs)[0] = 0
         /\ \A k \in 1 .. Len(vs) :
              PartialShoelace(vs)[k] = PartialShoelace(vs)[k - 1] + Shoelace(vs[k], vs[After(k, Len(vs))])
<1> DEFINE N == Len(vs)
           g(k) == Shoelace(vs[k], vs[After(k, N)])
           F == [k \in 1 .. N |-> [x \in Int |-> x + g(k)]]
           Rule(sum) == sum = [k \in 0 .. N |-> IF k = 0 THEN 0 ELSE sum[k - 1] + g(k)]
<1>1. N \in Nat
  OBVIOUS
<1>2. ASSUME NEW k \in 1 .. N PROVE g(k) \in Int
  <2>1. N \in Nat \ {0} /\ vs[k] \in Point
    BY <1>1
  <2>2. After(k, N) = IF k = N THEN 1 ELSE k + 1
    <3> HIDE DEF N
    <3> QED BY <2>1, NextPosition
  <2>3. After(k, N) \in 1 .. N
    <3> HIDE DEF N
    <3> QED BY <2>1, <2>2
  <2>4. vs[After(k, N)] \in Point
    BY <2>3
  <2> QED BY <2>1, <2>4, CrossType
<1> HIDE DEF g
<1>3. F \in [1 .. N -> [Int -> Int]]
  BY <1>2
<1>4. PICK s \in [0 .. N -> Int] : Iterates(s, N, 0, F)
  <2>1. 0 \in Int
    OBVIOUS
  <2> HIDE DEF N, F
  <2> QED BY <1>1, <1>3, <2>1, RecursionExists
<1>5. \A k \in 1 .. N : s[k] = s[k - 1] + g(k)
  <2> TAKE k \in 1 .. N
  <2>1. s[k - 1] \in Int
    BY <1>1
  <2>2. F[k][s[k - 1]] = s[k - 1] + g(k)
    BY <2>1
  <2> HIDE DEF F
  <2> QED BY <1>4, <2>2 DEF Iterates
<1>6. Rule(s)
  <2>1. s[0] = 0
    BY <1>4 DEF Iterates
  <2>2. \A k \in 0 .. N : s[k] = IF k = 0 THEN 0 ELSE s[k - 1] + g(k)
    BY <1>1, <1>5, <2>1
  <2> HIDE DEF N
  <2> QED BY <2>2
<1>7. Rule(PartialShoelace(vs))
  <2>1. \E f : Rule(f)
    <3> HIDE DEF Rule
    <3> QED BY <1>6
  <2> QED BY <2>1 DEF PartialShoelace, g
<1> DEFINE sum == PartialShoelace(vs)
<1> HIDE DEF sum
<1>8. \A k \in 0 .. N : sum[k] = IF k = 0 THEN 0 ELSE sum[k - 1] + g(k)
  BY <1>7 DEF sum
<1>9. sum[0] = 0 /\ \A k \in 1 .. N : sum[k] = sum[k - 1] + g(k)
  BY <1>1, <1>8
<1> DEFINE P == {k \in 0 .. N : sum[k] \in Int}
<1>10. 0 .. N \subseteq P
  <2>1. 0 \in P
    BY <1>1, <1>9
  <2>2. ASSUME NEW i \in 1 .. N, i - 1 \in P PROVE i \in P
    <3>1. sum[i] \in Int
      BY <1>2, <1>9, <2>2
    <3> QED BY <1>1, <3>1
  <2> HIDE DEF P, N
  <2> QED BY <1>1, <2>1, <2>2, IntervalInduction
<1>11. sum \in [0 .. N -> Int]
  <2>1. sum = [k \in 0 .. N |-> sum[k]]
    BY <1>7 DEF sum
  <2> QED BY <1>10, <2>1
<1> QED BY <1>9, <1>11 DEF sum, g

\* The shoelace formula adds up the triangles of the fan from the first vertex.
LEMMA FanSum ==
  ASSUME NEW vs \in Seq(Point), Len(vs) >= 3
  PROVE  \E d \in [2 .. Len(vs) -> Int] :
           /\ d[2] = 0 /\ d[Len(vs)] = ShoelaceSum(vs)
           /\ \A j \in 3 .. Len(vs) : d[j] = d[j - 1] - Cross(vs[1], vs[j - 1], vs[j])
<1> DEFINE N == Len(vs)
           sum == PartialShoelace(vs)
           d == [j \in 2 .. N |-> sum[j - 1] + Shoelace(vs[j], vs[1])]
<1>1. N \in Nat \ {0} /\ N >= 3 /\ \A j \in 1 .. N : vs[j] \in Point
  OBVIOUS
<1>2. /\ sum \in [0 .. N -> Int] /\ sum[0] = 0
      /\ \A k \in 1 .. N : sum[k] = sum[k - 1] + Shoelace(vs[k], vs[After(k, N)])
  BY ShoelaceSteps
<1>3. ShoelaceSum(vs) = sum[N]
  BY ShoelaceBySums
<1> HIDE DEF N, sum
<1>4. \A k \in 1 .. N : After(k, N) = IF k = N THEN 1 ELSE k + 1
  BY <1>1, NextPosition
<1>5. d \in [2 .. N -> Int]
  <2>1. ASSUME NEW j \in 2 .. N PROVE sum[j - 1] + Shoelace(vs[j], vs[1]) \in Int
    <3>1. j - 1 \in 0 .. N /\ j \in 1 .. N /\ 1 \in 1 .. N
      BY <1>1
    <3>2. sum[j - 1] \in Int /\ vs[j] \in Point /\ vs[1] \in Point
      BY <1>1, <1>2, <3>1
    <3>3. Shoelace(vs[j], vs[1]) \in Int
      BY <3>2, CrossType
    <3> QED BY <3>2, <3>3
  <2> QED BY <2>1
<1>6. d[2] = 0
  <2>1. 2 \in 2 .. N /\ 1 \in 1 .. N /\ 2 \in 1 .. N /\ After(1, N) = 2 /\ 1 - 1 = 0 /\ 2 - 1 = 1
    BY <1>1, <1>4
  <2>2. sum[1] = 0 + Shoelace(vs[1], vs[2])
    BY <1>2, <2>1
  <2>3. vs[1] \in Point /\ vs[2] \in Point
    BY <1>1, <2>1
  <2>4. Shoelace(vs[1], vs[2]) + Shoelace(vs[2], vs[1]) = 0 /\ Shoelace(vs[1], vs[2]) \in Int
    BY <2>3, TriangleSplit, CrossType
  <2> QED BY <2>1, <2>2, <2>4
<1>7. d[N] = sum[N]
  <2>1. N \in 2 .. N /\ N \in 1 .. N /\ After(N, N) = 1
    BY <1>1, <1>4
  <2> QED BY <1>2, <2>1
<1>8. ASSUME NEW j \in 3 .. N PROVE d[j] = d[j - 1] - Cross(vs[1], vs[j - 1], vs[j])
  <2> DEFINE a == vs[1]
             b == vs[j - 1]
             c == vs[j]
             s == sum[(j - 1) - 1]
  <2>1. /\ j \in 2 .. N /\ j - 1 \in 2 .. N /\ j - 1 \in 1 .. N /\ j \in 1 .. N /\ 1 \in 1 .. N
        /\ (j - 1) - 1 \in 0 .. N /\ After(j - 1, N) = j
    BY <1>1, <1>4
  <2>2. a \in Point /\ b \in Point /\ c \in Point /\ s \in Int
    BY <1>1, <1>2, <2>1
  <2>3. sum[j - 1] = s + Shoelace(b, c)
    BY <1>2, <2>1
  <2>4. d[j] = (s + Shoelace(b, c)) + Shoelace(c, a) /\ d[j - 1] = s + Shoelace(b, a)
    BY <2>1, <2>3
  <2> HIDE DEF a, b, c, s, d
  <2>5. /\ Shoelace(a, b) + Shoelace(b, c) + Shoelace(c, a) = - Cross(a, b, c)
        /\ Shoelace(a, b) + Shoelace(b, a) = 0
    BY <2>2, TriangleSplit
  <2>6. /\ Shoelace(a, b) \in Int /\ Shoelace(b, c) \in Int /\ Shoelace(c, a) \in Int
        /\ Shoelace(b, a) \in Int /\ Cross(a, b, c) \in Int
    BY <2>2, CrossType
  <2>7. d[j] = d[j - 1] - Cross(a, b, c)
    <3> DEFINE ab == Shoelace(a, b)
               bc == Shoelace(b, c)
               ca == Shoelace(c, a)
               ba == Shoelace(b, a)
               area == Cross(a, b, c)
    <3>1. /\ ab + bc + ca = - area /\ ab + ba = 0 /\ d[j] = (s + bc) + ca /\ d[j - 1] = s + ba
          /\ ab \in Int /\ bc \in Int /\ ca \in Int /\ ba \in Int /\ area \in Int /\ s \in Int
      BY <2>2, <2>4, <2>5, <2>6
    <3> HIDE DEF ab, bc, ca, ba, area
    <3>2. d[j] = d[j - 1] - area
      BY <3>1
    <3> QED BY <3>2 DEF area
  <2> QED BY <2>7 DEF a, b, c
<1> HIDE DEF d
<1> QED BY <1>3, <1>5, <1>6, <1>7, <1>8 DEF N


\* The step along the fan, in numbers: a point that is on the side of the fan's
\* rays so far, and not in the next triangle, is on the side of the next ray, or
\* it sits on all of them and they have no area.
LEMMA FanStep ==
  ASSUME NEW ab \in Int, NEW bc \in Int, NEW ca \in Int, NEW area \in Int,
         NEW d0 \in Int, NEW d1 \in Int, d1 = d0 - area, area = ab + bc + ca,
         \/ area = 0
         \/ ~ (ab >= 0 /\ bc >= 0 /\ ca >= 0) /\ ~ (ab <= 0 /\ bc <= 0 /\ ca <= 0)
  PROVE  /\ bc >= 0 /\ (ab > 0 \/ (ab = 0 /\ d0 = 0)) => ca < 0 \/ (ca = 0 /\ d1 = 0)
         /\ bc <= 0 /\ (ab < 0 \/ (ab = 0 /\ d0 = 0)) => ca > 0 \/ (ca = 0 /\ d1 = 0)
OBVIOUS

\* A point on the inner side of all edges of a ring with an area lies in a
\* triangle of the fan.
LEMMA InsideMeetsFan ==
  ASSUME NEW vs \in Seq(Point), Len(vs) >= 3, ShoelaceSum(vs) # 0,
         NEW s \in {-1, 1}, NEW p \in Point, OnSide(vs, s, p)
  PROVE  \E j \in 3 .. Len(vs) : InTriangle(p, vs[1], vs[j - 1], vs[j])
<1> DEFINE Hit == \E j \in 3 .. Len(vs) : InTriangle(p, vs[1], vs[j - 1], vs[j])
<1> SUFFICES ASSUME ~ Hit PROVE FALSE
  OBVIOUS
<1> HIDE DEF Hit
<1> DEFINE N == Len(vs)
           f(j) == s * Cross(vs[1], vs[j], p)
<1>1. N \in Nat \ {0} /\ N >= 3 /\ \A j \in 1 .. N : vs[j] \in Point
  OBVIOUS
<1>2. PICK d \in [2 .. N -> Int] :
        /\ d[2] = 0 /\ d[N] = ShoelaceSum(vs)
        /\ \A j \in 3 .. N : d[j] = d[j - 1] - Cross(vs[1], vs[j - 1], vs[j])
  BY FanSum
<1>3. \A k \in 1 .. N : After(k, N) = IF k = N THEN 1 ELSE k + 1
  <2> HIDE DEF N
  <2> QED BY <1>1, NextPosition
<1>4. \A k \in 1 .. N : s * Cross(vs[k], vs[After(k, N)], p) >= 0
  BY DEF OnSide
<1> DEFINE P == {i \in 0 .. N - 2 : f(i + 2) > 0 \/ (f(i + 2) = 0 /\ d[i + 2] = 0)}
<1> HIDE DEF N
<1>5. ASSUME NEW j \in 1 .. N PROVE f(j) \in Int
  <2>1. 1 \in 1 .. N /\ vs[1] \in Point /\ vs[j] \in Point
    BY <1>1
  <2>2. Cross(vs[1], vs[j], p) \in Int
    BY <2>1, CrossType
  <2>3. s \in Int
    OBVIOUS
  <2> QED BY <2>2, <2>3
<1>6. 0 \in P
  <2>1. 1 \in 1 .. N /\ 2 \in 1 .. N /\ After(1, N) = 2
    BY <1>1, <1>3
  <2>2. f(2) >= 0
    BY <1>4, <2>1
  <2>3. f(2) > 0 \/ (f(2) = 0 /\ d[2] = 0)
    BY <1>2, <1>5, <2>1, <2>2
  <2> HIDE DEF f
  <2> QED BY <1>1, <2>3
<1>7. ASSUME NEW i \in 1 .. N - 2, i - 1 \in P PROVE i \in P
  <2> DEFINE j == i + 2
             a == vs[1]
             b == vs[j - 1]
             c == vs[j]
  <2>1. /\ j \in 3 .. N /\ j - 1 \in 1 .. N /\ j \in 1 .. N /\ 1 \in 1 .. N /\ After(j - 1, N) = j
        /\ (i - 1) + 2 = j - 1 /\ j - 1 \in 2 .. N /\ j \in 2 .. N /\ i \in 0 .. N - 2
    BY <1>1, <1>3
  <2>2. a \in Point /\ b \in Point /\ c \in Point
    BY <1>1, <2>1
  <2>3. f(j - 1) > 0 \/ (f(j - 1) = 0 /\ d[j - 1] = 0)
    BY <1>7, <2>1
  <2>4. s * Cross(b, c, p) >= 0
    BY <1>4, <2>1
  <2>5. d[j] = d[j - 1] - Cross(a, b, c) /\ d[j] \in Int /\ d[j - 1] \in Int
    BY <1>2, <2>1
  <2>6. ~ InTriangle(p, a, b, c)
    BY <2>1 DEF N, Hit
  <2>7. f(j) = s * Cross(a, c, p) /\ f(j - 1) = s * Cross(a, b, p)
    OBVIOUS
  <2> DEFINE ab == Cross(a, b, p)
             bc == Cross(b, c, p)
             ca == Cross(c, a, p)
             area == Cross(a, b, c)
  <2>8. /\ area = ab + bc + ca
        /\ ab \in Int /\ bc \in Int /\ ca \in Int /\ area \in Int
    <3> HIDE DEF a, b, c
    <3>1. area = ab + bc + ca
      BY <2>2, TriangleSplit
    <3>2. ab \in Int /\ bc \in Int /\ ca \in Int /\ area \in Int
      BY <2>2, CrossType
    <3> QED BY <3>1, <3>2
  <2>9. \/ area = 0
        \/ ~ (ab >= 0 /\ bc >= 0 /\ ca >= 0) /\ ~ (ab <= 0 /\ bc <= 0 /\ ca <= 0)
    <3> HIDE DEF a, b, c
    <3> QED BY <2>6 DEF InTriangle
  <2>10. f(j) = - (s * ca)
    <3>1. \A x \in Int, y \in Int : x = - y => s * y = - (s * x)
      OBVIOUS
    <3>2. ca = - Cross(a, c, p) /\ Cross(a, c, p) \in Int
      <4> HIDE DEF a, b, c
      <4> QED BY <2>2, TriangleSplit, CrossType
    <3> QED BY <2>7, <2>8, <3>1, <3>2
  <2> DEFINE F0 == f(j - 1)
             F1 == f(j)
             d0 == d[j - 1]
             d1 == d[j]
  <2>11. F0 = s * ab /\ F1 = - (s * ca) /\ s * bc >= 0
    BY <2>4, <2>7, <2>10
  <2>14. /\ F0 > 0 \/ (F0 = 0 /\ d0 = 0)
         /\ d1 = d0 - area /\ d0 \in Int /\ d1 \in Int
    BY <2>3, <2>5
  <2> HIDE DEF F0, F1, d0, d1, ab, bc, ca, area
  <2>12. F1 > 0 \/ (F1 = 0 /\ d1 = 0)
    <3>1. CASE s = 1
      <4>1. F0 = ab /\ F1 = - ca /\ bc >= 0
        BY <2>8, <2>11, <3>1
      <4>2. ab > 0 \/ (ab = 0 /\ d0 = 0)
        BY <2>14, <4>1
      <4>3. ca < 0 \/ (ca = 0 /\ d1 = 0)
        BY <2>8, <2>9, <2>14, <4>1, <4>2, FanStep
      <4> QED BY <2>8, <4>1, <4>3
    <3>2. CASE s = -1
      <4>1. F0 = - ab /\ F1 = ca /\ bc <= 0
        BY <2>8, <2>11, <3>2
      <4>2. ab < 0 \/ (ab = 0 /\ d0 = 0)
        BY <2>8, <2>14, <4>1
      <4>3. ca > 0 \/ (ca = 0 /\ d1 = 0)
        BY <2>8, <2>9, <2>14, <4>1, <4>2, FanStep
      <4> QED BY <4>1, <4>3
    <3> QED BY <3>1, <3>2
  <2>13. f(i + 2) > 0 \/ (f(i + 2) = 0 /\ d[i + 2] = 0)
    BY <2>12 DEF F1, d1
  <2> HIDE DEF f, j
  <2> QED BY <2>1, <2>13
<1>8. N - 2 \in P
  <2> DEFINE M == N - 2
  <2>1. M \in Nat /\ M \in 0 .. M /\ 0 \in P /\ \A i \in 1 .. M : i - 1 \in P => i \in P
    BY <1>1, <1>6, <1>7
  <2> HIDE DEF M, P
  <2>2. 0 .. M \subseteq P
    BY <2>1, IntervalInduction
  <2> QED BY <2>1, <2>2 DEF M
<1>9. (N - 2) + 2 = N /\ N \in 1 .. N /\ 1 \in 1 .. N /\ After(N, N) = 1
  BY <1>1, <1>3
<1>10. f(N) > 0 \/ (f(N) = 0 /\ d[N] = 0)
  BY <1>8, <1>9
<1>11. s * Cross(vs[N], vs[1], p) >= 0
  BY <1>4, <1>9
<1>12. f(N) <= 0
  <2>1. vs[N] \in Point /\ vs[1] \in Point
    BY <1>1, <1>9
  <2>2. Cross(vs[N], vs[1], p) = - Cross(vs[1], vs[N], p) /\ Cross(vs[1], vs[N], p) \in Int
    <3>1. \A a, b \in Point : Cross(b, a, p) = - Cross(a, b, p) /\ Cross(a, b, p) \in Int
      BY TriangleSplit, CrossType
    <3> HIDE DEF N
    <3> QED BY <2>1, <3>1
  <2>3. \A x \in Int : s * (- x) >= 0 => s * x <= 0
    OBVIOUS
  <2> QED BY <1>11, <2>2, <2>3
<1>13. f(N) \in Int
  BY <1>5, <1>9
<1> HIDE DEF f
<1> QED BY <1>2, <1>10, <1>12, <1>13

\* The shoelace formula has the sign that the edges give: it finds the side on
\* which the ring lies.
LEMMA OrientationFound ==
  ASSUME NEW vs \in Seq(Point), Len(vs) >= 3, ShoelaceSum(vs) # 0, NEW s \in {-1, 1},
         \A m \in DOMAIN vs : OnSide(vs, s, vs[m])
  PROVE  s = IF IsCcw(vs) THEN 1 ELSE -1
<1> DEFINE N == Len(vs)
<1>1. N \in Nat \ {0} /\ N >= 3 /\ DOMAIN vs = 1 .. N /\ \A j \in 1 .. N : vs[j] \in Point
  OBVIOUS
<1>2. PICK d \in [2 .. N -> Int] :
        /\ d[2] = 0 /\ d[N] = ShoelaceSum(vs)
        /\ \A j \in 3 .. N : d[j] = d[j - 1] - Cross(vs[1], vs[j - 1], vs[j])
  BY FanSum
<1>3. \A k \in 1 .. N : After(k, N) = IF k = N THEN 1 ELSE k + 1
  <2> HIDE DEF N
  <2> QED BY <1>1, NextPosition
<1>4. \A k, m \in 1 .. N : s * Cross(vs[k], vs[After(k, N)], vs[m]) >= 0
  BY <1>1 DEF OnSide
<1> DEFINE P == {i \in 0 .. N - 2 : s * d[i + 2] <= 0}
<1> HIDE DEF N
<1>5. 0 \in P
  <2>1. s * d[0 + 2] = 0
    BY <1>2
  <2> QED BY <1>1, <2>1
<1>6. ASSUME NEW i \in 1 .. N - 2, i - 1 \in P PROVE i \in P
  <2> DEFINE j == i + 2
             area == Cross(vs[1], vs[j - 1], vs[j])
  <2>1. /\ j \in 3 .. N /\ j - 1 \in 1 .. N /\ j \in 1 .. N /\ 1 \in 1 .. N /\ After(j - 1, N) = j
        /\ (i - 1) + 2 = j - 1 /\ j - 1 \in 2 .. N /\ j \in 2 .. N /\ i \in 0 .. N - 2
    BY <1>1, <1>3
  <2>2. s * d[j - 1] <= 0
    BY <1>6, <2>1
  <2>3. d[j] = d[j - 1] - area /\ d[j] \in Int /\ d[j - 1] \in Int
    BY <1>2, <2>1
  <2>4. vs[1] \in Point /\ vs[j - 1] \in Point /\ vs[j] \in Point
    BY <1>1, <2>1
  <2>5. area = Cross(vs[j - 1], vs[j], vs[1]) /\ area \in Int
    <3> DEFINE a == vs[1]
               b == vs[j - 1]
               c == vs[j]
    <3>1. a \in Point /\ b \in Point /\ c \in Point
      BY <2>4
    <3> HIDE DEF a, b, c
    <3>4. Cross(a, b, c) = Cross(b, c, a)
      BY <3>1, TriangleSplit
    <3>5. Cross(a, b, c) \in Int
      BY <3>1, CrossType
    <3> QED BY <3>4, <3>5 DEF a, b, c
  <2>6. s * area >= 0
    <3>1. s * Cross(vs[j - 1], vs[After(j - 1, N)], vs[1]) >= 0
      BY <1>4, <2>1
    <3> QED BY <2>1, <2>5, <3>1
  <2> HIDE DEF area
  <2>7. s * d[j] <= 0
    <3> DEFINE d0 == d[j - 1]
               d1 == d[j]
    <3>1. d1 = d0 - area /\ d0 \in Int /\ d1 \in Int /\ area \in Int /\ s * d0 <= 0 /\ s * area >= 0
      BY <2>2, <2>3, <2>5, <2>6
    <3> HIDE DEF d0, d1
    <3>2. s * d1 <= 0
      BY <3>1
    <3> QED BY <3>2 DEF d1
  <2> QED BY <2>1, <2>7
<1>7. N - 2 \in P
  <2> DEFINE M == N - 2
  <2>1. M \in Nat /\ M \in 0 .. M /\ 0 \in P /\ \A i \in 1 .. M : i - 1 \in P => i \in P
    BY <1>1, <1>5, <1>6
  <2> HIDE DEF M, P
  <2>2. 0 .. M \subseteq P
    BY <2>1, IntervalInduction
  <2> QED BY <2>1, <2>2 DEF M
<1>8. s * d[N] <= 0 /\ d[N] \in Int
  <2>1. (N - 2) + 2 = N /\ N \in 2 .. N
    BY <1>1
  <2> QED BY <1>2, <1>7, <2>1
<1> QED BY <1>2, <1>8 DEF IsCcw

\* What a triangle between vertices on the inner side of a line holds lies on
\* the inner side of the line.
LEMMA TriangleInside ==
  ASSUME NEW a \in Point, NEW b \in Point, NEW c \in Point, NEW p \in Point,
         NEW u \in Point, NEW w \in Point, NEW s \in {-1, 1}, InTriangle(p, a, b, c),
         s * Cross(u, w, a) >= 0, s * Cross(u, w, b) >= 0, s * Cross(u, w, c) >= 0
  PROVE  s * Cross(u, w, p) >= 0
<1> DEFINE area == Cross(a, b, c)
           bc == Cross(b, c, p)
           ca == Cross(c, a, p)
           ab == Cross(a, b, p)
           x == Cross(u, w, p)
           xa == Cross(u, w, a)
           xb == Cross(u, w, b)
           xc == Cross(u, w, c)
<1>1. /\ area \in Int /\ bc \in Int /\ ca \in Int /\ ab \in Int
      /\ x \in Int /\ xa \in Int /\ xb \in Int /\ xc \in Int
  BY CrossType
<1>2. area * x = bc * xa + ca * xb + ab * xc
  BY TriangleBarycentric
<1>3. area = ab + bc + ca
  BY TriangleSplit
<1>4. area # 0 /\ ((ab >= 0 /\ bc >= 0 /\ ca >= 0) \/ (ab <= 0 /\ bc <= 0 /\ ca <= 0))
  BY DEF InTriangle
<1>5. s * xa >= 0 /\ s * xb >= 0 /\ s * xc >= 0
  OBVIOUS
<1> HIDE DEF area, bc, ca, ab, x, xa, xb, xc
<1>6. ASSUME NEW A \in Int, NEW t \in {-1, 1}, t * A > 0, NEW X \in Int,
             NEW k \in Int, NEW l \in Int, NEW m \in Int, t * k >= 0, t * l >= 0, t * m >= 0,
             NEW xk \in Int, NEW xl \in Int, NEW xm \in Int,
             s * xk >= 0, s * xl >= 0, s * xm >= 0, A * X = k * xk + l * xl + m * xm
      PROVE  s * X >= 0
  <2>1. \A i \in Int, j \in Int : t * i >= 0 /\ s * j >= 0 => (t * s) * (i * j) >= 0
    <3>1. ASSUME NEW i \in Int, NEW j \in Int, t * i >= 0, s * j >= 0
          PROVE  (t * s) * (i * j) >= 0
      <4>1. \A v \in Int, y \in Int : v >= 0 /\ y >= 0 => v * y >= 0
        OBVIOUS
      <4>2. (t * i) * (s * j) >= 0
        BY <3>1, <4>1
      <4>3. (t * i) * (s * j) = (t * s) * (i * j)
        OBVIOUS
      <4> QED BY <4>2, <4>3
    <3> QED BY <3>1
  <2>2. (t * s) * (k * xk) >= 0 /\ (t * s) * (l * xl) >= 0 /\ (t * s) * (m * xm) >= 0
    BY <1>6, <2>1
  <2>3. (t * s) * (A * X) >= 0
    <3> DEFINE K == k * xk
               L == l * xl
               M == m * xm
               Y == A * X
    <3>1. K \in Int /\ L \in Int /\ M \in Int /\ Y = K + L + M
      BY <1>6
    <3>2. (t * s) * K >= 0 /\ (t * s) * L >= 0 /\ (t * s) * M >= 0
      BY <2>2
    <3> HIDE DEF K, L, M, Y
    <3>3. (t * s) * Y >= 0
      BY <3>1, <3>2
    <3> QED BY <3>3 DEF Y
  <2>4. (t * A) * (s * X) >= 0
    BY <2>3
  <2>5. \A v \in Int, y \in Int : v > 0 /\ v * y >= 0 => y >= 0
    OBVIOUS
  <2>6. t * A \in Int /\ s * X \in Int
    OBVIOUS
  <2> QED BY <1>6, <2>4, <2>5, <2>6
<1>7. s * x >= 0
  <2>1. CASE ab >= 0 /\ bc >= 0 /\ ca >= 0
    <3>1. 1 * area > 0 /\ 1 * bc >= 0 /\ 1 * ca >= 0 /\ 1 * ab >= 0 /\ 1 \in {-1, 1}
      BY <1>1, <1>3, <1>4, <2>1
    <3> QED BY <1>1, <1>2, <1>5, <1>6, <3>1
  <2>2. CASE ab <= 0 /\ bc <= 0 /\ ca <= 0
    <3>1. -1 * area > 0 /\ -1 * bc >= 0 /\ -1 * ca >= 0 /\ -1 * ab >= 0 /\ -1 \in {-1, 1}
      BY <1>1, <1>3, <1>4, <2>2
    <3> QED BY <1>1, <1>2, <1>5, <1>6, <3>1
  <2> QED BY <1>4, <2>1, <2>2
<1> QED BY <1>7 DEF x

----------------------------------------------------------------------------
(* Rings and their halfspaces *)

\* The halfspace of an edge between two different points: its coefficients are
\* integers, the square of its length is theirs, and a point is outside of it if
\* it is on the wrong side of the edge.
LEMMA EdgeHalfspaceFacts ==
  ASSUME NEW p \in Point, NEW r \in Point, NEW sign \in {-1, 1}
  PROVE  LET h == EdgeHalfspace(p, r, sign)
         IN  /\ h.ax \in Int /\ h.ay \in Int /\ h.b \in Int /\ h.norm2 \in Nat
             /\ h.norm2 = h.ax * h.ax + h.ay * h.ay
             /\ p # r => h.norm2 > 0
             /\ h # None
             /\ \A q \in Point : Excess(h, q) = sign * Cross(p, r, q)
<1> DEFINE h == EdgeHalfspace(p, r, sign)
<1>1. PICK p1 \in Int, p2 \in Int : p = <<p1, p2>>
  BY DEF Point
<1>2. PICK r1 \in Int, r2 \in Int : r = <<r1, r2>>
  BY DEF Point
<1>3. p[1] = p1 /\ p[2] = p2 /\ r[1] = r1 /\ r[2] = r2
  BY <1>1, <1>2
<1> DEFINE nx == r2 - p2
           ny == p1 - r1
<1>4. /\ h.ax = -sign * nx /\ h.ay = -sign * ny /\ h.b = -sign * (nx * p1 + ny * p2)
      /\ h.norm2 = nx * nx + ny * ny
  BY <1>3 DEF EdgeHalfspace
<1>5. nx \in Int /\ ny \in Int /\ nx * p1 + ny * p2 \in Int /\ sign \in Int /\ - sign \in Int
  OBVIOUS
<1>6. h # None
  <2>1. DOMAIN h = {"ax", "ay", "b", "norm2"} /\ DOMAIN None = {"none"}
    BY DEF EdgeHalfspace, None
  <2>2. "none" \notin {"ax", "ay", "b", "norm2"}
    OBVIOUS
  <2> QED BY <2>1, <2>2
<1>7. ASSUME NEW q \in Point PROVE Excess(h, q) = sign * Cross(p, r, q)
  <2>1. PICK q1 \in Int, q2 \in Int : q = <<q1, q2>>
    BY DEF Point
  <2>2. q[1] = q1 /\ q[2] = q2
    BY <2>1
  <2>3. Excess(h, q) = (-sign * nx) * q1 + (-sign * ny) * q2 - (-sign * (nx * p1 + ny * p2))
    BY <1>4, <2>2 DEF Excess
  <2>4. Cross(p, r, q) = (r1 - p1) * (q2 - p2) - (r2 - p2) * (q1 - p1)
    BY <1>3, <2>2 DEF Cross
  <2> HIDE DEF h
  <2>5. CASE sign = 1
    BY <2>3, <2>4, <2>5
  <2>6. CASE sign = -1
    BY <2>3, <2>4, <2>6
  <2> QED BY <2>5, <2>6
<1> HIDE DEF h
<1>8. h.norm2 = h.ax * h.ax + h.ay * h.ay
  <2>1. CASE sign = 1
    BY <1>4, <2>1
  <2>2. CASE sign = -1
    BY <1>4, <2>2
  <2> QED BY <2>1, <2>2
<1>9. ASSUME p # r PROVE nx # 0 \/ ny # 0
  BY <1>1, <1>2, <1>9
<1>10. h.ax \in Int /\ h.ay \in Int /\ h.b \in Int
  <2> HIDE DEF nx, ny
  <2> QED BY <1>4, <1>5
<1> HIDE DEF nx, ny
<1>11. \A x \in Int : x * x \in Nat /\ (x # 0 => x * x > 0)
  OBVIOUS
<1>12. h.norm2 \in Nat /\ (p # r => h.norm2 > 0)
  BY <1>4, <1>5, <1>9, <1>11
<1> QED BY <1>6, <1>7, <1>8, <1>10, <1>12 DEF h

\* What the halfspaces of a ring are.
LEMMA RingHalfspaces ==
  ASSUME NEW ring \in Seq(Point)
  PROVE  LET vs == Corners(ring)
             sign == IF IsCcw(vs) THEN -1 ELSE 1
         IN  /\ vs \in Seq(Point) /\ ToSet(vs) = ToSet(ring)
             /\ HalfspacesOf(ring) = NoHalfspaces <=> Len(vs) < 3
             /\ Len(vs) >= 3 =>
                  /\ HalfspacesOf(ring) =
                       {EdgeHalfspace(vs[k], vs[After(k, Len(vs))], sign) : k \in 1 .. Len(vs)}
                  /\ \A k \in 1 .. Len(vs) :
                       /\ After(k, Len(vs)) \in 1 .. Len(vs)
                       /\ vs[k] # vs[After(k, Len(vs))]
<1> DEFINE ws == ExtractVertices(ring)
           vs == Corners(ring)
           sign == IF IsCcw(vs) THEN -1 ELSE 1
           E(k) == EdgeHalfspace(vs[k], vs[After(k, Len(vs))], sign)
<1>1. ws \in Seq(Point) /\ ToSet(ws) = ToSet(ring)
  BY ExtractedVertices
<1>2. vs = RemoveDuplicateVertices(ws)
  BY DEF Corners
<1> HIDE DEF ws
<1>3. /\ vs \in Seq(Point) /\ ToSet(vs) = ToSet(ws)
      /\ Len(vs) >= 2 => \A k \in DOMAIN vs : vs[k] # vs[After(k, Len(vs))]
  BY <1>1, <1>2, CornersDistinct
<1>4. HalfspacesOf(ring) = IF Len(vs) < 3 THEN NoHalfspaces ELSE {E(k) : k \in DOMAIN vs}
  BY <1>2 DEF HalfspacesOf, PolygonToHalfspaces, ws
<1> HIDE DEF vs, E
<1>5. Len(vs) \in Nat /\ DOMAIN vs = 1 .. Len(vs)
  BY <1>3
<1>6. ASSUME Len(vs) >= 3 PROVE HalfspacesOf(ring) # NoHalfspaces /\ HalfspacesOf(ring) = {E(k) : k \in 1 .. Len(vs)}
  <2>1. 1 \in 1 .. Len(vs)
    BY <1>5, <1>6
  <2>2. HalfspacesOf(ring) = {E(k) : k \in 1 .. Len(vs)}
    BY <1>4, <1>5, <1>6
  <2> QED BY <2>1, <2>2 DEF NoHalfspaces
<1>7. ASSUME Len(vs) >= 3, NEW k \in 1 .. Len(vs)
      PROVE  After(k, Len(vs)) \in 1 .. Len(vs) /\ vs[k] # vs[After(k, Len(vs))]
  <2> DEFINE N == Len(vs)
  <2>1. N \in Nat \ {0} /\ k \in 1 .. N
    BY <1>5, <1>7
  <2>2. After(k, N) = IF k = N THEN 1 ELSE k + 1
    <3> HIDE DEF N
    <3> QED BY <2>1, NextPosition
  <2>3. After(k, N) \in 1 .. N
    <3> HIDE DEF N
    <3> QED BY <2>1, <2>2
  <2> QED BY <1>3, <1>5, <1>7, <2>3
<1>8. HalfspacesOf(ring) = NoHalfspaces <=> Len(vs) < 3
  BY <1>4, <1>5, <1>6
<1> QED BY <1>1, <1>3, <1>6, <1>7, <1>8 DEF vs, E

\* A point satisfies the halfspaces if it is on the inner side of all edges.
LEMMA InPieceIfOnSide ==
  ASSUME NEW ring \in Seq(Point), Len(Corners(ring)) >= 3, NEW p \in Point
  PROVE  PointInPiece(p, HalfspacesOf(ring))
           <=> OnSide(Corners(ring), IF IsCcw(Corners(ring)) THEN 1 ELSE -1, p)
<1> DEFINE vs == Corners(ring)
           sign == IF IsCcw(vs) THEN -1 ELSE 1
           s == IF IsCcw(vs) THEN 1 ELSE -1
           E(k) == EdgeHalfspace(vs[k], vs[After(k, Len(vs))], sign)
           side(k) == Cross(vs[k], vs[After(k, Len(vs))], p)
<1>1. /\ vs \in Seq(Point)
      /\ HalfspacesOf(ring) = {E(k) : k \in 1 .. Len(vs)}
      /\ \A k \in 1 .. Len(vs) : After(k, Len(vs)) \in 1 .. Len(vs)
  BY RingHalfspaces
<1> HIDE DEF vs
<1>2. \A k \in 1 .. Len(vs) : vs[k] \in Point /\ vs[After(k, Len(vs))] \in Point
  BY <1>1
<1>3. sign \in {-1, 1}
  OBVIOUS
<1>4. ASSUME NEW k \in 1 .. Len(vs)
      PROVE  Excess(E(k), p) = sign * side(k) /\ side(k) \in Int
  <2> DEFINE u == vs[k]
             w == vs[After(k, Len(vs))]
  <2>1. u \in Point /\ w \in Point
    BY <1>2
  <2> HIDE DEF sign, u, w
  <2>2. Excess(EdgeHalfspace(u, w, sign), p) = sign * Cross(u, w, p) /\ Cross(u, w, p) \in Int
    BY <1>3, <2>1, EdgeHalfspaceFacts, CrossType
  <2> QED BY <2>2 DEF u, w
<1>5. PointInPiece(p, HalfspacesOf(ring)) <=> \A k \in 1 .. Len(vs) : Excess(E(k), p) <= 0
  <2> HIDE DEF E
  <2> QED BY <1>1 DEF PointInPiece
<1> HIDE DEF E, side
<1>6. ASSUME NEW k \in 1 .. Len(vs) PROVE Excess(E(k), p) <= 0 <=> s * side(k) >= 0
  <2>1. CASE IsCcw(vs)
    BY <1>4, <2>1
  <2>2. CASE ~ IsCcw(vs)
    BY <1>4, <2>2
  <2> QED BY <2>1, <2>2
<1>7. DOMAIN vs = 1 .. Len(vs)
  BY <1>1
<1> HIDE DEF s
<1>8. OnSide(vs, s, p) <=> \A k \in 1 .. Len(vs) : s * side(k) >= 0
  BY <1>7 DEF OnSide, side
<1>9. PointInPiece(p, HalfspacesOf(ring)) <=> OnSide(vs, s, p)
  BY <1>5, <1>6, <1>8
<1> QED BY <1>9 DEF vs, s

\* What satisfies the halfspaces of a ring lies in it.
LEMMA PieceInRing ==
  ASSUME NEW ring \in Seq(Point), ConvexRing(ring), HalfspacesOf(ring) # NoHalfspaces,
         NEW p \in Point, PointInPiece(p, HalfspacesOf(ring))
  PROVE  InConvexRing(p, ring)
<1> DEFINE vs == Corners(ring)
           s == IF IsCcw(vs) THEN 1 ELSE -1
<1>1. vs \in Seq(Point) /\ ToSet(vs) = ToSet(ring) /\ Len(vs) >= 3
  <2>1. vs \in Seq(Point) /\ ToSet(vs) = ToSet(ring) /\ ~ (Len(vs) < 3)
    BY RingHalfspaces
  <2>2. Len(vs) \in Nat
    BY <2>1
  <2> QED BY <2>1, <2>2
<1>2. ShoelaceSum(vs) # 0
  BY <1>1 DEF ConvexRing
<1>3. OnSide(vs, s, p)
  BY <1>1, InPieceIfOnSide
<1>4. s \in {-1, 1}
  OBVIOUS
<1> HIDE DEF vs, s
<1>5. PICK j \in 3 .. Len(vs) : InTriangle(p, vs[1], vs[j - 1], vs[j])
  BY <1>1, <1>2, <1>3, <1>4, InsideMeetsFan
<1>6. vs[1] \in ToSet(vs) /\ vs[j - 1] \in ToSet(vs) /\ vs[j] \in ToSet(vs)
  <2>1. DOMAIN vs = 1 .. Len(vs) /\ Len(vs) \in Nat
    BY <1>1
  <2>2. 1 \in 1 .. Len(vs) /\ j - 1 \in 1 .. Len(vs) /\ j \in 1 .. Len(vs)
    BY <2>1
  <2> QED BY <2>1, <2>2 DEF ToSet
<1> QED BY <1>1, <1>5, <1>6 DEF InConvexRing

\* Two points are no triangle.
LEMMA TriangleCorners ==
  ASSUME NEW a \in Point, NEW b \in Point, NEW c \in Point, NEW p, InTriangle(p, a, b, c)
  PROVE  a # b /\ b # c /\ a # c
<1>1. PICK a1 \in Int, a2 \in Int : a = <<a1, a2>>
  BY DEF Point
<1>2. PICK b1 \in Int, b2 \in Int : b = <<b1, b2>>
  BY DEF Point
<1>3. PICK c1 \in Int, c2 \in Int : c = <<c1, c2>>
  BY DEF Point
<1>4. Cross(a, b, c) = (b1 - a1) * (c2 - a2) - (b2 - a2) * (c1 - a1)
  BY <1>1, <1>2, <1>3 DEF Cross
<1>5. Cross(a, b, c) # 0
  BY DEF InTriangle
<1>6. CASE a = b
  <2>1. a1 = b1 /\ a2 = b2
    BY <1>1, <1>2, <1>6
  <2> QED BY <1>4, <1>5, <2>1
<1>7. CASE b = c
  <2>1. c1 = b1 /\ c2 = b2
    BY <1>2, <1>3, <1>7
  <2> QED BY <1>4, <1>5, <2>1
<1>8. CASE a = c
  <2>1. a1 = c1 /\ a2 = c2
    BY <1>1, <1>3, <1>8
  <2> QED BY <1>4, <1>5, <2>1
<1> QED BY <1>6, <1>7, <1>8

\* What lies in a ring satisfies its halfspaces.
LEMMA RingInPiece ==
  ASSUME NEW ring \in Seq(Point), ConvexRing(ring), NEW p \in Point, InConvexRing(p, ring)
  PROVE  HalfspacesOf(ring) # NoHalfspaces /\ PointInPiece(p, HalfspacesOf(ring))
<1> DEFINE vs == Corners(ring)
<1>1. /\ vs \in Seq(Point) /\ ToSet(vs) = ToSet(ring)
      /\ HalfspacesOf(ring) = NoHalfspaces <=> Len(vs) < 3
  BY RingHalfspaces
<1>2. PICK a, b, c \in ToSet(vs) : InTriangle(p, a, b, c)
  BY <1>1 DEF InConvexRing
<1>3. DOMAIN vs = 1 .. Len(vs) /\ Len(vs) \in Nat /\ \A k \in 1 .. Len(vs) : vs[k] \in Point
  BY <1>1
<1>4. PICK i \in 1 .. Len(vs), j \in 1 .. Len(vs), k \in 1 .. Len(vs) : a = vs[i] /\ b = vs[j] /\ c = vs[k]
  BY <1>2, <1>3 DEF ToSet
<1> HIDE DEF vs
<1>5. a \in Point /\ b \in Point /\ c \in Point
  BY <1>3, <1>4
<1>6. i # j /\ j # k /\ i # k
  BY <1>2, <1>4, <1>5, TriangleCorners
<1>7. Len(vs) >= 3
  BY <1>3, <1>6
<1>8. PICK s \in {-1, 1} : \A m \in DOMAIN vs : OnSide(vs, s, vs[m])
  BY <1>7 DEF ConvexRing, vs
<1>9. ShoelaceSum(vs) # 0
  BY <1>7 DEF ConvexRing, vs
<1>10. s = IF IsCcw(vs) THEN 1 ELSE -1
  BY <1>1, <1>7, <1>8, <1>9, OrientationFound
<1>11. OnSide(vs, s, p)
  <2>1. ASSUME NEW l \in 1 .. Len(vs) PROVE s * Cross(vs[l], vs[After(l, Len(vs))], p) >= 0
    <3> DEFINE u == vs[l]
               w == vs[After(l, Len(vs))]
    <3>1. After(l, Len(vs)) \in 1 .. Len(vs)
      BY <1>7, RingHalfspaces DEF vs
    <3>2. u \in Point /\ w \in Point
      BY <1>3, <3>1
    <3>3. s * Cross(u, w, a) >= 0 /\ s * Cross(u, w, b) >= 0 /\ s * Cross(u, w, c) >= 0
      BY <1>3, <1>4, <1>8 DEF OnSide
    <3> HIDE DEF u, w
    <3>4. s * Cross(u, w, p) >= 0
      BY <1>2, <1>5, <3>2, <3>3, TriangleInside
    <3> QED BY <3>4 DEF u, w
  <2> QED BY <1>3, <2>1 DEF OnSide
<1>12. HalfspacesOf(ring) # NoHalfspaces
  BY <1>1, <1>3, <1>7
<1> QED BY <1>7, <1>10, <1>11, <1>12, InPieceIfOnSide DEF vs

----------------------------------------------------------------------------
(* The pieces of a site *)

SiteType == [outer : Seq(Point), pieces : Seq(Seq(Point))]

\* What the loop over the pieces has kept, as PiecesFor makes it.
KeepPiece(site, k, kept) ==
  IF HalfspacesOf(site.pieces[k]) = NoHalfspaces THEN kept ELSE Append(kept, HalfspacesOf(site.pieces[k]))

KeptPieces(site) ==
  CHOOSE kept : kept = [k \in 0 .. Len(site.pieces) |-> IF k = 0 THEN <<>> ELSE KeepPiece(site, k, kept[k - 1])]

\* The pieces of a site are what the loop has kept at its end.
LEMMA PiecesByLoop ==
  \A site : PiecesFor(site) = IF site.pieces = <<>> THEN <<HalfspacesOf(site.outer)>>
                              ELSE KeptPieces(site)[Len(site.pieces)]
<1>1. ASSUME NEW site
      PROVE  PiecesFor(site) = IF site.pieces = <<>> THEN <<HalfspacesOf(site.outer)>>
                               ELSE KeptPieces(site)[Len(site.pieces)]
  BY DEF PiecesFor, KeptPieces, KeepPiece
<1> QED BY <1>1

\* The loop exists: what it keeps follows from what it kept one piece before.
LEMMA KeptPiecesSteps ==
  ASSUME NEW site \in SiteType
  PROVE  /\ \A k \in 0 .. Len(site.pieces) :
              KeptPieces(site)[k] \in Seq({HalfspacesOf(site.pieces[j]) : j \in 1 .. Len(site.pieces)})
         /\ KeptPieces(site)[0] = <<>>
         /\ \A k \in 1 .. Len(site.pieces) :
              KeptPieces(site)[k] = KeepPiece(site, k, KeptPieces(site)[k - 1])
<1> DEFINE N == Len(site.pieces)
           S == {HalfspacesOf(site.pieces[j]) : j \in 1 .. N}
           T == Seq(S)
           F == [k \in 1 .. N |-> [kept \in T |-> KeepPiece(site, k, kept)]]
           Rule(g) == g = [k \in 0 .. N |-> IF k = 0 THEN <<>> ELSE KeepPiece(site, k, g[k - 1])]
<1>1. N \in Nat
  BY DEF SiteType
<1>2. <<>> \in T
  OBVIOUS
<1>3. ASSUME NEW k \in 1 .. N, NEW kept \in T PROVE KeepPiece(site, k, kept) \in T
  <2>1. HalfspacesOf(site.pieces[k]) \in S
    OBVIOUS
  <2> HIDE DEF S
  <2> QED BY <2>1 DEF KeepPiece
<1>4. F \in [1 .. N -> [T -> T]]
  BY <1>3
<1>5. PICK g \in [0 .. N -> T] : Iterates(g, N, <<>>, F)
  <2> HIDE DEF N, F, T
  <2> QED BY <1>1, <1>2, <1>4, RecursionExists
<1>6. \A k \in 1 .. N : g[k] = KeepPiece(site, k, g[k - 1])
  <2> TAKE k \in 1 .. N
  <2>1. g[k - 1] \in T
    BY <1>1
  <2>2. F[k][g[k - 1]] = KeepPiece(site, k, g[k - 1])
    BY <2>1
  <2> HIDE DEF F
  <2> QED BY <1>5, <2>2 DEF Iterates
<1>7. Rule(g)
  <2>1. g[0] = <<>>
    BY <1>5 DEF Iterates
  <2>2. \A k \in 0 .. N : g[k] = IF k = 0 THEN <<>> ELSE KeepPiece(site, k, g[k - 1])
    BY <1>1, <1>6, <2>1
  <2> HIDE DEF T, N
  <2> QED BY <2>2
<1>8. Rule(KeptPieces(site))
  <2>1. \E f : Rule(f)
    <3> HIDE DEF Rule
    <3> QED BY <1>7
  <2> QED BY <2>1 DEF KeptPieces
<1> DEFINE kept == KeptPieces(site)
<1> HIDE DEF kept
<1>9. \A k \in 0 .. N : kept[k] = IF k = 0 THEN <<>> ELSE KeepPiece(site, k, kept[k - 1])
  BY <1>8 DEF kept
<1>10. kept[0] = <<>> /\ \A k \in 1 .. N : kept[k] = KeepPiece(site, k, kept[k - 1])
  BY <1>1, <1>9
<1> DEFINE P == {k \in 0 .. N : kept[k] \in T}
<1>11. 0 .. N \subseteq P
  <2>1. 0 \in P
    <3>1. kept[0] \in T
      BY <1>2, <1>10
    <3> QED BY <1>1, <3>1
  <2>2. ASSUME NEW i \in 1 .. N, i - 1 \in P PROVE i \in P
    <3>1. kept[i - 1] \in T
      BY <2>2
    <3>2. kept[i] \in T
      <4> HIDE DEF T
      <4> QED BY <1>3, <1>10, <3>1
    <3> QED BY <1>1, <3>2
  <2> HIDE DEF P, N
  <2> QED BY <1>1, <2>1, <2>2, IntervalInduction
<1>12. \A k \in 0 .. N : kept[k] \in T
  BY <1>11
<1> QED BY <1>10, <1>12 DEF kept

\* What is kept are the halfspaces of the pieces that have some, in their order.
LEMMA KeptPiecesFacts ==
  ASSUME NEW site \in SiteType
  PROVE  LET N == Len(site.pieces)
             H(k) == HalfspacesOf(site.pieces[k])
             hss == KeptPieces(site)[N]
         IN  /\ hss \in Seq({H(j) : j \in 1 .. N})
             /\ \A x : x \in ToSet(hss) <=> x # NoHalfspaces /\ \E j \in 1 .. N : x = H(j)
             /\ \A i \in 1 .. N : (\A m \in 1 .. i : H(m) # NoHalfspaces) => i <= Len(hss) /\ hss[i] = H(i)
<1> DEFINE N == Len(site.pieces)
           H(k) == HalfspacesOf(site.pieces[k])
           kept == KeptPieces(site)
           All(k) == \A m \in 1 .. k : H(m) # NoHalfspaces
           Good(k) == /\ \A x : x \in ToSet(kept[k]) <=> x # NoHalfspaces /\ \E j \in 1 .. k : x = H(j)
                      /\ \A i \in 1 .. k : All(i) => i <= Len(kept[k]) /\ kept[k][i] = H(i)
                      /\ All(k) => Len(kept[k]) = k
           P == {k \in 0 .. N : Good(k)}
           S == {H(j) : j \in 1 .. N}
<1>1. N \in Nat
  BY DEF SiteType
<1>2. /\ \A k \in 0 .. N : kept[k] \in Seq(S)
      /\ kept[0] = <<>>
      /\ \A k \in 1 .. N : kept[k] = KeepPiece(site, k, kept[k - 1])
  BY KeptPiecesSteps
<1>3. \A k \in 1 .. N : kept[k] = IF H(k) = NoHalfspaces THEN kept[k - 1] ELSE Append(kept[k - 1], H(k))
  BY <1>2 DEF KeepPiece
<1>4. \A k \in 1 .. N : H(k) \in S
  OBVIOUS
<1> HIDE DEF kept, N, H, S
<1>5. 0 \in P
  <2>1. Good(0)
    BY <1>2 DEF ToSet
  <2> HIDE DEF Good
  <2> QED BY <1>1, <2>1
<1>6. ASSUME NEW i \in 1 .. N, i - 1 \in P PROVE i \in P
  <2> DEFINE u == kept[i - 1]
  <2>0. /\ \A x : x \in ToSet(u) <=> x # NoHalfspaces /\ \E j \in 1 .. i - 1 : x = H(j)
        /\ \A k \in 1 .. i - 1 : All(k) => k <= Len(u) /\ u[k] = H(k)
        /\ All(i - 1) => Len(u) = i - 1
    BY <1>6
  <2>1. u \in Seq(S) /\ i \in 0 .. N
    <3>1. i - 1 \in 0 .. N /\ i \in 0 .. N
      BY <1>1
    <3> QED BY <1>2, <3>1
  <2>2. Len(u) \in Nat /\ DOMAIN u = 1 .. Len(u)
    BY <2>1
  <2>3. \A j : j \in 1 .. i <=> j = i \/ j \in 1 .. i - 1
    BY <1>1
  <2> DEFINE v == kept[i]
  <2>4. v = IF H(i) = NoHalfspaces THEN u ELSE Append(u, H(i))
    BY <1>3
  <2> HIDE DEF u, v, P
  <2>5. CASE H(i) = NoHalfspaces
    <3>1. v = u
      BY <2>4, <2>5
    <3>2. ~ All(i)
      <4>1. i \in 1 .. i
        BY <1>1
      <4> QED BY <2>5, <4>1
    <3>3. \A x : x \in ToSet(v) <=> x # NoHalfspaces /\ \E j \in 1 .. i : x = H(j)
      BY <2>0, <2>3, <2>5, <3>1
    <3>4. \A k \in 1 .. i : All(k) => k <= Len(v) /\ v[k] = H(k)
      <4> HIDE DEF All
      <4> QED BY <2>0, <2>3, <3>1, <3>2
    <3>5. Good(i)
      BY <3>2, <3>3, <3>4 DEF v
    <3> HIDE DEF Good
    <3> QED BY <2>1, <3>5 DEF P
  <2>6. CASE H(i) # NoHalfspaces
    <3>1. v = Append(u, H(i))
      BY <2>4, <2>6
    <3>2. Len(v) = Len(u) + 1 /\ v[Len(u) + 1] = H(i) /\ \A j \in 1 .. Len(u) : v[j] = u[j]
      BY <1>4, <2>1, <3>1
    <3>3. DOMAIN v = 1 .. Len(u) + 1
      BY <1>4, <2>1, <3>1
    <3>4. \A x : x \in ToSet(v) <=> x = H(i) \/ x \in ToSet(u)
      <4>1. \A j : j \in 1 .. Len(u) + 1 <=> j = Len(u) + 1 \/ j \in 1 .. Len(u)
        BY <2>2
      <4> QED BY <2>2, <3>2, <3>3, <4>1 DEF ToSet
    <3>5. \A x : x \in ToSet(v) <=> x # NoHalfspaces /\ \E j \in 1 .. i : x = H(j)
      BY <2>0, <2>3, <2>6, <3>4
    <3>6. All(i) => All(i - 1)
      BY <2>3
    <3>7. \A k \in 1 .. i : All(k) => k <= Len(v) /\ v[k] = H(k)
      <4>1. ASSUME NEW k \in 1 .. i - 1, All(k) PROVE k <= Len(v) /\ v[k] = H(k)
        <5>1. k <= Len(u) /\ u[k] = H(k)
          <6> HIDE DEF All
          <6> QED BY <2>0, <4>1
        <5>2. k \in 1 .. Len(u)
          BY <1>1, <2>2, <5>1
        <5> QED BY <2>2, <3>2, <5>1, <5>2
      <4>2. ASSUME All(i) PROVE i <= Len(v) /\ v[i] = H(i)
        <5>1. Len(u) = i - 1
          <6> HIDE DEF All
          <6> QED BY <2>0, <3>6, <4>2
        <5>2. Len(v) = i /\ v[i] = H(i)
          BY <1>1, <3>2, <5>1
        <5> QED BY <1>1, <5>2
      <4> HIDE DEF All
      <4> QED BY <2>3, <4>1, <4>2
    <3>8. All(i) => Len(v) = i
      <4> SUFFICES ASSUME All(i) PROVE Len(v) = i
        OBVIOUS
      <4>1. Len(u) = i - 1
        <5> HIDE DEF All
        <5> QED BY <2>0, <3>6
      <4> QED BY <1>1, <3>2, <4>1
    <3>9. Good(i)
      <4> HIDE DEF All
      <4> QED BY <3>5, <3>7, <3>8 DEF v
    <3> HIDE DEF Good
    <3> QED BY <2>1, <3>9 DEF P
  <2> QED BY <2>5, <2>6
<1>7. Good(N) /\ kept[N] \in Seq(S)
  <2>1. 0 .. N \subseteq P
    <3> HIDE DEF P
    <3> QED BY <1>1, <1>5, <1>6, IntervalInduction
  <2>2. N \in 0 .. N
    BY <1>1
  <2> HIDE DEF Good
  <2> QED BY <1>2, <2>1, <2>2
<1> QED BY <1>7 DEF kept, N, H, S

\* The pieces of a site are the halfspaces of its rings, but for the degenerate
\* ones; they are numbered like the rings if the degenerate ones come last.
LEMMA PiecesFacts ==
  ASSUME NEW site \in SiteType
  PROVE  LET rings == RingsOf(site)
             hss == PiecesFor(site)
             H(k) == HalfspacesOf(rings[k])
         IN  /\ rings \in Seq(Seq(Point)) /\ Len(hss) \in Nat /\ DOMAIN hss = 1 .. Len(hss)
             /\ hss \in Seq({hss[j] : j \in DOMAIN hss})
             /\ \A j \in DOMAIN hss : \E k \in DOMAIN rings : hss[j] = H(k)
             /\ \A k \in DOMAIN rings : H(k) # NoHalfspaces => \E j \in DOMAIN hss : hss[j] = H(k)
             /\ ~ Degenerate(hss) => hss # <<>> /\ \A j \in DOMAIN hss : hss[j] # NoHalfspaces
             /\ Degenerate(hss) <=> ~ HasInterior(site)
             /\ PlainNumbers(site) =>
                  \A k \in DOMAIN rings : H(k) # NoHalfspaces => k \in DOMAIN hss /\ hss[k] = H(k)
<1> DEFINE rings == RingsOf(site)
           hss == PiecesFor(site)
           H(k) == HalfspacesOf(rings[k])
<1>1. site.outer \in Seq(Point) /\ site.pieces \in Seq(Seq(Point))
  BY DEF SiteType
<1>2. CASE site.pieces = <<>>
  <2>1. rings = <<site.outer>> /\ hss = <<HalfspacesOf(site.outer)>>
    BY <1>2, PiecesByLoop DEF RingsOf
  <2>2. Len(hss) = 1 /\ DOMAIN hss = 1 .. 1 /\ DOMAIN rings = 1 .. 1 /\ hss[1] = H(1) /\ rings \in Seq(Seq(Point))
    BY <1>1, <2>1
  <2>3. HasInterior(site) <=> H(1) # NoHalfspaces
    <3> HIDE DEF hss
    <3> QED BY <2>2 DEF HasInterior
  <2>4. Degenerate(hss) <=> H(1) = NoHalfspaces
    BY <2>1 DEF Degenerate
  <2>5. hss # <<>> /\ hss \in Seq({hss[j] : j \in DOMAIN hss})
    BY <2>1
  <2> HIDE DEF hss, H, rings
  <2>6. \A j : j \in 1 .. 1 <=> j = 1
    OBVIOUS
  <2> QED BY <2>2, <2>3, <2>4, <2>5, <2>6 DEF hss, H, rings
<1>3. CASE site.pieces # <<>>
  <2> DEFINE N == Len(site.pieces)
             S == {H(j) : j \in 1 .. N}
  <2>1. rings = site.pieces /\ hss = KeptPieces(site)[N]
    BY <1>3, PiecesByLoop DEF RingsOf
  <2>2. N \in Nat /\ DOMAIN rings = 1 .. N /\ rings \in Seq(Seq(Point))
    BY <1>1, <2>1
  <2>3. /\ hss \in Seq(S)
        /\ \A x : x \in ToSet(hss) <=> x # NoHalfspaces /\ \E j \in 1 .. N : x = H(j)
        /\ \A i \in 1 .. N : (\A m \in 1 .. i : H(m) # NoHalfspaces) => i <= Len(hss) /\ hss[i] = H(i)
    <3> DEFINE G(k) == HalfspacesOf(site.pieces[k])
    <3>1. /\ hss \in Seq({G(j) : j \in 1 .. N})
          /\ \A x : x \in ToSet(hss) <=> x # NoHalfspaces /\ \E j \in 1 .. N : x = G(j)
          /\ \A i \in 1 .. N : (\A m \in 1 .. i : G(m) # NoHalfspaces) => i <= Len(hss) /\ hss[i] = G(i)
      <4> HIDE DEF hss
      <4> QED BY <2>1, KeptPiecesFacts
    <3>2. \A k : H(k) = G(k)
      BY <2>1
    <3> HIDE DEF hss, H, G, N
    <3>3. S = {G(j) : j \in 1 .. N}
      BY <3>2
    <3> HIDE DEF S
    <3> QED BY <3>1, <3>2, <3>3
  <2>4. HasInterior(site) <=> \E k \in 1 .. N : H(k) # NoHalfspaces
    <3> HIDE DEF hss
    <3> QED BY <2>2 DEF HasInterior
  <2> HIDE DEF hss, H, N, S, rings
  <2>5. Len(hss) \in Nat /\ DOMAIN hss = 1 .. Len(hss) /\ ToSet(hss) = {hss[j] : j \in DOMAIN hss}
    BY <2>3 DEF ToSet
  <2>11. hss \in Seq({hss[j] : j \in DOMAIN hss})
    BY <2>3
  <2>6. \A j \in DOMAIN hss : hss[j] # NoHalfspaces /\ \E k \in 1 .. N : hss[j] = H(k)
    <3>1. \A j \in DOMAIN hss : hss[j] \in ToSet(hss)
      BY <2>5
    <3> QED BY <2>3, <3>1
  <2>7. \A k \in 1 .. N : H(k) # NoHalfspaces => \E j \in DOMAIN hss : hss[j] = H(k)
    <3>1. ASSUME NEW k \in 1 .. N, H(k) # NoHalfspaces PROVE \E j \in DOMAIN hss : hss[j] = H(k)
      <4>1. H(k) \in ToSet(hss)
        BY <2>3, <3>1
      <4> QED BY <2>5, <4>1
    <3> QED BY <3>1
  <2>8. Degenerate(hss) <=> hss = <<>>
    <3>1. hss # <<NoHalfspaces>>
      <4> SUFFICES ASSUME hss = <<NoHalfspaces>> PROVE FALSE
        OBVIOUS
      <4>1. 1 \in DOMAIN hss /\ hss[1] = NoHalfspaces
        OBVIOUS
      <4> QED BY <2>6, <4>1
    <3> QED BY <3>1 DEF Degenerate
  <2>9. hss = <<>> <=> ~ \E k \in 1 .. N : H(k) # NoHalfspaces
    <3>1. ASSUME hss = <<>>, NEW k \in 1 .. N, H(k) # NoHalfspaces PROVE FALSE
      <4>1. DOMAIN hss = {}
        BY <3>1
      <4> QED BY <2>7, <3>1, <4>1
    <3>2. ASSUME hss # <<>> PROVE \E k \in 1 .. N : H(k) # NoHalfspaces
      <4>1. 1 \in DOMAIN hss
        BY <2>3, <2>5, <3>2
      <4> QED BY <2>6, <4>1
    <3> QED BY <3>1, <3>2
  <2>10. ASSUME PlainNumbers(site), NEW k \in 1 .. N, H(k) # NoHalfspaces
         PROVE  k \in DOMAIN hss /\ hss[k] = H(k)
    <3>1. \A m \in 1 .. k : H(m) # NoHalfspaces
      <4> SUFFICES ASSUME NEW m \in 1 .. k, H(m) = NoHalfspaces PROVE FALSE
        OBVIOUS
      <4>1. m \in 1 .. N /\ m # k /\ m < k
        BY <2>2, <2>10
      <4>2. H(k) = NoHalfspaces
        BY <2>2, <2>10, <4>1 DEF PlainNumbers, H, rings
      <4> QED BY <2>10, <4>2
    <3>2. k <= Len(hss) /\ hss[k] = H(k)
      BY <2>3, <3>1
    <3> QED BY <2>2, <2>5, <3>2
  <2> QED BY <2>2, <2>4, <2>5, <2>6, <2>7, <2>8, <2>9, <2>10, <2>11 DEF hss, H, rings
<1> QED BY <1>2, <1>3

----------------------------------------------------------------------------
(* The big-M *)

\* Halfspaces as the edges between different points make them.
ProperHalfspaces ==
  {h \in [ax : Int, ay : Int, b : Int, norm2 : Nat] :
     h.norm2 > 0 /\ h.norm2 = h.ax * h.ax + h.ay * h.ay}

\* The boundary of g is no farther from the origin than that of h.
NoFarther(g, h) == g.b * g.b * h.norm2 <= h.b * h.b * g.norm2

\* If x / a <= y / b <= z / c then x / a <= z / c.
LEMMA FractionsOrdered ==
  ASSUME NEW x \in Nat, NEW y \in Nat, NEW z \in Nat, NEW a \in Nat, NEW b \in Nat, NEW c \in Nat,
         b > 0, x * b <= y * a, y * c <= z * b
  PROVE  x * c <= z * a
<1>1. (x * b) * c <= (y * a) * c
  <2> DEFINE u == x * b
             w == y * a
  <2>1. u \in Nat /\ w \in Nat /\ u <= w
    OBVIOUS
  <2> HIDE DEF u, w
  <2>2. u * c <= w * c
    BY <2>1
  <2> QED BY <2>2 DEF u, w
<1>2. (y * c) * a <= (z * b) * a
  <2> DEFINE u == y * c
             w == z * b
  <2>1. u \in Nat /\ w \in Nat /\ u <= w
    OBVIOUS
  <2> HIDE DEF u, w
  <2>2. u * a <= w * a
    BY <2>1
  <2> QED BY <2>2 DEF u, w
<1>3. (y * a) * c = (y * c) * a /\ (x * b) * c = b * (x * c) /\ (z * b) * a = b * (z * a)
  OBVIOUS
<1>4. b * (x * c) <= b * (z * a)
  <2> DEFINE u == (x * b) * c
             w == (z * b) * a
             m == (y * a) * c
  <2>1. u \in Int /\ w \in Int /\ m \in Int
    OBVIOUS
  <2>2. u <= m /\ m <= w /\ u = b * (x * c) /\ w = b * (z * a)
    BY <1>1, <1>2, <1>3
  <2> HIDE DEF u, w, m
  <2>3. u <= w
    BY <2>1, <2>2
  <2> QED BY <2>2, <2>3
<1>5. SUFFICES ASSUME z * a < x * c PROVE FALSE
  <2>1. x * c \in Int /\ z * a \in Int
    OBVIOUS
  <2> QED BY <2>1
<1> DEFINE u == x * c
           w == z * a
<1>6. u \in Nat /\ w \in Nat /\ w < u /\ b * u <= b * w
  BY <1>4, <1>5
<1> HIDE DEF u, w
<1>7. b * w < b * u
  BY <1>6
<1> QED BY <1>6, <1>7

\* The distances of halfspaces from the origin are totally ordered.
LEMMA NoFartherOrder ==
  /\ \A g, h \in ProperHalfspaces : NoFarther(g, h) \/ NoFarther(h, g)
  /\ \A f, g, h \in ProperHalfspaces : NoFarther(f, g) /\ NoFarther(g, h) => NoFarther(f, h)
<1>1. \A h \in ProperHalfspaces : h.b * h.b \in Nat /\ h.norm2 \in Nat /\ h.norm2 > 0 /\ h.b \in Int
  <2> TAKE h \in ProperHalfspaces
  <2>1. h.b \in Int /\ h.norm2 \in Nat /\ h.norm2 > 0
    BY DEF ProperHalfspaces
  <2> DEFINE b == h.b
  <2>2. b \in Int
    BY <2>1
  <2> HIDE DEF b
  <2>3. b * b \in Int /\ b * b >= 0
    BY <2>2
  <2> QED BY <2>1, <2>3 DEF b
<1>2. ASSUME NEW g \in ProperHalfspaces, NEW h \in ProperHalfspaces
      PROVE  NoFarther(g, h) \/ NoFarther(h, g)
  <2> DEFINE u == g.b * g.b * h.norm2
             w == h.b * h.b * g.norm2
  <2>1. u \in Int /\ w \in Int
    BY <1>1
  <2> HIDE DEF u, w
  <2>2. u <= w \/ w <= u
    BY <2>1
  <2> QED BY <2>2 DEF u, w, NoFarther
<1>3. ASSUME NEW f \in ProperHalfspaces, NEW g \in ProperHalfspaces, NEW h \in ProperHalfspaces,
             NoFarther(f, g), NoFarther(g, h)
      PROVE  NoFarther(f, h)
  <2> DEFINE x == f.b * f.b
             y == g.b * g.b
             z == h.b * h.b
             a == f.norm2
             b == g.norm2
             c == h.norm2
  <2>1. x \in Nat /\ y \in Nat /\ z \in Nat /\ a \in Nat /\ b \in Nat /\ c \in Nat /\ b > 0
    BY <1>1
  <2>2. x * b <= y * a /\ y * c <= z * b
    BY <1>3 DEF NoFarther
  <2> HIDE DEF x, y, z, a, b, c
  <2>3. x * c <= z * a
    BY <2>1, <2>2, FractionsOrdered
  <2> QED BY <2>3 DEF NoFarther, x, z, a, c
<1> QED BY <1>2, <1>3

\* Of finitely many halfspaces one has the boundary that is farthest from the
\* origin, and the big-M is made from it.
LEMMA FarthestBoundary ==
  ASSUME NEW S \in SUBSET ProperHalfspaces, IsFiniteSet(S), S # {}
  PROVE  BigM(S) \in S /\ \A h \in S : NoFarther(h, BigM(S))
<1> DEFINE N == Cardinality(S)
<1>1. N \in Nat /\ ExistsBijection(1 .. N, S)
  BY FS_CardinalityType
<1>2. PICK f \in [1 .. N -> S] : \A h \in S : \E k \in 1 .. N : f[k] = h
  BY <1>1 DEF ExistsBijection, Bijection, Surjection
<1> HIDE DEF N
<1>3. N >= 1
  BY <1>1, <1>2
<1> DEFINE Best(k, m) == m \in 1 .. k /\ \A j \in 1 .. k : NoFarther(f[j], f[m])
           P == {i \in 0 .. N - 1 : \E m : Best(i + 1, m)}
<1>4. 0 \in P
  <2>1. f[1] \in ProperHalfspaces
    BY <1>3
  <2>2. Best(1, 1)
    <3>1. NoFarther(f[1], f[1])
      BY <2>1, NoFartherOrder
    <3> QED BY <3>1
  <2> HIDE DEF Best
  <2> QED BY <1>1, <1>3, <2>2
<1>5. ASSUME NEW i \in 1 .. N - 1, i - 1 \in P PROVE i \in P
  <2>1. i \in Nat /\ i - 1 + 1 = i /\ i \in 0 .. N - 1
    BY <1>1
  <2>2. PICK m : Best(i, m)
    <3> HIDE DEF Best
    <3> QED BY <1>5, <2>1
  <2>3. /\ \A j : j \in 1 .. i + 1 <=> j = i + 1 \/ j \in 1 .. i
        /\ i + 1 \in 1 .. N /\ \A j \in 1 .. i : j \in 1 .. N
    BY <1>1
  <2>4. \A j \in 1 .. i + 1 : f[j] \in ProperHalfspaces
    BY <2>3
  <2>5. CASE NoFarther(f[m], f[i + 1])
    <3>1. \A j \in 1 .. i : NoFarther(f[j], f[i + 1])
      BY <2>2, <2>3, <2>4, <2>5, NoFartherOrder
    <3>2. NoFarther(f[i + 1], f[i + 1])
      BY <2>3, <2>4, NoFartherOrder
    <3>3. Best(i + 1, i + 1)
      BY <2>3, <3>1, <3>2
    <3> HIDE DEF Best
    <3> QED BY <2>1, <3>3
  <2>6. CASE NoFarther(f[i + 1], f[m])
    <3>1. Best(i + 1, m)
      BY <2>2, <2>3, <2>6
    <3> HIDE DEF Best
    <3> QED BY <2>1, <3>1
  <2> QED BY <2>2, <2>3, <2>4, <2>5, <2>6, NoFartherOrder
<1>6. N - 1 \in P
  <2> HIDE DEF P
  <2>1. 0 .. N - 1 \subseteq P
    BY <1>1, <1>3, <1>4, <1>5, IntervalInduction
  <2> QED BY <1>1, <1>3, <2>1
<1>7. PICK m : Best(N, m)
  <2>1. N - 1 + 1 = N
    BY <1>1
  <2> HIDE DEF Best
  <2> QED BY <1>6, <2>1
<1>8. f[m] \in S /\ \A h \in S : NoFarther(h, f[m])
  BY <1>2, <1>7
<1> QED BY <1>8 DEF BigM, NoFarther

----------------------------------------------------------------------------
(* Finitely many halfspaces *)

\* A function on a finite set has finitely many values.
LEMMA ImageFinite ==
  ASSUME NEW f, IsFiniteSet(DOMAIN f), f = [x \in DOMAIN f |-> f[x]]
  PROVE  IsFiniteSet({f[x] : x \in DOMAIN f})
<1> DEFINE S == DOMAIN f
           T == {f[x] : x \in S}
<1>1. f \in [S -> T] /\ \A t \in T : \E x \in S : f[x] = t
  OBVIOUS
<1> HIDE DEF S, T
<1>2. f \in Surjection(S, T)
  BY <1>1 DEF Surjection
<1>3. IsFiniteSet(S)
  BY DEF S
<1>4. IsFiniteSet(T)
  BY <1>2, <1>3, FS_Surjection
<1> QED BY <1>4 DEF T, S

\* A ring has finitely many halfspaces, each of an edge between different points.
LEMMA RingHalfspacesProper ==
  ASSUME NEW ring \in Seq(Point)
  PROVE  HalfspacesOf(ring) \subseteq ProperHalfspaces /\ IsFiniteSet(HalfspacesOf(ring))
<1> DEFINE vs == Corners(ring)
           sign == IF IsCcw(vs) THEN -1 ELSE 1
           h(k) == EdgeHalfspace(vs[k], vs[After(k, Len(vs))], sign)
<1>1. /\ vs \in Seq(Point) /\ HalfspacesOf(ring) = NoHalfspaces <=> Len(vs) < 3
      /\ Len(vs) >= 3 =>
           /\ HalfspacesOf(ring) = {h(k) : k \in 1 .. Len(vs)}
           /\ \A k \in 1 .. Len(vs) :
                After(k, Len(vs)) \in 1 .. Len(vs) /\ vs[k] # vs[After(k, Len(vs))]
  BY RingHalfspaces
<1> DEFINE N == Len(vs)
<1>2. N \in Nat
  <2> HIDE DEF vs
  <2> QED BY <1>1
<1>3. CASE N < 3
  <2>1. HalfspacesOf(ring) = {}
    BY <1>1, <1>3 DEF NoHalfspaces
  <2> QED BY <2>1, FS_EmptySet
<1>4. CASE N >= 3
  <2>1. \A k \in 1 .. N : vs[k] \in Point /\ vs[After(k, N)] \in Point /\ vs[k] # vs[After(k, N)]
    <3>1. \A k \in 1 .. N : After(k, N) \in 1 .. N /\ vs[k] # vs[After(k, N)]
      BY <1>1, <1>4
    <3>3. vs \in Seq(Point)
      BY RingHalfspaces
    <3> HIDE DEF vs
    <3>2. \A k \in 1 .. N : vs[k] \in Point
      BY <3>3
    <3> QED BY <3>1, <3>2
  <2>2. sign \in {-1, 1}
    OBVIOUS
  <2>3. \A k \in 1 .. N : h(k) \in ProperHalfspaces
    <3> TAKE k \in 1 .. N
    <3> DEFINE p == vs[k]
               r == vs[After(k, N)]
               g == EdgeHalfspace(p, r, sign)
    <3>1. p \in Point /\ r \in Point /\ p # r /\ g = h(k)
      BY <2>1
    <3> HIDE DEF p, r, vs, sign
    <3>2. /\ g.ax \in Int /\ g.ay \in Int /\ g.b \in Int /\ g.norm2 \in Nat
          /\ g.norm2 = g.ax * g.ax + g.ay * g.ay /\ g.norm2 > 0
      BY <2>2, <3>1, EdgeHalfspaceFacts
    <3>3. g = [ax |-> g.ax, ay |-> g.ay, b |-> g.b, norm2 |-> g.norm2]
      BY DEF EdgeHalfspace
    <3> HIDE DEF g
    <3>4. g \in [ax : Int, ay : Int, b : Int, norm2 : Nat]
      BY <3>2, <3>3
    <3>5. g \in ProperHalfspaces
      BY <3>2, <3>4 DEF ProperHalfspaces
    <3> QED BY <3>1, <3>5
  <2>4. HalfspacesOf(ring) = {h(k) : k \in 1 .. N}
    BY <1>1, <1>4
  <2> HIDE DEF h
  <2>5. IsFiniteSet({h(k) : k \in 1 .. N})
    <3> DEFINE f == [k \in 1 .. N |-> h(k)]
    <3>1. DOMAIN f = 1 .. N /\ f = [x \in DOMAIN f |-> f[x]] /\ {f[x] : x \in DOMAIN f} = {h(k) : k \in 1 .. N}
      OBVIOUS
    <3>2. IsFiniteSet(1 .. N)
      BY <1>2, FS_Interval
    <3> HIDE DEF f
    <3>3. IsFiniteSet({f[x] : x \in DOMAIN f})
      BY <3>1, <3>2, ImageFinite
    <3> QED BY <3>1, <3>3
  <2> HIDE DEF N
  <2> QED BY <2>3, <2>4, <2>5
<1> HIDE DEF N
<1> QED BY <1>2, <1>3, <1>4

\* A site has finitely many halfspaces, and some unless it is degenerate.
LEMMA SiteHalfspacesProper ==
  ASSUME NEW site \in SiteType
  PROVE  LET S == UNION ToSet(PiecesFor(site))
         IN  /\ S \subseteq ProperHalfspaces /\ IsFiniteSet(S)
             /\ ~ Degenerate(PiecesFor(site)) => S # {}
<1> DEFINE rings == RingsOf(site)
           hss == PiecesFor(site)
           H(k) == HalfspacesOf(rings[k])
<1>1. /\ rings \in Seq(Seq(Point)) /\ Len(hss) \in Nat /\ DOMAIN hss = 1 .. Len(hss)
      /\ hss \in Seq({hss[j] : j \in DOMAIN hss})
      /\ \A j \in DOMAIN hss : \E k \in DOMAIN rings : hss[j] = H(k)
      /\ ~ Degenerate(hss) => hss # <<>> /\ \A j \in DOMAIN hss : hss[j] # NoHalfspaces
  BY PiecesFacts
<1>2. \A j \in DOMAIN hss : hss[j] \subseteq ProperHalfspaces /\ IsFiniteSet(hss[j])
  <2> TAKE j \in DOMAIN hss
  <2>1. PICK k \in DOMAIN rings : hss[j] = H(k)
    BY <1>1
  <2>2. rings[k] \in Seq(Point)
    <3> HIDE DEF rings, hss
    <3> QED BY <1>1
  <2> HIDE DEF rings, hss
  <2> QED BY <2>1, <2>2, RingHalfspacesProper
<1> HIDE DEF hss, rings
<1>3. hss = [j \in DOMAIN hss |-> hss[j]]
  BY <1>1
<1>4. IsFiniteSet(ToSet(hss))
  <2>1. IsFiniteSet(DOMAIN hss)
    BY <1>1, FS_Interval
  <2> QED BY <1>3, <2>1, ImageFinite DEF ToSet
<1>5. \A T \in ToSet(hss) : T \subseteq ProperHalfspaces /\ IsFiniteSet(T)
  BY <1>2 DEF ToSet
<1>6. IsFiniteSet(UNION ToSet(hss))
  BY <1>4, <1>5, FS_UNION
<1>7. ~ Degenerate(hss) => UNION ToSet(hss) # {}
  <2> SUFFICES ASSUME ~ Degenerate(hss) PROVE UNION ToSet(hss) # {}
    OBVIOUS
  <2>1. 1 \in DOMAIN hss
    BY <1>1
  <2>3. hss[1] # {}
    BY <1>1, <2>1 DEF NoHalfspaces
  <2>2. hss[1] \in ToSet(hss)
    BY <2>1 DEF ToSet
  <2> QED BY <2>2, <2>3
<1> QED BY <1>5, <1>6, <1>7 DEF hss

----------------------------------------------------------------------------
(* What the big-M is greater than *)

\* The square of a difference is at most twice the sum of the squares.
LEMMA SquaresOfSum ==
  ASSUME NEW x \in Int, NEW y \in Int
  PROVE  (x - y) * (x - y) <= 2 * (x * x) + 2 * (y * y)
<1>1. (x + y) * (x + y) >= 0
  <2> DEFINE s == x + y
  <2>1. s \in Int
    OBVIOUS
  <2> HIDE DEF s
  <2>2. s * s >= 0
    BY <2>1
  <2> QED BY <2>2 DEF s
<1>2. (x + y) * (x + y) + (x - y) * (x - y) = 2 * (x * x) + 2 * (y * y)
  OBVIOUS
<1>3. (x + y) * (x + y) \in Int /\ (x - y) * (x - y) \in Int
  OBVIOUS
<1> QED BY <1>1, <1>2, <1>3

\* The squared distance of two points in terms of theirs from the origin.
LEMMA TwoDistances ==
  ASSUME NEW p \in Point, NEW r \in Point
  PROVE  /\ Dist2(p, <<0, 0>>) \in Nat /\ Dist2(r, <<0, 0>>) \in Nat /\ Dist2(p, r) \in Nat
         /\ Dist2(p, r) <= 2 * Dist2(p, <<0, 0>>) + 2 * Dist2(r, <<0, 0>>)
<1>1. PICK p1 \in Int, p2 \in Int : p = <<p1, p2>>
  BY DEF Point
<1>2. PICK r1 \in Int, r2 \in Int : r = <<r1, r2>>
  BY DEF Point
<1>3. p[1] = p1 /\ p[2] = p2 /\ r[1] = r1 /\ r[2] = r2
  BY <1>1, <1>2
<1>4. /\ Dist2(p, <<0, 0>>) = p1 * p1 + p2 * p2 /\ Dist2(r, <<0, 0>>) = r1 * r1 + r2 * r2
      /\ Dist2(p, r) = (p1 - r1) * (p1 - r1) + (p2 - r2) * (p2 - r2)
  BY <1>3 DEF Dist2
<1>5. /\ (p1 - r1) * (p1 - r1) <= 2 * (p1 * p1) + 2 * (r1 * r1)
      /\ (p2 - r2) * (p2 - r2) <= 2 * (p2 * p2) + 2 * (r2 * r2)
  BY SquaresOfSum
<1>6. <<0, 0>> \in Point
  BY DEF Point
<1>7. Dist2(p, <<0, 0>>) \in Nat /\ Dist2(r, <<0, 0>>) \in Nat /\ Dist2(p, r) \in Nat
  BY <1>6, CrossType
<1>8. /\ p1 * p1 \in Int /\ p2 * p2 \in Int /\ r1 * r1 \in Int /\ r2 * r2 \in Int
      /\ (p1 - r1) * (p1 - r1) \in Int /\ (p2 - r2) * (p2 - r2) \in Int
  OBVIOUS
<1> QED BY <1>4, <1>5, <1>7, <1>8

\* Two points no farther from the origin than half the big-M are no farther
\* from one another than the big-M.
LEMMA NearPointsLinearizable ==
  ASSUME NEW M \in ProperHalfspaces, NEW p \in Point, NEW r \in Point,
         WithinBigM(4 * Dist2(p, <<0, 0>>), 1, M), WithinBigM(4 * Dist2(r, <<0, 0>>), 1, M)
  PROVE  Linearizable(p, r, M)
<1> DEFINE P == Dist2(p, <<0, 0>>)
           R == Dist2(r, <<0, 0>>)
           D == Dist2(p, r)
           c == M.norm2
           t == 32 * M.b * M.b
<1>1. P \in Nat /\ R \in Nat /\ D \in Nat /\ D <= 2 * P + 2 * R
  BY TwoDistances
<1>2. c \in Nat /\ t \in Int
  BY DEF ProperHalfspaces
<1>3. (4 * P) * c <= t /\ (4 * R) * c <= t
  <2>1. t * 1 = t
    BY <1>2
  <2> HIDE DEF P, R
  <2> QED BY <2>1 DEF WithinBigM, P, R
<1>4. Linearizable(p, r, M) <=> D * c <= t
  <2>1. t * 1 = t
    BY <1>2
  <2> QED BY <2>1 DEF Linearizable, WithinBigM
<1> HIDE DEF P, R, D, c, t
<1>5. D * c <= (2 * P + 2 * R) * c
  <2> DEFINE s == 2 * P + 2 * R
  <2>1. s \in Nat /\ D <= s
    BY <1>1
  <2> HIDE DEF s
  <2>2. D * c <= s * c
    BY <1>1, <1>2, <2>1
  <2> QED BY <2>2 DEF s
<1>6. (2 * P + 2 * R) * c = 2 * (P * c) + 2 * (R * c) /\ (4 * P) * c = 4 * (P * c) /\ (4 * R) * c = 4 * (R * c)
  BY <1>1, <1>2
<1>7. P * c \in Int /\ R * c \in Int /\ D * c \in Int
  BY <1>1, <1>2
<1> QED BY <1>2, <1>3, <1>4, <1>5, <1>6, <1>7

\* Cauchy and Schwarz.
LEMMA ProductBounded ==
  ASSUME NEW a \in Int, NEW b \in Int, NEW x \in Int, NEW y \in Int
  PROVE  (a * x + b * y) * (a * x + b * y) <= (a * a + b * b) * (x * x + y * y)
<1> DEFINE d == a * y - b * x
<1>1. d \in Int /\ (a * x + b * y) * (a * x + b * y) + d * d = (a * a + b * b) * (x * x + y * y)
  OBVIOUS
<1>2. (a * x + b * y) * (a * x + b * y) \in Int /\ (a * a + b * b) * (x * x + y * y) \in Int
  OBVIOUS
<1> HIDE DEF d
<1>3. d * d \in Int /\ d * d >= 0
  BY <1>1
<1> QED BY <1>1, <1>2, <1>3

\* A halfspace is relaxed enough for a point that is no farther from the origin
\* than half the big-M.
LEMMA NearPointsRelaxed ==
  ASSUME NEW M \in ProperHalfspaces, NEW h \in ProperHalfspaces, NoFarther(h, M),
         NEW p \in Point, WithinBigM(4 * Dist2(p, <<0, 0>>), 1, M)
  PROVE  RelaxedHalfspace(h, p, M)
<1>1. PICK p1 \in Int, p2 \in Int : p = <<p1, p2>>
  BY DEF Point
<1>2. p[1] = p1 /\ p[2] = p2
  BY <1>1
<1> DEFINE P == p1 * p1 + p2 * p2
           c == M.norm2
           m == M.b * M.b
           k == h.norm2
           b == h.b
           l == h.ax * p1 + h.ay * p2
<1>3. /\ h.ax \in Int /\ h.ay \in Int /\ h.b \in Int /\ h.norm2 \in Nat /\ M.b \in Int /\ M.norm2 \in Nat
      /\ k = h.ax * h.ax + h.ay * h.ay
  BY DEF ProperHalfspaces
<1>4. P \in Int /\ c \in Nat /\ m \in Int /\ k \in Nat /\ b \in Int /\ l \in Int
  BY <1>3
<1>5. Dist2(p, <<0, 0>>) = P
  BY <1>2 DEF Dist2
<1>6. (4 * P) * c <= 32 * m
  <2>1. (4 * P) * c <= 32 * M.b * M.b * 1
    BY <1>5 DEF WithinBigM
  <2>2. 32 * M.b * M.b * 1 = 32 * m
    BY <1>3
  <2> QED BY <2>1, <2>2
<1>7. (b * b) * c <= m * k
  BY DEF NoFarther
<1>8. Excess(h, p) = l - b
  <2> DEFINE e(x, y) == h.ax * x + h.ay * y - h.b
  <2>1. Excess(h, p) = e(p[1], p[2])
    BY DEF Excess
  <2>2. e(p1, p2) = l - b
    <3> DEFINE u == h.ax * p1
               w == h.ay * p2
    <3>1. u \in Int /\ w \in Int /\ b \in Int
      BY <1>3
    <3>2. e(p1, p2) = u + w - b /\ l = u + w
      OBVIOUS
    <3> HIDE DEF u, w, b, e, l
    <3> QED BY <3>1, <3>2
  <2> HIDE DEF e
  <2>3. e(p[1], p[2]) = e(p1, p2)
    BY <1>2
  <2> QED BY <2>1, <2>2, <2>3
<1>9. l * l <= k * P
  <2> DEFINE a1 == h.ax
             a2 == h.ay
  <2>1. a1 \in Int /\ a2 \in Int /\ l = a1 * p1 + a2 * p2 /\ k = a1 * a1 + a2 * a2
    BY <1>3
  <2> HIDE DEF a1, a2, l, k, P
  <2> QED BY <2>1, ProductBounded DEF P
<1>10. RelaxedHalfspace(h, p, M) <=> l - b <= 0 \/ ((l - b) * (l - b)) * c <= (32 * m) * k
  <2>1. 32 * M.b * M.b * k = (32 * m) * k
    BY <1>3
  <2> QED BY <1>8, <2>1 DEF RelaxedHalfspace, WithinBigM
<1> HIDE DEF P, c, m, k, b, l
<1>11. (l - b) * (l - b) <= 2 * (k * P) + 2 * (b * b)
  <2>1. (l - b) * (l - b) <= 2 * (l * l) + 2 * (b * b)
    BY <1>4, SquaresOfSum
  <2>2. l * l \in Int /\ b * b \in Int /\ k * P \in Int /\ (l - b) * (l - b) \in Int
    BY <1>4
  <2> QED BY <1>9, <2>1, <2>2
<1>12. ((l - b) * (l - b)) * c <= (2 * (k * P) + 2 * (b * b)) * c
  <2> DEFINE u == (l - b) * (l - b)
             w == 2 * (k * P) + 2 * (b * b)
  <2>1. u \in Int /\ w \in Int /\ u <= w
    BY <1>4, <1>11
  <2> HIDE DEF u, w
  <2>2. u * c <= w * c
    BY <1>4, <2>1
  <2> QED BY <2>2 DEF u, w
<1>13. (2 * (k * P) + 2 * (b * b)) * c = 2 * (k * (P * c)) + 2 * ((b * b) * c)
  BY <1>4
<1>14. k * (P * c) <= 8 * (m * k)
  <2> DEFINE u == P * c
  <2>1. u \in Int /\ (4 * P) * c = 4 * u
    BY <1>4
  <2>2. u <= 8 * m
    <3> HIDE DEF u
    <3> QED BY <1>4, <1>6, <2>1
  <2> HIDE DEF u
  <2>3. k * u <= k * (8 * m)
    <3> DEFINE w == 8 * m
    <3>1. w \in Int /\ u <= w
      BY <1>4, <2>2
    <3> HIDE DEF w
    <3>2. k * u <= k * w
      BY <1>4, <2>1, <3>1
    <3> QED BY <3>2 DEF w
  <2>4. k * (8 * m) = 8 * (m * k)
    BY <1>4
  <2> QED BY <2>3, <2>4 DEF u
<1>15. /\ ((l - b) * (l - b)) * c \in Int /\ k * (P * c) \in Int /\ (b * b) * c \in Int /\ m * k \in Nat
       /\ (32 * m) * k = 32 * (m * k)
  <2>1. m \in Nat
    <3> DEFINE x == M.b
    <3>1. x \in Int
      BY <1>3
    <3> HIDE DEF x
    <3>2. x * x >= 0
      BY <3>1
    <3> QED BY <1>4, <3>2 DEF m, x
  <2> QED BY <1>4, <2>1
<1>16. ((l - b) * (l - b)) * c <= (32 * m) * k
  BY <1>7, <1>12, <1>13, <1>14, <1>15
<1> QED BY <1>10, <1>16

----------------------------------------------------------------------------
(* Points of a site and its pieces *)

\* A point in a piece lies in the site, if the rings are convex.
LEMMA PieceInSite ==
  ASSUME NEW site \in SiteType, ConvexSite(site), ~ Degenerate(PiecesFor(site)), NEW p \in Point,
         NEW j \in DOMAIN PiecesFor(site), PointInPiece(p, PiecesFor(site)[j])
  PROVE  InRings(p, RingsOf(site))
<1> DEFINE rings == RingsOf(site)
           hss == PiecesFor(site)
<1>1. PICK k \in DOMAIN rings : hss[j] = HalfspacesOf(rings[k])
  BY PiecesFacts
<1>2. hss[j] # NoHalfspaces /\ rings \in Seq(Seq(Point))
  BY PiecesFacts
<1>3. ConvexRing(rings[k])
  BY DEF ConvexSite
<1>4. PointInPiece(p, HalfspacesOf(rings[k])) /\ HalfspacesOf(rings[k]) # NoHalfspaces
  BY <1>1, <1>2
<1> HIDE DEF rings, hss
<1>5. rings[k] \in Seq(Point)
  BY <1>2
<1>6. InConvexRing(p, rings[k])
  BY <1>3, <1>4, <1>5, PieceInRing
<1> QED BY <1>6 DEF InRings, rings

\* A point of a site lies in a piece, which has the number of the ring if the
\* degenerate rings come last.
LEMMA RingIsPiece ==
  ASSUME NEW site \in SiteType, ConvexSite(site), NEW p \in Point,
         NEW k \in DOMAIN RingsOf(site), InConvexRing(p, RingsOf(site)[k])
  PROVE  /\ \E j \in DOMAIN PiecesFor(site) : PointInPiece(p, PiecesFor(site)[j])
         /\ PlainNumbers(site) => k \in DOMAIN PiecesFor(site) /\ PointInPiece(p, PiecesFor(site)[k])
<1> DEFINE rings == RingsOf(site)
           hss == PiecesFor(site)
           H(m) == HalfspacesOf(rings[m])
<1>1. /\ rings \in Seq(Seq(Point))
      /\ \A m \in DOMAIN rings : H(m) # NoHalfspaces => \E j \in DOMAIN hss : hss[j] = H(m)
      /\ PlainNumbers(site) =>
           \A m \in DOMAIN rings : H(m) # NoHalfspaces => m \in DOMAIN hss /\ hss[m] = H(m)
  BY PiecesFacts
<1>2. ConvexRing(rings[k]) /\ InConvexRing(p, rings[k])
  BY DEF ConvexSite
<1>3. k \in DOMAIN rings
  OBVIOUS
<1> HIDE DEF rings, hss
<1>4. rings[k] \in Seq(Point)
  BY <1>1, <1>3
<1>5. H(k) # NoHalfspaces /\ PointInPiece(p, H(k))
  BY <1>2, <1>4, RingInPiece
<1> HIDE DEF H
<1> QED BY <1>1, <1>3, <1>5 DEF hss

\* The sites of an instance, their rings and their spots.
LEMMA SitesTyped ==
  ASSUME inst \in DOMAIN Instances, NEW i \in V
  PROVE  /\ Site(i) \in SiteType /\ PiecesOf(i) = PiecesFor(Site(i))
         /\ ConvexRings => ConvexSite(Site(i))
         /\ DegenerateLast => PlainNumbers(Site(i))
         /\ \A q \in Positions : q[i] \in Point
         /\ \A p : p \in Spots(i) <=> InRings(p, RingsOf(Site(i))) /\ \E q \in Positions : q[i] = p
<1> DEFINE sites == Instances[inst].sites
<1>1. i + 1 \in DOMAIN sites /\ Site(i) = sites[i + 1] /\ ProperInstance(Instances[inst])
  BY InstanceFacts
<1>2. sites \in Seq(SiteType)
  BY <1>1 DEF ProperInstance, SiteType
<1>3. Positions \subseteq [V -> Point]
  BY <1>1 DEF ProperInstance, Positions, V, n
<1>4. Site(i) \in SiteType
  <2> HIDE DEF sites
  <2> QED BY <1>1, <1>2
<1>5. \A p : p \in Spots(i) <=> InRings(p, RingsOf(Site(i))) /\ \E q \in Positions : q[i] = p
  BY DEF Spots, InSite, Decomposition
<1> QED BY <1>1, <1>3, <1>4, <1>5 DEF ConvexRings, DegenerateLast, PiecesOf

\* Spots are points.
LEMMA SpotsArePoints ==
  ASSUME inst \in DOMAIN Instances, NEW i \in V, NEW p \in Spots(i)
  PROVE  p \in Point
BY SitesTyped

\* The halfspaces of a site describe it.
LEMMA SpotsInPieces ==
  ASSUME inst \in DOMAIN Instances, ConvexRings, NEW i \in V, NEW p \in Spots(i)
  PROVE  \E j \in DOMAIN PiecesOf(i) : PointInPiece(p, PiecesOf(i)[j])
<1>1. /\ Site(i) \in SiteType /\ ConvexSite(Site(i)) /\ PiecesOf(i) = PiecesFor(Site(i))
      /\ p \in Point /\ InRings(p, RingsOf(Site(i)))
  BY SitesTyped
<1>2. PICK k \in DOMAIN RingsOf(Site(i)) : InConvexRing(p, RingsOf(Site(i))[k])
  BY <1>1 DEF InRings
<1> QED BY <1>1, <1>2, RingIsPiece

\* The big-M stands for a halfspace of some piece, and no halfspace has a
\* boundary that is farther from the origin.
LEMMA BigMFacts ==
  ASSUME inst \in DOMAIN Instances, pieces = [i \in V |-> PiecesOf(i)],
         \A i \in V : ~ Degenerate(pieces[i])
  PROVE  LET M == BigM(UNION {UNION ToSet(pieces[i]) : i \in V})
         IN  /\ M \in ProperHalfspaces
             /\ \A i \in V : \A j \in DOMAIN pieces[i] : \A h \in pieces[i][j] :
                  h \in ProperHalfspaces /\ NoFarther(h, M)
<1> DEFINE S(i) == UNION ToSet(pieces[i])
           T == {S(i) : i \in V}
           M == BigM(UNION T)
<1>1. \A i \in V : pieces[i] = PiecesFor(Site(i)) /\ Site(i) \in SiteType
  BY SitesTyped
<1>2. \A i \in V : S(i) \subseteq ProperHalfspaces /\ IsFiniteSet(S(i)) /\ S(i) # {}
  <2> TAKE i \in V
  <2>1. ~ Degenerate(PiecesFor(Site(i)))
    BY <1>1
  <2> QED BY <1>1, <2>1, SiteHalfspacesProper
<1> HIDE DEF S
<1>3. IsFiniteSet(T)
  <2> DEFINE f == [i \in V |-> S(i)]
  <2>1. DOMAIN f = V /\ f = [x \in DOMAIN f |-> f[x]] /\ {f[x] : x \in DOMAIN f} = T
    OBVIOUS
  <2>2. IsFiniteSet(V) /\ 0 \in V
    BY VerticesFiniteLemma DEF VerticesFinite
  <2> HIDE DEF f, T
  <2>3. IsFiniteSet({f[x] : x \in DOMAIN f})
    BY <2>1, <2>2, ImageFinite
  <2> QED BY <2>1, <2>3
<1>4. IsFiniteSet(UNION T)
  <2>1. \A X \in T : IsFiniteSet(X)
    BY <1>2
  <2> HIDE DEF T
  <2> QED BY <1>3, <2>1, FS_UNION
<1>5. UNION T \subseteq ProperHalfspaces
  BY <1>2
<1>6. UNION T # {}
  <2>1. 0 \in V
    BY InstanceFacts
  <2>2. S(0) \in T /\ S(0) # {}
    BY <1>2, <2>1
  <2> HIDE DEF T
  <2> QED BY <2>2
<1>7. M \in UNION T /\ \A h \in UNION T : NoFarther(h, M)
  <2> HIDE DEF T
  <2> QED BY <1>4, <1>5, <1>6, FarthestBoundary
<1>8. ASSUME NEW i \in V, NEW j \in DOMAIN pieces[i], NEW h \in pieces[i][j] PROVE h \in UNION T
  <2>1. pieces[i][j] \in ToSet(pieces[i])
    BY DEF ToSet
  <2>2. h \in S(i)
    BY <2>1 DEF S
  <2> QED BY <2>2
<1>9. M \in ProperHalfspaces
  <2> HIDE DEF T
  <2> QED BY <1>5, <1>7
<1>10. \A i \in V : \A j \in DOMAIN pieces[i] : \A h \in pieces[i][j] :
         h \in ProperHalfspaces /\ NoFarther(h, M)
  <2> HIDE DEF T
  <2> QED BY <1>5, <1>7, <1>8
<1> HIDE DEF T
<1> QED BY <1>9, <1>10 DEF T, S

\* A halfspace is not mistaken for a missing big-M.
LEMMA ProperIsSome == None \notin ProperHalfspaces
<1> SUFFICES ASSUME None \in ProperHalfspaces PROVE FALSE
  OBVIOUS
<1>1. DOMAIN None = {"ax", "ay", "b", "norm2"} /\ DOMAIN None = {"none"}
  BY DEF None, ProperHalfspaces
<1>2. "none" \notin {"ax", "ay", "b", "norm2"}
  OBVIOUS
<1> QED BY <1>1, <1>2

----------------------------------------------------------------------------
(* Tours *)

\* An order of the sites names each of them once.
LEMMA OrderFacts ==
  ASSUME inst \in DOMAIN Instances, NEW order \in SetToSeqs(V)
  PROVE  /\ n \in Nat \ {0} /\ order \in [1 .. n -> V] /\ order \in Seq(V) /\ Len(order) = n /\ DOMAIN order = 1 .. n
         /\ \A j, k \in 1 .. n : order[j] = order[k] => j = k
         /\ \A i \in V : \E k \in 1 .. n : order[k] = i
         /\ ToSet(order) = V
<1>1. n \in Nat \ {0} /\ V = 0 .. n - 1 /\ n - 1 \in Nat
  BY InstanceFacts
<1>2. Cardinality(V) = n /\ IsFiniteSet(V) /\ Cardinality(1 .. n) = n
  <2>1. n \in Int /\ n - 1 \in Int /\ ~ (0 > n - 1) /\ ~ (1 > n) /\ n - 1 - 0 + 1 = n /\ n - 1 + 1 = n
    BY <1>1
  <2>2. IsFiniteSet(0 .. n - 1) /\ Cardinality(0 .. n - 1) = n - 1 - 0 + 1
    BY <2>1, FS_Interval
  <2>3. Cardinality(1 .. n) = n - 1 + 1
    BY <2>1, FS_Interval
  <2> QED BY <1>1, <2>1, <2>2, <2>3
<1>3. order \in [1 .. n -> V] /\ \A j, k \in 1 .. n : j # k => order[j] # order[k]
  BY <1>2 DEF SetToSeqs
<1>4. order \in Injection(1 .. n, V)
  BY <1>3 DEF Injection, IsInjective
<1>5. order \in Surjection(1 .. n, V)
  BY <1>2, <1>4, FS_Injection
<1>6. \A i \in V : \E k \in 1 .. n : order[k] = i
  BY <1>5 DEF Surjection
<1>7. order \in Seq(V) /\ Len(order) = n /\ DOMAIN order = 1 .. n
  BY <1>1, <1>3
<1>8. ToSet(order) = V
  BY <1>3, <1>6, <1>7 DEF ToSet
<1> QED BY <1>1, <1>3, <1>6, <1>7, <1>8

\* The closed tour in an order leaves every set of vertices but the empty and
\* the full one.
LEMMA TourLeaves ==
  ASSUME inst \in DOMAIN Instances, NEW order \in SetToSeqs(V), NEW T \in SUBSET V, T # {}, T # V
  PROVE  \E k \in 1 .. n : order[k] \in T /\ order[After(k, n)] \notin T
<1> SUFFICES ASSUME \A k \in 1 .. n : order[k] \in T => order[After(k, n)] \in T PROVE FALSE
  OBVIOUS
<1>1. /\ n \in Nat \ {0} /\ order \in [1 .. n -> V]
      /\ \A i \in V : \E k \in 1 .. n : order[k] = i
  BY OrderFacts
<1>2. PICK m \in 1 .. n : order[m] \in T
  BY <1>1
<1> HIDE DEF n, V
<1>3. \A k \in 1 .. n - 1 : order[k] \in T => order[k + 1] \in T
  <2> TAKE k \in 1 .. n - 1
  <2>1. k \in 1 .. n /\ After(k, n) = k + 1
    BY <1>1, NextPosition
  <2> QED BY <2>1
<1>4. order[n] \in T
  <2> DEFINE P == {i \in 0 .. n - m : order[m + i] \in T}
  <2>1. n - m \in Nat
    BY <1>1, <1>2
  <2>2. 0 \in P
    BY <1>2, <2>1
  <2>3. ASSUME NEW i \in 1 .. n - m, i - 1 \in P PROVE i \in P
    <3>1. m + (i - 1) \in 1 .. n - 1 /\ m + (i - 1) + 1 = m + i /\ i \in 0 .. n - m
      BY <1>1, <2>1
    <3>2. order[m + (i - 1)] \in T
      BY <2>3
    <3> QED BY <1>3, <3>1, <3>2
  <2>4. n - m \in P
    <3> HIDE DEF P
    <3>1. 0 .. n - m \subseteq P
      BY <2>1, <2>2, <2>3, IntervalInduction
    <3> QED BY <2>1, <3>1
  <2>5. m + (n - m) = n
    BY <1>1
  <2> QED BY <2>4, <2>5
<1>5. order[1] \in T
  <2>1. After(n, n) = 1 /\ n \in 1 .. n
    BY <1>1, NextPosition
  <2> QED BY <1>4, <2>1
<1>6. \A k \in 1 .. n : order[k] \in T
  <2> DEFINE P == {i \in 0 .. n - 1 : order[1 + i] \in T}
  <2>1. n - 1 \in Nat
    BY <1>1
  <2>2. 0 \in P
    BY <1>5, <2>1
  <2>3. ASSUME NEW i \in 1 .. n - 1, i - 1 \in P PROVE i \in P
    <3>1. 1 + (i - 1) \in 1 .. n - 1 /\ 1 + (i - 1) + 1 = 1 + i /\ i \in 0 .. n - 1
      BY <1>1, <2>1
    <3>2. order[1 + (i - 1)] \in T
      BY <2>3
    <3> QED BY <1>3, <3>1, <3>2
  <2>4. 0 .. n - 1 \subseteq P
    <3> HIDE DEF P
    <3> QED BY <2>1, <2>2, <2>3, IntervalInduction
  <2> TAKE k \in 1 .. n
  <2>5. k - 1 \in 0 .. n - 1 /\ 1 + (k - 1) = k
    BY <1>1
  <2> QED BY <2>4, <2>5
<1> QED BY <1>1, <1>6

\* A pair has two elements.
LEMMA PairCardinality ==
  ASSUME NEW a, NEW b, a # b
  PROVE  IsFiniteSet({a, b}) /\ Cardinality({a, b}) = 2
<1>1. IsFiniteSet({a}) /\ Cardinality({a}) = 1
  BY FS_Singleton
<1>2. {a} \cup {b} = {a, b} /\ b \notin {a}
  OBVIOUS
<1>3. IsFiniteSet({a} \cup {b}) /\ Cardinality({a} \cup {b}) = Cardinality({a}) + 1
  BY <1>1, <1>2, FS_AddElement
<1> QED BY <1>1, <1>2, <1>3

\* A set with two different elements has at least two.
LEMMA TwoElements ==
  ASSUME NEW S, IsFiniteSet(S), NEW a \in S, NEW b \in S, a # b
  PROVE  Cardinality(S) >= 2
<1>1. Cardinality({a, b}) = 2
  BY PairCardinality
<1>2. Cardinality({a, b}) <= Cardinality(S) /\ Cardinality(S) \in Nat
  BY FS_Subset, FS_CardinalityType
<1> QED BY <1>1, <1>2

\* The edges of a closed tour through three sites and more, by their first
\* position: each connects two sites, and no two of them are the same.
LEMMA TourEdgesFacts ==
  ASSUME inst \in DOMAIN Instances, NEW order \in SetToSeqs(V)
  PROVE  LET e(k) == {order[k], order[After(k, n)]}
         IN  /\ TourEdges(order) = {e(k) : k \in 1 .. n}
             /\ \A k \in 1 .. n : After(k, n) \in 1 .. n
             /\ n >= 2 => \A k \in 1 .. n : order[After(k, n)] # order[k]
             /\ n >= 3 => \A j, k \in 1 .. n : e(j) = e(k) => j = k
<1> DEFINE e(k) == {order[k], order[After(k, n)]}
<1>1. /\ n \in Nat \ {0} /\ order \in [1 .. n -> V] /\ Len(order) = n /\ DOMAIN order = 1 .. n
      /\ \A j, k \in 1 .. n : order[j] = order[k] => j = k
  BY OrderFacts
<1>2. TourEdges(order) = {e(k) : k \in 1 .. n}
  BY <1>1 DEF TourEdges
<1>3. \A k \in 1 .. n : After(k, n) = IF k = n THEN 1 ELSE k + 1
  BY <1>1, NextPosition
<1> HIDE DEF n, V
<1>4. \A k \in 1 .. n : After(k, n) \in 1 .. n /\ (n >= 2 => After(k, n) # k)
  BY <1>1, <1>3
<1>5. ASSUME n >= 3, NEW j \in 1 .. n, NEW k \in 1 .. n, e(j) = e(k) PROVE j = k
  <2>1. order[j] = order[k] \/ (order[j] = order[After(k, n)] /\ order[After(j, n)] = order[k])
    BY <1>5
  <2>2. j = k \/ (j = After(k, n) /\ After(j, n) = k)
    BY <1>1, <1>4, <2>1
  <2>3. ~ (j = After(k, n) /\ After(j, n) = k)
    BY <1>1, <1>3, <1>5
  <2> QED BY <2>2, <2>3
<1>6. n >= 2 => \A k \in 1 .. n : order[After(k, n)] # order[k]
  BY <1>1, <1>4
<1> HIDE DEF e
<1> QED BY <1>2, <1>4, <1>5, <1>6 DEF e

\* The edges of a tour of two sites and more are edges of the model.
LEMMA TourInEdges ==
  ASSUME inst \in DOMAIN Instances, n >= 2, NEW order \in SetToSeqs(V)
  PROVE  TourEdges(order) \subseteq EdgesOn(V)
<1> DEFINE e(k) == {order[k], order[After(k, n)]}
<1>1. /\ TourEdges(order) = {e(k) : k \in 1 .. n}
      /\ \A k \in 1 .. n : After(k, n) \in 1 .. n /\ order[After(k, n)] # order[k]
  BY TourEdgesFacts
<1>2. order \in [1 .. n -> V]
  BY OrderFacts
<1>3. ASSUME NEW k \in 1 .. n PROVE e(k) \in EdgesOn(V)
  <2>1. order[k] \in V /\ order[After(k, n)] \in V /\ order[After(k, n)] # order[k]
    BY <1>1, <1>2
  <2>2. Cardinality(e(k)) = 2
    BY <2>1, PairCardinality
  <2> QED BY <2>1, <2>2 DEF EdgesOn
<1> HIDE DEF e
<1> QED BY <1>1, <1>3

\* No cut of the callback removes a tour: the tour enters the vertex set and
\* leaves it, by different edges.
LEMMA TourSatisfiesCut ==
  ASSUME inst \in DOMAIN Instances, NEW order \in SetToSeqs(V), NEW S \in SUBSET V, S # {}, S # V, n >= 3
  PROVE  CutSatisfied(S, TourEdges(order))
<1> DEFINE e(k) == {order[k], order[After(k, n)]}
           xi == TourEdges(order)
           L == {x \in xi : x \cap S # {} /\ x \ S # {}}
<1>1. /\ xi = {e(k) : k \in 1 .. n}
      /\ \A k \in 1 .. n : After(k, n) \in 1 .. n
      /\ \A j, k \in 1 .. n : e(j) = e(k) => j = k
  BY TourEdgesFacts
<1>2. order \in [1 .. n -> V]
  BY OrderFacts
<1>3. PICK j \in 1 .. n : order[j] \in S /\ order[After(j, n)] \notin S
  BY TourLeaves
<1>4. PICK k \in 1 .. n : order[k] \in V \ S /\ order[After(k, n)] \notin V \ S
  <2>1. V \ S \in SUBSET V /\ V \ S # {} /\ V \ S # V
    OBVIOUS
  <2> QED BY <2>1, TourLeaves
<1>5. order[After(k, n)] \in S
  BY <1>1, <1>2, <1>4
<1>6. e(j) \in L /\ e(k) \in L /\ e(j) # e(k)
  <2>1. j # k
    BY <1>3, <1>4
  <2>2. e(j) # e(k)
    <3> HIDE DEF e
    <3> QED BY <1>1, <2>1
  <2>3. e(j) \in xi /\ e(k) \in xi
    <3> HIDE DEF e, xi
    <3> QED BY <1>1
  <2> HIDE DEF xi
  <2> QED BY <1>3, <1>4, <1>5, <2>2, <2>3
<1>7. IsFiniteSet(L)
  <2>1. n >= 2
    BY OrderFacts
  <2>2. xi \subseteq SUBSET V
    BY <2>1, TourInEdges DEF EdgesOn
  <2>3. IsFiniteSet(SUBSET V)
    BY VerticesFiniteLemma, FS_SUBSET DEF VerticesFinite
  <2>4. L \in SUBSET (SUBSET V)
    BY <2>2
  <2> HIDE DEF L
  <2> QED BY <2>3, <2>4, FS_Subset
<1> HIDE DEF L
<1>8. Cardinality(L) >= 2
  <2> HIDE DEF e
  <2> QED BY <1>6, <1>7, TwoElements
<1> QED BY <1>8 DEF CutSatisfied, L

\* Two edges of the tour meet at every site.
LEMMA TourDegreeTwo ==
  ASSUME inst \in DOMAIN Instances, n >= 3, NEW order \in SetToSeqs(V)
  PROVE  DegreeTwo(TourEdges(order), V)
<1> DEFINE e(k) == {order[k], order[After(k, n)]}
           xi == TourEdges(order)
<1>1. /\ xi = {e(k) : k \in 1 .. n}
      /\ \A k \in 1 .. n : After(k, n) \in 1 .. n
      /\ \A j, k \in 1 .. n : e(j) = e(k) => j = k
  BY TourEdgesFacts
<1>2. /\ n \in Nat \ {0} /\ order \in [1 .. n -> V]
      /\ \A j, k \in 1 .. n : order[j] = order[k] => j = k
      /\ \A i \in V : \E k \in 1 .. n : order[k] = i
  BY OrderFacts
<1>3. xi \subseteq EdgesOn(V)
  <2>1. n >= 2
    BY <1>2
  <2> QED BY <2>1, TourInEdges
<1>4. ASSUME NEW i \in V PROVE Cardinality({x \in xi : i \in x}) = 2
  <2>1. PICK k \in 1 .. n : order[k] = i
    BY <1>2
  <2> DEFINE b == IF k = 1 THEN n ELSE k - 1
  <2>2. b \in 1 .. n /\ After(b, n) = k /\ b # k
    <3>1. b \in 1 .. n /\ b # k /\ k = IF b = n THEN 1 ELSE b + 1
      <4> HIDE DEF n
      <4> QED BY <1>2
    <3> HIDE DEF b
    <3> QED BY <1>2, <3>1, NextPosition
  <2> HIDE DEF b
  <2>3. \A j \in 1 .. n : After(j, n) = k => j = b
    <3> TAKE j \in 1 .. n
    <3>1. After(j, n) = (IF j = n THEN 1 ELSE j + 1) /\ After(b, n) = IF b = n THEN 1 ELSE b + 1
      BY <1>2, <2>2, NextPosition
    <3> HIDE DEF n
    <3> QED BY <1>2, <2>2, <3>1
  <2>4. \A j \in 1 .. n : i \in e(j) <=> j = k \/ j = b
    <3> TAKE j \in 1 .. n
    <3>1. i \in e(j) <=> order[j] = order[k] \/ order[After(j, n)] = order[k]
      BY <2>1
    <3> HIDE DEF e
    <3> QED BY <1>1, <1>2, <2>2, <2>3, <3>1
  <2>5. e(k) # e(b)
    <3> HIDE DEF e
    <3> QED BY <1>1, <2>2
  <2>6. {x \in xi : i \in x} = {e(k), e(b)}
    <3> HIDE DEF e, xi
    <3> QED BY <1>1, <2>2, <2>4
  <2> HIDE DEF e, xi
  <2> QED BY <2>5, <2>6, PairCardinality
<1> QED BY <1>3, <1>4 DEF DegreeTwo

----------------------------------------------------------------------------
(* The warm start *)

\* The nearest of some points is one of them.
LEMMA NearestIsOne ==
  ASSUME NEW p \in Point, NEW S \in SUBSET Point, S # {}
  PROVE  Nearest(p, S) \in S
<1> DEFINE D == {Dist2(p, s) : s \in S}
<1>1. \A s \in S : Dist2(p, s) \in Nat
  BY CrossType
<1>2. PICK m \in D : \A x \in D : m <= x
  <2>1. D \in SUBSET Nat /\ D # {}
    BY <1>1
  <2> HIDE DEF D
  <2> QED BY <2>1, LeastElement
<1>3. PICK r \in S : m = Dist2(p, r)
  OBVIOUS
<1>4. \A s \in S : Dist2(p, r) <= Dist2(p, s)
  BY <1>2, <1>3
<1> QED BY <1>4 DEF Nearest

\* A polygon with an area has points to look at.
LEMMA SpotsExist ==
  ASSUME inst \in DOMAIN Instances, NEW i \in V, HasInterior(Site(i))
  PROVE  /\ Spots(i) # {} /\ Spots(i) \subseteq Point
         /\ Site(i).pieces = <<>> => \A q \in Positions : q[i] \in Spots(i)
<1> DEFINE I == Instances[inst]
<1>1. /\ ProperInstance(I) /\ Site(i) = I.sites[i + 1] /\ i \in 0 .. Len(I.sites) - 1
  BY InstanceFacts DEF V, n
<1>2. /\ \E q \in Positions : InRings(q[i], RingsOf(Site(i)))
      /\ Site(i).pieces = <<>> => \A q \in Positions : InConvexRing(q[i], Site(i).outer)
  BY <1>1 DEF ProperInstance, Positions
<1>3. \A p : p \in Spots(i) <=> InRings(p, RingsOf(Site(i))) /\ \E q \in Positions : q[i] = p
  BY SitesTyped
<1>4. ASSUME Site(i).pieces = <<>>, NEW q \in Positions PROVE q[i] \in Spots(i)
  <2>1. RingsOf(Site(i)) = <<Site(i).outer>>
    BY <1>4 DEF RingsOf
  <2>2. 1 \in DOMAIN RingsOf(Site(i)) /\ RingsOf(Site(i))[1] = Site(i).outer
    BY <2>1
  <2>3. InRings(q[i], RingsOf(Site(i)))
    BY <1>2, <1>4, <2>2 DEF InRings
  <2> QED BY <1>3, <2>3
<1>5. Spots(i) \subseteq Point
  BY SpotsArePoints
<1> QED BY <1>2, <1>3, <1>4, <1>5

\* The points of a tour are projected into the polygons.
LEMMA ProjectedRight ==
  ASSUME inst \in DOMAIN Instances, NEW order \in SetToSeqs(V), NEW pts \in ProjectedTours(order)
  PROVE  /\ pts = [k \in 1 .. n |-> pts[k]]
         /\ \A k \in 1 .. n : HasInterior(Site(order[k])) => pts[k] \in Spots(order[k])
<1>1. order \in [1 .. n -> V] /\ DOMAIN order = 1 .. n
  BY OrderFacts
<1>2. PICK q \in Positions :
        pts = [k \in 1 .. n |-> ProjectPointToPolygon(q[order[k]], order[k])]
  BY <1>1 DEF ProjectedTours
<1>3. ASSUME NEW k \in 1 .. n, HasInterior(Site(order[k])) PROVE pts[k] \in Spots(order[k])
  <2> DEFINE i == order[k]
  <2>1. i \in V /\ pts[k] = ProjectPointToPolygon(q[i], i)
    BY <1>1, <1>2
  <2> HIDE DEF i
  <2>2. q[i] \in Point /\ \A p : p \in Spots(i) <=> InRings(p, RingsOf(Site(i))) /\ \E r \in Positions : r[i] = p
    BY <2>1, SitesTyped
  <2>3. Spots(i) # {} /\ Spots(i) \subseteq Point
    BY <1>3, <2>1, SpotsExist DEF i
  <2>4. CASE InSite(q[i], i)
    <3>1. InRings(q[i], RingsOf(Site(i)))
      BY <2>4 DEF InSite, Decomposition
    <3> QED BY <2>1, <2>2, <2>4, <3>1 DEF ProjectPointToPolygon, i
  <2>5. CASE ~ InSite(q[i], i)
    <3>1. Nearest(q[i], Spots(i)) \in Spots(i)
      BY <2>2, <2>3, NearestIsOne
    <3> QED BY <2>1, <2>5, <3>1 DEF ProjectPointToPolygon, i
  <2> QED BY <2>4, <2>5
<1>4. pts = [k \in 1 .. n |-> pts[k]]
  BY <1>2
<1> QED BY <1>3, <1>4

\* The first crossing is one.
LEMMA FirstCrossing ==
  ASSUME NEW N \in Nat, NEW pts, DOMAIN pts = 1 .. N, Crossings(pts) # {}
  PROVE  FindIntersection(pts) \in Crossings(pts)
<1> DEFINE C == Crossings(pts)
           A == {c[1] : c \in C}
<1>1. C \subseteq (1 .. N) \X (1 .. N) /\ C # {}
  BY DEF Crossings
<1> HIDE DEF C
<1>2. PICK a \in A : \A x \in A : a <= x
  <2>1. A \in SUBSET Nat /\ A # {}
    BY <1>1
  <2> HIDE DEF A
  <2> QED BY <2>1, LeastElement
<1> DEFINE B == {c[2] : c \in {d \in C : d[1] = a}}
<1>3. PICK b \in B : \A x \in B : b <= x
  <2>1. B \in SUBSET Nat /\ B # {}
    BY <1>1
  <2> HIDE DEF B
  <2> QED BY <2>1, LeastElement
<1>4. PICK c \in C : c[1] = a /\ c[2] = b
  OBVIOUS
<1>5. ASSUME NEW d \in C PROVE c[1] < d[1] \/ (c[1] = d[1] /\ c[2] <= d[2])
  <2>1. d[1] \in Nat /\ a \in Nat /\ a <= d[1]
    BY <1>1, <1>2, <1>4
  <2>2. d[1] = a => b <= d[2]
    BY <1>3
  <2> QED BY <1>4, <2>1, <2>2
<1> QED BY <1>5 DEF FindIntersection, C

\* An injection of the positions into the sites is an order of the sites.
LEMMA OrdersAreInjections ==
  ASSUME inst \in DOMAIN Instances, NEW f \in [1 .. n -> V],
         \A j, k \in 1 .. n : f[j] = f[k] => j = k
  PROVE  f \in SetToSeqs(V)
<1>1. n \in Nat \ {0} /\ V = 0 .. n - 1 /\ n - 1 \in Nat
  BY InstanceFacts
<1>2. Cardinality(V) = n
  <2>1. n - 1 \in Int /\ ~ (0 > n - 1) /\ n - 1 - 0 + 1 = n
    BY <1>1
  <2> QED BY <1>1, <2>1, FS_Interval
<1> QED BY <1>2 DEF SetToSeqs

\* A 2-opt swap leaves a tour of all sites.
LEMMA SwapKeepsOrder ==
  ASSUME inst \in DOMAIN Instances, NEW order \in SetToSeqs(V),
         NEW i \in 1 .. n, NEW j \in 1 .. n, i <= j
  PROVE  TwoOptSwap(order, i, j) \in SetToSeqs(V)
<1> DEFINE m(k) == IF k \in i + 1 .. j THEN i + 1 + j - k ELSE k
           f == TwoOptSwap(order, i, j)
<1>1. /\ n \in Nat /\ order \in [1 .. n -> V] /\ DOMAIN order = 1 .. n
      /\ \A k, l \in 1 .. n : order[k] = order[l] => k = l
  BY OrderFacts
<1>2. \A k \in 1 .. n : m(k) \in 1 .. n
  <2> HIDE DEF n
  <2> QED BY <1>1
<1>3. \A k, l \in 1 .. n : m(k) = m(l) => k = l
  <2> HIDE DEF n
  <2> QED BY <1>1
<1>4. f = [k \in 1 .. n |-> order[m(k)]]
  <2>1. f = [k \in 1 .. n |-> IF k \in i + 1 .. j THEN order[i + 1 + j - k] ELSE order[k]]
    BY <1>1 DEF TwoOptSwap
  <2>2. \A k \in 1 .. n : (IF k \in i + 1 .. j THEN order[i + 1 + j - k] ELSE order[k]) = order[m(k)]
    OBVIOUS
  <2> HIDE DEF m, f
  <2> QED BY <2>1, <2>2
<1> HIDE DEF m
<1> HIDE DEF f
<1>5. f \in [1 .. n -> V] /\ \A k, l \in 1 .. n : f[k] = f[l] => k = l
  <2>1. \A k \in 1 .. n : f[k] = order[m(k)] /\ m(k) \in 1 .. n /\ order[m(k)] \in V
    BY <1>1, <1>2, <1>4
  <2>2. f \in [1 .. n -> V]
    BY <1>4, <2>1
  <2>3. \A k, l \in 1 .. n : f[k] = f[l] => m(k) = m(l)
    BY <1>1, <2>1
  <2> QED BY <1>3, <2>2, <2>3
<1>6. f \in SetToSeqs(V)
  BY <1>5, OrdersAreInjections
<1> QED BY <1>6 DEF f

----------------------------------------------------------------------------
(* The start for Gurobi *)

\* A point that lies in no piece is moved to the nearest point of the polygon
\* and belongs to a piece that it lies in.
LEMMA NearestPieceRight ==
  ASSUME inst \in DOMAIN Instances, ConvexRings, DegenerateLast, NEW i \in V, HasInterior(Site(i)),
         NEW p \in Point
  PROVE  LET s == NearestPiece(i, p)
         IN  s[2] \in Spots(i) /\ s[1] \in DOMAIN PiecesOf(i) /\ PointInPiece(s[2], PiecesOf(i)[s[1]])
<1> DEFINE rings == RingsOf(Site(i))
           spots == {s \in (DOMAIN rings) \X Spots(i) : InConvexRing(s[2], rings[s[1]])}
           best  == {s \in spots : \A t \in spots : Dist2(p, s[2]) <= Dist2(p, t[2])}
           Good(s) == \A t \in best : s[1] <= t[1]
<1>1. /\ Site(i) \in SiteType /\ PiecesOf(i) = PiecesFor(Site(i))
      /\ ConvexSite(Site(i)) /\ PlainNumbers(Site(i))
      /\ \A x : x \in Spots(i) => InRings(x, rings)
  BY SitesTyped
<1>2. Spots(i) # {} /\ Spots(i) \subseteq Point
  BY SpotsExist
<1>3. rings \in Seq(Seq(Point)) /\ DOMAIN rings \subseteq Nat
  <2>1. rings \in Seq(Seq(Point))
    BY <1>1, PiecesFacts
  <2> HIDE DEF rings
  <2> QED BY <2>1
<1> HIDE DEF rings
<1>4. spots # {}
  <2>1. PICK x \in Spots(i) : InRings(x, rings)
    BY <1>1, <1>2
  <2>2. PICK k \in DOMAIN rings : InConvexRing(x, rings[k])
    BY <2>1 DEF InRings
  <2>3. <<k, x>> \in spots
    BY <2>1, <2>2
  <2> QED BY <2>3
<1>5. best # {}
  <2> DEFINE D == {Dist2(p, s[2]) : s \in spots}
  <2>1. D \in SUBSET Nat /\ D # {}
    BY <1>2, <1>4, CrossType
  <2>2. PICK m \in D : \A x \in D : m <= x
    <3> HIDE DEF D
    <3> QED BY <2>1, LeastElement
  <2>3. PICK s \in spots : m = Dist2(p, s[2])
    OBVIOUS
  <2>4. s \in best
    BY <2>2, <2>3
  <2> QED BY <2>4
<1>6. best \subseteq spots
  OBVIOUS
<1>7. \E s \in best : Good(s)
  <2> DEFINE A == {s[1] : s \in best}
  <2>1. \A s \in best : s[1] \in Nat
    BY <1>3
  <2> HIDE DEF best
  <2>2. A \in SUBSET Nat /\ A # {}
    BY <1>5, <2>1
  <2>3. PICK m \in A : \A x \in A : m <= x
    <3> HIDE DEF A
    <3> QED BY <2>2, LeastElement
  <2>4. PICK s \in best : m = s[1]
    OBVIOUS
  <2>5. Good(s)
    BY <2>3, <2>4
  <2> QED BY <2>5
<1>8. NearestPiece(i, p) = CHOOSE s \in best : Good(s)
  BY DEF NearestPiece, Decomposition, rings
<1> DEFINE s == NearestPiece(i, p)
<1>9. s \in spots
  <2> HIDE DEF best, Good
  <2>1. s \in best
    BY <1>7, <1>8
  <2> HIDE DEF spots
  <2> QED BY <1>6, <2>1 DEF best
<1>10. s[1] \in DOMAIN rings /\ s[2] \in Spots(i) /\ s[2] \in Point /\ InConvexRing(s[2], rings[s[1]])
  BY <1>2, <1>9
<1> HIDE DEF s
<1>11. s[1] \in DOMAIN PiecesFor(Site(i)) /\ PointInPiece(s[2], PiecesFor(Site(i))[s[1]])
  BY <1>1, <1>10, RingIsPiece DEF rings
<1> QED BY <1>1, <1>10, <1>11 DEF s

\* What the warm start makes of a point that Gurobi may come up with.
LEMMA PlacedRight ==
  ASSUME inst \in DOMAIN Instances, ConvexRings, DegenerateLast, NEW i \in V,
         pieces[i] = PiecesOf(i), ~ Degenerate(pieces[i]),
         solver = "mip" => Site(i).pieces = <<>>, NEW q \in Positions
  PROVE  LET s == PlacedStart(i, q[i])
         IN  s[1] \in Spots(i) /\ s[2] \in ContainingPieces(i, s[1])
<1> DEFINE p == q[i]
<1>1. /\ Site(i) \in SiteType /\ PiecesOf(i) = PiecesFor(Site(i)) /\ ConvexSite(Site(i)) /\ p \in Point
      /\ \A x : x \in Spots(i) <=> InRings(x, RingsOf(Site(i))) /\ \E r \in Positions : r[i] = x
  BY SitesTyped
<1>2. HasInterior(Site(i)) /\ DOMAIN pieces[i] = 1 .. Len(pieces[i]) /\ Len(pieces[i]) \in Nat
  BY <1>1, PiecesFacts
<1>3. CASE solver = "mip"
  <2>1. p \in Spots(i)
    BY <1>2, <1>3, SpotsExist
  <2>2. PICK j \in DOMAIN PiecesOf(i) : PointInPiece(p, PiecesOf(i)[j])
    BY <2>1, SpotsInPieces
  <2>3. PiecesOf(i) = <<HalfspacesOf(Site(i).outer)>>
    BY <1>1, <1>3, PiecesByLoop
  <2>4. j = 1
    BY <2>3
  <2>5. 1 \in ContainingPieces(i, p)
    BY <2>2, <2>4 DEF ContainingPieces
  <2>6. PlacedStart(i, p) = <<p, 1>>
    BY <1>3 DEF PlacedStart
  <2> QED BY <2>1, <2>5, <2>6
<1>4. CASE solver # "mip" /\ ContainingPieces(i, p) # {}
  <2> DEFINE m == Min(ContainingPieces(i, p))
  <2>1. ContainingPieces(i, p) \in SUBSET Nat
    BY <1>2 DEF ContainingPieces
  <2>2. m \in ContainingPieces(i, p)
    BY <1>4, <2>1, MinIsLeast
  <2> HIDE DEF m
  <2>3. m \in DOMAIN PiecesFor(Site(i)) /\ PointInPiece(p, PiecesFor(Site(i))[m]) /\ ~ Degenerate(PiecesFor(Site(i)))
    BY <1>1, <2>2 DEF ContainingPieces
  <2>4. InRings(p, RingsOf(Site(i)))
    BY <1>1, <2>3, PieceInSite
  <2>5. PlacedStart(i, p) = <<p, m>>
    BY <1>4 DEF PlacedStart, m
  <2>6. p \in Spots(i)
    BY <1>1, <2>4
  <2> HIDE DEF p
  <2> QED BY <2>2, <2>5, <2>6 DEF p
<1>5. CASE solver # "mip" /\ ContainingPieces(i, p) = {}
  <2> DEFINE s == NearestPiece(i, p)
  <2>1. s[2] \in Spots(i) /\ s[1] \in DOMAIN PiecesOf(i) /\ PointInPiece(s[2], PiecesOf(i)[s[1]])
    BY <1>1, <1>2, NearestPieceRight
  <2>2. PlacedStart(i, p) = <<s[2], s[1]>>
    BY <1>5 DEF PlacedStart
  <2> HIDE DEF s, p
  <2>3. s[1] \in ContainingPieces(i, s[2])
    BY <2>1 DEF ContainingPieces
  <2> QED BY <2>1, <2>2, <2>3 DEF p
<1> QED BY <1>3, <1>4, <1>5

\* The trajectory is closed, and its points are those that the order is for.
LEMMA OpenedTrajectory ==
  ASSUME NEW S, NEW pts \in Seq(S), pts # <<>>, NEW p \in S, p = pts[1]
  PROVE  LET coords == Append(pts, p)
         IN  Len(coords) > 1 /\ Head(coords) = Last(coords) /\ Front(coords) = pts
<1> DEFINE coords == Append(pts, p)
<1>1. Len(pts) \in Nat /\ Len(pts) >= 1 /\ DOMAIN pts = 1 .. Len(pts) /\ pts = [k \in 1 .. Len(pts) |-> pts[k]]
  OBVIOUS
<1>2. /\ Len(coords) = Len(pts) + 1 /\ coords[Len(pts) + 1] = p
      /\ \A k \in 1 .. Len(pts) : coords[k] = pts[k]
      /\ coords \in Seq(S) /\ coords # <<>>
  BY <1>1
<1> HIDE DEF coords
<1>3. Head(coords) = coords[1] /\ Last(coords) = coords[Len(coords)]
  BY <1>2 DEF Last
<1>4. Head(coords) = Last(coords) /\ Len(coords) > 1
  BY <1>1, <1>2, <1>3
<1>5. Front(coords) = [k \in 1 .. Len(pts) |-> coords[k]]
  <2>1. Front(coords) = SubSeq(coords, 1, Len(coords) - 1)
    BY DEF Front
  <2>2. Len(coords) - 1 = Len(pts)
    BY <1>1, <1>2
  <2>3. SubSeq(coords, 1, Len(pts)) = [k \in 1 .. Len(pts) |-> coords[k]]
    BY <1>1, <1>2
  <2> QED BY <2>1, <2>2, <2>3
<1>6. Front(coords) = pts
  BY <1>1, <1>2, <1>5
<1> QED BY <1>4, <1>6 DEF coords

----------------------------------------------------------------------------
(* The invariant of the pipeline *)

\* What depends on the instance and the pieces alone stays.
LEMMA GeometryStays ==
  ASSUME UNCHANGED inst
  PROVE  /\ \A i : Site(i)' = Site(i) /\ Spots(i)' = Spots(i)
         /\ ConvexRings' = ConvexRings /\ DegenerateLast' = DegenerateLast
         /\ Instances[inst]' = Instances[inst]
<1>1. \A i : Site(i)' = Site(i)
  BY DEF Site
<1>2. \A i : Spots(i)' = Spots(i)
  BY <1>1 DEF Spots, InSite, Decomposition, Positions
<1> QED BY <1>1, <1>2 DEF ConvexRings, DegenerateLast

\* A model that is built has a big-M.
LEMMA ModelHasBigM ==
  ASSUME PipelineInv, spc = "constructed", ~ BuildFails
  PROVE  BuiltBigM # None /\ BuiltBigM = BigM(UNION {UNION ToSet(pieces[i]) : i \in V})
<1>1. CASE bigM # None
  BY <1>1 DEF PipelineInv, ModelRight, BuiltBigM
<1>2. CASE bigM = None
  <2> DEFINE M == BigM(UNION {UNION ToSet(pieces[i]) : i \in V})
  <2>1. inst \in DOMAIN Instances /\ pieces = [i \in V |-> PiecesOf(i)]
    BY DEF PipelineInv, SolutionInv, CallbackInv, PiecesKnown
  <2>2. \A i \in V : ~ Degenerate(pieces[i])
    BY BuiltFromPieces DEF PipelineInv, SolutionInv
  <2>3. M \in ProperHalfspaces
    BY <2>1, <2>2, BigMFacts
  <2>4. BuiltBigM = M
    BY <1>2 DEF BuiltBigM
  <2> HIDE DEF M
  <2>5. M # None
    BY <2>3, ProperIsSome
  <2> QED BY <2>4, <2>5 DEF M
<1> QED BY <1>1, <1>2

\* The trajectory is closed, and without its last point it is pts, for the sites
\* in the given order.
Opened(solution, pts, order) ==
  /\ Len(solution.coords) > 1 /\ Head(solution.coords) = Last(solution.coords)
  /\ Front(solution.coords) = pts
  /\ order = IF solution.hasOrdering THEN solution.ordering ELSE [k \in DOMAIN pts |-> k - 1]

\* If the order names every site, it does so once, and the points are some that
\* Gurobi may come up with.
PointsFit(pts, order) ==
  ToSet(order) = V =>
    /\ order \in SetToSeqs(V)
    /\ \A k \in 1 .. n : HasInterior(Site(order[k])) => \E q \in Positions : pts[k] = q[order[k]]

\* What SetWarmStart makes of a closed trajectory.
LEMMA StartOf ==
  ASSUME NEW solution, NEW pts, NEW order, SetWarmStart(solution), ~ BuildFails,
         Opened(solution, pts, order)
  PROVE  /\ start'.xi = TourEdges(order) \cap EdgesOn(V) /\ DOMAIN start'.q = ToSet(order)
         /\ \A i \in ToSet(order) : \E k \in DOMAIN order :
              /\ order[k] = i
              /\ start'.q[i] = PlacedStart(i, pts[k])[1] /\ start'.z[i] = PlacedStart(i, pts[k])[2]
         /\ bigM' = BuiltBigM /\ spc' = spc /\ result' = result
<1> DEFINE placed == [i \in ToSet(order) |->
                        LET k == CHOOSE k \in DOMAIN order : order[k] = i
                        IN  PlacedStart(i, pts[k])]
<1>1. /\ start' = [q |-> [i \in DOMAIN placed |-> placed[i][1]],
                   z |-> [i \in DOMAIN placed |-> placed[i][2]],
                   xi |-> TourEdges(order) \cap EdgesOn(V)]
      /\ bigM' = BuiltBigM /\ spc' = spc /\ result' = result
  <2> DEFINE f(o, x) == [i \in ToSet(o) |->
                           LET k == CHOOSE k \in DOMAIN o : o[k] = i
                           IN  PlacedStart(i, x[k])]
             F(o, x) == [q |-> [i \in DOMAIN f(o, x) |-> f(o, x)[i][1]],
                         z |-> [i \in DOMAIN f(o, x) |-> f(o, x)[i][2]],
                         xi |-> TourEdges(o) \cap EdgesOn(V)]
             closed == Len(solution.coords) > 1 /\ Head(solution.coords) = Last(solution.coords)
             P == IF closed THEN Front(solution.coords) ELSE solution.coords
             O == IF solution.hasOrdering THEN solution.ordering ELSE [k \in DOMAIN P |-> k - 1]
  <2>1. P = pts
    BY DEF Opened
  <2>2. O = order
    BY <2>1 DEF Opened
  <2>3. /\ start' = F(O, P) /\ bigM' = BuiltBigM /\ spc' = spc /\ result' = result
    BY DEF SetWarmStart
  <2>4. F(O, P) = F(order, pts)
    <3> HIDE DEF F, O, P
    <3> QED BY <2>1, <2>2
  <2>5. F(order, pts) = [q |-> [i \in DOMAIN placed |-> placed[i][1]],
                         z |-> [i \in DOMAIN placed |-> placed[i][2]],
                         xi |-> TourEdges(order) \cap EdgesOn(V)]
    OBVIOUS
  <2> HIDE DEF F, O, P, placed
  <2> QED BY <2>3, <2>4, <2>5
<1>2. DOMAIN placed = ToSet(order)
  OBVIOUS
<1>3. \A i \in ToSet(order) : \E k \in DOMAIN order : order[k] = i /\ placed[i] = PlacedStart(i, pts[k])
  <2> TAKE i \in ToSet(order)
  <2> DEFINE k == CHOOSE k \in DOMAIN order : order[k] = i
  <2>1. \E l \in DOMAIN order : order[l] = i
    BY DEF ToSet
  <2>2. k \in DOMAIN order /\ order[k] = i
    BY <2>1
  <2>3. placed[i] = PlacedStart(i, pts[k])
    OBVIOUS
  <2> HIDE DEF k, placed
  <2> QED BY <2>2, <2>3
<1> HIDE DEF placed
<1>4. \A i \in ToSet(order) : start'.q[i] = placed[i][1] /\ start'.z[i] = placed[i][2]
  BY <1>1, <1>2
<1> QED BY <1>1, <1>2, <1>3, <1>4

\* The start is right if its points belong to the sites in the given order.
LEMMA StartRightMade ==
  ASSUME PipelineInv, UNCHANGED <<inst, pieces>>, spc = "constructed", ~ BuildFails,
         NEW solution, NEW pts, NEW order, SetWarmStart(solution), Opened(solution, pts, order),
         PointsFit(pts, order)
  PROVE  StartRight'
<1>1. /\ start'.xi = TourEdges(order) \cap EdgesOn(V) /\ DOMAIN start'.q = ToSet(order)
      /\ \A i \in ToSet(order) : \E k \in DOMAIN order :
           /\ order[k] = i
           /\ start'.q[i] = PlacedStart(i, pts[k])[1] /\ start'.z[i] = PlacedStart(i, pts[k])[2]
      /\ bigM' = BuiltBigM /\ spc' = spc
  BY StartOf
<1>2. /\ V' = V /\ ConvexRings' = ConvexRings /\ DegenerateLast' = DegenerateLast
      /\ \A i : Spots(i)' = Spots(i)
  BY InstanceStays, GeometryStays
<1>3. spc' = "constructed" /\ bigM' # None
  BY <1>1, ModelHasBigM
<1>4. None' = None
  BY DEF None
<1>5. inst \in DOMAIN Instances /\ pieces = [i \in V |-> PiecesOf(i)]
  BY DEF PipelineInv, SolutionInv, CallbackInv, PiecesKnown
<1>6. \A i \in V : ~ Degenerate(pieces[i])
  BY BuiltFromPieces DEF PipelineInv, SolutionInv
<1>7. ASSUME DOMAIN start'.q = V, ConvexRings, DegenerateLast, NEW i \in V
      PROVE  start'.q[i] \in Spots(i) /\ start'.z[i] \in ContainingPieces(i, start.q[i])'
  <2>1. order \in SetToSeqs(V)
    BY <1>1, <1>7 DEF PointsFit
  <2>2. PICK k \in DOMAIN order :
          /\ order[k] = i
          /\ start'.q[i] = PlacedStart(i, pts[k])[1] /\ start'.z[i] = PlacedStart(i, pts[k])[2]
    BY <1>1, <1>7
  <2>3. k \in 1 .. n
    BY <1>5, <2>1, OrderFacts
  <2>4. HasInterior(Site(i))
    <3>1. pieces[i] = PiecesFor(Site(i)) /\ ~ Degenerate(pieces[i]) /\ Site(i) \in SiteType
      BY <1>5, <1>6, SitesTyped
    <3>2. Degenerate(PiecesFor(Site(i))) <=> ~ HasInterior(Site(i))
      BY <3>1, PiecesFacts
    <3> QED BY <3>1, <3>2
  <2>5. PICK q \in Positions : pts[k] = q[i]
    BY <1>1, <1>7, <2>2, <2>3, <2>4 DEF PointsFit
  <2>6. solver = "mip" => Site(i).pieces = <<>>
    BY <1>5, InstanceFacts DEF PipelineInv, ModelRight
  <2>7. pieces[i] = PiecesOf(i) /\ ~ Degenerate(pieces[i])
    BY <1>5, <1>6
  <2> DEFINE s == PlacedStart(i, q[i])
  <2>8. s[1] \in Spots(i) /\ s[2] \in ContainingPieces(i, s[1])
    BY <1>5, <1>7, <2>6, <2>7, PlacedRight
  <2>9. start'.q[i] = s[1] /\ start'.z[i] = s[2]
    BY <2>2, <2>5
  <2> HIDE DEF s
  <2>10. ContainingPieces(i, start.q[i])' = ContainingPieces(i, s[1])
    BY <2>9 DEF ContainingPieces
  <2> QED BY <2>8, <2>9, <2>10
<1>8. start'.xi \subseteq EdgesOn(V)
  BY <1>1

<1>10. EdgesOn(V)' = EdgesOn(V) /\ SetToSeqs(V)' = SetToSeqs(V)
  BY <1>2
<1>11. DOMAIN start'.q = V => \E o \in SetToSeqs(V) : start'.xi = TourEdges(o) \cap EdgesOn(V)
  BY <1>1 DEF PointsFit
<1>12. \A o : TourEdges(o)' = TourEdges(o)
  BY DEF TourEdges
<1> QED BY <1>2, <1>3, <1>7, <1>8, <1>10, <1>11, <1>12 DEF StartRight

\* The invariant of the pipeline holds at first.
LEMMA PipelineInit == Init => PipelineInv
<1> SUFFICES ASSUME Init PROVE PipelineInv
  OBVIOUS
<1>1. SolutionInv
  BY SolutionInit
<1>2. ModelRight
  <2>1. "error" \notin DOMAIN result
    BY DEF Init, SolverInit, None
  <2> QED BY <2>1 DEF Init, SolverInit, ModelRight
<1>3. CutsRight
  BY DEF Init, SolverInit, CutsRight
<1>4. WarmRight
  BY MaxIterationsAssumption DEF Init, WarmInit, WarmRight
<1>5. StartRight
  BY DEF Init, SolverInit, StartRight
<1> QED BY <1>1, <1>2, <1>3, <1>4, <1>5 DEF PipelineInv

\* The warm start and what it belongs to stay.
LEMMA WarmStays ==
  ASSUME WarmRight, UNCHANGED <<inst, warmVars>>,
         spc' \in {"new", "constructed"} => spc \in {"new", "constructed"}
  PROVE  WarmRight'
<1>1. UNCHANGED <<wpc, ordering, tourPoints, iterations>>
  BY DEF warmVars
<1>2. V' = V /\ n' = n /\ \A i : Site(i)' = Site(i) /\ Spots(i)' = Spots(i)
  BY InstanceStays, GeometryStays
<1>3. /\ wpc' \in {"ordering", "uncrossing", "generated"} /\ iterations' \in 0 .. MaxIterations
  BY <1>1 DEF WarmRight
<1>4. ASSUME wpc' # "ordering", spc' \in {"new", "constructed"}
      PROVE  /\ ordering' \in SetToSeqs(V')
             /\ tourPoints' = [k \in 1 .. n' |-> tourPoints'[k]]
             /\ \A k \in 1 .. n' : HasInterior(Site(ordering[k])') => tourPoints'[k] \in Spots(ordering[k])'
  <2>1. /\ ordering \in SetToSeqs(V)
        /\ tourPoints = [k \in 1 .. n |-> tourPoints[k]]
        /\ \A k \in 1 .. n : HasInterior(Site(ordering[k])) => tourPoints[k] \in Spots(ordering[k])
    BY <1>1, <1>4 DEF WarmRight
  <2>2. \A k \in 1 .. n : Site(ordering[k])' = Site(ordering[k]) /\ Spots(ordering[k])' = Spots(ordering[k])
    BY <1>1, <1>2 DEF Site, Spots, InSite, Decomposition, Positions
  <2> QED BY <1>1, <1>2, <2>1, <2>2
<1> QED BY <1>3, <1>4 DEF WarmRight

\* The warm start is made.
LEMMA WarmMade ==
  ASSUME inst \in DOMAIN Instances, UNCHANGED <<inst>>,
         wpc' \in {"ordering", "uncrossing", "generated"}, iterations' \in 0 .. MaxIterations,
         ordering' \in SetToSeqs(V), tourPoints' \in ProjectedTours(ordering')
  PROVE  WarmRight'
<1>1. tourPoints' = [k \in 1 .. n |-> tourPoints'[k]]
  BY ProjectedRight
<1>2. \A k \in 1 .. n : HasInterior(Instances[inst].sites[ordering'[k] + 1]) =>
        tourPoints'[k] \in Spots(ordering'[k])
  BY ProjectedRight DEF Site
<1>3. V' = V /\ n' = n
  BY InstanceStays
<1>4. \A k \in 1 .. n : /\ Site(ordering[k])' = Instances[inst].sites[ordering'[k] + 1]
                        /\ Spots(ordering[k])' = Spots(ordering'[k])
  BY DEF Site, Spots, InSite, Decomposition, Positions
<1> QED BY <1>1, <1>2, <1>3, <1>4 DEF WarmRight

\* What the steps of the pipeline do to spc.
LEMMA PipelinePhases ==
  ASSUME [Next]_vars
  PROVE  /\ UNCHANGED inst
         /\ spc' \in {"new", "constructed"} => spc \in {"new", "constructed"}
         /\ GenerateWarmStart => spc = "new" /\ UNCHANGED solverVars
         /\ ConstructSolver => spc = "new" /\ spc' \in {"constructed", "raised"} /\ UNCHANGED warmVars
         /\ InitialSolution => spc = "constructed" /\ start = None /\ UNCHANGED warmVars
         /\ StartSolve => spc = "constructed" /\ spc' \in {"optimizing", "raised"}
         /\ Solve => spc = "optimizing" /\ spc' \in {"optimizing", "returned", "raised"} /\ UNCHANGED warmVars
<1>0. \A solution : SetWarmStart(solution) => spc = "constructed"
  BY DEF SetWarmStart
<1>1. CASE GenerateWarmStart
  <2>1. spc = "new" /\ UNCHANGED <<inst, solverVars>> /\ spc' = spc
    BY <1>1 DEF GenerateWarmStart, solverVars
  <2>2. ~ InitialSolution
    BY <1>0, <2>1 DEF InitialSolution
  <2>3. ~ StartSolve /\ ~ Solve
    BY <2>1 DEF StartSolve, Optimize, Solve, MipSol, Stop
  <2>4. ~ ConstructSolver
    <3>1. \A class : Construct(class) => spc' \in {"constructed", "raised"}
      BY DEF Construct, Raise
    <3> QED BY <2>1, <3>1 DEF ConstructSolver
  <2> QED BY <2>1, <2>2, <2>3, <2>4
<1>2. CASE ConstructSolver
  <2>1. spc = "new" /\ spc' \in {"constructed", "raised"} /\ UNCHANGED <<inst, warmVars>>
    BY <1>2 DEF ConstructSolver, Construct, Raise
  <2>2. ~ GenerateWarmStart /\ ~ InitialSolution /\ ~ StartSolve /\ ~ Solve
    BY <2>1 DEF GenerateWarmStart, solverVars, InitialSolution, SetWarmStart, StartSolve, Optimize, Solve, MipSol, Stop
  <2> QED BY <2>1, <2>2
<1>3. CASE InitialSolution
  <2>1. spc = "constructed" /\ start = None /\ UNCHANGED <<inst, warmVars>>
    BY <1>0, <1>3 DEF InitialSolution
  <2>2. ~ GenerateWarmStart /\ ~ ConstructSolver /\ ~ Solve
    BY <2>1 DEF GenerateWarmStart, ConstructSolver, Construct, Solve, MipSol, Stop
  <2>3. StartSolve => spc' \in {"optimizing", "raised"}
    BY DEF StartSolve, Optimize, Raise
  <2> QED BY <2>1, <2>2, <2>3
<1>4. CASE StartSolve
  <2>1. spc = "constructed" /\ spc' \in {"optimizing", "raised"} /\ UNCHANGED inst
    BY <1>4 DEF StartSolve, Optimize, Raise
  <2>2. ~ GenerateWarmStart /\ ~ ConstructSolver /\ ~ Solve
    BY <2>1 DEF GenerateWarmStart, ConstructSolver, Construct, Solve, MipSol, Stop
  <2>3. InitialSolution => start = None /\ UNCHANGED warmVars
    BY DEF InitialSolution
  <2> QED BY <2>1, <2>2, <2>3
<1>5. CASE Solve
  <2>1. spc = "optimizing" /\ spc' \in {"optimizing", "returned", "raised"} /\ UNCHANGED <<inst, warmVars>>
    BY <1>5 DEF Solve, MipSol, Stop, Raise
  <2>2. ~ GenerateWarmStart /\ ~ ConstructSolver /\ ~ InitialSolution /\ ~ StartSolve
    BY <2>1 DEF GenerateWarmStart, ConstructSolver, Construct, InitialSolution, SetWarmStart, StartSolve, Optimize
  <2> QED BY <2>1, <2>2
<1>6. CASE UNCHANGED vars
  <2>1. UNCHANGED <<inst, warmVars, solverVars, spc, start>>
    BY <1>6 DEF vars, solverVars
  <2>2. ConstructSolver => spc = "new" /\ spc' \in {"constructed", "raised"}
    BY DEF ConstructSolver, Construct, Raise
  <2>3. StartSolve => spc = "constructed" /\ spc' \in {"optimizing", "raised"}
    BY DEF StartSolve, Optimize, Raise
  <2>4. Solve => spc = "optimizing" /\ spc' \in {"optimizing", "returned", "raised"}
    BY DEF Solve, MipSol, Stop, Raise
  <2>5. InitialSolution => spc = "constructed" /\ start = None
    BY <1>0 DEF InitialSolution
  <2>6. GenerateWarmStart => spc = "new"
    BY DEF GenerateWarmStart
  <2> QED BY <2>1, <2>2, <2>3, <2>4, <2>5, <2>6
<1> QED BY <1>1, <1>2, <1>3, <1>4, <1>5, <1>6 DEF Next

\* The warm start: ordering, each swap of 2-opt, and generation keep a permutation.
LEMMA WarmStep == PipelineInv /\ [Next]_vars => WarmRight'
<1> SUFFICES ASSUME PipelineInv, [Next]_vars PROVE WarmRight'
  OBVIOUS
<1>1. /\ WarmRight /\ inst \in DOMAIN Instances /\ UNCHANGED inst
      /\ spc' \in {"new", "constructed"} => spc \in {"new", "constructed"}
  BY PipelinePhases DEF PipelineInv, SolutionInv, CallbackInv
<1>2. UNCHANGED warmVars => WarmRight'
  BY <1>1, WarmStays
<1>3. CASE GenerateWarmStart
  <2>1. spc = "new" /\ spc' = spc
    BY <1>3, PipelinePhases DEF solverVars
  <2>2. CASE ChristofidesOrdering
    <3>1. ordering' \in SetToSeqs(V)
      <4>1. ordering' \in Instances[inst].orders
        BY <2>2 DEF ChristofidesOrdering
      <4>2. Instances[inst].orders \subseteq SetToSeqs(0 .. Len(Instances[inst].sites) - 1)
        BY <1>1, InstanceFacts DEF ProperInstance
      <4> QED BY <4>1, <4>2 DEF V, n
    <3>2. /\ tourPoints' \in ProjectedTours(ordering') /\ wpc' \in {"ordering", "uncrossing", "generated"}
          /\ iterations' \in 0 .. MaxIterations
      BY <1>1, <2>2 DEF ChristofidesOrdering, WarmRight
    <3> QED BY <1>1, <3>1, <3>2, WarmMade
  <2>3. CASE RemoveIntersection
    <3> DEFINE c == FindIntersection(tourPoints)
    <3>1. /\ ordering \in SetToSeqs(V) /\ tourPoints = [k \in 1 .. n |-> tourPoints[k]]
          /\ iterations \in 0 .. MaxIterations
      BY <1>1, <2>1, <2>3 DEF RemoveIntersection, WarmRight
    <3>2. n \in Nat
      BY <1>1, InstanceFacts
    <3>3. DOMAIN tourPoints = 1 .. n
      BY <3>1
    <3>4. c \in Crossings(tourPoints)
      BY <2>3, <3>2, <3>3, FirstCrossing DEF RemoveIntersection
    <3> HIDE DEF c
    <3>5. c[1] \in 1 .. n /\ c[2] \in 1 .. n /\ c[1] + 2 <= c[2]
      BY <3>3, <3>4 DEF Crossings
    <3>6. c[1] <= c[2]
      BY <3>2, <3>5
    <3>7. TwoOptSwap(ordering, c[1], c[2]) \in SetToSeqs(V)
      BY <1>1, <3>1, <3>5, <3>6, SwapKeepsOrder
    <3>8. ordering' \in SetToSeqs(V)
      BY <2>3, <3>7 DEF RemoveIntersection, c
    <3>9. /\ tourPoints' \in ProjectedTours(ordering') /\ wpc' \in {"ordering", "uncrossing", "generated"}
          /\ iterations' \in 0 .. MaxIterations
      BY <1>1, <2>3, <3>1, MaxIterationsAssumption DEF RemoveIntersection, WarmRight
    <3> QED BY <1>1, <3>8, <3>9, WarmMade
  <2>4. CASE Generated
    <3>1. wpc = "uncrossing" /\ wpc' = "generated" /\ UNCHANGED <<ordering, tourPoints, iterations>>
      BY <2>4 DEF Generated
    <3>2. V' = V /\ n' = n /\ \A i : Site(i)' = Site(i) /\ Spots(i)' = Spots(i)
      BY <1>1, InstanceStays, GeometryStays
    <3>3. \A k \in 1 .. n : Site(ordering[k])' = Site(ordering[k]) /\ Spots(ordering[k])' = Spots(ordering[k])
      BY <1>1, <3>1 DEF Site, Spots, InSite, Decomposition, Positions
    <3> QED BY <1>1, <2>1, <3>1, <3>2, <3>3 DEF WarmRight
  <2> QED BY <1>3, <2>2, <2>3, <2>4 DEF GenerateWarmStart, WarmNext
<1>4. CASE StartSolve
  <2>1. /\ spc' \notin {"new", "constructed"} /\ wpc' = wpc /\ iterations' = 0
    BY <1>4, PipelinePhases DEF StartSolve
  <2> QED BY <1>1, <2>1, MaxIterationsAssumption DEF WarmRight
<1>5. CASE ConstructSolver \/ InitialSolution \/ Solve
  BY <1>2, <1>5, PipelinePhases
<1>6. CASE UNCHANGED vars
  BY <1>2, <1>6 DEF vars
<1> QED BY <1>3, <1>4, <1>5, <1>6 DEF Next

\* Cuts are added by the callback alone, from components of the kind it looks for.
LEMMA CutsStep == PipelineInv /\ [Next]_vars => CutsRight'
<1> SUFFICES ASSUME PipelineInv, [Next]_vars PROVE CutsRight'
  OBVIOUS
<1>1. /\ CutsRight /\ UNCHANGED inst
      /\ spc' \in {"new", "constructed"} => spc \in {"new", "constructed"}
  BY PipelinePhases DEF PipelineInv
<1>2. V' = V
  BY <1>1, InstanceStays
<1>3. ASSUME UNCHANGED cuts PROVE CutsRight'
  BY <1>1, <1>2, <1>3 DEF CutsRight
<1>4. ASSUME NEW xi, NEW q, NEW z, MipSol(xi, q, z) PROVE CutsRight'
  <2>1. spc' = "optimizing" /\ cuts' = cuts \cup SubtourCuts(xi)
    BY <1>4 DEF MipSol
  <2>2. \A S \in SubtourCuts(xi) : S \in SUBSET V /\ 0 \notin S /\ Cardinality(S) >= 3
    BY DEF SubtourCuts, Components
  <2> QED BY <1>1, <1>2, <2>1, <2>2 DEF CutsRight
<1>5. CASE Solve
  <2>1. (\E status \in Statuses : Stop(status)) => UNCHANGED cuts
    BY DEF Stop
  <2> QED BY <1>3, <1>4, <1>5, <2>1 DEF Solve
<1>6. CASE GenerateWarmStart \/ ConstructSolver \/ InitialSolution \/ StartSolve \/ UNCHANGED vars
  <2>1. \A solution : SetWarmStart(solution) => UNCHANGED cuts
    BY DEF SetWarmStart
  <2>2. \A class : Construct(class) => UNCHANGED cuts
    BY DEF Construct
  <2>3. UNCHANGED cuts
    BY <1>6, <2>1, <2>2 DEF GenerateWarmStart, ConstructSolver, InitialSolution, StartSolve, Optimize,
                            vars, solverVars
  <2> QED BY <1>3, <2>3
<1> QED BY <1>5, <1>6 DEF Next

\* A step that keeps the pieces keeps the model, or builds it.
LEMMA ModelKept ==
  ASSUME PipelineInv, UNCHANGED <<inst, solver, pieces>>,
         bigM' = bigM \/ (bigM' = BuiltBigM /\ spc = "constructed" /\ ~ BuildFails),
         spc' \in {"new", "constructed", "optimizing", "returned", "raised"},
         spc' = "raised" <=> "error" \in DOMAIN result',
         spc' \in {"optimizing", "returned"} => bigM' # None
  PROVE  ModelRight'
<1> DEFINE M == BigM(UNION {UNION ToSet(pieces[i]) : i \in V})
<1>1. V' = V /\ Instances[inst]' = Instances[inst]
  BY InstanceStays, GeometryStays
<1>2. M' = M
  BY <1>1
<1>3. solver' = "mip" => \A k \in DOMAIN Instances[inst'].sites : Instances[inst'].sites[k].pieces = <<>>
  BY DEF PipelineInv, ModelRight
<1>4. bigM' # None => bigM' = M
  <2>1. CASE bigM' = bigM
    BY <2>1 DEF PipelineInv, ModelRight
  <2>2. CASE bigM' = BuiltBigM /\ spc = "constructed" /\ ~ BuildFails
    BY <2>2, ModelHasBigM
  <2> QED BY <2>1, <2>2
<1>5. None' = None
  BY DEF None
<1> HIDE DEF M
<1>6. bigM' # None => bigM' = M'
  BY <1>2, <1>4
<1> QED BY <1>3, <1>5, <1>6 DEF ModelRight, M

\* How the solver object goes from one state to the next.
LEMMA ModelSteps ==
  ASSUME PipelineInv, [Next]_vars, ~ ConstructSolver
  PROVE  /\ UNCHANGED <<inst, solver, pieces>>
         /\ bigM' = bigM \/ (bigM' = BuiltBigM /\ spc = "constructed" /\ ~ BuildFails)
         /\ spc' \in {"new", "constructed", "optimizing", "returned", "raised"}
         /\ spc' = "raised" <=> "error" \in DOMAIN result'
         /\ spc' \in {"optimizing", "returned"} => bigM' # None
<1>1. /\ UNCHANGED inst /\ spc \in {"new", "constructed", "optimizing", "returned", "raised"}
      /\ spc = "raised" <=> "error" \in DOMAIN result
      /\ spc \in {"optimizing", "returned"} => bigM # None
  BY PipelinePhases DEF PipelineInv, ModelRight
<1>2. \A e : "error" \in DOMAIN [error |-> e]
  OBVIOUS

<1>4. CASE GenerateWarmStart \/ UNCHANGED vars
  <2>1. UNCHANGED <<spc, solver, pieces, bigM, result>>
    BY <1>4 DEF GenerateWarmStart, vars, solverVars
  <2> QED BY <1>1, <2>1
<1>5. CASE InitialSolution
  <2>1. ASSUME NEW solution, SetWarmStart(solution)
        PROVE  /\ spc = "constructed" /\ UNCHANGED <<solver, pieces>>
               /\ \/ spc' = "raised" /\ bigM' = bigM /\ \E e : result' = [error |-> e]
                  \/ ~ BuildFails /\ bigM' = BuiltBigM /\ UNCHANGED <<spc, result>>
    BY <2>1 DEF SetWarmStart, Raise
  <2>2. /\ spc = "constructed" /\ UNCHANGED <<solver, pieces>>
        /\ \/ spc' = "raised" /\ bigM' = bigM /\ \E e : result' = [error |-> e]
           \/ ~ BuildFails /\ bigM' = BuiltBigM /\ UNCHANGED <<spc, result>>
    BY <1>5, <2>1 DEF InitialSolution
  <2> QED BY <1>1, <1>2, <2>2
<1>6. CASE StartSolve
  <2>1. /\ spc = "constructed" /\ UNCHANGED <<solver, pieces>>
        /\ \/ spc' = "raised" /\ bigM' = bigM /\ \E e : result' = [error |-> e]
           \/ ~ BuildFails /\ bigM' = BuiltBigM /\ spc' = "optimizing" /\ UNCHANGED result
    BY <1>6 DEF StartSolve, Optimize, Raise
  <2>2. ~ BuildFails => BuiltBigM # None
    BY <2>1, ModelHasBigM
  <2> QED BY <1>1, <1>2, <2>1, <2>2
<1>7. CASE Solve
  <2>1. ASSUME NEW status, Stop(status)
        PROVE  /\ spc = "optimizing" /\ UNCHANGED <<solver, pieces, bigM>>
               /\ \/ spc' = "raised" /\ \E e : result' = [error |-> e]
                  \/ spc' = "returned" /\ "error" \notin DOMAIN result'
    <3>1. "error" \notin DOMAIN Solution(status)
      BY DEF Solution
    <3> QED BY <2>1, <3>1 DEF Stop, Raise
  <2>2. \A xi, q, z : MipSol(xi, q, z) => UNCHANGED <<spc, solver, pieces, bigM, result>>
    BY DEF MipSol
  <2>3. \/ UNCHANGED <<spc, solver, pieces, bigM, result>>
        \/ /\ spc = "optimizing" /\ UNCHANGED <<solver, pieces, bigM>>
           /\ \/ spc' = "raised" /\ \E e : result' = [error |-> e]
              \/ spc' = "returned" /\ "error" \notin DOMAIN result'
    BY <1>7, <2>1, <2>2 DEF Solve
  <2> QED BY <1>1, <1>2, <2>3
<1> QED BY <1>4, <1>5, <1>6, <1>7 DEF Next

\* The model is built before Gurobi runs, and from the pieces of the instance.
LEMMA ModelStep == PipelineInv /\ [Next]_vars => ModelRight'
<1> SUFFICES ASSUME PipelineInv, [Next]_vars PROVE ModelRight'
  OBVIOUS
<1>1. CASE ~ ConstructSolver
  BY <1>1, ModelSteps, ModelKept
<1>2. CASE ConstructSolver
  <2>1. PICK class \in {"mip", "mip_nonconvex"} : Construct(class)
    BY <1>2 DEF ConstructSolver
  <2>2. /\ spc = "new" /\ UNCHANGED <<inst, bigM>> /\ solver' = class
        /\ class = "mip" => \A i \in V : Site(i).pieces = <<>>
        /\ \/ spc' = "raised" /\ \E e : result' = [error |-> e]
           \/ spc' = "constructed" /\ UNCHANGED result
    BY <1>2, <2>1, PipelinePhases DEF Construct, Raise
  <2>3. /\ bigM = None /\ "error" \notin DOMAIN result /\ inst \in DOMAIN Instances
    BY <2>2 DEF PipelineInv, ModelRight, SolutionInv, PiecesKnown, CallbackInv
  <2>4. class = "mip" => \A k \in DOMAIN Instances[inst].sites : Instances[inst].sites[k].pieces = <<>>
    BY <2>2, <2>3, InstanceFacts
  <2>5. spc' = "raised" <=> "error" \in DOMAIN result'
    BY <2>2, <2>3
  <2>6. None' = None
    BY DEF None
  <2> QED BY <2>2, <2>3, <2>4, <2>5, <2>6 DEF ModelRight
<1> QED BY <1>1, <1>2

\* A start is made for a model just built, and dropped when Gurobi takes over.
LEMMA StartStep == PipelineInv /\ [Next]_vars => StartRight'
<1> SUFFICES ASSUME PipelineInv, [Next]_vars PROVE StartRight'
  OBVIOUS
<1>1. StartRight /\ UNCHANGED inst /\ None' = None /\ inst \in DOMAIN Instances
  BY PipelinePhases DEF PipelineInv, SolutionInv, CallbackInv, None
<1>2. ASSUME start' = None PROVE StartRight'
  BY <1>1, <1>2 DEF StartRight
<1>3. ASSUME UNCHANGED start, start = None \/ UNCHANGED <<spc, pieces, bigM>> PROVE StartRight'
  <2>1. CASE start = None
    BY <1>1, <1>2, <1>3, <2>1
  <2>2. CASE start # None
    <3>1. UNCHANGED <<inst, spc, pieces, bigM, start>>
      BY <1>1, <1>3, <2>2
    <3>2. /\ V' = V /\ ConvexRings' = ConvexRings /\ DegenerateLast' = DegenerateLast
          /\ \A i : Spots(i)' = Spots(i)
      BY <1>1, InstanceStays, GeometryStays
    <3>3. \A i \in V : ContainingPieces(i, start.q[i])' = ContainingPieces(i, start.q[i])
      BY <3>1 DEF ContainingPieces
    <3>4. EdgesOn(V)' = EdgesOn(V) /\ SetToSeqs(V)' = SetToSeqs(V) /\ \A o : TourEdges(o)' = TourEdges(o)
      BY <3>2 DEF TourEdges
    <3> QED BY <1>1, <2>2, <3>1, <3>2, <3>3, <3>4 DEF StartRight
  <2> QED BY <2>1, <2>2
<1>4. CASE GenerateWarmStart \/ UNCHANGED vars
  <2>1. UNCHANGED <<start, spc, pieces, bigM>>
    BY <1>4 DEF GenerateWarmStart, vars, solverVars
  <2> QED BY <1>3, <2>1
<1>5. CASE ConstructSolver
  <2>1. spc = "new" /\ UNCHANGED start
    BY <1>5, PipelinePhases DEF ConstructSolver, Construct
  <2>2. start = None
    BY <1>1, <2>1 DEF StartRight
  <2> QED BY <1>3, <2>1, <2>2
<1>6. CASE StartSolve
  <2>1. CASE BuildFails
    <3>1. UNCHANGED start /\ bigM = None
      BY <1>6, <2>1 DEF StartSolve, Optimize, BuildFails
    <3>2. start = None
      BY <1>1, <3>1 DEF StartRight
    <3> QED BY <1>3, <3>1, <3>2
  <2>2. CASE ~ BuildFails
    BY <1>2, <1>6, <2>2 DEF StartSolve, Optimize
  <2> QED BY <2>1, <2>2
<1>7. CASE Solve
  <2>1. spc = "optimizing" /\ UNCHANGED start
    BY <1>7, PipelinePhases DEF Solve, MipSol, Stop
  <2>2. start = None
    BY <1>1, <2>1 DEF StartRight
  <2> QED BY <1>3, <2>1, <2>2
<1>8. CASE InitialSolution
  <2>1. spc = "constructed" /\ start = None
    BY <1>8, PipelinePhases
  <2>2. \A solution : SetWarmStart(solution) => UNCHANGED pieces /\ (BuildFails => UNCHANGED start)
    BY DEF SetWarmStart
  <2>3. UNCHANGED pieces /\ (BuildFails => UNCHANGED start)
    BY <1>8, <2>2 DEF InitialSolution
  <2>4. CASE BuildFails
    BY <1>3, <2>1, <2>3, <2>4
  <2>5. CASE ~ BuildFails
    <3>1. CASE wpc = "generated" /\ SetWarmStart(WarmSolution)
      <4>1. /\ ordering \in SetToSeqs(V) /\ tourPoints = [k \in 1 .. n |-> tourPoints[k]]
            /\ \A k \in 1 .. n : HasInterior(Site(ordering[k])) => tourPoints[k] \in Spots(ordering[k])
        BY <2>1, <3>1 DEF PipelineInv, WarmRight
      <4>2. n \in Nat \ {0} /\ ordering \in [1 .. n -> V]
        BY <1>1, <4>1, OrderFacts
      <4> DEFINE S == {tourPoints[k] : k \in 1 .. n}
                 p == Head(tourPoints)
      <4>3. tourPoints \in Seq(S) /\ tourPoints # <<>> /\ p = tourPoints[1] /\ p \in S
        <5>1. tourPoints \in [1 .. n -> S]
          BY <4>1
        <5>2. tourPoints \in Seq(S) /\ Len(tourPoints) = n
          <6> HIDE DEF S
          <6> QED BY <4>2, <5>1
        <5>3. tourPoints # <<>>
          <6> HIDE DEF S
          <6> QED BY <4>2, <5>2
        <5>4. p = tourPoints[1] /\ 1 \in 1 .. n
          BY <4>2
        <5> QED BY <5>2, <5>3, <5>4
      <4> HIDE DEF S, p
      <4>4. /\ Len(Append(tourPoints, p)) > 1 /\ Head(Append(tourPoints, p)) = Last(Append(tourPoints, p))
            /\ Front(Append(tourPoints, p)) = tourPoints
        BY <4>3, OpenedTrajectory
      <4>5. /\ WarmSolution.coords = Append(tourPoints, p)
            /\ WarmSolution.hasOrdering /\ WarmSolution.ordering = ordering
        BY DEF WarmSolution, p
      <4>6. \A k \in 1 .. n : HasInterior(Site(ordering[k])) =>
              \E q \in Positions : tourPoints[k] = q[ordering[k]]
        BY <1>1, <4>1, <4>2, SitesTyped
      <4> DEFINE sol == WarmSolution
      <4>7. Opened(sol, tourPoints, ordering) /\ SetWarmStart(sol)
        BY <3>1, <4>4, <4>5 DEF Opened
      <4>8. PointsFit(tourPoints, ordering)
        BY <4>1, <4>6 DEF PointsFit
      <4> HIDE DEF sol
      <4> QED BY <1>1, <2>1, <2>3, <2>5, <4>7, <4>8, StartRightMade
    <3>2. ASSUME NEW q \in Positions, NEW m \in 1 .. n, SetWarmStart(PlainSolution(q, m)) PROVE StartRight'
      <4> DEFINE pts == [k \in 1 .. m |-> q[k - 1]]
                 order == [k \in 1 .. m |-> k - 1]
                 S == {pts[k] : k \in 1 .. m}
                 p == q[0]
      <4>1. n \in Nat \ {0} /\ V = 0 .. n - 1 /\ m \in Nat /\ m >= 1 /\ 1 \in 1 .. m
        BY <1>1, InstanceFacts
      <4>2. pts \in Seq(S) /\ pts # <<>> /\ p = pts[1] /\ p \in S
        <5>1. pts \in [1 .. m -> S] /\ pts[1] = p /\ pts[1] \in S
          BY <4>1
        <5>2. pts \in Seq(S) /\ Len(pts) = m
          <6> HIDE DEF S, pts, p
          <6> QED BY <4>1, <5>1
        <5>3. pts # <<>>
          <6> HIDE DEF S, pts, p
          <6> QED BY <4>1, <5>2
        <5> HIDE DEF S, pts, p
        <5> QED BY <5>1, <5>2, <5>3
      <4>3. DOMAIN pts = 1 .. m
        OBVIOUS
      <4>4. order = [k \in DOMAIN pts |-> k - 1] /\ \A k \in 1 .. m : order[k] = k - 1 /\ pts[k] = q[order[k]]
        OBVIOUS
      <4>5. ToSet(order) = {k - 1 : k \in 1 .. m} /\ DOMAIN order = 1 .. m
        BY DEF ToSet
      <4>6. PlainSolution(q, m).coords = Append(pts, p) /\ ~ PlainSolution(q, m).hasOrdering
        BY DEF PlainSolution
      <4> HIDE DEF S, pts, p
      <4>7. /\ Len(Append(pts, p)) > 1 /\ Head(Append(pts, p)) = Last(Append(pts, p))
            /\ Front(Append(pts, p)) = pts
        BY <4>2, OpenedTrajectory
      <4>8. ASSUME ToSet(order) = V PROVE m = n /\ order \in SetToSeqs(V)
        <5>1. n - 1 \in V
          BY <4>1
        <5>2. PICK last \in 1 .. m : last - 1 = n - 1
          BY <4>5, <4>8, <5>1
        <5>3. m = n
          BY <4>1, <5>2
        <5>4. order \in [1 .. n -> V]
          BY <4>1, <5>3
        <5>5. \A j, k \in 1 .. n : order[j] = order[k] => j = k
          BY <4>1, <4>4, <5>3
        <5> HIDE DEF order
        <5> QED BY <1>1, <5>3, <5>4, <5>5, OrdersAreInjections
      <4>9. ToSet(order) = V => \A k \in 1 .. n : HasInterior(Site(order[k])) =>
              \E r \in Positions : pts[k] = r[order[k]]
        BY <4>4, <4>8
      <4>10. order = IF PlainSolution(q, m).hasOrdering THEN PlainSolution(q, m).ordering
                     ELSE [k \in DOMAIN pts |-> k - 1]
        BY <4>4, <4>6
      <4> HIDE DEF order
      <4> DEFINE sol == PlainSolution(q, m)
      <4>11. Opened(sol, pts, order) /\ SetWarmStart(sol)
        BY <3>2, <4>6, <4>7, <4>10 DEF Opened
      <4>12. PointsFit(pts, order)
        BY <4>8, <4>9 DEF PointsFit
      <4> HIDE DEF sol
      <4> QED BY <1>1, <2>1, <2>3, <2>5, <4>11, <4>12, StartRightMade
    <3> QED BY <1>8, <3>1, <3>2 DEF InitialSolution
  <2> QED BY <2>4, <2>5
<1> QED BY <1>4, <1>5, <1>6, <1>7, <1>8 DEF Next

\* No step breaks the invariant of the pipeline.
LEMMA PipelineStep == PipelineInv /\ [Next]_vars => PipelineInv'
BY SolutionStep, ModelStep, CutsStep, WarmStep, StartStep DEF PipelineInv

\* The invariant contains the type invariant.
LEMMA PipelineTypeOK == PipelineInv => TypeOK
<1> SUFFICES ASSUME PipelineInv PROVE TypeOK
  OBVIOUS
<1>1. SolutionInv /\ ModelRight /\ CutsRight /\ WarmRight /\ StartRight /\ CallbackInv /\ inst \in DOMAIN Instances
  BY DEF PipelineInv, SolutionInv, CallbackInv
<1>2. ASSUME wpc # "ordering", spc \in {"new", "constructed"}
      PROVE  Len(ordering) = n /\ ToSet(ordering) = V /\ Len(tourPoints) = n
  <2>1. ordering \in SetToSeqs(V) /\ tourPoints = [k \in 1 .. n |-> tourPoints[k]]
    BY <1>1, <1>2 DEF WarmRight
  <2>2. Len(ordering) = n /\ ToSet(ordering) = V /\ n \in Nat
    BY <1>1, <2>1, OrderFacts
  <2>3. Len(tourPoints) = n
    <3> DEFINE S == {tourPoints[k] : k \in 1 .. n}
    <3>1. tourPoints \in [1 .. n -> S]
      BY <2>1
    <3> HIDE DEF S
    <3> QED BY <2>2, <3>1
  <2> QED BY <2>2, <2>3
<1>3. numCuts \in Nat
  <2>1. IsFiniteSet(cuts)
    <3>1. IsFiniteSet(SUBSET V)
      BY <1>1, VerticesFiniteLemma, FS_SUBSET DEF VerticesFinite
    <3> QED BY <1>1, <3>1, FS_Subset DEF CallbackInv
  <2> QED BY <1>1, <2>1, FS_CardinalityType DEF CallbackInv, NoCutTwice
<1>4. /\ inst \in DOMAIN Instances /\ wpc \in {"ordering", "uncrossing", "generated"}
      /\ iterations \in 0 .. MaxIterations
      /\ spc \in {"new", "constructed", "optimizing", "returned", "raised"}
      /\ spc \in {"optimizing", "returned"} => bigM # None
      /\ cuts \subseteq SUBSET V
      /\ spc = "raised" <=> "error" \in DOMAIN result
  BY <1>1 DEF CallbackInv, WarmRight, ModelRight
<1>5. /\ start # None => start.xi \subseteq EdgesOn(V)
      /\ incumbent # None => DegreeTwo(incumbent.xi, V)
  BY <1>1 DEF StartRight, SolutionInv, IncumbentAdmitted
<1> QED BY <1>2, <1>3, <1>4, <1>5 DEF TypeOK

----------------------------------------------------------------------------
(* What follows from the invariant *)

\* What is known of a model that was built.
LEMMA BuiltModel ==
  ASSUME PipelineInv, bigM # None
  PROVE  /\ inst \in DOMAIN Instances /\ \A i \in V : pieces[i] = PiecesOf(i)
         /\ bigM \in ProperHalfspaces
         /\ \A i \in V : \A j \in DOMAIN pieces[i] : \A h \in pieces[i][j] :
              h \in ProperHalfspaces /\ NoFarther(h, bigM)
<1> DEFINE M == BigM(UNION {UNION ToSet(pieces[i]) : i \in V})
<1>1. inst \in DOMAIN Instances /\ pieces = [i \in V |-> PiecesOf(i)] /\ \A i \in V : ~ Degenerate(pieces[i])
  BY DEF PipelineInv, SolutionInv, CallbackInv, PiecesKnown
<1>2. bigM = M
  BY DEF PipelineInv, ModelRight
<1>3. /\ M \in ProperHalfspaces
      /\ \A i \in V : \A j \in DOMAIN pieces[i] : \A h \in pieces[i][j] :
           h \in ProperHalfspaces /\ NoFarther(h, M)
  BY <1>1, BigMFacts
<1> HIDE DEF M
<1>4. \A i \in V : pieces[i] = PiecesOf(i)
  BY <1>1
<1> QED BY <1>1, <1>2, <1>3, <1>4

\* A point in a piece is admitted there: the other pieces are relaxed enough.
LEMMA NearPointAdmitted ==
  ASSUME PipelineInv, bigM # None, NearOrigin, NEW i \in V, NEW p \in Spots(i),
         NEW k \in ContainingPieces(i, p)
  PROVE  InNeighborhood(p, i, k, bigM)
<1>1. /\ inst \in DOMAIN Instances /\ bigM \in ProperHalfspaces
      /\ \A j \in DOMAIN pieces[i] : \A h \in pieces[i][j] : h \in ProperHalfspaces /\ NoFarther(h, bigM)
  BY BuiltModel
<1>2. p \in Point /\ WithinBigM(4 * Dist2(p, <<0, 0>>), 1, bigM)
  BY <1>1, SpotsArePoints DEF NearOrigin
<1>3. ASSUME NEW j \in DOMAIN pieces[i], NEW h \in pieces[i][j] PROVE RelaxedHalfspace(h, p, bigM)
  BY <1>1, <1>2, NearPointsRelaxed
<1> QED BY <1>3 DEF InNeighborhood, ContainingPieces

\* The distance of two spots is within what the big-M of the edges allows.
LEMMA NearPairsLinearizable ==
  ASSUME PipelineInv, bigM # None, NearOrigin, NEW i \in V, NEW j \in V, NEW p \in Spots(i), NEW r \in Spots(j)
  PROVE  Linearizable(p, r, bigM)
<1>1. inst \in DOMAIN Instances /\ bigM \in ProperHalfspaces
  BY BuiltModel
<1>2. /\ p \in Point /\ WithinBigM(4 * Dist2(p, <<0, 0>>), 1, bigM)
      /\ r \in Point /\ WithinBigM(4 * Dist2(r, <<0, 0>>), 1, bigM)
  BY <1>1, SpotsArePoints DEF NearOrigin
<1> QED BY <1>1, <1>2, NearPointsLinearizable

\* Every tour through spots of the sites satisfies the model and its cuts.
LEMMA PipelineAdmitsTours == PipelineInv /\ ConvexRings /\ NearOrigin => EveryTourAdmitted
<1> SUFFICES ASSUME PipelineInv, ConvexRings, NearOrigin PROVE EveryTourAdmitted
  OBVIOUS
<1>1. inst \in DOMAIN Instances
  BY DEF PipelineInv, SolutionInv, CallbackInv
<1>2. ASSUME bigM # None, NEW i \in V, NEW p \in Spots(i)
      PROVE  \E k \in ContainingPieces(i, p) : InNeighborhood(p, i, k, bigM)
  <2>1. PICK k \in DOMAIN PiecesOf(i) : PointInPiece(p, PiecesOf(i)[k])
    BY <1>1, SpotsInPieces
  <2>2. k \in ContainingPieces(i, p)
    BY <1>2, <2>1, BuiltModel DEF ContainingPieces
  <2> QED BY <1>2, <2>2, NearPointAdmitted
<1>3. ASSUME NEW xi \in Tours, NEW S \in cuts PROVE CutSatisfied(S, xi)
  <2>1. PICK order \in SetToSeqs(V) : xi = TourEdges(order)
    BY DEF Tours
  <2>2. S \in SUBSET V /\ 0 \notin S /\ Cardinality(S) >= 3
    BY DEF PipelineInv, CutsRight
  <2>3. /\ IsFiniteSet(V) /\ 0 \in V /\ n \in Nat /\ Cardinality(V) = n
    <3>1. IsFiniteSet(V) /\ 0 \in V
      BY <1>1, VerticesFiniteLemma DEF VerticesFinite
    <3>2. n \in Nat /\ order \in Injection(1 .. n, V) /\ order \in Surjection(1 .. n, V)
      BY <1>1, OrderFacts DEF Injection, Surjection, IsInjective
    <3>3. IsFiniteSet(1 .. n) /\ Cardinality(1 .. n) = n
      BY <3>2, FS_Interval
    <3>4. Cardinality(V) = n
      BY <3>2, <3>3, FS_Surjection
    <3> QED BY <3>1, <3>2, <3>4
  <2>4. n >= 3
    <3>1. Cardinality(S) <= Cardinality(V) /\ Cardinality(S) \in Nat
      BY <2>2, <2>3, FS_Subset, FS_CardinalityType
    <3> QED BY <2>2, <2>3, <3>1
  <2>5. S # {} /\ S # V
    BY <2>2, <2>3, FS_EmptySet
  <2> QED BY <1>1, <2>1, <2>2, <2>4, <2>5, TourSatisfiesCut
<1>4. bigM # None => \A i, j \in V : i < j => \A p \in Spots(i), r \in Spots(j) : Linearizable(p, r, bigM)
  BY NearPairsLinearizable
<1> QED BY <1>2, <1>3, <1>4 DEF EveryTourAdmitted

\* The start satisfies the model.
LEMMA PipelineAdmitsStart ==
  PipelineInv /\ ConvexRings /\ NearOrigin /\ DegenerateLast => StartAdmitted
<1> SUFFICES ASSUME PipelineInv, ConvexRings, NearOrigin, DegenerateLast,
                    start # None, n >= 3, DOMAIN start.q = V
             PROVE  Admitted(start.xi, start.q, start.z)
  BY DEF StartAdmitted
<1>1. /\ inst \in DOMAIN Instances /\ spc = "constructed" /\ bigM # None
      /\ \A i \in V : start.q[i] \in Spots(i) /\ start.z[i] \in ContainingPieces(i, start.q[i])
  BY DEF PipelineInv, StartRight, SolutionInv, CallbackInv
<1>2. PICK order \in SetToSeqs(V) : start.xi = TourEdges(order) \cap EdgesOn(V)
  BY DEF PipelineInv, StartRight
<1>3. start.xi = TourEdges(order)
  <2>1. n >= 2
    BY <1>1, InstanceFacts
  <2> QED BY <1>1, <1>2, <2>1, TourInEdges
<1>4. DegreeTwo(start.xi, V)
  BY <1>1, <1>3, TourDegreeTwo
<1>5. cuts = {}
  BY <1>1 DEF PipelineInv, CutsRight
<1>6. \A i, j \in V : Linearizable(start.q[i], start.q[j], bigM)
  BY <1>1, NearPairsLinearizable
<1>7. \A i \in V : InNeighborhood(start.q[i], i, start.z[i], bigM)
  BY <1>1, NearPointAdmitted
<1> QED BY <1>4, <1>5, <1>6, <1>7 DEF Admitted

\* A point in a piece lies in the polygon.
LEMMA PiecesInSites ==
  ASSUME inst \in DOMAIN Instances, ConvexRings, NEW i \in V, ~ Degenerate(PiecesOf(i)),
         NEW j \in DOMAIN PiecesOf(i), NEW q \in Positions, PointInPiece(q[i], PiecesOf(i)[j])
  PROVE  InSite(q[i], i)
<1>1. /\ Site(i) \in SiteType /\ PiecesOf(i) = PiecesFor(Site(i)) /\ ConvexSite(Site(i)) /\ q[i] \in Point
  BY SitesTyped
<1>2. InRings(q[i], RingsOf(Site(i)))
  BY <1>1, PieceInSite
<1> QED BY <1>2 DEF InSite, Decomposition

\* The points of what is returned lie in the polygons they stand for.
LEMMA SolutionReturnsTour == SolutionInv /\ ConvexRings => ReturnsTour
<1> SUFFICES ASSUME SolutionInv, ConvexRings, spc = "returned" PROVE ReturnsTour
  BY DEF ReturnsTour
<1> DEFINE order == result.order
           q == incumbent.q
           z == incumbent.z
           points == [k \in 1 .. n |-> q[order[k]]]
<1>1. /\ PathIn(incumbent.xi, order) /\ Len(order) = n /\ ToSet(order) = V
      /\ TourEdges(order) = incumbent.xi
      /\ result.coords = Append(points, q[order[1]])
      /\ solver = "mip_nonconvex" => result.selected = [i \in V |-> z[i] - 1]
  BY DEF SolutionInv, IncumbentReturned
<1>2. /\ q \in Positions /\ z \in [V -> Int]
      /\ \A i \in V : z[i] \in ContainingPieces(i, q[i])
  BY DEF SolutionInv, IncumbentAdmitted, IncumbentReturned
<1>3. n \in Nat \ {0} /\ order[1] = 0 /\ \A k \in 1 .. n : order[k] \in V
  BY <1>1, PathFacts DEF PathIn
<1>4. /\ Head(result.coords) = Last(result.coords)
      /\ \A k \in 1 .. n : result.coords[k] = q[order[k]]
  <2> DEFINE p == q[order[1]]
  <2>1. points \in Seq({points[k] : k \in 1 .. n}) /\ Len(points) = n /\ points[1] = p
    BY <1>3
  <2>2. \A k \in 1 .. n : points[k] = q[order[k]]
    OBVIOUS
  <2> HIDE DEF points, p
  <2>3. /\ Len(Append(points, p)) = n + 1 /\ Append(points, p)[n + 1] = p
        /\ \A k \in 1 .. n : Append(points, p)[k] = points[k]
    BY <1>3, <2>1
  <2>4. Head(Append(points, p)) = Append(points, p)[1] /\ Last(Append(points, p)) = p
    BY <1>3, <2>3 DEF Last
  <2> QED BY <1>1, <1>3, <2>1, <2>2, <2>3, <2>4 DEF p
<1>5. ASSUME NEW i \in V PROVE q[i] \in Spots(i)
  <2>1. pieces[i] = PiecesOf(i) /\ ~ Degenerate(pieces[i])
    BY DEF SolutionInv, PiecesKnown
  <2>2. z[i] \in DOMAIN PiecesOf(i) /\ PointInPiece(q[i], PiecesOf(i)[z[i]])
    BY <1>2, <2>1 DEF ContainingPieces
  <2>3. InSite(q[i], i)
    <3>1. inst \in DOMAIN Instances
      BY DEF SolutionInv, CallbackInv
    <3>2. z[i] \in DOMAIN PiecesOf(i) /\ PointInPiece(q[i], PiecesOf(i)[z[i]]) /\ ~ Degenerate(PiecesOf(i))
      BY <2>1, <2>2
    <3> HIDE DEF q, z
    <3> QED BY <1>2, <3>1, <3>2, PiecesInSites
  <2> QED BY <1>2, <2>3 DEF Spots
<1>6. \A k \in 1 .. n : result.coords[k] \in Spots(order[k])
  BY <1>3, <1>4, <1>5
<1>7. ASSUME solver = "mip_nonconvex", NEW k \in 1 .. n
      PROVE  result.selected[order[k]] + 1 \in ContainingPieces(order[k], result.coords[k])
  <2>1. order[k] \in V /\ result.selected[order[k]] = z[order[k]] - 1
    BY <1>1, <1>3, <1>7
  <2>2. z[order[k]] \in Int
    BY <1>2, <2>1
  <2>3. result.selected[order[k]] + 1 = z[order[k]]
    BY <2>1, <2>2
  <2> QED BY <1>2, <1>4, <2>1, <2>3
<1> HIDE DEF order
<1> QED BY <1>1, <1>3, <1>4, <1>6, <1>7 DEF ReturnsTour, order

----------------------------------------------------------------------------
(* Theorems *)

\* The pipeline is well-formed: a model that runs or has returned has a big-M,
\* what was proposed as a start is a set of edges of the model, every incumbent
\* has two edges at every polygon, and solve returns an error exactly if it
\* raised one (solver.py:131-163, 187-328, nonconvex_solver.py:130-336).
THEOREM PipelineTyped == Spec => []TypeOK
BY PipelineInit, PipelineStep, PipelineTypeOK, PTL DEF Spec

\* The model rules out no tour: once the halfspaces are relaxed by the big-M,
\* every order of the polygons and every choice of near points in them still
\* satisfies the model and every cut the callback has added so far.  The rings
\* must be convex, and the points looked at at most half the big-M away from the
\* origin (solver.py:131-163, nonconvex_solver.py:147-183, callback.py:52-67).
THEOREM ToursAreAdmitted == Spec => [](ConvexRings /\ NearOrigin => EveryTourAdmitted)
BY PipelineInit, PipelineStep, PipelineAdmitsTours, PTL DEF Spec

\* The start that is handed to Gurobi is a solution of the model: after 2-opt
\* the order still visits every polygon once, and the piece chosen for a polygon
\* contains the point it is visited at, provided that the degenerate pieces of a
\* polygon come last, because the piece is looked up in the decomposition and the
\* model numbers the pieces that are left (warm_start.py:227-308, solver.py:187-232,
\* nonconvex_solver.py:95-128, 223-318).
THEOREM StartsAreAdmitted == Spec => [](ConvexRings /\ NearOrigin /\ DegenerateLast => StartAdmitted)
BY PipelineInit, PipelineStep, PipelineAdmitsStart, PTL DEF Spec

\* What solve returns is a tour: it visits every polygon once, along the edges
\* that Gurobi chose, at a point of the polygon that lies in the piece named
\* for it, provided that the rings whose halfspaces are taken are convex
\* (solver.py:234-328, nonconvex_solver.py:95-128, 320-336).
THEOREM ToursAreReturned == Spec => [](ConvexRings => ReturnsTour)
BY SolutionInit, SolutionStep, SolutionReturnsTour, PTL DEF Spec
=============================================================================
