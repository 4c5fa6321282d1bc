------------------------ MODULE BranchAndBoundProofs ------------------------
(***************************************************************************)
(* Theorems about BranchAndBound, for every set of lengths, every gap,     *)
(* every number of sites and every size of the tree: bounds are tight in   *)
(* the whole tree, the search loses no optimal tour, what its two bounds   *)
(* are worth, and that it implements SolverPromise.  And about             *)
(* QueuedSearch, for all four search strategies, whatever their            *)
(* tolerances: the vector holds exactly what waits, depth-first strategies *)
(* dive, and the search with its vector implements that of BranchAndBound. *)
(***************************************************************************)
EXTENDS SearchInvariant, QueuedSearch, Recursion

----------------------------------------------------------------------------
(* Numbers and the gap *)

\* Multiplication by a natural number is monotone.
LEMMA TimesMonotone ==
  ASSUME NEW a \in Nat, NEW b \in Nat, NEW k \in Nat, a <= b
  PROVE  a * k <= b * k
<1>1. PICK d \in Nat : b = a + d
  <2>1. b - a \in Nat /\ b = a + (b - a)
    OBVIOUS
  <2>2. QED
    BY <2>1
<1>2. b * k = a * k + d * k
  BY <1>1
<1>3. d * k \in Nat
  OBVIOUS
<1>4. QED
  BY <1>2, <1>3

\* The gap test is stable: once passed it stays passed when the upper bound
\* falls and the lower bound rises (bnb.h:100 and :179 test the same thing).
LEMMA WithinGapMonotone ==
  ASSUME NEW u \in Nat, NEW u2 \in Nat, u2 <= u,
         NEW l \in Nat, NEW l2 \in Nat, l <= l2,
         WithinGap(u, l)
  PROVE  WithinGap(u2, l2)
<1> DEFINE K == GapDen + GapNum
<1>1. GapDen \in Nat /\ K \in Nat
  BY BnbAssumption
<1>2. u * GapDen <= K * l
  BY DEF WithinGap, Promise!WithinGap
<1>3. u2 * GapDen <= u * GapDen
  BY <1>1, TimesMonotone
<1>4. l * K <= l2 * K
  BY <1>1, TimesMonotone
<1>5. K * l = l * K /\ K * l2 = l2 * K
  BY <1>1
<1>6. u2 * GapDen \in Nat /\ u * GapDen \in Nat /\ l * K \in Nat /\ l2 * K \in Nat
  BY <1>1
<1>7. u2 * GapDen <= K * l2
  BY <1>2, <1>3, <1>4, <1>5, <1>6
<1>8. QED
  BY <1>7 DEF WithinGap, Promise!WithinGap

LEMMA GoodEnoughMonotone ==
  ASSUME NEW u \in Nat, NEW u2 \in Nat, u2 <= u,
         NEW l \in Nat, NEW l2 \in Nat, l <= l2,
         GoodEnough(u, l)
  PROVE  GoodEnough(u2, l2)
<1>1. CASE WithinGap(u, l)
  <2>1. WithinGap(u2, l2)
    BY <1>1, WithinGapMonotone
  <2>2. QED
    BY <2>1 DEF GoodEnough, Promise!GoodEnough, WithinGap
<1>2. CASE u <= l + Slack
  BY <1>2, BnbAssumption DEF GoodEnough, Promise!GoodEnough
<1>3. QED
  BY <1>1, <1>2 DEF GoodEnough, Promise!GoodEnough, WithinGap

LEMMA BoundsAreNat == Bounds \subseteq Nat /\ \A b \in Bounds : b <= Inf
  BY BnbAssumption DEF Bounds

----------------------------------------------------------------------------
(* Propagation of bounds *)

\* An ancestor takes the bound of one of the leaves under it if that is an
\* improvement, and no leaf under it lies lower (Node::reevaluate_children).
LEMMA AncestorReevaluated ==
  ASSUME NEW f \in [Node -> Bounds], NEW n \in Node, NEW leaf \in SUBSET Node,
         NEW under \in [Node -> SUBSET Node],
         NEW a \in under[n] \ {n}, \E m \in leaf : a \in under[m]
  PROVE  \E m \in leaf : /\ a \in under[m]
                         /\ Propagated(f, n, leaf, under)[a] = Greater(f[a], f[m])
                         /\ \A k \in leaf : a \in under[k] => f[m] <= f[k]
<1> DEFINE S == {f[m] : m \in {m \in leaf : a \in under[m]}}
<1>1. S \in SUBSET Nat /\ S # {}
  BY BoundsAreNat
<1>2. Min(S) \in S /\ \A x \in S : Min(S) <= x
  BY <1>1, MinIsLeast
<1>3. PICK m \in leaf : a \in under[m] /\ Min(S) = f[m]
  BY <1>2
<1>4. \A k \in leaf : a \in under[k] => f[m] <= f[k]
  BY <1>2, <1>3
<1>5. Propagated(f, n, leaf, under)[a] = Greater(f[a], f[m])
  BY <1>3 DEF Propagated
<1>6. QED
  BY <1>3, <1>4, <1>5

\* What re-evaluation does to the bounds f: it lowers none of them and leaves
\* everything but the proper ancestors of n alone.
LEMMA PropagatedFacts ==
  ASSUME NEW f \in [Node -> Bounds], NEW n \in Node, NEW leaf \in SUBSET Node,
         NEW under \in [Node -> SUBSET Node],
         \A a \in under[n] : \E m \in leaf : a \in under[m]
  PROVE  /\ Propagated(f, n, leaf, under) \in [Node -> Bounds]
         /\ \A a \in Node : f[a] <= Propagated(f, n, leaf, under)[a]
<1> DEFINE P == Propagated(f, n, leaf, under)
<1>1. ASSUME NEW a \in Node PROVE P[a] \in Bounds /\ f[a] <= P[a]
  <2>1. f[a] \in Bounds /\ f[a] \in Nat
    BY BoundsAreNat
  <2>2. CASE a \in under[n] \ {n}
    <3>1. PICK m \in leaf : P[a] = Greater(f[a], f[m])
      BY <2>2, AncestorReevaluated
    <3>2. f[m] \in Bounds /\ f[m] \in Nat
      BY BoundsAreNat
    <3>3. QED
      BY <2>1, <3>1, <3>2 DEF Greater
  <2>3. CASE a \notin under[n] \ {n}
    BY <2>1, <2>3 DEF Propagated
  <2>4. QED
    BY <2>2, <2>3
<1>2. P = [a \in Node |-> P[a]]
  BY DEF Propagated
<1> HIDE DEF P
<1>3. P \in [Node -> Bounds]
  BY <1>1, <1>2
<1>4. QED
  BY <1>1, <1>3 DEF P

----------------------------------------------------------------------------
(* The shape of the tree *)

LEMMA NodeFacts ==
  ASSUME TypeOK
  PROVE  /\ Nodes \subseteq Node /\ Leaves \subseteq Nodes /\ Root \in Nodes
         /\ path \in [Node -> SUBSET Node]
         /\ count \in Nat /\ count <= MaxNodes
  BY BnbAssumption DEF TypeOK, Nodes, Leaves, Node, Root

\* add_lower_bound on node n keeps bounds bounds and lowers none of them.
LEMMA RaisedFacts ==
  ASSUME Typed, NEW n \in Nodes, NEW l \in Bounds
  PROVE  /\ Raised(n, l) \in [Node -> Bounds]
         /\ \A a \in Node : lb[a] <= Raised(n, l)[a]
<1> DEFINE f == [m \in Node |-> IF n \in path[m] THEN Greater(lb[m], l) ELSE lb[m]]
<1>1. f \in [Node -> Bounds] /\ \A a \in Node : lb[a] <= f[a]
  <2>1. \A a \in Node : lb[a] \in Bounds /\ lb[a] \in Nat /\ l \in Nat
    BY BoundsAreNat DEF Typed, TypeOK
  <2>2. \A a \in Node : Greater(lb[a], l) \in Bounds /\ lb[a] <= Greater(lb[a], l)
    BY <2>1 DEF Greater
  <2>3. QED
    BY <2>1, <2>2
<1>2. n \in Node /\ Leaves \in SUBSET Node /\ path \in [Node -> SUBSET Node]
  BY NodeFacts DEF Typed
<1>3. \A a \in path[n] : \E m \in Leaves : a \in path[m]
  BY NodeFacts DEF Typed, TypeOK, TreeShape
<1>4. Raised(n, l) = Propagated(f, n, Leaves, path)
  BY DEF Raised, RaisedBounds
<1> HIDE DEF f
<1>5. /\ Propagated(f, n, Leaves, path) \in [Node -> Bounds]
      /\ \A a \in Node : f[a] <= Propagated(f, n, Leaves, path)[a]
  BY <1>1, <1>2, <1>3, PropagatedFacts
<1>6. ASSUME NEW a \in Node PROVE lb[a] <= Raised(n, l)[a]
  <2>1. lb[a] \in Nat /\ f[a] \in Nat /\ Propagated(f, n, Leaves, path)[a] \in Nat
    BY <1>1, <1>5, BoundsAreNat DEF Typed, TypeOK
  <2>2. QED
    BY <1>1, <1>4, <1>5, <2>1
<1>7. QED
  BY <1>4, <1>5, <1>6

----------------------------------------------------------------------------
(* Every reachable state is well typed *)

LEMMA RelaxationFacts ==
  ASSUME NEW r \in Relaxations
  PROVE  /\ r.lb \in Costs /\ r.obj \in Costs /\ r.covered \in SUBSET Sites
         /\ r.valid \in BOOLEAN /\ r.holdsOpt \in BOOLEAN
         /\ r.obj <= r.lb + Slack
         /\ r.holdsOpt => r.lb <= Opt
         /\ r.valid /\ r.covered = Sites => Opt <= r.obj
  BY DEF Relaxations

LEMMA InitTyped == Init => Typed
<1> SUFFICES ASSUME Init PROVE Typed
  OBVIOUS
<1>1. PICK r \in Relaxations :
        /\ pc = "setup"
        /\ count = 1
        /\ path = [n \in Node |-> IF n = Root THEN {Root} ELSE {}]
        /\ children = [n \in Node |-> {}]
        /\ lb = [n \in Node |-> IF n = Root THEN r.lb ELSE Inf]
        /\ pruned = [n \in Node |-> FALSE]
        /\ obj = [n \in Node |-> IF n = Root THEN r.obj ELSE Inf]
        /\ covered = [n \in Node |-> IF n = Root THEN r.covered ELSE {}]
        /\ valid = [n \in Node |-> n = Root]
        /\ holdsOpt = [n \in Node |-> n = Root]
        /\ open = {Root} /\ cur = NoNode
        /\ sites = FirstSites /\ ub = Inf /\ cutoff = Inf
  BY DEF Init
<1>2. Nodes = {Root} /\ Root \in Node
  BY <1>1, BnbAssumption DEF Nodes, Node, Root
<1>3. r.lb \in Bounds /\ r.obj \in Bounds /\ Inf \in Bounds /\ r.covered \in SUBSET Sites
  BY RelaxationFacts DEF Bounds
<1>4. TypeOK
  BY <1>1, <1>2, <1>3, BnbAssumption DEF TypeOK, InVisit, Root
<1>5. Leaves = {Root} /\ Frontier = {Root}
  BY <1>1, <1>2 DEF Leaves, Frontier, InVisit
<1>6. TreeShape
  BY <1>1, <1>2, <1>5 DEF TreeShape
<1>7. QED
  BY <1>4, <1>6 DEF Typed

\* A step that creates no nodes and queues none leaves the tree in shape.
LEMMA SameTreeShape ==
  ASSUME Typed, UNCHANGED treeVars,
         \A n \in Node \ Nodes : pruned'[n] = pruned[n],
         Frontier' \subseteq Leaves
  PROVE  TreeShape'
<1>1. Nodes' = Nodes /\ Leaves' = Leaves
  BY DEF treeVars, Nodes, Leaves
<1>2. QED
  BY <1>1 DEF Typed, TreeShape, treeVars

LEMMA SetupTyped == ASSUME Typed, Setup PROVE Typed'
<1>1. ASSUME NEW u \in Costs, AddUpperBound(u) PROVE Typed'
  <2>1. ub' \in Bounds /\ cutoff' \in Bounds
    BY <1>1 DEF AddUpperBound, NewIncumbent, Lesser, Typed, TypeOK, Bounds
  <2>2. TypeOK'
    BY <1>1, <2>1 DEF AddUpperBound, treeVars, Typed, TypeOK, Nodes, InVisit
  <2>3. Frontier' = Frontier
    BY <1>1 DEF AddUpperBound, Frontier, InVisit
  <2>4. TreeShape'
    BY <1>1, <2>3, SameTreeShape DEF AddUpperBound, Typed, TreeShape
  <2>5. QED
    BY <2>2, <2>4 DEF Typed
<1>2. ASSUME NEW l \in Costs, AddLowerBound(l) PROVE Typed'
  <2>1. Root \in Nodes /\ l \in Bounds
    BY NodeFacts DEF Typed, Bounds
  <2>2. lb' \in [Node -> Bounds]
    BY <1>2, <2>1, RaisedFacts DEF AddLowerBound
  <2>3. TypeOK'
    BY <1>2, <2>2 DEF AddLowerBound, treeVars, Typed, TypeOK, Nodes, InVisit
  <2>4. Frontier' = Frontier
    BY <1>2 DEF AddLowerBound, Frontier, InVisit
  <2>5. TreeShape'
    BY <1>2, <2>4, SameTreeShape DEF AddLowerBound, Typed, TreeShape
  <2>6. QED
    BY <2>3, <2>5 DEF Typed
<1>3. CASE StartOptimize
  <2>1. TypeOK'
    BY <1>3 DEF StartOptimize, treeVars, Typed, TypeOK, Nodes, InVisit
  <2>2. Frontier' = Frontier
    BY <1>3 DEF StartOptimize, Frontier, InVisit
  <2>3. TreeShape'
    BY <1>3, <2>2, SameTreeShape DEF StartOptimize, Typed, TreeShape
  <2>4. QED
    BY <2>1, <2>3 DEF Typed
<1>4. QED
  BY <1>1, <1>2, <1>3 DEF Setup

LEMMA CallbackTyped == ASSUME Typed, Callback PROVE Typed'
<1> USE DEF InCallback
<1>0. InCallback => cur \in Nodes
  BY DEF Typed, TypeOK, InVisit
<1>1. ASSUME NEW l \in Costs, CallbackAddLowerBound(l) PROVE Typed'
  <2>1. cur \in Nodes /\ l \in Bounds
    BY <1>0, <1>1 DEF CallbackAddLowerBound, Bounds
  <2>2. lb' \in [Node -> Bounds]
    BY <1>1, <2>1, RaisedFacts DEF CallbackAddLowerBound
  <2>3. TypeOK'
    BY <1>1, <2>2 DEF CallbackAddLowerBound, treeVars, Typed, TypeOK, Nodes, InVisit
  <2>4. Frontier' = Frontier
    BY <1>1 DEF CallbackAddLowerBound, Frontier, InVisit
  <2>5. TreeShape'
    BY <1>1, <2>4, SameTreeShape DEF CallbackAddLowerBound, Typed, TreeShape
  <2>6. QED
    BY <2>3, <2>5 DEF Typed
<1>2. ASSUME NEW u \in Costs, CallbackAddSolution(u) PROVE Typed'
  <2>1. TypeOK'
    BY <1>2 DEF CallbackAddSolution, treeVars, Typed, TypeOK, Nodes, InVisit, Bounds
  <2>2. Frontier' = Frontier
    BY <1>2 DEF CallbackAddSolution, Frontier, InVisit
  <2>3. TreeShape'
    BY <1>2, <2>2, SameTreeShape DEF CallbackAddSolution, Typed, TreeShape
  <2>4. QED
    BY <2>1, <2>3 DEF Typed
<1>3. CASE CallbackPrune
  <2>1. cur \in Nodes /\ Inf \in Bounds
    BY <1>0, <1>3 DEF CallbackPrune, Bounds
  <2>2. lb' \in [Node -> Bounds]
    BY <1>3, <2>1, RaisedFacts DEF CallbackPrune
  <2>3. TypeOK'
    BY <1>3, <2>2 DEF CallbackPrune, treeVars, Typed, TypeOK, Nodes, InVisit
  <2>4. Frontier' = Frontier
    BY <1>3 DEF CallbackPrune, Frontier, InVisit
  <2>5. \A n \in Node \ Nodes : pruned'[n] = pruned[n]
    BY <1>3 DEF CallbackPrune, Typed, TypeOK, TreeShape
  <2>6. TreeShape'
    BY <1>3, <2>4, <2>5, SameTreeShape DEF CallbackPrune, Typed, TreeShape
  <2>7. QED
    BY <2>3, <2>6 DEF Typed
<1>4. ASSUME NEW s \in Sites, CallbackAddSite(s) PROVE Typed'
  <2>1. TypeOK'
    BY <1>4 DEF CallbackAddSite, treeVars, Typed, TypeOK, Nodes, InVisit
  <2>2. Frontier' = Frontier
    BY <1>4 DEF CallbackAddSite, Frontier, InVisit
  <2>3. TreeShape'
    BY <1>4, <2>2, SameTreeShape DEF CallbackAddSite, Typed, TreeShape
  <2>4. QED
    BY <2>1, <2>3 DEF Typed
<1>5. QED
  BY <1>1, <1>2, <1>3, <1>4 DEF Callback

\* The nodes that a branching with k children creates.
NewNodes(k) == count + 1 .. count + k

\* Branching makes the new nodes leaves under the current one, which stops
\* being a leaf, and touches no other part of the tree.
LEMMA BranchGrows ==
  ASSUME Typed, NEW k \in 1 .. MaxFanout, NEW rs \in [1 .. k -> Relaxations], Branch(k, rs)
  PROVE  /\ count' \in Node
         /\ Nodes' = Nodes \cup NewNodes(k) /\ Nodes \cap NewNodes(k) = {}
         /\ Nodes' \subseteq Node
         /\ NewNodes(k) # {} /\ \A n \in NewNodes(k) : n - count \in 1 .. k
         /\ \A i \in 1 .. k : count + i \in NewNodes(k) /\ (count + i) - count = i
         /\ pc = "explore" /\ pc' = "leaving" /\ cur \in Leaves /\ cur \in Nodes
         /\ cur \notin open /\ cur' = cur /\ open' = open \cup NewNodes(k)
         /\ UNCHANGED <<pruned, sites, ub, cutoff>>
         /\ Leaves' = (Leaves \ {cur}) \cup NewNodes(k)
         /\ \A n \in Nodes : path'[n] = path[n]
         /\ \A n \in NewNodes(k) : path'[n] = path[cur] \cup {n}
         /\ \A n \in Nodes' : path'[n] \subseteq Nodes'
         /\ path' \in [Node -> SUBSET Nodes'] /\ children' \in [Node -> SUBSET Nodes']
         /\ \A n \in Node \ Nodes' : path'[n] = {} /\ children'[n] = {}
         /\ children' = [children EXCEPT ![cur] = NewNodes(k)]
         /\ \A n \in Nodes' : \E m \in Leaves' : n \in path'[m]
<1> DEFINE new == NewNodes(k)
<1> DEFINE path2 == [n \in Node |-> IF n \in new THEN path[cur] \cup {n} ELSE path[n]]
<1> USE DEF NewNodes
<1>1. /\ count \in Nat /\ k \in Nat \ {0} /\ count \in Node
      /\ count + k <= MaxNodes /\ count' = count + k
  <2>1. count \in Nat /\ k \in Nat \ {0} /\ MaxNodes \in Nat /\ count \in Node
    BY BnbAssumption DEF Typed, TypeOK, Node
  <2>2. IsFiniteSet(Node) /\ IsFiniteSet(1 .. k)
    BY <2>1, 1 \in Int, MaxNodes \in Int, k \in Int, FS_Interval DEF Node
  <2>3. ASSUME NEW S, IsFiniteSet(S), NEW T \in SUBSET S PROVE Cardinality(T) \in Nat
    BY <2>3, FS_Subset, FS_CardinalityType
  <2>4. Cardinality({n \in open : valid[n] /\ covered[n] # Sites}) \in Nat
    <3>1. {n \in open : valid[n] /\ covered[n] # Sites} \in SUBSET Node
      BY NodeFacts DEF Typed, TypeOK
    <3>2. QED
      BY <2>2, <2>3, <3>1
  <2>5. Cardinality({i \in 1 .. k : rs[i].valid /\ rs[i].covered # Sites}) \in Nat
    <3>1. {i \in 1 .. k : rs[i].valid /\ rs[i].covered # Sites} \in SUBSET (1 .. k)
      OBVIOUS
    <3>2. QED
      BY <2>2, <2>3, <3>1
  <2>6. RoomLeft(k, rs)
    BY DEF Branch
  <2>7. count + k <= MaxNodes
    BY <2>1, <2>4, <2>5, <2>6 DEF RoomLeft
  <2>8. QED
    BY <2>1, <2>7 DEF Branch
<1>2. /\ pc = "explore" /\ pc' = "leaving" /\ cur \in Leaves /\ cur \in Nodes
      /\ cur \notin open /\ cur' = cur /\ open' = open \cup new
      /\ UNCHANGED <<pruned, sites, ub, cutoff>>
  BY DEF Branch, Queued, Typed, TypeOK, TreeShape, Frontier, InVisit
<1>3. /\ Nodes' = Nodes \cup new /\ Nodes \cap new = {} /\ Nodes' \subseteq Node
      /\ new # {} /\ \A n \in new : n - count \in 1 .. k
  <2>1. count + 1 \in new
    BY <1>1
  <2>2. \A n \in Int : n \in Nodes' <=> n \in Nodes \/ n \in new
    BY <1>1 DEF Nodes
  <2>3. Nodes' \subseteq Int /\ Nodes \subseteq Int /\ new \subseteq Int
    BY DEF Nodes
  <2>4. Nodes' \subseteq Node /\ Nodes \cap new = {}
    <3>1. MaxNodes \in Nat
      BY BnbAssumption
    <3>2. \A n \in Nodes' : n \in Int /\ 1 <= n /\ n <= MaxNodes
      BY <1>1, <3>1 DEF Nodes
    <3>3. Nodes' \subseteq Node
      BY <3>1, <3>2 DEF Node
    <3>4. Nodes \cap new = {}
      BY <1>1 DEF Nodes
    <3>5. QED
      BY <3>3, <3>4
  <2>5. \A n \in new : n - count \in 1 .. k
    BY <1>1
  <2>6. QED
    BY <2>1, <2>2, <2>3, <2>4, <2>5
<1>4. path' = path2 /\ children' = [children EXCEPT ![cur] = new]
  BY DEF Branch
<1>5. Leaves' = (Leaves \ {cur}) \cup new
  <2>1. \A n \in Nodes' : children'[n] = IF n = cur THEN new ELSE children[n]
    BY <1>2, <1>3, <1>4 DEF Typed, TypeOK
  <2>2. \A n \in new : children[n] = {} /\ n # cur
    BY <1>2, <1>3 DEF Typed, TreeShape
  <2>3. QED
    BY <1>3, <2>1, <2>2 DEF Leaves
<1>6. \A n \in Nodes : path'[n] = path[n]
  BY <1>3, <1>4 DEF Typed, TypeOK
<1>7. \A n \in new : path'[n] = path[cur] \cup {n}
  BY <1>3, <1>4
<1>8. \A n \in Nodes' : path'[n] \subseteq Nodes'
  BY <1>2, <1>3, <1>6, <1>7 DEF Typed, TypeOK
<1>9. path' \in [Node -> SUBSET Nodes'] /\ children' \in [Node -> SUBSET Nodes']
  <2>1. \A n \in Node : path2[n] \in SUBSET Nodes'
    BY <1>2, <1>3, <1>4, <1>8 DEF Typed, TypeOK
  <2>2. children' \in [Node -> SUBSET Nodes']
    BY <1>3, <1>4 DEF Typed, TypeOK
  <2>3. QED
    BY <1>4, <2>1, <2>2
<1>10. \A n \in Nodes' : \E m \in Leaves' : n \in path'[m]
  <2>1. ASSUME NEW n \in Nodes PROVE \E m \in Leaves' : n \in path'[m]
    <3>1. PICK m \in Leaves : n \in path[m]
      BY DEF Typed, TreeShape
    <3>2. CASE m # cur
      BY <1>5, <1>6, <3>1, <3>2 DEF Leaves
    <3>3. CASE m = cur
      BY <1>3, <1>5, <1>7, <3>1, <3>3
    <3>4. QED
      BY <3>2, <3>3
  <2>2. QED
    BY <1>3, <1>5, <1>7, <2>1
<1>11. \A n \in Node \ Nodes' : path'[n] = {} /\ children'[n] = {}
  BY <1>2, <1>3, <1>4 DEF Typed, TypeOK, TreeShape
<1>12. \A i \in 1 .. k : count + i \in new /\ (count + i) - count = i
  BY <1>1
<1>13. count' \in Node
  BY <1>1 DEF Node
<1> HIDE DEF NewNodes
<1>14. QED
  BY <1>2, <1>3, <1>4, <1>5, <1>6, <1>7, <1>8, <1>9, <1>10, <1>11, <1>12, <1>13

\* The bound each child is evaluated to, and the bound of every node before
\* the ancestors are re-evaluated.
Evaluated(k, rs) ==
  [n \in Node |-> IF n \in NewNodes(k) THEN Greater(rs[n - count].lb, lb[cur]) ELSE lb[n]]
Settled(k, rs) ==
  [Evaluated(k, rs) EXCEPT ![cur] =
     Greater(@, Min({Evaluated(k, rs)[n] : n \in NewNodes(k)}))]

\* What a branching does to the bounds.
LEMMA BranchBounds ==
  ASSUME Typed, NEW k \in 1 .. MaxFanout, NEW rs \in [1 .. k -> Relaxations], Branch(k, rs)
  PROVE  /\ Settled(k, rs) \in [Node -> Bounds]
         /\ \A n \in NewNodes(k) :
              Settled(k, rs)[n] = Greater(rs[n - count].lb, lb[cur])
         /\ \A n \in Node \ NewNodes(k) : n # cur => Settled(k, rs)[n] = lb[n]
         /\ \E n \in NewNodes(k) : Settled(k, rs)[cur] = Greater(lb[cur], Settled(k, rs)[n])
         /\ \A n \in NewNodes(k) : Settled(k, rs)[cur] <= Settled(k, rs)[n]
         /\ lb' = Propagated(Settled(k, rs), cur, Leaves', path')
         /\ lb' \in [Node -> Bounds]
         /\ \A m \in Leaves' : lb'[m] = Settled(k, rs)[m]
         /\ \A n \in Nodes : lb[n] <= lb'[n]
         /\ \A m \in Leaves' : m \notin path'[cur] \ {cur}
<1> DEFINE new == NewNodes(k)
<1> DEFINE E == Evaluated(k, rs)
<1> DEFINE S == Settled(k, rs)
<1> DEFINE low == Min({E[n] : n \in new})
<1>1. /\ new # {} /\ Nodes \cap new = {} /\ new \subseteq Node /\ cur \in Nodes
      /\ cur \in Node /\ \A n \in new : n - count \in 1 .. k
  BY BranchGrows
<1>2. \A i \in 1 .. k : rs[i].lb \in Bounds /\ rs[i].lb \in Nat
  BY RelaxationFacts, BoundsAreNat DEF Bounds
<1>3. \A n \in Node : lb[n] \in Bounds /\ lb[n] \in Nat
  BY BoundsAreNat DEF Typed, TypeOK
<1>4. E \in [Node -> Bounds]
  BY <1>1, <1>2, <1>3 DEF Greater, Evaluated
<1>5. /\ \A n \in new : E[n] = Greater(rs[n - count].lb, lb[cur])
      /\ \A n \in Node \ new : E[n] = lb[n]
  BY <1>1 DEF Evaluated
<1>6. cur \notin new /\ E[cur] = lb[cur]
  BY <1>1, <1>5
<1>7. PICK n0 \in new : low = E[n0] /\ \A n \in new : low <= E[n]
  <2> HIDE DEF E
  <2>1. \A n \in new : E[n] \in Nat
    BY <1>1, <1>4, BoundsAreNat
  <2>2. {E[n] : n \in new} \in SUBSET Nat /\ {E[n] : n \in new} # {}
    BY <1>1, <2>1
  <2>3. low \in {E[n] : n \in new} /\ \A x \in {E[n] : n \in new} : low <= x
    BY <2>2, MinIsLeast
  <2>4. QED
    BY <2>3
<1>8. \A n \in new : E[n] \in Nat /\ lb[cur] <= E[n]
  BY <1>1, <1>2, <1>3, <1>5 DEF Greater
<1>9. S = [E EXCEPT ![cur] = Greater(E[cur], low)]
  BY <1>1, <1>4 DEF Settled
<1> HIDE DEF E, S, low
<1>10. S \in [Node -> Bounds]
  <2>1. E[cur] \in Bounds /\ low \in Bounds
    BY <1>1, <1>4, <1>7
  <2>2. Greater(E[cur], low) \in Bounds
    BY <2>1 DEF Greater
  <2>3. QED
    BY <1>4, <1>9, <2>2
<1>11. \A n \in Node : n # cur => S[n] = E[n]
  BY <1>4, <1>9
<1>12. S[cur] = Greater(lb[cur], S[n0]) /\ \A n \in new : S[cur] <= S[n]
  <2>1. S[cur] = Greater(lb[cur], E[n0])
    BY <1>1, <1>4, <1>6, <1>7, <1>9
  <2>2. \A n \in new : S[n] = E[n]
    BY <1>1, <1>6, <1>11
  <2>3. \A n \in new : Greater(lb[cur], E[n0]) <= E[n]
    BY <1>7, <1>8 DEF Greater
  <2>4. QED
    BY <2>1, <2>2, <2>3
<1>13. lb' = Propagated(S, cur, Leaves', path')
  BY BranchGrows DEF Branch, S, Settled, Evaluated, NewNodes
<1>14. /\ lb' \in [Node -> Bounds] /\ \A a \in Node : S[a] <= lb'[a]
       /\ \A a \in Node : a \notin path'[cur] \ {cur} => lb'[a] = S[a]
  <2> DEFINE L == Leaves'
  <2> DEFINE U == path'
  <2>1. L \in SUBSET Node /\ U \in [Node -> SUBSET Node]
    BY BranchGrows DEF Leaves, Typed, TypeOK
  <2>2. \A a \in U[cur] : \E m \in L : a \in U[m]
    BY BranchGrows
  <2>3. lb' = Propagated(S, cur, L, U)
    BY <1>13
  <2> HIDE DEF L, U
  <2>4. /\ Propagated(S, cur, L, U) \in [Node -> Bounds]
        /\ \A a \in Node : S[a] <= Propagated(S, cur, L, U)[a]
        /\ \A a \in Node : a \notin U[cur] \ {cur} => Propagated(S, cur, L, U)[a] = S[a]
    <3>1. S \in [Node -> Bounds] /\ cur \in Node /\ L \in SUBSET Node
          /\ U \in [Node -> SUBSET Node] /\ \A a \in U[cur] : \E m \in L : a \in U[m]
      BY <1>1, <1>10, <2>1, <2>2
    <3>2. /\ Propagated(S, cur, L, U) \in [Node -> Bounds]
          /\ \A a \in Node : S[a] <= Propagated(S, cur, L, U)[a]
      BY <3>1, PropagatedFacts
    <3>3. \A a \in Node : a \notin U[cur] \ {cur} => Propagated(S, cur, L, U)[a] = S[a]
      BY DEF Propagated
    <3>4. QED
      BY <3>2, <3>3
  <2>5. QED
    BY <2>3, <2>4 DEF L, U
<1>15. \A m \in Leaves' : m \notin path'[cur] \ {cur}
  <2>1. path'[cur] = path[cur] /\ path[cur] \subseteq Nodes
    BY BranchGrows DEF Typed, TypeOK
  <2>2. \A m \in Leaves' : m \in Nodes => m \in Leaves
    BY BranchGrows, <1>1
  <2>3. QED
    BY <1>1, <2>1, <2>2 DEF Typed, TreeShape, Leaves
<1>16. \A m \in Leaves' : lb'[m] = S[m]
  BY <1>14, <1>15, BranchGrows DEF Leaves, Typed, TypeOK
<1>17. ASSUME NEW n \in Nodes PROVE lb[n] <= lb'[n]
  <2>1. n \in Node /\ n \notin new
    BY <1>1, NodeFacts DEF Typed
  <2>2. lb[n] \in Nat /\ S[n] \in Nat /\ lb'[n] \in Nat /\ S[n] <= lb'[n]
    BY <1>3, <1>10, <1>14, <2>1, BoundsAreNat
  <2>3. S[n] = lb[n] \/ S[n] = Greater(lb[n], S[n0])
    BY <1>5, <1>11, <1>12, <2>1
  <2>4. S[n0] \in Nat
    BY <1>1, <1>10, BoundsAreNat
  <2>5. QED
    BY <2>2, <2>3, <2>4 DEF Greater
<1>18. QED
  BY <1>1, <1>5, <1>6, <1>10, <1>11, <1>12, <1>13, <1>14, <1>15, <1>16, <1>17
     DEF E, S

LEMMA BranchTyped ==
  ASSUME Typed, NEW k \in 1 .. MaxFanout, NEW rs \in [1 .. k -> Relaxations], Branch(k, rs)
  PROVE  Typed'
<1> DEFINE new == NewNodes(k)
<1>1. /\ obj' \in [Node -> Bounds] /\ covered' \in [Node -> SUBSET Sites]
      /\ valid' \in [Node -> BOOLEAN] /\ holdsOpt' \in [Node -> BOOLEAN]
  <2>1. \A i \in 1 .. k : /\ rs[i].obj \in Bounds /\ rs[i].covered \in SUBSET Sites
                          /\ rs[i].valid \in BOOLEAN /\ rs[i].holdsOpt \in BOOLEAN
    BY RelaxationFacts DEF Bounds
  <2>2. \A n \in new : n - count \in 1 .. k
    BY BranchGrows
  <2>3. QED
    BY <2>1, <2>2 DEF Branch, Typed, TypeOK, NewNodes
<1>2. TypeOK'
  <2>1. open' \subseteq Nodes' /\ cur' \in Nodes' \ open'
    BY BranchGrows DEF Typed, TypeOK
  <2>2. QED
    BY <1>1, <2>1, BranchGrows, BranchBounds DEF Typed, TypeOK, InVisit
<1>3. TreeShape'
  <2>1. \A n \in Node \ Nodes' : path'[n] = {} /\ children'[n] = {} /\ ~ pruned'[n]
    BY BranchGrows DEF Typed, TypeOK, TreeShape
  <2>2. ASSUME NEW n \in Nodes' PROVE Root \in path'[n] /\ n \in path'[n]
    BY BranchGrows DEF Typed, TreeShape
  <2>3. ASSUME NEW m \in Nodes', NEW n \in path'[m], children'[n] = {} PROVE n = m
    <3>1. n # cur /\ n \in Nodes'
      BY <2>3, BranchGrows DEF Typed, TypeOK
    <3>2. children[n] = {}
      BY <2>3, <3>1, BranchGrows DEF Typed, TypeOK
    <3>3. CASE m \in Nodes
      BY <2>3, <3>2, <3>3, BranchGrows DEF Typed, TreeShape
    <3>4. CASE m \in new
      BY <2>3, <3>1, <3>2, <3>4, BranchGrows DEF Typed, TreeShape
    <3>5. QED
      BY <3>3, <3>4, BranchGrows
  <2>4. Frontier' \subseteq Leaves'
    BY BranchGrows DEF Frontier, InVisit, Typed, TypeOK, TreeShape
  <2>5. QED
    BY <2>1, <2>2, <2>3, <2>4, BranchGrows DEF TreeShape
<1>4. QED
  BY <1>2, <1>3 DEF Typed

LEMMA ExploreTyped == ASSUME Typed, Explore PROVE Typed'
<1>0. pc \in {"lazy", "explore"} => cur \in Nodes /\ cur \in Leaves
  BY DEF Typed, TypeOK, TreeShape, InVisit, Frontier
<1>1. ASSUME NEW new \in SUBSET Sites, AddLazyConstraints(new) PROVE Typed'
  <2>1. TypeOK'
    BY <1>1 DEF AddLazyConstraints, treeVars, Typed, TypeOK, Nodes, InVisit
  <2>2. Frontier' = Frontier
    BY <1>1 DEF AddLazyConstraints, Frontier, InVisit
  <2>3. TreeShape'
    BY <1>1, <2>2, SameTreeShape DEF AddLazyConstraints, Typed, TreeShape
  <2>4. QED
    BY <2>1, <2>3 DEF Typed
<1>2. CASE ProcessFeasible
  <2>1. ub' \in Bounds /\ cutoff' \in Bounds
    BY <1>0, <1>2, NodeFacts DEF ProcessFeasible, NewIncumbent, Lesser, Typed, TypeOK
  <2>2. TypeOK'
    BY <1>2, <2>1 DEF ProcessFeasible, treeVars, Typed, TypeOK, Nodes, InVisit
  <2>3. Frontier' \subseteq Frontier
    BY <1>2 DEF ProcessFeasible, Frontier, InVisit
  <2>4. TreeShape'
    BY <1>2, <2>3, SameTreeShape DEF ProcessFeasible, Typed, TreeShape
  <2>5. QED
    BY <2>2, <2>4 DEF Typed
<1>3. CASE PruneBeforeBranch
  <2>1. TypeOK'
    BY <1>3 DEF PruneBeforeBranch, treeVars, Typed, TypeOK, Nodes, InVisit
  <2>2. Frontier' \subseteq Frontier
    BY <1>3 DEF PruneBeforeBranch, Frontier, InVisit
  <2>3. \A n \in Node \ Nodes : pruned'[n] = pruned[n]
    BY <1>0, <1>3 DEF PruneBeforeBranch, Typed, TypeOK
  <2>4. TreeShape'
    BY <1>3, <2>2, <2>3, SameTreeShape DEF PruneBeforeBranch, Typed, TreeShape
  <2>5. QED
    BY <2>1, <2>4 DEF Typed
<1>4. ASSUME NEW k \in 1 .. MaxFanout, NEW rs \in [1 .. k -> Relaxations], Branch(k, rs)
      PROVE  Typed'
  BY <1>4, BranchTyped
<1>5. CASE BranchEmpty
  <2>1. cur \in Nodes /\ Inf \in Bounds
    BY <1>0, <1>5 DEF BranchEmpty, Bounds
  <2>2. lb' \in [Node -> Bounds]
    BY <1>5, <2>1, RaisedFacts DEF BranchEmpty
  <2>3. TypeOK'
    BY <1>5, <2>2 DEF BranchEmpty, treeVars, Typed, TypeOK, Nodes, InVisit
  <2>4. Frontier' \subseteq Frontier
    BY <1>5 DEF BranchEmpty, Frontier, InVisit
  <2>5. \A n \in Node \ Nodes : pruned'[n] = pruned[n]
    BY <1>5, <2>1 DEF BranchEmpty, Typed, TypeOK
  <2>6. TreeShape'
    BY <1>5, <2>4, <2>5, SameTreeShape DEF BranchEmpty, Typed, TreeShape
  <2>7. QED
    BY <2>3, <2>6 DEF Typed
<1>6. QED
  BY <1>1, <1>2, <1>3, <1>4, <1>5 DEF Explore

LEMMA LoopTyped == ASSUME Typed, Loop PROVE Typed'
<1>1. ASSUME NEW n \in Node, VisitPruned(n) PROVE Typed'
  <2>1. TypeOK'
    BY <1>1 DEF VisitPruned, treeVars, Typed, TypeOK, Nodes, InVisit
  <2>2. Frontier' \subseteq Frontier
    BY <1>1 DEF VisitPruned, Frontier, InVisit
  <2>3. \A m \in Node \ Nodes : pruned'[m] = pruned[m]
    BY <1>1 DEF VisitPruned, Typed, TypeOK
  <2>4. TreeShape'
    BY <1>1, <2>2, <2>3, SameTreeShape DEF VisitPruned, Typed, TreeShape
  <2>5. QED
    BY <2>1, <2>4 DEF Typed
<1>2. ASSUME NEW n \in Node, VisitNode(n) PROVE Typed'
  <2>1. TypeOK'
    BY <1>2 DEF VisitNode, treeVars, Typed, TypeOK, Nodes, InVisit
  <2>2. Frontier' \subseteq Frontier
    BY <1>2 DEF VisitNode, Frontier, InVisit
  <2>3. TreeShape'
    BY <1>2, <2>2, SameTreeShape DEF VisitNode, Typed, TreeShape
  <2>4. QED
    BY <2>1, <2>3 DEF Typed
<1>3. ASSUME \/ Exhausted \/ StopAtGap \/ StopAtTimeout \/ Continue \/ EnterDone \/ LeaveDone
      PROVE  Typed'
  <2> USE <1>3 DEF Exhausted, StopAtGap, StopAtTimeout, Continue, EnterDone, LeaveDone
  <2>1. TypeOK'
    BY DEF treeVars, Typed, TypeOK, Nodes, InVisit, NoNode
  <2>2. Frontier' \subseteq Frontier
    BY DEF Frontier, InVisit
  <2>3. UNCHANGED treeVars /\ pruned' = pruned
    OBVIOUS
  <2>4. TreeShape'
    BY <2>2, <2>3, SameTreeShape DEF Typed, TreeShape
  <2>5. QED
    BY <2>1, <2>4 DEF Typed
<1>4. QED
  BY <1>1, <1>2, <1>3 DEF Loop

LEMMA StutterTyped == ASSUME Typed, UNCHANGED vars PROVE Typed'
<1>1. TypeOK'
  BY DEF vars, Typed, TypeOK, Nodes, InVisit
<1>2. Frontier' = Frontier /\ UNCHANGED treeVars /\ pruned' = pruned
  BY DEF vars, treeVars, Frontier, InVisit
<1>3. TreeShape'
  BY <1>2, SameTreeShape DEF Typed, TreeShape
<1>4. QED
  BY <1>1, <1>3 DEF Typed

\* The shape of the tree and the types hold in every reachable state.
THEOREM TypesAndShape == Spec => []Typed
<1>1. Typed /\ [Next]_vars => Typed'
  BY SetupTyped, CallbackTyped, ExploreTyped, LoopTyped, StutterTyped DEF Next, Returned
<1>2. QED
  BY <1>1, InitTyped, PTL DEF Spec

\* Every state of the search, its tree and its queue is well typed: a node is
\* queued or visited but never both (bnb.h, node.h, search_strategy.h).
THEOREM TypeCorrectness == Spec => []TypeOK
<1>1. Typed => TypeOK
  BY DEF Typed
<1>2. QED
  BY <1>1, TypesAndShape, PTL

----------------------------------------------------------------------------
(* Bounds are tight everywhere in the tree *)

\* The ancestors of a node are those of its parent and itself, so that two of
\* them always lie above one another.
Nested ==
  /\ \A m \in Nodes : \A a \in path[m] : path[a] \subseteq path[m]
  /\ \A m \in Nodes : \A a, b \in path[m] : a \in path[b] \/ b \in path[a]
  /\ \A m \in Nodes : \A a \in path[m] \ {m} : \E c \in children[a] : c \in path[m]
  /\ \A n \in Nodes : \A c \in children[n] : n \in path[c]

\* The bound g of node a is the least of the leaves under it.
LeastOfLeaves(g, leaf, under, a) ==
  /\ \E m \in leaf : a \in under[m] /\ g[a] = g[m]
  /\ \A m \in leaf : a \in under[m] => g[a] <= g[m]

\* ParentBoundTight is not inductive: when a leaf is raised, the bounds of all
\* its ancestors are taken from the leaves, and a parent agrees with its
\* children only because every node agrees with its leaves.
BackedByLeaves == \A a \in Nodes : LeastOfLeaves(lb, Leaves, path, a)

Tight == Typed /\ Nested /\ BackedByLeaves

LEMMA TightImpliesParentBound == ASSUME Tight PROVE ParentBoundTight
<1> SUFFICES ASSUME NEW n \in Nodes, children[n] # {}
             PROVE  lb[n] = Min({lb[c] : c \in children[n]})
  BY DEF ParentBoundTight
<1>1. Nodes \subseteq Node /\ Leaves \subseteq Nodes /\ children[n] \subseteq Nodes
  BY NodeFacts DEF Tight, Typed, TypeOK
<1>2. \A m \in Nodes : lb[m] \in Nat
  BY <1>1, BoundsAreNat DEF Tight, Typed, TypeOK
<1>3. ASSUME NEW c \in children[n] PROVE lb[n] <= lb[c]
  <2>1. PICK m \in Leaves : c \in path[m] /\ lb[c] = lb[m]
    BY <1>1 DEF Tight, BackedByLeaves, LeastOfLeaves
  <2>2. n \in path[m]
    BY <1>1, <2>1 DEF Tight, Nested
  <2> QED BY <2>1, <2>2 DEF Tight, BackedByLeaves, LeastOfLeaves
<1>4. \E c \in children[n] : lb[n] = lb[c]
  <2>1. PICK m \in Leaves : n \in path[m] /\ lb[n] = lb[m]
    BY DEF Tight, BackedByLeaves, LeastOfLeaves
  <2>2. n # m
    BY DEF Leaves
  <2>3. PICK c \in children[n] : c \in path[m]
    BY <1>1, <2>1, <2>2 DEF Tight, Nested
  <2>4. lb[c] <= lb[m]
    BY <1>1, <2>1, <2>3 DEF Tight, BackedByLeaves, LeastOfLeaves
  <2>5. lb[n] = lb[c]
    BY <1>1, <1>2, <1>3, <2>1, <2>3, <2>4
  <2> QED BY <2>5
<1> DEFINE S == {lb[c] : c \in children[n]}
<1>5. S \in SUBSET Nat /\ S # {} /\ lb[n] \in S /\ \A x \in S : lb[n] <= x
  BY <1>1, <1>2, <1>3, <1>4
<1> HIDE DEF S
<1>6. Min(S) \in S /\ Min(S) <= lb[n]
  BY <1>5, MinIsLeast
<1>7. lb[n] = Min(S)
  <2>1. \A x, y \in Nat : x <= y /\ y <= x => x = y
    OBVIOUS
  <2>2. lb[n] <= Min(S) /\ lb[n] \in Nat /\ Min(S) \in Nat
    BY <1>5, <1>6
  <2> QED BY <1>6, <2>1, <2>2
<1> QED BY <1>7 DEF S

\* Re-evaluation makes the bounds of the ancestors of n the least of their
\* leaves and leaves those of other nodes as they are.
LEMMA PropagatedKeepsLeast ==
  ASSUME NEW f \in [Node -> Bounds], NEW n \in Node, NEW leaf \in SUBSET Node,
         NEW under \in [Node -> SUBSET Node],
         \A m \in leaf : m \notin under[n] \ {n},
         NEW a \in Node, \E m \in leaf : a \in under[m],
         a \in under[n] \ {n} => \A m \in leaf : a \in under[m] => f[a] <= f[m],
         a \notin under[n] \ {n} => LeastOfLeaves(f, leaf, under, a)
  PROVE  LeastOfLeaves(Propagated(f, n, leaf, under), leaf, under, a)
<1> DEFINE P == Propagated(f, n, leaf, under)
<1>1. \A m \in leaf : P[m] = f[m] /\ f[m] \in Nat
  BY BoundsAreNat DEF Propagated
<1>2. CASE a \in under[n] \ {n}
  <2>1. PICK m \in leaf : /\ a \in under[m] /\ P[a] = Greater(f[a], f[m])
                          /\ \A k \in leaf : a \in under[k] => f[m] <= f[k]
    BY <1>2, AncestorReevaluated
  <2>2. f[a] \in Nat /\ f[a] <= f[m]
    BY <1>2, <2>1, BoundsAreNat
  <2>3. P[a] = f[m]
    BY <1>1, <2>1, <2>2 DEF Greater
  <2> HIDE DEF P
  <2> QED BY <1>1, <2>1, <2>3 DEF LeastOfLeaves, P
<1>3. CASE a \notin under[n] \ {n}
  <2>1. P[a] = f[a]
    BY <1>3 DEF Propagated
  <2> HIDE DEF P
  <2> QED BY <1>1, <1>3, <2>1 DEF LeastOfLeaves, P
<1> QED BY <1>2, <1>3

\* add_lower_bound raises the bounds of a subtree as one and re-evaluates what
\* is above it.
LEMMA RaisedKeepsBacked ==
  ASSUME Tight, NEW n \in Nodes, NEW l \in Bounds, NEW a \in Nodes
  PROVE  LeastOfLeaves(Raised(n, l), Leaves, path, a)
<1> DEFINE f == [m \in Node |-> IF n \in path[m] THEN Greater(lb[m], l) ELSE lb[m]]
<1>1. \A m \in Node : lb[m] \in Bounds /\ lb[m] \in Nat /\ l \in Nat
  BY BoundsAreNat DEF Tight, Typed, TypeOK
<1>2. f \in [Node -> Bounds]
  BY <1>1 DEF Greater
<1>3. /\ n \in Node /\ a \in Node /\ Leaves \in SUBSET Node /\ Leaves \subseteq Nodes
      /\ path \in [Node -> SUBSET Node] /\ Nodes \subseteq Node
  BY NodeFacts DEF Tight, Typed
<1>4. \A m \in Leaves : m \notin path[n] \ {n}
  BY DEF Tight, Typed, TreeShape, Leaves
<1>5. \E m \in Leaves : a \in path[m]
  BY DEF Tight, Typed, TreeShape
<1>6. \A m \in Leaves : a \in path[m] => lb[a] <= lb[m]
  BY DEF Tight, BackedByLeaves, LeastOfLeaves
<1>7. ASSUME NEW m \in Leaves, a \in path[m] PROVE f[a] <= f[m]
  <2>1. n \in path[a] => n \in path[m]
    BY <1>3, <1>7 DEF Tight, Nested
  <2>2. lb[a] <= lb[m] /\ lb[a] \in Nat /\ lb[m] \in Nat /\ l \in Nat
    BY <1>1, <1>3, <1>6, <1>7
  <2> QED BY <1>3, <2>1, <2>2 DEF Greater
<1>8. ASSUME a \notin path[n] \ {n} PROVE LeastOfLeaves(f, Leaves, path, a)
  <2>1. PICK m \in Leaves : a \in path[m] /\ lb[a] = lb[m]
    BY DEF Tight, BackedByLeaves, LeastOfLeaves
  <2>2. n \in path[m] <=> n \in path[a]
    <3>1. n \in path[a] => n \in path[m]
      BY <1>3, <2>1 DEF Tight, Nested
    <3>2. ASSUME n \in path[m] PROVE n \in path[a]
      <4>1. a \in path[n] \/ n \in path[a]
        BY <1>3, <2>1, <3>2 DEF Tight, Nested
      <4>2. n \in path[n]
        BY DEF Tight, Typed, TreeShape
      <4> QED BY <1>8, <4>1, <4>2
    <3> QED BY <3>1, <3>2
  <2>3. f[a] = f[m]
    BY <1>3, <2>1, <2>2
  <2> HIDE DEF f
  <2> QED BY <1>7, <2>1, <2>3 DEF LeastOfLeaves
<1>9. Raised(n, l) = Propagated(f, n, Leaves, path)
  BY DEF Raised, RaisedBounds
<1> HIDE DEF f
<1> QED BY <1>2, <1>3, <1>4, <1>5, <1>7, <1>8, <1>9, PropagatedKeepsLeast

\* A branching puts the new nodes under the current one and nowhere else.
LEMMA BranchKeepsNested ==
  ASSUME Tight, NEW k \in 1 .. MaxFanout, NEW rs \in [1 .. k -> Relaxations], Branch(k, rs)
  PROVE  Nested'
<1> DEFINE new == NewNodes(k)
<1>1. Typed /\ Nested
  BY DEF Tight
<1>2. /\ Nodes' = Nodes \cup new /\ Nodes \cap new = {}
      /\ cur \in Nodes /\ children[cur] = {}
      /\ \A m \in Nodes : path'[m] = path[m] /\ path[m] \subseteq Nodes
      /\ \A m \in new : path'[m] = path[cur] \cup {m}
      /\ children'[cur] = new
      /\ \A m \in Nodes' : m # cur => children'[m] = children[m]
      /\ \A m \in new : children'[m] = {}
  <2>1. \A m \in new : children[m] = {}
    BY <1>1, BranchGrows DEF Typed, TreeShape
  <2>2. cur \in Node /\ children \in [Node -> SUBSET Nodes]
    BY <1>1, BranchGrows, NodeFacts DEF Typed, TypeOK
  <2> QED BY <1>1, <2>1, <2>2, BranchGrows DEF Typed, TypeOK, Leaves
<1>3. cur \in path[cur] /\ \A m \in Nodes : cur \in path[m] => m = cur
  BY <1>1, <1>2 DEF Typed, TreeShape
<1> HIDE DEF new
<1>4. ASSUME NEW m \in Nodes', NEW a \in path'[m] PROVE path'[a] \subseteq path'[m]
  <2>1. CASE m \in Nodes
    BY <1>1, <1>2, <1>4, <2>1 DEF Nested
  <2>2. CASE m \in new
    BY <1>1, <1>2, <1>4, <2>2 DEF Nested
  <2> QED BY <1>2, <2>1, <2>2
<1>5. ASSUME NEW m \in Nodes', NEW a \in path'[m], NEW b \in path'[m]
      PROVE  a \in path'[b] \/ b \in path'[a]
  <2>1. CASE m \in Nodes
    <3>1. a \in path[m] /\ b \in path[m] /\ a \in Nodes /\ b \in Nodes
      BY <1>2, <1>5, <2>1
    <3> QED BY <1>1, <1>2, <2>1, <3>1 DEF Nested
  <2>2. CASE m \in new
    <3>1. CASE a = m \/ b = m
      BY <1>2, <1>5, <2>2, <3>1
    <3>2. CASE a # m /\ b # m
      <4>1. a \in path[cur] /\ b \in path[cur] /\ a \in Nodes /\ b \in Nodes
        BY <1>2, <1>5, <2>2, <3>2
      <4> QED BY <1>1, <1>2, <4>1 DEF Nested
    <3> QED BY <3>1, <3>2
  <2> QED BY <1>2, <2>1, <2>2
<1>6. ASSUME NEW m \in Nodes', NEW a \in path'[m] \ {m}
      PROVE  \E c \in children'[a] : c \in path'[m]
  <2>1. CASE m \in Nodes
    <3>1. PICK c \in children[a] : c \in path[m]
      BY <1>1, <1>2, <1>6, <2>1 DEF Nested
    <3>2. a \in Nodes /\ a # cur
      BY <1>2, <1>3, <1>6, <2>1
    <3> QED BY <1>2, <2>1, <3>1, <3>2
  <2>2. CASE m \in new
    <3>1. a \in path[cur] /\ a \in Nodes
      BY <1>2, <1>6, <2>2
    <3>2. CASE a = cur
      BY <1>2, <2>2, <3>2
    <3>3. CASE a # cur
      <4>1. PICK c \in children[a] : c \in path[cur]
        BY <1>1, <1>2, <3>1, <3>3 DEF Nested
      <4> QED BY <1>2, <2>2, <3>1, <3>3, <4>1
    <3> QED BY <3>2, <3>3
  <2> QED BY <1>2, <2>1, <2>2
<1>7. ASSUME NEW n \in Nodes', NEW c \in children'[n] PROVE n \in path'[c]
  <2>1. CASE n = cur
    BY <1>2, <1>3, <1>7, <2>1
  <2>2. CASE n # cur
    <3>1. c \in children[n] /\ n \in Nodes
      BY <1>2, <1>7, <2>2
    <3>2. c \in Nodes
      BY <1>1, <3>1, NodeFacts DEF Typed, TypeOK
    <3> QED BY <1>1, <1>2, <3>1, <3>2 DEF Nested
  <2> QED BY <2>1, <2>2
<1> QED BY <1>4, <1>5, <1>6, <1>7 DEF Nested

\* The children start with bounds no less than that of their parent, which
\* takes the least of them.
LEMMA BranchKeepsBacked ==
  ASSUME Tight, NEW k \in 1 .. MaxFanout, NEW rs \in [1 .. k -> Relaxations], Branch(k, rs)
  PROVE  BackedByLeaves'
<1> DEFINE new == NewNodes(k)
           S == Settled(k, rs)
           L == Leaves'
           U == path'
<1>1. Typed /\ Typed'
  BY BranchTyped DEF Tight
<1>2. /\ Nodes' = Nodes \cup new /\ Nodes \cap new = {} /\ Nodes \subseteq Node
      /\ cur \in Nodes /\ cur \in Leaves /\ Leaves \subseteq Nodes
      /\ \A m \in Nodes : U[m] = path[m] /\ path[m] \subseteq Nodes
      /\ \A m \in new : U[m] = path[cur] \cup {m}
      /\ L = (Leaves \ {cur}) \cup new /\ new # {}
      /\ cur \in path[cur] /\ \A m \in Nodes : cur \in path[m] => m = cur
  <2>1. /\ Nodes' = Nodes \cup new /\ Nodes \cap new = {} /\ Nodes \subseteq Node
        /\ cur \in Nodes /\ cur \in Leaves /\ Leaves \subseteq Nodes
        /\ \A m \in Nodes : U[m] = path[m] /\ path[m] \subseteq Nodes
        /\ \A m \in new : U[m] = path[cur] \cup {m}
        /\ L = (Leaves \ {cur}) \cup new /\ new # {}
    BY <1>1, BranchGrows, NodeFacts DEF Typed, TypeOK
  <2>2. children[cur] = {} /\ cur \in path[cur]
    BY <1>1, <2>1 DEF Leaves, Typed, TreeShape
  <2>3. \A m \in Nodes : cur \in path[m] => m = cur
    BY <1>1, <2>2 DEF Typed, TreeShape
  <2> QED BY <2>1, <2>2, <2>3
<1>3. /\ cur \in Node /\ L \in SUBSET Node /\ U \in [Node -> SUBSET Node]
      /\ Nodes' \subseteq Node
  BY <1>1, <1>2, BranchGrows DEF Leaves, Typed, TypeOK
<1>4. \A m \in L : m \notin U[cur] \ {cur}
  BY <1>1, BranchBounds
<1>5. /\ S \in [Node -> Bounds] /\ lb' = Propagated(S, cur, L, U)
      /\ \A m \in Nodes : m # cur => S[m] = lb[m]
      /\ \A m \in new : S[m] = Greater(rs[m - count].lb, lb[cur])
      /\ \A m \in new : S[cur] <= S[m]
      /\ \E m \in new : S[cur] = Greater(lb[cur], S[m])
  <2>1. \A m \in Nodes : m \in Node \ new
    BY <1>2
  <2> QED BY <1>1, <2>1, BranchBounds
<1>6. \A m \in Node : lb[m] \in Nat /\ S[m] \in Nat
  BY <1>1, <1>5, BoundsAreNat DEF Typed, TypeOK
<1>7. \A m \in new : lb[cur] <= S[m]
  <2>1. \A m \in new : rs[m - count].lb \in Nat
    BY <1>1, BranchGrows, RelaxationFacts, BnbAssumption
  <2> QED BY <1>3, <1>5, <1>6, <2>1 DEF Greater
<1> HIDE DEF new, S, L, U
<1>8. ASSUME NEW a \in Nodes, NEW m \in Leaves, a \in path[m] PROVE lb[a] <= lb[m]
  BY <1>8 DEF Tight, BackedByLeaves, LeastOfLeaves
<1>9. ASSUME NEW a \in U[cur] \ {cur}, NEW m \in L, a \in U[m] PROVE S[a] <= S[m]
  <2>1. a \in path[cur] /\ a \in Nodes /\ S[a] = lb[a]
    BY <1>2, <1>5, <1>9
  <2>2. CASE m \in Leaves \ {cur}
    BY <1>2, <1>5, <1>8, <1>9, <2>1, <2>2
  <2>3. CASE m \in new
    <3>1. lb[a] <= lb[cur] /\ lb[cur] <= S[m]
      BY <1>2, <1>7, <1>8, <2>1, <2>3
    <3>2. m \in Node /\ a \in Node /\ lb[a] \in Nat /\ lb[cur] \in Nat /\ S[m] \in Nat
      BY <1>2, <1>3, <1>6, <2>1
    <3> QED BY <2>1, <3>1, <3>2
  <2> QED BY <1>2, <2>2, <2>3
<1>10. ASSUME NEW a \in Nodes', a \notin U[cur] \ {cur} PROVE LeastOfLeaves(S, L, U, a)
  <2>1. CASE a \in new
    <3>1. \A m \in L : a \in U[m] => m = a
      BY <1>2, <2>1
    <3>2. a \in L /\ a \in U[a] /\ S[a] \in Nat
      BY <1>2, <1>3, <1>6, <2>1
    <3> QED BY <3>1, <3>2 DEF LeastOfLeaves
  <2>2. CASE a = cur
    <3>1. \A m \in L : a \in U[m] => m \in new
      BY <1>2, <2>2
    <3>2. \A m \in new : a \in U[m] /\ m \in L
      BY <1>2, <2>2
    <3>3. PICK m \in new : S[cur] = Greater(lb[cur], S[m])
      BY <1>5
    <3>4. S[cur] = S[m]
      <4>1. m \in Node /\ lb[cur] \in Nat /\ S[m] \in Nat /\ lb[cur] <= S[m]
        BY <1>2, <1>3, <1>6, <1>7, <3>2
      <4> QED BY <3>3, <4>1 DEF Greater
    <3> QED BY <1>5, <2>2, <3>1, <3>2, <3>4 DEF LeastOfLeaves
  <2>3. CASE a \in Nodes /\ a # cur
    <3>1. a \notin path[cur]
      BY <1>2, <1>10, <2>3
    <3>2. \A m \in L : a \in U[m] => m \in Leaves \ {cur} /\ a \in path[m]
      BY <1>2, <2>3, <3>1
    <3>3. PICK m \in Leaves : a \in path[m] /\ lb[a] = lb[m]
      BY <2>3 DEF Tight, BackedByLeaves, LeastOfLeaves
    <3>4. m # cur /\ m \in L /\ a \in U[m]
      BY <1>2, <3>1, <3>3
    <3>5. S[a] = lb[a] /\ \A j \in Leaves \ {cur} : S[j] = lb[j]
      BY <1>2, <1>5, <2>3
    <3>6. \A j \in L : a \in U[j] => S[a] <= S[j]
      BY <1>8, <2>3, <3>2, <3>5
    <3>7. S[a] = S[m]
      BY <3>3, <3>4, <3>5
    <3> QED BY <3>4, <3>6, <3>7 DEF LeastOfLeaves
  <2> QED BY <1>2, <2>1, <2>2, <2>3
<1>11. \A a \in Nodes' : \E m \in L : a \in U[m]
  BY <1>1, BranchGrows DEF L, U
<1>12. \A a \in Nodes' : LeastOfLeaves(lb', L, U, a)
  BY <1>3, <1>4, <1>5, <1>9, <1>10, <1>11, PropagatedKeepsLeast
<1> QED BY <1>12 DEF BackedByLeaves, LeastOfLeaves, L, U

\* Besides branching, the only thing a step does to the tree is add_lower_bound.
LEMMA TreeChanges ==
  ASSUME Typed, [Next]_vars
  PROVE  \/ \E k \in 1 .. MaxFanout : \E rs \in [1 .. k -> Relaxations] : Branch(k, rs)
         \/ /\ UNCHANGED treeVars
            /\ lb' = lb \/ \E n \in Nodes : \E l \in Bounds : lb' = Raised(n, l)
<1>1. /\ InCallback \/ pc \in {"lazy", "explore"} => cur \in Nodes
      /\ Root \in Nodes /\ Costs \subseteq Bounds /\ Inf \in Bounds
  BY NodeFacts DEF Typed, TypeOK, InVisit, InCallback, Bounds
<1>2. CASE Setup
  BY <1>1, <1>2 DEF Setup, AddUpperBound, AddLowerBound, StartOptimize
<1>3. CASE Callback
  BY <1>1, <1>3 DEF Callback, CallbackAddLowerBound, CallbackAddSolution, CallbackAddSite,
                    CallbackPrune
<1>4. CASE Explore
  BY <1>1, <1>4 DEF Explore, AddLazyConstraints, ProcessFeasible, PruneBeforeBranch, BranchEmpty
<1>5. CASE Loop
  BY <1>5 DEF Loop, VisitPruned, VisitNode, Exhausted, StopAtGap, StopAtTimeout, Continue,
              EnterDone, LeaveDone
<1>6. CASE UNCHANGED vars
  BY <1>6 DEF vars, treeVars
<1> QED BY <1>2, <1>3, <1>4, <1>5, <1>6 DEF Next, Returned

\* Every node's bound is the least of its leaves' in every reachable state.
LEMMA TightHolds == Spec => []Tight
<1>1. ASSUME Init PROVE Tight
  <2>1. Typed
    BY <1>1, InitTyped
  <2>2. /\ count = 1 /\ children = [n \in Node |-> {}]
        /\ path = [n \in Node |-> IF n = Root THEN {Root} ELSE {}]
    BY <1>1 DEF Init
  <2>3. Nodes = {Root} /\ Root \in Node
    BY <2>2, BnbAssumption DEF Nodes, Node, Root
  <2>3a. lb[Root] \in Nat
    BY <2>1, <2>3, BoundsAreNat DEF Typed, TypeOK
  <2>4. path[Root] = {Root} /\ children[Root] = {} /\ Leaves = {Root}
    BY <2>2, <2>3 DEF Leaves
  <2>5. Nested
    BY <2>3, <2>4 DEF Nested
  <2>6. BackedByLeaves
    BY <2>3, <2>4, <2>3a DEF BackedByLeaves, LeastOfLeaves
  <2> QED BY <2>1, <2>5, <2>6 DEF Tight
<1>2. ASSUME Tight, [Next]_vars PROVE Tight'
  <2>1. Typed'
    BY <1>2, SetupTyped, CallbackTyped, ExploreTyped, LoopTyped, StutterTyped
       DEF Next, Returned, Tight
  <2>2. ASSUME NEW k \in 1 .. MaxFanout, NEW rs \in [1 .. k -> Relaxations], Branch(k, rs)
        PROVE  Nested' /\ BackedByLeaves'
    BY <1>2, <2>2, BranchKeepsNested, BranchKeepsBacked
  <2>3. ASSUME UNCHANGED treeVars PROVE Nested' /\ Nodes' = Nodes /\ Leaves' = Leaves
    BY <1>2, <2>3 DEF Tight, Nested, treeVars, Nodes, Leaves
  <2>4. ASSUME UNCHANGED treeVars, lb' = lb PROVE BackedByLeaves'
    BY <1>2, <2>3, <2>4 DEF Tight, BackedByLeaves, LeastOfLeaves, treeVars
  <2>5. ASSUME UNCHANGED treeVars, NEW n \in Nodes, NEW l \in Bounds, lb' = Raised(n, l)
        PROVE  BackedByLeaves'
    <3>1. \A a \in Nodes : LeastOfLeaves(lb', Leaves, path, a)
      BY <1>2, <2>5, RaisedKeepsBacked
    <3> QED BY <2>3, <2>5, <3>1 DEF BackedByLeaves, LeastOfLeaves, treeVars
  <2> QED BY <1>2, <2>1, <2>2, <2>3, <2>4, <2>5, TreeChanges DEF Tight
<1> QED BY <1>1, <1>2, PTL DEF Spec

\* A node that branched has exactly the least bound of its children, however
\* bounds were raised in between by callbacks, prunings and other branchings
\* (node.cpp add_lower_bound, reevaluate_children).
THEOREM ParentsAreTight == Spec => []ParentBoundTight
  BY TightHolds, TightImpliesParentBound, PTL

----------------------------------------------------------------------------
(* Arithmetic of the invariant *)

LEMMA LengthsAreNat ==
  ASSUME Typed
  PROVE  /\ Opt \in Nat /\ Inf \in Nat /\ Slack \in Nat /\ Opt \in Bounds /\ Inf \in Bounds
         /\ ub \in Nat /\ cutoff \in Nat /\ ub <= Inf /\ cutoff <= Inf
         /\ \A n \in Node : lb[n] \in Nat /\ obj[n] \in Nat
  BY BnbAssumption, BoundsAreNat DEF Typed, TypeOK, Bounds

\* An infinite bound closes a node whatever the incumbent is.
LEMMA InfiniteIsGoodEnough ==
  ASSUME NEW u \in Nat, u <= Inf
  PROVE  GoodEnough(u, Inf)
  BY BnbAssumption DEF GoodEnough, Promise!GoodEnough

LEMMA WithinIsGoodEnough ==
  ASSUME NEW u, NEW l, WithinGap(u, l)
  PROVE  GoodEnough(u, l)
  BY DEF GoodEnough, Promise!GoodEnough, WithinGap

\* An upper bound below the lower bound passes the gap test.
LEMMA CrossedIsWithinGap ==
  ASSUME NEW u \in Nat, NEW l \in Nat, u <= l
  PROVE  WithinGap(u, l)
<1>1. GapDen \in Nat /\ GapNum \in Nat /\ GapDen + GapNum \in Nat
  BY BnbAssumption
<1>2. u * GapDen <= l * GapDen
  BY <1>1, TimesMonotone
<1>3. GapDen * l <= (GapDen + GapNum) * l
  <2>1. l * GapDen = GapDen * l /\ l * (GapDen + GapNum) = (GapDen + GapNum) * l
    BY <1>1
  <2>2. GapNum * l \in Nat /\ (GapDen + GapNum) * l = GapDen * l + GapNum * l
    BY <1>1
  <2>3. GapDen * l \in Nat
    BY <1>1
  <2>4. QED
    BY <2>2, <2>3
<1>4. l * GapDen = GapDen * l
  BY <1>1
<1>5. u * GapDen \in Nat /\ GapDen * l \in Nat /\ (GapDen + GapNum) * l \in Nat
  BY <1>1
<1>6. u * GapDen <= (GapDen + GapNum) * l
  BY <1>2, <1>3, <1>4, <1>5
<1>7. QED
  BY <1>6 DEF WithinGap, Promise!WithinGap

----------------------------------------------------------------------------
(* Propagation keeps bounds true and the root tight *)

\* If every node of a set H has a bound of at most b, and under every node of
\* H lies a leaf of H, then this is still so after propagation.
LEMMA PropagatedKeepsTrue ==
  ASSUME NEW f \in [Node -> Bounds], NEW n \in Node, NEW leaf \in SUBSET Node,
         NEW under \in [Node -> SUBSET Node],
         \A a \in under[n] : \E m \in leaf : a \in under[m],
         NEW b \in Nat, NEW H \in SUBSET Node,
         \A a \in H : f[a] <= b,
         \A a \in H : \E m \in leaf : a \in under[m] /\ m \in H
  PROVE  \A a \in H : Propagated(f, n, leaf, under)[a] <= b
<1> DEFINE P == Propagated(f, n, leaf, under)
<1> SUFFICES ASSUME NEW a \in H PROVE P[a] <= b
  OBVIOUS
<1>1. CASE a \in under[n] \ {n}
  <2>0. \E m \in leaf : a \in under[m]
    BY <1>1
  <2>1. PICK m \in leaf : /\ a \in under[m]
                          /\ P[a] = Greater(f[a], f[m])
                          /\ \A k \in leaf : a \in under[k] => f[m] <= f[k]
    BY <1>1, <2>0, AncestorReevaluated, ZenonT(30)
  <2>2. PICK k \in leaf : a \in under[k] /\ k \in H
    OBVIOUS
  <2>3. f[m] \in Nat /\ f[k] \in Nat /\ f[a] \in Nat
    BY BoundsAreNat
  <2>4. f[m] <= f[k] /\ f[k] <= b /\ f[a] <= b
    BY <2>1, <2>2
  <2>5. QED
    BY <2>1, <2>3, <2>4 DEF Greater
<1>2. CASE a \notin under[n] \ {n}
  <2>1. P[a] = f[a]
    BY <1>2 DEF Propagated
  <2>2. QED
    BY <2>1
<1>3. QED
  BY <1>1, <1>2

\* Every re-evaluated ancestor takes its bound from a leaf.
LEMMA SomeLeafReevaluates ==
  ASSUME NEW f \in [Node -> Bounds], NEW n \in Node, NEW leaf \in SUBSET Node,
         NEW under \in [Node -> SUBSET Node],
         \A a \in under[n] : \E m \in leaf : a \in under[m]
  PROVE  \A a \in under[n] \ {n} :
           \E m \in leaf : Propagated(f, n, leaf, under)[a] = Greater(f[a], f[m])
<1> SUFFICES ASSUME NEW a \in under[n] \ {n}
             PROVE  \E m \in leaf :
                      Propagated(f, n, leaf, under)[a] = Greater(f[a], f[m])
  OBVIOUS
<1> DEFINE S == {f[m] : m \in {m \in leaf : a \in under[m]}}
<1>1. S \in SUBSET Nat /\ S # {}
  BY BoundsAreNat
<1>2. Min(S) \in S
  BY <1>1, MinIsLeast
<1>3. PICK m \in leaf : Min(S) = f[m]
  BY <1>2
<1>4. Propagated(f, n, leaf, under)[a] = Greater(f[a], f[m])
  BY <1>3 DEF Propagated
<1>5. QED
  BY <1>4

\* If the bound of a node r (the root, below) was backed by a leaf before
\* propagation, or is itself re-evaluated, it is backed by a leaf afterwards.
LEMMA PropagatedKeepsTight ==
  ASSUME NEW f \in [Node -> Bounds], NEW n \in Node, NEW leaf \in SUBSET Node,
         NEW under \in [Node -> SUBSET Node],
         \A a \in under[n] : \E m \in leaf : a \in under[m],
         \A m \in leaf : m \notin under[n] \ {n},
         NEW r \in Node,
         r \in under[n] \ {n} \/ \E m \in leaf : f[m] <= f[r]
  PROVE  \E m \in leaf : Propagated(f, n, leaf, under)[m]
                           <= Propagated(f, n, leaf, under)[r]
<1> DEFINE P == Propagated(f, n, leaf, under)
<1>1. \A m \in leaf : P[m] = f[m] /\ P[m] \in Nat /\ f[m] \in Nat
  BY BoundsAreNat DEF Propagated
<1>2. CASE r \in under[n] \ {n}
  <2>1. PICK m \in leaf : P[r] = Greater(f[r], f[m])
    BY <1>2, SomeLeafReevaluates
  <2>2. f[r] \in Nat
    BY BoundsAreNat
  <2>3. P[m] <= P[r]
    BY <1>1, <2>1, <2>2 DEF Greater
  <2>4. QED
    BY <2>3
<1>3. CASE r \notin under[n] \ {n}
  <2>1. P[r] = f[r]
    BY <1>3 DEF Propagated
  <2>2. QED
    BY <1>1, <1>3, <2>1
<1>4. QED
  BY <1>2, <1>3

\* add_lower_bound(l) on a node whose subtree has no tour shorter than l keeps
\* all bounds true and the root tight, and raises every leaf of the subtree.
LEMMA RaisedSound ==
  ASSUME Typed, OptInTree, RootTight,
         NEW n \in Nodes, NEW l \in Bounds, holdsOpt[n] => l <= Opt
  PROVE  /\ \A a \in Node : holdsOpt[a] => Raised(n, l)[a] <= Opt
         /\ \E m \in Leaves : Raised(n, l)[m] <= Raised(n, l)[Root]
         /\ \A m \in Node : n \in path[m] => l <= Raised(n, l)[m]
<1> DEFINE f == [m \in Node |-> IF n \in path[m] THEN Greater(lb[m], l) ELSE lb[m]]
<1> DEFINE H == {a \in Node : holdsOpt[a]}
<1>1. \A a \in Node : lb[a] \in Bounds /\ lb[a] \in Nat /\ l \in Nat
  BY BoundsAreNat DEF Typed, TypeOK
<1>2. f \in [Node -> Bounds]
  BY <1>1 DEF Greater
<1>3. \A a \in Node : n \in path[a] => l <= f[a]
  BY <1>1 DEF Greater
<1>4. /\ n \in Node /\ Leaves \in SUBSET Node /\ path \in [Node -> SUBSET Node]
      /\ Opt \in Nat /\ Root \in Node
  BY NodeFacts, LengthsAreNat DEF Typed
<1>5. \A a \in path[n] : \E m \in Leaves : a \in path[m]
  BY NodeFacts DEF Typed, TypeOK, TreeShape
<1>6. \A m \in Leaves : m \notin path[n] \ {n}
  BY DEF Typed, TreeShape, Leaves
<1>7. \A a \in H : f[a] <= Opt
  <2>1. ASSUME NEW a \in H, n \in path[a] PROVE f[a] <= Opt
    <3>1. holdsOpt[n] /\ lb[a] <= Opt
      BY <2>1 DEF OptInTree
    <3>2. QED
      BY <1>1, <2>1, <3>1 DEF Greater
  <2>2. ASSUME NEW a \in H, n \notin path[a] PROVE f[a] <= Opt
    BY <2>2 DEF OptInTree
  <2>3. QED
    BY <2>1, <2>2
<1>8. \A a \in H : \E m \in Leaves : a \in path[m] /\ m \in H
  BY <1>4 DEF OptInTree
<1>9. Root \in path[n] \ {n} \/ \E m \in Leaves : f[m] <= f[Root]
  <2>1. CASE n = Root
    <3>1. PICK m \in Leaves : lb[m] <= lb[Root]
      BY DEF RootTight
    <3>2. Root \in path[m] /\ Root \in path[Root]
      BY NodeFacts DEF Typed, TreeShape, Leaves
    <3>3. f[m] = Greater(lb[m], l) /\ f[Root] = Greater(lb[Root], l)
      BY <1>4, <2>1, <3>2
    <3>4. lb[m] \in Nat /\ lb[Root] \in Nat /\ l \in Nat
      BY <1>1, <1>4
    <3>5. f[m] <= f[Root]
      BY <3>1, <3>3, <3>4 DEF Greater
    <3>6. QED
      BY <3>5
  <2>2. CASE n # Root
    BY <2>2 DEF Typed, TreeShape
  <2>3. QED
    BY <2>1, <2>2
<1>10. Raised(n, l) = Propagated(f, n, Leaves, path)
  BY DEF Raised, RaisedBounds
<1> HIDE DEF f
<1>11. \A a \in H : Propagated(f, n, Leaves, path)[a] <= Opt
  BY <1>2, <1>4, <1>5, <1>7, <1>8, PropagatedKeepsTrue, ZenonT(30)
<1>12. \E m \in Leaves : Propagated(f, n, Leaves, path)[m]
                           <= Propagated(f, n, Leaves, path)[Root]
  BY <1>2, <1>4, <1>5, <1>6, <1>9, PropagatedKeepsTight
<1>13. \A a \in Node : f[a] <= Propagated(f, n, Leaves, path)[a]
  BY <1>2, <1>4, <1>5, PropagatedFacts
<1>14. \A m \in Node : n \in path[m] => l <= Raised(n, l)[m]
  <2>1. Propagated(f, n, Leaves, path) \in [Node -> Bounds]
    BY <1>2, <1>4, <1>5, PropagatedFacts
  <2>2. ASSUME NEW m \in Node, n \in path[m] PROVE l <= Raised(n, l)[m]
    <3>1. l \in Nat /\ f[m] \in Nat /\ Raised(n, l)[m] \in Nat
      BY <1>1, <1>2, <1>10, <2>1, BoundsAreNat
    <3>2. QED
      BY <1>3, <1>10, <1>13, <2>2, <3>1
  <2>3. QED
    BY <2>2
<1>15. QED
  BY <1>10, <1>11, <1>12, <1>14

----------------------------------------------------------------------------
(* Steps that leave the tree as it is *)

\* What a step has to respect that creates no nodes: bounds move the right way
\* and stay true, no leaf is given up before it is closed, and the loop says
\* "proven" only when the bounds show it.
LEMMA TreeStep ==
  ASSUME Sound, Typed', UNCHANGED treeVars,
         \A n \in Node : lb[n] <= lb'[n],
         \A n \in Node : holdsOpt[n] => lb'[n] <= Opt,
         \E m \in Leaves : lb'[m] <= lb'[Root],
         Opt <= ub', ub' <= ub, cutoff' <= cutoff, ub' <= cutoff',
         InVisit' => valid[cur'],
         pc' = "explore" /\ Feasible(cur)' => covered[cur'] = Sites,
         \A m \in Leaves : m \in Frontier /\ ~ pruned[m]
           => (m \in Frontier' /\ ~ pruned'[m]) \/ GoodEnough(ub', lb'[m]),
         pc' = "proven" => GoodEnough(ub', lb'[Root])
  PROVE  Sound'
<1>1. Nodes' = Nodes /\ Leaves' = Leaves
  BY DEF treeVars, Nodes, Leaves
<1>2. /\ \A n \in Node : lb[n] \in Nat /\ lb'[n] \in Nat /\ obj[n] \in Nat
      /\ ub \in Nat /\ ub' \in Nat /\ cutoff \in Nat /\ cutoff' \in Nat /\ Slack \in Nat
  <2>1. lb' \in [Node -> Bounds] /\ ub' \in Bounds /\ cutoff' \in Bounds
    BY DEF Typed, TypeOK
  <2>2. QED
    BY <2>1, LengthsAreNat, BoundsAreNat DEF Sound
<1>3. Nodes \subseteq Node /\ Leaves \subseteq Node
  BY NodeFacts DEF Sound, Typed
<1>4. OptInTree'
  BY <1>1 DEF Sound, OptInTree, treeVars
<1>5. UpperIsTour'
  <2>1. covered' = covered /\ valid' = valid /\ obj' = obj
    BY DEF treeVars
  <2>2. \A n \in Nodes' : valid'[n] /\ covered'[n] = Sites => Opt <= obj'[n]
    BY <1>1, <2>1 DEF Sound, UpperIsTour
  <2>3. QED
    BY <2>1, <2>2 DEF UpperIsTour
<1>6. CutoffSafe'
  <2>1. valid' = valid /\ children' = children
    BY DEF treeVars
  <2>2. ASSUME NEW n \in Nodes, ~ valid[n] PROVE cutoff' <= lb'[n] /\ children[n] = {}
    <3>1. cutoff <= lb[n] /\ children[n] = {} /\ n \in Node
      BY <1>3, <2>2 DEF Sound, CutoffSafe
    <3>2. QED
      BY <1>2, <3>1
  <2>3. QED
    BY <1>1, <2>1, <2>2 DEF CutoffSafe
<1>7. ObjNearBound'
  <2>1. ASSUME NEW n \in Nodes, valid[n] PROVE obj[n] <= lb'[n] + Slack
    <3>1. obj[n] <= lb[n] + Slack /\ n \in Node
      BY <1>3, <2>1 DEF Sound, ObjNearBound
    <3>2. QED
      BY <1>2, <3>1
  <2>2. QED
    BY <1>1, <2>1 DEF ObjNearBound, treeVars
<1>8. LeavesClosed'
  <2>1. ASSUME NEW m \in Leaves
        PROVE  (m \in Frontier' /\ ~ pruned'[m]) \/ GoodEnough(ub', lb'[m])
    <3>1. CASE GoodEnough(ub, lb[m])
      <4>1. lb[m] <= lb'[m] /\ m \in Node
        BY <1>3
      <4>2. GoodEnough(ub', lb'[m])
        BY <1>2, <3>1, <4>1, GoodEnoughMonotone
      <4>3. QED
        BY <4>2
    <3>2. CASE ~ GoodEnough(ub, lb[m])
      BY <3>2 DEF Sound, LeavesClosed
    <3>3. QED
      BY <3>1, <3>2
  <2>2. QED
    BY <1>1, <2>1 DEF LeavesClosed
<1>9. RootTight' /\ ReturnedBoundsClose'
  BY <1>1 DEF RootTight, ReturnedBoundsClose
<1>10. QED
  BY <1>4, <1>5, <1>6, <1>7, <1>8, <1>9 DEF Sound

\* The same for a step that also leaves the bounds alone.
LEMMA QuietStep ==
  ASSUME Sound, Typed', UNCHANGED <<treeVars, lb, ub, cutoff>>,
         InVisit' => valid[cur'],
         pc' = "explore" /\ Feasible(cur)' => covered[cur'] = Sites,
         \A m \in Leaves : m \in Frontier /\ ~ pruned[m]
           => (m \in Frontier' /\ ~ pruned'[m]) \/ GoodEnough(ub, lb[m]),
         pc' = "proven" => GoodEnough(ub, lb[Root])
  PROVE  Sound'
<1>1. \A n \in Node : lb[n] <= lb'[n]
  BY LengthsAreNat DEF Sound
<1>2. \A n \in Node : holdsOpt[n] => lb'[n] <= Opt
  BY DEF Sound, OptInTree
<1>3. \E m \in Leaves : lb'[m] <= lb'[Root]
  BY DEF Sound, RootTight
<1>4. Opt <= ub' /\ ub' <= ub /\ cutoff' <= cutoff /\ ub' <= cutoff'
  BY LengthsAreNat DEF Sound, UpperIsTour, CutoffSafe
<1>5. QED
  BY <1>1, <1>2, <1>3, <1>4, TreeStep

----------------------------------------------------------------------------
(* Every action keeps the invariant *)

LEMMA InitSound == Init => Sound
<1> SUFFICES ASSUME Init PROVE Sound
  OBVIOUS
<1>1. PICK r \in Relaxations :
        /\ r.valid /\ r.holdsOpt
        /\ pc = "setup"
        /\ count = 1
        /\ path = [n \in Node |-> IF n = Root THEN {Root} ELSE {}]
        /\ children = [n \in Node |-> {}]
        /\ lb = [n \in Node |-> IF n = Root THEN r.lb ELSE Inf]
        /\ pruned = [n \in Node |-> FALSE]
        /\ obj = [n \in Node |-> IF n = Root THEN r.obj ELSE Inf]
        /\ covered = [n \in Node |-> IF n = Root THEN r.covered ELSE {}]
        /\ valid = [n \in Node |-> n = Root]
        /\ holdsOpt = [n \in Node |-> n = Root]
        /\ open = {Root} /\ cur = NoNode
        /\ ub = Inf /\ cutoff = Inf
  BY DEF Init
<1>2. Nodes = {Root} /\ Root \in Node
  BY <1>1, BnbAssumption DEF Nodes, Node, Root
<1>3. Leaves = {Root} /\ Frontier = {Root} /\ path[Root] = {Root}
  BY <1>1, <1>2 DEF Leaves, Frontier, InVisit
<1>4. Typed
  BY InitTyped
<1>5. lb[Root] = r.lb /\ obj[Root] = r.obj /\ valid[Root] /\ holdsOpt[Root]
  BY <1>1, <1>2
<1>6. OptInTree
  BY <1>1, <1>2, <1>3, <1>5, RelaxationFacts DEF OptInTree
<1>7. UpperIsTour
  <2>1. Opt <= ub
    BY <1>1, BnbAssumption
  <2>2. QED
    BY <1>1, <1>2, <2>1, RelaxationFacts DEF UpperIsTour
<1>8. CutoffSafe
  BY <1>1, <1>2, <1>4, LengthsAreNat DEF CutoffSafe, InVisit
<1>9. ObjNearBound
  BY <1>2, <1>5, RelaxationFacts DEF ObjNearBound
<1>10. LeavesClosed
  BY <1>1, <1>2, <1>3 DEF LeavesClosed
<1>11. RootTight
  BY <1>2, <1>3, <1>4, LengthsAreNat DEF RootTight
<1>12. ReturnedBoundsClose
  BY <1>1 DEF ReturnedBoundsClose
<1>13. QED
  BY <1>4, <1>6, <1>7, <1>8, <1>9, <1>10, <1>11, <1>12 DEF Sound

LEMMA SetupSound == ASSUME Sound, Setup PROVE Sound'
<1>0. Typed'
  BY SetupTyped DEF Sound
<1>1. ASSUME NEW u \in Costs, AddUpperBound(u) PROVE Sound'
  <2>1. u \in Nat /\ Opt <= u /\ ub \in Nat /\ cutoff \in Nat /\ Opt <= ub /\ ub <= cutoff
    BY <1>1, LengthsAreNat, BnbAssumption DEF AddUpperBound, Sound, UpperIsTour, CutoffSafe
  <2>2. Opt <= ub' /\ ub' <= ub /\ cutoff' <= cutoff /\ ub' <= cutoff'
    BY <1>1, <2>1 DEF AddUpperBound, NewIncumbent, Lesser
  <2>3. /\ UNCHANGED <<treeVars, lb, pruned>> /\ Frontier' = Frontier
        /\ ~ InVisit' /\ pc' = "setup"
    BY <1>1 DEF AddUpperBound, Frontier, InVisit
  <2>4. \A n \in Node : lb[n] <= lb'[n]
    BY <2>3, LengthsAreNat DEF Sound
  <2>5. \A n \in Node : holdsOpt[n] => lb'[n] <= Opt
    BY <2>3 DEF Sound, OptInTree
  <2>6. \E m \in Leaves : lb'[m] <= lb'[Root]
    BY <2>3 DEF Sound, RootTight
  <2>7. QED
    BY <1>0, <2>2, <2>3, <2>4, <2>5, <2>6, TreeStep
<1>2. ASSUME NEW l \in Costs, AddLowerBound(l) PROVE Sound'
  <2>1. /\ UNCHANGED <<treeVars, pruned, ub, cutoff>> /\ Frontier' = Frontier
        /\ ~ InVisit' /\ pc' = "setup"
    BY <1>2 DEF AddLowerBound, Frontier, InVisit
  <2>2. Root \in Nodes /\ l \in Bounds /\ l <= Opt /\ lb' = Raised(Root, l)
    BY <1>2, NodeFacts DEF AddLowerBound, Bounds, Sound, Typed
  <2>3. \A n \in Node : lb[n] <= lb'[n]
    BY <2>2, RaisedFacts DEF Sound
  <2>4. /\ \A n \in Node : holdsOpt[n] => lb'[n] <= Opt
        /\ \E m \in Leaves : lb'[m] <= lb'[Root]
    BY <2>2, RaisedSound DEF Sound
  <2>5. Opt <= ub' /\ ub' <= ub /\ cutoff' <= cutoff /\ ub' <= cutoff'
    BY <2>1, LengthsAreNat DEF Sound, UpperIsTour, CutoffSafe
  <2>6. QED
    BY <1>0, <2>1, <2>3, <2>4, <2>5, TreeStep
<1>3. CASE StartOptimize
  <2>1. /\ UNCHANGED <<treeVars, lb, pruned, ub, cutoff>> /\ Frontier' = Frontier
        /\ ~ InVisit' /\ pc' = "loop"
    BY <1>3 DEF StartOptimize, Frontier, InVisit
  <2>2. QED
    BY <1>0, <2>1, QuietStep
<1>4. QED
  BY <1>1, <1>2, <1>3 DEF Setup

LEMMA CallbackSound == ASSUME Sound, Callback PROVE Sound'
<1> USE DEF InCallback
<1>0. Typed' /\ (InCallback => cur \in Nodes)
  BY CallbackTyped DEF Sound, Typed, TypeOK, InVisit
<1>1. ASSUME NEW l \in Costs, CallbackAddLowerBound(l) PROVE Sound'
  <2>1. /\ UNCHANGED <<treeVars, pruned, ub, cutoff, cur>> /\ Frontier' = Frontier
        /\ InVisit' = InVisit /\ pc' \in {"entering", "leaving"}
    BY <1>1 DEF CallbackAddLowerBound, Frontier, InVisit
  <2>2. cur \in Nodes /\ l \in Bounds /\ (holdsOpt[cur] => l <= Opt) /\ lb' = Raised(cur, l)
    BY <1>0, <1>1 DEF CallbackAddLowerBound, Bounds
  <2>3. \A n \in Node : lb[n] <= lb'[n]
    BY <2>2, RaisedFacts DEF Sound
  <2>4. /\ \A n \in Node : holdsOpt[n] => lb'[n] <= Opt
        /\ \E m \in Leaves : lb'[m] <= lb'[Root]
    BY <2>2, RaisedSound DEF Sound
  <2>5. Opt <= ub' /\ ub' <= ub /\ cutoff' <= cutoff /\ ub' <= cutoff'
    BY <2>1, LengthsAreNat DEF Sound, UpperIsTour, CutoffSafe
  <2>6. InVisit' => valid[cur']
    BY <2>1 DEF Sound, CutoffSafe
  <2>7. QED
    BY <1>0, <2>1, <2>3, <2>4, <2>5, <2>6, TreeStep
<1>2. ASSUME NEW u \in Costs, CallbackAddSolution(u) PROVE Sound'
  <2>1. /\ UNCHANGED <<treeVars, lb, pruned, cutoff, cur>> /\ Frontier' = Frontier
        /\ InVisit' = InVisit /\ pc' \in {"entering", "leaving"}
    BY <1>2 DEF CallbackAddSolution, Frontier, InVisit
  <2>2. Opt <= ub' /\ ub' <= ub /\ cutoff' <= cutoff /\ ub' <= cutoff'
    <3>1. u \in Nat /\ ub' = u /\ Opt <= u /\ u < ub /\ cutoff' = cutoff
      BY <1>2, BnbAssumption DEF CallbackAddSolution
    <3>2. ub \in Nat /\ cutoff \in Nat /\ ub <= cutoff
      BY LengthsAreNat DEF Sound, CutoffSafe
    <3>3. QED
      BY <3>1, <3>2
  <2>3. \A n \in Node : lb[n] <= lb'[n]
    BY <2>1, LengthsAreNat DEF Sound
  <2>4. \A n \in Node : holdsOpt[n] => lb'[n] <= Opt
    BY <2>1 DEF Sound, OptInTree
  <2>5. \E m \in Leaves : lb'[m] <= lb'[Root]
    BY <2>1 DEF Sound, RootTight
  <2>6. InVisit' => valid[cur']
    BY <2>1 DEF Sound, CutoffSafe
  <2>7. QED
    BY <1>0, <2>1, <2>2, <2>3, <2>4, <2>5, <2>6, TreeStep
<1>3. CASE CallbackPrune
  <2>1. /\ UNCHANGED <<treeVars, ub, cutoff, cur>> /\ Frontier' = Frontier
        /\ InVisit' = InVisit /\ pc' \in {"entering", "leaving"}
    BY <1>3 DEF CallbackPrune, Frontier, InVisit
  <2>2. cur \in Nodes /\ Inf \in Bounds /\ ~ holdsOpt[cur] /\ lb' = Raised(cur, Inf)
    BY <1>0, <1>3 DEF CallbackPrune, Bounds
  <2>3. lb' \in [Node -> Bounds] /\ \A n \in Node : lb[n] <= lb'[n]
    BY <2>2, RaisedFacts DEF Sound
  <2>4. /\ \A n \in Node : holdsOpt[n] => lb'[n] <= Opt
        /\ \E m \in Leaves : lb'[m] <= lb'[Root]
        /\ \A m \in Node : cur \in path[m] => Inf <= lb'[m]
    BY <2>2, RaisedSound DEF Sound
  <2>5. Opt <= ub' /\ ub' <= ub /\ cutoff' <= cutoff /\ ub' <= cutoff'
    BY <2>1, LengthsAreNat DEF Sound, UpperIsTour, CutoffSafe
  <2>6. InVisit' => valid[cur']
    BY <2>1 DEF Sound, CutoffSafe
  <2>7. ASSUME NEW m \in Leaves, m \in Frontier, ~ pruned[m]
        PROVE  (m \in Frontier' /\ ~ pruned'[m]) \/ GoodEnough(ub', lb'[m])
    <3>0. m \in Node
      BY NodeFacts DEF Sound, Typed
    <3>1. CASE cur \in path[m]
      <4>1. lb'[m] = Inf
        <5>1. Inf <= lb'[m] /\ lb'[m] \in Bounds
          BY <2>3, <2>4, <3>0, <3>1
        <5>2. lb'[m] \in Nat /\ lb'[m] <= Inf /\ Inf \in Nat
          BY <5>1, BoundsAreNat, BnbAssumption
        <5>3. QED
          BY <5>1, <5>2
      <4>2. GoodEnough(ub', Inf)
        BY <2>1, LengthsAreNat, InfiniteIsGoodEnough DEF Sound
      <4>3. QED
        BY <4>1, <4>2
    <3>2. CASE cur \notin path[m]
      BY <1>3, <2>1, <2>7, <3>0, <3>2 DEF CallbackPrune
    <3>3. QED
      BY <3>1, <3>2
  <2>8. QED
    BY <1>0, <2>1, <2>3, <2>4, <2>5, <2>6, <2>7, TreeStep
<1>4. ASSUME NEW s \in Sites, CallbackAddSite(s) PROVE Sound'
  <2>1. /\ UNCHANGED <<treeVars, lb, pruned, ub, cutoff, cur>> /\ Frontier' = Frontier
        /\ InVisit' = InVisit /\ pc' \in {"entering", "leaving"}
    BY <1>4 DEF CallbackAddSite, Frontier, InVisit
  <2>2. InVisit' => valid[cur']
    BY <2>1 DEF Sound, CutoffSafe
  <2>3. QED
    BY <1>0, <2>1, <2>2, QuietStep
<1>5. QED
  BY <1>1, <1>2, <1>3, <1>4 DEF Callback

\* A branching hands the optimal tour on to one of the children.
LEMMA BranchKeepsOpt ==
  ASSUME Sound, NEW k \in 1 .. MaxFanout, NEW rs \in [1 .. k -> Relaxations], Branch(k, rs)
  PROVE  OptInTree'
<1> DEFINE new == NewNodes(k)
<1> DEFINE S == Settled(k, rs)
<1> DEFINE H == {a \in Node : holdsOpt'[a]}
<1> DEFINE L == Leaves'
<1> DEFINE U == path'
<1>1. Typed /\ Typed' /\ OptInTree
  BY BranchTyped DEF Sound
<1>2. /\ \A n \in new : n \in Node /\ (holdsOpt'[n] <=> rs[n - count].holdsOpt)
      /\ \A n \in Node \ new : holdsOpt'[n] = holdsOpt[n]
  BY <1>1, BranchGrows DEF Branch, NewNodes
<1>3. holdsOpt[cur] <=> \E n \in new : holdsOpt'[n]
  <2>1. holdsOpt[cur] <=> \E i \in 1 .. k : rs[i].holdsOpt
    BY DEF Branch
  <2>2. QED
    BY <1>1, <1>2, <2>1, BranchGrows
<1>4. \A a \in H : \E m \in L : a \in U[m] /\ m \in H
  <2>1. ASSUME NEW a \in new, holdsOpt'[a] PROVE a \in L /\ a \in U[a] /\ a \in H
    BY <1>1, <1>2, <2>1, BranchGrows
  <2>2. ASSUME NEW a \in H, a \notin new PROVE \E m \in L : a \in U[m] /\ m \in H
    <3>1. holdsOpt[a] /\ a \in Nodes
      BY <1>1, <1>2, <2>2 DEF OptInTree
    <3>2. PICK m \in Leaves : a \in path[m] /\ holdsOpt[m]
      BY <1>1, <3>1 DEF OptInTree
    <3>3. m \in Nodes /\ m \in Node /\ m \notin new
      BY <1>1, NodeFacts, BranchGrows DEF Typed
    <3>4. CASE m # cur
      BY <1>1, <1>2, <3>2, <3>3, <3>4, BranchGrows
    <3>5. CASE m = cur
      <4>1. PICK n \in new : holdsOpt'[n]
        BY <1>3, <3>2, <3>5
      <4>2. n \in L /\ n \in H /\ a \in U[n]
        BY <1>1, <1>2, <3>2, <3>5, <4>1, BranchGrows
      <4>3. QED
        BY <4>2
    <3>6. QED
      BY <3>4, <3>5
  <2>3. QED
    BY <2>1, <2>2
<1>5. \A n \in new : holdsOpt'[n] => S[n] <= Opt
  <2>1. ASSUME NEW n \in new, holdsOpt'[n] PROVE S[n] <= Opt
    <3>1. n - count \in 1 .. k /\ cur \in Node
      BY <1>1, BranchGrows
    <3>2. S[n] = Greater(rs[n - count].lb, lb[cur])
      BY <1>1, BranchBounds
    <3>3. rs[n - count].lb <= Opt
      BY <1>2, <2>1, <3>1, RelaxationFacts
    <3>4. lb[cur] <= Opt
      BY <1>1, <1>3, <2>1, <3>1 DEF OptInTree
    <3>5. QED
      BY <3>2, <3>3, <3>4 DEF Greater
  <2>2. QED
    BY <2>1
<1>6. S \in [Node -> Bounds] /\ lb' = Propagated(S, cur, L, U)
  BY <1>1, BranchBounds
<1>7. \A a \in H : S[a] <= Opt
  <2>1. ASSUME NEW a \in H, a \notin new, a # cur PROVE S[a] <= Opt
    <3>1. S[a] = lb[a] /\ holdsOpt[a]
      BY <1>1, <1>2, <2>1, BranchBounds
    <3>2. QED
      BY <1>1, <3>1 DEF OptInTree
  <2>2. ASSUME cur \in H, cur \notin new PROVE S[cur] <= Opt
    <3>1. PICK n \in new : holdsOpt'[n]
      BY <1>2, <1>3, <2>2
    <3>2. S[cur] <= S[n] /\ S[n] <= Opt
      BY <1>1, <1>5, <3>1, BranchBounds
    <3>3. S[cur] \in Nat /\ S[n] \in Nat /\ Opt \in Nat
      BY <1>1, <1>2, <1>6, <2>2, BoundsAreNat, LengthsAreNat
    <3>4. QED
      BY <3>2, <3>3
  <2>3. QED
    BY <1>5, <2>1, <2>2
<1>8. /\ cur \in Node /\ L \in SUBSET Node /\ U \in [Node -> SUBSET Node]
      /\ \A a \in U[cur] : \E m \in L : a \in U[m]
      /\ Opt \in Nat /\ H \in SUBSET Node
  <2>1. L \in SUBSET Node /\ U \in [Node -> SUBSET Node] /\ cur \in Node
    BY <1>1, BranchGrows DEF Leaves, Typed, TypeOK
  <2>2. \A a \in U[cur] : \E m \in L : a \in U[m]
    BY <1>1, BranchGrows
  <2>3. QED
    BY <1>1, <2>1, <2>2, LengthsAreNat
<1>9. \A a \in H : lb'[a] <= Opt
  <2> HIDE DEF S, L, U, H
  <2>1. \A a \in H : Propagated(S, cur, L, U)[a] <= Opt
    BY <1>4, <1>6, <1>7, <1>8, PropagatedKeepsTrue
  <2>2. QED
    BY <1>6, <2>1
<1>10. \A n \in H : n \in Nodes'
  BY <1>1, <1>2, BranchGrows DEF OptInTree
<1>11. ASSUME NEW m \in Nodes', holdsOpt'[m] PROVE \A n \in path'[m] : holdsOpt'[n]
  <2>1. ASSUME NEW x \in Nodes, holdsOpt[x] PROVE \A n \in path[x] : holdsOpt'[n]
    <3>1. \A n \in path[x] : n \in Nodes /\ n \in Node /\ n \notin new /\ holdsOpt[n]
      BY <1>1, <2>1, NodeFacts, BranchGrows DEF OptInTree, Typed, TypeOK
    <3>2. QED
      BY <1>2, <3>1
  <2>2. CASE m \in new
    <3>1. path'[m] = path[cur] \cup {m} /\ cur \in Nodes
      BY <1>1, <2>2, BranchGrows
    <3>2. holdsOpt[cur]
      BY <1>3, <1>11, <2>2
    <3>3. QED
      BY <1>11, <2>1, <3>1, <3>2
  <2>3. CASE m \notin new
    <3>1. m \in Nodes /\ m \in Node /\ path'[m] = path[m]
      BY <1>1, <2>3, NodeFacts, BranchGrows DEF Typed
    <3>2. holdsOpt[m]
      BY <1>2, <1>11, <2>3, <3>1
    <3>3. QED
      BY <2>1, <3>1, <3>2
  <2>4. QED
    BY <2>2, <2>3
<1>12. holdsOpt'[Root]
  BY <1>1, <1>2, NodeFacts, BranchGrows DEF OptInTree, Typed
<1>13. \A n \in Nodes' : holdsOpt'[n] => \E m \in Leaves' : n \in path'[m] /\ holdsOpt'[m]
  BY <1>1, <1>4, BranchGrows
<1>14. QED
  BY <1>9, <1>10, <1>11, <1>12, <1>13 DEF OptInTree

LEMMA BranchSound ==
  ASSUME Sound, NEW k \in 1 .. MaxFanout, NEW rs \in [1 .. k -> Relaxations], Branch(k, rs)
  PROVE  Sound'
<1> DEFINE new == NewNodes(k)
<1> DEFINE S == Settled(k, rs)
<1> DEFINE r(n) == rs[n - count]
<1>1. Typed /\ Typed'
  BY BranchTyped DEF Sound
<1>2. \A n \in new : n \in Node /\ n \in Leaves' /\ n \in Nodes' /\ r(n) \in Relaxations
  BY <1>1, BranchGrows
<1>3. /\ \A n \in new : /\ obj'[n] = r(n).obj /\ covered'[n] = r(n).covered
                        /\ valid'[n] = r(n).valid
      /\ \A n \in Nodes : /\ obj'[n] = obj[n] /\ covered'[n] = covered[n]
                          /\ valid'[n] = valid[n]
  BY <1>1, <1>2, NodeFacts, BranchGrows DEF Branch, NewNodes, Typed
<1>4. Nodes' = Nodes \cup new /\ Nodes \subseteq Node /\ Nodes \cap new = {}
  BY <1>1, NodeFacts, BranchGrows DEF Typed
<1>5. \A n \in new : lb'[n] = Greater(r(n).lb, lb[cur]) /\ r(n).lb <= lb'[n]
  <2>1. ASSUME NEW n \in new PROVE lb'[n] = Greater(r(n).lb, lb[cur]) /\ r(n).lb <= lb'[n]
    <3>1. lb'[n] = Greater(r(n).lb, lb[cur])
      BY <1>1, <1>2, BranchBounds
    <3>2. r(n).lb \in Nat /\ lb[cur] \in Nat
      BY <1>1, <1>2, RelaxationFacts, LengthsAreNat, BranchGrows, NodeFacts, BnbAssumption
         DEF Typed
    <3>3. QED
      BY <3>1, <3>2 DEF Greater
  <2>2. QED
    BY <2>1
<1>6. \A n \in Nodes' : lb'[n] \in Nat
  <2>1. lb' \in [Node -> Bounds] /\ Nodes' \subseteq Node
    BY <1>1, BranchBounds, BranchGrows
  <2>2. QED
    BY <2>1, BoundsAreNat
<1>7. OptInTree'
  BY BranchKeepsOpt
<1>8. UpperIsTour'
  <2>1. Opt <= ub' /\ pc' # "explore"
    BY <1>1, BranchGrows DEF Sound, UpperIsTour
  <2>2. ASSUME NEW n \in new, valid'[n], covered'[n] = Sites PROVE Opt <= obj'[n]
    BY <1>2, <1>3, <2>2, RelaxationFacts
  <2>3. ASSUME NEW n \in Nodes, valid'[n], covered'[n] = Sites PROVE Opt <= obj'[n]
    BY <1>3, <2>3 DEF Sound, UpperIsTour
  <2>4. QED
    BY <1>4, <2>1, <2>2, <2>3 DEF UpperIsTour
<1>9. CutoffSafe'
  <2>1. ub' <= cutoff' /\ ~ InVisit' /\ cutoff' = cutoff
    BY <1>1, BranchGrows DEF Sound, CutoffSafe, InVisit
  <2>2. ASSUME NEW n \in new, ~ valid'[n] PROVE cutoff' <= lb'[n] /\ children'[n] = {}
    <3>1. RespectsCutoff(r(n))
      BY <1>1, <1>2, BranchGrows DEF Branch
    <3>2. cutoff <= r(n).lb
      BY <1>3, <2>2, <3>1 DEF RespectsCutoff
    <3>3. cutoff \in Nat /\ r(n).lb \in Nat /\ lb'[n] \in Nat
      BY <1>1, <1>2, <1>6, RelaxationFacts, LengthsAreNat, BnbAssumption
    <3>4. cutoff' <= lb'[n]
      BY <1>5, <2>1, <3>2, <3>3
    <3>5. QED
      BY <1>2, <3>4 DEF Leaves
  <2>3. ASSUME NEW n \in Nodes, ~ valid'[n] PROVE cutoff' <= lb'[n] /\ children'[n] = {}
    <3>1. cutoff <= lb[n] /\ children[n] = {}
      BY <1>3, <2>3 DEF Sound, CutoffSafe
    <3>2. n # cur
      BY <1>1, <1>3, <2>3, BranchGrows DEF Sound, CutoffSafe, InVisit
    <3>3. cutoff \in Nat /\ lb[n] \in Nat /\ lb'[n] \in Nat /\ lb[n] <= lb'[n]
      BY <1>1, <1>4, <1>6, LengthsAreNat, BranchBounds
    <3>4. children'[n] = {}
      BY <1>1, <1>4, <3>1, <3>2, BranchGrows DEF Typed, TypeOK
    <3>5. QED
      BY <2>1, <3>1, <3>3, <3>4
  <2>4. QED
    BY <1>4, <2>1, <2>2, <2>3 DEF CutoffSafe
<1>10. ObjNearBound'
  <2>1. ASSUME NEW n \in new PROVE obj'[n] <= lb'[n] + Slack
    <3>1. obj'[n] <= r(n).lb + Slack /\ r(n).lb <= lb'[n]
      BY <1>2, <1>3, <1>5, RelaxationFacts
    <3>2. obj'[n] \in Nat /\ r(n).lb \in Nat /\ lb'[n] \in Nat /\ Slack \in Nat
      BY <1>1, <1>2, <1>3, <1>6, RelaxationFacts, LengthsAreNat, BnbAssumption
    <3>3. QED
      BY <3>1, <3>2
  <2>2. ASSUME NEW n \in Nodes, valid'[n] PROVE obj'[n] <= lb'[n] + Slack
    <3>1. obj[n] <= lb[n] + Slack /\ lb[n] <= lb'[n] /\ obj'[n] = obj[n]
      BY <1>1, <1>3, <2>2, BranchBounds DEF Sound, ObjNearBound
    <3>2. obj[n] \in Nat /\ lb[n] \in Nat /\ lb'[n] \in Nat /\ Slack \in Nat
      BY <1>1, <1>4, <1>6, LengthsAreNat
    <3>3. QED
      BY <3>1, <3>2
  <2>3. QED
    BY <1>4, <2>1, <2>2 DEF ObjNearBound
<1>11. LeavesClosed'
  <2>1. ASSUME NEW m \in new PROVE m \in Frontier' /\ ~ pruned'[m]
    <3>1. m \in open' /\ m \in Node \ Nodes /\ pruned' = pruned
      BY <1>1, <1>2, <1>4, BranchGrows
    <3>2. QED
      BY <1>1, <3>1 DEF Frontier, Typed, TreeShape
  <2>2. ASSUME NEW m \in Leaves, m # cur
        PROVE  (m \in Frontier' /\ ~ pruned'[m]) \/ GoodEnough(ub', lb'[m])
    <3>1. m \in Nodes /\ m \in Leaves' /\ m \in Node /\ m \notin new
      BY <1>1, <1>4, <2>2, NodeFacts, BranchGrows DEF Typed
    <3>2. lb'[m] = lb[m] /\ ub' = ub /\ pruned' = pruned
      BY <1>1, <2>2, <3>1, BranchBounds, BranchGrows
    <3>3. m \in Frontier => m \in Frontier'
      BY <1>1, <2>2, BranchGrows DEF Frontier
    <3>4. QED
      BY <3>2, <3>3 DEF Sound, LeavesClosed
  <2>3. Leaves' = (Leaves \ {cur}) \cup new
    BY <1>1, BranchGrows
  <2>4. QED
    BY <2>1, <2>2, <2>3 DEF LeavesClosed
<1>12. RootTight'
  <2> DEFINE L == Leaves'
  <2> DEFINE U == path'
  <2>1. S \in [Node -> Bounds] /\ lb' = Propagated(S, cur, L, U)
    BY <1>1, BranchBounds
  <2>2. /\ cur \in Node /\ L \in SUBSET Node /\ U \in [Node -> SUBSET Node]
        /\ Root \in Node
    BY <1>1, NodeFacts, BranchGrows DEF Leaves, Typed, TypeOK
  <2>3. \A a \in U[cur] : \E m \in L : a \in U[m]
    BY <1>1, BranchGrows
  <2>4. \A m \in L : m \notin U[cur] \ {cur}
    BY <1>1, BranchBounds
  <2>5. Root \in U[cur] \ {cur} \/ \E m \in L : S[m] <= S[Root]
    <3>1. CASE cur = Root
      <4>1. PICK m \in new : S[cur] = Greater(lb[cur], S[m])
        BY <1>1, BranchBounds
      <4>2. S[m] \in Nat /\ lb[cur] \in Nat /\ m \in L
        BY <1>1, <1>2, <2>1, <2>2, LengthsAreNat, BoundsAreNat
      <4>3. S[m] <= S[Root]
        BY <3>1, <4>1, <4>2 DEF Greater
      <4>4. QED
        BY <4>2, <4>3
    <3>2. CASE cur # Root
      BY <1>1, <3>2, BranchGrows DEF Typed, TreeShape
    <3>3. QED
      BY <3>1, <3>2
  <2> HIDE DEF S, L, U
  <2>6. \E m \in L : Propagated(S, cur, L, U)[m] <= Propagated(S, cur, L, U)[Root]
    BY <2>1, <2>2, <2>3, <2>4, <2>5, PropagatedKeepsTight
  <2>7. \E m \in L : lb'[m] <= lb'[Root]
    BY <2>1, <2>6
  <2>8. QED
    BY <2>7 DEF RootTight, L
<1>13. ReturnedBoundsClose'
  BY <1>1, BranchGrows DEF ReturnedBoundsClose
<1>14. QED
  BY <1>1, <1>7, <1>8, <1>9, <1>10, <1>11, <1>12, <1>13 DEF Sound

LEMMA ExploreSound == ASSUME Sound, Explore PROVE Sound'
<1>0. Typed' /\ (pc \in {"lazy", "explore"} => cur \in Nodes /\ cur \in Node /\ valid[cur])
  BY ExploreTyped, NodeFacts DEF Sound, Typed, TypeOK, InVisit, CutoffSafe
<1>1. ASSUME NEW new \in SUBSET Sites, AddLazyConstraints(new) PROVE Sound'
  <2>1. /\ UNCHANGED <<treeVars, lb, pruned, ub, cutoff, cur>> /\ Frontier' = Frontier
        /\ pc' = "explore" /\ pc = "lazy" /\ sites' = sites \cup new
    BY <1>1 DEF AddLazyConstraints, Frontier, InVisit
  <2>2. Feasible(cur)' => covered[cur'] = Sites
    <3>1. Feasible(cur)' => Feasible(cur) /\ new \subseteq covered[cur]
      BY <2>1 DEF Feasible, treeVars
    <3>2. Feasible(cur) /\ new \subseteq covered[cur] => covered[cur] = Sites
      BY <1>1 DEF AddLazyConstraints
    <3>3. QED
      BY <2>1, <3>1, <3>2
  <2>3. QED
    BY <1>0, <2>1, <2>2, QuietStep
<1>2. CASE ProcessFeasible
  <2>1. /\ UNCHANGED <<treeVars, lb, pruned>> /\ ~ InVisit' /\ pc' = "leaving"
        /\ pc = "explore" /\ Feasible(cur) /\ NewIncumbent(obj[cur])
        /\ Frontier = open \cup {cur} /\ Frontier' = open
    BY <1>2 DEF ProcessFeasible, Frontier, InVisit
  <2>2. Opt <= obj[cur] /\ obj[cur] <= lb[cur] + Slack
    BY <1>0, <2>1 DEF Sound, UpperIsTour, ObjNearBound, Feasible
  <2>3. /\ obj[cur] \in Nat /\ lb[cur] \in Nat /\ ub \in Nat /\ cutoff \in Nat
        /\ Opt \in Nat /\ Slack \in Nat /\ Opt <= ub /\ ub <= cutoff
    BY <1>0, <2>1, LengthsAreNat DEF Sound, UpperIsTour, CutoffSafe
  <2>4. Opt <= ub' /\ ub' <= ub /\ cutoff' <= cutoff /\ ub' <= cutoff' /\ ub' <= obj[cur]
        /\ ub' \in Nat
    BY <2>1, <2>2, <2>3 DEF NewIncumbent, Lesser
  <2>5. GoodEnough(ub', lb'[cur])
    BY <2>1, <2>2, <2>3, <2>4 DEF GoodEnough, Promise!GoodEnough
  <2>6. \A n \in Node : lb[n] <= lb'[n]
    BY <2>1, LengthsAreNat DEF Sound
  <2>7. \A n \in Node : holdsOpt[n] => lb'[n] <= Opt
    BY <2>1 DEF Sound, OptInTree
  <2>8. \E m \in Leaves : lb'[m] <= lb'[Root]
    BY <2>1 DEF Sound, RootTight
  <2>9. \A m \in Leaves : m \in Frontier /\ ~ pruned[m]
          => (m \in Frontier' /\ ~ pruned'[m]) \/ GoodEnough(ub', lb'[m])
    BY <2>1, <2>5
  <2>10. QED
    BY <1>0, <2>1, <2>4, <2>6, <2>7, <2>8, <2>9, TreeStep
<1>3. CASE PruneBeforeBranch
  <2>1. /\ UNCHANGED <<treeVars, lb, ub, cutoff>> /\ ~ InVisit' /\ pc' = "leaving"
        /\ pc = "explore" /\ WithinGap(ub, lb[cur])
        /\ Frontier = open \cup {cur} /\ Frontier' = open
        /\ pruned' = [pruned EXCEPT ![cur] = TRUE]
    BY <1>3 DEF PruneBeforeBranch, Frontier, InVisit
  <2>2. GoodEnough(ub, lb[cur])
    BY <2>1, WithinIsGoodEnough
  <2>3. ASSUME NEW m \in Leaves, m \in Frontier, ~ pruned[m]
        PROVE  (m \in Frontier' /\ ~ pruned'[m]) \/ GoodEnough(ub, lb[m])
    <3>1. m \in Node
      BY NodeFacts DEF Sound, Typed
    <3>2. QED
      BY <2>1, <2>2, <2>3, <3>1 DEF Sound, Typed, TypeOK
  <2>4. QED
    BY <1>0, <2>1, <2>3, QuietStep
<1>4. ASSUME NEW k \in 1 .. MaxFanout, NEW rs \in [1 .. k -> Relaxations], Branch(k, rs)
      PROVE  Sound'
  BY <1>4, BranchSound
<1>5. CASE BranchEmpty
  <2>1. /\ UNCHANGED <<treeVars, ub, cutoff>> /\ ~ InVisit' /\ pc' = "leaving"
        /\ pc = "explore" /\ ~ holdsOpt[cur] /\ lb' = Raised(cur, Inf)
        /\ Frontier = open \cup {cur} /\ Frontier' = open
        /\ pruned' = [pruned EXCEPT ![cur] = TRUE]
    BY <1>5 DEF BranchEmpty, Frontier, InVisit
  <2>2. cur \in Nodes /\ Inf \in Bounds /\ cur \in path[cur]
    BY <1>0, <2>1 DEF Bounds, Sound, Typed, TreeShape
  <2>3. lb' \in [Node -> Bounds] /\ \A n \in Node : lb[n] <= lb'[n]
    BY <2>1, <2>2, RaisedFacts DEF Sound
  <2>4. /\ \A n \in Node : holdsOpt[n] => lb'[n] <= Opt
        /\ \E m \in Leaves : lb'[m] <= lb'[Root]
        /\ Inf <= lb'[cur]
    BY <1>0, <2>1, <2>2, RaisedSound DEF Sound
  <2>5. Opt <= ub' /\ ub' <= ub /\ cutoff' <= cutoff /\ ub' <= cutoff'
    BY <2>1, LengthsAreNat DEF Sound, UpperIsTour, CutoffSafe
  <2>6. GoodEnough(ub', lb'[cur])
    <3>1. lb'[cur] \in Bounds
      BY <1>0, <2>1, <2>3
    <3>2. lb'[cur] = Inf
      <4>1. lb'[cur] \in Nat /\ lb'[cur] <= Inf /\ Inf \in Nat
        BY <3>1, BoundsAreNat, BnbAssumption
      <4>2. QED
        BY <2>4, <4>1
    <3>3. GoodEnough(ub', Inf)
      BY <2>1, LengthsAreNat, InfiniteIsGoodEnough DEF Sound
    <3>4. QED
      BY <3>2, <3>3
  <2>7. ASSUME NEW m \in Leaves, m \in Frontier, ~ pruned[m]
        PROVE  (m \in Frontier' /\ ~ pruned'[m]) \/ GoodEnough(ub', lb'[m])
    <3>1. m \in Node
      BY NodeFacts DEF Sound, Typed
    <3>2. QED
      BY <2>1, <2>6, <2>7, <3>1 DEF Sound, Typed, TypeOK
  <2>8. QED
    BY <1>0, <2>1, <2>3, <2>4, <2>5, <2>7, TreeStep
<1>6. QED
  BY <1>1, <1>2, <1>3, <1>4, <1>5 DEF Explore

LEMMA LoopSound == ASSUME Sound, Loop PROVE Sound'
<1>0. Typed'
  BY LoopTyped DEF Sound
<1>1. ASSUME NEW n \in Node, VisitPruned(n) PROVE Sound'
  <2>1. /\ UNCHANGED <<treeVars, lb, ub, cutoff>> /\ ~ InVisit' /\ pc' = "check"
        /\ WithinGap(ub, lb[n])
        /\ Frontier = open /\ Frontier' = open \ {n}
        /\ pruned' = [pruned EXCEPT ![n] = TRUE]
    BY <1>1 DEF VisitPruned, Frontier, InVisit
  <2>2. GoodEnough(ub, lb[n])
    BY <2>1, WithinIsGoodEnough
  <2>3. ASSUME NEW m \in Leaves, m \in Frontier, ~ pruned[m]
        PROVE  (m \in Frontier' /\ ~ pruned'[m]) \/ GoodEnough(ub, lb[m])
    BY <2>1, <2>2, <2>3 DEF Sound, Typed, TypeOK
  <2>4. QED
    BY <1>0, <2>1, <2>3, QuietStep
<1>2. ASSUME NEW n \in Node, VisitNode(n) PROVE Sound'
  <2>1. /\ UNCHANGED <<treeVars, lb, pruned, ub, cutoff>> /\ pc' = "entering"
        /\ n \in open /\ cur' = n /\ ~ WithinGap(ub, lb[n])
        /\ Frontier = open /\ Frontier' = open
    BY <1>2 DEF VisitNode, Frontier, InVisit
  <2>2. valid[n]
    <3>1. n \in Nodes /\ ub \in Nat /\ cutoff \in Nat /\ lb[n] \in Nat
      BY <2>1, LengthsAreNat DEF Sound, Typed, TypeOK
    <3>2. ~ valid[n] => ub <= lb[n]
      BY <3>1 DEF Sound, CutoffSafe
    <3>3. QED
      BY <2>1, <3>1, <3>2, CrossedIsWithinGap
  <2>3. QED
    BY <1>0, <2>1, <2>2, QuietStep
<1>3. CASE Exhausted
  <2>1. /\ UNCHANGED <<treeVars, lb, pruned, ub, cutoff>> /\ ~ InVisit' /\ pc' = "proven"
        /\ Frontier = open /\ Frontier' = open /\ \A n \in open : pruned[n]
    BY <1>3 DEF Exhausted, Frontier, InVisit
  <2>2. PICK m \in Leaves : lb[m] <= lb[Root]
    BY DEF Sound, RootTight
  <2>3. GoodEnough(ub, lb[m])
    BY <2>1 DEF Sound, LeavesClosed
  <2>4. ub \in Nat /\ ub <= ub /\ lb[m] \in Nat /\ lb[Root] \in Nat
    BY LengthsAreNat, NodeFacts DEF Sound, Typed
  <2>5. GoodEnough(ub, lb[Root])
    BY <2>2, <2>3, <2>4, GoodEnoughMonotone
  <2>6. QED
    BY <1>0, <2>1, <2>5, QuietStep
<1>4. CASE StopAtGap
  <2>1. /\ UNCHANGED <<treeVars, lb, pruned, ub, cutoff>> /\ ~ InVisit' /\ pc' = "proven"
        /\ Frontier' = Frontier /\ WithinGap(ub, lb[Root])
    BY <1>4 DEF StopAtGap, Frontier, InVisit
  <2>2. QED
    BY <1>0, <2>1, QuietStep, WithinIsGoodEnough
<1>5. CASE StopAtTimeout \/ Continue
  <2>1. /\ UNCHANGED <<treeVars, lb, pruned, ub, cutoff>> /\ ~ InVisit'
        /\ pc' \in {"timeout", "loop"} /\ Frontier' = Frontier
    BY <1>5 DEF StopAtTimeout, Continue, Frontier, InVisit
  <2>2. QED
    BY <1>0, <2>1, QuietStep
<1>6. CASE EnterDone
  <2>1. /\ UNCHANGED <<treeVars, lb, pruned, ub, cutoff, cur, open>>
        /\ pc = "entering" /\ pc' = IF pruned[cur] THEN "leaving" ELSE "lazy"
        /\ InVisit /\ Frontier = open \cup {cur}
        /\ Frontier' = IF pruned[cur] THEN open ELSE Frontier
    BY <1>6 DEF EnterDone, Frontier, InVisit
  <2>2. valid[cur] /\ cur' = cur /\ pc' # "explore" /\ pc' # "proven"
    BY <2>1 DEF Sound, CutoffSafe
  <2>3. \A m \in Leaves : m \in Frontier /\ ~ pruned[m] => m \in Frontier' /\ ~ pruned'[m]
    BY <2>1
  <2>4. QED
    BY <1>0, <2>1, <2>2, <2>3, QuietStep
<1>7. CASE LeaveDone
  <2>1. /\ UNCHANGED <<treeVars, lb, pruned, ub, cutoff>> /\ ~ InVisit'
        /\ pc' = "check" /\ Frontier' = Frontier
    BY <1>7 DEF LeaveDone, Frontier, InVisit
  <2>2. QED
    BY <1>0, <2>1, QuietStep
<1>8. QED
  BY <1>1, <1>2, <1>3, <1>4, <1>5, <1>6, <1>7 DEF Loop

LEMMA StutterSound == ASSUME Sound, UNCHANGED vars PROVE Sound'
<1>1. Typed'
  BY StutterTyped DEF Sound
<1>2. /\ UNCHANGED <<treeVars, lb, pruned, ub, cutoff, cur, pc, sites>> /\ Frontier' = Frontier
      /\ InVisit' = InVisit /\ (Feasible(cur)' <=> Feasible(cur))
  BY DEF vars, treeVars, Frontier, InVisit, Feasible
<1>3. pc' = "explore" /\ Feasible(cur)' => covered[cur'] = Sites
  BY <1>2 DEF Sound, UpperIsTour
<1>4. pc' = "proven" => GoodEnough(ub, lb[Root])
  BY <1>2 DEF Sound, ReturnedBoundsClose
<1>5. InVisit' => valid[cur']
  BY <1>2 DEF Sound, CutoffSafe
<1>6. QED
  BY <1>1, <1>2, <1>3, <1>4, <1>5, QuietStep

LEMMA StepSound == ASSUME Sound, [Next]_vars PROVE Sound'
  BY SetupSound, CallbackSound, ExploreSound, LoopSound, StutterSound DEF Next, Returned

----------------------------------------------------------------------------
(* What the search guarantees *)

\* The inductive invariant holds throughout every search.
THEOREM SearchIsSound == Spec => []Sound
  BY InitSound, StepSound, PTL DEF Spec

\* The reported lower and upper bound bracket the optimum at all times
\* (bnb.h get_lower_bound, get_upper_bound).
THEOREM BoundsBracket == Spec => []BoundsBracketOptimum
<1>1. Sound => BoundsBracketOptimum
  BY NodeFacts DEF Sound, Typed, OptInTree, UpperIsTour, BoundsBracketOptimum
<1>2. QED
  BY <1>1, SearchIsSound, PTL

\* Unless the incumbent is already good enough, a node that leads to an optimal
\* tour is still in the queue or being explored.
THEOREM OptimumIsNotLost == Spec => []OptimumNeverLost
<1>1. ASSUME Sound PROVE OptimumNeverLost
  <2>1. PICK m \in Leaves : holdsOpt[m]
    BY <1>1, NodeFacts DEF Sound, Typed, OptInTree
  <2>2. CASE GoodEnough(ub, lb[m])
    <3>1. lb[m] <= Opt /\ lb[m] \in Nat /\ Opt \in Nat /\ ub \in Nat /\ ub <= ub
      BY <1>1, <2>1, LengthsAreNat, NodeFacts DEF Sound, Typed, OptInTree
    <3>2. GoodEnough(ub, Opt)
      BY <2>2, <3>1, GoodEnoughMonotone
    <3>3. QED
      BY <3>2 DEF OptimumNeverLost
  <2>3. CASE ~ GoodEnough(ub, lb[m])
    BY <1>1, <2>1, <2>3 DEF Sound, LeavesClosed, OptimumNeverLost
  <2>4. QED
    BY <2>2, <2>3
<1>2. QED
  BY <1>1, SearchIsSound, PTL

\* A search that was not stopped by the time limit returns two bounds that are
\* good enough for each other, also when its queue simply ran empty.
THEOREM ReturnedBoundsAreClose == Spec => []ReturnedBoundsClose
<1>1. Sound => ReturnedBoundsClose
  BY DEF Sound
<1>2. QED
  BY <1>1, SearchIsSound, PTL

\* No node without a trajectory is explored, branched on or reported, although
\* the code has no check for it.
THEOREM CutoffNodesAreNotExplored == Spec => []CutoffNodesNeverExplored
<1>1. Sound => CutoffNodesNeverExplored
  BY DEF Sound, CutoffSafe, CutoffNodesNeverExplored, InVisit
<1>2. QED
  BY <1>1, SearchIsSound, PTL

----------------------------------------------------------------------------
(* Progress *)

\* What every step does to the bounds, the marks and the queue.
Advances ==
  /\ ub' <= ub /\ cutoff' <= cutoff
  /\ \A n \in Nodes : lb[n] <= lb'[n] /\ (pruned[n] => pruned'[n])
  /\ sites \subseteq sites'
  /\ open' \cap Nodes \subseteq open

LEMMA StillAdvances ==
  ASSUME Typed, UNCHANGED <<lb, ub, cutoff, pruned, open, sites>>
  PROVE  Advances
  BY LengthsAreNat, NodeFacts DEF Typed, Advances

LEMMA SetupAdvances == ASSUME Typed, Setup PROVE Advances
<1>1. ASSUME NEW u \in Costs, AddUpperBound(u) PROVE Advances
  <2>1. u \in Nat /\ ub \in Nat /\ cutoff \in Nat /\ \A n \in Nodes : lb[n] \in Nat
    BY LengthsAreNat, NodeFacts, BnbAssumption DEF Typed
  <2>2. ub' <= ub /\ cutoff' <= cutoff
    BY <1>1, <2>1 DEF AddUpperBound, NewIncumbent, Lesser
  <2>3. QED
    BY <1>1, <2>1, <2>2 DEF AddUpperBound, Advances
<1>2. ASSUME NEW l \in Costs, AddLowerBound(l) PROVE Advances
  <2>1. Root \in Nodes /\ l \in Bounds /\ Nodes \subseteq Node
    BY NodeFacts DEF Typed, Bounds
  <2>2. \A n \in Node : lb[n] <= lb'[n]
    BY <1>2, <2>1, RaisedFacts DEF AddLowerBound
  <2>3. QED
    BY <1>2, <2>1, <2>2, LengthsAreNat DEF AddLowerBound, Advances
<1>3. CASE StartOptimize
  BY <1>3, StillAdvances DEF StartOptimize
<1>4. QED
  BY <1>1, <1>2, <1>3 DEF Setup

LEMMA CallbackAdvances == ASSUME Typed, Callback PROVE Advances
<1>0. /\ InCallback => cur \in Nodes
      /\ Nodes \subseteq Node /\ ub \in Nat /\ cutoff \in Nat
      /\ \A n \in Nodes : lb[n] \in Nat
  BY NodeFacts, LengthsAreNat DEF Typed, TypeOK, InVisit, InCallback
<1>1. ASSUME NEW l \in Costs, CallbackAddLowerBound(l) PROVE Advances
  <2>1. cur \in Nodes /\ l \in Bounds
    BY <1>0, <1>1 DEF CallbackAddLowerBound, Bounds
  <2>2. \A n \in Node : lb[n] <= lb'[n]
    BY <1>1, <2>1, RaisedFacts DEF CallbackAddLowerBound
  <2>3. QED
    BY <1>0, <1>1, <2>2 DEF CallbackAddLowerBound, Advances
<1>2. ASSUME NEW u \in Costs, CallbackAddSolution(u) PROVE Advances
  <2>1. u \in Nat
    BY BnbAssumption
  <2>2. QED
    BY <1>0, <1>2, <2>1 DEF CallbackAddSolution, Advances
<1>3. CASE CallbackPrune
  <2>1. cur \in Nodes /\ Inf \in Bounds
    BY <1>0, <1>3 DEF CallbackPrune, Bounds
  <2>2. \A n \in Node : lb[n] <= lb'[n]
    BY <1>3, <2>1, RaisedFacts DEF CallbackPrune
  <2>3. \A n \in Nodes : pruned[n] => pruned'[n]
    BY <1>0, <1>3 DEF CallbackPrune
  <2>4. QED
    BY <1>0, <1>3, <2>2, <2>3 DEF CallbackPrune, Advances
<1>4. ASSUME NEW s \in Sites, CallbackAddSite(s) PROVE Advances
  BY <1>0, <1>4 DEF CallbackAddSite, Advances
<1>5. QED
  BY <1>1, <1>2, <1>3, <1>4 DEF Callback

LEMMA ExploreAdvances == ASSUME Typed, Explore PROVE Advances
<1>0. /\ pc \in {"lazy", "explore"} => cur \in Nodes
      /\ Nodes \subseteq Node /\ ub \in Nat /\ cutoff \in Nat
      /\ \A n \in Nodes : lb[n] \in Nat /\ obj[n] \in Nat
  BY NodeFacts, LengthsAreNat DEF Typed, TypeOK, InVisit
<1>1. ASSUME NEW new \in SUBSET Sites, AddLazyConstraints(new) PROVE Advances
  BY <1>0, <1>1 DEF AddLazyConstraints, Advances
<1>2. CASE ProcessFeasible
  <2>1. ub' <= ub /\ cutoff' <= cutoff
    BY <1>0, <1>2 DEF ProcessFeasible, NewIncumbent, Lesser
  <2>2. QED
    BY <1>0, <1>2, <2>1 DEF ProcessFeasible, Advances
<1>3. CASE PruneBeforeBranch
  <2>1. \A n \in Nodes : pruned[n] => pruned'[n]
    BY <1>0, <1>3 DEF PruneBeforeBranch, Typed, TypeOK
  <2>2. QED
    BY <1>0, <1>3, <2>1 DEF PruneBeforeBranch, Advances
<1>4. ASSUME NEW k \in 1 .. MaxFanout, NEW rs \in [1 .. k -> Relaxations], Branch(k, rs)
      PROVE  Advances
  <2>1. \A n \in Nodes : lb[n] <= lb'[n]
    BY <1>4, BranchBounds
  <2>2. /\ Nodes \cap NewNodes(k) = {} /\ open' = open \cup NewNodes(k)
        /\ UNCHANGED <<pruned, sites, ub, cutoff>>
    BY <1>4, BranchGrows
  <2>3. QED
    BY <1>0, <2>1, <2>2 DEF Advances
<1>5. CASE BranchEmpty
  <2>1. cur \in Nodes /\ Inf \in Bounds
    BY <1>0, <1>5 DEF BranchEmpty, Bounds
  <2>2. \A n \in Node : lb[n] <= lb'[n]
    BY <1>5, <2>1, RaisedFacts DEF BranchEmpty
  <2>3. \A n \in Nodes : pruned[n] => pruned'[n]
    BY <1>0, <1>5 DEF BranchEmpty, Typed, TypeOK
  <2>4. QED
    BY <1>0, <1>5, <2>2, <2>3 DEF BranchEmpty, Advances
<1>6. QED
  BY <1>1, <1>2, <1>3, <1>4, <1>5 DEF Explore

LEMMA LoopAdvances == ASSUME Typed, Loop PROVE Advances
<1>1. ASSUME NEW n \in Node, VisitPruned(n) PROVE Advances
  <2>1. \A m \in Nodes : pruned[m] => pruned'[m]
    BY <1>1, NodeFacts DEF VisitPruned, Typed, TypeOK
  <2>2. /\ ub \in Nat /\ cutoff \in Nat /\ \A m \in Nodes : lb[m] \in Nat
    BY NodeFacts, LengthsAreNat DEF Typed
  <2>3. QED
    BY <1>1, <2>1, <2>2 DEF VisitPruned, Advances
<1>2. ASSUME NEW n \in Node, VisitNode(n) PROVE Advances
  <2>1. /\ ub \in Nat /\ cutoff \in Nat /\ \A m \in Nodes : lb[m] \in Nat
    BY NodeFacts, LengthsAreNat DEF Typed
  <2>2. QED
    BY <1>2, <2>1 DEF VisitNode, Advances
<1>3. CASE Exhausted \/ StopAtGap \/ StopAtTimeout \/ Continue \/ EnterDone \/ LeaveDone
  BY <1>3, StillAdvances
     DEF Exhausted, StopAtGap, StopAtTimeout, Continue, EnterDone, LeaveDone
<1>4. QED
  BY <1>1, <1>2, <1>3 DEF Loop

LEMMA StepAdvances == ASSUME Typed, [Next]_vars PROVE Advances
<1>1. ASSUME UNCHANGED vars PROVE Advances
  BY <1>1, StillAdvances DEF vars
<1>2. QED
  BY <1>1, SetupAdvances, CallbackAdvances, ExploreAdvances, LoopAdvances
     DEF Next, Returned

\* No step raises the upper bound, lowers the bound of a node, revives a pruned
\* node or drops a site.
THEOREM ProgressIsNeverUndone == Spec => ProgressIsKept
<1>1. Typed /\ [Next]_vars =>
        [/\ ub' <= ub /\ cutoff' <= cutoff
         /\ \A n \in Nodes : lb[n] <= lb'[n] /\ (pruned[n] => pruned'[n])
         /\ sites \subseteq sites']_vars
  BY StepAdvances DEF Advances
<1>2. QED
  BY <1>1, TypesAndShape, PTL DEF Spec, ProgressIsKept

\* A node that left the queue is never handed out again.
THEOREM NodesAreNotReturnedAgain == Spec => NeverReturnedAgain
<1>1. Typed /\ [Next]_vars => [open' \cap Nodes \subseteq open]_vars
  BY StepAdvances DEF Advances
<1>2. QED
  BY <1>1, TypesAndShape, PTL DEF Spec, NeverReturnedAgain

----------------------------------------------------------------------------
(* Refinement *)

Verdict == IF pc \in {"proven", "timeout"} THEN pc ELSE "searching"

\* The bound of the root is always the length of something, never infinite.
LEMMA RootBoundIsCost ==
  ASSUME Sound
  PROVE  lb[Root] \in Costs /\ lb[Root] <= Opt /\ Opt <= ub /\ ub \in Bounds
<1>1. lb[Root] \in Bounds /\ lb[Root] <= Opt /\ Opt <= ub /\ ub \in Bounds
  BY NodeFacts DEF Sound, Typed, TypeOK, OptInTree, UpperIsTour
<1>2. lb[Root] # Inf
  BY <1>1, BnbAssumption
<1>3. QED
  BY <1>1, <1>2 DEF Bounds

\* The initial states of the search promise nothing yet.
LEMMA InitKeepsPromise == Init => Promise!Init
<1> SUFFICES ASSUME Init PROVE Promise!Init
  OBVIOUS
<1>1. ub = Inf /\ pc = "setup"
  BY DEF Init
<1>2. lb[Root] \in Costs /\ lb[Root] <= Opt
  BY InitSound, RootBoundIsCost
<1>3. QED
  BY <1>1, <1>2 DEF Promise!Init

\* Every step of the search narrows the bracket, announces the verdict, or
\* does not show.
LEMMA StepKeepsPromise ==
  ASSUME Sound, [Next]_vars
  PROVE  [Promise!Next]_(Promise!promiseVars)
<1>1. Sound' /\ Advances
  BY StepSound, StepAdvances DEF Sound
<1>2. /\ lb'[Root] \in Costs /\ lb'[Root] <= Opt /\ Opt <= ub' /\ ub' \in Bounds
      /\ lb[Root] <= lb'[Root] /\ ub' <= ub
  <2>1. lb'[Root] \in Costs /\ lb'[Root] <= Opt /\ Opt <= ub' /\ ub' \in Bounds
    <3>1. lb'[Root] \in Bounds /\ lb'[Root] <= Opt /\ Opt <= ub' /\ ub' \in Bounds
      <4>1. Root \in Node
        BY NodeFacts DEF Sound, Typed
      <4>2. QED
        BY <1>1, <4>1 DEF Sound, Typed, TypeOK, OptInTree, UpperIsTour
    <3>2. lb'[Root] # Inf
      BY <3>1, BnbAssumption
    <3>3. QED
      BY <3>1, <3>2 DEF Bounds
  <2>2. QED
    BY <1>1, <2>1, NodeFacts DEF Sound, Typed, Advances
<1>3. CASE Exhausted \/ StopAtGap
  <2>1. pc \notin {"proven", "timeout"} /\ pc' = "proven" /\ lb' = lb /\ ub' = ub
    BY <1>3 DEF Exhausted, StopAtGap
  <2>2. GoodEnough(ub, lb[Root])
    BY <1>1, <2>1 DEF Sound, ReturnedBoundsClose
  <2>3. Promise!Prove
    BY <2>1, <2>2 DEF Promise!Prove, GoodEnough
  <2>4. QED
    BY <2>3 DEF Promise!Next
<1>4. CASE StopAtTimeout
  <2>1. pc \notin {"proven", "timeout"} /\ pc' = "timeout" /\ lb' = lb /\ ub' = ub
    BY <1>4 DEF StopAtTimeout
  <2>2. QED
    BY <2>1 DEF Promise!Next, Promise!GiveUp
<1>5. CASE UNCHANGED vars
  BY <1>5 DEF vars, Promise!promiseVars
<1>6. ASSUME pc \notin {"proven", "timeout"}, pc' \notin {"proven", "timeout"}
      PROVE  Promise!Narrow
  BY <1>2, <1>6 DEF Promise!Narrow, Bounds
<1>7. /\ Setup \/ Callback \/ Explore
        => pc \notin {"proven", "timeout"} /\ pc' \notin {"proven", "timeout"}
      /\ Continue \/ EnterDone \/ LeaveDone \/ (\E n \in Node : VisitPruned(n) \/ VisitNode(n))
        => pc \notin {"proven", "timeout"} /\ pc' \notin {"proven", "timeout"}
  BY DEF Setup, Callback, Explore, InCallback, AddUpperBound, AddLowerBound, StartOptimize,
         CallbackAddLowerBound, CallbackAddSolution, CallbackPrune, CallbackAddSite,
         AddLazyConstraints, ProcessFeasible, PruneBeforeBranch, Branch, BranchEmpty,
         Continue, EnterDone, LeaveDone, VisitPruned, VisitNode
<1>8. QED
  BY <1>3, <1>4, <1>5, <1>6, <1>7 DEF Next, Loop, Returned, Promise!Next

\* The search keeps the promise of SolverPromise: its bracket only narrows,
\* always holds the optimum, and "proven" is said only when the bracket shows it.
THEOREM SearchKeepsPromise == Spec => KeepsPromise
  BY InitKeepsPromise, StepKeepsPromise, SearchIsSound, PTL
     DEF Spec, KeepsPromise, Promise!Spec

----------------------------------------------------------------------------
(* Vectors of entries *)

QEntry == [node : Node, lb : Nat, obj : Nat]

\* No node occurs twice.
Distinct(q) == \A i, j \in 1 .. Len(q) : q[i].node = q[j].node => i = j

\* A vector of entries for nodes that are all different.
Vector(q) == q \in Seq(QEntry) /\ Distinct(q)

LEMMA NodesInRange ==
  ASSUME NEW q, Vector(q)
  PROVE  NodesIn(q) = {q[i].node : i \in 1 .. Len(q)} /\ NodesIn(q) \subseteq Node
<1>1. DOMAIN q = 1 .. Len(q) /\ \A i \in 1 .. Len(q) : q[i] \in QEntry
  BY DEF Vector
<1>2. \A n : n \in NodesIn(q) <=> \E i \in 1 .. Len(q) : n = q[i].node
  BY <1>1 DEF NodesIn, ToSet
<1> QED BY <1>1, <1>2 DEF QEntry

\* The size of the set of nodes is the length of the vector.
LEMMA VectorSize ==
  ASSUME NEW q, Vector(q)
  PROVE  Cardinality(NodesIn(q)) = Len(q)
<1> DEFINE D == 1 .. Len(q)
           f == [i \in D |-> q[i].node]
<1>1. Len(q) \in Nat
  BY DEF Vector
<1>2. IsFiniteSet(D) /\ Cardinality(D) = Len(q)
  <2>1. ASSUME NEW n \in Nat PROVE IsFiniteSet(1 .. n) /\ Cardinality(1 .. n) = n
    BY FS_Interval
  <2> QED BY <1>1, <2>1
<1>3. f \in [D -> NodesIn(q)]
  BY NodesInRange
<1>4. f \in Injection(D, NodesIn(q))
  BY <1>3 DEF Injection, IsInjective, Vector, Distinct
<1>5. f \in Surjection(D, NodesIn(q))
  BY <1>3, NodesInRange DEF Surjection
<1>6. Cardinality(NodesIn(q)) = Cardinality(D)
  <2> HIDE DEF f, D
  <2> QED BY <1>2, <1>4, <1>5, FS_Surjection
<1> QED BY <1>2, <1>6

\* A sequence of the entries in S is a vector of their nodes.
LEMMA SequenceOfEntries ==
  ASSUME NEW S \in SUBSET QEntry, IsFiniteSet(S),
         \A e, f \in S : e.node = f.node => e = f,
         NEW q \in SetToSeqs(S)
  PROVE  Vector(q) /\ NodesIn(q) = {e.node : e \in S}
<1> DEFINE D == 1 .. Cardinality(S)
<1>1. q \in [D -> S] /\ \A i, j \in D : i # j => q[i] # q[j]
  BY DEF SetToSeqs
<1>2. Cardinality(S) \in Nat
  BY FS_CardinalityType
<1>3. q \in Seq(QEntry) /\ Len(q) = Cardinality(S) /\ DOMAIN q = D
  BY <1>1, <1>2
<1>4. Distinct(q)
  BY <1>1, <1>3 DEF Distinct
<1>5. q \in Injection(D, S)
  BY <1>1 DEF Injection, IsInjective
<1>6. IsFiniteSet(D) /\ Cardinality(D) = Cardinality(S)
  BY <1>2, FS_Interval
<1>7. q \in Surjection(D, S)
  BY <1>5, <1>6, FS_Injection
<1>8. \A e \in S : \E i \in D : q[i] = e
  BY <1>7 DEF Surjection
<1>9. ToSet(q) = S
  BY <1>1, <1>3, <1>8 DEF ToSet
<1> QED BY <1>3, <1>4, <1>9 DEF Vector, NodesIn

\* The entries of a vector are finitely many, one for each of its nodes.
LEMMA EntriesOfVector ==
  ASSUME NEW q, Vector(q)
  PROVE  /\ ToSet(q) \in SUBSET QEntry /\ IsFiniteSet(ToSet(q))
         /\ \A e, f \in ToSet(q) : e.node = f.node => e = f
         /\ NodesIn(q) = {e.node : e \in ToSet(q)}
<1>1. /\ DOMAIN q = 1 .. Len(q) /\ Len(q) \in Nat
      /\ \A i \in 1 .. Len(q) : q[i] \in QEntry
  BY DEF Vector
<1>2. ToSet(q) \in SUBSET QEntry
  BY <1>1 DEF ToSet
<1>3. \A e, f \in ToSet(q) : e.node = f.node => e = f
  BY <1>1 DEF ToSet, Vector, Distinct
<1>4. IsFiniteSet(ToSet(q))
  <2> DEFINE D == 1 .. Len(q)
             S == ToSet(q)
             f == [i \in D |-> q[i]]
  <2>1. f \in Surjection(D, S)
    BY <1>1 DEF Surjection, ToSet
  <2>2. IsFiniteSet(D)
    BY <1>1, FS_Interval
  <2> HIDE DEF f, D, S
  <2>3. IsFiniteSet(S)
    BY <2>1, <2>2, FS_Surjection
  <2> QED BY <2>3 DEF S
<1> QED BY <1>2, <1>3, <1>4 DEF NodesIn

\* Sorting a vector keeps its nodes.
LEMMA SortKeepsNodes ==
  ASSUME NEW q, Vector(q), NEW key, NEW r \in Sorted(ToSet(q), key)
  PROVE  Vector(r) /\ NodesIn(r) = NodesIn(q)
<1>1. r \in SetToSeqs(ToSet(q))
  BY DEF Sorted
<1> QED BY <1>1, EntriesOfVector, SequenceOfEntries

\* What is behind a vector stays apart from it.
LEMMA Concatenated ==
  ASSUME NEW q, Vector(q), NEW c, Vector(c), NodesIn(q) \cap NodesIn(c) = {}
  PROVE  Vector(q \o c) /\ NodesIn(q \o c) = NodesIn(q) \cup NodesIn(c)
<1> DEFINE r == q \o c
<1>1. /\ r \in Seq(QEntry) /\ Len(r) = Len(q) + Len(c)
      /\ \A i \in 1 .. Len(r) : r[i] = IF i <= Len(q) THEN q[i] ELSE c[i - Len(q)]
      /\ Len(q) \in Nat /\ Len(c) \in Nat
  BY DEF Vector
<1> HIDE DEF r
<1>2. /\ NodesIn(q) = {q[i].node : i \in 1 .. Len(q)}
      /\ NodesIn(c) = {c[i].node : i \in 1 .. Len(c)}
  BY NodesInRange
<1>3. ASSUME NEW i \in 1 .. Len(r)
      PROVE  \/ i \in 1 .. Len(q) /\ r[i] = q[i]
             \/ i - Len(q) \in 1 .. Len(c) /\ r[i] = c[i - Len(q)] /\ ~ (i <= Len(q))
  BY <1>1
<1>4. Distinct(r)
  <2> SUFFICES ASSUME NEW i \in 1 .. Len(r), NEW j \in 1 .. Len(r), r[i].node = r[j].node
               PROVE  i = j
    BY DEF Distinct
  <2>1. CASE i \in 1 .. Len(q) /\ r[i] = q[i] /\ j \in 1 .. Len(q) /\ r[j] = q[j]
    BY <2>1 DEF Vector, Distinct
  <2>2. CASE /\ i - Len(q) \in 1 .. Len(c) /\ r[i] = c[i - Len(q)]
             /\ j - Len(q) \in 1 .. Len(c) /\ r[j] = c[j - Len(q)]
    <3>1. i - Len(q) = j - Len(q)
      BY <2>2 DEF Vector, Distinct
    <3> QED BY <1>1, <3>1
  <2>3. CASE i \in 1 .. Len(q) /\ r[i] = q[i] /\ j - Len(q) \in 1 .. Len(c) /\ r[j] = c[j - Len(q)]
    BY <1>2, <2>3
  <2>4. CASE j \in 1 .. Len(q) /\ r[j] = q[j] /\ i - Len(q) \in 1 .. Len(c) /\ r[i] = c[i - Len(q)]
    BY <1>2, <2>4
  <2> QED BY <1>3, <2>1, <2>2, <2>3, <2>4
<1>5. Vector(r)
  BY <1>1, <1>4 DEF Vector
<1>6. NodesIn(r) = NodesIn(q) \cup NodesIn(c)
  <2>0. NodesIn(r) = {r[i].node : i \in 1 .. Len(r)}
    BY <1>5, NodesInRange
  <2>1. ASSUME NEW n \in NodesIn(r) PROVE n \in NodesIn(q) \cup NodesIn(c)
    <3>1. PICK i \in 1 .. Len(r) : n = r[i].node
      BY <2>0
    <3> QED BY <1>2, <1>3, <3>1
  <2>2. ASSUME NEW n \in NodesIn(q) PROVE n \in NodesIn(r)
    <3>1. PICK i \in 1 .. Len(q) : n = q[i].node
      BY <1>2
    <3>2. i \in 1 .. Len(r) /\ r[i] = q[i]
      BY <1>1
    <3> QED BY <2>0, <3>1, <3>2
  <2>3. ASSUME NEW n \in NodesIn(c) PROVE n \in NodesIn(r)
    <3>1. PICK i \in 1 .. Len(c) : n = c[i].node
      BY <1>2
    <3>2. i + Len(q) \in 1 .. Len(r) /\ r[i + Len(q)] = c[i]
      BY <1>1
    <3> QED BY <2>0, <3>1, <3>2
  <2> QED BY <2>1, <2>2, <2>3
<1> QED BY <1>5, <1>6 DEF r

\* The first m entries of a vector.
LEMMA PrefixFacts ==
  ASSUME NEW q, Vector(q), NEW m \in 0 .. Len(q)
  PROVE  LET r == SubSeq(q, 1, m)
         IN  /\ Vector(r) /\ Len(r) = m /\ \A i \in 1 .. m : r[i] = q[i]
             /\ NodesIn(r) = {q[i].node : i \in 1 .. m}
<1> DEFINE r == SubSeq(q, 1, m)
<1>1. /\ r \in Seq(QEntry) /\ Len(r) = m /\ \A i \in 1 .. m : r[i] = q[i]
      /\ Len(q) \in Nat
  BY DEF Vector
<1> HIDE DEF r
<1>2. Vector(r)
  BY <1>1 DEF Vector, Distinct
<1>3. NodesIn(r) = {q[i].node : i \in 1 .. m}
  <2>1. NodesIn(r) = {r[i].node : i \in 1 .. m}
    BY <1>1, <1>2, NodesInRange
  <2> QED BY <1>1, <2>1
<1> QED BY <1>1, <1>2, <1>3 DEF r

\* has_next leaves the entries up to the last one that is not pruned.
LEMMA HasNextFacts ==
  ASSUME NEW q, Vector(q)
  PROVE  \E m \in 0 .. Len(q) :
           /\ HasNextDrops(q) = SubSeq(q, 1, m)
           /\ m > 0 => ~ pruned[q[m].node]
           /\ \A i \in m + 1 .. Len(q) : pruned[q[i].node]
<1> DEFINE S == {0} \cup {i \in DOMAIN q : ~pruned[q[i].node]}
<1>1. DOMAIN q = 1 .. Len(q) /\ Len(q) \in Nat
  BY DEF Vector
<1>2. S \in SUBSET (0 .. Len(q)) /\ S # {}
  BY <1>1
<1>3. Max(S) \in S /\ \A x \in S : x <= Max(S)
  <2> HIDE DEF S
  <2> QED BY <1>1, <1>2, MaxIsGreatest
<1>4. PICK m \in S : m = Max(S)
  BY <1>3
<1>5. m \in 0 .. Len(q) /\ (m > 0 => ~ pruned[q[m].node])
  BY <1>2
<1>6. HasNextDrops(q) = SubSeq(q, 1, m)
  BY <1>4 DEF HasNextDrops
<1>7. ASSUME NEW i \in m + 1 .. Len(q) PROVE pruned[q[i].node]
  <2>1. i \in DOMAIN q /\ ~ (i <= m)
    BY <1>1, <1>5
  <2>2. i \notin S
    BY <1>3, <1>4, <2>1
  <2> QED BY <2>1, <2>2
<1> QED BY <1>5, <1>6, <1>7

----------------------------------------------------------------------------
(* What the strategies do to their vectors *)

LEMMA EntryFacts ==
  ASSUME NEW n \in Node, NEW bound \in Nat, NEW length \in Nat
  PROVE  Entry(n, bound, length) \in QEntry /\ Entry(n, bound, length).node = n
  BY DEF Entry, QEntry

\* Depth-first strategies append, in some order; the others mix.
LEMMA AfterBranchFacts ==
  ASSUME strategy \in Strategies, NEW q, Vector(q),
         NEW new \in SUBSET Node, IsFiniteSet(new), NodesIn(q) \cap new = {},
         NEW bound, NEW length,
         \A n \in new : bound[n] \in Nat /\ length[n] \in Nat,
         NEW r \in AfterBranch(q, new, bound, length)
  PROVE  /\ Vector(r) /\ NodesIn(r) = NodesIn(q) \cup new
         /\ strategy \in {"DfsBfs", "CheapestChildDepthFirst"} =>
              \E c : Vector(c) /\ NodesIn(c) = new /\ r = q \o c
<1> DEFINE E == {Entry(n, bound[n], length[n]) : n \in new}
           All == ToSet(q) \cup E
<1>1. /\ E \in SUBSET QEntry
      /\ \A e, f \in E : e.node = f.node => e = f
      /\ {e.node : e \in E} = new
  BY EntryFacts
<1>2. IsFiniteSet(E)
  <2> DEFINE f == [n \in new |-> Entry(n, bound[n], length[n])]
  <2>1. f \in Surjection(new, E)
    BY DEF Surjection
  <2> HIDE DEF f, E
  <2> QED BY <2>1, FS_Surjection
<1>3. /\ All \in SUBSET QEntry /\ IsFiniteSet(All)
      /\ \A e, f \in All : e.node = f.node => e = f
      /\ {e.node : e \in All} = NodesIn(q) \cup new
  <2>1. /\ ToSet(q) \in SUBSET QEntry /\ IsFiniteSet(ToSet(q))
        /\ \A e, f \in ToSet(q) : e.node = f.node => e = f
        /\ NodesIn(q) = {e.node : e \in ToSet(q)}
    BY EntriesOfVector
  <2> HIDE DEF E
  <2>2. IsFiniteSet(All)
    BY <1>2, <2>1, FS_Union
  <2>3. \A e \in ToSet(q) : \A f \in E : e.node # f.node
    BY <1>1, <2>1
  <2>4. {e.node : e \in All} = NodesIn(q) \cup new
    <3>1. \A e \in E : e.node \in new
      BY <1>1
    <3>2. \A n \in new : \E e \in E : e.node = n
      BY <1>1
    <3> QED BY <2>1, <3>1, <3>2
  <2> QED BY <1>1, <2>1, <2>2, <2>3, <2>4
<1>4. ASSUME NEW S, NEW c \in ByCurrent(S, bound, length) PROVE c \in SetToSeqs(S)
  BY <1>4 DEF ByCurrent, Sorted
<1> HIDE DEF E, All
<1>5. CASE strategy \in {"DfsBfs", "CheapestChildDepthFirst"}
  <2>1. PICK c \in ByCurrent(E, bound, length) : r = q \o c
    BY <1>5 DEF AfterBranch, E
  <2>2. Vector(c) /\ NodesIn(c) = new
    BY <1>1, <1>2, <1>4, <2>1, SequenceOfEntries
  <2>3. Vector(r) /\ NodesIn(r) = NodesIn(q) \cup new
    BY <2>1, <2>2, Concatenated
  <2> QED BY <2>1, <2>2, <2>3
<1>6. CASE strategy \in {"CheapestBreadthFirst", "RandomNextNode"}
  <2>1. r \in SetToSeqs(All)
    <3>1. CASE strategy = "CheapestBreadthFirst"
      <4>1. r \in ByCurrent(All, bound, length)
        BY <3>1 DEF AfterBranch, E, All
      <4> QED BY <1>4, <4>1
    <3>2. CASE strategy = "RandomNextNode"
      BY <3>2 DEF AfterBranch, E, All
    <3> QED BY <1>6, <3>1, <3>2
  <2>2. Vector(r) /\ NodesIn(r) = NodesIn(q) \cup new
    BY <1>3, <2>1, SequenceOfEntries
  <2> QED BY <1>6, <2>2
<1> QED BY <1>5, <1>6, QueuedSearchAssumption

\* An event makes DfsBfs sort and leaves the other vectors alone.
LEMMA AfterEventFacts ==
  ASSUME NEW q, Vector(q), NEW r \in AfterEvent(q)
  PROVE  /\ Vector(r) /\ NodesIn(r) = NodesIn(q)
         /\ strategy # "DfsBfs" => r = q
<1>1. CASE strategy = "DfsBfs"
  <2>1. r \in Sorted(ToSet(q), [e \in ToSet(q) |-> e])
    BY <1>1 DEF AfterEvent, ByStored
  <2> QED BY <1>1, <2>1, SortKeepsNodes
<1>2. CASE strategy # "DfsBfs"
  BY <1>2 DEF AfterEvent
<1> QED BY <1>1, <1>2

----------------------------------------------------------------------------
(* The inductive invariant *)

Above(n) == path[n] \ {n}

\* What lies above one node of the vector lies above all that follow, and above
\* the node that was taken from its end and is being visited.
DiveOrder ==
  /\ \A i, j \in 1 .. Len(queue) : i < j => Above(queue[i].node) \subseteq Above(queue[j].node)
  /\ InVisit => \A i \in 1 .. Len(queue) : Above(queue[i].node) \subseteq Above(cur)

\* Until there is an incumbent DfsBfs never sorts: no solution is infinitely
\* long, and a leaf with an infinite bound was pruned when it got it.
EventsAwaitIncumbent ==
  /\ \A n \in Nodes : obj[n] \in Costs
  /\ \A m \in Leaves : lb[m] = Inf => pruned[m]
  /\ pc \in {"lazy", "explore"} => ~ pruned[cur]

QueueRight ==
  /\ strategy \in Strategies
  /\ Vector(queue)
  /\ NodesIn(queue) \subseteq open /\ \A n \in open \ NodesIn(queue) : pruned[n]
  /\ Dives => DiveOrder

QInv == Typed /\ EventsAwaitIncumbent /\ QueueRight

\* Bounds and lengths are numbers, those of lengths finite.
LEMMA QueueNumbers ==
  ASSUME Typed
  PROVE  /\ \A n \in Node : lb[n] \in Nat /\ obj[n] \in Nat /\ lb[n] \in Bounds
         /\ ub \in Nat /\ ub <= Inf /\ Inf \in Nat
         /\ \A c \in Costs : c \in Nat /\ c < Inf /\ c # Inf
         /\ Nodes \subseteq Node /\ Leaves \subseteq Nodes
         /\ \A l \in Bounds : WithinGap(ub, l) /\ ub = Inf => l = Inf
         /\ WithinGap(ub, Inf)
<1>1. /\ \A n \in Node : lb[n] \in Nat /\ obj[n] \in Nat /\ lb[n] \in Bounds
      /\ ub \in Nat /\ ub <= Inf /\ Inf \in Nat
  BY LengthsAreNat DEF Typed, TypeOK
<1>2. \A c \in Costs : c \in Nat /\ c < Inf /\ c # Inf
  BY BnbAssumption
<1>3. Nodes \subseteq Node /\ Leaves \subseteq Nodes
  BY NodeFacts DEF Typed
<1>4. ASSUME NEW l \in Bounds, WithinGap(ub, l), ub = Inf PROVE l = Inf
  <2>1. GoodEnough(Inf, l)
    BY <1>4, WithinIsGoodEnough
  <2> QED BY <2>1, BnbAssumption DEF Bounds
<1>5. WithinGap(ub, Inf)
  BY <1>1, CrossedIsWithinGap
<1> QED BY <1>1, <1>2, <1>3, <1>4, <1>5

\* add_lower_bound raises the leaves of the subtree and no other leaf.
LEMMA RaisedLeaves ==
  ASSUME Typed, NEW n \in Nodes, NEW l \in Bounds, NEW m \in Leaves
  PROVE  Raised(n, l)[m] = IF n \in path[m] THEN Greater(lb[m], l) ELSE lb[m]
<1> DEFINE f == [a \in Node |-> IF n \in path[a] THEN Greater(lb[a], l) ELSE lb[a]]
<1>1. m \in Node /\ m \notin path[n] \ {n}
  BY NodeFacts DEF Typed, TreeShape, Leaves
<1>2. Raised(n, l) = Propagated(f, n, Leaves, path)
  BY DEF Raised, RaisedBounds
<1>3. Propagated(f, n, Leaves, path)[m] = f[m]
  BY <1>1 DEF Propagated
<1> QED BY <1>1, <1>2, <1>3

LEMMA InitEventsAwait == ASSUME Init PROVE EventsAwaitIncumbent
<1>1. PICK r \in Relaxations :
        /\ count = 1 /\ pc = "setup"
        /\ lb = [n \in Node |-> IF n = Root THEN r.lb ELSE Inf]
        /\ obj = [n \in Node |-> IF n = Root THEN r.obj ELSE Inf]
  BY DEF Init
<1>2. Nodes = {Root} /\ Root \in Node
  BY <1>1, BnbAssumption DEF Nodes, Node, Root
<1>3. lb[Root] \in Costs /\ obj[Root] \in Costs
  BY <1>1, <1>2, RelaxationFacts
<1> QED BY <1>1, <1>2, <1>3, BnbAssumption DEF EventsAwaitIncumbent, Leaves

\* A raised bound is infinite only where the subtree is pruned as well.
LEMMA RaisedAwaits ==
  ASSUME Typed, EventsAwaitIncumbent, NEW n \in Nodes, NEW l \in Bounds,
         NEW p, \A m \in Leaves : pruned[m] => p[m],
         l = Inf => \A m \in Leaves : n \in path[m] => p[m]
  PROVE  \A m \in Leaves : Raised(n, l)[m] = Inf => p[m]
<1> SUFFICES ASSUME NEW m \in Leaves, Raised(n, l)[m] = Inf, ~ p[m] PROVE FALSE
  OBVIOUS
<1>1. lb[m] # Inf
  BY DEF EventsAwaitIncumbent
<1>2. n \in path[m] /\ Greater(lb[m], l) = Inf
  BY <1>1, RaisedLeaves
<1>3. l = Inf
  BY <1>1, <1>2 DEF Greater
<1> QED BY <1>2, <1>3

LEMMA StepAwaits ==
  ASSUME Typed, EventsAwaitIncumbent, [Next]_vars
  PROVE  EventsAwaitIncumbent'
<1> USE DEF EventsAwaitIncumbent
<1>0. /\ (InCallback \/ pc \in {"lazy", "explore"}) => cur \in Nodes
      /\ pc \in {"lazy", "explore"} => cur \in Leaves
      /\ Root \in Nodes /\ Costs \subseteq Bounds /\ Inf \in Bounds
      /\ Nodes \subseteq Node /\ Leaves \subseteq Nodes
  BY NodeFacts DEF Typed, TypeOK, InVisit, InCallback, Bounds, TreeShape, Frontier
<1>t. ASSUME UNCHANGED treeVars PROVE Nodes' = Nodes /\ Leaves' = Leaves /\ obj' = obj
  BY <1>t DEF treeVars, Nodes, Leaves
<1>1. CASE Setup
  <2>1. CASE \E u \in Costs : AddUpperBound(u)
    BY <1>t, <2>1 DEF AddUpperBound
  <2>2. ASSUME NEW l \in Costs, AddLowerBound(l) PROVE EventsAwaitIncumbent'
    <3>1. l \in Bounds /\ l # Inf
      BY <1>0, BnbAssumption
    <3>2. \A m \in Leaves : lb'[m] = Inf => pruned[m]
      BY <1>0, <2>2, <3>1, RaisedAwaits DEF AddLowerBound
    <3> QED BY <1>t, <2>2, <3>2 DEF AddLowerBound
  <2>3. CASE StartOptimize
    BY <1>t, <2>3 DEF StartOptimize
  <2> QED BY <1>1, <2>1, <2>2, <2>3 DEF Setup
<1>2. CASE Callback
  <2>1. ASSUME NEW l \in Costs, CallbackAddLowerBound(l) PROVE EventsAwaitIncumbent'
    <3>1. l \in Bounds /\ l # Inf /\ cur \in Nodes
      BY <1>0, <2>1, BnbAssumption DEF CallbackAddLowerBound
    <3>2. \A m \in Leaves : lb'[m] = Inf => pruned[m]
      BY <2>1, <3>1, RaisedAwaits DEF CallbackAddLowerBound
    <3> QED BY <1>t, <2>1, <3>2 DEF CallbackAddLowerBound, InCallback
  <2>2. CASE (\E u \in Costs : CallbackAddSolution(u)) \/ \E s \in Sites : CallbackAddSite(s)
    BY <1>t, <2>2 DEF CallbackAddSolution, CallbackAddSite, InCallback
  <2>3. CASE CallbackPrune
    <3>1. cur \in Nodes
      BY <1>0, <2>3 DEF CallbackPrune
    <3>2. \A m \in Leaves : (pruned[m] \/ cur \in path[m]) => pruned'[m]
      <4>1. pruned' = [n \in Node |-> pruned[n] \/ cur \in path[n]]
        BY <2>3 DEF CallbackPrune
      <4> QED BY <1>0, <4>1
    <3>3. \A m \in Leaves : lb'[m] = Inf => pruned'[m]
      BY <1>0, <2>3, <3>1, <3>2, RaisedAwaits DEF CallbackPrune
    <3> QED BY <1>t, <2>3, <3>3 DEF CallbackPrune, InCallback
  <2> QED BY <1>2, <2>1, <2>2, <2>3 DEF Callback
<1>3. CASE Explore
  <2>1. CASE \E new \in SUBSET Sites : AddLazyConstraints(new)
    BY <1>t, <2>1 DEF AddLazyConstraints
  <2>2. CASE ProcessFeasible
    BY <1>t, <2>2 DEF ProcessFeasible
  <2>3. CASE PruneBeforeBranch
    <3>1. \A m \in Leaves : pruned[m] => pruned'[m]
      BY <1>0, <2>3 DEF PruneBeforeBranch, Typed, TypeOK
    <3> QED BY <1>t, <2>3, <3>1 DEF PruneBeforeBranch
  <2>4. ASSUME NEW k \in 1 .. MaxFanout, NEW rs \in [1 .. k -> Relaxations], Branch(k, rs)
        PROVE  EventsAwaitIncumbent'
    <3> DEFINE new == NewNodes(k)
               S == Settled(k, rs)
    <3>1. /\ Nodes' = Nodes \cup new /\ Nodes \cap new = {} /\ new \subseteq Node
          /\ Leaves' = (Leaves \ {cur}) \cup new /\ cur \in Nodes /\ pruned' = pruned
          /\ pc' = "leaving" /\ \A n \in new : n - count \in 1 .. k
      BY <2>4, BranchGrows
    <3>2. \A n \in Nodes' : obj'[n] \in Costs
      <4>1. \A i \in 1 .. k : rs[i].obj \in Costs
        BY RelaxationFacts
      <4>2. \A n \in Node : obj'[n] = IF n \in new THEN rs[n - count].obj ELSE obj[n]
        BY <2>4 DEF Branch, NewNodes
      <4> QED BY <1>0, <3>1, <4>1, <4>2
    <3>3. lb[cur] # Inf
      BY <2>4, QueueNumbers DEF Branch
    <3>4. \A m \in Leaves' : lb'[m] = S[m]
      BY <2>4, BranchBounds
    <3>5. ASSUME NEW m \in new PROVE lb'[m] # Inf
      <4>1. lb'[m] = Greater(rs[m - count].lb, lb[cur])
        BY <2>4, <3>1, <3>4, BranchBounds
      <4>2. rs[m - count].lb # Inf
        BY <3>1, RelaxationFacts, BnbAssumption
      <4> QED BY <3>3, <4>1, <4>2 DEF Greater
    <3>6. ASSUME NEW m \in Leaves \ {cur}, lb'[m] = Inf PROVE pruned'[m]
      <4>1. m \in Node \ new /\ m # cur /\ m \in Leaves'
        <5> HIDE DEF new
        <5>1. m \in Leaves /\ m # cur
          OBVIOUS
        <5>2. m \in Nodes /\ m \in Node
          BY <1>0, <5>1
        <5> QED BY <3>1, <5>1, <5>2
      <4>2. S[m] = lb[m]
        BY <2>4, <4>1, BranchBounds
      <4> QED BY <3>1, <3>4, <3>6, <4>1, <4>2
    <3> QED BY <3>1, <3>2, <3>5, <3>6
  <2>5. CASE BranchEmpty
    <3>1. cur \in Leaves /\ cur \in Nodes /\ cur \in Node
      BY <1>0, <2>5 DEF BranchEmpty
    <3>2. \A m \in Leaves : cur \in path[m] => m = cur
      BY <1>0, <3>1 DEF Typed, TreeShape, Leaves
    <3>3. pruned' = [pruned EXCEPT ![cur] = TRUE] /\ lb' = Raised(cur, Inf) /\ pc' = "leaving"
      BY <2>5 DEF BranchEmpty
    <3>4. \A m \in Leaves : (pruned[m] \/ m = cur) => pruned'[m]
      BY <1>0, <3>1, <3>3 DEF Typed, TypeOK
    <3>5. \A m \in Leaves : lb'[m] = Inf => pruned'[m]
      BY <1>0, <3>1, <3>2, <3>3, <3>4, RaisedAwaits
    <3> QED BY <1>t, <2>5, <3>3, <3>5 DEF BranchEmpty
  <2> QED BY <1>3, <2>1, <2>2, <2>3, <2>4, <2>5 DEF Explore
<1>4. CASE Loop
  <2>1. ASSUME NEW n \in Node, VisitPruned(n) PROVE EventsAwaitIncumbent'
    <3>1. \A m \in Leaves : pruned[m] => pruned'[m]
      BY <1>0, <2>1 DEF VisitPruned, Typed, TypeOK
    <3> QED BY <1>t, <2>1, <3>1 DEF VisitPruned
  <2>2. CASE \/ (\E n \in Node : VisitNode(n)) \/ Exhausted \/ StopAtGap \/ StopAtTimeout
             \/ Continue \/ EnterDone \/ LeaveDone
    BY <1>t, <2>2
       DEF VisitNode, Exhausted, StopAtGap, StopAtTimeout, Continue, EnterDone, LeaveDone
  <2> QED BY <1>4, <2>1, <2>2 DEF Loop
<1>5. CASE UNCHANGED vars
  BY <1>t, <1>5 DEF vars, treeVars
<1> QED BY <1>1, <1>2, <1>3, <1>4, <1>5 DEF Next, Returned

----------------------------------------------------------------------------
(* Every step keeps the vector right *)

\* The strategies dive no longer than before: no step raises the upper bound.
LEMMA DivesOnlyBefore ==
  ASSUME Typed, Advances, strategy' = strategy
  PROVE  Dives' => Dives
<1>1. ub' = Inf => ub = Inf
  <2>1. ub' <= ub /\ ub \in Nat /\ ub <= Inf /\ Inf \in Nat
    BY QueueNumbers DEF Advances
  <2> QED BY <2>1
<1> QED BY <1>1 DEF Dives

\* A vector from whose end entries were taken is still in order.
LEMMA PrefixDives ==
  ASSUME Vector(queue), Dives => DiveOrder, path' = path,
         Dives' => /\ Dives /\ Len(queue') \in 0 .. Len(queue)
                   /\ \A i \in 1 .. Len(queue') : queue'[i] = queue[i],
         InVisit' => InVisit /\ cur' = cur
  PROVE  Dives' => DiveOrder'
<1> SUFFICES ASSUME Dives' PROVE DiveOrder'
  OBVIOUS
<1>1. Len(queue) \in Nat /\ DiveOrder
  BY DEF Vector
<1>2. \A i \in 1 .. Len(queue') : i \in 1 .. Len(queue) /\ queue'[i] = queue[i]
  BY <1>1
<1> QED BY <1>1, <1>2 DEF DiveOrder, Above

\* The last entry of a prefix, and what is in front of it.
LEMMA LastAndFront ==
  ASSUME NEW q, Vector(q), NEW m \in 1 .. Len(q)
  PROVE  LET r == SubSeq(q, 1, m)
         IN  Last(r) = q[m] /\ Front(r) = SubSeq(q, 1, m - 1)
<1> DEFINE r == SubSeq(q, 1, m)
<1>1. /\ r \in Seq(QEntry) /\ Len(r) = m /\ \A i \in 1 .. m : r[i] = q[i]
      /\ m \in Nat \ {0} /\ q \in Seq(QEntry)
  BY DEF Vector
<1> HIDE DEF r
<1>2. Last(r) = q[m]
  BY <1>1 DEF Last
<1>3. Front(r) = SubSeq(q, 1, m - 1)
  BY <1>1 DEF Front
<1> QED BY <1>2, <1>3 DEF r

\* Taking the entry that next returns leaves what waits besides it.
LEMMA NextTaken ==
  ASSUME Typed, QueueRight, NEW q, q = HasNextDrops(queue), q # <<>>
  PROVE  \E m \in 1 .. Len(queue) :
           /\ Last(q) = queue[m] /\ queue[m].node \in open
           /\ Vector(Front(q)) /\ Len(Front(q)) = m - 1
           /\ \A i \in 1 .. m - 1 : Front(q)[i] = queue[i]
           /\ NodesIn(Front(q)) \subseteq open \ {queue[m].node}
           /\ \A n \in (open \ {queue[m].node}) \ NodesIn(Front(q)) : pruned[n]
<1>1. Vector(queue) /\ Len(queue) \in Nat
  BY DEF QueueRight, Vector
<1>2. PICK m \in 0 .. Len(queue) :
        /\ q = SubSeq(queue, 1, m)
        /\ \A i \in m + 1 .. Len(queue) : pruned[queue[i].node]
  BY <1>1, HasNextFacts
<1>3. m \in 1 .. Len(queue) /\ m - 1 \in 0 .. Len(queue) /\ m \in Nat
  BY <1>1, <1>2 DEF Vector
<1>4. Last(q) = queue[m] /\ Front(q) = SubSeq(queue, 1, m - 1)
  BY <1>1, <1>2, <1>3, LastAndFront
<1>5. /\ Vector(Front(q)) /\ Len(Front(q)) = m - 1
      /\ \A i \in 1 .. m - 1 : Front(q)[i] = queue[i]
      /\ NodesIn(Front(q)) = {queue[i].node : i \in 1 .. m - 1}
  BY <1>1, <1>3, <1>4, PrefixFacts
<1>6. NodesIn(queue) = {queue[i].node : i \in 1 .. Len(queue)}
  BY <1>1, NodesInRange
<1>7. NodesIn(Front(q)) \subseteq open \ {queue[m].node}
  <2>1. \A i \in 1 .. m - 1 : i \in 1 .. Len(queue) /\ i # m
    BY <1>3
  <2>2. \A i \in 1 .. m - 1 : queue[i].node # queue[m].node
    BY <1>1, <1>3, <2>1 DEF Vector, Distinct
  <2> QED BY <1>5, <1>6, <2>1, <2>2 DEF QueueRight
<1>8. ASSUME NEW n \in open \ {queue[m].node}, n \notin NodesIn(Front(q)) PROVE pruned[n]
  <2>1. CASE n \notin NodesIn(queue)
    BY <2>1 DEF QueueRight
  <2>2. CASE n \in NodesIn(queue)
    <3>1. PICK i \in 1 .. Len(queue) : n = queue[i].node
      BY <1>6, <2>2
    <3>2. i # m /\ i \notin 1 .. m - 1
      BY <1>5, <1>8, <3>1
    <3>3. i \in m + 1 .. Len(queue)
      BY <1>3, <3>2
    <3> QED BY <1>2, <3>1, <3>3
  <2> QED BY <2>1, <2>2
<1>9. queue[m].node \in open
  BY <1>3, <1>6 DEF QueueRight
<1> QED BY <1>3, <1>4, <1>5, <1>7, <1>8, <1>9

LEMMA InitQueueRight == ASSUME QInit, Typed PROVE QueueRight
<1> DEFINE e == Entry(Root, lb[Root], obj[Root])
<1>1. open = {Root} /\ pc = "setup" /\ queue = <<e>> /\ strategy \in Strategies
  BY DEF QInit, Init
<1>2. e \in QEntry /\ e.node = Root
  BY EntryFacts, QueueNumbers, NodeFacts DEF Typed
<1> HIDE DEF e
<1>3. Vector(queue) /\ Len(queue) = 1 /\ queue[1] = e
  BY <1>1, <1>2 DEF Vector, Distinct
<1>4. NodesIn(queue) = {Root}
  BY <1>2, <1>3, NodesInRange
<1>5. DiveOrder
  BY <1>1, <1>3 DEF DiveOrder, InVisit
<1> QED BY <1>1, <1>3, <1>4, <1>5 DEF QueueRight

LEMMA VisitPrunedQueue ==
  ASSUME QInv, QVisitPruned, Advances, strategy' = strategy
  PROVE  QueueRight'
<1> DEFINE q == HasNextDrops(queue)
           n == Last(q).node
<1>1. /\ q # <<>> /\ WithinGap(ub, lb[n]) /\ ~ pruned[n] /\ queue' \in AfterEvent(Front(q))
      /\ open' = open \ {n} /\ pruned' = [pruned EXCEPT ![n] = TRUE] /\ path' = path
      /\ pc' = "check"
  BY DEF QVisitPruned, VisitPruned, treeVars
<1> HIDE DEF q
<1>2. PICK m \in 1 .. Len(queue) :
        /\ Last(q) = queue[m] /\ queue[m].node \in open
        /\ Vector(Front(q)) /\ Len(Front(q)) = m - 1
        /\ \A i \in 1 .. m - 1 : Front(q)[i] = queue[i]
        /\ NodesIn(Front(q)) \subseteq open \ {queue[m].node}
        /\ \A a \in (open \ {queue[m].node}) \ NodesIn(Front(q)) : pruned[a]
  BY <1>1, NextTaken DEF q, QInv
<1>3. /\ Vector(queue') /\ NodesIn(queue') = NodesIn(Front(q))
      /\ strategy # "DfsBfs" => queue' = Front(q)
  BY <1>1, <1>2, AfterEventFacts
<1>4. n = queue[m].node /\ n \in Leaves /\ n \in Node
  BY <1>2, NodeFacts DEF QInv, Typed, TreeShape, Frontier
<1> HIDE DEF n
<1>5. NodesIn(queue') \subseteq open' /\ \A a \in open' \ NodesIn(queue') : pruned'[a]
  <2>1. \A a \in open : pruned[a] => pruned'[a]
    BY <1>1, <1>4, NodeFacts DEF QInv, Typed, TypeOK
  <2> QED BY <1>1, <1>2, <1>3, <1>4, <2>1
<1>6. ASSUME Dives' PROVE Dives /\ queue' = Front(q)
  <2>1. Dives
    BY <1>6, DivesOnlyBefore DEF QInv
  <2>2. ub # Inf
    <3>1. ub = Inf => lb[n] = Inf
      BY <1>1, <1>4, QueueNumbers DEF QInv
    <3> QED BY <1>1, <1>4, <3>1 DEF QInv, EventsAwaitIncumbent
  <2> QED BY <1>3, <2>1, <2>2 DEF Dives
<1>7. Dives' => DiveOrder'
  <2>1. m - 1 \in 0 .. Len(queue)
    BY <1>2 DEF QInv, QueueRight, Vector
  <2> QED BY <1>1, <1>2, <1>6, <2>1, PrefixDives DEF QInv, QueueRight, InVisit
<1> QED BY <1>3, <1>5, <1>7 DEF QInv, QueueRight

LEMMA VisitNodeQueue ==
  ASSUME QInv, QVisitNode, Advances, strategy' = strategy
  PROVE  QueueRight'
<1> DEFINE q == HasNextDrops(queue)
           n == Last(q).node
<1>1. /\ q # <<>> /\ queue' = Front(q) /\ open' = open \ {n} /\ cur' = n
      /\ UNCHANGED <<pruned, path>>
  BY DEF QVisitNode, VisitNode, treeVars
<1> HIDE DEF q
<1>2. PICK m \in 1 .. Len(queue) :
        /\ Last(q) = queue[m]
        /\ Vector(Front(q)) /\ Len(Front(q)) = m - 1
        /\ \A i \in 1 .. m - 1 : Front(q)[i] = queue[i]
        /\ NodesIn(Front(q)) \subseteq open \ {queue[m].node}
        /\ \A a \in (open \ {queue[m].node}) \ NodesIn(Front(q)) : pruned[a]
  BY <1>1, NextTaken DEF q, QInv
<1>3. NodesIn(queue') \subseteq open' /\ \A a \in open' \ NodesIn(queue') : pruned'[a]
  BY <1>1, <1>2
<1>4. ASSUME Dives' PROVE DiveOrder'
  <2>1. DiveOrder
    BY <1>4, DivesOnlyBefore DEF QInv, QueueRight
  <2>2. m \in Nat /\ Len(queue') = m - 1
    BY <1>1, <1>2 DEF QInv, QueueRight, Vector
  <2>3. \A i \in 1 .. m - 1 : i \in 1 .. Len(queue) /\ i < m /\ queue'[i] = queue[i]
    BY <1>1, <1>2, <2>2 DEF QInv, QueueRight, Vector
  <2>5. \A i, j \in 1 .. m - 1 : i < j => Above(queue[i].node) \subseteq Above(queue[j].node)
    BY <2>1, <2>3 DEF DiveOrder
  <2>6. \A i \in 1 .. m - 1 : Above(queue[i].node) \subseteq Above(queue[m].node)
    BY <2>1, <2>3 DEF DiveOrder
  <2>7. \A i, j \in 1 .. m - 1 : i < j =>
          path'[queue'[i].node] \ {queue'[i].node} \subseteq path'[queue'[j].node] \ {queue'[j].node}
    BY <1>1, <2>3, <2>5 DEF Above
  <2>8. \A i \in 1 .. m - 1 :
          path'[queue'[i].node] \ {queue'[i].node} \subseteq path'[cur'] \ {cur'}
    BY <1>1, <1>2, <2>3, <2>6 DEF Above
  <2> QED BY <2>2, <2>7, <2>8 DEF DiveOrder, Above
<1> QED BY <1>1, <1>2, <1>3, <1>4 DEF QInv, QueueRight

LEMMA ExhaustedQueue ==
  ASSUME QInv, QExhausted, Advances, strategy' = strategy
  PROVE  QueueRight'
<1>1. /\ queue' = <<>> /\ pc' = "proven" /\ \A n \in open : pruned[n]
      /\ UNCHANGED <<open, pruned, path>>
  BY DEF QExhausted, Exhausted, treeVars
<1>2. Vector(queue') /\ Len(queue') = 0
  BY <1>1 DEF Vector, Distinct
<1>3. NodesIn(queue') = {}
  BY <1>2, NodesInRange
<1>4. Dives' => DiveOrder'
  BY <1>1, <1>2 DEF DiveOrder, InVisit
<1> QED BY <1>1, <1>2, <1>3, <1>4 DEF QInv, QueueRight

\* A step that appends nothing, drops nothing and does not sort.
LEMMA SameQueue ==
  ASSUME QInv, Advances, strategy' = strategy, queue' = queue, open' = open, path' = path,
         InVisit' => InVisit /\ cur' = cur
  PROVE  QueueRight'
<1>1. Vector(queue) /\ Len(queue) \in 0 .. Len(queue)
  BY DEF QInv, QueueRight, Vector
<1>2. Dives' => Dives
  BY DivesOnlyBefore DEF QInv
<1>3. Dives' => DiveOrder'
  BY <1>1, <1>2, PrefixDives DEF QInv, QueueRight
<1>4. \A n \in open : pruned[n] => pruned'[n]
  BY DEF QInv, Typed, TypeOK, Advances
<1> QED BY <1>1, <1>3, <1>4 DEF QInv, QueueRight

\* A step that may sort, after which DfsBfs has no reason to dive.
LEMMA EventQueue ==
  ASSUME QInv, Advances, strategy' = strategy, queue' \in AfterEvent(queue),
         open' = open, path' = path, ~ InVisit', ub' # Inf
  PROVE  QueueRight'
<1>1. /\ Vector(queue') /\ NodesIn(queue') = NodesIn(queue)
      /\ strategy # "DfsBfs" => queue' = queue
  BY AfterEventFacts DEF QInv, QueueRight
<1>2. Dives' => Dives /\ queue' = queue
  BY <1>1, DivesOnlyBefore DEF QInv, Dives
<1>3. Len(queue) \in 0 .. Len(queue)
  BY DEF QInv, QueueRight, Vector
<1>4. Dives' => DiveOrder'
  BY <1>2, <1>3, PrefixDives DEF QInv, QueueRight
<1>5. \A n \in open : pruned[n] => pruned'[n]
  BY DEF QInv, Typed, TypeOK, Advances
<1> QED BY <1>1, <1>4, <1>5 DEF QInv, QueueRight

LEMMA FeasibleQueue ==
  ASSUME QInv, QProcessFeasible, Advances, strategy' = strategy
  PROVE  QueueRight'
<1>1. /\ queue' \in AfterEvent(queue) /\ open' = open /\ path' = path
      /\ pc = "explore" /\ pc' = "leaving" /\ ub' = Lesser(ub, obj[cur])
  BY DEF QProcessFeasible, ProcessFeasible, NewIncumbent, treeVars
<1>2. obj[cur] \in Costs
  BY <1>1 DEF QInv, Typed, TypeOK, InVisit, EventsAwaitIncumbent
<1>3. ub' # Inf
  BY <1>1, <1>2, QueueNumbers DEF QInv, Lesser
<1> QED BY <1>1, <1>3, EventQueue DEF InVisit

LEMMA PruneQueue ==
  ASSUME QInv, QPruneBeforeBranch, Advances, strategy' = strategy
  PROVE  QueueRight'
<1>1. /\ queue' \in AfterEvent(queue) /\ open' = open /\ path' = path /\ ub' = ub
      /\ pc = "explore" /\ pc' = "leaving" /\ WithinGap(ub, lb[cur])
  BY DEF QPruneBeforeBranch, PruneBeforeBranch, treeVars
<1>2. cur \in Leaves /\ cur \in Node /\ ~ pruned[cur]
  BY <1>1, NodeFacts DEF QInv, EventsAwaitIncumbent, Typed, TreeShape, Frontier, InVisit
<1>3. ub' # Inf
  <2>1. ub = Inf => lb[cur] = Inf
    BY <1>1, <1>2, QueueNumbers DEF QInv
  <2> QED BY <1>1, <1>2, <2>1 DEF QInv, EventsAwaitIncumbent
<1> QED BY <1>1, <1>3, EventQueue DEF InVisit

\* The children are put where the strategy wants them; above them is all that
\* was above the node that branched, and the node itself.
LEMMA BranchQueue ==
  ASSUME QInv, Typed', QBranch, Advances, strategy' = strategy
  PROVE  QueueRight'
<1>1. PICK k \in 1 .. MaxFanout : \E rs \in [1 .. k -> Relaxations] : Branch(k, rs)
  BY DEF QBranch
<1> DEFINE new == NewNodes(k)
           L == Len(queue)
<1>2. /\ Nodes \cap new = {} /\ Nodes' = Nodes \cup new /\ Nodes' \subseteq Node
      /\ cur \in Nodes /\ cur \in Node /\ pc = "explore" /\ pc' = "leaving"
      /\ open' = open \cup new /\ pruned' = pruned
      /\ \A n \in Nodes : path'[n] = path[n]
      /\ \A n \in new : path'[n] = path[cur] \cup {n}
      /\ children'[cur] = new
  <2>1. cur \in Node /\ children \in [Node -> SUBSET Nodes]
    BY <1>1, BranchGrows, NodeFacts DEF QInv, Typed, TypeOK
  <2> QED BY <1>1, <2>1, BranchGrows DEF QInv
<1>3. IsFiniteSet(new)
  <2>1. count \in Int /\ count + k \in Int
    BY NodeFacts DEF QInv, Typed
  <2> QED BY <2>1, FS_Interval DEF NewNodes
<1> HIDE DEF new
<1>4. queue' \in AfterBranch(queue, new, lb', obj')
  BY <1>2 DEF QBranch
<1>5. /\ Vector(queue) /\ strategy \in Strategies /\ L \in Nat
      /\ NodesIn(queue) \subseteq open /\ open \subseteq Nodes
      /\ \A n \in open \ NodesIn(queue) : pruned[n]
  BY DEF QInv, QueueRight, Vector, Typed, TypeOK
<1>6. new \in SUBSET Node /\ NodesIn(queue) \cap new = {}
  BY <1>2, <1>5
<1>7. \A n \in new : lb'[n] \in Nat /\ obj'[n] \in Nat
  <2>1. lb' \in [Node -> Bounds] /\ obj' \in [Node -> Bounds]
    BY DEF Typed, TypeOK
  <2>2. \A n \in new : lb'[n] \in Bounds /\ obj'[n] \in Bounds
    BY <1>6, <2>1
  <2> QED BY <2>2, BoundsAreNat
<1>8. /\ Vector(queue') /\ NodesIn(queue') = NodesIn(queue) \cup new
      /\ strategy \in {"DfsBfs", "CheapestChildDepthFirst"} =>
           \E c : Vector(c) /\ NodesIn(c) = new /\ queue' = queue \o c
  BY <1>3, <1>4, <1>5, <1>6, <1>7, AfterBranchFacts
<1>9. NodesIn(queue') \subseteq open' /\ \A n \in open' \ NodesIn(queue') : pruned'[n]
  BY <1>2, <1>5, <1>8
<1>10. ASSUME Dives' PROVE DiveOrder'
  <2>1. Dives /\ DiveOrder
    BY <1>10, DivesOnlyBefore DEF QInv, QueueRight
  <2>2. PICK c : Vector(c) /\ NodesIn(c) = new /\ queue' = queue \o c
    BY <1>8, <2>1 DEF Dives
  <2>3. /\ Len(queue') = L + Len(c) /\ Len(c) \in Nat
        /\ \A i \in 1 .. L : queue'[i] = queue[i]
        /\ \A i \in 1 .. Len(c) : queue'[L + i] = c[i]
    BY <1>5, <2>2 DEF Vector
  <2> DEFINE A(i) == path'[queue'[i].node] \ {queue'[i].node}
  <2>4. ASSUME NEW i \in 1 .. Len(queue'), i <= L
        PROVE  /\ i \in 1 .. L /\ A(i) = Above(queue[i].node)
               /\ A(i) \subseteq Above(cur)
    <3>1. i \in 1 .. L
      BY <1>5, <2>4
    <3>2. queue'[i].node = queue[i].node /\ queue[i].node \in Nodes
      BY <1>5, <2>3, <3>1, NodesInRange
    <3>3. A(i) = Above(queue[i].node)
      BY <1>2, <3>2 DEF Above
    <3>4. InVisit
      BY <1>2 DEF InVisit
    <3> QED BY <2>1, <3>1, <3>3, <3>4 DEF DiveOrder
  <2>5. ASSUME NEW i \in 1 .. Len(queue'), ~ (i <= L) PROVE A(i) = path[cur]
    <3>1. i - L \in 1 .. Len(c) /\ i = L + (i - L)
      BY <1>5, <2>3, <2>5
    <3>2. queue'[i].node \in new
      BY <2>2, <2>3, <3>1, NodesInRange
    <3>3. path[cur] \subseteq Nodes
      BY <1>2 DEF QInv, Typed, TypeOK
    <3> QED BY <1>2, <3>2, <3>3
  <2>6. ASSUME NEW i \in 1 .. Len(queue'), NEW j \in 1 .. Len(queue'), i < j
        PROVE  A(i) \subseteq A(j)
    <3> HIDE DEF A
    <3>1. CASE i <= L /\ j <= L
      <4>1. A(i) = Above(queue[i].node) /\ A(j) = Above(queue[j].node) /\ i \in 1 .. L /\ j \in 1 .. L
        BY <2>4, <3>1
      <4> QED BY <2>1, <2>6, <4>1 DEF DiveOrder
    <3>2. CASE i <= L /\ ~ (j <= L)
      BY <2>4, <2>5, <3>2 DEF Above
    <3>3. CASE ~ (i <= L) /\ ~ (j <= L)
      BY <2>5, <3>3
    <3>4. CASE ~ (i <= L) /\ j <= L
      BY <1>5, <2>3, <2>6, <3>4
    <3> QED BY <3>1, <3>2, <3>3, <3>4
  <2>7. ~ InVisit'
    BY <1>2 DEF InVisit
  <2> QED BY <2>6, <2>7 DEF DiveOrder, Above
<1> QED BY <1>5, <1>8, <1>9, <1>10 DEF QueueRight

LEMMA BranchEmptyQueue ==
  ASSUME QInv, QBranchEmpty, Advances, strategy' = strategy
  PROVE  QueueRight'
<1>1. /\ queue' \in AfterBranch(queue, {}, lb', obj') /\ pc' = "leaving"
      /\ UNCHANGED <<path, open>>
  BY DEF QBranchEmpty, BranchEmpty, treeVars
<1>2. /\ Vector(queue) /\ strategy \in Strategies /\ Len(queue) \in Nat
      /\ NodesIn(queue) \subseteq open /\ \A n \in open \ NodesIn(queue) : pruned[n]
  BY DEF QInv, QueueRight, Vector
<1>3. IsFiniteSet({}) /\ Cardinality({}) = 0
  BY FS_EmptySet
<1>4. /\ Vector(queue') /\ NodesIn(queue') = NodesIn(queue)
      /\ strategy \in {"DfsBfs", "CheapestChildDepthFirst"} =>
           \E c : Vector(c) /\ NodesIn(c) = {} /\ queue' = queue \o c
  <2> DEFINE none == {}
  <2>1. /\ none \in SUBSET Node /\ NodesIn(queue) \cap none = {}
        /\ \A n \in none : lb'[n] \in Nat /\ obj'[n] \in Nat
        /\ IsFiniteSet(none) /\ queue' \in AfterBranch(queue, none, lb', obj')
    BY <1>1, <1>3
  <2>2. NodesIn(queue) \cup none = NodesIn(queue) /\ none = {}
    OBVIOUS
  <2> HIDE DEF none
  <2>3. /\ Vector(queue') /\ NodesIn(queue') = NodesIn(queue) \cup none
        /\ strategy \in {"DfsBfs", "CheapestChildDepthFirst"} =>
             \E c : Vector(c) /\ NodesIn(c) = none /\ queue' = queue \o c
    BY <1>2, <2>1, AfterBranchFacts
  <2> QED BY <2>2, <2>3
<1>5. ASSUME Dives' PROVE Dives /\ queue' = queue
  <2>1. Dives
    BY <1>5, DivesOnlyBefore DEF QInv
  <2>2. PICK c : Vector(c) /\ NodesIn(c) = {} /\ queue' = queue \o c
    BY <1>4, <2>1 DEF Dives
  <2>3. Len(c) = 0
    BY <1>3, <2>2, VectorSize
  <2> QED BY <1>2, <2>1, <2>2, <2>3 DEF Vector
<1>6. Dives' => DiveOrder'
  <2>1. Len(queue) \in 0 .. Len(queue)
    BY <1>2
  <2> QED BY <1>1, <1>2, <1>5, <2>1, PrefixDives DEF QInv, QueueRight, InVisit
<1>7. \A n \in open : pruned[n] => pruned'[n]
  BY DEF QInv, Typed, TypeOK, Advances
<1> QED BY <1>1, <1>2, <1>4, <1>6, <1>7 DEF QueueRight

LEMMA OtherQueue ==
  ASSUME QInv, QOther, Advances, strategy' = strategy
  PROVE  QueueRight'
<1>1. open' = open /\ path' = path /\ queue' = queue
  BY DEF QOther, Setup, AddUpperBound, AddLowerBound, StartOptimize, Callback,
     CallbackAddLowerBound, CallbackAddSolution, CallbackAddSite, CallbackPrune,
     AddLazyConstraints, StopAtGap, StopAtTimeout, Continue, EnterDone, LeaveDone, Returned,
     treeVars, vars
<1>2. InVisit' => InVisit /\ cur' = cur
  BY DEF QOther, Setup, AddUpperBound, AddLowerBound, StartOptimize, Callback,
     CallbackAddLowerBound, CallbackAddSolution, CallbackAddSite, CallbackPrune, InCallback,
     AddLazyConstraints, StopAtGap, StopAtTimeout, Continue, EnterDone, LeaveDone, Returned,
     treeVars, vars, InVisit
<1> QED BY <1>1, <1>2, SameQueue

----------------------------------------------------------------------------
(* The theorems *)

\* Each step with its vector is a step of the loop of BranchAndBound.
LEMMA QueueStepIsStep ==
  ASSUME QInv, [QNext]_searchVars
  PROVE  [Next]_vars
<1>1. CASE QVisitPruned \/ QVisitNode
  <2> DEFINE q == HasNextDrops(queue)
  <2>1. q # <<>> /\ (VisitPruned(Last(q).node) \/ VisitNode(Last(q).node))
    BY <1>1 DEF QVisitPruned, QVisitNode
  <2>2. Last(q).node \in open
    BY <2>1, NextTaken DEF QInv
  <2>3. Last(q).node \in Node
    BY <2>2, NodeFacts DEF QInv, Typed, TypeOK
  <2> QED BY <2>1, <2>3 DEF Next, Loop
<1>2. CASE QExhausted
  BY <1>2 DEF QExhausted, Next, Loop
<1>3. CASE QProcessFeasible \/ QPruneBeforeBranch \/ QBranch \/ QBranchEmpty
  BY <1>3 DEF QProcessFeasible, QPruneBeforeBranch, QBranch, QBranchEmpty, Next, Explore
<1>4. CASE QOther
  BY <1>4 DEF QOther, Next, Explore, Loop
<1>5. CASE UNCHANGED searchVars
  BY <1>5 DEF searchVars
<1> QED BY <1>1, <1>2, <1>3, <1>4, <1>5 DEF QNext

LEMMA InitQueue == QInit => QInv
  BY InitTyped, InitEventsAwait, InitQueueRight DEF QInit, QInv

LEMMA StepQueue == ASSUME QInv, [QNext]_searchVars PROVE QInv'
<1>1. [Next]_vars
  BY QueueStepIsStep
<1>2. Typed'
  BY <1>1, SetupTyped, CallbackTyped, ExploreTyped, LoopTyped, StutterTyped
     DEF QInv, Next, Returned
<1>3. EventsAwaitIncumbent' /\ Advances
  BY <1>1, StepAwaits, StepAdvances DEF QInv
<1>4. strategy' = strategy
  BY DEF QNext, searchVars
<1>5. QueueRight'
  <2>1. CASE UNCHANGED searchVars
    BY <1>3, <2>1, SameQueue DEF searchVars, vars, InVisit
  <2>2. CASE QNext
    BY <1>2, <1>3, <1>4, <2>2, VisitPrunedQueue, VisitNodeQueue, ExhaustedQueue,
       FeasibleQueue, PruneQueue, BranchQueue, BranchEmptyQueue, OtherQueue DEF QNext
  <2> QED BY <2>1, <2>2
<1> QED BY <1>2, <1>3, <1>5 DEF QInv

LEMMA QueueIsRight == QSpec => []QInv
  BY InitQueue, StepQueue, PTL DEF QSpec

\* Whatever the strategy, its vector holds each node that waits exactly once,
\* apart from pruned ones that it may have dropped: no sort, no tolerance of a
\* comparator, no order of events loses a node or returns one twice
\* (search_strategy.h).
THEOREM QueueMatchesOpen == QSpec => []QueueHoldsOpen
<1>1. QInv => QueueHoldsOpen
  BY VectorSize DEF QInv, QueueRight, QueueHoldsOpen
<1> QED BY <1>1, QueueIsRight, PTL

\* CheapestChildDepthFirst always, and DfsBfs until there is an incumbent,
\* finish a subtree before they return a node outside of it: pruning at the
\* bounds never makes DfsBfs sort before there is an incumbent
\* (search_strategy.h).
THEOREM DepthFirstDives == QSpec => []DivesDepthFirst
<1>1. QInv => DivesDepthFirst
  BY DEF QInv, QueueRight, Vector, DiveOrder, Above, DivesDepthFirst
<1> QED BY <1>1, QueueIsRight, PTL

\* The search with the vector of any strategy is a search of BranchAndBound.
THEOREM QueuesImplementSearch == QSpec => Spec
<1>1. QInit => Init
  BY DEF QInit
<1> QED BY <1>1, QueueIsRight, QueueStepIsStep, PTL DEF QSpec, Spec

\* Hence no strategy loses the optimum or returns bounds that do not bracket
\* it, and when its vector runs empty the bounds it returns are close.
THEOREM StrategiesKeepOptimum ==
  QSpec => [](BoundsBracketOptimum /\ OptimumNeverLost /\ ReturnedBoundsClose)
BY QueuesImplementSearch, BoundsBracket, OptimumIsNotLost, ReturnedBoundsAreClose, PTL
=============================================================================
