--------------------------- MODULE NodeTreeProofs ---------------------------
(***************************************************************************)
(* The nested calls between a node, its parent and its children end, keep  *)
(* every parent's bound the least of its children's, and compute the       *)
(* closed form of NodeBounds, on every tree.                               *)
(***************************************************************************)
EXTENDS NodeTree, Recursion

LEMMA BoundFacts ==
  /\ Bound \subseteq 0 .. Inf /\ Bound \subseteq Nat /\ Inf \in Bound
  /\ \A b \in Bound : b <= Inf
BY NodeTreeAssumption DEF Bound

LEMMA NodesAreNat == Node \subseteq Nat \ {0} /\ Root \in Node /\ 0 \notin Node
BY NodeTreeAssumption DEF Node, Root

\* parents and children belong together, and children come after their parent.
Tree(par, kids) ==
  /\ par \in [Node -> Nat] /\ kids \in [Node -> Seq(Node)]
  /\ \A n \in Node : par[n] < n
  /\ \A n \in Node : \A i \in 1 .. Len(kids[n]) : par[kids[n][i]] = n
  /\ \A c \in Node : par[c] # 0 => \E i \in 1 .. Len(kids[par[c]]) : kids[par[c]][i] = c
  /\ \A n \in Node : \A i, j \in 1 .. Len(kids[n]) : kids[n][i] = kids[n][j] => i = j

\* Bounds that are nowhere smaller than those of f.
Grown(f) == {g \in [Node -> Bound] : \A m \in Node : f[m] <= g[m]}

LEMMA GrownFacts ==
  ASSUME NEW f \in [Node -> Bound]
  PROVE  /\ f \in Grown(f)
         /\ \A g \in Grown(f) : g \in [Node -> Bound] /\ Grown(g) \subseteq Grown(f)
<1>1. f \in Grown(f)
  <2>1. \A m \in Node : f[m] \in Nat
    BY BoundFacts
  <2> QED BY <2>1 DEF Grown
<1>2. ASSUME NEW g \in Grown(f), NEW h \in Grown(g) PROVE h \in Grown(f)
  <2>1. ASSUME NEW m \in Node PROVE f[m] <= h[m]
    <3>1. f[m] \in Nat /\ g[m] \in Nat /\ h[m] \in Nat /\ f[m] <= g[m] /\ g[m] <= h[m]
      BY BoundFacts DEF Grown
    <3> QED BY <3>1
  <2> QED BY <2>1 DEF Grown
<1> QED BY <1>1, <1>2 DEF Grown

LEMMA RaisedHere ==
  ASSUME NEW f \in [Node -> Bound], NEW n \in Node, NEW l \in Bound, f[n] < l
  PROVE  [f EXCEPT ![n] = l] \in Grown(f)
<1> DEFINE g == [f EXCEPT ![n] = l]
<1>1. ASSUME NEW m \in Node PROVE f[m] <= g[m]
  <2>1. f[m] \in Nat /\ l \in Nat
    BY BoundFacts
  <2> QED BY <2>1
<1>2. g \in [Node -> Bound]
  OBVIOUS
<1> QED BY <1>1, <1>2 DEF Grown

----------------------------------------------------------------------------
(* The recursions end *)

\* The steps by which the bounds of f can still rise.
Gaps(f) == {p \in Node \X (0 .. Inf) : f[p[1]] < p[2]}
Rank == [c \in Calls |-> Cardinality(Gaps(c[1]))]
MaxRank == Cardinality(Node \X (0 .. Inf))

LEMMA GapsFinite ==
  /\ MaxRank \in Nat
  /\ \A f : IsFiniteSet(Gaps(f)) /\ Cardinality(Gaps(f)) \in 0 .. MaxRank
<1> DEFINE S == Node \X (0 .. Inf)
<1>1. IsFiniteSet(S)
  <2>1. IsFiniteSet(Node) /\ IsFiniteSet(0 .. Inf)
    BY NodeTreeAssumption, FS_Interval DEF Node
  <2> QED BY <2>1, FS_Product
<1>2. \A f : Gaps(f) \subseteq S
  BY DEF Gaps
<1> HIDE DEF S
<1>3. ASSUME NEW f PROVE IsFiniteSet(Gaps(f)) /\ Cardinality(Gaps(f)) \in 0 .. Cardinality(S)
  <2>1. IsFiniteSet(Gaps(f)) /\ Cardinality(Gaps(f)) <= Cardinality(S)
    BY <1>1, <1>2, FS_Subset
  <2>2. Cardinality(Gaps(f)) \in Nat /\ Cardinality(S) \in Nat
    BY <1>1, <2>1, FS_CardinalityType
  <2> QED BY <2>1, <2>2
<1> QED BY <1>1, <1>3, FS_CardinalityType DEF MaxRank, S

LEMMA RankType == Rank \in [Calls -> 0 .. MaxRank]
BY GapsFinite DEF Rank

\* A call that begins with larger bounds has a lower rank.
LEMMA RankFalls ==
  ASSUME NEW f \in [Node -> Bound], NEW n \in Node, NEW l \in Bound, f[n] < l,
         NEW g \in Grown([f EXCEPT ![n] = l]), NEW p \in Node, NEW q \in Node,
         NEW b \in Bound, NEW c \in Bound
  PROVE  /\ <<g, p, b>> \in Calls /\ <<f, q, c>> \in Calls
         /\ Rank[<<g, p, b>>] < Rank[<<f, q, c>>]
<1> DEFINE here == [f EXCEPT ![n] = l]
<1>1. here \in Grown(f) /\ here \in [Node -> Bound]
  BY RaisedHere DEF Grown
<1>2. g \in Grown(f) /\ g \in [Node -> Bound] /\ g[n] >= l
  <2>1. here[n] = l /\ here[n] <= g[n] /\ l \in Nat /\ g[n] \in Nat
    BY BoundFacts DEF Grown
  <2>2. g \in Grown(here)
    OBVIOUS
  <2> HIDE DEF here
  <2>3. g \in Grown(f) /\ g \in [Node -> Bound]
    BY <1>1, <2>2, GrownFacts
  <2> QED BY <2>1, <2>3
<1>3. Gaps(g) \subseteq Gaps(f)
  <2>1. ASSUME NEW r \in Gaps(g) PROVE f[r[1]] < r[2]
    <3>1. r[1] \in Node /\ r[2] \in Nat /\ g[r[1]] < r[2]
      BY NodeTreeAssumption DEF Gaps
    <3>2. f[r[1]] \in Nat /\ g[r[1]] \in Nat /\ f[r[1]] <= g[r[1]]
      BY <1>2, <3>1, BoundFacts DEF Grown
    <3> QED BY <3>1, <3>2
  <2> QED BY <2>1 DEF Gaps
<1>4. <<n, l>> \in Gaps(f) /\ <<n, l>> \notin Gaps(g)
  <2>1. l \in 0 .. Inf /\ l \in Nat /\ g[n] \in Nat
    BY <1>2, BoundFacts
  <2> QED BY <1>2, <2>1 DEF Gaps
<1>5. Cardinality(Gaps(g)) < Cardinality(Gaps(f))
  <2>1. IsFiniteSet(Gaps(f)) /\ Gaps(g) # Gaps(f)
    BY <1>4, GapsFinite
  <2>2. /\ Cardinality(Gaps(f)) \in Nat /\ Cardinality(Gaps(g)) \in Nat
        /\ Cardinality(Gaps(g)) <= Cardinality(Gaps(f))
        /\ Cardinality(Gaps(g)) # Cardinality(Gaps(f))
    BY <1>3, <2>1, FS_Subset, FS_CardinalityType
  <2> QED BY <2>2
<1>6. <<g, p, b>> \in Calls /\ <<f, q, c>> \in Calls
  BY <1>2 DEF Calls
<1> QED BY <1>5, <1>6 DEF Rank

\* Telling a child leaves bounds of S in S; and telling the children goes from
\* one set of bounds to the next.
StaysIn(S, add, kids, n, l) ==
  \A g \in S : \A i \in 1 .. Len(kids[n]) : add[<<g, kids[n][i], l>>] \in S
OneByOne(told, S, add, kids, f, n, l) ==
  /\ told \in [0 .. Len(kids[n]) -> S]
  /\ told[0] = f
  /\ \A i \in 1 .. Len(kids[n]) : told[i] = add[<<told[i - 1], kids[n][i], l>>]
  /\ ToldChildren(add, kids, f, n, l) = told[Len(kids[n])]

LEMMA ToldExists ==
  ASSUME NEW add, NEW kids, NEW S, NEW f \in S, NEW n \in Node, NEW l,
         kids[n] \in Seq(Node), StaysIn(S, add, kids, n, l)
  PROVE  \E told : OneByOne(told, S, add, kids, f, n, l)
<1> DEFINE k == Len(kids[n])
           F == [i \in 1 .. k |-> [g \in S |-> add[<<g, kids[n][i], l>>]]]
           Unfold(t) == [i \in 0 .. k |-> IF i = 0 THEN f ELSE add[<<t[i - 1], kids[n][i], l>>]]
           told == CHOOSE t : t = Unfold(t)
<1>1. k \in Nat
  OBVIOUS
<1>2. F \in [1 .. k -> [S -> S]]
  BY DEF StaysIn
<1>3. PICK t \in [0 .. k -> S] : Iterates(t, k, f, F)
  <2> HIDE DEF F, k
  <2> QED BY <1>1, <1>2, RecursionExists
<1> HIDE DEF k
<1>4. t = Unfold(t)
  <2>1. t[0] = f /\ \A i \in 1 .. k : t[i] = F[i][t[i - 1]]
    BY <1>3 DEF Iterates
  <2>2. ASSUME NEW i \in 0 .. k PROVE t[i] = Unfold(t)[i]
    <3>1. CASE i = 0
      BY <2>1, <3>1
    <3>2. CASE i # 0
      <4>1. i \in 1 .. k /\ t[i - 1] \in S
        BY <1>1, <3>2
      <4> QED BY <2>1, <3>2, <4>1
    <3> QED BY <3>1, <3>2
  <2>3. Unfold(t) = [i \in 0 .. k |-> Unfold(t)[i]] /\ t = [i \in 0 .. k |-> t[i]]
    OBVIOUS
  <2> HIDE DEF Unfold, F
  <2> QED BY <2>2, <2>3
<1>5. told = Unfold(told)
  <2>1. \E u : u = Unfold(u)
    <3> HIDE DEF Unfold
    <3> QED BY <1>4
  <2> HIDE DEF Unfold
  <2> QED BY <2>1
<1>6. ToldChildren(add, kids, f, n, l) = told[k]
  BY DEF ToldChildren, k
<1> HIDE DEF told, F
<1>7. 0 \in 0 .. k /\ k \in 0 .. k /\ \A i \in 1 .. k : i # 0 /\ i \in 0 .. k /\ i - 1 \in 0 .. k
  BY <1>1
<1>8. told[0] = f /\ \A i \in 1 .. k : told[i] = add[<<told[i - 1], kids[n][i], l>>]
  BY <1>5, <1>7
<1> DEFINE P == {i \in 0 .. k : told[i] \in S}
<1>9. 0 .. k \subseteq P
  <2>1. 0 \in P
    BY <1>7, <1>8
  <2>2. ASSUME NEW i \in 1 .. k, i - 1 \in P PROVE i \in P
    BY <1>7, <1>8, <2>2 DEF k, StaysIn
  <2> HIDE DEF P
  <2> QED BY <1>1, <2>1, <2>2, IntervalInduction
<1>10. told \in [0 .. k -> S]
  <2>1. told = [i \in 0 .. k |-> told[i]]
    BY <1>5
  <2>2. \A i \in 0 .. k : told[i] \in S
    BY <1>9
  <2> QED BY <2>1, <2>2
<1> QED BY <1>6, <1>8, <1>10 DEF k, OneByOne, told

LEMMA TreeFacts ==
  ASSUME NEW par, NEW kids, Tree(par, kids), NEW n \in Node
  PROVE  /\ kids[n] \in Seq(Node) /\ Len(kids[n]) \in Nat
         /\ \A i \in 1 .. Len(kids[n]) :
              /\ kids[n][i] \in Node /\ par[kids[n][i]] = n /\ n < kids[n][i] /\ n # kids[n][i]
         /\ par[n] # 0 => par[n] \in Node /\ par[n] < n /\ par[n] # n
         /\ kids[n] # <<>> => Len(kids[n]) # 0
<1>1. kids[n] \in Seq(Node) /\ par \in [Node -> Nat] /\ par[n] \in Nat /\ par[n] < n
  BY DEF Tree
<1>2. ASSUME NEW i \in 1 .. Len(kids[n])
      PROVE  kids[n][i] \in Node /\ par[kids[n][i]] = n /\ n < kids[n][i] /\ n # kids[n][i]
  <2>1. kids[n][i] \in Node /\ par[kids[n][i]] = n
    BY <1>1 DEF Tree
  <2>2. par[kids[n][i]] < kids[n][i]
    BY <2>1 DEF Tree
  <2>3. n \in Nat /\ kids[n][i] \in Nat
    BY <2>1, NodesAreNat
  <2> QED BY <2>1, <2>2, <2>3
<1>3. par[n] # 0 => par[n] \in Node /\ par[n] # n
  BY <1>1, NodeTreeAssumption DEF Node
<1> QED BY <1>1, <1>2, <1>3

\* The bound that reevaluate_children computes.
LeastOfKids(kids, f, n) == Min({f[c] : c \in ToSet(kids[n])})

LEMMA LeastFacts ==
  ASSUME NEW par, NEW kids, Tree(par, kids), NEW n \in Node, kids[n] # <<>>,
         NEW f \in [Node -> Bound]
  PROVE  /\ LeastOfKids(kids, f, n) \in Bound
         /\ \A i \in 1 .. Len(kids[n]) : LeastOfKids(kids, f, n) <= f[kids[n][i]]
         /\ \E i \in 1 .. Len(kids[n]) : LeastOfKids(kids, f, n) = f[kids[n][i]]
<1> DEFINE S == {f[c] : c \in ToSet(kids[n])}
<1>1. /\ kids[n] \in Seq(Node) /\ Len(kids[n]) \in Nat \ {0}
      /\ \A i \in 1 .. Len(kids[n]) : kids[n][i] \in Node
  BY TreeFacts
<1>2. S = {f[kids[n][i]] : i \in 1 .. Len(kids[n])}
  BY <1>1 DEF ToSet
<1>3. S \subseteq Bound /\ S \subseteq Nat /\ S # {}
  <2>1. 1 \in 1 .. Len(kids[n])
    BY <1>1
  <2> QED BY <1>1, <1>2, <2>1, BoundFacts
<1> HIDE DEF S
<1>4. Min(S) \in S /\ \A x \in S : Min(S) <= x
  BY <1>3, MinIsLeast
<1> QED BY <1>2, <1>3, <1>4 DEF LeastOfKids, S

\* Two functions that agree on the calls from larger bounds, and only let bounds
\* grow there, agree on a call, and let bounds grow.
AgreeAbove(A, B, f, n, l) ==
  f[n] < l =>
    \A g \in Grown([f EXCEPT ![n] = l]) : \A p \in Node, b \in Bound :
      A[<<g, p, b>>] = B[<<g, p, b>>] /\ A[<<g, p, b>>] \in Grown(g)

LEMMA BodySettles ==
  ASSUME NEW par, NEW kids, Tree(par, kids), NEW f \in [Node -> Bound], NEW n \in Node,
         NEW l \in Bound, NEW A, NEW B, AgreeAbove(A, B, f, n, l)
  PROVE  /\ BoundAdded(A, par, kids, f, n, l) = BoundAdded(B, par, kids, f, n, l)
         /\ BoundAdded(A, par, kids, f, n, l) \in Grown(f)
<1>0. f[n] \in Nat /\ l \in Nat /\ f \in Grown(f)
  BY BoundFacts, GrownFacts
<1>1. CASE f[n] >= l
  BY <1>0, <1>1 DEF BoundAdded
<1>2. CASE ~ (f[n] >= l)
  <2> DEFINE here == [f EXCEPT ![n] = l]
             q == par[n]
             up == q # 0 /\ here[q] < l
             aboveA == IF up THEN Reevaluated(A, kids, here, q) ELSE here
             aboveB == IF up THEN Reevaluated(B, kids, here, q) ELSE here
  <2>1. f[n] < l
    BY <1>0, <1>2
  <2>2. here \in Grown(f) /\ here \in [Node -> Bound]
    BY <2>1, RaisedHere DEF Grown
  <2>3. \A g \in Grown(here) : \A p \in Node, b \in Bound :
          A[<<g, p, b>>] = B[<<g, p, b>>] /\ A[<<g, p, b>>] \in Grown(g)
    BY <2>1 DEF AgreeAbove
  <2>4. /\ BoundAdded(A, par, kids, f, n, l) = ToldChildren(A, kids, aboveA, n, l)
        /\ BoundAdded(B, par, kids, f, n, l) = ToldChildren(B, kids, aboveB, n, l)
    BY <1>2 DEF BoundAdded
  <2> HIDE DEF here
  <2>5. /\ here \in Grown(here)
        /\ \A g \in Grown(here) : g \in [Node -> Bound] /\ Grown(g) \subseteq Grown(here)
        /\ Grown(here) \subseteq Grown(f)
    BY <2>2, GrownFacts
  <2>6. aboveA = aboveB /\ aboveA \in Grown(here)
    <3>1. CASE up /\ kids[q] # <<>>
      <4>1. q \in Node
        BY <3>1, TreeFacts
      <4>2. LeastOfKids(kids, here, q) \in Bound
        BY <2>2, <3>1, <4>1, LeastFacts
      <4>3. /\ aboveA = A[<<here, q, LeastOfKids(kids, here, q)>>]
            /\ aboveB = B[<<here, q, LeastOfKids(kids, here, q)>>]
        BY <3>1 DEF Reevaluated, LeastOfKids
      <4> QED BY <2>3, <2>5, <4>1, <4>2, <4>3
    <3>2. CASE ~ (up /\ kids[q] # <<>>)
      <4>1. aboveA = here /\ aboveB = here
        BY <3>2 DEF Reevaluated
      <4> QED BY <2>5, <4>1
    <3> QED BY <3>1, <3>2
  <2> HIDE DEF up, q, aboveA, aboveB
  <2> DEFINE S == Grown(here)
             k == Len(kids[n])
  <2>7. kids[n] \in Seq(Node) /\ k \in Nat /\ \A i \in 1 .. k : kids[n][i] \in Node
    BY TreeFacts
  <2>8. \A g \in S : \A i \in 1 .. k :
          /\ A[<<g, kids[n][i], l>>] = B[<<g, kids[n][i], l>>]
          /\ A[<<g, kids[n][i], l>>] \in S
    BY <2>3, <2>5, <2>7
  <2>13. aboveA \in S /\ aboveB \in S
    BY <2>6
  <2> HIDE DEF S
  <2>14. StaysIn(S, A, kids, n, l) /\ StaysIn(S, B, kids, n, l)
    BY <2>8 DEF StaysIn
  <2>15. (\E told : OneByOne(told, S, A, kids, aboveA, n, l))
         /\ \E told : OneByOne(told, S, B, kids, aboveB, n, l)
    BY <2>7, <2>13, <2>14, ToldExists
  <2>9. PICK toldA : OneByOne(toldA, S, A, kids, aboveA, n, l)
    BY <2>15
  <2>10. PICK toldB : OneByOne(toldB, S, B, kids, aboveB, n, l)
    BY <2>15
  <2>16. /\ toldA \in [0 .. k -> S] /\ toldA[0] = aboveA
         /\ \A i \in 1 .. k : toldA[i] = A[<<toldA[i - 1], kids[n][i], l>>]
         /\ ToldChildren(A, kids, aboveA, n, l) = toldA[k]
    BY <2>9 DEF OneByOne
  <2>17. /\ toldB \in [0 .. k -> S] /\ toldB[0] = aboveB
         /\ \A i \in 1 .. k : toldB[i] = B[<<toldB[i - 1], kids[n][i], l>>]
         /\ ToldChildren(B, kids, aboveB, n, l) = toldB[k]
    BY <2>10 DEF OneByOne
  <2> DEFINE P == {i \in 0 .. k : toldA[i] = toldB[i]}
  <2>11. 0 .. k \subseteq P
    <3>1. 0 \in P
      BY <2>6, <2>7, <2>16, <2>17
    <3>2. ASSUME NEW i \in 1 .. k, i - 1 \in P PROVE i \in P
      <4>1. i \in 0 .. k /\ i - 1 \in 0 .. k
        BY <2>7
      <4>2. toldA[i - 1] = toldB[i - 1] /\ toldA[i - 1] \in S
        BY <2>16, <3>2, <4>1
      <4>3. A[<<toldA[i - 1], kids[n][i], l>>] = B[<<toldA[i - 1], kids[n][i], l>>]
        BY <2>8, <4>2
      <4>4. toldA[i] = A[<<toldA[i - 1], kids[n][i], l>>]
        BY <2>16
      <4>5. toldB[i] = B[<<toldB[i - 1], kids[n][i], l>>]
        BY <2>17
      <4> QED BY <4>1, <4>2, <4>3, <4>4, <4>5
    <3> HIDE DEF P
    <3> QED BY <2>7, <3>1, <3>2, IntervalInduction
  <2>12. k \in 0 .. k /\ toldA[k] = toldB[k] /\ toldA[k] \in S
    BY <2>7, <2>16, <2>11
  <2> QED BY <2>4, <2>5, <2>16, <2>17, <2>12 DEF S
<1> QED BY <1>1, <1>2

\* So add_lower_bound is the function its recursion defines, and bounds only grow.
LEMMA AddingFacts ==
  ASSUME NEW par, NEW kids, Tree(par, kids)
  PROVE  \A f \in [Node -> Bound] : \A n \in Node, l \in Bound :
           /\ Adding(par, kids)[<<f, n, l>>] =
                BoundAdded(Adding(par, kids), par, kids, f, n, l)
           /\ Adding(par, kids)[<<f, n, l>>] \in Grown(f)
<1> DEFINE R == [Node -> Bound]
           G == {A \in [Calls -> R] : \A c \in Calls : A[c] \in Grown(c[1])}
           Unfold(A) == [c \in Calls |-> BoundAdded(A, par, kids, c[1], c[2], c[3])]
           F == [A \in G |-> Unfold(A)]
           b == [c \in Calls |-> c[1]]
           add == Adding(par, kids)
<1>1. ASSUME NEW c \in Calls
      PROVE  c = <<c[1], c[2], c[3]>> /\ c[1] \in R /\ c[2] \in Node /\ c[3] \in Bound
  BY DEF Calls
<1>2. ASSUME NEW A, NEW B, NEW c \in Calls,
             \A d \in Calls : Rank[d] < Rank[c] => A[d] = B[d] /\ A[d] \in Grown(d[1])
      PROVE  Unfold(A)[c] = Unfold(B)[c] /\ Unfold(A)[c] \in Grown(c[1])
  <2> DEFINE f == c[1]
             n == c[2]
             l == c[3]
  <2>1. c = <<f, n, l>> /\ f \in R /\ n \in Node /\ l \in Bound
    BY <1>1
  <2>2. Unfold(A)[c] = BoundAdded(A, par, kids, f, n, l) /\ Unfold(B)[c] = BoundAdded(B, par, kids, f, n, l)
    OBVIOUS
  <2> HIDE DEF f, n, l, Unfold
  <2>3. ASSUME f[n] < l, NEW g \in Grown([f EXCEPT ![n] = l]), NEW p \in Node, NEW e \in Bound
        PROVE  A[<<g, p, e>>] = B[<<g, p, e>>] /\ A[<<g, p, e>>] \in Grown(g)
    <3>1. <<g, p, e>> \in Calls /\ Rank[<<g, p, e>>] < Rank[<<f, n, l>>]
      BY <2>1, <2>3, RankFalls
    <3>2. <<g, p, e>>[1] = g
      OBVIOUS
    <3> QED BY <1>2, <2>1, <3>1, <3>2
  <2>4. /\ BoundAdded(A, par, kids, f, n, l) = BoundAdded(B, par, kids, f, n, l)
        /\ BoundAdded(A, par, kids, f, n, l) \in Grown(f)
    <3>1. AgreeAbove(A, B, f, n, l)
      BY <2>3 DEF AgreeAbove
    <3> QED BY <2>1, <3>1, BodySettles
  <2> QED BY <2>2, <2>4 DEF f
<1>3. \A A \in G : \A c \in Calls : A[c] \in Grown(c[1])
  OBVIOUS
<1>4. ASSUME NEW A \in G PROVE Unfold(A) \in G
  <2>1. ASSUME NEW c \in Calls PROVE Unfold(A)[c] \in Grown(c[1])
    <3> HIDE DEF G, Unfold
    <3> QED BY <1>2, <1>3
  <2>2. ASSUME NEW c \in Calls PROVE Unfold(A)[c] \in R
    <3> HIDE DEF Unfold
    <3> QED BY <2>1 DEF Grown
  <2>3. Unfold(A) = [c \in Calls |-> Unfold(A)[c]]
    OBVIOUS
  <2> HIDE DEF Unfold
  <2>4. Unfold(A) \in [Calls -> R]
    BY <2>2, <2>3
  <2> QED BY <2>1, <2>4
<1>5. b \in G
  <2>1. \A c \in Calls : c[1] \in R /\ c[1] \in Grown(c[1])
    BY <1>1, GrownFacts
  <2> QED BY <2>1
<1>6. G \in SUBSET [Calls -> R] /\ F \in [G -> G]
  <2>1. G \in SUBSET [Calls -> R]
    OBVIOUS
  <2> HIDE DEF G, Unfold
  <2> QED BY <1>4, <2>1
<1>7. LooksDown(F, G, b, Calls, R, Rank, MaxRank)
  <2> HIDE DEF G, Unfold
  <2> SUFFICES ASSUME NEW A \in G, NEW B \in G, NEW c \in Calls,
                      \A d \in Calls : Rank[d] < Rank[c] => A[d] = B[d]
               PROVE  F[A][c] = F[B][c]
    BY <1>5, <1>6, GapsFinite, RankType DEF LooksDown
  <2>1. \A d \in Calls : Rank[d] < Rank[c] => A[d] = B[d] /\ A[d] \in Grown(d[1])
    BY <1>3
  <2>2. Unfold(A)[c] = Unfold(B)[c]
    BY <1>2, <2>1
  <2> QED BY <2>2
<1>8. \E A \in G : A = F[A]
  <2> HIDE DEF G, F, b
  <2> QED BY <1>7, RankedRecursion
<1>9. add = Unfold(add)
  <2>1. \E A : A = Unfold(A)
    <3> HIDE DEF Unfold, G
    <3> QED BY <1>8
  <2>2. add = CHOOSE A : A = Unfold(A)
    BY DEF Adding
  <2> HIDE DEF add, Unfold
  <2> QED BY <2>1, <2>2
<1> HIDE DEF add
<1> DEFINE P == {k \in 0 .. MaxRank + 1 : \A c \in Calls : Rank[c] < k => add[c] \in Grown(c[1])}
<1>10. MaxRank \in Nat /\ MaxRank + 1 \in Nat /\ \A c \in Calls : Rank[c] \in 0 .. MaxRank
  BY GapsFinite, RankType
<1>11. 0 .. MaxRank + 1 \subseteq P
  <2>1. 0 \in P
    BY <1>10
  <2>2. ASSUME NEW k \in 1 .. MaxRank + 1, k - 1 \in P PROVE k \in P
    <3>1. ASSUME NEW c \in Calls, Rank[c] < k PROVE add[c] \in Grown(c[1])
      <4>1. \A d \in Calls : Rank[d] < Rank[c] => add[d] \in Grown(d[1])
        <5>1. ASSUME NEW d \in Calls, Rank[d] < Rank[c] PROVE Rank[d] < k - 1
          BY <1>10, <3>1, <5>1
        <5> QED BY <2>2, <5>1
      <4> HIDE DEF Unfold
      <4>2. Unfold(add)[c] \in Grown(c[1])
        BY <1>2, <4>1
      <4> QED BY <1>9, <4>2
    <3> QED BY <1>10, <3>1
  <2> HIDE DEF P
  <2> QED BY <1>10, <2>1, <2>2, IntervalInduction
<1>12. ASSUME NEW c \in Calls PROVE add[c] \in Grown(c[1])
  <2>1. MaxRank + 1 \in P /\ Rank[c] < MaxRank + 1
    BY <1>10, <1>11
  <2> QED BY <2>1
<1> SUFFICES ASSUME NEW f \in [Node -> Bound], NEW n \in Node, NEW l \in Bound
             PROVE  /\ add[<<f, n, l>>] = BoundAdded(add, par, kids, f, n, l)
                    /\ add[<<f, n, l>>] \in Grown(f)
  BY DEF add
<1>13. <<f, n, l>> \in Calls
  BY DEF Calls
<1>14. add[<<f, n, l>>] = BoundAdded(add, par, kids, f, n, l)
  <2>1. Unfold(add)[<<f, n, l>>] = BoundAdded(add, par, kids, f, n, l)
    BY <1>13
  <2> HIDE DEF Unfold
  <2> QED BY <1>9, <2>1
<1> QED BY <1>12, <1>13, <1>14

----------------------------------------------------------------------------
(* Ancestors *)

\* Induction from the root down, and from the leaves up.
LEMMA FromRootDown ==
  ASSUME NEW Q, \A n \in Node : (\A m \in Node : m < n => m \in Q) => n \in Q
  PROVE  Node \subseteq Q
<1> DEFINE bad == {n \in Node : n \notin Q}
<1> SUFFICES ASSUME bad # {} PROVE FALSE
  OBVIOUS
<1>1. bad \in SUBSET Nat
  BY NodesAreNat
<1>2. PICK n \in bad : \A m \in bad : n <= m
  <2> HIDE DEF bad
  <2> QED BY <1>1, LeastElement
<1>3. ASSUME NEW m \in Node, m < n PROVE m \in Q
  <2>1. m \in Nat /\ n \in Nat
    BY NodesAreNat
  <2> QED BY <1>2, <1>3, <2>1
<1> QED BY <1>2, <1>3

LEMMA FromLeavesUp ==
  ASSUME NEW Q, \A n \in Node : (\A m \in Node : n < m => m \in Q) => n \in Q
  PROVE  Node \subseteq Q
<1> DEFINE bad == {n \in Node : n \notin Q}
<1> SUFFICES ASSUME bad # {} PROVE FALSE
  OBVIOUS
<1>1. bad \in SUBSET (0 .. MaxNodes) /\ MaxNodes \in Nat
  BY NodeTreeAssumption DEF Node
<1>2. Max(bad) \in bad /\ \A m \in bad : m <= Max(bad)
  <2> HIDE DEF bad
  <2> QED BY <1>1, MaxIsGreatest
<1> DEFINE n == Max(bad)
<1>3. ASSUME NEW m \in Node, n < m PROVE m \in Q
  <2>1. m \in Nat /\ n \in Nat
    BY <1>2, NodesAreNat
  <2> HIDE DEF n
  <2>2. m \in bad => m <= n
    BY <1>2 DEF n
  <2> QED BY <1>3, <2>1, <2>2
<1> QED BY <1>2, <1>3

\* PathIn is what its recursion says.
LEMMA PathUnfolds ==
  ASSUME NEW par, NEW kids, Tree(par, kids)
  PROVE  \A n \in Node :
           PathIn(par)[n] = IF par[n] = 0 THEN {n} ELSE {n} \cup PathIn(par)[par[n]]
<1> DEFINE R == SUBSET Node
           G == [Node -> R]
           Unfold(A) == [n \in Node |-> IF par[n] = 0 THEN {n} ELSE {n} \cup A[par[n]]]
           F == [A \in G |-> Unfold(A)]
           b == [n \in Node |-> {}]
           rank == [n \in Node |-> n]
           P == PathIn(par)
<1>1. \A n \in Node : par[n] # 0 => par[n] \in Node /\ par[n] < n
  BY TreeFacts
<1>2. LooksDown(F, G, b, Node, R, rank, MaxNodes)
  <2>1. MaxNodes \in Nat /\ rank \in [Node -> 0 .. MaxNodes]
    BY NodeTreeAssumption DEF Node
  <2>2. b \in G /\ G \in SUBSET [Node -> R]
    OBVIOUS
  <2>3. F \in [G -> G]
    BY <1>1
  <2>4. ASSUME NEW A \in G, NEW B \in G, NEW c \in Node,
               \A d \in Node : rank[d] < rank[c] => A[d] = B[d]
        PROVE  F[A][c] = F[B][c]
    <3>1. par[c] # 0 => A[par[c]] = B[par[c]]
      BY <1>1, <2>4
    <3> QED BY <3>1
  <2> HIDE DEF F, G, b, rank, R
  <2> QED BY <2>1, <2>2, <2>3, <2>4 DEF LooksDown
<1>3. \E A \in G : A = F[A]
  <2> HIDE DEF F, G, b, rank, R, Unfold
  <2> QED BY <1>2, RankedRecursion
<1>4. \E A : A = Unfold(A)
  <2> HIDE DEF Unfold, G
  <2> QED BY <1>3
<1>5. P = CHOOSE A : A = Unfold(A)
  BY DEF PathIn
<1>6. P = Unfold(P)
  <2> HIDE DEF Unfold, P
  <2> QED BY <1>4, <1>5
<1>7. \A n \in Node : Unfold(P)[n] = IF par[n] = 0 THEN {n} ELSE {n} \cup P[par[n]]
  <2> HIDE DEF P
  <2> QED OBVIOUS
<1> HIDE DEF Unfold, P
<1>8. \A n \in Node : P[n] = IF par[n] = 0 THEN {n} ELSE {n} \cup P[par[n]]
  BY <1>6, <1>7
<1> QED BY <1>8 DEF P

\* A node and its ancestors: they are nodes and come before it, and the paths of
\* ancestors are parts of its path.
LEMMA PathFacts ==
  ASSUME NEW par, NEW kids, Tree(par, kids), NEW n \in Node
  PROVE  /\ n \in PathIn(par)[n]
         /\ \A a \in PathIn(par)[n] :
              a \in Node /\ a <= n /\ PathIn(par)[a] \subseteq PathIn(par)[n]
<1> DEFINE P == PathIn(par)
           Q == {m \in Node : /\ m \in P[m]
                              /\ \A a \in P[m] : a \in Node /\ a <= m /\ P[a] \subseteq P[m]}
<1>1. ASSUME NEW m \in Node, \A k \in Node : k < m => k \in Q
      PROVE  m \in Q
  <2> DEFINE q == par[m]
  <2>1. P[m] = IF q = 0 THEN {m} ELSE {m} \cup P[q]
    BY PathUnfolds
  <2>2. q # 0 => q \in Node /\ q < m
    BY TreeFacts
  <2> HIDE DEF P, q
  <2>3. m \in Nat
    BY NodesAreNat
  <2>4. CASE q = 0
    BY <2>1, <2>3, <2>4
  <2>5. CASE q # 0
    <3>1. q \in Q /\ q \in Nat /\ q < m
      BY <1>1, <2>2, <2>5, NodesAreNat
    <3>2. ASSUME NEW a \in P[q] PROVE a \in Node /\ a <= m /\ P[a] \subseteq P[m]
      <4>1. a \in Node /\ a <= q /\ P[a] \subseteq P[q] /\ a \in Nat
        BY <3>1, NodesAreNat
      <4> QED BY <2>1, <2>3, <2>5, <3>1, <4>1
    <3> QED BY <2>1, <2>3, <2>5, <3>2
  <2> QED BY <2>4, <2>5
<1> HIDE DEF Q, P
<1>2. Node \subseteq Q
  BY <1>1, FromRootDown
<1>3. n \in Q
  BY <1>2
<1> QED BY <1>3 DEF Q, P

\* The path of a child, and where the path of a node below another one goes.
LEMMA PathSteps ==
  ASSUME NEW par, NEW kids, Tree(par, kids), NEW n \in Node
  PROVE  /\ \A i \in 1 .. Len(kids[n]) :
              /\ PathIn(par)[kids[n][i]] = {kids[n][i]} \cup PathIn(par)[n]
              /\ kids[n][i] \notin PathIn(par)[n]
         /\ par[n] = 0 => PathIn(par)[n] = {n}
         /\ par[n] # 0 => /\ PathIn(par)[n] = {n} \cup PathIn(par)[par[n]]
                          /\ n \notin PathIn(par)[par[n]]
<1>1. ASSUME NEW i \in 1 .. Len(kids[n])
      PROVE  /\ PathIn(par)[kids[n][i]] = {kids[n][i]} \cup PathIn(par)[n]
             /\ kids[n][i] \notin PathIn(par)[n]
  <2>1. kids[n][i] \in Node /\ par[kids[n][i]] = n /\ n < kids[n][i] /\ n # 0
    BY TreeFacts, NodesAreNat
  <2>5. ASSUME NEW c \in Node, par[c] = n PROVE PathIn(par)[c] = {c} \cup PathIn(par)[n]
    <3>1. PathIn(par)[c] = IF par[c] = 0 THEN {c} ELSE {c} \cup PathIn(par)[par[c]]
      BY PathUnfolds
    <3> QED BY <2>1, <2>5, <3>1
  <2>2. PathIn(par)[kids[n][i]] = {kids[n][i]} \cup PathIn(par)[n]
    BY <2>1, <2>5
  <2>3. kids[n][i] \in PathIn(par)[n] => kids[n][i] <= n
    BY PathFacts
  <2>4. n \in Nat /\ kids[n][i] \in Nat
    BY <2>1, NodesAreNat
  <2> QED BY <2>1, <2>2, <2>3, <2>4
<1>2. par[n] = 0 => PathIn(par)[n] = {n}
  BY PathUnfolds
<1>3. ASSUME par[n] # 0
      PROVE  /\ PathIn(par)[n] = {n} \cup PathIn(par)[par[n]]
             /\ n \notin PathIn(par)[par[n]]
  <2>1. par[n] \in Node /\ par[n] < n
    BY <1>3, TreeFacts
  <2>2. n \in PathIn(par)[par[n]] => n <= par[n]
    BY <2>1, PathFacts
  <2>3. n \in Nat /\ par[n] \in Nat
    BY <2>1, NodesAreNat
  <2>4. PathIn(par)[n] = {n} \cup PathIn(par)[par[n]]
    BY <1>3, PathUnfolds
  <2>5. n \notin PathIn(par)[par[n]]
    BY <2>1, <2>2, <2>3
  <2> QED BY <2>4, <2>5
<1> QED BY <1>1, <1>2, <1>3

\* What lies strictly below a node lies below exactly one of its children.
LEMMA BelowOneChild ==
  ASSUME NEW par, NEW kids, Tree(par, kids), NEW n \in Node, NEW m \in Node
  PROVE  /\ n \in PathIn(par)[m] /\ m # n =>
              \E i \in 1 .. Len(kids[n]) : kids[n][i] \in PathIn(par)[m]
         /\ \A i, j \in 1 .. Len(kids[n]) :
              kids[n][i] \in PathIn(par)[m] /\ kids[n][j] \in PathIn(par)[m] => i = j
<1> DEFINE P == PathIn(par)
           C == {kids[n][i] : i \in 1 .. Len(kids[n])}
           Q == {k \in Node :
                   /\ n \in P[k] /\ k # n => \E c \in C : c \in P[k]
                   /\ \A c, d \in C : c \in P[k] /\ d \in P[k] => c = d}
<1>1. ASSUME NEW k \in Node, \A t \in Node : t < k => t \in Q
      PROVE  k \in Q
  <2> DEFINE q == par[k]
  <2>1. q # 0 => q \in Node /\ q < k /\ P[k] = {k} \cup P[q] /\ k \notin P[q]
    BY TreeFacts, PathSteps
  <2>2. q = 0 => P[k] = {k}
    BY PathSteps
  <2>3. q = n => k \in C
    <3>1. n # 0
      BY NodesAreNat
    <3>2. par[k] # 0 => \E i \in 1 .. Len(kids[par[k]]) : kids[par[k]][i] = k
      BY DEF Tree
    <3> QED BY <3>1, <3>2
  <2>4. \A c \in C : c \in Node /\ par[c] = n
    BY TreeFacts
  <2>5. C \cap P[n] = {} /\ n # 0
    BY PathSteps, NodesAreNat
  <2> HIDE DEF P, C
  <2>6. CASE q = 0
    BY <2>2, <2>6
  <2>7. CASE q # 0
    <3>1. q \in Q
      BY <1>1, <2>1, <2>7
    <3>2. n \in P[k] /\ k # n => \E c \in C : c \in P[k]
      <4>1. CASE q = n
        BY <2>1, <2>3, <2>7, <4>1
      <4>2. CASE q # n
        BY <2>1, <2>7, <3>1, <4>2
      <4> QED BY <4>1, <4>2
    <3>3. ASSUME NEW c \in C, NEW d \in C, c \in P[k], d \in P[k] PROVE c = d
      <4>1. CASE k \notin C
        BY <2>1, <2>7, <3>1, <3>3, <4>1
      <4>2. CASE k \in C
        <5>1. q = n
          BY <2>4, <4>2
        <5>2. c = k /\ d = k
          BY <2>1, <2>5, <2>7, <3>3, <5>1
        <5> QED BY <5>2
      <4> QED BY <4>1, <4>2
    <3> QED BY <3>2, <3>3
  <2> QED BY <2>6, <2>7
<1> HIDE DEF Q
<1>2. Node \subseteq Q
  BY <1>1, FromRootDown
<1>3. m \in Q
  BY <1>2
<1>4. \A i, j \in 1 .. Len(kids[n]) : kids[n][i] = kids[n][j] => i = j
  BY DEF Tree
<1>5. n \in P[m] /\ m # n => \E c \in C : c \in P[m]
  BY <1>3 DEF Q
<1>6. \A c, d \in C : c \in P[m] /\ d \in P[m] => c = d
  BY <1>3 DEF Q
<1> QED BY <1>4, <1>5, <1>6

----------------------------------------------------------------------------
(* Where the calls end *)

\* The bound of every node outside of X that has children is their least bound.
Consistent(kids, f, X) ==
  \A m \in Node : kids[m] # <<>> /\ m \notin X => f[m] = LeastOfKids(kids, f, m)

\* The same for n and everything below it.
ConsistentBelow(par, kids, f, n) ==
  \A m \in Node : kids[m] # <<>> /\ n \in PathIn(par)[m] => f[m] = LeastOfKids(kids, f, m)

\* n and everything below it get a bound of at least l.
RaisedBelow(par, f, n, l) ==
  [m \in Node |-> IF n \in PathIn(par)[m] THEN Greater(f[m], l) ELSE f[m]]

LEMMA SameLeast ==
  ASSUME NEW par, NEW kids, Tree(par, kids), NEW n \in Node, NEW f, NEW g,
         \A i \in 1 .. Len(kids[n]) : f[kids[n][i]] = g[kids[n][i]]
  PROVE  LeastOfKids(kids, f, n) = LeastOfKids(kids, g, n)
<1>1. kids[n] \in Seq(Node)
  BY TreeFacts
<1>2. {f[c] : c \in ToSet(kids[n])} = {g[c] : c \in ToSet(kids[n])}
  BY <1>1 DEF ToSet
<1> QED BY <1>2 DEF LeastOfKids

LEMMA LeastGrows ==
  ASSUME NEW par, NEW kids, Tree(par, kids), NEW n \in Node, kids[n] # <<>>,
         NEW f \in [Node -> Bound], NEW g \in Grown(f)
  PROVE  LeastOfKids(kids, f, n) <= LeastOfKids(kids, g, n)
<1>1. g \in [Node -> Bound] /\ \A m \in Node : f[m] <= g[m]
  BY DEF Grown
<1>2. PICK i \in 1 .. Len(kids[n]) : LeastOfKids(kids, g, n) = g[kids[n][i]]
  BY <1>1, LeastFacts
<1>3. /\ kids[n][i] \in Node
      /\ LeastOfKids(kids, f, n) \in Bound /\ LeastOfKids(kids, f, n) <= f[kids[n][i]]
  BY LeastFacts, TreeFacts
<1>4. LeastOfKids(kids, f, n) \in Nat /\ f[kids[n][i]] \in Nat /\ g[kids[n][i]] \in Nat
      /\ f[kids[n][i]] <= g[kids[n][i]]
  BY <1>1, <1>3, BoundFacts
<1> QED BY <1>2, <1>3, <1>4

\* Bounds rise along a path.
LEMMA RisesBelow ==
  ASSUME NEW par, NEW kids, Tree(par, kids), NEW f \in [Node -> Bound], NEW n \in Node,
         ConsistentBelow(par, kids, f, n)
  PROVE  \A m \in Node : n \in PathIn(par)[m] => f[n] <= f[m]
<1> DEFINE P == PathIn(par)
           Q == {m \in Node : n \in P[m] => f[n] <= f[m]}
<1>1. ASSUME NEW m \in Node, \A k \in Node : k < m => k \in Q, n \in P[m]
      PROVE  f[n] <= f[m]
  <2>1. CASE m = n
    <3>1. f[n] \in Nat
      BY BoundFacts
    <3> QED BY <2>1, <3>1
  <2>2. CASE m # n
    <3> DEFINE q == par[m]
    <3>1. q # 0 /\ q \in Node /\ q < m /\ P[m] = {m} \cup P[q]
      BY <1>1, <2>2, PathSteps, TreeFacts
    <3>2. PICK i \in 1 .. Len(kids[q]) : kids[q][i] = m
      BY <3>1 DEF Tree
    <3> HIDE DEF P, q
    <3>3. q \in Q /\ n \in P[q]
      BY <1>1, <2>2, <3>1
    <3>4. kids[q] # <<>> /\ kids[q] \in Seq(Node)
      BY <3>1, <3>2, TreeFacts
    <3>5. f[q] = LeastOfKids(kids, f, q) /\ LeastOfKids(kids, f, q) <= f[m]
      BY <3>1, <3>2, <3>3, <3>4, LeastFacts DEF ConsistentBelow, P
    <3>6. f[n] <= f[q] /\ f[n] \in Nat /\ f[q] \in Nat /\ f[m] \in Nat
      BY <3>1, <3>3, BoundFacts
    <3> QED BY <3>5, <3>6
  <2> QED BY <2>1, <2>2
<1>2. \A m \in Node : (\A k \in Node : k < m => k \in Q) => m \in Q
  BY <1>1
<1> HIDE DEF Q
<1>3. Node \subseteq Q
  BY <1>2, FromRootDown
<1> QED BY <1>3 DEF Q

\* A call that brings nothing new.
LEMMA NothingNew ==
  ASSUME NEW par, NEW kids, Tree(par, kids), NEW f \in [Node -> Bound], NEW n \in Node,
         NEW l \in Bound, f[n] >= l
  PROVE  Adding(par, kids)[<<f, n, l>>] = f
<1>1. Adding(par, kids)[<<f, n, l>>] = BoundAdded(Adding(par, kids), par, kids, f, n, l)
  BY AddingFacts
<1> QED BY <1>1 DEF BoundAdded

\* Bounds stay bounds while the children are told.
LEMMA AddingStays ==
  ASSUME NEW par, NEW kids, Tree(par, kids), NEW n \in Node, NEW l \in Bound,
         NEW f \in [Node -> Bound]
  PROVE  \E told : OneByOne(told, [Node -> Bound], Adding(par, kids), kids, f, n, l)
<1>1. kids[n] \in Seq(Node) /\ \A i \in 1 .. Len(kids[n]) : kids[n][i] \in Node
  BY TreeFacts
<1>2. StaysIn([Node -> Bound], Adding(par, kids), kids, n, l)
  <2>1. ASSUME NEW g \in [Node -> Bound], NEW i \in 1 .. Len(kids[n])
        PROVE  Adding(par, kids)[<<g, kids[n][i], l>>] \in [Node -> Bound]
    <3>1. Adding(par, kids)[<<g, kids[n][i], l>>] \in Grown(g)
      BY <1>1, AddingFacts
    <3> QED BY <3>1 DEF Grown
  <2> QED BY <2>1 DEF StaysIn
<1> QED BY <1>1, <1>2, ToldExists

\* What a call on a node whose parent has the bound already does: the node and
\* everything below it are raised.
RaisesBelow(par, kids, n) ==
  \A f \in [Node -> Bound], l \in Bound :
    ConsistentBelow(par, kids, f, n) /\ (par[n] # 0 => f[par[n]] >= l) =>
      Adding(par, kids)[<<f, n, l>>] = RaisedBelow(par, f, n, l)

\* A node that has the bound hands it to everything below it.
LEMMA ToldRaises ==
  ASSUME NEW par, NEW kids, Tree(par, kids), NEW n \in Node, NEW f \in [Node -> Bound],
         NEW l \in Bound, f[n] >= l,
         \A i \in 1 .. Len(kids[n]) :
           /\ RaisesBelow(par, kids, kids[n][i])
           /\ ConsistentBelow(par, kids, f, kids[n][i])
  PROVE  ToldChildren(Adding(par, kids), kids, f, n, l) = RaisedBelow(par, f, n, l)
<1> DEFINE P == PathIn(par)
           add == Adding(par, kids)
           k == Len(kids[n])
           H(i) == [m \in Node |->
                      IF \E j \in 1 .. i : kids[n][j] \in P[m] THEN Greater(f[m], l) ELSE f[m]]
<1>1. f[n] \in Nat /\ l \in Nat /\ \A m \in Node : f[m] \in Nat
  BY BoundFacts
<1>2. PICK told : OneByOne(told, [Node -> Bound], add, kids, f, n, l)
  BY AddingStays
<1>3. /\ told[0] = f /\ ToldChildren(add, kids, f, n, l) = told[k]
      /\ \A i \in 1 .. k : told[i] = add[<<told[i - 1], kids[n][i], l>>]
  BY <1>2 DEF OneByOne
<1>4. k \in Nat /\ \A i \in 1 .. k :
        /\ kids[n][i] \in Node /\ par[kids[n][i]] = n
        /\ kids[n][i] \notin P[n] /\ P[kids[n][i]] = {kids[n][i]} \cup P[n]
  BY TreeFacts, PathSteps
<1>5. \A m \in Node : /\ n \in P[m] /\ m # n => \E i \in 1 .. k : kids[n][i] \in P[m]
                      /\ \A i, j \in 1 .. k : kids[n][i] \in P[m] /\ kids[n][j] \in P[m] => i = j
  BY BelowOneChild
<1>6. \A m \in Node : n \in P[n] /\ \A a \in P[m] : a \in Node /\ P[a] \subseteq P[m]
  BY PathFacts
<1> HIDE DEF add, P, k
<1>7. ASSUME NEW i \in 1 .. k PROVE add[<<H(i - 1), kids[n][i], l>>] = H(i)
  <2> DEFINE c == kids[n][i]
             h == H(i - 1)
  <2>1. c \in Node /\ par[c] = n /\ c \notin P[n]
    BY <1>4
  <2>2. h \in [Node -> Bound]
    BY DEF Greater
  <2>3. ASSUME NEW m \in Node, c \in P[m] PROVE h[m] = f[m]
    <3>1. \A j \in 1 .. i - 1 : j \in 1 .. k /\ j # i
      BY <1>4
    <3> QED BY <1>5, <2>3, <3>1
  <2>4. ConsistentBelow(par, kids, h, c)
    <3>1. ASSUME NEW m \in Node, kids[m] # <<>>, c \in P[m]
          PROVE  h[m] = LeastOfKids(kids, h, m)
      <4>1. ASSUME NEW j \in 1 .. Len(kids[m]) PROVE h[kids[m][j]] = f[kids[m][j]]
        <5>1. kids[m][j] \in Node /\ P[kids[m][j]] = {kids[m][j]} \cup P[m]
          BY TreeFacts, PathSteps DEF P
        <5> QED BY <2>3, <3>1, <5>1
      <4> HIDE DEF h
      <4>2. LeastOfKids(kids, h, m) = LeastOfKids(kids, f, m)
        BY <4>1, SameLeast
      <4>3. f[m] = LeastOfKids(kids, f, m)
        BY <3>1 DEF ConsistentBelow, P, k
      <4> QED BY <2>3, <3>1, <4>2, <4>3
    <3> HIDE DEF h, c
    <3> QED BY <3>1 DEF ConsistentBelow, P
  <2>5. h[n] = f[n] /\ h[par[c]] >= l
    <3>1. ~ \E j \in 1 .. i - 1 : kids[n][j] \in P[n]
      BY <1>4
    <3> QED BY <2>1, <3>1
  <2>6. RaisesBelow(par, kids, c)
    BY DEF k
  <2> HIDE DEF c, h
  <2>7. add[<<h, c, l>>] = RaisedBelow(par, h, c, l)
    BY <2>2, <2>4, <2>5, <2>6 DEF RaisesBelow, add
  <2>8. ASSUME NEW m \in Node
        PROVE  (IF c \in P[m] THEN Greater(h[m], l) ELSE h[m]) = H(i)[m]
    <3>1. (\E j \in 1 .. i : kids[n][j] \in P[m]) <=>
             (\E j \in 1 .. i - 1 : kids[n][j] \in P[m]) \/ c \in P[m]
      <4>1. i \in Nat /\ i \in 1 .. i /\ \A j \in 1 .. i : j \in 1 .. i - 1 \/ j = i
        BY <1>4
      <4>2. \A j \in 1 .. i - 1 : j \in 1 .. i
        BY <1>4
      <4> QED BY <4>1, <4>2 DEF c
    <3>2. CASE c \in P[m]
      BY <2>3, <3>1, <3>2
    <3>3. CASE c \notin P[m]
      BY <3>1, <3>3 DEF h
    <3> QED BY <3>2, <3>3
  <2>9. RaisedBelow(par, h, c, l) = H(i)
    BY <2>8 DEF RaisedBelow, P
  <2> QED BY <2>7, <2>9 DEF h, c
<1>8. H(0) = f
  <2>1. \A m \in Node : ~ \E j \in 1 .. 0 : kids[n][j] \in P[m]
    OBVIOUS
  <2>2. H(0) = [m \in Node |-> f[m]]
    BY <2>1
  <2> QED BY <2>2
<1> DEFINE T == {i \in 0 .. k : told[i] = H(i)}
<1>9. told[k] = H(k)
  <2>1. 0 \in T
    BY <1>3, <1>4, <1>8
  <2>2. ASSUME NEW i \in 1 .. k, i - 1 \in T PROVE i \in T
    <3> HIDE DEF H
    <3>1. told[i - 1] = H(i - 1) /\ i \in 0 .. k
      BY <1>4, <2>2
    <3> QED BY <1>3, <1>7, <3>1
  <2> HIDE DEF T
  <2>3. 0 .. k \subseteq T
    BY <1>4, <2>1, <2>2, IntervalInduction
  <2>4. k \in T
    BY <1>4, <2>3
  <2> QED BY <2>4 DEF T
<1>10. ASSUME NEW m \in Node
       PROVE  H(k)[m] = IF n \in P[m] THEN Greater(f[m], l) ELSE f[m]
  <2>1. CASE m = n
    <3>1. ~ \E j \in 1 .. k : kids[n][j] \in P[n]
      BY <1>4
    <3>2. Greater(f[n], l) = f[n]
      BY <1>1 DEF Greater
    <3> QED BY <1>6, <2>1, <3>1, <3>2
  <2>2. CASE m # n /\ n \in P[m]
    BY <1>5, <2>2
  <2>3. CASE n \notin P[m]
    <3>1. ~ \E j \in 1 .. k : kids[n][j] \in P[m]
      BY <1>4, <1>6, <2>3
    <3> QED BY <2>3, <3>1
  <2> QED BY <2>1, <2>2, <2>3
<1>11. H(k) = RaisedBelow(par, f, n, l)
  BY <1>10 DEF RaisedBelow, P
<1> QED BY <1>3, <1>9, <1>11 DEF add

\* Downwards: so does every node.
LEMMA AddDown ==
  ASSUME NEW par, NEW kids, Tree(par, kids)
  PROVE  \A n \in Node : RaisesBelow(par, kids, n)
<1> DEFINE P == PathIn(par)
           add == Adding(par, kids)
           Q == {n \in Node : RaisesBelow(par, kids, n)}
<1>1. ASSUME NEW n \in Node, \A c \in Node : n < c => c \in Q,
             NEW f \in [Node -> Bound], NEW l \in Bound,
             ConsistentBelow(par, kids, f, n), par[n] # 0 => f[par[n]] >= l
      PROVE  add[<<f, n, l>>] = RaisedBelow(par, f, n, l)
  <2> DEFINE here == [f EXCEPT ![n] = l]
  <2>1. f[n] \in Nat /\ l \in Nat /\ \A m \in Node : f[m] \in Nat
    BY BoundFacts
  <2>2. CASE f[n] >= l
    <3>1. add[<<f, n, l>>] = f
      BY <2>2, NothingNew
    <3>2. ASSUME NEW m \in Node, n \in P[m] PROVE Greater(f[m], l) = f[m]
      <4>1. f[n] <= f[m]
        BY <1>1, <3>2, RisesBelow
      <4> QED BY <2>1, <2>2, <4>1 DEF Greater
    <3>3. RaisedBelow(par, f, n, l) = f
      <4>1. \A m \in Node : (IF n \in P[m] THEN Greater(f[m], l) ELSE f[m]) = f[m]
        BY <3>2
      <4>2. RaisedBelow(par, f, n, l) = [m \in Node |-> f[m]]
        BY <4>1 DEF RaisedBelow
      <4> QED BY <4>2
    <3> QED BY <3>1, <3>3
  <2>3. CASE ~ (f[n] >= l)
    <3>1. /\ here \in [Node -> Bound] /\ here[n] = l /\ here[n] >= l
          /\ \A m \in Node : m # n => here[m] = f[m]
      BY <2>1
    <3>2. add[<<f, n, l>>] = ToldChildren(add, kids, here, n, l)
      <4>1. add[<<f, n, l>>] = BoundAdded(add, par, kids, f, n, l)
        BY AddingFacts
      <4>2. par[n] # 0 => here[par[n]] = f[par[n]] /\ f[par[n]] \in Nat
        BY <2>1, <3>1, TreeFacts
      <4>3. ~ (par[n] # 0 /\ here[par[n]] < l)
        BY <1>1, <2>1, <4>2
      <4> HIDE DEF add
      <4> QED BY <2>3, <4>1, <4>3 DEF BoundAdded
    <3> HIDE DEF here
    <3>3. ASSUME NEW i \in 1 .. Len(kids[n])
          PROVE  /\ RaisesBelow(par, kids, kids[n][i])
                 /\ ConsistentBelow(par, kids, here, kids[n][i])
      <4>1. /\ kids[n][i] \in Node /\ n < kids[n][i]
            /\ kids[n][i] \notin P[n] /\ P[kids[n][i]] = {kids[n][i]} \cup P[n] /\ n \in P[n]
        BY TreeFacts, PathSteps, PathFacts
      <4>2. ASSUME NEW m \in Node, kids[m] # <<>>, kids[n][i] \in P[m]
            PROVE  here[m] = LeastOfKids(kids, here, m)
        <5>1. n \in P[m] /\ n # m
          BY <4>1, <4>2, PathFacts
        <5>2. ASSUME NEW j \in 1 .. Len(kids[m]) PROVE here[kids[m][j]] = f[kids[m][j]]
          <6>1. /\ kids[m][j] \in Node
                /\ P[kids[m][j]] = {kids[m][j]} \cup P[m] /\ kids[m][j] \notin P[m]
            BY TreeFacts, PathSteps
          <6> QED BY <3>1, <5>1, <6>1
        <5>3. LeastOfKids(kids, here, m) = LeastOfKids(kids, f, m)
          BY <5>2, SameLeast
        <5>4. f[m] = LeastOfKids(kids, f, m)
          BY <1>1, <4>2, <5>1 DEF ConsistentBelow
        <5> QED BY <3>1, <5>1, <5>3, <5>4
      <4> QED BY <1>1, <4>1, <4>2 DEF ConsistentBelow
    <3>4. add[<<f, n, l>>] = RaisedBelow(par, here, n, l)
      BY <3>1, <3>2, <3>3, ToldRaises
    <3>5. ASSUME NEW m \in Node
          PROVE  (IF n \in P[m] THEN Greater(here[m], l) ELSE here[m]) =
                   IF n \in P[m] THEN Greater(f[m], l) ELSE f[m]
      <4>1. n \in P[n]
        BY PathFacts
      <4>2. Greater(here[n], l) = Greater(f[n], l)
        BY <2>1, <2>3, <3>1 DEF Greater
      <4> QED BY <3>1, <4>1, <4>2
    <3>6. RaisedBelow(par, here, n, l) = RaisedBelow(par, f, n, l)
      BY <3>5 DEF RaisedBelow
    <3> QED BY <3>4, <3>6
  <2> QED BY <2>2, <2>3
<1>2. ASSUME NEW n \in Node, \A c \in Node : n < c => c \in Q PROVE n \in Q
  <2>1. RaisesBelow(par, kids, n)
    BY <1>1, <1>2 DEF RaisesBelow
  <2> QED BY <2>1
<1> HIDE DEF Q
<1>3. Node \subseteq Q
  BY <1>2, FromLeavesUp
<1> QED BY <1>3 DEF Q

\* The bound of p may be smaller than the least of its children's, and nothing
\* else outside of X is wrong.
StaleAt(kids, f, X, p) ==
  kids[p] # <<>> /\ Consistent(kids, f, X \cup {p}) /\ f[p] <= LeastOfKids(kids, f, p)

\* r puts p and its ancestors right.
Repaired(par, kids, f, X, p, r) ==
  /\ r \in Grown(f)
  /\ Consistent(kids, r, X)
  /\ \A m \in Node : m \notin PathIn(par)[p] => r[m] = f[m]

\* Raising p to the least bound of its children puts p right.
LEMMA RaisedToLeast ==
  ASSUME NEW par, NEW kids, Tree(par, kids), NEW p \in Node, NEW X,
         NEW f \in [Node -> Bound], StaleAt(kids, f, X, p)
  PROVE  Consistent(kids, [f EXCEPT ![p] = LeastOfKids(kids, f, p)],
                    X \cup IF par[p] = 0 THEN {} ELSE {par[p]})
<1> DEFINE v == LeastOfKids(kids, f, p)
           here == [f EXCEPT ![p] = v]
<1>1. here[p] = v /\ \A m \in Node : m # p => here[m] = f[m]
  OBVIOUS
<1> HIDE DEF here
<1>2. ASSUME NEW m \in Node, kids[m] # <<>>, m \notin X, par[p] = 0 \/ m # par[p]
      PROVE  here[m] = LeastOfKids(kids, here, m)
  <2>1. ASSUME NEW i \in 1 .. Len(kids[m]) PROVE here[kids[m][i]] = f[kids[m][i]]
    <3>1. kids[m][i] \in Node /\ par[kids[m][i]] = m /\ m # 0
      BY TreeFacts, NodesAreNat
    <3> QED BY <1>1, <1>2, <3>1
  <2>2. LeastOfKids(kids, f, m) = LeastOfKids(kids, here, m)
    BY <2>1, SameLeast
  <2>3. CASE m = p
    BY <1>1, <2>2, <2>3
  <2>4. CASE m # p
    <3>1. f[m] = LeastOfKids(kids, f, m)
      BY <1>2, <2>4 DEF StaleAt, Consistent
    <3> QED BY <1>1, <2>2, <2>4, <3>1
  <2> QED BY <2>3, <2>4
<1>3. Consistent(kids, here, X \cup IF par[p] = 0 THEN {} ELSE {par[p]})
  BY <1>2 DEF Consistent
<1> QED BY <1>3 DEF here

\* Upwards: reevaluate_children puts a node and its ancestors right.
LEMMA AddUp ==
  ASSUME NEW par, NEW kids, Tree(par, kids), NEW X
  PROVE  \A p \in Node : X \cap PathIn(par)[p] = {} =>
           \A f \in [Node -> Bound] : StaleAt(kids, f, X, p) =>
             Repaired(par, kids, f, X, p, Reevaluated(Adding(par, kids), kids, f, p))
<1> DEFINE P == PathIn(par)
           add == Adding(par, kids)
           Repairs(p) == X \cap P[p] = {} =>
             \A f \in [Node -> Bound] : StaleAt(kids, f, X, p) =>
               Repaired(par, kids, f, X, p, Reevaluated(add, kids, f, p))
           Q == {p \in Node : Repairs(p)}
<1>1. ASSUME NEW p \in Node, \A q \in Node : q < p => q \in Q,
             X \cap P[p] = {}, NEW f \in [Node -> Bound], StaleAt(kids, f, X, p)
      PROVE  Repaired(par, kids, f, X, p, Reevaluated(add, kids, f, p))
  <2> DEFINE v == LeastOfKids(kids, f, p)
             here == [f EXCEPT ![p] = v]
             q == par[p]
             r == Reevaluated(add, kids, f, p)
             above == IF q # 0 /\ here[q] < v THEN Reevaluated(add, kids, here, q) ELSE here
  <2>1. /\ kids[p] # <<>> /\ v \in Bound /\ v \in Nat /\ f[p] \in Nat /\ f[p] <= v
        /\ Consistent(kids, f, X \cup {p})
    BY <1>1, LeastFacts, BoundFacts DEF StaleAt
  <2>2. r = BoundAdded(add, par, kids, f, p, v)
    <3>1. r = add[<<f, p, v>>]
      BY <2>1 DEF Reevaluated, LeastOfKids
    <3> QED BY <2>1, <3>1, AddingFacts
  <2>3. p \in P[p] /\ p \notin X
    BY <1>1, PathFacts
  <2>4. CASE f[p] >= v
    <3>1. r = f
      BY <2>2, <2>4 DEF BoundAdded
    <3>2. f[p] = v
      BY <2>1, <2>4
    <3>3. Consistent(kids, f, X)
      BY <2>1, <3>2 DEF Consistent
    <3> QED BY <3>1, <3>3, GrownFacts DEF Repaired
  <2>5. CASE ~ (f[p] >= v)
    <3>1. /\ here \in Grown(f) /\ here \in [Node -> Bound]
          /\ here[p] = v /\ \A m \in Node : m # p => here[m] = f[m]
      <4>1. f[p] < v
        BY <2>1, <2>5
      <4> QED BY <2>1, <4>1, RaisedHere DEF Grown
    <3>2. r = ToldChildren(add, kids, above, p, v)
      BY <2>2, <2>5 DEF BoundAdded
    <3>3. Consistent(kids, here, X \cup IF q = 0 THEN {} ELSE {q})
      BY <1>1, RaisedToLeast
    <3> HIDE DEF here
    <3>4. Repaired(par, kids, here, X, p, above) /\ \A m \in Node : q # 0 /\ m \notin P[q] => above[m] = here[m]
      <4>1. CASE q = 0
        <5>1. above = here /\ Consistent(kids, here, X)
          BY <3>3, <4>1
        <5> QED BY <3>1, <4>1, <5>1, GrownFacts DEF Repaired
      <4>2. CASE q # 0
        <5>1. /\ q \in Node /\ q < p /\ q # p /\ P[p] = {p} \cup P[q] /\ q \in P[q]
          BY <4>2, TreeFacts, PathSteps, PathFacts
        <5>2. PICK i \in 1 .. Len(kids[q]) : kids[q][i] = p
          BY <4>2 DEF Tree
        <5>3. kids[q] # <<>>
          BY <5>1, <5>2, TreeFacts
        <5>4. f[q] = LeastOfKids(kids, f, q) /\ f[q] <= f[p] /\ f[q] \in Nat
          <6>1. q \notin X \cup {p}
            BY <1>1, <5>1
          <6>2. f[q] = LeastOfKids(kids, f, q)
            BY <2>1, <5>1, <5>3, <6>1 DEF Consistent
          <6>3. LeastOfKids(kids, f, q) <= f[kids[q][i]]
            BY <5>1, <5>3, LeastFacts
          <6>4. f[q] \in Nat
            BY <5>1, BoundFacts
          <6> QED BY <5>2, <6>2, <6>3, <6>4
        <5>5. here[q] < v /\ here[q] = f[q]
          BY <2>1, <2>5, <3>1, <5>1, <5>4
        <5>6. StaleAt(kids, here, X, q)
          <6>1. LeastOfKids(kids, f, q) <= LeastOfKids(kids, here, q)
            BY <3>1, <5>1, <5>3, LeastGrows
          <6> QED BY <3>3, <4>2, <5>3, <5>4, <5>5, <6>1 DEF StaleAt
        <5>7. X \cap P[q] = {} /\ q \in Q
          BY <1>1, <5>1
        <5>8. above = Reevaluated(add, kids, here, q)
          BY <4>2, <5>5
        <5> HIDE DEF above, q, P, add
        <5>9. Repaired(par, kids, here, X, q, above)
          BY <3>1, <5>6, <5>7, <5>8
        <5> QED BY <5>1, <5>9 DEF Repaired, P
      <4> QED BY <4>1, <4>2
    <3> HIDE DEF above
    <3>5. above \in Grown(here) /\ above \in [Node -> Bound] /\ Consistent(kids, above, X)
          /\ \A m \in Node : m \notin P[p] => above[m] = here[m]
      BY <3>4 DEF Repaired, Grown
    <3>6. ASSUME NEW i \in 1 .. Len(kids[p]) PROVE add[<<above, kids[p][i], v>>] = above
      <4>1. kids[p][i] \in Node /\ kids[p][i] \notin P[p] /\ kids[p][i] # p
        BY TreeFacts, PathSteps
      <4>2. above[kids[p][i]] = f[kids[p][i]] /\ f[kids[p][i]] >= v
        <5>1. v <= f[kids[p][i]] /\ f[kids[p][i]] \in Nat
          BY <2>1, <4>1, LeastFacts, BoundFacts
        <5> HIDE DEF P, v
        <5> QED BY <2>1, <3>1, <3>5, <4>1, <5>1
      <4>3. above[kids[p][i]] >= v
        BY <4>2
      <4> HIDE DEF v
      <4> QED BY <2>1, <3>5, <4>1, <4>3, NothingNew
    <3>7. r = above
      <4> DEFINE k == Len(kids[p])
      <4>1. PICK told : OneByOne(told, [Node -> Bound], add, kids, above, p, v)
        <5> HIDE DEF v
        <5> QED BY <2>1, <3>5, AddingStays
      <4>2. /\ told[0] = above /\ r = told[k]
            /\ \A i \in 1 .. k : told[i] = add[<<told[i - 1], kids[p][i], v>>]
        BY <3>2, <4>1 DEF OneByOne
      <4>3. k \in Nat
        BY TreeFacts
      <4> DEFINE T == {i \in 0 .. k : told[i] = above}
      <4> HIDE DEF add, v, r, k
      <4>7. 0 \in T
        BY <4>2, <4>3
      <4>8. ASSUME NEW i \in 1 .. k, i - 1 \in T PROVE i \in T
        <5>1. told[i - 1] = above /\ i \in 0 .. k
          BY <4>3, <4>8
        <5>2. add[<<above, kids[p][i], v>>] = above
          BY <3>6 DEF k
        <5> QED BY <4>2, <5>1, <5>2
      <4>4. 0 \in T /\ \A i \in 1 .. k : i - 1 \in T => i \in T
        BY <4>7, <4>8
      <4> HIDE DEF T
      <4>5. 0 .. k \subseteq T
        BY <4>3, <4>4, IntervalInduction
      <4>6. k \in T
        BY <4>3, <4>5
      <4> QED BY <4>2, <4>6 DEF T
    <3>8. above \in Grown(f)
      BY <3>1, <3>5, GrownFacts
    <3>9. \A m \in Node : m \notin P[p] => above[m] = f[m]
      BY <2>3, <3>1, <3>5
    <3> QED BY <3>5, <3>7, <3>8, <3>9 DEF Repaired
  <2> QED BY <2>4, <2>5
<1>2. ASSUME NEW p \in Node, \A q \in Node : q < p => q \in Q PROVE p \in Q
  <2> HIDE DEF add, P, Q
  <2>1. Repairs(p)
    BY <1>1, <1>2
  <2> QED BY <2>1 DEF Q
<1> HIDE DEF Q
<1>3. Node \subseteq Q
  BY <1>2, FromRootDown
<1>4. \A p \in Node : Repairs(p)
  BY <1>3 DEF Q
<1> QED BY <1>4

LEMMA LeastOfRaised ==
  ASSUME NEW par, NEW kids, Tree(par, kids), NEW n \in Node, kids[n] # <<>>,
         NEW f \in [Node -> Bound], NEW g \in [Node -> Bound], NEW l \in Bound,
         \A i \in 1 .. Len(kids[n]) : g[kids[n][i]] = Greater(f[kids[n][i]], l)
  PROVE  LeastOfKids(kids, g, n) = Greater(LeastOfKids(kids, f, n), l)
<1> DEFINE a == LeastOfKids(kids, f, n)
           b == LeastOfKids(kids, g, n)
<1>1. /\ a \in Nat /\ b \in Nat /\ l \in Nat
      /\ \A i \in 1 .. Len(kids[n]) :
           a <= f[kids[n][i]] /\ b <= g[kids[n][i]] /\ f[kids[n][i]] \in Nat
  BY LeastFacts, BoundFacts, TreeFacts
<1>2. PICK i \in 1 .. Len(kids[n]) : a = f[kids[n][i]]
  BY LeastFacts
<1>3. PICK j \in 1 .. Len(kids[n]) : b = g[kids[n][j]]
  BY LeastFacts
<1> HIDE DEF a, b
<1>4. b <= Greater(a, l)
  BY <1>1, <1>2
<1>5. Greater(a, l) <= b
  <2>1. b = Greater(f[kids[n][j]], l) /\ a <= f[kids[n][j]] /\ f[kids[n][j]] \in Nat
    BY <1>1, <1>3
  <2> QED BY <1>1, <2>1 DEF Greater
<1>6. Greater(a, l) \in Nat
  BY <1>1 DEF Greater
<1>7. b = Greater(a, l)
  BY <1>1, <1>4, <1>5, <1>6
<1> QED BY <1>7 DEF a, b

\* What add_lower_bound does to a consistent tree: everything below n gets at
\* least the bound, what is neither below nor above n stays as it was, and the
\* tree is consistent again.
AddedRight(par, kids, f, n, l, r) ==
  /\ r \in Grown(f)
  /\ Consistent(kids, r, {})
  /\ \A m \in Node : n \in PathIn(par)[m] => r[m] = Greater(f[m], l)
  /\ \A m \in Node : n \notin PathIn(par)[m] /\ m \notin PathIn(par)[n] => r[m] = f[m]

\* The bounds once n and its ancestors have theirs, from which the call goes on to
\* the children of n.
AboveRight(par, kids, f, n, l, above) ==
  /\ above \in Grown([f EXCEPT ![n] = l])
  /\ AddLowerBound(par, kids, f, n, l) = ToldChildren(Adding(par, kids), kids, above, n, l)
  /\ Consistent(kids, above, {n})
  /\ above[n] = l
  /\ \A m \in Node : m \notin PathIn(par)[n] => above[m] = f[m]

LEMMA AboveIsRight ==
  ASSUME NEW par, NEW kids, Tree(par, kids), NEW f \in [Node -> Bound],
         Consistent(kids, f, {}), NEW n \in Node, NEW l \in Bound, f[n] < l
  PROVE  \E above : AboveRight(par, kids, f, n, l, above)
<1> DEFINE P == PathIn(par)
           add == Adding(par, kids)
           here == [f EXCEPT ![n] = l]
           q == par[n]
           above == IF q # 0 /\ here[q] < l THEN Reevaluated(add, kids, here, q) ELSE here
<1>1. f[n] \in Nat /\ l \in Nat /\ ~ (f[n] >= l)
  <2>1. f[n] \in Nat /\ l \in Nat
    BY BoundFacts
  <2> QED BY <2>1
<1>2. AddLowerBound(par, kids, f, n, l) = ToldChildren(add, kids, above, n, l)
  <2>1. AddLowerBound(par, kids, f, n, l) = BoundAdded(add, par, kids, f, n, l)
    BY AddingFacts DEF AddLowerBound
  <2> QED BY <1>1, <2>1 DEF BoundAdded
<1>3. /\ here \in [Node -> Bound] /\ here \in Grown(f) /\ here \in Grown(here)
      /\ here[n] = l /\ \A m \in Node : m # n => here[m] = f[m]
  <2>1. here \in [Node -> Bound] /\ here[n] = l /\ \A m \in Node : m # n => here[m] = f[m]
    OBVIOUS
  <2>2. here \in Grown(f)
    BY RaisedHere
  <2> HIDE DEF here
  <2> QED BY <2>1, <2>2, GrownFacts
<1> HIDE DEF here
<1>4. Consistent(kids, here, {n} \cup IF q = 0 THEN {} ELSE {q})
  <2>1. ASSUME NEW m \in Node, kids[m] # <<>>, m # n, q = 0 \/ m # q
        PROVE  here[m] = LeastOfKids(kids, here, m)
    <3>1. ASSUME NEW i \in 1 .. Len(kids[m]) PROVE here[kids[m][i]] = f[kids[m][i]]
      <4>1. kids[m][i] \in Node /\ par[kids[m][i]] = m /\ m # 0
        BY TreeFacts, NodesAreNat
      <4> QED BY <1>3, <2>1, <4>1
    <3>2. LeastOfKids(kids, f, m) = LeastOfKids(kids, here, m)
      BY <3>1, SameLeast
    <3> QED BY <1>3, <2>1, <3>2 DEF Consistent
  <2> QED BY <2>1 DEF Consistent
<1>5. /\ n \in P[n]
      /\ q # 0 => q \in Node /\ q # n /\ P[n] = {n} \cup P[q] /\ n \notin P[q]
  BY TreeFacts, PathSteps, PathFacts
<1>6. /\ above \in Grown(here) /\ Consistent(kids, above, {n}) /\ above[n] = l
      /\ \A m \in Node : m \notin P[n] => above[m] = f[m]
  <2>1. CASE q = 0
    <3>1. above = here /\ Consistent(kids, here, {n})
      BY <1>4, <2>1
    <3> QED BY <1>3, <1>5, <3>1
  <2>2. CASE q # 0
    <3>1. PICK i \in 1 .. Len(kids[q]) : kids[q][i] = n
      BY <2>2 DEF Tree
    <3>2. kids[q] # <<>>
      BY <1>5, <2>2, <3>1, TreeFacts
    <3>3. f[q] = LeastOfKids(kids, f, q)
      BY <1>5, <2>2, <3>2 DEF Consistent
    <3>4. LeastOfKids(kids, f, q) <= f[n] /\ f[q] \in Nat
      <4>1. LeastOfKids(kids, f, q) <= f[kids[q][i]]
        BY <1>5, <2>2, <3>2, LeastFacts
      <4> QED BY <1>5, <2>2, <3>1, <4>1, BoundFacts
    <3>5. here[q] = f[q] /\ here[q] < l
      BY <1>1, <1>3, <1>5, <2>2, <3>3, <3>4
    <3>6. StaleAt(kids, here, {n}, q)
      <4>1. LeastOfKids(kids, f, q) <= LeastOfKids(kids, here, q)
        BY <1>3, <1>5, <2>2, <3>2, LeastGrows
      <4> QED BY <1>4, <2>2, <3>2, <3>3, <3>5, <4>1 DEF StaleAt
    <3>7. {n} \cap PathIn(par)[q] = {}
      BY <1>5, <2>2
    <3>8. above = Reevaluated(add, kids, here, q)
      BY <2>2, <3>5
    <3> HIDE DEF above, q
    <3>9. Repaired(par, kids, here, {n}, q, above)
      BY <1>3, <1>5, <2>2, <3>6, <3>7, <3>8, AddUp
    <3> QED BY <1>3, <1>5, <2>2, <3>9 DEF Repaired
  <2> QED BY <2>1, <2>2
<1> HIDE DEF above
<1>7. AboveRight(par, kids, f, n, l, above)
  BY <1>2, <1>6 DEF here, AboveRight
<1> QED BY <1>7

LEMMA AddedIsRight ==
  ASSUME NEW par, NEW kids, Tree(par, kids), NEW f \in [Node -> Bound],
         Consistent(kids, f, {}), NEW n \in Node, NEW l \in Bound
  PROVE  AddedRight(par, kids, f, n, l, AddLowerBound(par, kids, f, n, l))
<1> DEFINE P == PathIn(par)
           add == Adding(par, kids)
           r == AddLowerBound(par, kids, f, n, l)
<1>1. f[n] \in Nat /\ l \in Nat /\ \A m \in Node : f[m] \in Nat
  BY BoundFacts
<1>2. CASE f[n] >= l
  <2>1. r = f
    BY <1>2, NothingNew DEF AddLowerBound
  <2>2. ConsistentBelow(par, kids, f, n)
    BY DEF Consistent, ConsistentBelow
  <2>3. ASSUME NEW m \in Node, n \in P[m] PROVE f[m] = Greater(f[m], l)
    <3>1. f[n] <= f[m]
      BY <2>2, <2>3, RisesBelow
    <3> QED BY <1>1, <1>2, <3>1 DEF Greater
  <2> HIDE DEF r
  <2>4. AddedRight(par, kids, f, n, l, r)
    BY <2>1, <2>3, GrownFacts DEF AddedRight
  <2> QED BY <2>4 DEF r
<1>3. CASE ~ (f[n] >= l)
  <2>12. PICK above : AboveRight(par, kids, f, n, l, above)
    <3>1. f[n] < l
      BY <1>1, <1>3
    <3> QED BY <3>1, AboveIsRight
  <2>1. /\ above \in Grown([f EXCEPT ![n] = l])
        /\ r = ToldChildren(add, kids, above, n, l)
        /\ Consistent(kids, above, {n})
        /\ above[n] = l
        /\ \A m \in Node : m \notin P[n] => above[m] = f[m]
    BY <2>12 DEF AboveRight
  <2>2. above \in [Node -> Bound] /\ above[n] >= l
    BY <1>1, <2>1 DEF Grown
  <2>3. ASSUME NEW i \in 1 .. Len(kids[n])
        PROVE  /\ RaisesBelow(par, kids, kids[n][i])
               /\ ConsistentBelow(par, kids, above, kids[n][i])
    <3>1. kids[n][i] \in Node /\ kids[n][i] \notin P[n]
      BY TreeFacts, PathSteps
    <3> QED BY <2>1, <3>1, AddDown DEF Consistent, ConsistentBelow
  <2>4. r = RaisedBelow(par, above, n, l)
    <3> HIDE DEF r
    <3> QED BY <2>1, <2>2, <2>3, ToldRaises
  <2>5. r \in Grown(f) /\ r \in [Node -> Bound]
    <3>1. r \in Grown(f)
      BY AddingFacts DEF AddLowerBound
    <3> QED BY <3>1 DEF Grown
  <2> HIDE DEF r
  <2>6. ASSUME NEW m \in Node, n \in P[m] PROVE m = n \/ m \notin P[n]
    <3>1. m \in P[n] => m <= n
      BY PathFacts
    <3>2. n <= m /\ m \in Nat /\ n \in Nat
      BY <2>6, PathFacts, NodesAreNat
    <3> QED BY <3>1, <3>2
  <2>7. \A m \in Node : r[m] = IF n \in P[m] THEN Greater(above[m], l) ELSE above[m]
    BY <2>4 DEF RaisedBelow
  <2>8. ASSUME NEW m \in Node, n \in P[m] PROVE r[m] = Greater(f[m], l)
    <3>1. r[m] = Greater(above[m], l)
      BY <2>7, <2>8
    <3>2. CASE m = n
      BY <1>1, <1>3, <2>1, <3>1, <3>2 DEF Greater
    <3>3. CASE m # n
      BY <2>1, <2>6, <2>8, <3>1, <3>3
    <3> QED BY <3>2, <3>3
  <2>9. ASSUME NEW m \in Node, n \notin P[m], m \notin P[n] PROVE r[m] = f[m]
    BY <2>1, <2>7, <2>9
  <2>10. ASSUME NEW m \in Node, kids[m] # <<>> PROVE r[m] = LeastOfKids(kids, r, m)
    <3>1. \A i \in 1 .. Len(kids[m]) :
             kids[m][i] \in Node /\ P[kids[m][i]] = {kids[m][i]} \cup P[m]
      BY TreeFacts, PathSteps
    <3>2. CASE n \in P[m]
      <4>1. \A i \in 1 .. Len(kids[m]) : r[kids[m][i]] = Greater(f[kids[m][i]], l)
        BY <2>8, <3>1, <3>2
      <4>2. LeastOfKids(kids, r, m) = Greater(LeastOfKids(kids, f, m), l)
        BY <2>5, <2>10, <4>1, LeastOfRaised
      <4>3. f[m] = LeastOfKids(kids, f, m)
        BY <2>10 DEF Consistent
      <4> QED BY <2>8, <3>2, <4>2, <4>3
    <3>3. CASE n \notin P[m]
      <4>1. n \in P[n] /\ m # n
        BY <3>3, PathFacts
      <4>2. ASSUME NEW i \in 1 .. Len(kids[m]) PROVE r[kids[m][i]] = above[kids[m][i]]
        <5>1. CASE kids[m][i] = n
          BY <1>1, <2>1, <2>7, <4>1, <5>1 DEF Greater
        <5>2. CASE kids[m][i] # n
          BY <2>7, <3>1, <3>3, <5>2
        <5> QED BY <5>1, <5>2
      <4>3. LeastOfKids(kids, r, m) = LeastOfKids(kids, above, m)
        BY <4>2, SameLeast
      <4> QED BY <2>1, <2>7, <2>10, <3>3, <4>1, <4>3 DEF Consistent
    <3> QED BY <3>2, <3>3
  <2>11. AddedRight(par, kids, f, n, l, r)
    BY <2>5, <2>8, <2>9, <2>10 DEF AddedRight, Consistent
  <2> QED BY <2>11 DEF r
<1> QED BY <1>2, <1>3

----------------------------------------------------------------------------
(* The closed form *)

\* Among the nodes below a there is a leaf with the same bound.
LEMMA LeastLeaf ==
  ASSUME NEW par, NEW kids, Tree(par, kids), NEW f \in [Node -> Bound],
         Consistent(kids, f, {}), NEW a \in Node
  PROVE  \E m \in Node : kids[m] = <<>> /\ a \in PathIn(par)[m] /\ f[m] = f[a]
<1> DEFINE P == PathIn(par)
           Q == {b \in Node : \E m \in Node : kids[m] = <<>> /\ b \in P[m] /\ f[m] = f[b]}
<1>1. ASSUME NEW b \in Node, \A c \in Node : b < c => c \in Q PROVE b \in Q
  <2>1. CASE kids[b] = <<>>
    <3>1. b \in P[b]
      BY PathFacts
    <3> QED BY <2>1, <3>1
  <2>2. CASE kids[b] # <<>>
    <3>1. f[b] = LeastOfKids(kids, f, b)
      BY <2>2 DEF Consistent
    <3>2. PICK i \in 1 .. Len(kids[b]) : LeastOfKids(kids, f, b) = f[kids[b][i]]
      BY <2>2, LeastFacts
    <3> DEFINE c == kids[b][i]
    <3>3. c \in Node /\ b < c /\ b \in P[b] /\ P[c] = {c} \cup P[b] /\ f[c] = f[b]
      BY <3>1, <3>2, TreeFacts, PathSteps, PathFacts
    <3> HIDE DEF P, c
    <3>4. PICK m \in Node : kids[m] = <<>> /\ c \in P[m] /\ f[m] = f[c]
      BY <1>1, <3>3
    <3>5. b \in P[m]
      <4>1. P[c] \subseteq P[m]
        BY <3>4, PathFacts DEF P
      <4> QED BY <3>3, <4>1
    <3> QED BY <3>3, <3>4, <3>5
  <2> QED BY <2>1, <2>2
<1> HIDE DEF Q
<1>2. Node \subseteq Q
  BY <1>1, FromLeavesUp
<1> QED BY <1>2 DEF Q

\* leaf holds exactly the leaves among the nodes below n and its ancestors.
LeavesAround(par, kids, leaf, n) ==
  /\ leaf \subseteq Node
  /\ \A a \in PathIn(par)[n] : \A m \in Node :
       a \in PathIn(par)[m] => (m \in leaf <=> kids[m] = <<>>)

LEMMA LeastOfLeaves ==
  ASSUME NEW par, NEW kids, Tree(par, kids), NEW f \in [Node -> Bound],
         Consistent(kids, f, {}), NEW n \in Node, NEW leaf, LeavesAround(par, kids, leaf, n),
         NEW a \in PathIn(par)[n]
  PROVE  Min({f[m] : m \in {m \in leaf : a \in PathIn(par)[m]}}) = f[a]
<1> DEFINE P == PathIn(par)
           S == {f[m] : m \in {m \in leaf : a \in P[m]}}
<1>1. a \in Node
  BY PathFacts
<1>2. leaf \subseteq Node /\ \A m \in Node : a \in P[m] => (m \in leaf <=> kids[m] = <<>>)
  BY DEF LeavesAround
<1>3. PICK m \in Node : kids[m] = <<>> /\ a \in P[m] /\ f[m] = f[a]
  BY <1>1, LeastLeaf
<1>4. f[a] \in S
  BY <1>2, <1>3
<1>5. \A k \in Node : a \in P[k] => f[a] <= f[k]
  <2>1. ConsistentBelow(par, kids, f, a)
    BY DEF Consistent, ConsistentBelow
  <2> QED BY <1>1, <2>1, RisesBelow
<1>6. S \in SUBSET Nat /\ S # {} /\ \A x \in S : f[a] <= x
  BY <1>2, <1>4, <1>5, BoundFacts
<1> HIDE DEF S
<1>7. Min(S) \in S /\ Min(S) <= f[a] /\ f[a] <= Min(S)
  BY <1>4, <1>6, MinIsLeast
<1>8. Min(S) \in Nat /\ f[a] \in Nat
  BY <1>4, <1>6, <1>7
<1>9. Min(S) = f[a]
  BY <1>7, <1>8
<1> QED BY <1>9 DEF S

\* Consistent bounds that differ from g only above n, where g is no greater, are
\* those that Propagated finds.
LEMMA PropagatedIs ==
  ASSUME NEW par, NEW kids, Tree(par, kids), NEW g \in [Node -> Bound],
         NEW r \in Grown(g), Consistent(kids, r, {}), NEW n \in Node,
         NEW leaf, LeavesAround(par, kids, leaf, n),
         \A m \in Node : m = n \/ m \notin PathIn(par)[n] => r[m] = g[m]
  PROVE  r = Propagated(g, n, leaf, PathIn(par))
<1> DEFINE P == PathIn(par)
<1>1. r \in [Node -> Bound] /\ \A m \in Node : g[m] <= r[m] /\ g[m] \in Nat /\ r[m] \in Nat
  BY BoundFacts DEF Grown
<1>2. ASSUME NEW a \in P[n] \ {n}
      PROVE  Greater(g[a], Min({g[m] : m \in {m \in leaf : a \in P[m]}})) = r[a]
  <2>1. a \in Node
    BY PathFacts
  <2>2. ASSUME NEW m \in leaf, a \in P[m] PROVE g[m] = r[m]
    <3>1. m \in Node /\ kids[m] = <<>>
      BY <1>2, <2>2 DEF LeavesAround
    <3>2. m \in P[n] /\ m # n => \E i \in 1 .. Len(kids[m]) : kids[m][i] \in P[n]
      BY <3>1, BelowOneChild
    <3>3. Len(kids[m]) = 0
      BY <3>1
    <3>4. m = n \/ m \notin P[n]
      BY <3>2, <3>3
    <3> QED BY <3>1, <3>4
  <2>3. {g[m] : m \in {m \in leaf : a \in P[m]}} = {r[m] : m \in {m \in leaf : a \in P[m]}}
    BY <2>2
  <2>4. Min({r[m] : m \in {m \in leaf : a \in P[m]}}) = r[a]
    BY <1>1, LeastOfLeaves, SMTT(30)
  <2>5. Greater(g[a], r[a]) = r[a]
    BY <1>1, <2>1 DEF Greater
  <2> QED BY <2>3, <2>4, <2>5
<1>3. \A a \in Node :
        r[a] = IF a \in P[n] \ {n}
                 THEN Greater(g[a], Min({g[m] : m \in {m \in leaf : a \in P[m]}}))
                 ELSE g[a]
  BY <1>2
<1>4. r = [a \in Node |-> r[a]]
  BY <1>1
<1> HIDE DEF P
<1>5. r = [a \in Node |->
             IF a \in P[n] \ {n}
               THEN Greater(g[a], Min({g[m] : m \in {m \in leaf : a \in P[m]}}))
               ELSE g[a]]
  BY <1>3, <1>4
<1> QED BY <1>5 DEF Propagated, P

\* add_lower_bound computes the closed form.
LEMMA AddedIsRaised ==
  ASSUME NEW par, NEW kids, Tree(par, kids), NEW f \in [Node -> Bound],
         Consistent(kids, f, {}), NEW n \in Node, NEW l \in Bound,
         NEW leaf, LeavesAround(par, kids, leaf, n)
  PROVE  AddLowerBound(par, kids, f, n, l) = RaisedBounds(f, n, l, leaf, PathIn(par))
<1> DEFINE P == PathIn(par)
           r == AddLowerBound(par, kids, f, n, l)
           g == [m \in Node |-> IF n \in P[m] THEN Greater(f[m], l) ELSE f[m]]
<1>1. AddedRight(par, kids, f, n, l, r)
  BY AddedIsRight
<1> HIDE DEF r
<1>2. /\ r \in [Node -> Bound] /\ \A m \in Node : f[m] <= r[m] /\ f[m] \in Nat /\ r[m] \in Nat
      /\ Consistent(kids, r, {})
      /\ \A m \in Node : n \in P[m] => r[m] = Greater(f[m], l)
      /\ \A m \in Node : n \notin P[m] /\ m \notin P[n] => r[m] = f[m]
  BY <1>1, BoundFacts DEF AddedRight, Grown
<1>3. g \in [Node -> Bound]
  BY DEF Greater
<1>4. r \in Grown(g)
  <2>1. \A m \in Node : g[m] <= r[m]
    BY <1>2
  <2> QED BY <1>2, <2>1 DEF Grown
<1>5. \A m \in Node : m = n \/ m \notin P[n] => r[m] = g[m]
  BY <1>2, PathFacts
<1>6. r = Propagated(g, n, leaf, P)
  <2> HIDE DEF g
  <2> QED BY <1>2, <1>3, <1>4, <1>5, PropagatedIs
<1> QED BY <1>6 DEF RaisedBounds, r

----------------------------------------------------------------------------
(* Pruning *)

PruneStates == [Node -> BOOLEAN] \X [Node -> Bound]

LEMMA PrunedHereFacts ==
  ASSUME NEW par, NEW kids, Tree(par, kids), NEW s \in PruneStates, NEW n \in Node,
         NEW infeasible \in BOOLEAN
  PROVE  PrunedHere(par, kids, s, n, infeasible) \in PruneStates
<1>1. s[1] \in [Node -> BOOLEAN] /\ s[2] \in [Node -> Bound]
  BY DEF PruneStates
<1>2. AddLowerBound(par, kids, s[2], n, Inf) \in [Node -> Bound]
  <2>1. AddLowerBound(par, kids, s[2], n, Inf) \in Grown(s[2])
    BY <1>1, AddingFacts, BoundFacts DEF AddLowerBound
  <2> QED BY <2>1 DEF Grown
<1>3. [s[1] EXCEPT ![n] = TRUE] \in [Node -> BOOLEAN]
  BY <1>1
<1> QED BY <1>1, <1>2, <1>3 DEF PrunedHere, PruneStates

\* Two functions that agree on the calls on children agree on a call.
AgreeOnChildren(A, B, kids, n, infeasible) ==
  \A t \in PruneStates : \A i \in 1 .. Len(kids[n]) :
    /\ A[<<t, kids[n][i], infeasible>>] = B[<<t, kids[n][i], infeasible>>]
    /\ A[<<t, kids[n][i], infeasible>>] \in PruneStates

LEMMA PruneSettles ==
  ASSUME NEW par, NEW kids, Tree(par, kids), NEW s \in PruneStates, NEW n \in Node,
         NEW infeasible \in BOOLEAN,
         NEW A, NEW B, AgreeOnChildren(A, B, kids, n, infeasible)
  PROVE  /\ PrunedWith(A, par, kids, s, n, infeasible) = PrunedWith(B, par, kids, s, n, infeasible)
         /\ PrunedWith(A, par, kids, s, n, infeasible) \in PruneStates
<1> DEFINE here == PrunedHere(par, kids, s, n, infeasible)
           k == Len(kids[n])
           S == PruneStates
<1>1. here \in S
  BY PrunedHereFacts
<1>2. kids[n] \in Seq(Node) /\ k \in Nat /\ \A i \in 1 .. k : kids[n][i] \in Node
  BY TreeFacts
<1>4. StaysIn(S, A, kids, n, infeasible) /\ StaysIn(S, B, kids, n, infeasible)
  <2> HIDE DEF S
  <2>1. \A t \in S : \A i \in 1 .. Len(kids[n]) :
          A[<<t, kids[n][i], infeasible>>] \in S /\ B[<<t, kids[n][i], infeasible>>] \in S
    BY DEF S, AgreeOnChildren
  <2> QED BY <2>1 DEF StaysIn
<1> HIDE DEF here, S
<1>5. (\E told : OneByOne(told, S, A, kids, here, n, infeasible))
      /\ \E told : OneByOne(told, S, B, kids, here, n, infeasible)
  BY <1>1, <1>2, <1>4, ToldExists
<1>6. PICK toldA : OneByOne(toldA, S, A, kids, here, n, infeasible)
  BY <1>5
<1>7. PICK toldB : OneByOne(toldB, S, B, kids, here, n, infeasible)
  BY <1>5
<1>8. /\ toldA \in [0 .. k -> S] /\ toldA[0] = here
      /\ \A i \in 1 .. k : toldA[i] = A[<<toldA[i - 1], kids[n][i], infeasible>>]
      /\ ToldChildren(A, kids, here, n, infeasible) = toldA[k]
  BY <1>6 DEF OneByOne
<1>9. /\ toldB \in [0 .. k -> S] /\ toldB[0] = here
      /\ \A i \in 1 .. k : toldB[i] = B[<<toldB[i - 1], kids[n][i], infeasible>>]
      /\ ToldChildren(B, kids, here, n, infeasible) = toldB[k]
  BY <1>7 DEF OneByOne
<1> DEFINE T == {i \in 0 .. k : toldA[i] = toldB[i]}
<1>10. 0 .. k \subseteq T
  <2>1. 0 \in T
    BY <1>2, <1>8, <1>9
  <2>2. ASSUME NEW i \in 1 .. k, i - 1 \in T PROVE i \in T
    <3>1. i \in 0 .. k /\ i - 1 \in 0 .. k
      BY <1>2
    <3>2. toldA[i - 1] = toldB[i - 1] /\ toldA[i - 1] \in S
      BY <1>8, <2>2, <3>1
    <3>3. A[<<toldA[i - 1], kids[n][i], infeasible>>] = B[<<toldA[i - 1], kids[n][i], infeasible>>]
      BY <3>2 DEF S, AgreeOnChildren
    <3> QED BY <1>8, <1>9, <3>1, <3>2, <3>3
  <2> HIDE DEF T
  <2> QED BY <1>2, <2>1, <2>2, IntervalInduction
<1>11. k \in 0 .. k /\ toldA[k] = toldB[k] /\ toldA[k] \in S
  BY <1>2, <1>8, <1>10
<1> QED BY <1>8, <1>9, <1>11 DEF PrunedWith, here, S

\* So prune is the function its recursion defines.
LEMMA PruningFacts ==
  ASSUME NEW par, NEW kids, Tree(par, kids)
  PROVE  \A s \in PruneStates : \A n \in Node, infeasible \in BOOLEAN :
           /\ Pruning(par, kids)[<<s, n, infeasible>>] =
                PrunedWith(Pruning(par, kids), par, kids, s, n, infeasible)
           /\ Pruning(par, kids)[<<s, n, infeasible>>] \in PruneStates
<1> DEFINE G == [PruneCalls -> PruneStates]
           Unfold(A) == [c \in PruneCalls |-> PrunedWith(A, par, kids, c[1], c[2], c[3])]
           F == [A \in G |-> Unfold(A)]
           b == [c \in PruneCalls |-> c[1]]
           rank == [c \in PruneCalls |-> MaxNodes - c[2]]
           prune == Pruning(par, kids)
<1>1. ASSUME NEW c \in PruneCalls
      PROVE  /\ c = <<c[1], c[2], c[3]>>
             /\ c[1] \in PruneStates /\ c[2] \in Node /\ c[3] \in BOOLEAN
  BY DEF PruneCalls, PruneStates
<1>2. \A s \in PruneStates : \A n \in Node, e \in BOOLEAN : <<s, n, e>> \in PruneCalls
  BY DEF PruneCalls, PruneStates
<1>3. MaxNodes \in Nat /\ rank \in [PruneCalls -> 0 .. MaxNodes]
  BY <1>1, NodeTreeAssumption DEF Node
<1>4. ASSUME NEW A \in G, NEW B \in G, NEW c \in PruneCalls,
             \A d \in PruneCalls : rank[d] < rank[c] => A[d] = B[d]
      PROVE  Unfold(A)[c] = Unfold(B)[c] /\ Unfold(A)[c] \in PruneStates
  <2> DEFINE s == c[1]
             n == c[2]
             e == c[3]
  <2>1. c = <<s, n, e>> /\ s \in PruneStates /\ n \in Node /\ e \in BOOLEAN
    BY <1>1
  <2>2. Unfold(A)[c] = PrunedWith(A, par, kids, s, n, e) /\ Unfold(B)[c] = PrunedWith(B, par, kids, s, n, e)
    OBVIOUS
  <2>3. ASSUME NEW t \in PruneStates, NEW i \in 1 .. Len(kids[n])
        PROVE  /\ A[<<t, kids[n][i], e>>] = B[<<t, kids[n][i], e>>]
               /\ A[<<t, kids[n][i], e>>] \in PruneStates
    <3> DEFINE m == kids[n][i]
    <3>1. m \in Node /\ n < m /\ m \in Nat /\ n \in Nat
      BY <2>1, TreeFacts, NodesAreNat
    <3> HIDE DEF m
    <3>2. <<t, m, e>> \in PruneCalls /\ <<t, m, e>>[2] = m
      BY <1>2, <2>1, <3>1
    <3>3. rank[<<t, m, e>>] = MaxNodes - m /\ rank[c] = MaxNodes - n
      BY <3>2
    <3>4. rank[<<t, m, e>>] < rank[c]
      BY <1>3, <3>1, <3>3
    <3> QED BY <1>4, <3>2, <3>4 DEF m
  <2> HIDE DEF s, n, e, Unfold, rank, G
  <2>4. /\ PrunedWith(A, par, kids, s, n, e) = PrunedWith(B, par, kids, s, n, e)
        /\ PrunedWith(A, par, kids, s, n, e) \in PruneStates
    <3>1. AgreeOnChildren(A, B, kids, n, e)
      BY <2>3 DEF AgreeOnChildren
    <3> QED BY <2>1, <3>1, PruneSettles
  <2> QED BY <2>2, <2>4
<1> HIDE DEF rank
<1>5. ASSUME NEW A \in G PROVE Unfold(A) \in G
  <2>1. \A c \in PruneCalls : Unfold(A)[c] \in PruneStates
    <3> HIDE DEF Unfold
    <3> QED BY <1>4
  <2>2. Unfold(A) = [c \in PruneCalls |-> Unfold(A)[c]]
    OBVIOUS
  <2> HIDE DEF Unfold
  <2> QED BY <2>1, <2>2
<1>6. LooksDown(F, G, b, PruneCalls, PruneStates, rank, MaxNodes)
  <2>1. b \in G /\ G \in SUBSET [PruneCalls -> PruneStates]
    BY <1>1
  <2> HIDE DEF Unfold, G, b
  <2>2. F \in [G -> G]
    BY <1>5
  <2>3. ASSUME NEW A \in G, NEW B \in G, NEW c \in PruneCalls,
               \A d \in PruneCalls : rank[d] < rank[c] => A[d] = B[d]
        PROVE  F[A][c] = F[B][c]
    BY <1>4, <2>3
  <2> HIDE DEF F
  <2> QED BY <1>3, <2>1, <2>2, <2>3 DEF LooksDown
<1>7. \E A \in G : A = F[A]
  <2> HIDE DEF G, F, b
  <2> QED BY <1>6, RankedRecursion
<1>8. prune = Unfold(prune)
  <2>1. \E A \in G : A = Unfold(A)
    <3> HIDE DEF Unfold, G
    <3> QED BY <1>7
  <2>2. prune = CHOOSE A : A = Unfold(A)
    BY DEF Pruning
  <2> HIDE DEF prune, Unfold
  <2> QED BY <2>1, <2>2
<1>9. ASSUME NEW s \in PruneStates, NEW n \in Node, NEW e \in BOOLEAN
      PROVE  prune[<<s, n, e>>] = PrunedWith(prune, par, kids, s, n, e)
  <2>1. <<s, n, e>> \in PruneCalls
    BY <1>2
  <2>2. Unfold(prune)[<<s, n, e>>] = PrunedWith(prune, par, kids, s, n, e)
    <3> HIDE DEF prune
    <3> QED BY <2>1
  <2> HIDE DEF prune, Unfold
  <2> QED BY <1>8, <2>2
<1> HIDE DEF prune
<1> DEFINE Q == {n \in Node : \A s \in PruneStates, e \in BOOLEAN : prune[<<s, n, e>>] \in PruneStates}
<1>10. ASSUME NEW n \in Node, \A c \in Node : n < c => c \in Q PROVE n \in Q
  <2>1. ASSUME NEW s \in PruneStates, NEW e \in BOOLEAN PROVE prune[<<s, n, e>>] \in PruneStates
    <3>1. \A t \in PruneStates : \A i \in 1 .. Len(kids[n]) : prune[<<t, kids[n][i], e>>] \in PruneStates
      <4>1. \A i \in 1 .. Len(kids[n]) : kids[n][i] \in Node /\ n < kids[n][i]
        BY TreeFacts
      <4> QED BY <1>10, <4>1
    <3>2. PrunedWith(prune, par, kids, s, n, e) \in PruneStates
      <4>1. AgreeOnChildren(prune, prune, kids, n, e)
        BY <3>1 DEF AgreeOnChildren
      <4> QED BY <4>1, PruneSettles
    <3> QED BY <1>9, <3>2
  <2> QED BY <2>1
<1>11. Node \subseteq Q
  <2> HIDE DEF Q
  <2> QED BY <1>10, FromLeavesUp
<1> QED BY <1>9, <1>11 DEF prune

\* Below n, nothing unmarked is below a marked node.
ClosedBelow(par, marks, n) ==
  \A k \in Node : n \in PathIn(par)[k] /\ k # n /\ marks[par[k]] => marks[k]

\* n and everything below it are marked.
MarkedBelow(par, marks, n) == [k \in Node |-> marks[k] \/ n \in PathIn(par)[k]]

LEMMA MarksReach ==
  ASSUME NEW par, NEW kids, Tree(par, kids), NEW marks \in [Node -> BOOLEAN],
         NEW n \in Node, ClosedBelow(par, marks, n), marks[n]
  PROVE  MarkedBelow(par, marks, n) = marks
<1> DEFINE P == PathIn(par)
           Q == {k \in Node : n \in P[k] => marks[k]}
<1>1. ASSUME NEW k \in Node, \A m \in Node : m < k => m \in Q PROVE k \in Q
  <2>1. CASE k = n
    BY <2>1
  <2>2. CASE k # n /\ n \in P[k]
    <3>1. par[k] \in Node /\ par[k] < k /\ P[k] = {k} \cup P[par[k]]
      BY <2>2, TreeFacts, PathSteps
    <3>2. marks[par[k]]
      BY <1>1, <2>2, <3>1
    <3> QED BY <2>2, <3>2 DEF ClosedBelow
  <2> QED BY <2>1, <2>2
<1> HIDE DEF Q
<1>2. Node \subseteq Q
  BY <1>1, FromRootDown
<1>3. \A k \in Node : (marks[k] \/ n \in P[k]) = marks[k]
  BY <1>2 DEF Q
<1>4. [k \in Node |-> marks[k] \/ n \in P[k]] = [k \in Node |-> marks[k]]
  BY <1>3
<1> QED BY <1>4 DEF MarkedBelow

\* What prune does to marks that are closed below n and consistent bounds.
PrunesBelow(par, kids, n) ==
  \A marks \in [Node -> BOOLEAN], f \in [Node -> Bound], infeasible \in BOOLEAN :
    ClosedBelow(par, marks, n) /\ Consistent(kids, f, {}) =>
      Pruning(par, kids)[<<<<marks, f>>, n, infeasible>>] =
        <<MarkedBelow(par, marks, n),
          IF infeasible /\ ~ marks[n] THEN AddLowerBound(par, kids, f, n, Inf) ELSE f>>

\* Marking the children's subtrees one after the other.
LEMMA ToldMarks ==
  ASSUME NEW par, NEW kids, Tree(par, kids), NEW n \in Node,
         NEW marks \in [Node -> BOOLEAN], NEW f \in [Node -> Bound], NEW infeasible \in BOOLEAN,
         marks[n], Consistent(kids, f, {}),
         \A i \in 1 .. Len(kids[n]) :
           /\ PrunesBelow(par, kids, kids[n][i])
           /\ ClosedBelow(par, marks, kids[n][i])
           /\ infeasible => f[kids[n][i]] >= Inf
  PROVE  ToldChildren(Pruning(par, kids), kids, <<marks, f>>, n, infeasible) =
           <<MarkedBelow(par, marks, n), f>>
<1> DEFINE P == PathIn(par)
           prune == Pruning(par, kids)
           k == Len(kids[n])
           H(i) == [m \in Node |-> marks[m] \/ \E j \in 1 .. i : kids[n][j] \in P[m]]
<1>1. kids[n] \in Seq(Node) /\ k \in Nat
      /\ \A i \in 1 .. k : kids[n][i] \in Node /\ kids[n][i] \notin P[n]
  BY TreeFacts, PathSteps
<1>2. PICK told : OneByOne(told, PruneStates, prune, kids, <<marks, f>>, n, infeasible)
  <2>1. <<marks, f>> \in PruneStates
    BY DEF PruneStates
  <2>2. StaysIn(PruneStates, prune, kids, n, infeasible)
    BY <1>1, PruningFacts DEF StaysIn
  <2> HIDE DEF prune
  <2> QED BY <1>1, <2>1, <2>2, ToldExists
<1>3. /\ told[0] = <<marks, f>>
      /\ ToldChildren(prune, kids, <<marks, f>>, n, infeasible) = told[k]
      /\ \A i \in 1 .. k : told[i] = prune[<<told[i - 1], kids[n][i], infeasible>>]
  BY <1>2 DEF OneByOne
<1>4. \A m \in Node : /\ n \in P[m] /\ m # n => \E i \in 1 .. k : kids[n][i] \in P[m]
                      /\ \A i, j \in 1 .. k : kids[n][i] \in P[m] /\ kids[n][j] \in P[m] => i = j
  BY BelowOneChild
<1> HIDE DEF prune, k, P
<1>5. ASSUME NEW i \in 1 .. k
      PROVE  prune[<<<<H(i - 1), f>>, kids[n][i], infeasible>>] = <<H(i), f>>
  <2> DEFINE c == kids[n][i]
             h == H(i - 1)
  <2>1. c \in Node /\ c \notin P[n] /\ c \in P[c]
    BY <1>1, PathFacts DEF P
  <2>2. h \in [Node -> BOOLEAN]
    OBVIOUS
  <2>3. ASSUME NEW m \in Node, c \in P[m] PROVE h[m] <=> marks[m]
    <3>1. \A j \in 1 .. i - 1 : j \in 1 .. k /\ j # i
      BY <1>1
    <3>2. ~ \E j \in 1 .. i - 1 : kids[n][j] \in P[m]
      BY <1>4, <2>3, <3>1
    <3> QED BY <3>2
  <2>4. ClosedBelow(par, marks, c)
    BY DEF k
  <2>5. ClosedBelow(par, h, c)
    <3>1. ASSUME NEW m \in Node, c \in P[m], m # c, h[par[m]] PROVE h[m]
      <4>1. par[m] \in Node /\ P[m] = {m} \cup P[par[m]]
        BY <3>1, TreeFacts, PathSteps DEF P
      <4>2. c \in P[par[m]]
        BY <3>1, <4>1
      <4> HIDE DEF h, c
      <4>3. marks[par[m]]
        BY <2>3, <3>1, <4>1, <4>2
      <4>4. marks[m]
        BY <2>4, <3>1, <4>3 DEF ClosedBelow, P
      <4> QED BY <2>3, <3>1, <4>4
    <3> HIDE DEF h, c
    <3> QED BY <3>1 DEF ClosedBelow, P
  <2>6. PrunesBelow(par, kids, c) /\ (infeasible => f[c] >= Inf)
    BY DEF k
  <2> HIDE DEF c, h
  <2>7. prune[<<<<h, f>>, c, infeasible>>] =
          <<MarkedBelow(par, h, c),
            IF infeasible /\ ~ h[c] THEN AddLowerBound(par, kids, f, c, Inf) ELSE f>>
    BY <2>2, <2>5, <2>6 DEF PrunesBelow, prune
  <2>8. infeasible => AddLowerBound(par, kids, f, c, Inf) = f
    BY <2>1, <2>6, BoundFacts, NothingNew DEF AddLowerBound
  <2>9. ASSUME NEW m \in Node PROVE (h[m] \/ c \in P[m]) <=> H(i)[m]
    <3>1. (\E j \in 1 .. i : kids[n][j] \in P[m]) <=>
             (\E j \in 1 .. i - 1 : kids[n][j] \in P[m]) \/ c \in P[m]
      <4>1. i \in Nat /\ i \in 1 .. i /\ \A j \in 1 .. i : j \in 1 .. i - 1 \/ j = i
        BY <1>1
      <4>2. \A j \in 1 .. i - 1 : j \in 1 .. i
        BY <1>1
      <4> QED BY <4>1, <4>2 DEF c
    <3> QED BY <3>1 DEF h
  <2>10. MarkedBelow(par, h, c) = H(i)
    BY <2>9 DEF MarkedBelow, P
  <2> QED BY <2>7, <2>8, <2>10 DEF h, c
<1>6. H(0) = marks
  <2>1. \A m \in Node : (marks[m] \/ \E j \in 1 .. 0 : kids[n][j] \in P[m]) = marks[m]
    OBVIOUS
  <2>2. H(0) = [m \in Node |-> marks[m]]
    BY <2>1
  <2> QED BY <2>2
<1> DEFINE T == {i \in 0 .. k : told[i] = <<H(i), f>>}
<1>7. told[k] = <<H(k), f>>
  <2>1. 0 \in T
    BY <1>1, <1>3, <1>6
  <2>2. ASSUME NEW i \in 1 .. k, i - 1 \in T PROVE i \in T
    <3> HIDE DEF H
    <3>1. told[i - 1] = <<H(i - 1), f>> /\ i \in 0 .. k
      BY <1>1, <2>2
    <3> QED BY <1>3, <1>5, <3>1
  <2> HIDE DEF T
  <2>3. 0 .. k \subseteq T
    BY <1>1, <2>1, <2>2, IntervalInduction
  <2>4. k \in T
    BY <1>1, <2>3
  <2> QED BY <2>4 DEF T
<1>8. ASSUME NEW m \in Node PROVE H(k)[m] <=> (marks[m] \/ n \in P[m])
  <2>1. \A i \in 1 .. k : P[kids[n][i]] = {kids[n][i]} \cup P[n] /\ n \in P[n]
    BY PathSteps, PathFacts DEF P, k
  <2>2. \A i \in 1 .. k : kids[n][i] \in P[m] => n \in P[m]
    BY <1>1, <2>1, PathFacts DEF P
  <2> QED BY <1>4, <2>2
<1>9. H(k) = MarkedBelow(par, marks, n)
  BY <1>8 DEF MarkedBelow, P
<1> QED BY <1>3, <1>7, <1>9 DEF prune

LEMMA PruneDown ==
  ASSUME NEW par, NEW kids, Tree(par, kids)
  PROVE  \A n \in Node : PrunesBelow(par, kids, n)
<1> DEFINE P == PathIn(par)
           prune == Pruning(par, kids)
           Q == {n \in Node : PrunesBelow(par, kids, n)}
<1>1. ASSUME NEW n \in Node, \A c \in Node : n < c => c \in Q,
             NEW marks \in [Node -> BOOLEAN], NEW f \in [Node -> Bound],
             NEW infeasible \in BOOLEAN,
             ClosedBelow(par, marks, n), Consistent(kids, f, {})
      PROVE  prune[<<<<marks, f>>, n, infeasible>>] =
               <<MarkedBelow(par, marks, n),
                 IF infeasible /\ ~ marks[n] THEN AddLowerBound(par, kids, f, n, Inf) ELSE f>>
  <2>1. prune[<<<<marks, f>>, n, infeasible>>] =
          PrunedWith(prune, par, kids, <<marks, f>>, n, infeasible)
    <3>1. <<marks, f>> \in PruneStates
      BY DEF PruneStates
    <3> QED BY <3>1, PruningFacts
  <2>2. <<marks, f>>[1] = marks /\ <<marks, f>>[2] = f
    OBVIOUS
  <2>3. CASE marks[n]
    <3>1. MarkedBelow(par, marks, n) = marks
      BY <1>1, <2>3, MarksReach
    <3> HIDE DEF prune
    <3>2. prune[<<<<marks, f>>, n, infeasible>>] = <<marks, f>>
      BY <2>1, <2>2, <2>3 DEF PrunedWith
    <3> QED BY <2>3, <3>1, <3>2
  <2>4. CASE ~ marks[n]
    <3> DEFINE m1 == [marks EXCEPT ![n] = TRUE]
               f1 == IF infeasible THEN AddLowerBound(par, kids, f, n, Inf) ELSE f
    <3>1. m1 \in [Node -> BOOLEAN] /\ m1[n] /\ \A m \in Node : m # n => (m1[m] <=> marks[m])
      OBVIOUS
    <3>2. prune[<<<<marks, f>>, n, infeasible>>] =
            ToldChildren(prune, kids, <<m1, f1>>, n, infeasible)
      <4> HIDE DEF prune
      <4> QED BY <2>1, <2>2, <2>4 DEF PrunedWith, PrunedHere
    <3>3. /\ f1 \in [Node -> Bound] /\ Consistent(kids, f1, {})
          /\ infeasible => \A m \in Node : n \in P[m] => f1[m] >= Inf
      <4>1. CASE ~ infeasible
        BY <1>1, <4>1
      <4>2. CASE infeasible
        <5>1. AddedRight(par, kids, f, n, Inf, f1)
          BY <1>1, <4>2, AddedIsRight, BoundFacts
        <5> HIDE DEF f1
        <5>2. ASSUME NEW m \in Node, n \in P[m] PROVE f1[m] >= Inf
          <6>1. f1[m] = Greater(f[m], Inf) /\ f[m] \in Nat /\ Inf \in Nat
            BY <5>1, <5>2, BoundFacts DEF AddedRight
          <6> QED BY <6>1 DEF Greater
        <5> QED BY <5>1, <5>2 DEF AddedRight, Grown
      <4> QED BY <4>1, <4>2
    <3> HIDE DEF m1, f1
    <3>4. ASSUME NEW i \in 1 .. Len(kids[n])
          PROVE  /\ PrunesBelow(par, kids, kids[n][i])
                 /\ ClosedBelow(par, m1, kids[n][i])
                 /\ infeasible => f1[kids[n][i]] >= Inf
      <4> DEFINE c == kids[n][i]
      <4>1. /\ c \in Node /\ n < c /\ c \notin P[n] /\ n \in P[n] /\ P[c] = {c} \cup P[n]
        BY TreeFacts, PathSteps, PathFacts
      <4>2. c \in Q
        BY <1>1, <4>1
      <4> HIDE DEF c
      <4>3. ASSUME NEW m \in Node, c \in P[m], m # c, m1[par[m]] PROVE m1[m]
        <5>1. par[m] \in Node /\ P[m] = {m} \cup P[par[m]]
          BY <4>3, TreeFacts, PathSteps
        <5>2. par[m] # n /\ m # n /\ n \in P[m]
          <6>1. P[c] \subseteq P[m]
            BY <4>3, PathFacts
          <6> QED BY <4>1, <4>3, <5>1, <6>1
        <5>3. marks[par[m]]
          BY <3>1, <4>3, <5>1, <5>2
        <5>4. marks[m]
          BY <1>1, <5>2, <5>3 DEF ClosedBelow
        <5> QED BY <3>1, <5>2, <5>4
      <4>4. ClosedBelow(par, m1, c)
        BY <4>3 DEF ClosedBelow
      <4>5. infeasible => f1[c] >= Inf
        BY <3>3, <4>1
      <4> QED BY <4>2, <4>4, <4>5 DEF c
    <3>5. ToldChildren(prune, kids, <<m1, f1>>, n, infeasible) = <<MarkedBelow(par, m1, n), f1>>
      <4> HIDE DEF Q, P
      <4> QED BY <1>1, <3>1, <3>3, <3>4, ToldMarks
    <3>6. MarkedBelow(par, m1, n) = MarkedBelow(par, marks, n)
      <4>1. n \in P[n]
        BY PathFacts
      <4>2. \A m \in Node : (m1[m] \/ n \in P[m]) <=> (marks[m] \/ n \in P[m])
        BY <3>1, <4>1
      <4> QED BY <4>2 DEF MarkedBelow
    <3>7. f1 = IF infeasible /\ ~ marks[n] THEN AddLowerBound(par, kids, f, n, Inf) ELSE f
      BY <2>4 DEF f1
    <3> QED BY <3>2, <3>5, <3>6, <3>7
  <2> QED BY <2>3, <2>4
<1>2. ASSUME NEW n \in Node, \A c \in Node : n < c => c \in Q PROVE n \in Q
  <2> HIDE DEF Q
  <2>1. PrunesBelow(par, kids, n)
    BY <1>1, <1>2 DEF PrunesBelow
  <2> QED BY <2>1 DEF Q
<1> HIDE DEF Q
<1>3. Node \subseteq Q
  BY <1>2, FromLeavesUp
<1> QED BY <1>3 DEF Q

----------------------------------------------------------------------------
(* The invariant *)

\* Nothing unmarked has a marked parent.
Closed(par, marks) == \A k \in Node : par[k] # 0 /\ marks[par[k]] => marks[k]

TreeInv ==
  /\ Tree(parent, children)
  /\ \E k \in 1 .. MaxNodes : Nodes = 1 .. k
  /\ \A n \in Node : Len(children[n]) <= Fanout /\ (children[n] # <<>> => n \in Nodes)
  /\ lb \in [Node -> Bound] /\ Consistent(children, lb, {})
  /\ pruned \in [Node -> BOOLEAN] /\ Closed(parent, pruned)

LEMMA NodesOfTree ==
  ASSUME TreeInv
  PROVE  /\ Cardinality(Nodes) \in 1 .. MaxNodes /\ Nodes = 1 .. Cardinality(Nodes)
         /\ Nodes \subseteq Node /\ parent[Root] = 0
         /\ \A n \in Node : parent[n] # 0 => n \in Nodes /\ parent[n] \in Nodes
         /\ \A n \in Node : \A i \in 1 .. Len(children[n]) : children[n][i] \in Nodes
<1>1. PICK k \in 1 .. MaxNodes : Nodes = 1 .. k
  BY DEF TreeInv
<1>2. Cardinality(Nodes) = k
  <2>1. \A i \in Nat : Cardinality(1 .. i) = i
    BY FS_Interval
  <2>2. k \in Nat
    BY NodeTreeAssumption
  <2> QED BY <1>1, <2>1, <2>2
<1>3. Nodes \subseteq Node
  BY DEF Nodes
<1>4. Tree(parent, children)
  BY DEF TreeInv
<1>5. parent[Root] = 0
  <2>1. parent[Root] \in Nat /\ parent[Root] < Root
    BY <1>4, NodesAreNat DEF Tree
  <2> QED BY <2>1 DEF Root
<1>6. ASSUME NEW n \in Node, parent[n] # 0 PROVE n \in Nodes /\ parent[n] \in Nodes
  <2>1. n \in Nodes
    BY <1>6 DEF Nodes
  <2>2. parent[n] \in Node /\ parent[n] < n
    BY <1>4, <1>6, TreeFacts
  <2>3. parent[n] \in Nat /\ parent[n] # 0 /\ n \in Nat
    BY <2>2, NodesAreNat
  <2> QED BY <1>1, <2>1, <2>2, <2>3
<1>7. ASSUME NEW n \in Node, NEW i \in 1 .. Len(children[n]) PROVE children[n][i] \in Nodes
  <2>1. children[n][i] \in Node /\ parent[children[n][i]] = n /\ n # 0
    BY <1>4, TreeFacts, NodesAreNat
  <2> QED BY <2>1 DEF Nodes
<1> QED BY <1>1, <1>2, <1>3, <1>5, <1>6, <1>7

\* What lies above a node of the tree, and what lies below it, is in the tree.
Present(par) == {m \in Node : m = Root \/ par[m] # 0}

LEMMA PathsPresent ==
  ASSUME NEW par, NEW kids, Tree(par, kids), NEW n \in Present(par),
         \A m \in Node : par[m] # 0 => par[m] \in Present(par)
  PROVE  /\ PathIn(par)[n] \subseteq Present(par)
         /\ \A m \in Node : n \in PathIn(par)[m] => m \in Present(par)
<1> DEFINE P == PathIn(par)
           Q == {m \in Node : m \in Present(par) => P[m] \subseteq Present(par)}
<1>1. ASSUME NEW m \in Node, \A k \in Node : k < m => k \in Q PROVE m \in Q
  <2>1. CASE par[m] = 0
    BY <2>1, PathSteps
  <2>2. CASE par[m] # 0
    <3>1. par[m] \in Node /\ par[m] < m /\ P[m] = {m} \cup P[par[m]]
      BY <2>2, TreeFacts, PathSteps
    <3> QED BY <1>1, <2>2, <3>1
  <2> QED BY <2>1, <2>2
<1> HIDE DEF Q
<1>2. Node \subseteq Q
  BY <1>1, FromRootDown
<1>3. P[n] \subseteq Present(par)
  BY <1>2 DEF Present, Q
<1>4. ASSUME NEW m \in Node, n \in P[m] PROVE m \in Present(par)
  <2>1. par[m] = 0 => P[m] = {m}
    BY PathSteps
  <2> QED BY <1>4, <2>1 DEF Present
<1> QED BY <1>3, <1>4

LEMMA PathsInNodes ==
  ASSUME TreeInv, NEW n \in Nodes
  PROVE  /\ Path[n] \subseteq Nodes
         /\ \A m \in Node : n \in Path[m] => m \in Nodes
<1>1. Tree(parent, children) /\ Nodes = Present(parent)
  BY DEF TreeInv, Nodes, Present
<1>2. \A m \in Node : parent[m] # 0 => parent[m] \in Present(parent)
  BY <1>1, NodesOfTree
<1> QED BY <1>1, <1>2, PathsPresent DEF Path

LEMMA LeavesOfTree ==
  ASSUME TreeInv, NEW n \in Nodes
  PROVE  LeavesAround(parent, children, Leaves, n)
<1>1. \A a \in Path[n] : \A m \in Node : a \in Path[m] => m \in Nodes
  BY PathsInNodes
<1>2. Leaves \subseteq Node /\ \A m \in Nodes : m \in Leaves <=> children[m] = <<>>
  BY DEF Leaves, Nodes
<1> QED BY <1>1, <1>2 DEF LeavesAround, Path

LEMMA ClosedFacts ==
  ASSUME NEW par, NEW kids, Tree(par, kids), NEW marks \in [Node -> BOOLEAN],
         Closed(par, marks), NEW n \in Node
  PROVE  /\ ClosedBelow(par, marks, n)
         /\ MarkedBelow(par, marks, n) \in [Node -> BOOLEAN]
         /\ Closed(par, MarkedBelow(par, marks, n))
<1>1. ClosedBelow(par, marks, n)
  <2>1. ASSUME NEW k \in Node, n \in PathIn(par)[k], k # n, marks[par[k]] PROVE marks[k]
    <3>1. par[k] # 0
      BY <2>1, PathSteps
    <3> QED BY <2>1, <3>1 DEF Closed
  <2> QED BY <2>1 DEF ClosedBelow
<1>2. MarkedBelow(par, marks, n) \in [Node -> BOOLEAN]
  BY DEF MarkedBelow
<1>3. ASSUME NEW k \in Node, par[k] # 0, MarkedBelow(par, marks, n)[par[k]]
      PROVE  MarkedBelow(par, marks, n)[k]
  <2>1. par[k] \in Node /\ PathIn(par)[k] = {k} \cup PathIn(par)[par[k]]
    BY <1>3, TreeFacts, PathSteps
  <2>2. marks[par[k]] \/ n \in PathIn(par)[par[k]]
    BY <1>3, <2>1 DEF MarkedBelow
  <2>3. marks[k] \/ n \in PathIn(par)[k]
    BY <1>3, <2>1, <2>2 DEF Closed
  <2> QED BY <2>3 DEF MarkedBelow
<1> QED BY <1>1, <1>2, <1>3 DEF Closed

\* What prune computes.
LEMMA PrunedFacts ==
  ASSUME TreeInv, NEW n \in Node, NEW infeasible \in BOOLEAN
  PROVE  /\ Pruned(infeasible, n)[1] = MarkedBelow(parent, pruned, n)
         /\ Pruned(infeasible, n)[2] =
              IF infeasible /\ ~ pruned[n] THEN AddLowerBound(parent, children, lb, n, Inf)
              ELSE lb
<1>1. /\ Tree(parent, children) /\ pruned \in [Node -> BOOLEAN] /\ lb \in [Node -> Bound]
      /\ Consistent(children, lb, {}) /\ Closed(parent, pruned)
  BY DEF TreeInv
<1>2. ClosedBelow(parent, pruned, n)
  BY <1>1, ClosedFacts
<1>3. PrunesBelow(parent, children, n)
  BY <1>1, PruneDown
<1>4. Pruned(infeasible, n) =
        <<MarkedBelow(parent, pruned, n),
          IF infeasible /\ ~ pruned[n] THEN AddLowerBound(parent, children, lb, n, Inf) ELSE lb>>
  BY <1>1, <1>2, <1>3 DEF PrunesBelow, Pruned
<1> QED BY <1>4

LEMMA AddedKeeps ==
  ASSUME TreeInv, NEW n \in Node, NEW l \in Bound
  PROVE  /\ AddLowerBound(parent, children, lb, n, l) \in [Node -> Bound]
         /\ Consistent(children, AddLowerBound(parent, children, lb, n, l), {})
<1>1. Tree(parent, children) /\ lb \in [Node -> Bound] /\ Consistent(children, lb, {})
  BY DEF TreeInv
<1>2. AddedRight(parent, children, lb, n, l, AddLowerBound(parent, children, lb, n, l))
  BY <1>1, AddedIsRight
<1> QED BY <1>2 DEF AddedRight, Grown

LEMMA InitTreeInv ==
  ASSUME Init
  PROVE  TreeInv
<1>1. parent = [n \in Node |-> 0] /\ children = [n \in Node |-> <<>>]
  BY DEF Init
<1>2. Tree(parent, children)
  <2>1. \A n \in Node : parent[n] = 0 /\ children[n] = <<>> /\ Len(children[n]) = 0 /\ 0 < n
    BY <1>1, NodesAreNat
  <2>2. parent \in [Node -> Nat] /\ children \in [Node -> Seq(Node)]
    BY <1>1
  <2> QED BY <2>1, <2>2 DEF Tree
<1>3. Nodes = 1 .. 1 /\ 1 \in 1 .. MaxNodes
  <2>1. Root \in Node /\ \A n \in Node : parent[n] = 0
    BY <1>1, NodesAreNat
  <2>2. Nodes = {Root}
    BY <2>1 DEF Nodes
  <2> QED BY <2>2, NodeTreeAssumption DEF Root
<1>4. \A n \in Node : Len(children[n]) <= Fanout /\ (children[n] # <<>> => n \in Nodes)
  BY <1>1, NodeTreeAssumption
<1>5. lb \in [Node -> Bound] /\ Consistent(children, lb, {})
  <2>1. lb \in [Node -> Bound]
    BY NodeTreeAssumption DEF Init, Bound
  <2> QED BY <1>1, <2>1 DEF Consistent
<1>6. pruned \in [Node -> BOOLEAN] /\ Closed(parent, pruned)
  BY <1>1 DEF Init, Closed
<1> QED BY <1>2, <1>3, <1>4, <1>5, <1>6 DEF TreeInv

LEMMA PruneTreeInv ==
  ASSUME TreeInv, NEW n \in Node, NEW infeasible \in BOOLEAN, Prune(n, infeasible)
  PROVE  TreeInv'
<1>1. UNCHANGED <<parent, children>> /\ Nodes' = Nodes
  BY DEF Prune, Nodes
<1>2. pruned' = MarkedBelow(parent, pruned, n)
  BY PrunedFacts DEF Prune
<1>3. lb' = IF infeasible /\ ~ pruned[n] THEN AddLowerBound(parent, children, lb, n, Inf) ELSE lb
  BY PrunedFacts DEF Prune
<1>4. lb' \in [Node -> Bound] /\ Consistent(children, lb', {})
  BY <1>3, AddedKeeps, BoundFacts DEF TreeInv
<1>5. pruned' \in [Node -> BOOLEAN] /\ Closed(parent, pruned')
  BY <1>2, ClosedFacts DEF TreeInv
<1> QED BY <1>1, <1>4, <1>5 DEF TreeInv

LEMMA RaiseTreeInv ==
  ASSUME TreeInv, NEW n \in Node, NEW l \in Values, Raise(n, l)
  PROVE  TreeInv'
<1>1. UNCHANGED <<parent, children, pruned>> /\ Nodes' = Nodes
  BY DEF Raise, Nodes
<1>2. l \in Bound
  BY DEF Bound
<1>3. lb' \in [Node -> Bound] /\ Consistent(children, lb', {})
  BY <1>2, AddedKeeps DEF Raise
<1> QED BY <1>1, <1>3 DEF TreeInv

\* The steps of Branch: the nodes it creates, the children it lists, and the
\* bounds before reevaluate_children.
Created(j) == Cardinality(Nodes) + 1 .. Cardinality(Nodes) + j
Listed(n, j) == [children EXCEPT ![n] = [i \in 1 .. j |-> Cardinality(Nodes) + i]]
Evaluated(n, rs) ==
  [m \in Node |-> IF m \in Created(Len(rs))
                    THEN Greater(rs[m - Cardinality(Nodes)], lb[n]) ELSE lb[m]]

LEMMA CreatedFacts ==
  ASSUME TreeInv, NEW n \in Leaves, NEW j \in 1 .. Fanout, Cardinality(Nodes) + j <= MaxNodes
  PROVE  /\ n \in Nodes /\ n \in Node /\ n # 0 /\ children[n] = <<>> /\ n \notin Created(j)
         /\ Created(j) \subseteq Node /\ Created(j) \cap Nodes = {}
         /\ \A m \in Created(j) :
              parent[m] = 0 /\ children[m] = <<>> /\ n < m
              /\ m - Cardinality(Nodes) \in 1 .. j
         /\ \A i \in 1 .. j : Cardinality(Nodes) + i \in Created(j)
         /\ Nodes \cup Created(j) = 1 .. Cardinality(Nodes) + j
         /\ Cardinality(Nodes) + j \in 1 .. MaxNodes /\ j \in Nat \ {0} /\ j <= Fanout
         /\ \A m \in Node : parent[m] # n
<1> DEFINE c == Cardinality(Nodes)
<1>1. c \in 1 .. MaxNodes /\ Nodes = 1 .. c /\ MaxNodes \in Nat /\ Fanout \in Nat
  BY NodesOfTree, NodeTreeAssumption
<1> HIDE DEF c
<1>2. n \in Nodes /\ n \in Node /\ children[n] = <<>> /\ n # 0
  BY NodesAreNat DEF Leaves, Nodes
<1>3. c + j <= MaxNodes /\ Created(j) = c + 1 .. c + j
  BY DEF Created, c
<1>4. Created(j) \subseteq Node /\ Created(j) \cap Nodes = {} /\ n \notin Created(j)
  BY <1>1, <1>2, <1>3 DEF Node
<1>5. ASSUME NEW m \in Created(j)
      PROVE  parent[m] = 0 /\ children[m] = <<>> /\ n < m /\ m - c \in 1 .. j
  <2>1. m \in Node /\ m \notin Nodes
    BY <1>4
  <2>2. parent[m] = 0
    BY <2>1, NodesOfTree
  <2>3. children[m] = <<>>
    BY <2>1 DEF TreeInv
  <2>4. n < m /\ m - c \in 1 .. j
    BY <1>1, <1>2, <1>3
  <2> QED BY <2>2, <2>3, <2>4
<1>6. ASSUME NEW m \in Node PROVE parent[m] # n
  <2>1. Tree(parent, children) /\ Len(children[n]) = 0
    BY <1>2 DEF TreeInv
  <2>2. parent[m] # 0 => \E i \in 1 .. Len(children[parent[m]]) : children[parent[m]][i] = m
    BY <2>1 DEF Tree
  <2> QED BY <1>2, <2>1, <2>2
<1>7. \A i \in 1 .. j : c + i \in Created(j)
  BY <1>1, <1>3
<1>8. Nodes \cup Created(j) = 1 .. c + j /\ c + j \in 1 .. MaxNodes /\ j \in Nat \ {0} /\ j <= Fanout
  BY <1>1, <1>3
<1> QED BY <1>2, <1>4, <1>5, <1>6, <1>7, <1>8 DEF c

\* The new nodes make a tree again.
LEMMA BranchedTree ==
  ASSUME TreeInv, NEW n \in Leaves, NEW j \in 1 .. Fanout, Cardinality(Nodes) + j <= MaxNodes
  PROVE  Tree(Adopted(n, Created(j)), Listed(n, j))
<1> DEFINE c == Cardinality(Nodes)
           par == Adopted(n, Created(j))
           kids == Listed(n, j)
<1>1. /\ n \in Nodes /\ n \in Node /\ n # 0 /\ children[n] = <<>> /\ n \notin Created(j)
      /\ Created(j) \subseteq Node /\ Created(j) \cap Nodes = {}
      /\ \A m \in Created(j) : parent[m] = 0 /\ children[m] = <<>> /\ n < m /\ m - c \in 1 .. j
      /\ \A i \in 1 .. j : c + i \in Created(j)
      /\ j \in Nat \ {0}
      /\ \A m \in Node : parent[m] # n
  BY CreatedFacts
<1>2. Tree(parent, children) /\ c \in Nat
  BY NodesOfTree DEF TreeInv
<1> HIDE DEF c
<1>3. \A m \in Node : par[m] = IF m \in Created(j) THEN n ELSE parent[m]
  BY DEF Adopted
<1>4. /\ kids[n] = [i \in 1 .. j |-> c + i]
      /\ \A m \in Node : m # n => kids[m] = children[m]
  BY <1>1, <1>2 DEF Listed, c, Tree
<1>5. kids[n] \in Seq(Node) /\ Len(kids[n]) = j /\ \A i \in 1 .. j : kids[n][i] = c + i
  BY <1>1, <1>4
<1>6. par \in [Node -> Nat]
  <2>1. \A m \in Node : par[m] \in Nat
    BY <1>1, <1>2, <1>3, NodesAreNat DEF Tree
  <2> QED BY <2>1 DEF Adopted
<1>7. kids \in [Node -> Seq(Node)]
  <2>1. \A m \in Node : kids[m] \in Seq(Node)
    BY <1>2, <1>4, <1>5 DEF Tree
  <2>2. kids = [m \in Node |-> kids[m]]
    BY <1>2 DEF Listed, Tree
  <2> HIDE DEF kids
  <2> QED BY <2>1, <2>2
<1> HIDE DEF par, kids
<1>8. \A m \in Node : par[m] < m
  BY <1>1, <1>2, <1>3 DEF Tree
<1>9. ASSUME NEW m \in Node, NEW i \in 1 .. Len(kids[m]) PROVE par[kids[m][i]] = m
  <2>1. CASE m = n
    <3>1. kids[m][i] \in Created(j)
      BY <1>1, <1>5, <1>9, <2>1
    <3> QED BY <1>1, <1>3, <2>1, <3>1
  <2>2. CASE m # n
    <3>1. kids[m] = children[m] /\ children[m][i] \in Node /\ parent[children[m][i]] = m /\ m # 0
      BY <1>2, <1>4, <1>9, <2>2, TreeFacts, NodesAreNat
    <3>2. children[m][i] \notin Created(j)
      BY <1>1, <3>1
    <3> QED BY <1>3, <3>1, <3>2
  <2> QED BY <2>1, <2>2
<1>10. ASSUME NEW m \in Node, par[m] # 0
       PROVE  \E i \in 1 .. Len(kids[par[m]]) : kids[par[m]][i] = m
  <2>1. CASE m \in Created(j)
    <3>1. par[m] = n /\ m - c \in 1 .. j
      BY <1>1, <1>3, <2>1
    <3>2. kids[n][m - c] = m
      <4>1. m \in Nat
        BY NodesAreNat
      <4>2. kids[n][m - c] = c + (m - c)
        BY <1>5, <3>1
      <4> QED BY <1>2, <4>1, <4>2
    <3> QED BY <1>5, <3>1, <3>2
  <2>2. CASE m \notin Created(j)
    <3>1. par[m] = parent[m] /\ parent[m] # n /\ parent[m] # 0
      BY <1>1, <1>3, <1>10, <2>2
    <3>2. parent[m] \in Node /\ kids[parent[m]] = children[parent[m]]
      BY <1>2, <1>4, <3>1, TreeFacts
    <3>3. \E i \in 1 .. Len(children[parent[m]]) : children[parent[m]][i] = m
      BY <1>2, <3>1 DEF Tree
    <3> QED BY <3>1, <3>2, <3>3
  <2> QED BY <2>1, <2>2
<1>11. ASSUME NEW m \in Node, NEW i \in 1 .. Len(kids[m]), NEW h \in 1 .. Len(kids[m]),
              kids[m][i] = kids[m][h]
       PROVE  i = h
  <2>1. CASE m = n
    <3>1. c + i = c + h /\ i \in Nat /\ h \in Nat
      BY <1>1, <1>5, <1>11, <2>1
    <3> QED BY <1>2, <3>1
  <2>2. CASE m # n
    <3>1. kids[m] = children[m]
      BY <1>4, <2>2
    <3>2. \A a, b \in 1 .. Len(children[m]) : children[m][a] = children[m][b] => a = b
      BY <1>2 DEF Tree
    <3> QED BY <1>11, <3>1, <3>2
  <2> QED BY <2>1, <2>2
<1>12. Tree(par, kids)
  BY <1>6, <1>7, <1>8, <1>9, <1>10, <1>11 DEF Tree
<1> QED BY <1>12 DEF par, kids

\* Before reevaluate_children nothing but the bound of n may be too small.
LEMMA BranchedStale ==
  ASSUME TreeInv, NEW n \in Leaves, NEW j \in 1 .. Fanout, Cardinality(Nodes) + j <= MaxNodes,
         NEW rs \in [1 .. j -> Values]
  PROVE  /\ Len(rs) = j
         /\ Evaluated(n, rs) \in [Node -> Bound]
         /\ \A m \in Node : m \notin Created(j) => Evaluated(n, rs)[m] = lb[m]
         /\ StaleAt(Listed(n, j), Evaluated(n, rs), {}, n)
<1> DEFINE c == Cardinality(Nodes)
           par == Adopted(n, Created(j))
           kids == Listed(n, j)
           f == Evaluated(n, rs)
<1>1. /\ n \in Node /\ n # 0 /\ n \notin Created(j)
      /\ \A m \in Created(j) : m \in Node /\ parent[m] = 0 /\ m - c \in 1 .. j
      /\ \A i \in 1 .. j : c + i \in Created(j)
      /\ j \in Nat \ {0}
  BY CreatedFacts
<1>2. /\ Tree(parent, children) /\ Tree(par, kids) /\ lb \in [Node -> Bound]
      /\ Consistent(children, lb, {})
  BY BranchedTree DEF TreeInv
<1>3. Len(rs) = j
  BY <1>1
<1>4. \A m \in Node : f[m] = IF m \in Created(j) THEN Greater(rs[m - c], lb[n]) ELSE lb[m]
  BY <1>3 DEF Evaluated
<1>5. f \in [Node -> Bound]
  <2>1. ASSUME NEW m \in Node PROVE f[m] \in Bound
    <3>1. m \in Created(j) => rs[m - c] \in Values
      BY <1>1
    <3> QED BY <1>1, <1>2, <1>4, <3>1 DEF Greater, Bound
  <2> QED BY <2>1 DEF Evaluated
<1>6. /\ kids[n] = [i \in 1 .. j |-> c + i]
      /\ \A m \in Node : m # n => kids[m] = children[m]
  BY <1>1, <1>2 DEF Listed, Tree
<1>7. kids[n] # <<>> /\ Len(kids[n]) = j /\ \A i \in 1 .. j : kids[n][i] = c + i
  BY <1>1, <1>6
<1> HIDE DEF f, kids, par, c
<1>8. f[n] <= LeastOfKids(kids, f, n)
  <2>1. PICK i \in 1 .. Len(kids[n]) : LeastOfKids(kids, f, n) = f[kids[n][i]]
    <3>1. kids[n] # <<>> /\ Tree(par, kids)
      BY <1>2, <1>7
    <3>2. n \in Node
      BY <1>1
    <3> QED BY <1>5, <3>1, <3>2, LeastFacts
  <2>2. kids[n][i] \in Created(j) /\ kids[n][i] - c \in 1 .. j /\ kids[n][i] \in Node
    BY <1>1, <1>7, <2>1
  <2>3. rs[kids[n][i] - c] \in Nat /\ lb[n] \in Nat
    BY <1>1, <1>2, <2>2, NodeTreeAssumption, BoundFacts
  <2>4. f[kids[n][i]] = Greater(rs[kids[n][i] - c], lb[n]) /\ f[n] = lb[n]
    BY <1>1, <1>4, <2>2
  <2> QED BY <2>1, <2>3, <2>4 DEF Greater
<1>9. ASSUME NEW m \in Node, kids[m] # <<>>, m # n PROVE f[m] = LeastOfKids(kids, f, m)
  <2>1. kids[m] = children[m] /\ m \notin Created(j)
    BY <1>6, <1>9, CreatedFacts
  <2>2. ASSUME NEW i \in 1 .. Len(children[m]) PROVE f[children[m][i]] = lb[children[m][i]]
    <3>1. children[m][i] \in Node /\ parent[children[m][i]] = m /\ m # 0
      BY <1>2, TreeFacts, NodesAreNat
    <3>2. children[m][i] \notin Created(j)
      BY <1>1, <3>1
    <3> QED BY <1>4, <3>1, <3>2
  <2>3. LeastOfKids(children, f, m) = LeastOfKids(children, lb, m)
    BY <1>2, <2>2, SameLeast
  <2>4. LeastOfKids(kids, f, m) = LeastOfKids(children, f, m)
    BY <2>1 DEF LeastOfKids
  <2>5. lb[m] = LeastOfKids(children, lb, m)
    BY <1>2, <1>9, <2>1 DEF Consistent
  <2> QED BY <1>4, <2>1, <2>3, <2>4, <2>5
<1>10. StaleAt(kids, f, {}, n)
  BY <1>7, <1>8, <1>9 DEF StaleAt, Consistent
<1> QED BY <1>3, <1>4, <1>5, <1>10 DEF f, kids

LEMMA BranchSteps ==
  ASSUME TreeInv, NEW n \in Node, NEW j \in 1 .. Fanout, NEW rs \in [1 .. j -> Values],
         Branch(n, rs)
  PROVE  /\ n \in Leaves /\ Cardinality(Nodes) + j <= MaxNodes /\ ~ pruned[n]
         /\ parent' = Adopted(n, Created(j)) /\ children' = Listed(n, j) /\ pruned' = pruned
         /\ Nodes' = Nodes \cup Created(j)
         /\ Tree(parent', children')
         /\ Evaluated(n, rs) \in [Node -> Bound]
         /\ Repaired(parent', children', Evaluated(n, rs), {}, n, lb')
<1>1. j \in Nat /\ Len(rs) = j
  BY NodeTreeAssumption
<1>2. /\ n \in Leaves /\ Cardinality(Nodes) + j <= MaxNodes /\ ~ pruned[n]
      /\ parent' = Adopted(n, Created(j)) /\ children' = Listed(n, j) /\ pruned' = pruned
      /\ lb' = Reevaluated(Adding(parent', children'), children', Evaluated(n, rs), n)
  BY <1>1 DEF Branch, Created, Listed, Evaluated
<1>3. Tree(parent', children')
  BY <1>2, BranchedTree
<1>4. Evaluated(n, rs) \in [Node -> Bound] /\ StaleAt(children', Evaluated(n, rs), {}, n)
  BY <1>2, BranchedStale
<1>5. Repaired(parent', children', Evaluated(n, rs), {}, n, lb')
  <2>1. {} \cap PathIn(parent')[n] = {}
    OBVIOUS
  <2> QED BY <1>2, <1>3, <1>4, <2>1, AddUp
<1>6. Nodes' = Nodes \cup Created(j)
  <2>1. /\ n # 0 /\ Created(j) \subseteq Node
        /\ \A m \in Created(j) : parent[m] = 0
    BY <1>2, CreatedFacts
  <2>2. \A m \in Node : parent'[m] = IF m \in Created(j) THEN n ELSE parent[m]
    BY <1>2 DEF Adopted
  <2>3. \A m \in Node : m \in Nodes' <=> m \in Nodes \cup Created(j)
    BY <2>1, <2>2 DEF Nodes
  <2>4. Nodes' \subseteq Node /\ Nodes \subseteq Node
    BY DEF Nodes
  <2> QED BY <2>1, <2>3, <2>4
<1> QED BY <1>2, <1>3, <1>4, <1>5, <1>6

LEMMA BranchTreeInv ==
  ASSUME TreeInv, NEW n \in Node, NEW j \in 1 .. Fanout, NEW rs \in [1 .. j -> Values],
         Branch(n, rs)
  PROVE  TreeInv'
<1>1. /\ n \in Leaves /\ Cardinality(Nodes) + j <= MaxNodes /\ ~ pruned[n]
      /\ parent' = Adopted(n, Created(j)) /\ children' = Listed(n, j) /\ pruned' = pruned
      /\ Nodes' = Nodes \cup Created(j)
      /\ Tree(parent', children')
      /\ Evaluated(n, rs) \in [Node -> Bound]
      /\ Repaired(parent', children', Evaluated(n, rs), {}, n, lb')
  BY BranchSteps
<1>2. /\ n \in Nodes /\ n \in Node /\ Created(j) \subseteq Node /\ n \notin Created(j)
      /\ Nodes \cup Created(j) = 1 .. Cardinality(Nodes) + j
      /\ Cardinality(Nodes) + j \in 1 .. MaxNodes /\ j \in Nat \ {0} /\ j <= Fanout
      /\ \A m \in Node : parent[m] # n
  BY <1>1, CreatedFacts
<1>3. \E k \in 1 .. MaxNodes : Nodes' = 1 .. k
  BY <1>1, <1>2
<1>4. ASSUME NEW m \in Node
      PROVE  Len(children'[m]) <= Fanout /\ (children'[m] # <<>> => m \in Nodes')
  <2>1. children \in [Node -> Seq(Node)]
    BY DEF TreeInv, Tree
  <2>2. CASE m = n
    <3>1. children'[n] = [i \in 1 .. j |-> Cardinality(Nodes) + i]
      BY <1>1, <1>2, <2>1 DEF Listed
    <3>2. Len(children'[n]) = j
      BY <1>2, <3>1
    <3> QED BY <1>1, <1>2, <2>2, <3>2
  <2>3. CASE m # n
    <3>1. children'[m] = children[m]
      BY <1>1, <2>1, <2>3 DEF Listed
    <3> QED BY <1>1, <3>1 DEF TreeInv
  <2> QED BY <2>2, <2>3
<1>5. lb' \in [Node -> Bound] /\ Consistent(children', lb', {})
  BY <1>1 DEF Repaired, Grown
<1>6. pruned' \in [Node -> BOOLEAN]
  BY <1>1 DEF TreeInv
<1>7. ASSUME NEW m \in Node, parent'[m] # 0, pruned'[parent'[m]] PROVE pruned'[m]
  <2>1. CASE m \in Created(j)
    <3>1. parent'[m] = n
      BY <1>1, <1>7, <2>1 DEF Adopted
    <3> QED BY <1>1, <1>7, <3>1
  <2>2. CASE m \notin Created(j)
    <3>1. parent'[m] = parent[m]
      BY <1>1, <1>7, <2>2 DEF Adopted
    <3>2. Closed(parent, pruned)
      BY DEF TreeInv
    <3> QED BY <1>1, <1>7, <3>1, <3>2 DEF Closed
  <2> QED BY <2>1, <2>2
<1>8. Closed(parent', pruned')
  BY <1>7 DEF Closed
<1> QED BY <1>1, <1>3, <1>4, <1>5, <1>6, <1>8 DEF TreeInv


LEMMA BranchedIsPropagated ==
  ASSUME TreeInv, NEW n \in Node, NEW j \in 1 .. Fanout, NEW rs \in [1 .. j -> Values],
         Branch(n, rs)
  PROVE  BranchPropagated(n)
<1> DEFINE f == Evaluated(n, rs)
           new == ToSet(children'[n])
           settled == [a \in Node |->
                         IF a \in new THEN lb'[a]
                         ELSE IF a = n THEN Greater(lb[n], Min({lb'[c] : c \in new}))
                         ELSE lb[a]]
           leaf == (Leaves \ {n}) \cup new
           P == PathIn(parent')
<1>1. /\ n \in Leaves /\ Cardinality(Nodes) + j <= MaxNodes
      /\ parent' = Adopted(n, Created(j)) /\ children' = Listed(n, j)
      /\ Nodes' = Nodes \cup Created(j)
      /\ Tree(parent', children') /\ f \in [Node -> Bound]
      /\ Repaired(parent', children', f, {}, n, lb')
  BY BranchSteps
<1>2. /\ n \in Nodes /\ n \in Node /\ Created(j) \subseteq Node /\ n \notin Created(j)
      /\ Created(j) \cap Nodes = {}
      /\ \A m \in Created(j) : children[m] = <<>> /\ m - Cardinality(Nodes) \in 1 .. j
      /\ \A i \in 1 .. j : Cardinality(Nodes) + i \in Created(j)
      /\ j \in Nat \ {0}
  BY <1>1, CreatedFacts
<1>3. /\ \A m \in Node : m \notin Created(j) => f[m] = lb[m]
      /\ StaleAt(children', f, {}, n)
  BY <1>1, BranchedStale
<1>4. TreeInv' /\ children \in [Node -> Seq(Node)]
  BY BranchTreeInv DEF TreeInv, Tree
<1>5. /\ children'[n] = [i \in 1 .. j |-> Cardinality(Nodes) + i]
      /\ \A m \in Node : m # n => children'[m] = children[m]
  BY <1>1, <1>2, <1>4 DEF Listed
<1>6. new = Created(j)
  <2>1. DOMAIN children'[n] = 1 .. j
    BY <1>5
  <2>2. new = {Cardinality(Nodes) + i : i \in 1 .. j}
    BY <1>5, <2>1 DEF ToSet
  <2>3. ASSUME NEW m \in Created(j) PROVE m \in new
    <3>1. m - Cardinality(Nodes) \in 1 .. j /\ m \in Nat /\ Cardinality(Nodes) \in Nat
      <4>1. Cardinality(Nodes) \in 1 .. MaxNodes
        BY NodesOfTree
      <4> HIDE DEF new
      <4>2. m \in Node
        BY <1>2, <2>3
      <4> QED BY <1>2, <2>3, <4>1, <4>2, NodesAreNat, NodeTreeAssumption
    <3>2. m = Cardinality(Nodes) + (m - Cardinality(Nodes))
      BY <3>1
    <3> QED BY <2>2, <3>1, <3>2
  <2> QED BY <1>2, <2>2, <2>3
<1>7. /\ lb' \in Grown(f) /\ lb' \in [Node -> Bound] /\ Consistent(children', lb', {})
      /\ \A m \in Node : m \notin P[n] => lb'[m] = f[m]
  BY <1>1 DEF Repaired, Grown
<1>8. Min({lb'[c] : c \in new}) = lb'[n] /\ lb[n] <= lb'[n] /\ lb[n] \in Nat /\ lb'[n] \in Nat
  <2>1. children'[n] # <<>>
    BY <1>3 DEF StaleAt
  <2>2. lb'[n] = LeastOfKids(children', lb', n)
    BY <1>2, <1>7, <2>1 DEF Consistent
  <2>3. f[n] <= lb'[n] /\ f[n] = lb[n]
    BY <1>2, <1>3, <1>7 DEF Grown
  <2>4. f[n] \in Nat /\ lb'[n] \in Nat
    BY <1>1, <1>7, BoundFacts
  <2> QED BY <2>2, <2>3, <2>4 DEF LeastOfKids
<1>9. \A a \in Node : settled[a] = IF a \in new \cup {n} THEN lb'[a] ELSE lb[a]
  BY <1>8 DEF Greater
<1> HIDE DEF f, new, settled, leaf, P
<1>10. \A a \in Node : settled[a] \in Bound /\ settled[a] <= lb'[a] /\ lb'[a] \in Nat
  <2>1. \A a \in Node : lb'[a] \in Bound /\ lb'[a] \in Nat /\ f[a] \in Bound /\ f[a] <= lb'[a]
    BY <1>1, <1>7, BoundFacts DEF Grown
  <2> QED BY <1>3, <1>6, <1>9, <2>1
<1>11. settled \in [Node -> Bound] /\ lb' \in Grown(settled)
  <2>1. settled \in [Node -> Bound]
    <3>1. settled = [a \in Node |-> settled[a]]
      BY DEF settled
    <3> QED BY <1>10, <3>1
  <2> QED BY <1>7, <1>10, <2>1 DEF Grown
<1>12. ASSUME NEW m \in Node, m = n \/ m \notin P[n] PROVE lb'[m] = settled[m]
  BY <1>3, <1>6, <1>7, <1>9, <1>12
<1>13. LeavesAround(parent', children', leaf, n)
  <2>1. \A a \in P[n] : \A m \in Node : a \in P[m] => m \in Nodes'
    <3>1. n \in Nodes' /\ Nodes' = Present(parent')
      BY <1>1, <1>2 DEF Nodes, Present
    <3>2. \A m \in Node : parent'[m] = IF m \in Created(j) THEN n ELSE parent[m]
      BY <1>1 DEF Adopted
    <3>3. \A m \in Node : parent'[m] # 0 => parent'[m] \in Present(parent')
      BY <1>1, <3>1, <3>2, NodesOfTree
    <3>4. P[n] \subseteq Nodes'
      BY <1>1, <3>1, <3>3, PathsPresent DEF P
    <3>5. \A a \in Nodes' : \A m \in Node : a \in P[m] => m \in Nodes'
      BY <1>1, <3>1, <3>3, PathsPresent DEF P
    <3> QED BY <3>4, <3>5
  <2>2. leaf \subseteq Node
    BY <1>2, <1>6 DEF leaf, Leaves, Nodes
  <2>3. ASSUME NEW m \in Nodes' PROVE m \in leaf <=> children'[m] = <<>>
    <3>1. CASE m = n
      BY <1>2, <1>3, <1>6, <3>1 DEF leaf, StaleAt
    <3>2. CASE m \in Created(j)
      BY <1>2, <1>5, <1>6, <3>2 DEF leaf
    <3>3. CASE m # n /\ m \notin Created(j)
      <4>1. m \in Nodes /\ m \in Node
        BY <1>1, <2>3, <3>3 DEF Nodes
      <4> QED BY <1>5, <1>6, <3>3, <4>1 DEF leaf, Leaves
    <3> QED BY <3>1, <3>2, <3>3
  <2> QED BY <2>1, <2>2, <2>3 DEF LeavesAround, P
<1>14. lb' = Propagated(settled, n, leaf, P)
  BY <1>1, <1>2, <1>7, <1>11, <1>12, <1>13, PropagatedIs DEF P
<1> QED BY <1>14 DEF BranchPropagated, settled, leaf, new, P, Path

LEMMA TreeInvHolds == Spec => []TreeInv
<1>1. Init => TreeInv
  BY InitTreeInv
<1>2. TreeInv /\ [Next]_vars => TreeInv'
  <2> SUFFICES ASSUME TreeInv, [Next]_vars PROVE TreeInv'
    OBVIOUS
  <2>1. CASE Next
    <3>1. PICK n \in Node :
            \/ \E k \in 1 .. Fanout : \E rs \in [1 .. k -> Values] : Branch(n, rs)
            \/ \E infeasible \in BOOLEAN : Prune(n, infeasible)
            \/ \E l \in Values : Raise(n, l)
      BY <2>1 DEF Next
    <3>2. CASE \E k \in 1 .. Fanout : \E rs \in [1 .. k -> Values] : Branch(n, rs)
      BY <3>2, BranchTreeInv
    <3>3. CASE \E infeasible \in BOOLEAN : Prune(n, infeasible)
      BY <3>3, PruneTreeInv
    <3>4. CASE \E l \in Values : Raise(n, l)
      BY <3>4, RaiseTreeInv
    <3> QED BY <3>1, <3>2, <3>3, <3>4
  <2>2. CASE UNCHANGED vars
    <3>1. UNCHANGED <<parent, children, lb, pruned>> /\ Nodes' = Nodes
      BY <2>2 DEF vars, Nodes
    <3> QED BY <3>1 DEF TreeInv
  <2> QED BY <2>1, <2>2
<1> QED BY <1>1, <1>2, PTL DEF Spec

----------------------------------------------------------------------------
(* Theorems *)

\* The nodes form one tree, in which parents and children agree, whatever the
\* calls of branch, add_lower_bound and prune (Node::branch, make_child).
THEOREM NodesFormTree == Spec => []TypeOK
<1>1. TreeInv => TypeOK
  <2> SUFFICES ASSUME TreeInv PROVE TypeOK
    OBVIOUS
  <2>1. /\ Tree(parent, children) /\ lb \in [Node -> Bound] /\ pruned \in [Node -> BOOLEAN]
        /\ \A n \in Node : Len(children[n]) <= Fanout
    BY DEF TreeInv
  <2>2. parent \in [Node -> 0 .. MaxNodes]
    <3>1. \A n \in Node : parent[n] # 0 => parent[n] \in Node
      BY <2>1, TreeFacts
    <3>2. parent \in [Node -> Nat] /\ MaxNodes \in Nat
      BY <2>1, NodeTreeAssumption DEF Tree
    <3>3. \A n \in Node : parent[n] \in 0 .. MaxNodes
      BY <3>1, <3>2 DEF Node
    <3> QED BY <3>2, <3>3
  <2>3. children \in [Node -> UNION {[1 .. k -> Nodes] : k \in 0 .. Fanout}]
    <3>1. ASSUME NEW n \in Node
          PROVE  children[n] \in UNION {[1 .. k -> Nodes] : k \in 0 .. Fanout}
      <4>1. children[n] \in Seq(Node) /\ \A i \in 1 .. Len(children[n]) : children[n][i] \in Nodes
        BY <2>1, TreeFacts, NodesOfTree
      <4>2. Len(children[n]) \in 0 .. Fanout /\ children[n] \in [1 .. Len(children[n]) -> Nodes]
        BY <2>1, <4>1, NodeTreeAssumption
      <4> QED BY <4>2
    <3>2. children = [n \in Node |-> children[n]]
      BY <2>1 DEF Tree
    <3> QED BY <3>1, <3>2
  <2>4. ASSUME NEW n \in Nodes PROVE ToSet(children[n]) = {m \in Node : parent[m] = n}
    <3>1. n \in Node /\ n # 0
      BY NodesAreNat DEF Nodes
    <3>2. /\ children[n] \in Seq(Node)
          /\ \A i \in 1 .. Len(children[n]) : children[n][i] \in Node /\ parent[children[n][i]] = n
      BY <2>1, <3>1, TreeFacts
    <3>3. \A m \in Node : parent[m] = n => \E i \in 1 .. Len(children[n]) : children[n][i] = m
      BY <2>1, <3>1 DEF Tree
    <3>4. ToSet(children[n]) = {children[n][i] : i \in 1 .. Len(children[n])}
      BY <3>2 DEF ToSet
    <3> QED BY <3>2, <3>3, <3>4
  <2> QED BY <2>1, <2>2, <2>3, <2>4, NodesOfTree DEF TypeOK
<1> QED BY <1>1, TreeInvHolds, PTL

\* However the calls nest and cut each other short, add_lower_bound and
\* prune(true) end, in the bounds that NodeBounds gives in closed form
\* (node.cpp add_lower_bound, reevaluate_children, prune).
THEOREM CallsAreRaisedBounds == Spec => []CallsComputeRaisedBounds
<1>1. TreeInv => CallsComputeRaisedBounds
  <2> SUFFICES ASSUME TreeInv, NEW n \in Nodes
               PROVE  /\ \A l \in Values :
                           AddLowerBound(parent, children, lb, n, l) =
                             RaisedBounds(lb, n, l, Leaves, Path)
                      /\ ~ pruned[n] =>
                           Pruned(TRUE, n)[2] = RaisedBounds(lb, n, Inf, Leaves, Path)
    BY DEF CallsComputeRaisedBounds
  <2>1. /\ Tree(parent, children) /\ lb \in [Node -> Bound] /\ Consistent(children, lb, {})
        /\ n \in Node
    BY DEF TreeInv, Nodes
  <2>2. LeavesAround(parent, children, Leaves, n)
    BY LeavesOfTree
  <2>3. ASSUME NEW l \in Bound
        PROVE  AddLowerBound(parent, children, lb, n, l) = RaisedBounds(lb, n, l, Leaves, Path)
    BY <2>1, <2>2, AddedIsRaised DEF Path
  <2>4. \A l \in Values : l \in Bound
    BY DEF Bound
  <2>5. ~ pruned[n] => Pruned(TRUE, n)[2] = AddLowerBound(parent, children, lb, n, Inf)
    BY <2>1, PrunedFacts
  <2> QED BY <2>3, <2>4, <2>5, BoundFacts
<1> QED BY <1>1, TreeInvHolds, PTL

\* prune marks everything below a node although it stops at marked nodes
\* (node.cpp prune, branch).
THEOREM PruningMarksSubtree == Spec => []PruneMarksSubtree
<1>1. TreeInv => PruneMarksSubtree
  <2> SUFFICES ASSUME TreeInv, NEW n \in Nodes, NEW infeasible \in BOOLEAN
               PROVE  Pruned(infeasible, n)[1] = [m \in Node |-> pruned[m] \/ n \in Path[m]]
    BY DEF PruneMarksSubtree
  <2>1. n \in Node
    BY DEF Nodes
  <2> QED BY <2>1, PrunedFacts DEF MarkedBelow, Path
<1> QED BY <1>1, TreeInvHolds, PTL

\* The bound of a node that branched is the least bound of its children
\* (node.cpp add_lower_bound, reevaluate_children).
THEOREM BoundsStayConsistent == Spec => []BoundsConsistent
<1>1. TreeInv => BoundsConsistent
  BY DEF TreeInv, BoundsConsistent, Consistent, LeastOfKids, Nodes
<1> QED BY <1>1, TreeInvHolds, PTL

\* Node::branch ends in the bounds of the closed form (node.cpp branch).
THEOREM BranchIsPropagated == Spec => BranchComputesPropagated
<1>1. TreeInv /\ [Next]_vars => [\A n \in Nodes : children'[n] # children[n] => BranchPropagated(n)]_vars
  <2> SUFFICES ASSUME TreeInv, Next, NEW m \in Nodes, children'[m] # children[m]
               PROVE  BranchPropagated(m)
    OBVIOUS
  <2>1. PICK n \in Node :
          \/ \E k \in 1 .. Fanout : \E rs \in [1 .. k -> Values] : Branch(n, rs)
          \/ \E infeasible \in BOOLEAN : Prune(n, infeasible)
          \/ \E l \in Values : Raise(n, l)
    BY DEF Next
  <2>2. CASE \E k \in 1 .. Fanout : \E rs \in [1 .. k -> Values] : Branch(n, rs)
    <3>1. PICK k \in 1 .. Fanout : \E rs \in [1 .. k -> Values] : Branch(n, rs)
      BY <2>2
    <3>2. PICK rs \in [1 .. k -> Values] : Branch(n, rs)
      BY <3>1
    <3>3. m = n
      <4>1. children' = Listed(n, k)
        BY <3>2, BranchSteps
      <4>2. children \in [Node -> Seq(Node)] /\ m \in Node
        BY DEF TreeInv, Tree, Nodes
      <4> QED BY <4>1, <4>2 DEF Listed
    <3> QED BY <3>2, <3>3, BranchedIsPropagated
  <2>3. CASE \E infeasible \in BOOLEAN : Prune(n, infeasible)
    BY <2>3 DEF Prune
  <2>4. CASE \E l \in Values : Raise(n, l)
    BY <2>4 DEF Raise
  <2> QED BY <2>1, <2>2, <2>3, <2>4
<1> QED BY <1>1, TreeInvHolds, PTL DEF Spec, BranchComputesPropagated
=============================================================================
