----------------------------- MODULE Recursion -----------------------------
(***************************************************************************)
(* Least elements, induction and recursive functions in a form without     *)
(* operators as parameters, shared by the proofs about the components: a   *)
(* property is the set of numbers that have it, and the step of a          *)
(* recursion is a function.                                                *)
(***************************************************************************)
EXTENDS Integers, FiniteSets, FiniteSetsExt, Functions, FiniteSetTheorems,
        WellFoundedInduction, TLAPS

\* The order of the naturals as a set of pairs.
LessOnNat == {p \in Nat \X Nat : p[1] < p[2]}

\* A nonempty set of naturals has a least element.
LEMMA LeastElement ==
  ASSUME NEW S \in SUBSET Nat, S # {}
  PROVE  \E m \in S : \A x \in S : m <= x
<1>1. IsWellFoundedOn(LessOnNat, Nat) /\ LessOnNat = OpToRel(<, Nat)
  BY NatLessThanWellFounded DEF LessOnNat, OpToRel
<1>2. PICK m \in S : \A x \in S : <<x, m>> \notin LessOnNat
  BY <1>1, WFMin
<1>3. ASSUME NEW x \in S PROVE m <= x
  <2>1. m \in Nat /\ x \in Nat
    OBVIOUS
  <2>2. ~ (x < m)
    BY <1>2, <2>1 DEF LessOnNat
  <2> QED BY <2>1, <2>2
<1> QED BY <1>3

\* It is the one that Min denotes.
LEMMA MinIsLeast ==
  ASSUME NEW S \in SUBSET Nat, S # {}
  PROVE  Min(S) \in S /\ \A x \in S : Min(S) <= x
<1>1. \E m \in S : \A x \in S : m <= x
  BY LeastElement
<1> QED BY <1>1 DEF Min

\* A nonempty set of numbers up to n has a greatest one.
LEMMA MaxIsGreatest ==
  ASSUME NEW n \in Nat, NEW S \in SUBSET (0 .. n), S # {}
  PROVE  Max(S) \in S /\ \A x \in S : x <= Max(S)
<1> DEFINE T == {n - x : x \in S}
<1>1. T \in SUBSET Nat /\ T # {}
  <2>1. \A x \in 0 .. n : n - x \in Nat
    OBVIOUS
  <2>2. T # {}
    OBVIOUS
  <2> QED BY <2>1, <2>2
<1>2. Min(T) \in T /\ \A y \in T : Min(T) <= y
  BY <1>1, MinIsLeast
<1>3. PICK m \in S : Min(T) = n - m
  BY <1>2
<1>4. ASSUME NEW x \in S PROVE x <= m
  <2>1. n - m <= n - x /\ x \in Int /\ m \in Int
    BY <1>2, <1>3
  <2> QED BY <2>1
<1>5. \A x \in S : m >= x
  BY <1>4
<1>6. Max(S) \in S /\ \A x \in S : Max(S) >= x
  BY <1>5 DEF Max
<1> QED BY <1>6

\* What holds of 0 and passes from each number to the next holds up to n.
LEMMA IntervalInduction ==
  ASSUME NEW n \in Nat, NEW P, 0 \in P,
         \A i \in 1 .. n : i - 1 \in P => i \in P
  PROVE  0 .. n \subseteq P
<1> DEFINE Q == {i \in Nat : i <= n /\ i \notin P}
<1> SUFFICES ASSUME Q # {} PROVE FALSE
  OBVIOUS
<1>1. PICK m \in Q : \A k \in Q : m <= k
  BY LeastElement, Q \subseteq Nat
<1>2. m # 0 /\ m - 1 \in Nat /\ m - 1 <= n /\ m \in 1 .. n
  OBVIOUS
<1>3. m - 1 \notin Q
  BY <1>1, <1>2
<1> QED BY <1>2, <1>3

\* g starts with b, and F[i] makes each value of the one before.
Iterates(g, n, b, F) == g[0] = b /\ \A i \in 1 .. n : g[i] = F[i][g[i - 1]]

\* A function on 0 .. n whose values follow from one another exists.
LEMMA RecursionExists ==
  ASSUME NEW n \in Nat, NEW S, NEW b \in S, NEW F \in [1 .. n -> [S -> S]]
  PROVE  \E g \in [0 .. n -> S] : Iterates(g, n, b, F)
<1> DEFINE Upto(m, g) == g[0] = b /\ \A i \in 1 .. m : g[i] = F[i][g[i - 1]]
           P == {m \in 0 .. n : \E g \in [0 .. m -> S] : Upto(m, g)}
<1>1. 0 \in P
  <2> DEFINE g == [i \in 0 .. 0 |-> b]
  <2>1. g \in [0 .. 0 -> S] /\ Upto(0, g)
    OBVIOUS
  <2>2. \E f \in [0 .. 0 -> S] : Upto(0, f)
    <3> HIDE DEF g
    <3> QED BY <2>1
  <2>3. 0 \in 0 .. n
    OBVIOUS
  <2> HIDE DEF Upto
  <2> QED BY <2>2, <2>3
<1>2. ASSUME NEW i \in 1 .. n, i - 1 \in P PROVE i \in P
  <2>1. PICK g \in [0 .. i - 1 -> S] : Upto(i - 1, g)
    BY <1>2
  <2> DEFINE h == [j \in 0 .. i |-> IF j = i THEN F[i][g[i - 1]] ELSE g[j]]
  <2>2. g[i - 1] \in S /\ F[i][g[i - 1]] \in S
    OBVIOUS
  <2>3. h \in [0 .. i -> S]
    BY <2>2
  <2>4. h[0] = b
    BY <2>1
  <2>5. ASSUME NEW j \in 1 .. i PROVE h[j] = F[j][h[j - 1]]
    <3>1. h[j - 1] = g[j - 1]
      OBVIOUS
    <3>2. CASE j = i
      <4>1. h[i] = F[i][g[i - 1]]
        OBVIOUS
      <4> QED BY <3>1, <3>2, <4>1
    <3>3. CASE j # i
      <4>1. h[j] = g[j] /\ j \in 1 .. i - 1
        BY <3>3
      <4> QED BY <2>1, <3>1, <4>1
    <3> QED BY <3>2, <3>3
  <2>6. \E f \in [0 .. i -> S] : Upto(i, f)
    <3> HIDE DEF h
    <3> QED BY <2>3, <2>4, <2>5
  <2> HIDE DEF Upto
  <2> QED BY <2>6
<1> HIDE DEF P
<1>3. 0 .. n \subseteq P
  BY <1>1, <1>2, IntervalInduction
<1>4. n \in P
  BY <1>3
<1>5. \E g \in [0 .. n -> S] : Upto(n, g)
  BY <1>4 DEF P
<1> QED BY <1>5 DEF Iterates

\* F makes functions of G from functions of G, and what it makes of one at c
\* depends only on the values at elements of lower rank.
LooksDown(F, G, b, C, R, rank, N) ==
  /\ N \in Nat /\ rank \in [C -> 0 .. N]
  /\ G \in SUBSET [C -> R] /\ b \in G /\ F \in [G -> G]
  /\ \A A, B \in G : \A c \in C :
       (\A d \in C : rank[d] < rank[c] => A[d] = B[d]) => F[A][c] = F[B][c]

\* Then it is the step of a recursion that ends.
LEMMA RankedRecursion ==
  ASSUME NEW F, NEW G, NEW b, NEW C, NEW R, NEW rank, NEW N,
         LooksDown(F, G, b, C, R, rank, N)
  PROVE  \E A \in G : A = F[A]
<1>0. /\ N \in Nat /\ rank \in [C -> 0 .. N]
      /\ G \in SUBSET [C -> R] /\ b \in G /\ F \in [G -> G]
      /\ \A A, B \in G : \A c \in C :
           (\A d \in C : rank[d] < rank[c] => A[d] = B[d]) => F[A][c] = F[B][c]
  BY DEF LooksDown
<1> DEFINE step == [i \in 1 .. N + 1 |-> F]
<1>1. N + 1 \in Nat /\ step \in [1 .. N + 1 -> [G -> G]]
  BY <1>0
<1>2. PICK g \in [0 .. N + 1 -> G] : Iterates(g, N + 1, b, step)
  <2> HIDE DEF step
  <2> QED BY <1>0, <1>1, RecursionExists
<1>3. \A i \in 1 .. N + 1 : g[i] = F[g[i - 1]]
  BY <1>2 DEF Iterates
<1> DEFINE P == {k \in 0 .. N : \A d \in C : rank[d] < k => g[k][d] = g[k + 1][d]}
<1>4. 0 \in P
  BY <1>0
<1>5. ASSUME NEW k \in 1 .. N, k - 1 \in P PROVE k \in P
  <2>1. /\ k \in 0 .. N + 1 /\ k - 1 \in 0 .. N + 1 /\ k + 1 \in 0 .. N + 1
        /\ k \in 1 .. N + 1 /\ k + 1 \in 1 .. N + 1 /\ (k - 1) + 1 = k /\ (k + 1) - 1 = k
    BY <1>0
  <2>2. g[k] = F[g[k - 1]] /\ g[k + 1] = F[g[k]] /\ g[k - 1] \in G /\ g[k] \in G
    BY <1>3, <2>1
  <2>3. ASSUME NEW d \in C, rank[d] < k PROVE g[k][d] = g[k + 1][d]
    <3>1. ASSUME NEW e \in C, rank[e] < rank[d] PROVE g[k - 1][e] = g[k][e]
      <4>1. rank[e] < k - 1
        BY <1>0, <2>3, <3>1
      <4> QED BY <1>5, <2>1, <4>1
    <3> QED BY <1>0, <2>2, <3>1
  <2> QED BY <2>3
<1> HIDE DEF P
<1>6. N \in P
  <2>1. 0 .. N \subseteq P
    BY <1>0, <1>4, <1>5, IntervalInduction
  <2> QED BY <1>0, <2>1
<1> DEFINE A == g[N + 1]
<1>7. A \in G /\ g[N] \in G /\ A = F[g[N]]
  BY <1>0, <1>1, <1>3
<1>8. ASSUME NEW c \in C PROVE F[A][c] = A[c]
  <2>1. \A d \in C : rank[d] < rank[c] => g[N][d] = A[d]
    BY <1>0, <1>6 DEF P
  <2> HIDE DEF A
  <2>2. F[g[N]][c] = F[A][c]
    BY <1>0, <1>7, <2>1
  <2> QED BY <1>7, <2>2
<1>9. F[A] \in [C -> R] /\ A \in [C -> R]
  <2> HIDE DEF A
  <2> QED BY <1>0, <1>7
<1>10. F[A] = A
  <2> HIDE DEF A
  <2> QED BY <1>8, <1>9
<1> QED BY <1>7, <1>10
=============================================================================
