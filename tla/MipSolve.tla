------------------------------ MODULE MipSolve ------------------------------
(***************************************************************************)
(* A MIP solver object from its construction to the solution it returns    *)
(* (mip/solver.py, mip/nonconvex_solver.py), with the callback that adds   *)
(* the subtour constraints while Gurobi runs (mip/callback.py).            *)
(*                                                                         *)
(* Gurobi is external.  It proposes any assignment that the constraints of *)
(* the model and the cuts added so far admit, asks the callback about it,  *)
(* and stops with any status, but with OPTIMAL only when it has a solution *)
(* and with INFEASIBLE only when the constraints admit nothing.  Which     *)
(* admissible assignment is the shortest is not modelled: the model is     *)
(* right if it admits every tour of the instance and nothing else.         *)
(***************************************************************************)
EXTENDS MipSites

CONSTANTS
  EdgeSets,   \* the sets of edges that Gurobi may choose, for all numbers of sites
  MaxCuts     \* a bound on the number of cuts that TLC looks at
ASSUME MaxCutsAssumption == MaxCuts \in Nat

VARIABLES
  spc,          \* "new", "constructed", "optimizing", "returned", "raised"
  solver,       \* the class: "mip" for convex polygons, "mip_nonconvex"
  pieces,       \* the halfspaces of the pieces of every polygon
  bigM,         \* the big-M that the model was built with, if it was built
  start,        \* the Start attributes of the model's variables
  cuts,         \* the vertex sets with a lazy constraint
  numCuts,      \* the callback's counter
  incumbent,    \* the last assignment that Gurobi has kept
  result        \* the AnnotatedSolution that solve returns, or what it raises

solverVars == <<spc, solver, pieces, bigM, start, cuts, numCuts, incumbent, result>>

None == [none |-> TRUE]

----------------------------------------------------------------------------
(***************************************************************************)
(* The constraints.                                                        *)
(***************************************************************************)

\* d_ij <= M xi_ij and d_ij >= |q_j - q_i| - M (1 - xi_ij) leave a value for
\* d_ij exactly if the distance is at most M, whether the edge is chosen or not.
Linearizable(p, r, M) == WithinBigM(Dist2(p, r), 1, M)

\* p lies in the chosen piece j of polygon i; the halfspaces of the other
\* pieces are relaxed by M.
InNeighborhood(p, i, j, M) ==
  /\ j \in DOMAIN pieces[i]
  /\ PointInPiece(p, pieces[i][j])
  /\ \A other \in DOMAIN pieces[i] \ {j} : \A h \in pieces[i][other] : RelaxedHalfspace(h, p, M)

\* Every vertex has two incident edges.
DegreeTwo(xi, vertices) ==
  xi \subseteq EdgesOn(vertices) /\ \A i \in vertices : Cardinality({e \in xi : i \in e}) = 2

\* Mutant: every edge at the vertex set counts.
CutSatisfiedAtSet(S, xi) == Cardinality({e \in xi : e \cap S # {}}) >= 2

\* The lazy constraint of a vertex set: two chosen edges leave it.
CutSatisfied(S, xi) == Cardinality({e \in xi : e \cap S # {} /\ e \ S # {}}) >= 2

\* What the constraints and the cuts so far admit: edges, points and pieces.
Admitted(xi, q, z) ==
  /\ DegreeTwo(xi, V)
  /\ \A S \in cuts : CutSatisfied(S, xi)
  /\ \A i, j \in V : i < j => Linearizable(q[i], q[j], bigM)
  /\ \A i \in V : InNeighborhood(q[i], i, z[i], bigM)

\* The pieces that Gurobi may choose.
PieceChoices == [V -> 1 .. Max({1} \cup {Len(pieces[i]) : i \in V})]

----------------------------------------------------------------------------
(***************************************************************************)
(* The callback.                                                           *)
(***************************************************************************)

\* The vertex sets that no edge leaves; the connected component of x is what
\* all those that hold x have in common.
Closed(xi) == {S \in SUBSET V : \A e \in xi : e \cap S = {} \/ e \subseteq S}

Components(xi) ==
  LET closed == Closed(xi)
  IN  {{y \in V : \A S \in closed : x \in S => y \in S} : x \in V}

\* Mutant: triangles pass as if they were no subtours.
SubtourCutsOfFour(xi) == {S \in Components(xi) : 0 \notin S /\ Cardinality(S) > 3}

\* The cuts that the callback adds for a proposal.
SubtourCuts(xi) ==
  LET components == Components(xi)
  IN  IF Cardinality(components) <= 1 THEN {}
      ELSE {S \in components : 0 \notin S /\ Cardinality(S) >= 3}

----------------------------------------------------------------------------
(***************************************************************************)
(* The solver object.                                                      *)
(***************************************************************************)

SolverInit ==
  /\ spc = "new"
  /\ solver = "mip_nonconvex"
  /\ pieces = <<>>
  /\ bigM = None
  /\ start = None
  /\ cuts = {}
  /\ numCuts = 0
  /\ incumbent = None
  /\ result = None

Raise(error) == spc' = "raised" /\ result' = [error |-> error]

\* The halfspaces of the pieces of a polygon: a polygon without a
\* decomposition is its own piece, and degenerate pieces are skipped.
PiecesFor(site) ==
  LET kept[k \in 0 .. Len(site.pieces)] ==
        IF k = 0 THEN <<>>
        ELSE IF HalfspacesOf(site.pieces[k]) = NoHalfspaces THEN kept[k - 1]
        ELSE Append(kept[k - 1], HalfspacesOf(site.pieces[k]))
  IN  IF site.pieces = <<>> THEN <<HalfspacesOf(site.outer)>> ELSE kept[Len(site.pieces)]

PiecesOf(i) == PiecesFor(Site(i))

Degenerate(hss) == hss \in {<<>>, <<NoHalfspaces>>}

\* The constructor.  The solver for convex polygons is for instances of convex
\* polygons only and keeps what polygon_to_halfspaces returned.
Construct(class) ==
  /\ spc = "new"
  /\ class = "mip" => \A i \in V : Site(i).pieces = <<>>
  /\ solver' = class
  /\ pieces' = [i \in V |-> PiecesOf(i)]
  /\ IF class = "mip_nonconvex" /\ \E i \in V : Degenerate(pieces'[i])
     THEN Raise("ValueError")
     ELSE spc' = "constructed" /\ UNCHANGED result
  /\ UNCHANGED <<bigM, start, cuts, numCuts, incumbent>>

\* _build_model: the big-M is computed from the halfspaces of all pieces, and
\* that there are some is not checked by the solver for convex polygons.
BuildFails == bigM = None /\ \E i \in V : Degenerate(pieces[i])

BuiltBigM == IF bigM # None THEN bigM ELSE BigM(UNION {UNION ToSet(pieces[i]) : i \in V})

\* A point in none of the pieces is moved to the nearest one, which is
\* numbered as in the decomposition, before degenerate pieces are skipped.
ContainingPieces(i, p) == {j \in DOMAIN pieces[i] : PointInPiece(p, pieces[i][j])}

NearestPiece(i, p) ==
  LET spots == {s \in (DOMAIN Decomposition(i)) \X Spots(i) : InConvexRing(s[2], Decomposition(i)[s[1]])}
      best  == {s \in spots : \A t \in spots : Dist2(p, s[2]) <= Dist2(p, t[2])}
  IN  CHOOSE s \in best : \A t \in best : s[1] <= t[1]

\* Mutant: the piece is the nearest one, but the point stays where it was.
PlacedStartUnprojected(i, p) == <<p, IF solver = "mip" THEN 1 ELSE NearestPiece(i, p)[1]>>

PlacedStart(i, p) ==
  IF solver = "mip" THEN <<p, 1>>
  ELSE IF ContainingPieces(i, p) # {} THEN <<p, Min(ContainingPieces(i, p))>>
  ELSE LET s == NearestPiece(i, p) IN <<s[2], s[1]>>

\* The points of the trajectory, without the closing one, belong to the
\* polygons in the order that the statistics name or else in index order.
SetWarmStart(solution) ==
  LET closed == Len(solution.coords) > 1 /\ Head(solution.coords) = Last(solution.coords)
      points == IF closed THEN Front(solution.coords) ELSE solution.coords
      order  == IF solution.hasOrdering THEN solution.ordering
                ELSE [k \in DOMAIN points |-> k - 1]
      placed == [i \in ToSet(order) |->
                   LET k == CHOOSE k \in DOMAIN order : order[k] = i
                   IN  PlacedStart(i, points[k])]
  IN  /\ spc = "constructed"
      /\ IF BuildFails
         THEN Raise("TypeError") /\ UNCHANGED <<bigM, start>>
         ELSE /\ bigM' = BuiltBigM
              /\ start' = [q  |-> [i \in DOMAIN placed |-> placed[i][1]],
                           z  |-> [i \in DOMAIN placed |-> placed[i][2]],
                           xi |-> TourEdges(order) \cap EdgesOn(V)]
              /\ UNCHANGED <<spc, result>>
      /\ UNCHANGED <<solver, pieces, cuts, numCuts, incumbent>>

\* solve builds the model if need be and hands it to Gurobi, with the start.
Optimize ==
  /\ spc = "constructed"
  /\ IF BuildFails
     THEN Raise("TypeError") /\ UNCHANGED <<bigM, start>>
     ELSE spc' = "optimizing" /\ bigM' = BuiltBigM /\ start' = None /\ UNCHANGED result
  /\ UNCHANGED <<solver, pieces, cuts, numCuts, incumbent>>

\* Gurobi has found an integer solution and calls the callback.  It keeps the
\* solution if that adds no cut.
MipSol(xi, q, z) ==
  LET new == SubtourCuts(xi)
  IN  /\ spc = "optimizing"
      /\ Admitted(xi, q, z)
      /\ Cardinality(cuts \cup new) <= MaxCuts
      /\ cuts' = cuts \cup new
      /\ numCuts' = numCuts + Cardinality(new)
      /\ incumbent' = IF new = {} THEN [xi |-> xi, q |-> q, z |-> z] ELSE incumbent
      /\ UNCHANGED <<spc, solver, pieces, bigM, start, result>>

\* The walk along the chosen edges from vertex 0 to the first neighbour, in
\* the order of the edge list, that was not visited yet.
ExtractTourOrder(xi) ==
  LET Fresh(w) == {j \in V \ ToSet(w) : {Last(w), j} \in xi}
      walk[k \in 1 .. n] ==
        IF k = 1 THEN <<0>>
        ELSE IF Fresh(walk[k - 1]) = {} THEN walk[k - 1]
        ELSE Append(walk[k - 1], Min(Fresh(walk[k - 1])))
  IN  IF xi = {} THEN <<>> ELSE walk[n]

\* Which piece of each polygon is in use, numbered from 0: a statistic of the
\* nonconvex solver only (_get_extra_statistics).
SelectedPieces(z) == IF solver = "mip" THEN <<>> ELSE [i \in V |-> z[i] - 1]

Solution(status) ==
  LET order  == ExtractTourOrder(incumbent.xi)
      points == [k \in DOMAIN order |-> incumbent.q[order[k]]]
  IN  [coords |-> Append(points, Head(points)), order |-> order,
       isOptimal |-> status = "OPTIMAL", numCuts |-> numCuts, selected |-> SelectedPieces(incumbent.z)]

\* Some of Gurobi's status codes; INTERRUPTED stands for those that solve does
\* not expect.
Statuses == {"OPTIMAL", "TIME_LIMIT", "SOLUTION_LIMIT", "INFEASIBLE", "INTERRUPTED"}

\* Gurobi stops, and solve returns the incumbent or raises.
Stop(status) ==
  /\ spc = "optimizing"
  /\ status = "OPTIMAL" => incumbent # None
  /\ status = "INFEASIBLE" =>
       ~ \E xi \in EdgeSets, q \in Positions, z \in PieceChoices : Admitted(xi, q, z)
  /\ IF status \in {"OPTIMAL", "TIME_LIMIT", "SOLUTION_LIMIT"} /\ incumbent # None
     THEN spc' = "returned" /\ result' = Solution(status)
     ELSE Raise("RuntimeError")
  /\ UNCHANGED <<solver, pieces, bigM, start, cuts, numCuts, incumbent>>

----------------------------------------------------------------------------

\* The callback lets no subtour pass: an assignment that was kept is one
\* connected tour (callback.py:49-67).
IncumbentConnected == incumbent # None => Components(incumbent.xi) = {V}

\* No cut is added twice, so every proposal with a subtour is cut off for good:
\* Gurobi cannot come back with the same edges (callback.py:52-67).
NoCutTwice == numCuts = Cardinality(cuts)
=============================================================================
