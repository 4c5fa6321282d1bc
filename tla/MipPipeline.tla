---------------------------- MODULE MipPipeline ----------------------------
(***************************************************************************)
(* solve_tspn_mip and solve_tspn_nonconvex_mip, as the comparison with the *)
(* state of the art runs them (evaluation/rq5_state_of_the_art/            *)
(* 01_run_solver.py): generate a warm start if wanted, construct a solver, *)
(* give it the initial solution, solve.                                    *)
(***************************************************************************)
EXTENDS WarmStart, MipSolve

vars == <<inst, warmVars, solverVars>>

Init == inst \in DOMAIN Instances /\ WarmInit /\ SolverInit

\* generate_christofides_warm_start comes before the solver.
GenerateWarmStart == spc = "new" /\ WarmNext /\ UNCHANGED <<inst, solverVars>>

\* The calls of the solver, once the warm start is there or without one.
ConstructSolver ==
  /\ wpc \in {"ordering", "generated"}
  /\ \E class \in {"mip", "mip_nonconvex"} : Construct(class)
  /\ UNCHANGED <<inst, warmVars>>

\* initial_solution is the warm start, or a trajectory through the first m
\* polygons that does not say in which order it visits them and that may pass
\* through the hull of a polygon only.
PlainSolution(q, m) ==
  [coords |-> Append([k \in 1 .. m |-> q[k - 1]], q[0]), hasOrdering |-> FALSE]

InitialSolution ==
  /\ start = None
  /\ \/ wpc = "generated" /\ SetWarmStart(WarmSolution)
     \/ /\ wpc = "ordering"
        /\ \E q \in Positions, m \in 1 .. n : SetWarmStart(PlainSolution(q, m))
  /\ UNCHANGED <<inst, warmVars>>

\* The warm start is not looked at any more once the solver runs.
StartSolve ==
  /\ Optimize
  /\ ordering' = <<>> /\ tourPoints' = <<>> /\ iterations' = 0
  /\ UNCHANGED <<inst, wpc>>

Solve ==
  /\ \/ /\ spc = "optimizing"
        /\ \E xi \in EdgeSets, q \in Positions, z \in PieceChoices : MipSol(xi, q, z)
     \/ \E status \in Statuses : Stop(status)
  /\ UNCHANGED <<inst, warmVars>>

Next == GenerateWarmStart \/ ConstructSolver \/ InitialSolution \/ StartSolve \/ Solve

Spec == Init /\ [][Next]_vars

----------------------------------------------------------------------------

TypeOK ==
  /\ inst \in DOMAIN Instances
  /\ wpc \in {"ordering", "uncrossing", "generated"}
  /\ wpc # "ordering" /\ spc \in {"new", "constructed"} =>
                         /\ Len(ordering) = n /\ ToSet(ordering) = V
                         /\ Len(tourPoints) = n
  /\ iterations \in 0 .. MaxIterations
  /\ spc \in {"new", "constructed", "optimizing", "returned", "raised"}
  /\ spc \in {"optimizing", "returned"} => bigM # None
  /\ start # None => start.xi \subseteq EdgesOn(V)
  /\ cuts \subseteq SUBSET V
  /\ numCuts \in Nat
  /\ incumbent # None => DegreeTwo(incumbent.xi, V)
  /\ spc = "raised" <=> "error" \in DOMAIN result

\* The edge sets of the tours through all sites.
Tours == {TourEdges(order) : order \in SetToSeqs(V)}

\* The constraints never exclude a tour of the instance: any two points of two
\* polygons are within the big-M, every point of a polygon lies in a piece
\* that may be chosen, and no cut of the callback removes a tour
\* (solver.py:131-163, nonconvex_solver.py:147-183, callback.py:52-67).
EveryTourAdmitted ==
  /\ bigM # None =>
       /\ \A i, j \in V : i < j => \A p \in Spots(i), r \in Spots(j) : Linearizable(p, r, bigM)
       /\ \A i \in V : \A p \in Spots(i) :
            \E k \in ContainingPieces(i, p) : InNeighborhood(p, i, k, bigM)
  /\ cuts # {} => \A xi \in Tours : \A S \in cuts : CutSatisfied(S, xi)

\* What solve returns visits every polygon once, in the order of the chosen
\* edges, at a point of that polygon, which lies in the piece named for it in
\* the statistics (solver.py:234-328, nonconvex_solver.py:320-336).
ReturnsTour ==
  spc = "returned" =>
    LET order == result.order
    IN  /\ order[1] = 0
        /\ Len(order) = n /\ ToSet(order) = V
        /\ TourEdges(order) = incumbent.xi
        /\ Head(result.coords) = Last(result.coords)
        /\ \A k \in 1 .. n : result.coords[k] \in Spots(order[k])
        /\ solver = "mip_nonconvex" =>
             \A k \in 1 .. n :
               result.selected[order[k]] + 1 \in ContainingPieces(order[k], result.coords[k])

\* A start with a point for every polygon is one that Gurobi can use: its
\* tour, points and pieces satisfy the model (solver.py:187-232,
\* nonconvex_solver.py:259-318, warm_start.py:227-308).
StartAdmitted ==
  start # None /\ n >= 3 /\ DOMAIN start.q = V => Admitted(start.xi, start.q, start.z)
=============================================================================
