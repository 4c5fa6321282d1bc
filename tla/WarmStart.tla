----------------------------- MODULE WarmStart -----------------------------
(***************************************************************************)
(* generate_christofides_warm_start (mip/warm_start.py): an order of the   *)
(* polygons from a tour of their centroids, points for that order from the *)
(* SOCP, projected into the polygons, and 2-opt swaps until no two edges   *)
(* cross or the iterations are used up.                                    *)
(*                                                                         *)
(* Christofides' algorithm and the SOCP are external: the order is any of  *)
(* the instance's orders, the points are any of its positions.  The projection      *)
(* moves a point outside of its polygon to the nearest one inside; the     *)
(* code shrinks the polygon by 0.001 first, which is below the grid.       *)
(***************************************************************************)
EXTENDS MipSites

CONSTANT MaxIterations   \* the code's max_iterations
ASSUME MaxIterationsAssumption == MaxIterations \in Nat

VARIABLES
  wpc,          \* "ordering", "uncrossing" or "generated"
  ordering,     \* the sites in tour order
  tourPoints,   \* their points, in tour order
  iterations    \* 2-opt swaps done

warmVars == <<wpc, ordering, tourPoints, iterations>>

\* The edges p1 p2 and p3 p4 cross each other, and do not merely touch.
SegmentsIntersect(p1, p2, p3, p4) ==
  LET Apart(a, b, c, d) == (Cross(a, b, c) > 0 /\ Cross(a, b, d) < 0)
                             \/ (Cross(a, b, c) < 0 /\ Cross(a, b, d) > 0)
  IN  Apart(p3, p4, p1, p2) /\ Apart(p1, p2, p3, p4)

\* The pairs of edges of the tour, by the position of their first point, that
\* are not adjacent and cross.
Crossings(pts) ==
  {c \in (DOMAIN pts) \X (DOMAIN pts) :
     /\ c[1] + 2 <= c[2]
     /\ ~(c[1] = 1 /\ c[2] = Len(pts))
     /\ SegmentsIntersect(pts[c[1]], pts[After(c[1], Len(pts))],
                          pts[c[2]], pts[After(c[2], Len(pts))])}

\* The first one in the order of the nested loops.
FindIntersection(pts) ==
  CHOOSE c \in Crossings(pts) : \A d \in Crossings(pts) :
    c[1] < d[1] \/ (c[1] = d[1] /\ c[2] <= d[2])

\* Mutant: mirrored about the wrong position.
TwoOptSwapShifted(order, i, j) ==
  [k \in DOMAIN order |-> IF k \in i + 1 .. j THEN order[i + j - k] ELSE order[k]]

\* The part of the order after position i up to position j, reversed.
TwoOptSwap(order, i, j) ==
  [k \in DOMAIN order |-> IF k \in i + 1 .. j THEN order[i + 1 + j - k] ELSE order[k]]

ProjectPointToPolygon(p, i) == IF InSite(p, i) THEN p ELSE Nearest(p, Spots(i))

\* The points that the SOCP may return for an order, projected.
ProjectedTours(order) ==
  {[k \in DOMAIN order |-> ProjectPointToPolygon(q[order[k]], order[k])] : q \in Positions}

----------------------------------------------------------------------------

WarmInit ==
  /\ wpc = "ordering"
  /\ ordering = <<>>
  /\ tourPoints = <<>>
  /\ iterations = 0

\* christofides_ordering and the first points.
ChristofidesOrdering ==
  /\ wpc = "ordering"
  /\ ordering' \in Instances[inst].orders
  /\ tourPoints' \in ProjectedTours(ordering')
  /\ wpc' = "uncrossing"
  /\ UNCHANGED iterations

\* One iteration of _remove_intersections.
RemoveIntersection ==
  /\ wpc = "uncrossing"
  /\ iterations < MaxIterations
  /\ Crossings(tourPoints) # {}
  /\ LET c == FindIntersection(tourPoints)
     IN  ordering' = TwoOptSwap(ordering, c[1], c[2])
  /\ tourPoints' \in ProjectedTours(ordering')
  /\ iterations' = iterations + 1
  /\ UNCHANGED wpc

\* The loop ends because nothing crosses or because it is used up.
Generated ==
  /\ wpc = "uncrossing"
  /\ Crossings(tourPoints) = {} \/ iterations = MaxIterations
  /\ wpc' = "generated"
  /\ UNCHANGED <<ordering, tourPoints, iterations>>

WarmNext == ChristofidesOrdering \/ RemoveIntersection \/ Generated

\* The solution it returns: a closed trajectory, and the order as a statistic.
WarmSolution ==
  [coords |-> Append(tourPoints, Head(tourPoints)), hasOrdering |-> TRUE, ordering |-> ordering]
=============================================================================
