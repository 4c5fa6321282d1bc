----------------------------- MODULE Halfspaces -----------------------------
(***************************************************************************)
(* Polygons as halfspaces, the way the MIP formulations see them           *)
(* (mip/utils.py), and the big-M constant that is computed from the        *)
(* halfspaces (mip/solver.py, mip/nonconvex_solver.py).                    *)
(*                                                                         *)
(* A point is a pair of integers and a ring a sequence of points.  The     *)
(* code divides every halfspace by the length of its normal vector; here   *)
(* the squared length is kept beside the integer coefficients, and lengths *)
(* are compared by their squares, so nothing is rounded.  The tolerances   *)
(* of the code (1e-9, 1e-10, 1e-6) lie below the grid.                     *)
(***************************************************************************)
EXTENDS Integers, Sequences, FiniteSets, SequencesExt, FiniteSetsExt

Dist2(p, r) == (p[1] - r[1]) * (p[1] - r[1]) + (p[2] - r[2]) * (p[2] - r[2])

\* Twice the signed area of the triangle a, b, c: positive if c is to the left
\* of the line from a to b.
Cross(a, b, c) == (b[1] - a[1]) * (c[2] - a[2]) - (b[2] - a[2]) * (c[1] - a[1])

Point == Int \X Int

\* The position after k on a ring of n positions.
After(k, n) == (k % n) + 1

----------------------------------------------------------------------------

\* What the edge from p to r adds to the shoelace formula.
Shoelace(p, r) == (r[1] - p[1]) * (r[2] + p[2])

\* The sum over all edges: twice the negative of the signed area.
ShoelaceSum(vs) ==
  LET sum[k \in 0 .. Len(vs)] ==
        IF k = 0 THEN 0 ELSE sum[k - 1] + Shoelace(vs[k], vs[After(k, Len(vs))])
  IN  sum[Len(vs)]

IsCcw(vs) == ShoelaceSum(vs) < 0

\* The vertices of a ring without the closing vertex, if there is one.
ExtractVertices(ring) ==
  IF Len(ring) > 1 /\ Head(ring) = Last(ring) THEN Front(ring) ELSE ring

\* Consecutive duplicates are dropped, then a last vertex that equals the first.
RemoveDuplicateVertices(vs) ==
  LET kept[k \in 0 .. Len(vs)] ==
        IF k = 0 THEN <<>>
        ELSE IF k > 1 /\ vs[k] = Last(kept[k - 1]) THEN kept[k - 1]
        ELSE Append(kept[k - 1], vs[k])
  IN  ExtractVertices(kept[Len(vs)])

\* The halfspace <<ax, ay>> . q <= b of the edge from p to r.
EdgeHalfspace(p, r, sign) ==
  LET nx == r[2] - p[2]
      ny == p[1] - r[1]
  IN  [ax |-> -sign * nx, ay |-> -sign * ny,
       b |-> -sign * (nx * p[1] + ny * p[2]), norm2 |-> nx * nx + ny * ny]

\* What polygon_to_halfspaces returns instead of halfspaces.
NoHalfspaces == {}

\* Mutant: the vertices are taken to be counter-clockwise.
PolygonToHalfspacesUnoriented(vertices) ==
  LET vs == RemoveDuplicateVertices(vertices)
  IN  IF Len(vs) < 3 THEN NoHalfspaces
      ELSE {EdgeHalfspace(vs[k], vs[After(k, Len(vs))], -1) : k \in DOMAIN vs}

PolygonToHalfspaces(vertices) ==
  LET vs   == RemoveDuplicateVertices(vertices)
      sign == IF IsCcw(vs) THEN -1 ELSE 1
  IN  IF Len(vs) < 3 THEN NoHalfspaces
      ELSE {EdgeHalfspace(vs[k], vs[After(k, Len(vs))], sign) : k \in DOMAIN vs}

\* By how much, times the length of its normal, p is outside of a halfspace.
Excess(h, p) == h.ax * p[1] + h.ay * p[2] - h.b

PointInPiece(p, hs) == \A h \in hs : Excess(h, p) <= 0

----------------------------------------------------------------------------

\* M = 2 * 2 * sqrt(2) * max |b|: the halfspace with the greatest |b| stands for M.
BigM(hs) == CHOOSE g \in hs : \A h \in hs : h.b * h.b * g.norm2 <= g.b * g.b * h.norm2

\* A length whose square is num / den is at most M.
WithinBigM(num, den, M) == num * M.norm2 <= 32 * M.b * M.b * den

\* a . q <= b + M, for the inactive pieces of a polygon.
RelaxedHalfspace(h, p, M) ==
  Excess(h, p) <= 0 \/ WithinBigM(Excess(h, p) * Excess(h, p), h.norm2, M)

----------------------------------------------------------------------------

(***************************************************************************)
(* A definition of a convex ring's points that knows nothing of            *)
(* orientation or halfspaces: the union of the triangles between its       *)
(* vertices.  What the code computes is measured against it.               *)
(***************************************************************************)
InTriangle(p, a, b, c) ==
  /\ Cross(a, b, c) # 0
  /\ \/ Cross(a, b, p) >= 0 /\ Cross(b, c, p) >= 0 /\ Cross(c, a, p) >= 0
     \/ Cross(a, b, p) <= 0 /\ Cross(b, c, p) <= 0 /\ Cross(c, a, p) <= 0

InConvexRing(p, ring) == \E a, b, c \in ToSet(ring) : InTriangle(p, a, b, c)
=============================================================================
