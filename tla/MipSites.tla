------------------------------ MODULE MipSites ------------------------------
(***************************************************************************)
(* The instance that the warm start and the MIP solvers work on: a list of *)
(* polygons, each with its outer ring and the rings of its convex          *)
(* decomposition (empty if it is convex).                                  *)
(***************************************************************************)
EXTENDS Halfspaces

CONSTANT
  Instances   \* A sequence of instances to look at.  Each is a record of
              \*   sites: a sequence of [outer: ring, pieces: sequence of rings];
              \*   positions: the vectors of one point per site that the
              \*     solvers may come up with, in the hulls of the polygons;
              \*   orders: the tours of the centroids that Christofides may find.

\* The convex rings whose union is the polygon of a site, and its halfspaces.
RingsOf(site) == IF site.pieces = <<>> THEN <<site.outer>> ELSE site.pieces
HalfspacesOf(ring) == PolygonToHalfspaces(ExtractVertices(ring))

HasInterior(site) == \E k \in DOMAIN RingsOf(site) : HalfspacesOf(RingsOf(site)[k]) # NoHalfspaces
InRings(p, rings) == \E k \in DOMAIN rings : InConvexRing(p, rings[k])

\* There are polygons; positions and orders are what is said of them above, and
\* some position lies in each polygon.
ProperInstance(I) ==
  LET vertices == 0 .. Len(I.sites) - 1
  IN  /\ I.sites \in Seq([outer : Seq(Point), pieces : Seq(Seq(Point))]) /\ I.sites # <<>>
      /\ I.positions \subseteq [vertices -> Point]
      /\ I.orders \subseteq SetToSeqs(vertices)
      /\ \A i \in vertices : HasInterior(I.sites[i + 1]) =>
           /\ \E q \in I.positions : InRings(q[i], RingsOf(I.sites[i + 1]))
           /\ I.sites[i + 1].pieces = <<>> =>
                \A q \in I.positions : InConvexRing(q[i], I.sites[i + 1].outer)

ASSUME InstancesAssumption == \A k \in DOMAIN Instances : ProperInstance(Instances[k])

VARIABLE inst \* the instance of this run of the solvers, by its number

\* Sites are numbered from 0, as in the code.
n == Len(Instances[inst].sites)
V == 0 .. n - 1
Site(i) == Instances[inst].sites[i + 1]
Positions == Instances[inst].positions

EdgesOn(vertices) == {e \in SUBSET vertices : Cardinality(e) = 2}

Decomposition(i) == RingsOf(Site(i))

\* The points of a polygon that are looked at.
InSite(p, i) == InRings(p, Decomposition(i))
Spots(i) == {p \in {q[i] : q \in Positions} : InSite(p, i)}

\* The point of S closest to p.
Nearest(p, S) == CHOOSE r \in S : \A s \in S : Dist2(p, r) <= Dist2(p, s)

\* The edges of the closed tour that visits the sites in the given order.
TourEdges(order) == {{order[k], order[After(k, Len(order))]} : k \in DOMAIN order}
=============================================================================
