---------------------------- MODULE MipInvariant ----------------------------
(***************************************************************************)
(* The inductive invariant of MipPipeline, by parts, and what its theorems *)
(* suppose of an instance.  MipSolveProofs proves the theorems; MCMip      *)
(* extends this module too, so that every part can be evaluated on its     *)
(* instances.                                                              *)
(***************************************************************************)
EXTENDS MipPipeline

----------------------------------------------------------------------------
(* What is supposed of the polygons of an instance *)

\* The corners of a ring, which may come with duplicates and a closing vertex.
Corners(ring) == RemoveDuplicateVertices(ExtractVertices(ring))

\* No edge has p strictly on its right, if s is 1, or on its left, if s is -1.
OnSide(vs, s, p) == \A k \in DOMAIN vs : s * Cross(vs[k], vs[After(k, Len(vs))], p) >= 0

\* A ring of three corners and more has an area and no corner that lies on the
\* outer side of an edge, in whichever direction it goes round.
ConvexRing(ring) ==
  LET vs == Corners(ring)
  IN  Len(vs) >= 3 =>
        /\ ShoelaceSum(vs) # 0
        /\ \E s \in {-1, 1} : \A m \in DOMAIN vs : OnSide(vs, s, vs[m])

ConvexSite(site) == \A k \in DOMAIN RingsOf(site) : ConvexRing(RingsOf(site)[k])

\* The polygons without a decomposition and the pieces of the others are convex.
ConvexRings == \A k \in DOMAIN Instances[inst].sites : ConvexSite(Instances[inst].sites[k])

\* The degenerate pieces of a decomposition come last, so that skipping them
\* renumbers none.
PlainNumbers(site) ==
  \A k, m \in DOMAIN RingsOf(site) :
    k < m /\ HalfspacesOf(RingsOf(site)[k]) = NoHalfspaces => HalfspacesOf(RingsOf(site)[m]) = NoHalfspaces

DegenerateLast == \A k \in DOMAIN Instances[inst].sites : PlainNumbers(Instances[inst].sites[k])

\* The points that are looked at are no farther from the origin than half the
\* big-M of the model.
NearOrigin ==
  bigM # None => \A i \in V : \A p \in Spots(i) : WithinBigM(4 * Dist2(p, <<0, 0>>), 1, bigM)

----------------------------------------------------------------------------
(* The callback and what solve returns *)

\* Cuts are sets of vertices, hence finitely many.
CallbackInv ==
  /\ inst \in DOMAIN Instances
  /\ cuts \in SUBSET (SUBSET V)
  /\ NoCutTwice
  /\ IncumbentConnected

\* A walk from vertex 0 that visits no vertex twice.
PathIn(xi, w) ==
  /\ w \in Seq(V) /\ w # <<>> /\ w[1] = 0
  /\ \A i, j \in 1 .. Len(w) : w[i] = w[j] => i = j
  /\ \A i \in 1 .. Len(w) - 1 : {w[i], w[i + 1]} \in xi

\* What the incumbent is: two edges at every vertex, and a point for every
\* polygon in the chosen one of its pieces.
IncumbentAdmitted ==
  incumbent # None =>
    /\ DegreeTwo(incumbent.xi, V) /\ incumbent.q \in Positions /\ incumbent.z \in [V -> Int]
    /\ \A i \in V : incumbent.z[i] \in ContainingPieces(i, incumbent.q[i])

\* The pieces are those of the instance, and a model is not built from
\* degenerate ones.
PiecesKnown ==
  /\ spc = "new" => bigM = None /\ incumbent = None
  /\ spc # "new" => pieces = [i \in V |-> PiecesOf(i)]
  /\ bigM # None \/ spc \in {"optimizing", "returned"} => \A i \in V : ~ Degenerate(pieces[i])

\* What is returned is made from the incumbent.
IncumbentReturned ==
  spc = "returned" =>
    /\ incumbent # None
    /\ PathIn(incumbent.xi, result.order) /\ Len(result.order) = n
    /\ ToSet(result.order) = V /\ TourEdges(result.order) = incumbent.xi
    /\ result.coords = Append([k \in 1 .. n |-> incumbent.q[result.order[k]]],
                              incumbent.q[result.order[1]])
    /\ solver = "mip_nonconvex" => result.selected = [i \in V |-> incumbent.z[i] - 1]

SolutionInv == CallbackInv /\ IncumbentAdmitted /\ PiecesKnown /\ IncumbentReturned

----------------------------------------------------------------------------
(* What the model is built from *)

\* The solver for convex polygons is for instances of convex polygons only, and
\* the model of either is built before Gurobi starts.
ModelRight ==
  /\ spc \in {"new", "constructed", "optimizing", "returned", "raised"}
  /\ spc = "raised" <=> "error" \in DOMAIN result
  /\ solver = "mip" => \A k \in DOMAIN Instances[inst].sites : Instances[inst].sites[k].pieces = <<>>
  /\ spc \in {"optimizing", "returned"} => bigM # None
  /\ bigM # None => bigM = BigM(UNION {UNION ToSet(pieces[i]) : i \in V})

\* Cuts come from Gurobi's proposals, spare vertex 0 and are no pairs.
CutsRight ==
  /\ spc \in {"new", "constructed"} => cuts = {}
  /\ \A S \in cuts : S \in SUBSET V /\ 0 \notin S /\ Cardinality(S) >= 3

\* The warm start visits every site once, at a point of its polygon.
WarmRight ==
  /\ wpc \in {"ordering", "uncrossing", "generated"} /\ iterations \in 0 .. MaxIterations
  /\ wpc # "ordering" /\ spc \in {"new", "constructed"} =>
       /\ ordering \in SetToSeqs(V)
       /\ tourPoints = [k \in 1 .. n |-> tourPoints[k]]
       /\ \A k \in 1 .. n : HasInterior(Site(ordering[k])) => tourPoints[k] \in Spots(ordering[k])

\* The start belongs to a model that waits for Gurobi; with a point for every
\* site its edges are a tour, and its points lie in the pieces named for them.
StartRight ==
  start # None =>
    /\ spc = "constructed" /\ bigM # None /\ start.xi \subseteq EdgesOn(V)
    /\ DOMAIN start.q = V =>
         /\ \E order \in SetToSeqs(V) : start.xi = TourEdges(order) \cap EdgesOn(V)
         /\ ConvexRings /\ DegenerateLast =>
              \A i \in V : start.q[i] \in Spots(i) /\ start.z[i] \in ContainingPieces(i, start.q[i])

PipelineInv == SolutionInv /\ ModelRight /\ CutsRight /\ WarmRight /\ StartRight
=============================================================================
