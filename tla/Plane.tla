------------------------------- MODULE Plane -------------------------------
(* The plane as the preprocessing and the experiments need it: the convex  *)
(* hull of an instance, cut into finitely many cells.  A polygon is a set  *)
(* of cells, a closed curve (a tour) is the set of cells it runs through.  *)
(* Shapes are abstracted to what the code decides with: which regions      *)
(* overlap, which are at a positive distance, what a hole is, and which    *)
(* cells lie on the hull, in clockwise order.                              *)
EXTENDS Integers, FiniteSets, FiniteSetsExt, Sequences

CONSTANTS
  Cells,   \* the cells the convex hull of the instance is cut into
  Touch,   \* the pairs {c, d} of cells whose boundaries meet
  Hull,    \* the cells with a corner on the hull, clockwise
  Weight,  \* what running through a cell adds to the length of a curve; nothing,
           \* if the cell is a point or a curve can be one in it
  Curves   \* the connected sets of cells: what a closed curve can run through

Border == {Hull[i] : i \in DOMAIN Hull}

\* No cell of A touches a cell of B.
Separated(A, B) == \A e \in Touch : e \cap A = {} \/ e \cap B = {}

Connected(T) ==
  /\ T # {}
  /\ \A Q \in SUBSET T : Q = {} \/ Q = T \/ ~ Separated(Q, T \ Q)

\* The connected parts of a region.
Parts(R) == {P \in Curves : P \subseteq R /\ Separated(P, R \ P)}

\* distance(C, S) > 0 for the closed regions C and S.
Apart(C, S) == C \cap S = {} /\ Separated(C, S)

\* The curve T visits every site of the list.
Visits(T, sites) == \A i \in DOMAIN sites : T \cap sites[i] # {}

Length(T) == FoldSet(LAMBDA c, sum : Weight[c] + sum, 0, T)

\* The length of a shortest curve that visits every site.
Optimum(sites) == Min({Length(T) : T \in {U \in Curves : Visits(U, sites)}})

ASSUME PlaneAssumption ==
  /\ IsFiniteSet(Cells)
  /\ Hull \in Seq(Cells)
  /\ Curves = {T \in SUBSET Cells : Connected(T)}

ASSUME WeightAssumption == \A c \in Cells : Weight[c] \in Nat
=============================================================================
