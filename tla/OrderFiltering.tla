--------------------------- MODULE OrderFiltering ---------------------------
(***************************************************************************)
(* The rule OrderFiltering (tspn_core/strategies/order_filtering.cpp): a   *)
(* sequence is not made a child if the polygon it adds lies between two    *)
(* others against their order on the convex hull.  Annotations are a       *)
(* partial function from polygons to records, as in OrderAnnotation;       *)
(* sequences are given as the polygons of their elements.                  *)
(***************************************************************************)
EXTENDS Integers, Sequences, FiniteSets

\* is_between_cyclic
IsBetweenCyclic(a, b, c) == IF a < c THEN a < b /\ b < c ELSE b > a \/ b < c

\* Mutant of Constrained: overlapping polygons are ordered as well.
ConstrainedEvenOverlapping(annotations, before, new, after) ==
  LET Index(g) == annotations[g].hull_index
  IN  /\ {before, new, after} \subseteq DOMAIN annotations
      /\ Cardinality({Index(before), Index(new), Index(after)}) = 3

\* Whether the order of three polygons is constrained: they are annotated with
\* different places on the hull, and no pair is known to overlap.
Constrained(annotations, before, new, after) ==
  LET Index(g) == annotations[g].hull_index
      Overlap(g, h) == h \in annotations[g].intersections
  IN  /\ {before, new, after} \subseteq DOMAIN annotations
      /\ ~ Overlap(before, new) /\ ~ Overlap(after, new)
      /\ ~ (Overlap(before, after) /\ Overlap(after, before))
      /\ Cardinality({Index(before), Index(new), Index(after)}) = 3

\* is_ok(seq, parent); find_new_element returns the first new polygon.
IsOk(annotations, seq, parentSeq) ==
  LET added == {j \in DOMAIN seq : \A i \in DOMAIN parentSeq : seq[j] # parentSeq[i]}
      Index(g) == annotations[g].hull_index
      Rejected(j) ==
        \E i \in 1 .. j - 1, k \in j + 1 .. Len(seq) :
          /\ Constrained(annotations, seq[i], seq[j], seq[k])
          /\ ~ IsBetweenCyclic(Index(seq[i]), Index(seq[j]), Index(seq[k]))
  IN  Len(seq) > Len(parentSeq) =>
        ~ \E j \in added : (\A j2 \in added : j <= j2) /\ Rejected(j)
=============================================================================
