--------------------------- MODULE OrderAnnotation ---------------------------
(* Order annotations (order_annotation.py): which polygons lie on the       *)
(* convex hull, in which clockwise order, and which of those overlap; and   *)
(* what the solver makes of them (OrderRootStrategy::get_root_node): the    *)
(* cyclic sequence of polygons its search starts from.                      *)
(* An annotated instance is a list of polygons and a partial function from  *)
(* their indices to annotations.                                            *)
EXTENDS Plane, SequencesExt

Annotation == [hull_index : Int, intersections : SUBSET Nat]

\* The first place along the hull where a polygon meets it; a polygon that
\* does not meet the hull has none.
Position(S) == Min({i \in DOMAIN Hull : Hull[i] \in S})

OnHull(polygons) == {i \in DOMAIN polygons : polygons[i] \cap Border # {}}

\* The polygons that have an index, sorted by it; ties go by polygon.
SortedByIndex(index) ==
  CHOOSE s \in [1 .. Cardinality(DOMAIN index) -> DOMAIN index] :
    \A k, l \in DOMAIN s : k < l =>
      \/ index[s[k]] < index[s[l]]
      \/ index[s[k]] = index[s[l]] /\ s[k] < s[l]

\* Mutant: the positions are not sorted.
OrderedIndicesUnsorted(polygons) == SortedByIndex([i \in OnHull(polygons) |-> i])
\* Polygons are found segment by segment, within a segment by index, and then
\* sorted by position with a stable sort.
OrderedIndices(polygons) == SortedByIndex([i \in OnHull(polygons) |-> Position(polygons[i])])

\* Only overlaps among the ordered polygons are recorded.
Intersections(polygons, i) ==
  {j \in OnHull(polygons) \ {i} : polygons[j] \cap polygons[i] # {}}

\* Entries of polygons that are not on the hull are copied from the instance.
AddOrderAnnotations(instance) ==
  LET ordered == OrderedIndices(instance.polygons)
      fresh   == [i \in OnHull(instance.polygons) |->
                    [hull_index    |-> (CHOOSE k \in DOMAIN ordered : ordered[k] = i) - 1,
                     intersections |-> Intersections(instance.polygons, i)]]
  IN  [polygons    |-> instance.polygons,
       annotations |-> [i \in DOMAIN fresh \cup DOMAIN instance.annotations |->
                          IF i \in DOMAIN fresh THEN fresh[i]
                          ELSE instance.annotations[i]]]


\* The indices of the polygons on the hull (AnnotatedInstance.hull_polygons).
HullPolygons(instance) ==
  LET onHull == {i \in DOMAIN instance.annotations : instance.annotations[i].hull_index >= 0}
  IN  SortedByIndex([i \in onHull |-> instance.annotations[i].hull_index])

\* The annotations that the core gets: an order index, if there is one, and the
\* overlaps, for every polygon (convert_to_tspn_instance).
GeometryAnnotations(instance) ==
  [i \in DOMAIN instance.polygons |->
     IF i \in DOMAIN instance.annotations
       THEN LET note == instance.annotations[i]
            IN  [order_index |-> IF note.hull_index >= 0 THEN {note.hull_index} ELSE {},
                 overlaps    |-> note.intersections]
       ELSE [order_index |-> {}, overlaps |-> {}]]

\* The polygons of the root node: those with an order index, in order, leaving
\* out every polygon that an earlier one declares an overlap with.
OrderRoot(geos) ==
  LET indexed == {i \in DOMAIN geos : geos[i].order_index # {}}
      order == SortedByIndex([i \in indexed |-> CHOOSE k \in geos[i].order_index : TRUE])
      Overlapped(i, root) == \E k \in DOMAIN root : i \in geos[root[k]].overlaps
      root[m \in 0 .. Len(order)] ==
        IF m = 0 THEN <<>>
        ELSE IF Overlapped(order[m], root[m - 1]) THEN root[m - 1]
        ELSE Append(root[m - 1], order[m])
  IN  root[Len(order)]

-----------------------------------------------------------------------------
\* What makes the sequence of the order root one that some shortest tour
\* follows: its polygons are among those that the instance calls hull polygons,
\* lie on the hull in clockwise order and are pairwise disjoint.
SoundRoot(instance) ==
  LET root == OrderRoot(GeometryAnnotations(instance))
      P(k) == instance.polygons[root[k]]
  IN  /\ ToSet(root) \subseteq ToSet(HullPolygons(instance))
      /\ \A k \in DOMAIN root : P(k) \cap Border # {}
      /\ \A k, l \in DOMAIN root : k < l => /\ P(k) \cap P(l) = {}
                                            /\ Position(P(k)) < Position(P(l))
=============================================================================
