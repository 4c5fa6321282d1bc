------------------------- MODULE MCPartialSequence -------------------------
(***************************************************************************)
(* PartialSequence with the instances TLC explores.                        *)
(***************************************************************************)
EXTENDS PartialSequence, TLC

Place(index, overlaps) == [hull_index |-> index, intersections |-> overlaps]

\* No annotations, and four polygons on the hull, two of which overlap and are
\* visited in either order.
None == <<>>
Annotated ==
  1 :> Place(1, {}) @@ 2 :> Place(3, {4}) @@ 4 :> Place(2, {2}) @@ 5 :> Place(0, {})

\* Three polygons on the hull, which the tour visits in the direction of the
\* root: against that of the annotations.
AnnotatedBackwards == 1 :> Place(3, {}) @@ 2 :> Place(2, {}) @@ 4 :> Place(1, {})

Option(path, decomposition, skipHull, annotations, elsewhere) ==
  [path |-> path, meetsOrigin |-> IF path THEN {4, 5} ELSE {},
   decomposition |-> decomposition, skipHull |-> skipHull,
   annotations |-> annotations, filter |-> annotations # None, elsewhere |-> elsewhere]

\* The default way to solve a tour, one with order filtering, and a path with
\* indicator modelling, whose target touches its origin, while other nodes
\* restore polygons too.
MCOptions ==
  {Option(FALSE, TRUE, FALSE, None, 0), Option(FALSE, TRUE, FALSE, Annotated, 0),
   Option(TRUE, FALSE, TRUE, None, 2)}
MCBackwards == {Option(FALSE, TRUE, FALSE, AnnotatedBackwards, 0)}
=============================================================================
