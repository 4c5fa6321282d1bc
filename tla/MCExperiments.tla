--------------------------- MODULE MCExperiments ---------------------------
(* One plane and a few instances in it for Experiments.  Around the inner   *)
(* cell h lie r1, r2 and r3; o1 lies outside of r1 and r2, o2 outside of r2 *)
(* and r3.  The shortest curve through o1 and o2 runs through r2 (86), the  *)
(* one through r1 and r3 is longer by less than 15 per cent of itself (100).*)
(* The inner cell is so small that a curve in it has no length.             *)
EXTENDS Experiments

CONSTANTS h, r1, r2, r3, o1, o2

MCTouch == {{h, r1}, {h, r2}, {h, r3}, {r1, r2}, {r2, r3}, {r1, r3},
            {o1, r1}, {o1, r2}, {o2, r2}, {o2, r3}}

MCHull == <<r1, o1, r2, o2, r3>>

MCWeight == h :> 0 @@ r1 :> 30 @@ r2 :> 46 @@ r3 :> 30 @@ o1 :> 20 @@ o2 :> 20

\* All connected sets of cells.
MCCurves ==
  {{h}, {r1}, {r2}, {r3}, {o1}, {o2}, {h, r1}, {h, r2}, {h, r3}, {r1, r2},
   {r1, r3}, {r1, o1}, {r2, r3}, {r2, o1}, {r2, o2}, {r3, o2}, {h, r1, r2},
   {h, r1, r3}, {h, r1, o1}, {h, r2, r3}, {h, r2, o1}, {h, r2, o2},
   {h, r3, o2}, {r1, r2, r3}, {r1, r2, o1}, {r1, r2, o2}, {r1, r3, o1},
   {r1, r3, o2}, {r2, r3, o1}, {r2, r3, o2}, {r2, o1, o2}, {h, r1, r2, r3},
   {h, r1, r2, o1}, {h, r1, r2, o2}, {h, r1, r3, o1}, {h, r1, r3, o2},
   {h, r2, r3, o1}, {h, r2, r3, o2}, {h, r2, o1, o2}, {r1, r2, r3, o1},
   {r1, r2, r3, o2}, {r1, r2, o1, o2}, {r1, r3, o1, o2}, {r2, r3, o1, o2},
   {h, r1, r2, r3, o1}, {h, r1, r2, r3, o2}, {h, r1, r2, o1, o2},
   {h, r1, r3, o1, o2}, {h, r2, r3, o1, o2}, {r1, r2, r3, o1, o2},
   {h, r1, r2, r3, o1, o2}}

\* A ring with a hole, a polygon beyond it, and one inside the ring and hole.
Ringed == [polygons |-> <<{r1, r2, r3}, {o1}, {h, r2}>>, annotations |-> <<>>]

\* A large polygon with pockets to the hull on both sides, and the two polygons
\* that lie in those pockets; the instance comes with annotations.
Pocketed ==
  [polygons    |-> <<{o1}, {h, r1, r2, r3}, {o2}>>,
   annotations |-> <<[hull_index |-> 1, intersections |-> {}],
                     [hull_index |-> 0, intersections |-> {}],
                     [hull_index |-> 2, intersections |-> {}]>>]

\* Two equal polygons and one that contains them.
Repeated ==
  [polygons |-> <<{o2, r3}, {o1}, {o1, r1}, {o1}>>, annotations |-> <<>>]

\* Three polygons with a common point.
Meeting == [polygons |-> <<{h, r1}, {h, r2}, {h, r3}>>, annotations |-> <<>>]

MCInstances == {Ringed, Pocketed, Repeated, Meeting}
=============================================================================
