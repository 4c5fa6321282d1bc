------------------------------- MODULE MCMip -------------------------------
(***************************************************************************)
(* MipPipeline with a few instances on an integer grid.                    *)
(***************************************************************************)
EXTENDS MipInvariant

Shift(ring, c) == [k \in DOMAIN ring |-> <<ring[k][1] + c[1], ring[k][2] + c[2]>>]
Convex(ring) == [outer |-> ring, pieces |-> <<>>]

\* A triangle in both orientations, closed and with a vertex twice.
Triangles == <<
  <<<<0, 0>>, <<1, 0>>, <<0, 1>>>>,
  <<<<0, 0>>, <<0, 1>>, <<1, 0>>, <<0, 0>>>>,
  <<<<0, 0>>, <<0, 0>>, <<0, 1>>, <<1, 0>>>> >>

\* Six triangles on a hexagon: two disjoint subtours are possible.
Centers == <<<<6, 0>>, <<3, 5>>, <<-3, 5>>, <<-6, 0>>, <<-3, -5>>, <<3, -5>>>>
Hexagon ==
  [sites     |-> [k \in 1 .. 6 |-> Convex(Shift(Triangles[(k % 3) + 1], Centers[k]))],
   positions |-> {[i \in 0 .. 5 |-> Centers[i + 1]],
                  [i \in 0 .. 5 |-> IF i = 0 THEN <<7, 0>> ELSE Centers[i + 1]]},
   orders    |-> {<<0, 2, 4, 1, 3, 5>>}]

\* An angle, of which parts is a decomposition, between three convex polygons.
Angle(parts) ==
  [outer  |-> <<<<0, 0>>, <<4, 0>>, <<4, 1>>, <<1, 1>>, <<1, 4>>, <<0, 4>>>>,
   pieces |-> parts]
AngleAt(p, r) == [i \in 0 .. 3 |-> CASE i = 0 -> p [] i = 1 -> r [] i = 2 -> <<-3, -3>> [] i = 3 -> <<6, -4>>]
AngleInstance(parts) ==
  [sites     |-> <<Angle(parts), Convex(Shift(Triangles[2], <<6, 5>>)),
                   Convex(Shift(Triangles[1], <<-3, -3>>)), Convex(Shift(Triangles[3], <<6, -4>>))>>,
   positions |-> {AngleAt(p, r) : p \in {<<3, 2>>, <<2, 2>>, <<1, 1>>, <<4, 1>>, <<0, 4>>},
                                  r \in {<<6, 5>>, <<7, 5>>}},
   orders    |-> {<<0, 1, 2, 3>>, <<2, 1, 0, 3>>, <<3, 0, 1, 2>>}]

\* Its two arms, of which the second touches the first, and a piece of no area.
Arms == << <<<<0, 0>>, <<4, 0>>, <<4, 1>>, <<0, 1>>, <<0, 0>>>>,
           <<<<0, 4>>, <<1, 4>>, <<1, 1>>, <<0, 1>>>> >>
NoArea == <<<<1, 1>>, <<1, 4>>, <<1, 4>>>>

\* Two polygons only, and a polygon of two different vertices.
Pair ==
  [sites     |-> <<Convex(Triangles[1]), Convex(Shift(Triangles[1], <<3, 3>>))>>,
   positions |-> {[i \in 0 .. 1 |-> <<3 * i, 3 * i>>]},
   orders    |-> {<<0, 1>>}]
Flat ==
  [sites     |-> <<Convex(Triangles[1]), Convex(Shift(Triangles[1], <<3, 3>>)),
                   Convex(<<<<5, 0>>, <<5, 0>>, <<6, 0>>, <<5, 0>>>>)>>,
   positions |-> {[i \in 0 .. 2 |-> IF i = 2 THEN <<5, 0>> ELSE <<3 * i, 3 * i>>]},
   orders    |-> {}]

MCInstances == <<Hexagon, AngleInstance(Append(Arms, NoArea)), Pair, Flat>>

\* Tours and, for six sites, pairs of triangles.
MCEdgeSets ==
  {TourEdges(f) : f \in {<<0, 1>>, <<0, 1, 2>>, <<0, 1, 2, 3>>, <<0, 2, 1, 3>>, <<0, 1, 3, 2>>,
                         <<0, 1, 2, 3, 4, 5>>, <<0, 3, 1, 4, 2, 5>>}}
    \cup {EdgesOn({0, 1, k}) \cup EdgesOn((2 .. 5) \ {k}) : k \in 2 .. 5}

----------------------------------------------------------------------------

\* Slivers that lie far from the origin, which the lines through their edges
\* pass close by.
Sliver(sign) == Convex(<<<<sign * 10, 0>>, <<sign * 20, 1>>, <<sign * 30, 0>>>>)
Slivers ==
  [sites     |-> <<Sliver(1), Sliver(-1), Sliver(1)>>,
   positions |-> {[i \in 0 .. 2 |-> IF i = 1 THEN <<-10, 0>> ELSE <<10, 0>>]},
   orders    |-> {<<0, 1, 2>>}]

MCSlivers == <<Slivers>>

\* The piece of no area comes before the others, as DegenerateLast forbids.
MCNoAreaFirst == <<AngleInstance(<<NoArea>> \o Arms)>>
=============================================================================
