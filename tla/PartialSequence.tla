-------------------------- MODULE PartialSequence --------------------------
(***************************************************************************)
(* How the partial sequence of a node and its stash change along one path  *)
(* of the search tree, from the root down (tspn_core/relaxed_solution.cpp, *)
(* PolyBranching::branch in tspn_core/strategies/branching_strategy.cpp,   *)
(* TourElement in tspn_core/common.cpp).                                   *)
(*                                                                         *)
(* Polygons are numbered in the order in which one optimal tour visits     *)
(* them, starting with the first polygon of the root's sequence and in the *)
(* root's direction; of a nonconvex polygon the tour visits the part       *)
(* TourPart.  A node admits the tour if its sequence, its parts and the    *)
(* order kept in its stash agree with it.  The path goes to any child, so  *)
(* that nodes which do not admit the tour are reached as well.  Which      *)
(* polygons a trajectory spans or misses is arbitrary.  The rest of the    *)
(* tree shows only in how often the polygons have been restored: that      *)
(* count is kept once per polygon of the instance, for all nodes.          *)
(***************************************************************************)
EXTENDS Integers, Sequences, FiniteSets, FiniteSetsExt, SequencesExt, OrderFiltering

CONSTANTS
  NumGeos,              \* the instance has polygons 1 .. NumGeos
  Nonconvex,            \* the nonconvex ones
  Parts, TourPart,      \* their convex decomposition; where the tour touches
  Options,              \* the ways to configure the solver that are checked
  SimplifySize,         \* shorter sequences are not simplified: 12 in the code
  MaxTeToggle,          \* MAX_TE_TOGGLE_COUNT
  MaxGeomToggle         \* MAX_GEOM_TOGGLE_COUNT

Geo == 1 .. NumGeos

ASSUME PartialSequenceAssumption ==
  /\ NumGeos \in Nat \ {0, 1} /\ Nonconvex \subseteq Geo
  /\ TourPart \in Parts /\ Parts \cap {"convex", "lazy", "exact"} = {}
  /\ \A o \in Options :
       /\ {o.path, o.decomposition, o.skipHull, o.filter} \subseteq BOOLEAN
       /\ o.meetsOrigin \subseteq Geo /\ o.elsewhere \in Nat
       /\ DOMAIN o.annotations \subseteq Geo
       /\ \A g \in DOMAIN o.annotations :
            o.annotations[g] \in [hull_index : Nat, intersections : SUBSET Geo]
  /\ SimplifySize \in Nat /\ MaxTeToggle \in Nat /\ MaxGeomToggle \in Nat

VARIABLES
  options,     \* Instance::path (a path ends at polygon NumGeos), the polygons
               \* that have a point in common with the first one, the order
               \* annotations of the polygons, PolyBranching::
               \* decomposition_branch, skip_convex_hull and whether the rule
               \* OrderFiltering is used ("filter").  "elsewhere" is a bound:
               \* other nodes restore polygons only while fewer than this
               \* were restored in the whole tree
  phase,       \* "created": not yet evaluated; "evaluated"; "pruned"
  seq,         \* LazyTrajectoryComputation::sequence
  stash,       \* PartialSequenceSolution::stash
  geomToggles  \* Geometry::geom_toggle_count, shared by all nodes of the tree

vars == <<options, phase, seq, stash, geomToggles>>

\* A tour element stands for a convex polygon, the hull of a nonconvex one
\* ("lazy"), the nonconvex polygon itself ("exact") or one of its parts.
Form == {"convex", "lazy", "exact"} \cup Parts
Element(g, form) == [geo |-> g, form |-> form, toggles |-> 0]
GeosOf(elements) == {e.geo : e \in elements}
SeqGeos == GeosOf(ToSet(seq))
StashGeos == {ste.element.geo : ste \in ToSet(stash)}

----------------------------------------------------------------------------
(* The stash *)

\* Mutant of CanBeDisabled: the limit on a geometry is one too high.
CanBeDisabledOnceMore(e) == e.toggles <= MaxTeToggle /\ geomToggles[e.geo] <= MaxGeomToggle

\* TourElement::can_be_disabled; elements of the sequence are active.
CanBeDisabled(e) == e.toggles < MaxTeToggle /\ geomToggles[e.geo] < MaxGeomToggle

\* The bounds on where a stashed element may be inserted, as the number of
\* elements before it.
Earliest(ste, s) == Max({0} \cup {i \in DOMAIN s : s[i].geo \in ste.earlier})
Latest(ste, s) == Min({Len(s)} \cup {i - 1 : i \in {i \in DOMAIN s : s[i].geo \in ste.later}})

\* Mutant of Exchanged: what lies earlier and what lies later is mixed up.
ExchangedMixedUp(old, new) ==
  IF new.element.geo \in old.earlier
    THEN << [old EXCEPT !.earlier = @ \cup new.later],
            [new EXCEPT !.later = @ \cup {old.element.geo} \cup old.later] >>
  ELSE <<old, new>>

\* One round of the loop in add_to_stash: the element being stashed and one
\* that was stashed before tell each other what they know.
Exchanged(old, new) ==
  IF new.element.geo \in old.earlier
    THEN << [old EXCEPT !.earlier = @ \cup new.earlier],
            [new EXCEPT !.later = @ \cup {old.element.geo} \cup old.later] >>
  ELSE IF new.element.geo \in old.later
    THEN << [old EXCEPT !.later = @ \cup new.later],
            [new EXCEPT !.earlier = @ \cup {old.element.geo} \cup old.earlier] >>
  ELSE <<old, new>>

\* What the order of sequence s says about its element i.
Fresh(s, i) ==
  [element |-> s[i],
   earlier |-> {s[j].geo : j \in 1 .. i - 1},
   later |-> {s[j].geo : j \in i + 1 .. Len(s)}]

\* What the element being stashed knows after each round of the loop over st.
Told(st, fresh) ==
  LET told[k \in 0 .. Len(st)] ==
        IF k = 0 THEN fresh ELSE Exchanged(st[k], told[k - 1])[2]
  IN  told

\* Mutant of AddToStash: the order relative to the rest of the stash is lost.
AddToStashAlone(st, s, i) == Append(st, Fresh(s, i))

\* add_to_stash(sequence, i) on the stash st.
AddToStash(st, s, i) ==
  LET told == Told(st, Fresh(s, i))
  IN  Append([k \in 1 .. Len(st) |-> Exchanged(st[k], told[k - 1])[1]], told[Len(st)])

\* simplify: the stash once those of the first i elements of s whose positions
\* are in rs were stashed, one after the other.
Stashed(st, s, rs) ==
  LET stashed[i \in 0 .. Len(s)] ==
        IF i = 0 THEN st
        ELSE IF i \in rs THEN AddToStash(stashed[i - 1], s, i)
        ELSE stashed[i - 1]
  IN  stashed

StashAll(st, s, rs) == Stashed(st, s, rs)[Len(s)]

\* Mutant of Without: the positions are erased in ascending order, although
\* each erasure shifts those that follow.
WithoutAscending(s, rs) ==
  FoldLeft(LAMBDA t, i : IF i <= Len(t) THEN RemoveAt(t, i) ELSE t, s, SetToSortSeq(rs, <))

\* Only then are they erased from the sequence: what is left of each prefix of
\* a sequence without the positions rs.
Kept(s, rs) ==
  LET kept[i \in 0 .. Len(s)] ==
        IF i = 0 THEN <<>>
        ELSE IF i \in rs THEN kept[i - 1]
        ELSE Append(kept[i - 1], s[i])
  IN  kept

Without(s, rs) == Kept(s, rs)[Len(s)]

----------------------------------------------------------------------------
(* Branching *)

\* The polygons that can be farthest from the trajectory: one whose element is
\* in the sequence and not lazy counts as covered.
Branchable == Geo \ {e.geo : e \in {e \in ToSet(seq) : e.form # "lazy"}}

\* A lazy element is replaced, by one that models the polygon or by each part.
Resolved(g) ==
  LET i == CHOOSE i \in DOMAIN seq : seq[i].geo = g
      forms == IF options.decomposition THEN Parts ELSE {"exact"}
  IN  {[seq EXCEPT ![i] = Element(g, form)] : form \in forms}

\* e is inserted behind the first k elements of s.
Inserted(s, k, e) == InsertAt(s, k + 1, e)

StashedAs(g) == CHOOSE ste \in ToSet(stash) : ste.element.geo = g

\* A stashed element is restored at every position its order allows.
Restored(g) ==
  LET ste == StashedAs(g)
      enabled == [ste.element EXCEPT !.toggles = @ + 1]
  IN  {Inserted(seq, k, enabled) : k \in Earliest(ste, seq) .. Latest(ste, seq)}

\* A new element goes anywhere but to the front, in a path also not to the end.
Extended(g) ==
  LET form == IF g \notin Nonconvex THEN "convex"
              ELSE IF options.skipHull THEN "exact" ELSE "lazy"
      last == IF options.path THEN Len(seq) - 1 ELSE Len(seq)
  IN  {Inserted(seq, k, Element(g, form)) : k \in 1 .. last}

\* The sequences that branching on g proposes.
Proposed(g) ==
  IF g \in SeqGeos THEN Resolved(g)
  ELSE IF g \in StashGeos THEN Restored(g)
  ELSE Extended(g)

\* is_sequence_ok, with OrderFiltering as the only rule
IsSequenceOk(s) ==
  LET Geos(t) == [i \in DOMAIN t |-> t[i].geo]
  IN  options.filter => IsOk(options.annotations, Geos(s), Geos(seq))

Children(g) == {s \in Proposed(g) : IsSequenceOk(s)}

\* remove_from_stash; a polygon that is not stashed leaves the stash alone.
StashWithout(g) == Without(stash, {k \in DOMAIN stash : stash[k].element.geo = g})

\* Whether branching on g takes it from the stash: its order allows some
\* position.  That is before the rules are asked.
IsRestored(g) ==
  g \in StashGeos /\ Earliest(StashedAs(g), seq) <= Latest(StashedAs(g), seq)

\* enable() counts for the element and for its geometry.
Counted(g) == [geomToggles EXCEPT ![g] = @ + 1]

----------------------------------------------------------------------------
\* What spans a trajectory: any of its turning points, and both ends of a path.
\* A path that ends in the very point where it begins is taken for a tour,
\* though, so that neither end need span it.
SpanningSets(s) ==
  {ps \in SUBSET DOMAIN s :
     options.path =>
       \/ {1, Len(s)} \subseteq ps
       \/ s[Len(s)].geo \in options.meetsOrigin /\ 1 \notin ps /\ Len(s) \notin ps}

\* The tour visits polygons on the hull in the order of their annotations.
FollowsOrder(annotations) ==
  \A g, h, k \in DOMAIN annotations :
    g < h /\ h < k /\ Constrained(annotations, g, h, k) =>
      IsBetweenCyclic(annotations[g].hull_index, annotations[h].hull_index,
                      annotations[k].hull_index)

\* The root's sequence agrees with the tour.  Every tour, in one of its
\* directions, agrees with three polygons, and most root strategies take three
\* without a look at the annotations; the others take two, or follow the
\* order.  The root is not simplified.
Init ==
  \E n \in 2 .. NumGeos : \E order \in [1 .. n -> Geo] :
    /\ options \in Options
    /\ FollowsOrder(options.annotations) \/ (~ options.path /\ n = 3)
    /\ \A i, j \in 1 .. n : i < j => order[i] < order[j]
    /\ order[1] = 1 /\ (options.path => order[n] = NumGeos)
    /\ phase = "evaluated"
    /\ seq = [i \in 1 .. n |->
                Element(order[i], IF order[i] \in Nonconvex THEN "lazy" ELSE "convex")]
    /\ stash = <<>>
    /\ geomToggles = [g \in Geo |-> 0]

\* The positions that simplify() takes out of the sequence.
Removable(ps) ==
  IF Len(seq) < SimplifySize THEN {}
  ELSE {i \in 2 .. Len(seq) : i \notin ps /\ CanBeDisabled(seq[i])}

\* evaluate_child: the trajectory is computed, then the node is simplified.
Evaluate ==
  /\ phase = "created"
  /\ phase' = "evaluated"
  /\ \E ps \in SpanningSets(seq) :
       /\ stash' = StashAll(stash, seq, Removable(ps))
       /\ seq' = Without(seq, Removable(ps))
  /\ UNCHANGED <<options, geomToggles>>

\* PolyBranching::branch on polygon g, and the descent to one of the children.
Branch(g) ==
  /\ phase = "evaluated"
  /\ g \in Branchable
  /\ seq' \in Children(g)
  /\ stash' = StashWithout(g)
  /\ geomToggles' = IF g \in StashGeos THEN Counted(g) ELSE geomToggles
  /\ phase' = "created"
  /\ UNCHANGED options

\* Without children the node is pruned as infeasible.  A stashed polygon was
\* taken from the stash and counted all the same, unless there was no position
\* to begin with.
DeadEnd(g) ==
  /\ phase = "evaluated"
  /\ g \in Branchable
  /\ Children(g) = {}
  /\ IF IsRestored(g)
       THEN stash' = StashWithout(g) /\ geomToggles' = Counted(g)
       ELSE UNCHANGED <<stash, geomToggles>>
  /\ phase' = "pruned"
  /\ UNCHANGED <<options, seq>>

\* Until this node is branched, the search visits others, which may restore
\* their element of g.
RestoredElsewhere(g) ==
  /\ phase = "evaluated"
  /\ FoldFunction(+, 0, geomToggles) < options.elsewhere
  /\ geomToggles' = Counted(g)
  /\ UNCHANGED <<options, phase, seq, stash>>

Next == Evaluate \/ \E g \in Geo : Branch(g) \/ DeadEnd(g) \/ RestoredElsewhere(g)

Spec == Init /\ [][Next]_vars

----------------------------------------------------------------------------
(* Properties *)

\* The elements of the sequence and the stash; no element is toggled more often
\* than its limit allows.  The count of a geometry has no such limit: subtrees
\* that stashed a polygon while the count was low restore it one after the other.
TypeOK ==
  /\ options \in Options /\ phase \in {"created", "evaluated", "pruned"}
  /\ \A i \in DOMAIN seq : seq[i] \in [geo : Geo, form : Form, toggles : 0 .. MaxTeToggle]
  /\ \A ste \in ToSet(stash) :
       ste \in [element : [geo : Geo, form : Form, toggles : 0 .. MaxTeToggle],
                earlier : SUBSET Geo, later : SUBSET Geo]
  /\ geomToggles \in [Geo -> Nat]

\* Sequence s and stash st agree with the tour.
AdmitsTour(s, st) ==
  /\ \A i, j \in DOMAIN s : i < j => s[i].geo < s[j].geo
  /\ \A e \in ToSet(s) \cup {ste.element : ste \in ToSet(st)} :
       e.form \in Parts => e.form = TourPart
  /\ \A ste \in ToSet(st) :
       /\ \A x \in ste.earlier : x < ste.element.geo
       /\ \A x \in ste.later : ste.element.geo < x

\* Branching is exhaustive: whichever polygon a node that admits the tour is
\* branched on, be it new, stashed or lazy, one of the children admits the tour
\* (branching_strategy.cpp branch).  In a path this takes that the target was
\* not stashed: nothing new is inserted behind the last element, although the
\* target would come behind it.
NoTourLost ==
  /\ phase = "evaluated" /\ AdmitsTour(seq, stash)
  /\ options.path => NumGeos \in SeqGeos
  => \A g \in Branchable : \E s \in Children(g) : AdmitsTour(s, StashWithout(g))

\* What simplify() writes into the stash about the order of stashed elements,
\* directly or through other stashed elements, holds for every tour that the
\* sequence held (relaxed_solution.cpp add_to_stash).
SimplifyKeepsTour ==
  [][phase = "created" /\ AdmitsTour(seq, stash) => AdmitsTour(seq', stash')]_vars

\* And it is enough: although an element that is taken out of the sequence no
\* longer constrains the relaxation, a tour that some node excludes is not
\* searched again below that node.  This takes the default limit of one
\* restoration per polygon: an element that is stashed again may be told both
\* orders of another one, whereupon the exchange is skipped and an order that
\* only a third element knew gets lost with it.
NoTourRegained ==
  [][phase' # "pruned" /\ AdmitsTour(seq', stash') => AdmitsTour(seq, stash)]_vars

\* A polygon that was branched on keeps an element on the whole path, and never
\* gets a second one: moving elements between the sequence and the stash neither
\* loses nor doubles any.
NothingForgotten ==
  [][/\ phase' # "pruned" => SeqGeos \cup StashGeos \subseteq SeqGeos' \cup StashGeos'
     /\ Len(seq') + Len(stash') = Cardinality(SeqGeos' \cup StashGeos')]_vars

\* What is left to do on the way to a leaf: polygons to place, nonconvex ones to
\* resolve, and restorations that the limit on an element still allows.  It
\* starts anew for the element that resolves a nonconvex polygon.
Placed == ToSet(seq) \cup {ste.element : ste \in ToSet(stash)}
LeftToDo ==
  Cardinality(Geo \ GeosOf(Placed))
  + (MaxTeToggle + 1) * Cardinality(Nonconvex \ GeosOf({e \in Placed : e.form # "lazy"}))
  + Cardinality({t \in Geo \X (1 .. MaxTeToggle) :
                   \A e \in Placed : e.geo = t[1] => e.toggles < t[2]})

\* However often elements are stashed and restored, here or elsewhere, every
\* step down the tree leaves less to do, and simplifying never more: no path of
\* the tree is infinite (common.cpp can_be_disabled).
DepthBounded ==
  [][/\ phase' # "pruned" => LeftToDo' <= LeftToDo
     /\ phase' = "created" => LeftToDo' < LeftToDo]_vars
=============================================================================
