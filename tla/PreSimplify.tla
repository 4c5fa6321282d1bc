---------------------------- MODULE PreSimplify ----------------------------
(* The geometric preprocessing (tspn_core/details/pre_simplify.cpp, driven *)
(* by simplify_annotated_instance): every site loses its unnecessary       *)
(* holes, every site is extended to the hull where some other site is far  *)
(* away, and sites that contain another site are dropped.  Each loop goes  *)
(* over the sites one by one and later iterations see what earlier ones    *)
(* did; each iteration is one action.                                      *)
EXTENDS Plane

VARIABLES
  input,   \* the sites of the instance
  flags,   \* the flags of the running call: a set of operation names
  stage,   \* "idle", an operation name, "done" or "failed"
  pos,     \* the site the running loop is at
  sites,   \* the sites as transformed so far
  kept     \* the indices of the sites not erased

preVars == <<input, flags, stage, pos, sites, kept>>

Operations == {"remove_holes", "convex_hull_fill", "remove_supersites"}

-----------------------------------------------------------------------------
\* The interiors of the inner rings of a polygon.
Holes(S) == {C \in Parts(Cells \ S) : C \cap Border = {}}

\* The areas between a polygon and the hull, one per pair of consecutive hull
\* vertices of its outer ring; there is none unless it has two of them.
Pockets(S) ==
  IF Cardinality(S \cap Border) < 2 THEN {}
  ELSE {C \in Parts(Cells \ S) : C \cap Border # {}}

\* Mutant: any second site will do, wherever it lies.
FarSiteAnywhere(C, i) == \E j \in DOMAIN sites : j # i
\* Some other site is at a positive distance from C.
FarSite(C, i) == \E j \in DOMAIN sites : j # i /\ Apart(C, sites[j])

\* Site i with those of the given areas that no tour needs to be kept out of.
Extended(i, areas) ==
  {c \in Cells : c \in sites[i] \/ \E C \in areas : c \in C /\ FarSite(C, i)}

WithoutHoles(i) == Extended(i, Holes(sites[i]))

Filled(i) == Extended(i, Pockets(sites[i]))

\* Mutant: of two equal sites each makes the other superfluous.
ContainsWithoutPrio(inner, outer) == sites[inner] \subseteq sites[outer]
ContainsWithPrio(inner, outer) ==
  /\ sites[inner] \subseteq sites[outer]
  /\ inner < outer \/ ~ (sites[outer] \subseteq sites[inner])

Supersite(outer) ==
  \E inner \in DOMAIN sites : inner # outer /\ ContainsWithPrio(inner, outer)

-----------------------------------------------------------------------------
PreInit ==
  /\ flags = {} /\ stage = "idle" /\ pos = 0
  /\ sites = input /\ kept = DOMAIN input

Begin(ops) ==
  /\ stage = "idle"
  /\ flags' = ops /\ stage' = "remove_holes" /\ pos' = 1
  /\ sites' = input /\ kept' = DOMAIN input
  /\ UNCHANGED input

\* An operation whose flag is off is passed over; the others start at their
\* first site, remove_supersites at its last.
RemoveHolesAt ==
  /\ stage = "remove_holes"
  /\ IF "remove_holes" \in flags /\ pos <= Len(sites)
       THEN /\ sites' = [sites EXCEPT ![pos] = WithoutHoles(pos)]
            /\ pos' = pos + 1
            /\ UNCHANGED stage
       ELSE /\ stage' = "convex_hull_fill" /\ pos' = 1
            /\ UNCHANGED sites
  /\ UNCHANGED <<input, flags, kept>>

ConvexHullFillAt ==
  /\ stage = "convex_hull_fill"
  /\ IF "convex_hull_fill" \in flags /\ pos <= Len(sites)
       THEN /\ sites' = [sites EXCEPT ![pos] = Filled(pos)]
            /\ pos' = pos + 1
            /\ UNCHANGED stage
       ELSE /\ stage' = "remove_supersites" /\ pos' = Len(sites)
            /\ UNCHANGED sites
  /\ UNCHANGED <<input, flags, kept>>

\* The union with a pocket came out in several parts: a logic_error, which
\* simplify_annotated_instance raises again as RuntimeError.
ConvexHullFillFails ==
  /\ stage = "convex_hull_fill" /\ "convex_hull_fill" \in flags
  /\ pos <= Len(sites) /\ Filled(pos) # sites[pos]
  /\ stage' = "failed"
  /\ UNCHANGED <<input, flags, pos, sites, kept>>

RemoveSupersitesAt ==
  /\ stage = "remove_supersites"
  /\ IF "remove_supersites" \in flags /\ pos >= 1
       THEN /\ kept' = IF Supersite(pos) THEN kept \ {pos} ELSE kept
            /\ pos' = pos - 1
            /\ UNCHANGED stage
       ELSE /\ stage' = "done"
            /\ UNCHANGED <<pos, kept>>
  /\ UNCHANGED <<input, flags, sites>>

\* The call returned, or raised.
Return ==
  /\ stage \in {"done", "failed"}
  /\ stage' = "idle"
  /\ UNCHANGED <<input, flags, pos, sites, kept>>

SimplifyStep ==
  \/ RemoveHolesAt
  \/ ConvexHullFillAt
  \/ ConvexHullFillFails
  \/ RemoveSupersitesAt

PreNext == (\E ops \in SUBSET Operations : Begin(ops)) \/ SimplifyStep \/ Return

PreSpec ==
  /\ input \in Seq(SUBSET Cells)
  /\ PreInit
  /\ [][PreNext]_preVars

-----------------------------------------------------------------------------
\* Whatever the operations did to the sites, and in whatever order: a closed
\* curve that visits every site still in the list visits every site of the
\* instance (holes and pockets are filled and sites are erased only when no
\* tour can profit from it).
CurvesKept ==
  \A T \in Curves :
    (\A i \in kept : T \cap sites[i] # {}) => Visits(T, input)
=============================================================================
