----------------------------- MODULE NodeBounds -----------------------------
(***************************************************************************)
(* Where the bounds of a tree end up when one of them is raised, in closed *)
(* form.  The code computes this by calls between a node, its parent and   *)
(* its children (Node::add_lower_bound and Node::reevaluate_children in    *)
(* tspn_core/node.cpp); NodeTree translates those calls one by one, and    *)
(* NodeTreeProofs shows that they compute what is defined here.            *)
(***************************************************************************)
EXTENDS Integers, FiniteSets, FiniteSetsExt

CONSTANT MaxNodes   \* bound: how many nodes the tree may have

Root == 1
Node == 1 .. MaxNodes

Lesser(a, b) == IF a <= b THEN a ELSE b
Greater(a, b) == IF a <= b THEN b ELSE a

\* In what follows f gives the bound of each node, leaf is the set of leaves
\* and under[m] the set of m and all its ancestors.

\* Mutants of Propagated: the ancestors are forgotten; they take the greatest
\* bound below them instead of the least.
PropagatedNowhere(f, n, leaf, under) == f
PropagatedGreatest(f, n, leaf, under) ==
  [a \in Node |->
     IF a \in under[n] \ {n}
       THEN Greater(f[a], Max({f[m] : m \in {m \in leaf : a \in under[m]}}))
       ELSE f[a]]

\* Once n and everything below it have their bounds, the ancestors of n take
\* the least bound of the leaves under them if that is an improvement.
Propagated(f, n, leaf, under) ==
  [a \in Node |->
     IF a \in under[n] \ {n}
       THEN Greater(f[a], Min({f[m] : m \in {m \in leaf : a \in under[m]}}))
       ELSE f[a]]

\* Mutant of RaisedBounds: the new bound replaces a better one.
RaisedBlindly(f, n, l, leaf, under) ==
  Propagated([m \in Node |-> IF n \in under[m] THEN l ELSE f[m]], n, leaf, under)

\* add_lower_bound(l) on node n: n, its descendants, then its ancestors.
RaisedBounds(f, n, l, leaf, under) ==
  Propagated([m \in Node |-> IF n \in under[m] THEN Greater(f[m], l) ELSE f[m]],
             n, leaf, under)
=============================================================================
