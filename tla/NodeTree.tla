------------------------------ MODULE NodeTree ------------------------------
(***************************************************************************)
(* The Node objects of the branch-and-bound tree (tspn_core/node.h,        *)
(* node.cpp), with every call between a node, its parent and its children  *)
(* in the order in which the code makes it.  Any legal sequence of calls   *)
(* to branch, add_lower_bound and prune on any node is a behaviour, a      *)
(* superset of those the search loop and its callbacks make.               *)
(***************************************************************************)
EXTENDS NodeBounds, Sequences, SequencesExt

CONSTANTS
  Values,   \* the bounds a relaxation or a caller may have
  Inf,      \* std::numeric_limits<double>::infinity()
  Fanout    \* bound: how many children a branching creates

ASSUME NodeTreeAssumption ==
  /\ MaxNodes \in Nat \ {0} /\ Fanout \in Nat
  /\ Values \subseteq Nat /\ Inf \in Nat /\ \A v \in Values : v < Inf

VARIABLES
  parent,     \* Node::parent, 0 for the root and for nodes not yet created
  children,   \* Node::children, in order
  lb,         \* Node::lazy_lower_bound_value
  pruned      \* Node::pruned

vars == <<parent, children, lb, pruned>>

Nodes == {n \in Node : n = Root \/ parent[n] # 0}
Leaves == {n \in Nodes : children[n] = <<>>}

Bound == Values \cup {Inf}

\* Each node with all its ancestors, for the parents par.
PathIn(par) == LET path[n \in Node] ==
                     IF par[n] = 0 THEN {n} ELSE {n} \cup path[par[n]]
               IN  path
Path == PathIn(parent)

----------------------------------------------------------------------------
(* node.cpp, call by call.  par and kids are the parent and the children of  *)
(* each node, f the bounds while the calls are under way.  A recursion is a  *)
(* function of its call: add[<<f, n, l>>] are the bounds after the call of   *)
(* add_lower_bound(l) on n that began with the bounds f.                     *)

Calls == [Node -> Bound] \X Node \X Bound

\* The same call on one child after the other, beginning in the state f.
ToldChildren(call, kids, f, n, l) ==
  LET told[i \in 0 .. Len(kids[n])] ==
        IF i = 0 THEN f ELSE call[<<told[i - 1], kids[n][i], l>>]
  IN  told[Len(kids[n])]

\* Mutant of Reevaluated: the parent's own parent does not hear of it.
ReevaluatedHere(add, kids, f, n) ==
  IF kids[n] = <<>> THEN f
  ELSE [f EXCEPT ![n] = Greater(@, Min({f[c] : c \in ToSet(kids[n])}))]

\* reevaluate_children: the least bound of the children is a bound of the node.
Reevaluated(add, kids, f, n) ==
  IF kids[n] = <<>> THEN f
  ELSE add[<<f, n, Min({f[c] : c \in ToSet(kids[n])})>>]

\* Mutants of BoundAdded: only the children hear of the new bound; only the
\* parent does.
BoundAddedDownwards(add, par, kids, f, n, l) ==
  IF f[n] >= l THEN f ELSE ToldChildren(add, kids, [f EXCEPT ![n] = l], n, l)
BoundAddedUpwards(add, par, kids, f, n, l) ==
  LET here == [f EXCEPT ![n] = l]
  IN  IF f[n] >= l THEN f
      ELSE IF par[n] # 0 /\ here[par[n]] < l THEN Reevaluated(add, kids, here, par[n])
      ELSE here

\* add_lower_bound: this node, then its parent, then its children.
BoundAdded(add, par, kids, f, n, l) ==
  LET here == [f EXCEPT ![n] = l]
      above == IF par[n] # 0 /\ here[par[n]] < l
                 THEN Reevaluated(add, kids, here, par[n]) ELSE here
  IN  IF f[n] >= l THEN f ELSE ToldChildren(add, kids, above, n, l)

Adding(par, kids) ==
  LET add[c \in Calls] == BoundAdded(add, par, kids, c[1], c[2], c[3]) IN add

AddLowerBound(par, kids, f, n, l) == Adding(par, kids)[<<f, n, l>>]

\* prune changes marks and bounds: prune[<<s, n, infeasible>>] are the marks and
\* bounds after the call on n that began with s.
PruneCalls == ([Node -> BOOLEAN] \X [Node -> Bound]) \X Node \X BOOLEAN

\* The node's own mark, and its bound.
PrunedHere(par, kids, s, n, infeasible) ==
  <<[s[1] EXCEPT ![n] = TRUE],
    IF infeasible THEN AddLowerBound(par, kids, s[2], n, Inf) ELSE s[2]>>

\* Mutant of PrunedWith: the children are not told.
PrunedAlone(prune, par, kids, s, n, infeasible) ==
  IF s[1][n] THEN s ELSE PrunedHere(par, kids, s, n, infeasible)

\* The recursion stops at a node that is pruned already.
PrunedWith(prune, par, kids, s, n, infeasible) ==
  IF s[1][n] THEN s
  ELSE ToldChildren(prune, kids, PrunedHere(par, kids, s, n, infeasible), n, infeasible)

Pruning(par, kids) ==
  LET prune[c \in PruneCalls] == PrunedWith(prune, par, kids, c[1], c[2], c[3]) IN prune

Pruned(infeasible, n) == Pruning(parent, children)[<<<<pruned, lb>>, n, infeasible>>]

----------------------------------------------------------------------------
Init ==
  /\ parent = [n \in Node |-> 0]
  /\ children = [n \in Node |-> <<>>]
  /\ \E v \in Values : lb = [n \in Node |-> IF n = Root THEN v ELSE Inf]
  /\ pruned = [n \in Node |-> FALSE]

\* Mutant of Adopted: the new nodes become children of their grandparent.
AdoptedAbove(n, new) ==
  [m \in Node |-> IF m \in new THEN IF n = Root THEN n ELSE parent[n] ELSE parent[m]]

\* make_child passes the branching node as the parent.
Adopted(n, new) == [m \in Node |-> IF m \in new THEN n ELSE parent[m]]

\* make_child once for each relaxation bound in rs, then Node::branch.  A
\* child's bound is first asked for by reevaluate_children, and then is at
\* least its parent's (get_lower_bound).  A pruned node throws.
Branch(n, rs) ==
  LET first == Cardinality(Nodes)
      new == first + 1 .. first + Len(rs)
      parents == Adopted(n, new)
      kids == [children EXCEPT ![n] = [i \in 1 .. Len(rs) |-> first + i]]
      evaluated == [m \in Node |->
                      IF m \in new THEN Greater(rs[m - first], lb[n]) ELSE lb[m]]
  IN
  /\ n \in Leaves /\ ~ pruned[n]
  /\ first + Len(rs) <= MaxNodes
  /\ parent' = parents
  /\ children' = kids
  /\ lb' = Reevaluated(Adding(parents, kids), kids, evaluated, n)
  /\ UNCHANGED pruned

\* Node::prune; Node::branch without children is prune(true) too.
Prune(n, infeasible) ==
  /\ n \in Nodes
  /\ pruned' = Pruned(infeasible, n)[1]
  /\ lb' = Pruned(infeasible, n)[2]
  /\ UNCHANGED <<parent, children>>

Raise(n, l) ==
  /\ n \in Nodes
  /\ lb' = AddLowerBound(parent, children, lb, n, l)
  /\ UNCHANGED <<parent, children, pruned>>

Next ==
  \E n \in Node :
    \/ \E k \in 1 .. Fanout : \E rs \in [1 .. k -> Values] : Branch(n, rs)
    \/ \E infeasible \in BOOLEAN : Prune(n, infeasible)
    \/ \E l \in Values : Raise(n, l)

Spec == Init /\ [][Next]_vars

----------------------------------------------------------------------------
(* Properties *)

\* The nodes are numbered in the order of their creation and form one tree, in
\* which a node is the parent of exactly the nodes that it lists as children.
TypeOK ==
  /\ Nodes = 1 .. Cardinality(Nodes)
  /\ parent \in [Node -> 0 .. MaxNodes] /\ parent[Root] = 0
  /\ children \in [Node -> UNION {[1 .. k -> Nodes] : k \in 0 .. Fanout}]
  /\ \A n \in Nodes : ToSet(children[n]) = {m \in Node : parent[m] = n}
  /\ lb \in [Node -> Bound]
  /\ pruned \in [Node -> BOOLEAN]

\* However the calls between parents and children nest and cut each other
\* short, add_lower_bound ends in the bounds that NodeBounds gives in closed
\* form, and prune(true) in those of an infinite bound (node.cpp
\* add_lower_bound, prune).
CallsComputeRaisedBounds ==
  \A n \in Nodes :
    /\ \A l \in Values :
         AddLowerBound(parent, children, lb, n, l) = RaisedBounds(lb, n, l, Leaves, Path)
    /\ ~ pruned[n] => Pruned(TRUE, n)[2] = RaisedBounds(lb, n, Inf, Leaves, Path)

\* prune marks a node and everything below it, although it does not descend
\* below a node that is marked already: nothing unmarked is ever below a
\* marked node (node.cpp prune, branch).
PruneMarksSubtree ==
  \A n \in Nodes, infeasible \in BOOLEAN :
    Pruned(infeasible, n)[1] = [m \in Node |-> pruned[m] \/ n \in Path[m]]

\* The bound of a node that branched is the least bound of its children
\* (node.cpp add_lower_bound, reevaluate_children).
BoundsConsistent ==
  \A n \in Nodes : children[n] # <<>> => lb[n] = Min({lb[c] : c \in ToSet(children[n])})

\* The bounds of the closed form, for a node m that branches.
BranchPropagated(m) ==
  LET new == ToSet(children'[m])
      settled == [a \in Node |->
                    IF a \in new THEN lb'[a]
                    ELSE IF a = m THEN Greater(lb[m], Min({lb'[c] : c \in new}))
                    ELSE lb[a]]
  IN  lb' = Propagated(settled, m, (Leaves \ {m}) \cup new, Path')

\* Node::branch ends in the bounds that NodeBounds gives in closed form.
BranchComputesPropagated ==
  [][\A n \in Nodes : children'[n] # children[n] => BranchPropagated(n)]_vars
=============================================================================
