--------------------------- MODULE SearchInvariant ---------------------------
(***************************************************************************)
(* The inductive invariant of BranchAndBound from which its safety         *)
(* properties follow, by parts; BranchAndBoundProofs proves it, and TLC    *)
(* checks it on small instances.                                           *)
(***************************************************************************)
EXTENDS BranchAndBound

\* Why propagation finds a leaf under every ancestor: leaves cover the tree,
\* nothing lies below a leaf, and only leaves are queued or visited.
TreeShape ==
  /\ \A n \in Node \ Nodes : path[n] = {} /\ children[n] = {} /\ ~ pruned[n]
  /\ \A n \in Nodes : Root \in path[n] /\ n \in path[n]
  /\ \A n \in Nodes : \E m \in Leaves : n \in path[m]
  /\ \A m \in Nodes : \A n \in path[m] : children[n] = {} => n = m
  /\ Frontier \subseteq Leaves

Typed == TypeOK /\ TreeShape

\* The nodes that hold the optimal tour form a branch of the tree that starts
\* at the root and ends at a leaf; none of them has a bound above Opt.
OptInTree ==
  /\ holdsOpt[Root]
  /\ \A n \in Node : holdsOpt[n] => n \in Nodes /\ lb[n] <= Opt
  /\ \A m \in Nodes : holdsOpt[m] => \A n \in path[m] : holdsOpt[n]
  /\ \A n \in Nodes : holdsOpt[n] => \E m \in Leaves : n \in path[m] /\ holdsOpt[m]

\* What reaches the pool as an upper bound is the length of a tour.
UpperIsTour ==
  /\ Opt <= ub
  /\ \A n \in Nodes : valid[n] /\ covered[n] = Sites => Opt <= obj[n]
  /\ pc = "explore" /\ Feasible(cur) => covered[cur] = Sites

\* A node without a trajectory is already above the upper bound.
CutoffSafe ==
  /\ ub <= cutoff
  /\ \A n \in Nodes : ~ valid[n] => cutoff <= lb[n] /\ children[n] = {}
  /\ InVisit => valid[cur]

\* A feasible trajectory is as good as the bound of its node, up to Slack.
ObjNearBound == \A n \in Nodes : valid[n] => obj[n] <= lb[n] + Slack

\* A leaf is still to be explored, or the incumbent is good enough for it.
LeavesClosed ==
  \A m \in Leaves : (m \in Frontier /\ ~ pruned[m]) \/ GoodEnough(ub, lb[m])

\* The bound of the root is backed by a leaf: it is not weaker than what is
\* left in the tree.
RootTight == \E m \in Leaves : lb[m] <= lb[Root]

\* All of it, with the property that is inductive as it stands.  None of the
\* other properties of the search is.
Sound ==
  /\ Typed /\ OptInTree /\ UpperIsTour /\ CutoffSafe /\ ObjNearBound
  /\ LeavesClosed /\ RootTight /\ ReturnedBoundsClose
=============================================================================
