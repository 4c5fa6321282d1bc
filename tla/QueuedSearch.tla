---------------------------- MODULE QueuedSearch ----------------------------
(***************************************************************************)
(* The search loop of BranchAndBound together with the queues of the four  *)
(* search strategies (tspn_core/strategies/search_strategy.h).             *)
(*                                                                         *)
(* BranchAndBound takes what waits as a set and lets any node be next.     *)
(* Here a vector decides: when the loop tells the strategy what happened,  *)
(* where the vector is sorted, by which keys and with which comparator.    *)
(***************************************************************************)
EXTENDS BranchAndBound, Sequences, SequencesExt

CONSTANTS
  Strategies,              \* the strategies that are checked
  RelTolNum, RelTolDen,    \* DfsBfs: bounds this close, relatively, count as
                           \* equal: 0.001 in the code
  AbsTol                   \* the others: bounds closer than this: 0.001

ASSUME QueuedSearchAssumption ==
  /\ Strategies \subseteq {"DfsBfs", "CheapestChildDepthFirst",
                           "CheapestBreadthFirst", "RandomNextNode"}
  /\ RelTolNum \in Nat /\ RelTolDen \in Nat \ {0} /\ AbsTol \in Nat

VARIABLES
  strategy,   \* the SearchStrategy of this run
  queue       \* its vector; the next node is at the end

searchVars == <<vars, strategy, queue>>

\* DfsBfs stores a node with the bound and length it had when it was queued;
\* the other strategies store the node and look them up.
Entry(n, bound, length) ==
  IF strategy = "DfsBfs" THEN [node |-> n, lb |-> bound, obj |-> length]
  ELSE [node |-> n, lb |-> 0, obj |-> 0]

NodesIn(q) == {e.node : e \in ToSet(q)}

----------------------------------------------------------------------------
(* Sorting *)

\* Bounds that count as equal; two infinite ones do not, as their difference
\* is not a number.
CloseRelatively(a, b) ==
  /\ a # Inf /\ b # Inf
  /\ (Greater(a, b) - Lesser(a, b)) * RelTolDen < RelTolNum * Lesser(a, b)
CloseAbsolutely(a, b) ==
  a # Inf /\ b # Inf /\ Greater(a, b) - Lesser(a, b) < AbsTol
Close(a, b) ==
  IF strategy = "DfsBfs" THEN CloseRelatively(a, b) ELSE CloseAbsolutely(a, b)

\* The comparators: the more expensive element comes first.
Before(a, b) == IF Close(a.lb, b.lb) THEN a.obj > b.obj ELSE a.lb > b.lb

\* Because closeness is not transitive, the comparator may fail to be the
\* strict weak ordering that std::sort requires.
StrictWeakOn(S) ==
  \A a, b, c \in S :
    /\ Before(a, b) /\ Before(b, c) => Before(a, c)
    /\ ~Before(a, b) /\ ~Before(b, a) /\ ~Before(b, c) /\ ~Before(c, b)
         => ~Before(a, c) /\ ~Before(c, a)

\* The results of std::sort on the entries S, each compared by its key.  On
\* equivalent entries the order is not defined, and if the comparator is no
\* strict weak ordering the sort may leave the entries in any order.
Sorted(S, key) ==
  {q \in SetToSeqs(S) :
     StrictWeakOn({key[e] : e \in S}) =>
       \A i, j \in DOMAIN q : i < j => ~Before(key[q[j]], key[q[i]])}

\* Mutant of ByStored: entries that compare equal are merged, as a std::set
\* with the same comparator would.
ByStoredUnique(q) ==
  LET kept == {e \in ToSet(q) : \A f \in ToSet(q) :
                 f.node < e.node => Before(e, f) \/ Before(f, e)}
  IN  Sorted(kept, [e \in kept |-> e])

\* sort_to_priotize_lowest_value of DfsBfs: by the stored keys.
ByStored(q) == Sorted(ToSet(q), [e \in ToSet(q) |-> e])

\* Sorted by what the nodes' bounds and lengths are now.
ByCurrent(S, bound, length) ==
  Sorted(S, [e \in S |-> [lb |-> bound[e.node], obj |-> length[e.node]]])

----------------------------------------------------------------------------
(* What the loop tells the strategy *)

\* has_next: pruned entries are removed from the end.
HasNextDrops(q) == SubSeq(q, 1, Max({0} \cup {i \in DOMAIN q : ~pruned[q[i].node]}))

\* Mutant of AfterBranch: the children go below what waits.
AfterBranchBelow(q, new, bound, length) ==
  {c \o q : c \in ByCurrent({Entry(n, bound[n], length[n]) : n \in new}, bound, length)}

\* notify_of_branch with the children new, their bounds and lengths.
AfterBranch(q, new, bound, length) ==
  LET entries == {Entry(n, bound[n], length[n]) : n \in new}
  IN  CASE strategy \in {"DfsBfs", "CheapestChildDepthFirst"} ->
             {q \o c : c \in ByCurrent(entries, bound, length)}
        [] strategy = "CheapestBreadthFirst" ->
             ByCurrent(ToSet(q) \cup entries, bound, length)
        [] strategy = "RandomNextNode" -> SetToSeqs(ToSet(q) \cup entries)

\* notify_of_feasible and notify_of_prune: only DfsBfs reacts.
AfterEvent(q) == IF strategy = "DfsBfs" THEN ByStored(q) ELSE {q}

----------------------------------------------------------------------------
(* The loop *)

QInit ==
  /\ Init
  /\ strategy \in Strategies
  /\ queue = <<Entry(Root, lb[Root], obj[Root])>>

\* has_next and next: the last entry that is not pruned.
QVisitPruned ==
  LET q == HasNextDrops(queue)
  IN  /\ q # <<>>
      /\ VisitPruned(Last(q).node)
      /\ queue' \in AfterEvent(Front(q))

QVisitNode ==
  LET q == HasNextDrops(queue)
  IN  /\ q # <<>>
      /\ VisitNode(Last(q).node)
      /\ queue' = Front(q)

QExhausted ==
  /\ HasNextDrops(queue) = <<>>
  /\ Exhausted
  /\ queue' = <<>>

QProcessFeasible == ProcessFeasible /\ queue' \in AfterEvent(queue)

QPruneBeforeBranch == PruneBeforeBranch /\ queue' \in AfterEvent(queue)

QBranch ==
  /\ \E k \in 1 .. MaxFanout : \E rs \in [1 .. k -> Relaxations] : Branch(k, rs)
  /\ queue' \in AfterBranch(queue, children'[cur], lb', obj')

\* branch() returns true, so the strategy is told of no children.
QBranchEmpty == BranchEmpty /\ queue' \in AfterBranch(queue, {}, lb', obj')

\* All other steps are none of the strategy's business.
QOther ==
  /\ \/ Setup \/ Callback
     \/ \E new \in SUBSET Sites : AddLazyConstraints(new)
     \/ StopAtGap \/ StopAtTimeout \/ Continue \/ EnterDone \/ LeaveDone \/ Returned
  /\ UNCHANGED queue

QNext ==
  /\ \/ QVisitPruned \/ QVisitNode \/ QExhausted \/ QProcessFeasible
     \/ QPruneBeforeBranch \/ QBranch \/ QBranchEmpty \/ QOther
  /\ UNCHANGED strategy

QSpec == QInit /\ [][QNext]_searchVars

----------------------------------------------------------------------------
(* Properties *)

\* The vector holds what BranchAndBound says is waiting, each node once; only
\* pruned nodes may have been dropped.  So sorting, dropping and appending in
\* any order of events neither lose a node nor return one twice.
QueueHoldsOpen ==
  /\ Cardinality(NodesIn(queue)) = Len(queue)
  /\ NodesIn(queue) \subseteq open
  /\ \A n \in open \ NodesIn(queue) : pruned[n]

\* The depth-first strategies dive (header of search_strategy.h): whatever is
\* above a node in the vector lies below the parent of that node in the tree,
\* so a subtree is finished before a sibling of it is returned.  DfsBfs does so
\* until there is an incumbent.
Dives ==
  \/ strategy = "CheapestChildDepthFirst"
  \/ strategy = "DfsBfs" /\ ub = Inf
DivesDepthFirst ==
  Dives => \A i, j \in DOMAIN queue : i < j =>
    path[queue[i].node] \ {queue[i].node} \subseteq path[queue[j].node] \ {queue[j].node}
=============================================================================
