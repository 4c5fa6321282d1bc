--------------------------- MODULE BranchAndBound ---------------------------
(***************************************************************************)
(* The search loop of BranchAndBoundAlgorithm (tspn_core/bnb.h) over the   *)
(* tree of Node objects (tspn_core/node.h, node.cpp), the solution pool,   *)
(* the cutoff of the relaxation solver (tspn_core/soc.cpp) and the user    *)
(* callbacks (tspn_core/callbacks.h).                                      *)
(*                                                                         *)
(* Geometry is abstracted to what the loop can tell apart.  Solving the    *)
(* relaxation of a node yields a bound, a length, the set of sites the     *)
(* trajectory happens to visit, and whether there is a trajectory at all.  *)
(* One optimal tour T of the final instance is fixed; holdsOpt[n] is a     *)
(* history variable that says whether T obeys the partial sequence of node *)
(* n.  Relaxations, branchings and callbacks are otherwise arbitrary.      *)
(***************************************************************************)
EXTENDS NodeBounds

CONSTANTS
  Costs, Inf, Opt, GapNum, GapDen, Slack,  \* see SolverPromise
  Sites,        \* the sites of the final instance
  FirstSites,   \* those the instance starts with; the others are added lazily
  UseCutoff,    \* SocSolver(use_cutoff)
  MaxFanout     \* bound: how many children a branching may create

NoNode == 0
Bounds == Costs \cup {Inf}

VARIABLES
  pc,        \* where the loop of optimize() stands
  count,     \* nodes 1 .. count have been created
  path,      \* path[n]: n and all its ancestors (Node::parent, transitively)
  children,  \* Node::children
  lb,        \* Node::lazy_lower_bound_value
  pruned,    \* Node::pruned
  obj,       \* length of the node's relaxed trajectory
  covered,   \* sites its trajectory visits
  valid,     \* FALSE when the solver stopped at the cutoff (no trajectory)
  holdsOpt,  \* history: the optimal tour T belongs to this subtree
  open,      \* the nodes in the queue of the search strategy
  cur,       \* EventContext::current_node, NoNode between two visits
  sites,     \* the instance; callbacks add to it
  ub,        \* SolutionPool::ub
  cutoff     \* SocSolver::cutoff_value

treeVars == <<count, path, children, obj, covered, valid, holdsOpt>>
vars == <<pc, count, path, children, lb, pruned, obj, covered, valid, holdsOpt,
          open, cur, sites, ub, cutoff>>

Promise == INSTANCE SolverPromise
  WITH lower <- lb[Root], upper <- ub,
       verdict <- IF pc \in {"proven", "timeout"} THEN pc ELSE "searching"
WithinGap(u, l) == Promise!WithinGap(u, l)
GoodEnough(u, l) == Promise!GoodEnough(u, l)

ASSUME BnbAssumption ==
  /\ Costs \subseteq Nat \ {0} /\ IsFiniteSet(Costs)
  /\ Inf \in Nat /\ Opt \in Costs
  /\ GapNum \in Nat /\ GapDen \in Nat \ {0} /\ Slack \in Nat
  /\ \A c \in Costs : c < Inf /\ ~ GoodEnough(Inf, c)
  /\ FirstSites \subseteq Sites /\ IsFiniteSet(Sites)
  /\ UseCutoff \in BOOLEAN
  /\ MaxNodes \in Nat \ {0} /\ MaxFanout \in Nat

Nodes == 1 .. count
Leaves == {n \in Nodes : children[n] = {}}

\* Node::add_lower_bound(l) on node n, with the calls it makes to the parents
\* and the children.
Raised(n, l) == RaisedBounds(lb, n, l, Leaves, path)

\* Node::is_feasible: a trajectory exists and visits every site known by now.
Feasible(n) == valid[n] /\ sites \subseteq covered[n]

\* The node handed out by the search strategy, until it is closed or branched.
InVisit == pc \in {"entering", "lazy", "explore"}
Frontier == open \cup (IF InVisit THEN {cur} ELSE {})

----------------------------------------------------------------------------
(* The relaxation solver *)

\* What solving the relaxation of a partial sequence can return.  The length
\* of a trajectory exceeds the proven bound by at most Slack; a bound of a
\* node that holds T is at most Opt; a trajectory that visits every site of
\* the final instance is a tour, hence no shorter than Opt.
Relaxations ==
  {r \in [lb : Costs, obj : Costs, covered : SUBSET Sites, valid : BOOLEAN,
          holdsOpt : BOOLEAN] :
     /\ r.lb <= r.obj /\ r.obj <= r.lb + Slack
     /\ r.holdsOpt => r.lb <= Opt
     /\ r.valid /\ r.covered = Sites => Opt <= r.obj
     /\ ~ r.valid => r.covered = {} /\ r.obj = r.lb}

\* GRB_CUTOFF: without a trajectory the bound is at least the cutoff, and a
\* trajectory is never longer than the cutoff.
RespectsCutoff(r) ==
  IF r.valid THEN r.obj <= cutoff ELSE UseCutoff /\ cutoff <= r.lb

----------------------------------------------------------------------------
(* Before optimize() *)

\* The constructor hands the evaluated root to the search strategy.
Init ==
  \E r \in Relaxations :
    /\ r.valid /\ r.holdsOpt
    /\ pc = "setup"
    /\ count = 1
    /\ path = [n \in Node |-> IF n = Root THEN {Root} ELSE {}]
    /\ children = [n \in Node |-> {}]
    /\ lb = [n \in Node |-> IF n = Root THEN r.lb ELSE Inf]
    /\ pruned = [n \in Node |-> FALSE]
    /\ obj = [n \in Node |-> IF n = Root THEN r.obj ELSE Inf]
    /\ covered = [n \in Node |-> IF n = Root THEN r.covered ELSE {}]
    /\ valid = [n \in Node |-> n = Root]
    /\ holdsOpt = [n \in Node |-> n = Root]
    /\ open = {Root}
    /\ cur = NoNode
    /\ sites = FirstSites
    /\ ub = Inf
    /\ cutoff = Inf

\* Mutants of NewIncumbent: the latest solution replaces a better one; the
\* cutoff is set one below the upper bound.
NewIncumbentLatest(u) ==
  /\ ub' = u
  /\ cutoff' = IF UseCutoff THEN Lesser(cutoff, ub') ELSE cutoff
NewIncumbentCutsDeeper(u) ==
  /\ ub' = Lesser(ub, u)
  /\ cutoff' = IF UseCutoff THEN Lesser(cutoff, ub' - 1) ELSE cutoff

\* SolutionPool::add_solution followed by the ub_callback into the solver.
NewIncumbent(u) ==
  /\ ub' = Lesser(ub, u)
  /\ cutoff' = IF UseCutoff THEN Lesser(cutoff, ub') ELSE cutoff

\* add_upper_bound: the caller's solution obeys all lazy constraints.
AddUpperBound(u) ==
  /\ pc = "setup"
  /\ Opt <= u
  /\ NewIncumbent(u)
  /\ UNCHANGED <<pc, treeVars, lb, pruned, open, cur, sites>>

\* add_lower_bound: a bound the caller knows to be true.
AddLowerBound(l) ==
  /\ pc = "setup"
  /\ l <= Opt
  /\ lb' = Raised(Root, l)
  /\ UNCHANGED <<pc, treeVars, pruned, open, cur, sites, ub, cutoff>>

StartOptimize ==
  /\ pc = "setup"
  /\ pc' = "loop"
  /\ UNCHANGED <<treeVars, lb, pruned, open, cur, sites, ub, cutoff>>

----------------------------------------------------------------------------
(* The loop of optimize() and visit_node *)

\* Mutant of VisitPruned: the abandoned node stays in the queue, unmarked.
VisitPrunedKept(n) ==
  /\ pc = "loop"
  /\ n \in open /\ ~ pruned[n]
  /\ WithinGap(ub, lb[n])
  /\ pc' = "check"
  /\ UNCHANGED <<treeVars, lb, pruned, open, cur, sites, ub, cutoff>>

\* SearchStrategy::has_next drops pruned entries; next hands out one node.
\* The node is abandoned at once if it is already above the upper bound.
VisitPruned(n) ==
  /\ pc = "loop"
  /\ n \in open /\ ~ pruned[n]
  /\ WithinGap(ub, lb[n])
  /\ open' = open \ {n}
  /\ pruned' = [pruned EXCEPT ![n] = TRUE]
  /\ pc' = "check"
  /\ UNCHANGED <<treeVars, lb, cur, sites, ub, cutoff>>

VisitNode(n) ==
  /\ pc = "loop"
  /\ n \in open /\ ~ pruned[n]
  /\ ~ WithinGap(ub, lb[n])
  /\ open' = open \ {n}
  /\ cur' = n
  /\ pc' = "entering"
  /\ UNCHANGED <<treeVars, lb, pruned, sites, ub, cutoff>>

\* has_next() is false: nothing is left but pruned entries.
Exhausted ==
  /\ pc = "loop"
  /\ \A n \in open : pruned[n]
  /\ pc' = "proven"
  /\ UNCHANGED <<treeVars, lb, pruned, open, cur, sites, ub, cutoff>>

\* Mutant of StopAtGap: the bounds are compared the wrong way round.
StopAtGapSwapped ==
  /\ pc = "check"
  /\ WithinGap(lb[Root], ub)
  /\ pc' = "proven"
  /\ UNCHANGED <<treeVars, lb, pruned, open, cur, sites, ub, cutoff>>

\* The termination criterion after each visit, then the time limit.
StopAtGap ==
  /\ pc = "check"
  /\ WithinGap(ub, lb[Root])
  /\ pc' = "proven"
  /\ UNCHANGED <<treeVars, lb, pruned, open, cur, sites, ub, cutoff>>

StopAtTimeout ==
  /\ pc = "check"
  /\ ~ WithinGap(ub, lb[Root])
  /\ pc' = "timeout"
  /\ UNCHANGED <<treeVars, lb, pruned, open, cur, sites, ub, cutoff>>

Continue ==
  /\ pc = "check"
  /\ ~ WithinGap(ub, lb[Root])
  /\ pc' = "loop"
  /\ UNCHANGED <<treeVars, lb, pruned, open, cur, sites, ub, cutoff>>

----------------------------------------------------------------------------
(* User callbacks: on_entering_node and on_leaving_node *)

InCallback == pc \in {"entering", "leaving"}

\* EventContext::add_lower_bound on the current node, with a true bound.
CallbackAddLowerBound(l) ==
  /\ InCallback
  /\ holdsOpt[cur] => l <= Opt
  /\ lb[cur] < l
  /\ lb' = Raised(cur, l)
  /\ UNCHANGED <<pc, treeVars, pruned, open, cur, sites, ub, cutoff>>

\* EventContext::add_solution goes to the pool only: the solver's cutoff is
\* not told.
CallbackAddSolution(u) ==
  /\ InCallback
  /\ Opt <= u /\ u < ub
  /\ ub' = u
  /\ UNCHANGED <<pc, treeVars, lb, pruned, open, cur, sites, cutoff>>

\* current_node->prune(): the callback knows that nothing optimal is below.
\* The whole subtree is marked, its bounds become infinite.
CallbackPrune ==
  /\ InCallback
  /\ ~ holdsOpt[cur] /\ ~ pruned[cur]
  /\ pruned' = [n \in Node |-> pruned[n] \/ cur \in path[n]]
  /\ lb' = Raised(cur, Inf)
  /\ UNCHANGED <<pc, treeVars, open, cur, sites, ub, cutoff>>

\* EventContext::add_lazy_site outside add_lazy_constraints.
CallbackAddSite(s) ==
  /\ InCallback
  /\ sites' = sites \cup {s}
  /\ UNCHANGED <<pc, treeVars, lb, pruned, open, cur, ub, cutoff>>

\* All entering callbacks returned; a node they pruned is not explored.
EnterDone ==
  /\ pc = "entering"
  /\ pc' = IF pruned[cur] THEN "leaving" ELSE "lazy"
  /\ UNCHANGED <<treeVars, lb, pruned, open, cur, sites, ub, cutoff>>

\* Mutants of LeaveDone: the visited node is not forgotten; it is queued again.
LeaveDoneKeepsNode ==
  /\ pc = "leaving"
  /\ pc' = "check"
  /\ UNCHANGED <<treeVars, lb, pruned, open, cur, sites, ub, cutoff>>
LeaveDoneRequeues ==
  /\ pc = "leaving"
  /\ pc' = "check"
  /\ open' = open \cup {cur}
  /\ cur' = NoNode
  /\ UNCHANGED <<treeVars, lb, pruned, sites, ub, cutoff>>

LeaveDone ==
  /\ pc = "leaving"
  /\ pc' = "check"
  /\ cur' = NoNode
  /\ UNCHANGED <<treeVars, lb, pruned, open, sites, ub, cutoff>>

----------------------------------------------------------------------------
(* explore_node *)

\* Mutant of AddLazyConstraints: the instance does not get the new sites, so
\* that the node still counts as feasible.
AddLazyConstraintsTooLate(new) ==
  /\ pc = "lazy"
  /\ IF Feasible(cur)
       THEN new \subseteq covered[cur] => covered[cur] = Sites
       ELSE new = {}
  /\ pc' = "explore"
  /\ UNCHANGED <<treeVars, lb, pruned, open, cur, sites, ub, cutoff>>

\* add_lazy_constraints_if_feasible: on a feasible node the callbacks may add
\* sites, and must add a violated one if the trajectory misses any site of the
\* final instance.
AddLazyConstraints(new) ==
  /\ pc = "lazy"
  /\ IF Feasible(cur)
       THEN new \subseteq covered[cur] => covered[cur] = Sites
       ELSE new = {}
  /\ sites' = sites \cup new
  /\ pc' = "explore"
  /\ UNCHANGED <<treeVars, lb, pruned, open, cur, ub, cutoff>>

ProcessFeasible ==
  /\ pc = "explore"
  /\ Feasible(cur)
  /\ NewIncumbent(obj[cur])
  /\ pc' = "leaving"
  /\ UNCHANGED <<treeVars, lb, pruned, open, cur, sites>>

PruneBeforeBranch ==
  /\ pc = "explore"
  /\ ~ Feasible(cur)
  /\ WithinGap(ub, lb[cur])
  /\ pruned' = [pruned EXCEPT ![cur] = TRUE]
  /\ pc' = "leaving"
  /\ UNCHANGED <<treeVars, lb, open, cur, sites, ub, cutoff>>

\* Bound of the model: leave room for every node that still has to branch.
RoomLeft(k, rs) ==
  LET unsettled(S) == {n \in S : valid[n] /\ covered[n] # Sites}
      mustBranch == Cardinality(unsettled(open))
                  + Cardinality({i \in 1 .. k : rs[i].valid /\ rs[i].covered # Sites})
  IN  count + k + mustBranch <= MaxNodes

\* Mutant of Queued: the child created last is not announced.
QueuedButLast(new) == open \cup (new \ {Max(new)})

\* notify_of_branch: the search strategy queues all children of the node.
Queued(new) == open \cup new

\* BranchingStrategy::branch: the children are created and evaluated under the
\* solver's cutoff, then Node::branch attaches them and re-evaluates.  One of
\* them holds T if the node does; rs gives the relaxations of the children.
Branch(k, rs) ==
  LET new == count + 1 .. count + k
      path2 == [n \in Node |-> IF n \in new THEN path[cur] \cup {n} ELSE path[n]]
      evaluated == [n \in Node |->
                      IF n \in new THEN Greater(rs[n - count].lb, lb[cur]) ELSE lb[n]]
      settled == [evaluated EXCEPT ![cur] =
                    Greater(@, Min({evaluated[n] : n \in new}))]
  IN
  /\ pc = "explore"
  /\ ~ Feasible(cur) /\ ~ WithinGap(ub, lb[cur])
  /\ k > 0 /\ RoomLeft(k, rs)
  /\ \A i \in 1 .. k : RespectsCutoff(rs[i])
  /\ holdsOpt[cur] <=> \E i \in 1 .. k : rs[i].holdsOpt
  /\ count' = count + k
  /\ path' = path2
  /\ children' = [children EXCEPT ![cur] = new]
  /\ lb' = Propagated(settled, cur, (Leaves \ {cur}) \cup new, path2)
  /\ obj' = [n \in Node |-> IF n \in new THEN rs[n - count].obj ELSE obj[n]]
  /\ covered' = [n \in Node |-> IF n \in new THEN rs[n - count].covered ELSE covered[n]]
  /\ valid' = [n \in Node |-> IF n \in new THEN rs[n - count].valid ELSE valid[n]]
  /\ holdsOpt' = [n \in Node |-> IF n \in new THEN rs[n - count].holdsOpt ELSE holdsOpt[n]]
  /\ open' = Queued(new)
  /\ pc' = "leaving"
  /\ UNCHANGED <<pruned, cur, sites, ub, cutoff>>

\* Node::branch with no children: no tour obeys the sequence, prune().
BranchEmpty ==
  /\ pc = "explore"
  /\ ~ Feasible(cur) /\ ~ WithinGap(ub, lb[cur])
  /\ ~ holdsOpt[cur]
  /\ pruned' = [pruned EXCEPT ![cur] = TRUE]
  /\ lb' = Raised(cur, Inf)
  /\ pc' = "leaving"
  /\ UNCHANGED <<treeVars, open, cur, sites, ub, cutoff>>

----------------------------------------------------------------------------
Setup == \/ \E c \in Costs : AddUpperBound(c) \/ AddLowerBound(c)
         \/ StartOptimize

Callback == \/ \E c \in Costs : CallbackAddLowerBound(c) \/ CallbackAddSolution(c)
            \/ \E s \in Sites : CallbackAddSite(s)
            \/ CallbackPrune

Explore == \/ \E new \in SUBSET Sites : AddLazyConstraints(new)
           \/ ProcessFeasible
           \/ PruneBeforeBranch
           \/ \E k \in 1 .. MaxFanout : \E rs \in [1 .. k -> Relaxations] : Branch(k, rs)
           \/ BranchEmpty

Loop == \/ \E n \in Node : VisitPruned(n) \/ VisitNode(n)
        \/ Exhausted \/ StopAtGap \/ StopAtTimeout \/ Continue
        \/ EnterDone \/ LeaveDone

\* optimize() has returned.
Returned == pc \in {"proven", "timeout"} /\ UNCHANGED vars

Next == Setup \/ Callback \/ Explore \/ Loop \/ Returned

Spec == Init /\ [][Next]_vars

\* The loop runs on one thread and every callback returns, so the program
\* keeps taking steps as long as it can.
FairSpec == Spec /\ WF_vars(Next)
----------------------------------------------------------------------------
(* Properties *)

\* The values the fields of the algorithm, its nodes and its queue can have;
\* in particular a node is in the queue or being visited, never both, and no
\* node is being visited between two iterations of the loop.
TypeOK ==
  /\ pc \in {"setup", "loop", "entering", "lazy", "explore", "leaving", "check",
             "proven", "timeout"}
  /\ count \in Node
  /\ path \in [Node -> SUBSET Nodes]
  /\ children \in [Node -> SUBSET Nodes]
  /\ lb \in [Node -> Bounds] /\ obj \in [Node -> Bounds]
  /\ pruned \in [Node -> BOOLEAN] /\ valid \in [Node -> BOOLEAN]
  /\ holdsOpt \in [Node -> BOOLEAN]
  /\ covered \in [Node -> SUBSET Sites]
  /\ open \subseteq Nodes
  /\ sites \in SUBSET Sites /\ FirstSites \subseteq sites
  /\ ub \in Bounds /\ cutoff \in Bounds
  /\ IF InVisit \/ pc = "leaving" THEN cur \in Nodes \ open ELSE cur = NoNode

\* The two numbers handed to the caller always bracket the true optimum,
\* whatever the callbacks, the lazy sites, the cutoff and the propagation of
\* bounds through the tree did in between (bnb.h get_lower_bound and
\* get_upper_bound).
BoundsBracketOptimum == lb[Root] <= Opt /\ Opt <= ub

\* As long as the incumbent is not good enough, a node that still leads to an
\* optimal tour is waiting in the queue or being explored: no pruning, no
\* cutoff, no empty branching and no order of events loses it.
OptimumNeverLost ==
  \/ GoodEnough(ub, Opt)
  \/ \E n \in Frontier : holdsOpt[n] /\ ~ pruned[n]

\* A search that stopped for any reason but the time limit returns numbers
\* that show on their own that the solution is good enough, also when it
\* stopped because the queue ran empty (bnb.h optimize).
ReturnedBoundsClose == pc = "proven" => GoodEnough(ub, lb[Root])

\* Bounds stored in the tree are consistent: the bound of a node that branched
\* is the least of its children's, so a child never has a weaker bound than
\* its parent and the root's bound is as strong as the leaves allow
\* (node.cpp add_lower_bound, reevaluate_children).
ParentBoundTight ==
  \A n \in Nodes : children[n] # {} => lb[n] = Min({lb[c] : c \in children[n]})

\* A node whose relaxation was abandoned at the cutoff has no trajectory to
\* branch on or to report.  No check guards this: it never is explored because
\* its bound is at least the cutoff, the cutoff never falls below the upper
\* bound, and the upper bound never rises again (soc.cpp, bnb.h visit_node).
CutoffNodesNeverExplored ==
  /\ ub <= cutoff
  /\ pc \in {"lazy", "explore"} => valid[cur]
  /\ \A n \in Nodes : ~ valid[n] => children[n] = {}

\* Progress is never undone: the upper bound does not rise, no node's bound
\* falls, a pruned node stays pruned and an added site stays.
ProgressIsKept ==
  [][/\ ub' <= ub /\ cutoff' <= cutoff
     /\ \A n \in Nodes : lb[n] <= lb'[n] /\ (pruned[n] => pruned'[n])
     /\ sites \subseteq sites']_vars

\* search_strategy.h next: "This node has to be explored and should not be
\* returned again".  A node that left the queue never enters it again.
NeverReturnedAgain == [][open' \cap Nodes \subseteq open]_vars

\* optimize() returns even without a time limit.
Returns == <>(pc \in {"proven", "timeout"})

\* The search keeps the promise of SolverPromise.
KeepsPromise == Promise!Spec
=============================================================================
