# A verification development of the TSPN solver

This directory models the program of this repository in TLA+: the branch and
bound for the travelling salesman problem with neighborhoods in `tspn_core/`,
its Python side and the MIP solvers in `python/tspn_bnb2/`, and the experiments
in `evaluation/`. Small instances are model-checked with TLC; what matters most
is proved for all instances with TLAPS.

What the program does *around* its floating point geometry is modelled: which
relaxation is solved when, what happens to bounds, nodes, sequences, caches and
incumbents in between, which constraints a MIP gets, how results are reported,
stored, read and compared. Where a decision depends on geometry, the models
either leave it arbitrary within what a correct computation can answer, or use a
geometry that can be enumerated: a plane of finitely many cells for the
preprocessing, an integer grid for halfspaces.

## 1. The system

| Component | State | Operations | Interacts with |
|---|---|---|---|
| Search loop (`bnb.h`) | queue (through the strategy), incumbent (through the pool), counters | `add_upper_bound`, `add_lower_bound`, `optimize`, `visit_node`, `explore_node`, `prune_if_above_ub`, `process_feasible_node`, `branch_node` | everything below |
| Node tree (`node.h`, `node.cpp`) | parent, children, cached lower bound, pruned flag, depth | `add_lower_bound`, `get_lower_bound`, `branch`, `prune`, `make_child`, `simplify` | nodes call their parent, which calls its children |
| User callbacks (`callbacks.h`) | the user's | `on_entering_node`, `add_lazy_constraints`, `on_leaving_node`; through `EventContext`: add sites, solutions, bounds, prune nodes | instance, pool, tree, in the middle of a visit |
| Solution pool (`solution_pool.h`) | incumbents, upper bound | `add_solution` | loop, callbacks |
| Relaxation solver (`soc.cpp`) | cutoff | `update_cutoff`, `compute_trajectory_with_information` | called by a node, told the upper bound by the loop |
| Partial sequence (`relaxed_solution.cpp`, `common.cpp`) | sequence, stash with order sets, toggle counters, spanning information | `simplify`, `add_to_stash`, `remove_from_stash`, `get_reinsert_positions`, `enable`/`disable` | branching |
| Branching (`branching_strategy.cpp`) | rules, number of threads | `branch`, `distributed_child_evaluation`, `get_branching_poly` | sequence, rules, relaxation; worker threads |
| Order rule (`order_filtering.cpp`) | annotations of the instance | `is_ok` | branching |
| Search strategies (`search_strategy.h`) | a vector of waiting nodes | `init`, `has_next`, `next`, notifications | loop, bounds of nodes |
| Root strategies (`root_node_strategy.cpp`) | none | `get_root_node` | constructor |
| Lazy caches (`lazy_trajectory.cpp`, `distance_cache.h`) | trajectory, coverage, feasibility, spanning and distance caches | `trigger_*`, `is_feasible` | partial sequence, growing instance |
| Preprocessing (`pre_simplify.cpp`, `order_annotation.py`) | the list of sites | `remove_holes`, `convex_hull_fill`, `remove_supersites`, `add_order_annotations` | Python operations |
| Python side (`operations.py`, `schemas.py`, bindings) | none | `solve_annotated_instance`, `simplify_annotated_instance`, plausibility checks | core, experiments |
| MIP solvers (`python/tspn_bnb2/mip`) | Gurobi model, start values, lazy cuts | construction, `set_warm_start`, `solve`, `SubtourCallback`, Christofides warm start | Gurobi, relaxation solver |
| Experiments (`evaluation/`) | benchmark rows, archives | simplification jobs, extraction, solver jobs, validation cells | both solvers |

### What is hard here

* Calls that nest: raising a bound goes to the parent, which calls all its
  children, which may come back. Pruning recurses but stops early.
* User code in the middle of a visit, which may change the instance, the
  incumbent, the bounds and the tree between two checks of the loop.
* Decisions spread over places that must agree: a node is closed by the gap
  test, by the solver's cutoff, by feasibility, by an empty branching or by a
  callback, and the bound of the root must account for all of them.
* A sequence that is shortened and extended while the order of what was removed
  survives only in the stash; a rule that looks at the order from elsewhere.
* Caches that outlive what they were computed from.
* Threads that claim children from one counter and share counters that nobody
  locks; an exception on one of them.
* Preprocessing in place, where every iteration sees what earlier ones did.
* Gurobi calling back: a proposal must be cut off for good or be a tour.
* Scripts that are started by hand, in any order and again, and rows that are
  compared by the name of an instance.

`PROJECT.json` lists these hazards line by line with the properties that guard
against them.

## 2. What makes it correct

* Loop: the reported bounds bracket the optimum; no optimal tour is lost while
  the incumbent is not good enough; when the loop ends by itself the two
  numbers show it; a node is explored at most once; the loop ends.
* Tree: bounds are consistent between parent and children after every call; no
  unmarked node is below a pruned one.
* Partial sequence: branching is exhaustive, with and without the order rule;
  order taken out of the sequence is neither invented nor forgotten; the tree's
  depth is bounded.
* Strategies: the vector holds what waits, each node once, in the promised order.
* Threads: they leave the children as the loop without threads would.
* Caches: feasibility is exact for the sites known at the time, and the site
  branched on is one the trajectory misses.
* Preprocessing: a tour of what is left is a tour of the instance; annotations
  are about the polygons they come with.
* MIP: no tour is excluded, nothing but a tour is returned, starts are usable,
  the callback makes progress.
* Reports and experiments: what a row says holds for the instance before
  preprocessing, and correct rows pass the validation.

## 3. The modules

### `SolverPromise` - what the caller may rely on
A bracket `lower <= Opt <= upper` that only narrows, and a verdict. "proven" may
be announced only when the two numbers show on their own that the solution is
good enough, either within the gap or no longer than the relaxation the bound
came from (`GoodEnough`).

### `BranchAndBound` - the search loop
One action per step of `optimize`, `visit_node` and `explore_node` between two
points at which user code or the solver can interfere.

| Code | Model |
|---|---|
| `Node::children`, `parent`, `lazy_lower_bound_value`, `pruned` | `children`, `path` (a node and all its ancestors), `lb`, `pruned` |
| trajectory of a node's relaxation | `obj`, `covered` (sites it visits), `valid` (there is one) |
| queue of the search strategy | `open`, a set: any waiting node may be next |
| `SolutionPool::ub`, `SocSolver::cutoff_value`, the instance | `ub`, `cutoff`, `sites` |
| program counter of the loop | `pc`, `cur` |
| not in the code | `holdsOpt`, a history variable: one fixed optimal tour obeys the node's partial sequence |

A relaxation is any record of a bound, a length, a set of visited sites and a
validity that a correct solver can return (`Relaxations`, `RespectsCutoff`): its
bound is true for the subtree, its length exceeds the bound by at most `Slack`,
and a trajectory that visits all sites is a tour. That is the assumption about
the second-order cone solver. Callbacks bring true bounds, real solutions and
prune only subtrees that do not hold the fixed tour; inside
`add_lazy_constraints` they only add sites. If a trajectory visits all known
sites but not all sites of the final instance, the callbacks must add a violated
one, because the instance the user means is the final one.

### `QueuedSearch` - the loop with the strategies' queues
Extends `BranchAndBound` by the vector of one of the four strategies: every step
of the loop is conjoined with what `has_next`, `next`, `notify_of_branch`,
`notify_of_feasible` or `notify_of_prune` does to it, so that no step chooses
the next node any more. `DfsBfs` stores bound and length when it queues a node
and sorts all by these keys on feasible and pruned nodes; the others look the
bounds up when they sort. The tolerances of the comparators make closeness
intransitive, which `std::sort` does not allow: on such a vector the result of
sorting is any order of the entries (`StrictWeakOn`, `Sorted`). That a sort
could then also leave the vector's memory is not modelled. Random order is any
order.

### `LazyFeasibility` - the caches of a node's trajectory
One node from its creation on: the distances, coverage, `feasible_below` and
`_feasible`, each filled up to the sites known when it was asked for. The model
interleaves every query the loop, the branching strategies and callbacks can
make with sites being added and with the simplification in `evaluate_child`.
A trajectory is any assignment of distances to sites; an element of the sequence
that is `"fixed"` (active and not lazy) counts as distance 0 whatever the
numbers say. `first`, the sequence before simplification, is a history variable
by which the properties judge from scratch.

### `NodeBounds`, `NodeTree` - the tree of nodes
`NodeBounds` defines where bounds end up after `add_lower_bound`, in closed form
over the leaves. `NodeTree` translates `add_lower_bound`,
`reevaluate_children`, `prune` and `branch` call by call, and shows that they
compute it. A recursion is a function from the call (the bounds it began with,
the node, the argument) to the bounds it ends with, so that it can be proved
about. `BranchAndBound` uses the closed form, so that proofs about it need no
recursion at all. `NodeTree` allows any sequence of calls on any node, more than
the loop and its callbacks make: the Python bindings hand out nodes and their
children with `prune` and `add_lower_bound`.

### `PartialSequence`, `OrderFiltering` - one path of the tree
Polygons are numbered in the order of one optimal tour, so that "this sequence
agrees with the tour" is "ascending". The model starts from any root that a root
strategy can choose (any three sites, any two, or those on the hull in order),
walks to any child, evaluates and simplifies it, branches again, and reaches
nodes that agree with the tour and nodes that do not. Which polygons a
trajectory spans and which polygon is branched on are arbitrary; both ends of a
path span it, except that a path which ends in the point where it begins is taken
for a tour (`common.cpp:334`), so that its ends may be stashed (`meetsOrigin`
lists the polygons that touch the first one). `geom_toggle_count` is one counter
per polygon for the whole tree: it counts when a polygon is restored, also if the
rules then reject every child, and other nodes count too while the node waits
(`RestoredElsewhere`). That nodes elsewhere count even where they could not
restore anything makes more behaviours than the code has. With the option
`filter`, proposed sequences pass through `is_sequence_ok` with the rule of
`OrderFiltering`, a translation of `order_filtering.cpp`. A node without a
trajectory is neither simplified nor branched. The simplification threshold of
12 is the constant `SimplifySize`.

### `ParallelEvaluation` - worker threads
One call of `branch` after the other: how many children there are, which
elements each could stash, on which children the solver fails and which geometry
was restored is arbitrary; then the calling thread or the workers claim children
by `fetch_add`, evaluate and simplify them, each element a step that reads the
shared toggle counter. An exception reaches the caller from the loop and ends
the process from a worker.

### `Plane`, `PreSimplify`, `OrderAnnotation` - preprocessing
`Plane` cuts the hull of an instance into cells. A polygon is a set of cells, a
tour is the connected set of cells it runs through; what touches what, what lies
on the hull and in which order are constants. A cell may add nothing to the length
of a curve, so that polygons with a common point have a tour of length zero. `PreSimplify` is
`pre_simplify.cpp` site by site, with one action per iteration of each loop and
the exception of `convex_hull_fill`. `OrderAnnotation` holds
`add_order_annotations`, `hull_polygons`, the annotations that
`convert_to_tspn_instance` passes to the core and the sequence that
`OrderRootStrategy` makes of them.

### `SolutionReport`, `Studies`, `Experiments` - from instances to tables
`SolutionReport` holds the solution objects and the checks on them
(`operations.py`, `schemas.py`, the end of `mip/solver.py`). `Studies` lists what
each script under `evaluation/` runs and catches and how each notebook reads and
validates rows. `Experiments` composes both with the preprocessing: simplification
jobs, extraction into the archive, solver jobs and validation, in any order in
which a person can start them. A notebook may stop while it reads the rows, before
it compares any (`ReadingStops`); an empty trajectory stops it in the validation
cell, when rows before it have been compared, which is why `Compared` excludes only
that row as the first of a pair. The solvers are abstracted to tours and valid
bounds of the instance they were given; only a lower bound from `OrderRoot` on
an instance whose annotations are wrong may be anything.

### `Halfspaces`, `MipSites`, `WarmStart`, `MipSolve`, `MipPipeline` - the MIP side
`Halfspaces` turns rings of grid points into halfspaces (`mip/utils.py`), exactly
where the code rounds. `WarmStart` is `warm_start.py` with Christofides'
algorithm and the SOCP as arbitrary answers; `MipSolve` is a solver object of
either class from construction to the returned solution, with `SubtourCallback`;
`MipPipeline` puts them together as `solve_tspn_mip` and the studies use them.
Gurobi proposes any assignment that constraints and cuts admit; it stops as
OPTIMAL only with a solution and as INFEASIBLE only if nothing is admitted.
`MipInvariant` holds the inductive invariant of the pipeline and what its
theorems suppose of the polygons.

### MC modules
`MCBranchAndBound`, `MCQueuedSearch`, `MCPartialSequence`, `MCExperiments` and
`MCMip` give the constants their values. No configuration replaces a definition
of another module.

### Proof modules
The theorems about a module `M` are in `MProofs`, which extends it; those about
`QueuedSearch` are in `BranchAndBoundProofs`, those about the simplification jobs
of `Experiments` in `PreSimplifyProofs` and those about `MipPipeline` in
`MipSolveProofs`. The inductive invariant of the search is a module of its own,
`SearchInvariant`, so that `MCBranchAndBound` can have TLC check it too, and so is
that of the MIP side, `MipInvariant`, which `MCMip` extends.
`Recursion` holds what several of them need: least elements, induction over an
interval for a set of numbers, and that a function defined by recursion exists:
over an interval (`RecursionExists`) or wherever ranks fall with every nested call
(`RankedRecursion`). None of it takes an operator as a parameter, which is what
the provers could not instantiate.

## 4. The runs

| Run | Instance and bounds | Shows |
|---|---|---|
| `bnb_search` | lengths 2..4, optimum 3, gap 1/3, slack 1, a site that only callbacks add, 4 nodes, 2 children, cutoff on, fairness | the proofs' invariant `Sound`, the step properties of the loop, the refinement of `SolverPromise`, and that the loop returns |
| `node_tree` | 6 nodes, 3 bounds and infinity, 2 children | nested calls compute the closed form |
| `queued_search` | lengths, optimum and cutoff as there, gap 1/2, no slack, one site, 5 nodes; 2 and 3 close, 3 and 4 close, 2 and 4 not | the safety properties of the loop under each strategy; the vectors hold what waits; depth-first strategies dive |
| `lazy_feasibility` | 4 sites, distances 0..2, tolerance 1 | caches answer as if computed from scratch |
| `partial_sequence` | 5 polygons, one nonconvex with two parts, simplification from 3 elements on, toggle limit 1; a tour, a path whose target touches its origin while other nodes restore up to two polygons, and a tour with the order rule and four annotated polygons, two of which overlap | branching is exhaustive, the stash is exact, every path ends |
| `partial_sequence_filtered` | 5 convex polygons, three annotated against the direction of the root | finding: the rule rejects the child that every tour needs |
| `parallel_evaluation` | 2 threads, 3 children, 2 branchings, one geometry with toggle limit 1, fairness | threads act like the loop; every call comes back |
| `mip_solve` | a hexagon of six triangles; an angle in two pieces, followed by a degenerate one, among three triangles; two polygons; a flat polygon | no tour excluded, only tours returned, usable starts, progress of the callback |
| `mip_start` | the angle with the degenerate piece first | finding: the start does not satisfy the model |
| `mip_big_m` | three slivers far from the origin | finding: the big-M excludes tours |
| `experiments` | a plane of six cells; a ring with a hole, a polygon with two pockets, equal polygons and a superset, three polygons with a common point; studies rq1 to rq4 and the long runs, two rows | results hold for the raw instance, annotations fit, validation accepts, zero lengths aside |
| `experiments_mip` | the same plane; rq5 | finding: validation rejects correct rows of MIP and branch and bound |

Why the bounds are enough. In the loop, three lengths around the optimum give a
bound below, at and above it, and with a gap of one third (`bnb_search`) or one
half (`queued_search`) each test comes out both ways. With slack 1 and a gap of
one third, an incumbent may be too long for the gap of the relaxation it came
from, so that the queue runs empty; without slack the gap is reached first, and
what `has_next` does to the vector of an empty queue (`QExhausted`) is covered by
the proofs alone. Five nodes,
in `queued_search`, are a root with two generations, so that bounds travel more
than one level, a node is pruned with its sibling waiting and a waiting node is
overtaken by an incumbent. In `bnb_search`, where the site is only added by
callbacks and relaxations are inexact, four nodes are two generations as well and
leave a second branching after the new site is known. A gap of zero is left to
the proofs, which hold for every gap. Infinity is 9, beyond
every length by more than the gap. `RoomLeft` keeps room for each node that has
still to be branched, so the bound on nodes never stops the search in the
middle. Six nodes of `node_tree` are three levels below the root with a sibling
on each. Five nodes give a vector of up to three waiting entries, the least for
which closeness can fail to be transitive. Four sites allow the caches to end at
different places (distances beyond coverage beyond `feasible_below`) with a site
still unknown; distances 0..2 are within, at and beyond the tolerance. In
`partial_sequence` five polygons are enough for three stashed elements with
elements inserted in between, the case in which order must be passed on; the
threshold only decides how many elements that do not matter surround them.
An element's toggles are bounded by the code itself; the counter a polygon has
for the whole tree is not, since every subtree that restores the polygon adds to
it, so the model bounds how often other nodes add (`elsewhere`, 2 for the path,
which is beyond the limit, and 0 for the tours). Two threads and three children
give each thread a child and one to race for; two branchings let a geometry
that is stashed in one be restored in the next and reach its limit; more of
either is covered by the proof. `MaxThreads` also bounds the number of hardware threads,
which may be 0. Six sites are the least with two disjoint subtours, both of
which are cut off; the angle has a point in its hull but in none of its pieces.
With `MaxIterations` = 3 the 2-opt loop may finish or be used up with edges that
still cross. The angle comes with its degenerate piece
last in `mip_solve` and first in `mip_start`. In the plane, one cell can be a
hole, one has no weight, so that three polygons meeting there have a tour of
length zero, two are pockets with a site in each, and the two shortest tours differ by
less than the largest tolerance; two rows are what a check compares. The bounds
0, 75 and 86 that a solver may prove are none, one within the largest tolerance
and the optimum. All interleavings of jobs for one instance are explored;
instances do not interact.

Fairness. `bnb_search` assumes weak fairness of the whole next-state relation:
the loop is one thread without waiting, relaxations are solved in finite time
and callbacks return. No branch of a choice is assumed fair. Callback steps that
would change nothing are not steps, so user code cannot keep the loop from
moving in the model other than by making progress. `parallel_evaluation` assumes
weak fairness of the steps of each thread, which is what the operating system's
scheduler gives a thread that waits for nothing (claiming is one atomic
instruction), and of the return after `join_all`. Nobody is obliged to call
`branch` again.

Deadlock checking is on in the runs of the search loop, the tree, the queue and
the caches. It is off where the program comes to an end: a path of the search
tree at a complete sequence or a pruned node, the process after an exception in a
worker, a solver that has returned or raised, and a study with all its rows.

Every property is also checked against a plausible bug: the operators named
"mutant" in a module change one definition, and the property must then fail.

### Findings
* **Piece numbers** (`mip_start`). `nonconvex_solver.py:236` chooses the piece of
  a starting point by its number in the convex decomposition, while the variables
  are numbered without the degenerate pieces (`nonconvex_solver.py:122-124`). With
  a degenerate piece before others, a starting point in none of the pieces is
  moved onto one piece and given the number of another, and Gurobi is handed a
  start that the model does not admit. Where degenerate pieces come last, every
  start is admitted (`mip_solve`).
* **Order rule and root** (`partial_sequence_filtered`). A root of three sites
  on the hull, chosen without regard to the annotations, can run against their
  direction. `OrderFiltering` then rejects the child that every tour needs, and
  the search ends with bounds that do not bracket the optimum. `root_node_strategy.h:22-26` promises that any root of three
  is fine because direction is irrelevant, which is true without the rule;
  nothing in `operations.py:43-74` demands `OrderRoot` for it. With roots that
  follow the annotations the rule is exact (`partial_sequence`).
* **Big-M** (`mip_big_m`). `solver.py:398` announces a valid big-M. It is
  computed from the distances of edge lines to the origin; thin polygons far
  out, whose lines pass close by the origin, make it smaller than the distances
  it has to bound. Instances with extents in all directions, like those of the
  paper, are not affected.
* **Two meanings of optimal** (`experiments_mip`). Gurobi's gap is relative to
  the upper bound, the branch and bound's to the lower one. The validation cell
  of rq5 compares rows of both that are flagged optimal at the same tolerance
  and can reject two correct rows. The self check of a MIP row
  (`schemas.py:290`) compares a gap with one plus the tolerance and rejects
  nothing.

Observations without a run of their own. The first ends a notebook, the second
could exclude a path; the others affect order, output or time only:

* Polygons with a common point, or a single one left by `remove_supersites`, have
  a tour of length zero. `operations.py:225` flags the row optimal, with a lower
  bound of zero, and the self check of the row divides by that bound
  (`schemas.py:289`, `:292`), so that the validation cell of rq4 ends with a
  `ZeroDivisionError`. rq1, rq2 and rq3 divide by a bound already when they read
  the row. The instance is part of `experiments`; `ChecksAccept` names the case as
  its exception.
* A path that ends in the very point where it begins is taken for a tour
  (`common.cpp:334`), so that `simplify` may stash its target if that is no point.
  Nothing new is inserted behind the last element of a path
  (`branching_strategy.cpp:160-171`), although it is no longer the target that is
  last, so that no child admits a path through a new polygon between that
  element and the target. `NoTourLost` sets this case aside by its second
  condition.
* The comment at `branching_strategy.cpp:183` says children above the cutoff are
  removed. They are not; they wait without a trajectory.
  `CutoffNodesNeverExplored` shows why nothing goes wrong: the solver's cutoff is
  never below the upper bound, so such a child is always closed by its bound.
* `relaxed_solution.cpp:57`, `:78` promise transitive order between stashed
  elements; one pass in list order does not provide it. `NoTourLost` and
  `NoTourRegained` show that the search stays exact; the price is children that
  turn out impossible later ("WARNING! restoring stashed geometry").
* `tests/cpp/test_search_strategy.cpp:165` says `CheapestBreadthFirst` always
  picks the globally cheapest bound. It sorts only when a node was branched on;
  bounds that a callback raises afterwards leave the vector out of order.
* `common.cpp:14-15` limits the toggles of a polygon to 1. With a limit of 2
  (`MaxTeToggle` = `MaxGeomToggle` = 2) TLC finds `NoTourRegained` violated: a polygon
  that was restored and stashed again brings back tours its ancestors excluded.
  That costs search, not correctness.
* `node.h:88` describes a spanning sequence; after `simplify` the information is
  read at the wrong positions.
* `pre_simplify.cpp:93` uses y for x in the bounding box of a circle.

## 5. What is proved

**The search loop**, for all values of the constants that satisfy
`BnbAssumption` (positive lengths, an infinity beyond the gap of every length,
finite sets); `BranchAndBoundProofs`:

* `TypeCorrectness`: `TypeOK`, from the stronger `Typed`, which adds the shape
  of the tree: paths contain the root, children follow their parent, and bounds
  are attained at leaves.
* `ParentsAreTight`: `ParentBoundTight`, from `Tight`.
* `SearchIsSound`: the inductive invariant `Sound`.
* `BoundsBracket`, `OptimumIsNotLost`, `ReturnedBoundsAreClose`,
  `CutoffNodesAreNotExplored`: the properties of the runs, from `Sound`.
* `ProgressIsNeverUndone`, `NodesAreNotReturnedAgain`: step properties.
* `SearchKeepsPromise`: `BranchAndBound` implements `SolverPromise`.

`Sound` is needed because none of the properties is inductive. Its parts:
`OptInTree` (some leaf holds the fixed tour, everything that holds it has a bound
of at most `Opt` and has been pruned only if the incumbent is good enough),
`UpperIsTour` (the incumbent is a tour's length), `CutoffSafe` (the cutoff is
not below the upper bound and a node without trajectory has a bound of at least
the cutoff it was solved under), `ObjNearBound` (a length exceeds the bound by at
most the slack), `LeavesClosed` (a leaf that is neither waiting nor visited has
been pruned, found infeasible or became an incumbent, hence the incumbent is good
enough for its bound), `RootTight` (the root's bound is the least of the
leaves', which is what makes an empty queue a proof) and the property itself.
Each action has one step in the proof and under it one per part it disturbs.

`Tight` says that ancestors are nested (`Nested`) and that every node's bound is
the least of the leaves below it (`BackedByLeaves`). That parents agree with
their children is not inductive: raising a leaf changes the bounds of all its
ancestors at once, and the parent's new bound is the least of its children's
only because both are least bounds of leaves.

**The search strategies**, for every nonempty or empty choice of the four and
all tolerances (`QueuedSearchAssumption`); also in `BranchAndBoundProofs`:

* `QueueMatchesOpen` and `DepthFirstDives`: `QueueHoldsOpen` and
  `DivesDepthFirst`.
* `QueuesImplementSearch`: `QSpec => Spec`, so that every theorem about the loop
  holds whichever strategy runs; `StrategiesKeepOptimum` draws the conclusion.

The proof uses of `std::sort` only that it permutes, hence does not depend on
comparators being strict weak orderings. `QInv` adds to the types that the
vector's entries are distinct, that what is missing from it is pruned
(`QueueRight`), that what lies above a node of the vector lies above all later
ones and above the node being visited (`DiveOrder`), and `EventsAwaitIncumbent`:
until there is an incumbent no event makes `DfsBfs` sort, since a relaxation is
never infinitely long, a leaf with an infinite bound was pruned when it got that
bound, and such nodes are not returned. Without the last part DFS order would
not be inductive.

**The tree of nodes**, for every number of nodes and of children, every set of
bounds and every sequence of calls (`NodeTreeAssumption`); `NodeTreeProofs`:

* `NodesFormTree`, `BoundsStayConsistent`: `TypeOK` and `BoundsConsistent`.
* `CallsAreRaisedBounds`, `BranchIsPropagated`, `PruningMarksSubtree`:
  `CallsComputeRaisedBounds`, `BranchComputesPropagated` and `PruneMarksSubtree`,
  that is, `add_lower_bound`, `branch` and `prune` compute the closed form.

The invariant `TreeInv` says that the nodes form a tree, numbered so that a
parent comes before its children, that the bound of a node that branched is the
least of its children's (`Consistent`), and that nothing unmarked is below a
marked node (`Closed`). What a call returns is shown in these steps. The recursion
ends, because a call that does anything raises the bound of its node before it
makes another, so that fewer pairs of a node and a bound above its own are left
(`Rank`, `AddingFacts`). A call that goes up and turns around at an ancestor comes
back to the node below it with a bound that is no news, hence puts the ancestors
right and nothing else (`AddUp`); a call that goes down raises what is below and
nothing else (`AddDown`). Together they leave bounds that are `Consistent` again,
and where bounds are, each is the least of the leaves below (`LeastOfLeaves`),
which is the closed form (`AddedIsRaised`). `prune` may stop at a marked node
because of `Closed` (`PruneDown`).

**The caches**, for every number of sites, every range of distances and every
tolerance (`LazyFeasibilityAssumption`); `LazyFeasibilityProofs`:

* `CachesStayRight`: the inductive invariant `CachesRight`.
* `FeasibilityIsExact`, `BranchesOnMissedSite`: the two properties of the run;
  `CachesKeepTypes`: its types.

`CachesRight` says that each cached value is the one of the sequence the
trajectory was computed for (`CachesFit`), which survives simplification because
an element leaves the sequence only after its distance was cached
(`CachesOrdered`). The second part is what the code relies on without saying so:
`evaluate_child` asks for feasibility, which fills the caches, before it
simplifies.

**Partial sequences**, for any number of polygons, any threshold for
simplification and any toggle limits; `PartialSequenceProofs`:

* `TypesCorrect`, `ElementsKept`, `DescentEnds`: `TypeOK`, `NothingForgotten` and
  `DepthBounded`. The types claim no limit for the counter that all nodes share.
  The second says that branching and stashing neither lose nor double an element
  of a polygon. The last one shows that each child reduces the number of polygons
  to place, of nonconvex ones to resolve and of toggles that its elements have
  left (`LeftToDo`); it needs nothing of the shared counter, which other nodes
  move.
* `SimplifyingKeepsTour`: `SimplifyKeepsTour`.
* `BranchingKeepsTour`: `NoTourLost` in every state with `OrderHolds`, that is, if
  the rule filters, the tour follows the annotations. Without it the
  property is false, as `partial_sequence_filtered` shows. The property itself
  supposes of a path that its target is not stashed; see the observations above.
* `NothingSearchedTwice`: `NoTourRegained`, for `MaxGeomToggle` of at most 1,
  which is the code's; see the observation above.

All but the last use `Inv`: types, an element of the origin that stays in
front (`FirstStays`), stashed elements within their limit (`TogglesLeft`), no
polygon with two elements (`PlacedOnce`), lazy elements only of nonconvex
polygons (`LazyIsNonconvex`). The last one needs `KnowledgeInv` in addition: the
stash mentions only polygons that have an element (`MentionsPlaced`); sequence
and stash together have an order in which they can be put back (`Ordered`); and
whatever the stash says follows by transitivity from pairs on whose order the
sequence and the entries of both polygons agree (`Explained`). What the passes over sequences compute is
shown by induction on positions, as statements about the least position at which
they would fail, because the operators are recursive functions.

**Worker threads**, for every number of threads, children, geometries and
branchings; `ParallelEvaluationProofs`: `ThreadsMatchLoop` proves
`SameAsSequential`. Its invariant `Divided` says which children are untouched
(from `next` on), in the hands of exactly one thread, or finished, and that what a
finished one has stashed is what the counters allow. It is inductive because
nothing that runs concurrently changes a counter: stashing leaves the geometry's
counter alone and restoring happens before threads start, which is why the
comment at `common.h:128` may call the race irrelevant.

**Preprocessing**, for every plane that satisfies `PlaneAssumption` and every
list of sites; `PreSimplifyProofs`: `PreprocessingKeepsTours` proves
`CurvesKept` for the three operations in every combination,
`ExperimentsKeepTours` for the jobs of `Experiments`. The lemma
`CurveLeavesArea` is the reason for it: a connected curve that meets an area and
something apart from it passes through what surrounds the area. The invariant
adds that each erased site contains one that is kept (`Represented`), which
needs that the last loop goes from back to front and equal sites are told apart
by index (`NotYetErased`).

**The experiments**, for every such plane, every set of instances and any of the
studies (`InstancesAssumption`; `WeightAssumption`: cells have a length, which
may be zero; `StudiesAssumption`: lower bounds are naturals and no curve is
infinitely long); also in `PreSimplifyProofs`:

* `ExperimentsKeepTypes`: `TypeOK`.
* `ArchivedRootsAreSound`: `RootsSound`. Annotations are sorted twice, by position
  on the hull and again by the index written for it. `SortedLists` says what
  sorting by index yields, and `RootExtends` why a root stays sound when one more
  polygon is added: overlaps are recorded for every polygon on the hull, so the
  new one is disjoint from the others, and disjoint polygons cannot meet the hull
  first at the same place, so that the order is strict.
* `StudiesSolveRaw`: `RowsHoldForRaw`.
* `BranchAndBoundStudiesAgree`: `ChecksAccept` for every study but rq5, where it
  is false (`experiments_mip`): no comparison fails, unless one of the two rows is
  a tour of length zero, whose check divides by zero. Two optimal lengths are within the tolerance of
  each other because each of the two bounds is below both lengths
  (`OptimaClose`); that both jobs had the same tolerance is what each study
  provides in a way of its own (`StudyFacts`).

The invariant `ExpInv` says of whatever is stored, archived or in a row that the
same curves visit its polygons and those of the raw instance (`FaithfulTo`), of
every row that its solution is one the solver may return for the instance of
that row, and that all rows are of the study that is run. A simplified form is
faithful because polygons only grow (`Shape`) and erased ones contain others.

**The MIP solvers**, for any number of polygons with corners on a grid, any
decomposition and whatever Gurobi proposes (`InstancesAssumption`: there are
polygons, positions and orders are of the right form, and of each polygon that
has an area some point is looked at, for a convex one all of them lie in it);
`MipSolveProofs`:

* `NoCutIsAddedTwice` proves `NoCutTwice`, `AcceptedToursAreConnected` that what
  the callback accepts is one tour (`IncumbentConnected`), `PipelineTyped` the
  types (`TypeOK`).
* `ToursAreReturned`: `ReturnsTour` if the rings are convex (`ConvexRings`).
* `ToursAreAdmitted`: `EveryTourAdmitted` if moreover the points looked at are at
  most half the big-M away from the origin (`NearOrigin`).
* `StartsAreAdmitted`: `StartAdmitted` if moreover the pieces of no area come last
  in their decompositions (`DegenerateLast`).

None of the three conditions is a constraint on the program; each is about the
polygons. `ConvexRings` is what the solver for convex polygons demands and what a
convex decomposition provides. `NearOrigin` is true of instances with extents in
all directions and cannot be dropped: `mip_big_m` breaks `EveryTourAdmitted`
without it. Nor can `DegenerateLast`: `mip_start` breaks `StartAdmitted` without
it. All three are true in every state of `mip_solve`.

The two theorems about the callback rest on lemmas about components: no edge leaves
one (`ComponentClosed`), and where every vertex has two edges it has at least
three vertices (`ComponentNotSmall`), so that passing over smaller components and
the one of vertex 0 misses nothing. The returned tour needs why
`_extract_tour_order`, which always goes on to the first unvisited neighbour and
has no way back, cannot end early: where it ends it is back at a neighbour of
vertex 0 (`DeadEndMeetsStart`), so all neighbours of what was visited have been
visited (`DeadEndClosed`), and on one connected tour that is everything
(`DeadEndIsTour`).

That its points lie in the polygons is geometry. The reference definition of a
convex ring is the union of the triangles between its corners; the code takes one
halfspace per edge and orients them all by the sign of one sum. The partial sums
of the shoelace formula add up the triangles of a fan (`FanSum`), which all have one sign
if no corner lies on the outer side of an edge, so that the sign of the sum is
theirs (`OrientationFound`). A point on the inner side of every edge is then in
one of the triangles: going round the fan, the side on which the diagonals leave
it has to change (`InsideMeetsFan`). Conversely, what is in a triangle is on the inner side of every edge its
corners are on the inner side of. Duplicate corners, closing vertices and skipped
pieces change nothing about the points described.

For `EveryTourAdmitted`, the big-M is the greatest of finitely many distances of
edge lines from the origin, so it exists and bounds each of them (`BigMFacts`); what a point near the origin
lacks of a halfspace (`NearPointsRelaxed`) and the distance of two such points
(`NearPointsLinearizable`) are then within the big-M. A tour satisfies every cut,
because it leaves any proper part of the polygons by two edges at least
(`TourSatisfiesCut`). For `StartAdmitted`, a 2-opt swap leaves an order of all
polygons (`SwapKeepsOrder`); the piece named for a point is one that contains it,
or the nearest, and the point is moved onto that (`PlacedRight`).

`PipelineInv` is the inductive invariant: the incumbent is connected, has two
edges at every polygon and lies in the pieces named for it (`SolutionInv`); the
big-M is that of the pieces, which are those of the instance and not degenerate
(`PiecesKnown`, `ModelRight`); cuts spare vertex 0 and have three vertices or more
(`CutsRight`); the warm start is an order of all polygons with a point of each
(`WarmRight`), and so is a start for Gurobi until it takes over (`StartRight`).

Only model-checked: liveness (`Returns`, `BranchReturns`) and anything with
ENABLED, which are out of the prover's reach; and `OrderHolds`, a condition of one
theorem above that a run shows cannot be dropped.

## 6. What is not modelled

* Geometry proper: `utils/geometry.cpp`, convex decomposition and CGAL
  conversions, and floating point rounding beyond `Slack`. They keep no state.
* The cone program, Gurobi and Christofides' algorithm: external, any answer
  within their contract.
* Object lifetime: `wipe`, `update`, the copies of trajectories and caches made
  for `Solution` objects; the spanning sequence, which only output reads.
* Python: WKT and JSON, `InstanceDb` and its archives as files, the check of
  argument combinations, the trampolines of callbacks, the comparison of a
  tour's ends in `self_plausibility_check`, an `initial_solution` checked by its
  caller, a `big_m` given by the caller, calling `solve` twice.
* Circles, in the preprocessing and elsewhere.
* Which three sites a root strategy considers the longest: any three are modelled.
* Plots, statistics and tables of the notebooks, drawing, timer, examples.
* Exceptions other than those of a solver status, of `convex_hull_fill`, of the
  MIP solvers and those the experiment scripts catch end the program and are
  left out. The time limit may strike after any visit.

## 7. What could follow

1. A model of `Solution` objects and the copies of caches they hold.
