------------------------- MODULE ParallelEvaluation -------------------------
(***************************************************************************)
(* How the children of a branched node are evaluated and simplified, by    *)
(* the calling thread or by worker threads (distributed_child_evaluation   *)
(* in tspn_core/strategies/branching_strategy.cpp), over several calls of  *)
(* PolyBranching::branch.  Threads share the counter of claimed children   *)
(* and, through the geometries, the counters of restored elements that     *)
(* simplify() reads.                                                       *)
(*                                                                         *)
(* Of a child's sequence only the elements that may be stashed matter: the *)
(* active ones that do not span the trajectory, none in a short sequence   *)
(* or in a child cut off by the solver.                                    *)
(***************************************************************************)
EXTENDS Integers

CONSTANTS
  Geo,            \* the geometries
  MaxGeomToggle,  \* MAX_GEOM_TOGGLE_COUNT
  MaxThreads,     \* bound on threads asked for and on hardware threads
  MaxChildren,    \* bound on the children of a node
  MaxBranchings   \* bound on the calls of branch

ASSUME ParallelEvaluationAssumption ==
  {MaxGeomToggle, MaxThreads, MaxChildren, MaxBranchings} \subseteq Nat

Caller == 0
Workers == 1 .. MaxThreads
Threads == {Caller} \cup Workers

VARIABLES
  numThreads,  \* PolyBranching::num_threads
  simplify,    \* PolyBranching::simplify
  toggles,     \* Geometry::geom_toggle_count
  main,        \* the calling thread is "idle", in the "loop", waiting to "join",
               \* has "raised" an exception; or the process is "terminated"
  elements,    \* of each child, see above
  failing,     \* the children whose relaxation the solver gives up on
  next,        \* next_child, or the loop variable
  at, child,   \* where each thread is, and in which child
  rest,        \* the elements that its simplify() has not looked at
  evaluated,   \* how often each child was evaluated
  stashed,     \* what each child has stashed
  branchings   \* the calls of branch so far

vars == <<numThreads, simplify, toggles, main, elements, failing, next, at, child,
          rest, evaluated, stashed, branchings>>

Children == DOMAIN elements

----------------------------------------------------------------------------
\* Asked for no number of threads, as many are used as the hardware has; that
\* number is 0 where it is unknown (PolyBranching::PolyBranching).
NumThreads(asked, hardware) == IF asked = 0 THEN hardware ELSE asked

\* Threads start where they claim a child; the others do not exist.
ConThreads(n) == IF numThreads < n THEN numThreads ELSE n
Started(n) == IF ConThreads(n) = 1 THEN {Caller} ELSE 1 .. ConThreads(n)

Init ==
  /\ \E asked, hardware \in 0 .. MaxThreads : numThreads = NumThreads(asked, hardware)
  /\ simplify \in BOOLEAN
  /\ toggles \in [Geo -> 0 .. MaxGeomToggle]
  /\ main = "idle"
  /\ elements = <<>> /\ failing = {} /\ next = 1
  /\ at = [t \in Threads |-> "absent"]
  /\ child = [t \in Threads |-> 0]
  /\ rest = [t \in Threads |-> {}]
  /\ evaluated = <<>> /\ stashed = <<>>
  /\ branchings = 0

\* branch creates n children, restoring the geometries of R (at most one) from
\* the stash, and starts the evaluation.
Branch(n, R) ==
  /\ main = "idle" /\ branchings < MaxBranchings
  /\ toggles' = [g \in Geo |-> IF g \in R THEN toggles[g] + 1 ELSE toggles[g]]
  /\ elements' \in [1 .. n -> SUBSET Geo]
  /\ failing' \in SUBSET (1 .. n)
  /\ main' = IF ConThreads(n) = 1 THEN "loop" ELSE "join"
  /\ next' = 1
  /\ at' = [t \in Threads |-> IF t \in Started(n) THEN "claim" ELSE "absent"]
  /\ evaluated' = [c \in 1 .. n |-> 0]
  /\ stashed' = [c \in 1 .. n |-> {}]
  /\ branchings' = branchings + 1
  /\ UNCHANGED <<numThreads, simplify, child, rest>>

\* fetch_add: claim the next child, or leave when there is none.
Claim(t) ==
  /\ main \in {"loop", "join"} /\ at[t] = "claim"
  /\ next' = next + 1
  /\ IF next \in Children
       THEN /\ at' = [at EXCEPT ![t] = "evaluate"]
            /\ child' = [child EXCEPT ![t] = next]
       ELSE at' = [at EXCEPT ![t] = "left"] /\ UNCHANGED child
  /\ UNCHANGED <<numThreads, simplify, toggles, main, elements, failing, rest,
                 evaluated, stashed, branchings>>

\* trigger_lazy_evaluation; only then the child is simplified.
Evaluate(t) ==
  /\ main \in {"loop", "join"} /\ at[t] = "evaluate" /\ child[t] \notin failing
  /\ evaluated' = [evaluated EXCEPT ![child[t]] = @ + 1]
  /\ at' = [at EXCEPT ![t] = IF simplify THEN "simplify" ELSE "claim"]
  /\ rest' = [rest EXCEPT ![t] = elements[child[t]]]
  /\ UNCHANGED <<numThreads, simplify, toggles, main, elements, failing, next, child,
                 stashed, branchings>>

\* The solver throws: out of the loop, to the caller of branch; out of a
\* worker, which does not catch it, it ends the process.
Throw(t) ==
  /\ main \in {"loop", "join"} /\ at[t] = "evaluate" /\ child[t] \in failing
  /\ main' = IF t = Caller THEN "raised" ELSE "terminated"
  /\ UNCHANGED <<numThreads, simplify, toggles, elements, failing, next, at, child,
                 rest, evaluated, stashed, branchings>>

\* can_be_disabled, as far as the geometry's counter goes
CanBeDisabled(g) == toggles[g] < MaxGeomToggle

\* Mutant of Disabled: stashing counts as well as restoring.
DisabledCounts(g) == [toggles EXCEPT ![g] = @ + 1]
\* disable() leaves the geometry's counter alone; enable() counts, in branch.
Disabled(g) == toggles

\* One round of the loop in simplify.
Stash(t, g) ==
  /\ main \in {"loop", "join"} /\ at[t] = "simplify" /\ g \in rest[t]
  /\ rest' = [rest EXCEPT ![t] = @ \ {g}]
  /\ IF CanBeDisabled(g)
       THEN /\ stashed' = [stashed EXCEPT ![child[t]] = @ \cup {g}]
            /\ toggles' = Disabled(g)
       ELSE UNCHANGED <<stashed, toggles>>
  /\ UNCHANGED <<numThreads, simplify, main, elements, failing, next, at, child,
                 evaluated, branchings>>

Simplified(t) ==
  /\ main \in {"loop", "join"} /\ at[t] = "simplify" /\ rest[t] = {}
  /\ at' = [at EXCEPT ![t] = "claim"]
  /\ UNCHANGED <<numThreads, simplify, toggles, main, elements, failing, next, child,
                 rest, evaluated, stashed, branchings>>

\* Mutant of Joined: the call waits for as many threads as were asked for.
JoinedAllAskedFor == \A t \in 1 .. numThreads : at[t] = "left"
\* join_all, or the end of the loop
Joined == \A t \in Threads : at[t] \in {"absent", "left"}

Return ==
  /\ main \in {"loop", "join"} /\ Joined
  /\ main' = "idle"
  /\ UNCHANGED <<numThreads, simplify, toggles, elements, failing, next, at, child, rest,
                 evaluated, stashed, branchings>>

Step(t) ==
  Claim(t) \/ Evaluate(t) \/ Throw(t) \/ (\E g \in Geo : Stash(t, g)) \/ Simplified(t)

Restorable == {{}} \cup {{g} : g \in Geo}

Next ==
  \/ \E n \in 0 .. MaxChildren, R \in Restorable : Branch(n, R)
  \/ \E t \in Threads : Step(t)
  \/ Return

Spec == Init /\ [][Next]_vars

\* A thread that can run is scheduled at some time.
FairSpec == Spec /\ WF_vars(Return) /\ \A t \in Threads : WF_vars(Step(t))

----------------------------------------------------------------------------
(* Properties *)

\* What the single-threaded loop does to the children: it evaluates each of
\* them once, and stashes what the counters of the moment let it.
SequentialStash(c) == IF simplify THEN {g \in elements[c] : CanBeDisabled(g)} ELSE {}

\* When branch goes on, the children are as the loop without threads would
\* have left them: the order in which threads claim children and read the
\* counters that all nodes share shows nowhere, and no child is missed or
\* evaluated twice.  A child whose evaluation threw is never used.  Only where
\* the number of hardware threads is unknown nobody evaluates the children.
SameAsSequential ==
  main = "idle" /\ numThreads # 0 =>
    \A c \in Children :
      c \notin failing /\ evaluated[c] = 1 /\ stashed[c] = SequentialStash(c)

\* Every call of branch comes back, with the children or with the exception,
\* unless the exception ends the process.
BranchReturns == main \in {"loop", "join"} ~> main \notin {"loop", "join"}
=============================================================================
