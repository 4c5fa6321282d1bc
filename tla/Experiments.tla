---------------------------- MODULE Experiments ----------------------------
(* The experiments of the paper, for one instance: the simplification jobs *)
(* (evaluation/00_simplification), the extraction of the simplified        *)
(* instance into the archive the studies read, the solver jobs of a study  *)
(* and the validation in its notebook.  The scripts are started by hand,   *)
(* may be interrupted and started again, and add to the same benchmark:    *)
(* the archive can be extracted before every simplification job has run,   *)
(* and again later, so a study may hold rows for two simplified forms of   *)
(* one instance, which its notebook compares by the name of the instance.  *)
EXTENDS PreSimplify, OrderAnnotation, Studies

CONSTANTS
  Instances,    \* the instances in the archive of instances_socg.zip
  StudyNames,   \* the studies that may be run
  Tolerances,   \* bound: only configurations with these tolerances
  Strategies,   \*        and these strategies are run
  LowerBounds,  \* bound: the lower bounds a solver may prove
  MaxExcess,    \* bound: how much longer than the optimum a trajectory may be
  MaxRows       \* bound: rows a study may add

VARIABLES
  notes,        \* the annotations the instance comes with
  simplified,   \* rows of the simplification benchmark
  archive,      \* the instance in instances_socg_simplified.zip, if it is there
  study,        \* the study that is run, "none" before the first job
  rows          \* rows of the benchmark of the study

expVars == <<notes, simplified, archive, study, rows>>
vars == <<preVars, expVars>>

-----------------------------------------------------------------------------
\* alg_params_to_evaluate of 01_run_simplification.py.
SimplificationConfs == {Operations \ {"convex_hull_fill"}, Operations}

\* The polygons still in the list, renumbered.
KeptPolygons == LET index == SortedByIndex([i \in kept |-> i])
                IN  [k \in DOMAIN index |-> sites[index[k]]]

\* Mutant: the annotations of the instance are copied like its meta data.
SimplifiedInstanceAnnotated == [polygons |-> KeptPolygons, annotations |-> notes]
\* simplify_annotated_instance returns an instance without annotations.
SimplifiedInstance == [polygons |-> KeptPolygons, annotations |-> <<>>]

Init ==
  /\ \E i \in Instances : input = i.polygons /\ notes = i.annotations
  /\ PreInit
  /\ simplified = {} /\ archive = {} /\ study = "none" /\ rows = {}

\* The benchmark skips a configuration it has a row for.
StartSimplification(ops) ==
  /\ ~ \E r \in simplified : r.flags = ops
  /\ Begin(ops)
  /\ UNCHANGED expVars

Simplify == SimplifyStep /\ UNCHANGED expVars

\* A RuntimeError becomes a row without instances.
StoreSimplified ==
  /\ Return
  /\ simplified' = simplified \cup
       {[flags    |-> flags,
         instance |-> IF stage = "failed" THEN {}
                      ELSE {AddOrderAnnotations(SimplifiedInstance)}]}
  /\ UNCHANGED <<notes, archive, study, rows>>

\* 03_extract_simplified_instances.py takes the row with all simplifications
\* if that one succeeded, else the one without hull filling.  Rows without
\* instances are dropped by read_row.
Extracted ==
  LET Of(ops) == UNION {r.instance : r \in {q \in simplified : q.flags = ops}}
  IN  IF Of(Operations) # {} THEN Of(Operations)
      ELSE Of(Operations \ {"convex_hull_fill"})

Extract ==
  /\ stage = "idle" /\ simplified # {}
  /\ archive' = Extracted
  /\ UNCHANGED <<preVars, notes, simplified, study, rows>>

-----------------------------------------------------------------------------
\* Lower bounds are valid, except from a root that some optimal tour does not
\* follow.
Provable(instance, conf) ==
  IF conf.strategy = "OrderRoot" /\ ~ SoundRoot(instance) THEN LowerBounds
  ELSE {b \in LowerBounds : b <= Optimum(instance.polygons)}

\* The solutions a solver may return: a trajectory that visits the polygons
\* of the instance it was given, and a bound.  Only the branch-and-bound
\* returns a solution when it found no trajectory.
Solutions(instance, conf) ==
  LET limit == Optimum(instance.polygons) + MaxExcess
      tours == {T \in Curves : Visits(T, instance.polygons) /\ Length(T) <= limit}
      bounds == Provable(instance, conf)
  IN  IF conf.solver = "mip"
        THEN {MipReport(T, Length(T), b, conf.eps) : T \in tours, b \in bounds}
        ELSE {Report(T, Length(T), b, conf.eps) :
                T \in tours \cup {NoTrajectory}, b \in bounds}

\* load_instance_and_run of a study: the row of a configuration that is not in
\* the benchmark yet.  An exception that the script does not catch leaves no
\* row.
SolveInstance(name, conf) ==
  /\ stage = "idle" /\ study \in {"none", name}
  /\ Cardinality(rows) < MaxRows
  /\ \E instance \in archive :
       /\ ~ \E r \in rows : r.instance = instance /\ r.conf = conf
       /\ \/ \E s \in Solutions(instance, conf) :
               rows' = rows \cup {[instance |-> instance, conf |-> conf, solution |-> {s}]}
          \/ \E exception \in Script(name).catches :
               rows' = rows \cup {[instance |-> instance, conf |-> conf, solution |-> {}]}
  /\ study' = name
  /\ UNCHANGED <<preVars, notes, simplified, archive>>

Sampled(name) ==
  {c \in Script(name).confs : c.eps \in Tolerances /\ c.strategy \in Strategies}

Next ==
  \/ \E ops \in SimplificationConfs : StartSimplification(ops)
  \/ Simplify
  \/ StoreSimplified
  \/ Extract
  \/ \E name \in StudyNames : \E conf \in Sampled(name) : SolveInstance(name, conf)

-----------------------------------------------------------------------------
\* The rows the notebook works with.
ReadRows == {r \in rows : r.solution # {}}
SolutionOf(r) == CHOOSE s \in r.solution : TRUE

\* The notebook ends with an exception while it reads the rows, before it
\* compares any two: on a row without solution, or on a division by a bound of
\* zero.
ReadingStops ==
  \/ \E r \in rows \ ReadRows : Reader(study, r.conf).failedRow = "stops"
  \/ \E r \in ReadRows :
       CASE Reader(study, r.conf).dividesBy = "lower"   -> SolutionOf(r).lower_bound = 0
         [] Reader(study, r.conf).dividesBy = "upper"   -> SolutionOf(r).upper_bound = 0
         [] Reader(study, r.conf).dividesBy = "neither" -> FALSE

\* The validation cell may come to compare r with o.  It goes through the rows
\* in any order: an empty trajectory r is passed over, or ends the notebook by
\* the feasibility assertion, but only after the rows before it were compared
\* with all the others.
Compared(r, o) ==
  /\ Validation(study).sameEps => r.conf.eps = o.conf.eps
  /\ Validation(study).feasible # "none" => SolutionOf(r).trajectory # NoTrajectory

Spec == Init /\ [][Next]_vars

-----------------------------------------------------------------------------
IsInstance(i) ==
  /\ i.polygons \in Seq(SUBSET Cells)
  /\ DOMAIN i.annotations \subseteq DOMAIN i.polygons
  /\ \A k \in DOMAIN i.annotations : i.annotations[k] \in Annotation

ASSUME InstancesAssumption == \A i \in Instances : IsInstance(i)

\* The studies are those under evaluation/, and infinity is above every length.
ASSUME StudiesAssumption ==
  /\ StudyNames \subseteq Validated \cup {"long"}
  /\ LowerBounds \subseteq Nat
  /\ \A T \in Curves : Length(T) < Inf

TypeOK ==
  /\ input \in Seq(SUBSET Cells) /\ sites \in Seq(SUBSET Cells)
  /\ flags \subseteq Operations
  /\ stage \in Operations \cup {"idle", "done", "failed"}
  /\ pos \in 0 .. Len(input) + 1
  /\ kept \subseteq DOMAIN input /\ DOMAIN sites = DOMAIN input
  /\ \A r \in simplified : \A i \in r.instance : IsInstance(i)
  /\ \A i \in archive : IsInstance(i)
  /\ \A r \in rows : IsInstance(r.instance) /\ Cardinality(r.solution) <= 1

\* What a study reports holds for the instance before simplification: every
\* trajectory visits all its polygons, and its optimum lies between the
\* bounds, whichever simplified form the job was given and although the solver
\* only ever saw that one (operations.py, pre_simplify.cpp, the scripts).
RowsHoldForRaw ==
  \A r \in ReadRows :
    LET s == SolutionOf(r)
    IN  /\ s.lower_bound <= Optimum(input)
        /\ s.trajectory # NoTrajectory =>
             /\ Visits(s.trajectory, input)
             /\ Optimum(input) <= s.upper_bound

\* The annotations that are archived with a simplified instance are about its
\* polygons: the root the solver derives from them is made of polygons of the
\* instance that lie on the hull, in order, and do not overlap, although
\* simplification fills, drops and renumbers polygons that may have come with
\* annotations (order_annotation.py:165).
RootsSound == \A i \in archive : SoundRoot(i)

\* When the validation cell of a notebook compares two rows of an instance, also
\* those of two different simplified forms, then no check of plausibility_check
\* fails.  The one exception is a tour of length zero, which is what polygons
\* with a common point have: such a row is flagged optimal with a bound of zero,
\* by which self_plausibility_check divides (operations.py:225,
\* schemas.py:209-418, the validation cells of rq1 to rq5).
ChecksAccept ==
  study \in Validated /\ ~ ReadingStops =>
    \A r, o \in ReadRows :
      LET s == SolutionOf(r)
          t == SolutionOf(o)
          tolerance == r.conf.eps + Validation(study).extra
      IN  Compared(r, o) =>
            \/ \E x \in {s, t} : CheckRaises(x) /\ x.upper_bound = 0
            \/ /\ ~ CheckRaises(s) /\ SelfPlausible(s, Length(s.trajectory), tolerance)
               /\ ~ CheckRaises(t) /\ SelfPlausible(t, Length(t.trajectory), tolerance)
               /\ BoundsAgree(s, t)
               /\ OptimaAgree(s, t, tolerance)
=============================================================================
