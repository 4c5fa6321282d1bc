---------------------- MODULE ParallelEvaluationProofs ----------------------
(***************************************************************************)
(* However many threads evaluate however many children, and in whichever   *)
(* order they run, the children end up as the sequential loop leaves them. *)
(***************************************************************************)
EXTENDS ParallelEvaluation, TLAPS

Running == main \in {"loop", "join"}

\* The types of the variables.
Typed ==
  /\ numThreads \in Nat /\ simplify \in BOOLEAN
  /\ toggles \in [Geo -> Nat]
  /\ main \in {"idle", "loop", "join", "raised", "terminated"}
  /\ \E n \in Nat : elements \in [1 .. n -> SUBSET Geo]
  /\ failing \subseteq Children
  /\ next \in Nat \ {0}
  /\ at \in [Threads -> {"absent", "claim", "evaluate", "simplify", "left"}]
  /\ child \in [Threads -> Nat]
  /\ rest \in [Threads -> SUBSET Geo]
  /\ evaluated \in [Children -> Nat]
  /\ stashed \in [Children -> SUBSET Geo]

\* Thread t works on child c.
WorksOn(t, c) == at[t] \in {"evaluate", "simplify"} /\ child[t] = c

\* Nothing has happened to child c; everything has.
Untouched(c) == evaluated[c] = 0 /\ stashed[c] = {}
Finished(c) == c \notin failing /\ evaluated[c] = 1 /\ stashed[c] = SequentialStash(c)

\* What thread t has done to its child.
Progress(t) ==
  /\ at[t] \in {"evaluate", "simplify"} => child[t] \in Children /\ child[t] < next
  /\ at[t] = "evaluate" => Untouched(child[t])
  /\ at[t] = "simplify" =>
       /\ simplify /\ child[t] \notin failing /\ evaluated[child[t]] = 1
       /\ rest[t] \subseteq elements[child[t]]
       /\ stashed[child[t]] = {g \in elements[child[t]] \ rest[t] : CanBeDisabled(g)}
  /\ at[t] = "left" => \A c \in Children : c < next

\* While threads run, children from next on are untouched, each child before
\* is finished or is worked on by one thread, and there is a thread at all.
Divided ==
  Running =>
    /\ \A t \in Threads : Progress(t)
    /\ \A t, u \in Threads, c \in Children : WorksOn(t, c) /\ WorksOn(u, c) => t = u
    /\ \A c \in Children : c >= next => Untouched(c)
    /\ \A c \in Children : c < next => Finished(c) \/ \E t \in Threads : WorksOn(t, c)
    /\ numThreads # 0 /\ Children # {} => \E t \in Threads : at[t] # "absent"

Inv == Typed /\ Divided /\ SameAsSequential

----------------------------------------------------------------------------
\* Whoever starts is a thread, and somebody starts if there is work and a
\* thread to do it.
LEMMA SomebodyStarts ==
  ASSUME Typed, NEW n \in Nat, numThreads # 0, n # 0
  PROVE  Started(n) # {}
<1>1. ConThreads(n) \in Nat /\ ConThreads(n) # 0
  BY DEF Typed, ConThreads
<1>2. CASE ConThreads(n) = 1
  BY <1>2 DEF Started
<1>3. CASE ConThreads(n) # 1
  <2>1. 1 \in 1 .. ConThreads(n)
    BY <1>1
  <2> QED BY <2>1, <1>3 DEF Started
<1> QED BY <1>2, <1>3

\* The threads that start exist: a call starts no more than numThreads.
LEMMA StartedExist ==
  ASSUME Typed, numThreads <= MaxThreads, NEW n \in Nat
  PROVE  Started(n) \subseteq Threads
<1>1. MaxThreads \in Nat
  BY ParallelEvaluationAssumption
<1>2. ConThreads(n) \in Nat /\ ConThreads(n) <= MaxThreads
  BY <1>1 DEF Typed, ConThreads
<1> QED BY <1>1, <1>2 DEF Started, Threads, Workers, Caller

LEMMA InitInv == Init => Inv /\ numThreads <= MaxThreads
<1> SUFFICES ASSUME Init PROVE Inv /\ numThreads <= MaxThreads
  OBVIOUS
<1>1. numThreads \in Nat /\ numThreads <= MaxThreads
  BY ParallelEvaluationAssumption DEF Init, NumThreads
<1>2. elements = <<>> /\ Children = {}
  BY DEF Init, Children
<1>3. elements \in [1 .. 0 -> SUBSET Geo]
  BY <1>2
<1>4. evaluated \in [Children -> Nat] /\ stashed \in [Children -> SUBSET Geo]
  BY <1>2 DEF Init
<1>5. 0 .. MaxGeomToggle \subseteq Nat
  OBVIOUS
<1>6. Typed
  BY <1>1, <1>2, <1>3, <1>4, <1>5 DEF Init, Typed
<1>7. Divided /\ SameAsSequential
  BY <1>2 DEF Init, Divided, Running, SameAsSequential
<1> QED BY <1>1, <1>6, <1>7 DEF Inv

LEMMA BranchInv ==
  ASSUME Inv, numThreads <= MaxThreads,
         NEW n \in 0 .. MaxChildren, NEW R \in Restorable, Branch(n, R)
  PROVE  Inv'
<1>1. n \in Nat /\ Started(n) \subseteq Threads
  BY StartedExist, ParallelEvaluationAssumption DEF Inv
<1>2. Children' = 1 .. n /\ elements' \in [1 .. n -> SUBSET Geo]
  BY DEF Branch, Children
<1>3. Typed'
  <2>1. toggles' \in [Geo -> Nat]
    BY DEF Branch, Inv, Typed
  <2>2. at' \in [Threads -> {"absent", "claim", "evaluate", "simplify", "left"}]
    BY DEF Branch
  <2>3. evaluated' \in [Children' -> Nat] /\ stashed' \in [Children' -> SUBSET Geo]
    BY <1>2 DEF Branch
  <2>4. \E m \in Nat : elements' \in [1 .. m -> SUBSET Geo]
    BY <1>1, <1>2
  <2>5. failing' \subseteq Children'
    BY <1>2 DEF Branch
  <2>6. next' \in Nat \ {0} /\ main' \in {"loop", "join"}
    BY DEF Branch
  <2>7. /\ numThreads' \in Nat /\ simplify' \in BOOLEAN
        /\ child' \in [Threads -> Nat] /\ rest' \in [Threads -> SUBSET Geo]
    BY DEF Branch, Inv, Typed
  <2> QED BY <2>1, <2>2, <2>3, <2>4, <2>5, <2>6, <2>7 DEF Typed
<1>4. \A t \in Threads : at'[t] \in {"claim", "absent"}
  BY DEF Branch
<1>5. \A t \in Threads : Progress(t)' /\ \A c : ~ WorksOn(t, c)'
  BY <1>4 DEF Progress, WorksOn
<1>6. \A c \in Children' : Untouched(c)' /\ ~ c < next'
  BY <1>2 DEF Branch, Untouched
<1>7. numThreads # 0 /\ Children' # {} => \E t \in Threads : at'[t] # "absent"
  <2> SUFFICES ASSUME numThreads # 0, Children' # {} PROVE \E t \in Threads : at'[t] # "absent"
    OBVIOUS
  <2>1. n # 0
    BY <1>1, <1>2
  <2>2. PICK t \in Started(n) : TRUE
    BY <2>1, <1>1, SomebodyStarts DEF Inv
  <2> QED BY <2>2, <1>1 DEF Branch
<1>8. Divided' /\ SameAsSequential'
  BY <1>5, <1>6, <1>7 DEF Branch, Divided, Running, SameAsSequential
<1> QED BY <1>3, <1>8 DEF Inv

----------------------------------------------------------------------------
LEMMA ClaimInv ==
  ASSUME Inv, NEW t \in Threads, Claim(t)
  PROVE  Inv'
<1> USE DEF Inv
<1>0. /\ Running /\ Running' /\ main' # "idle" /\ Children' = Children /\ next \in Nat
      /\ UNCHANGED <<numThreads, simplify, toggles, elements, failing, rest, evaluated, stashed>>
      /\ Divided /\ Typed
  BY DEF Claim, Running, Children, Typed
<1>1. PICK n \in Nat : Children = 1 .. n
  BY DEF Typed, Children
<1>2. Typed'
  <2>1. at' \in [Threads -> {"absent", "claim", "evaluate", "simplify", "left"}]
    BY DEF Claim, Typed
  <2>2. child' \in [Threads -> Nat]
    BY <1>0 DEF Claim, Typed
  <2>3. next' \in Nat \ {0} /\ main' = main
    BY DEF Claim, Typed
  <2> QED BY <1>0, <2>1, <2>2, <2>3 DEF Typed
<1>3. \A u \in Threads : u # t => at'[u] = at[u] /\ child'[u] = child[u]
  BY DEF Claim, Typed
<1>4. \A c : c \in Children =>
        (Untouched(c)' <=> Untouched(c)) /\ (Finished(c)' <=> Finished(c))
  BY <1>0 DEF Untouched, Finished, SequentialStash, CanBeDisabled
<1>5. \A u \in Threads, c \in Children : u # t => (WorksOn(u, c)' <=> WorksOn(u, c))
  BY <1>3 DEF WorksOn
<1>6. \A c \in Children : ~ WorksOn(t, c)
  BY DEF Claim, WorksOn
<1>7. CASE next \in Children
  <2>1. at'[t] = "evaluate" /\ child'[t] = next /\ next' = next + 1
    BY <1>7 DEF Claim, Typed
  <2>2. \A c \in Children : WorksOn(t, c)' <=> c = next
    BY <2>1 DEF WorksOn
  <2>3. \A u \in Threads : ~ WorksOn(u, next)
    BY <1>0, <1>1, <1>7 DEF Divided, Progress, WorksOn
  <2>4. Untouched(next)
    BY <1>0, <1>7, <1>1 DEF Divided
  <2>5. Progress(t)'
    BY <2>1, <2>4, <1>4, <1>7, <1>0, <1>1 DEF Progress
  <2>6. \A u \in Threads : u # t => Progress(u)'
    <3> SUFFICES ASSUME NEW u \in Threads, u # t PROVE Progress(u)'
      OBVIOUS
    <3>1. Progress(u)
      BY <1>0 DEF Divided
    <3>2. at[u] # "left"
      BY <3>1, <1>7, <1>1 DEF Progress
    <3>3. child[u] \in Nat
      BY DEF Typed
    <3> QED BY <3>1, <3>2, <3>3, <1>3, <1>4, <2>1, <1>0 DEF Progress, CanBeDisabled
  <2>7. \A u, v \in Threads, c \in Children : WorksOn(u, c)' /\ WorksOn(v, c)' => u = v
    BY <2>2, <2>3, <1>5, <1>0 DEF Divided
  <2>8. \A c \in Children : c >= next' => Untouched(c)'
    BY <2>1, <1>4, <1>0, <1>1 DEF Divided
  <2>9. \A c \in Children : c < next' => Finished(c)' \/ \E u \in Threads : WorksOn(u, c)'
    <3> SUFFICES ASSUME NEW c \in Children, c < next'
                 PROVE  Finished(c)' \/ \E u \in Threads : WorksOn(u, c)'
      OBVIOUS
    <3>1. CASE c = next
      BY <3>1, <2>2
    <3>2. CASE c # next
      <4>1. c < next
        BY <3>2, <2>1, <1>0, <1>1
      <4>2. Finished(c) \/ \E u \in Threads : WorksOn(u, c)
        BY <4>1, <1>0 DEF Divided
      <4> QED BY <4>2, <1>4, <1>5, <1>6
    <3> QED BY <3>1, <3>2
  <2>10. at'[t] # "absent"
    BY <2>1
  <2>11. Divided'
    BY <2>5, <2>6, <2>7, <2>8, <2>9, <2>10, <1>0 DEF Divided
  <2> QED BY <2>11, <1>2, <1>0 DEF SameAsSequential
<1>8. CASE next \notin Children
  <2>1. at'[t] = "left" /\ next' = next + 1
    BY <1>8 DEF Claim, Typed
  <2>2. \A c \in Children : c < next
    BY <1>8, <1>0, <1>1 DEF Typed
  <2>3. \A c \in Children : ~ WorksOn(t, c)'
    BY <2>1 DEF WorksOn
  <2>4. Progress(t)'
    BY <2>1, <2>2, <1>0, <1>1 DEF Progress
  <2>5. \A u \in Threads : u # t => Progress(u)'
    <3> SUFFICES ASSUME NEW u \in Threads, u # t PROVE Progress(u)'
      OBVIOUS
    <3>1. Progress(u)
      BY <1>0 DEF Divided
    <3>2. child[u] \in Nat
      BY DEF Typed
    <3>3. \A c \in Children : c < next'
      BY <2>1, <2>2, <1>0, <1>1
    <3> QED BY <3>1, <3>2, <3>3, <1>3, <1>4, <2>1, <1>0 DEF Progress, CanBeDisabled
  <2>6. \A u, v \in Threads, c \in Children : WorksOn(u, c)' /\ WorksOn(v, c)' => u = v
    BY <2>3, <1>5, <1>0 DEF Divided
  <2>7. \A c \in Children : c >= next' => Untouched(c)'
    BY <2>1, <2>2, <1>0, <1>1
  <2>8. \A c \in Children : Finished(c)' \/ \E u \in Threads : WorksOn(u, c)'
    BY <2>2, <1>4, <1>5, <1>6, <1>0 DEF Divided
  <2>9. Divided'
    BY <2>1, <2>4, <2>5, <2>6, <2>7, <2>8, <1>0 DEF Divided
  <2> QED BY <2>9, <1>2, <1>0 DEF SameAsSequential
<1> QED BY <1>7, <1>8

LEMMA EvaluateInv ==
  ASSUME Inv, NEW t \in Threads, Evaluate(t)
  PROVE  Inv'
<1> USE DEF Inv
<1> DEFINE c0 == child[t]
<1>0. /\ Running /\ Running' /\ main' # "idle" /\ Children' = Children /\ next' = next
      /\ UNCHANGED <<numThreads, simplify, toggles, main, elements, failing, child, stashed>>
      /\ Divided /\ Typed /\ next \in Nat
  BY DEF Evaluate, Running, Children, Typed
<1>1. c0 \in Children /\ c0 < next /\ Untouched(c0) /\ c0 \notin failing /\ WorksOn(t, c0)
  BY <1>0 DEF Evaluate, Divided, Progress, WorksOn
<1>2. /\ evaluated' = [evaluated EXCEPT ![c0] = 1]
      /\ evaluated \in [Children -> Nat]
  BY <1>0, <1>1 DEF Evaluate, Typed, Untouched
<1>3. /\ at'[t] = IF simplify THEN "simplify" ELSE "claim"
      /\ rest'[t] = elements[c0]
      /\ \A u \in Threads : u # t => at'[u] = at[u] /\ rest'[u] = rest[u]
  BY DEF Evaluate, Typed
<1>4. elements[c0] \in SUBSET Geo
  BY <1>1 DEF Typed, Children
<1>5. Typed'
  <2>1. at' \in [Threads -> {"absent", "claim", "evaluate", "simplify", "left"}]
    BY DEF Evaluate, Typed
  <2>2. rest' \in [Threads -> SUBSET Geo]
    BY <1>4 DEF Evaluate, Typed
  <2>3. evaluated' \in [Children -> Nat]
    BY <1>2
  <2> QED BY <1>0, <2>1, <2>2, <2>3 DEF Typed
<1>6. \A c \in Children : c # c0 =>
        (Untouched(c)' <=> Untouched(c)) /\ (Finished(c)' <=> Finished(c))
  BY <1>0, <1>2 DEF Untouched, Finished, SequentialStash, CanBeDisabled
<1>7. \A u \in Threads, c \in Children : u # t => (WorksOn(u, c)' <=> WorksOn(u, c))
  BY <1>0, <1>3 DEF WorksOn
<1>8. \A c \in Children : WorksOn(t, c)' => c = c0
  BY <1>0 DEF WorksOn
<1>9. \A u \in Threads : u # t => ~ WorksOn(u, c0)
  BY <1>0, <1>1 DEF Divided
<1>10. stashed[c0] = {} /\ stashed' = stashed /\ evaluated'[c0] = 1
  BY <1>0, <1>1, <1>2 DEF Untouched
<1>11. Progress(t)'
  BY <1>0, <1>1, <1>3, <1>10 DEF Progress
<1>12. \A u \in Threads : u # t => Progress(u)'
  <2> SUFFICES ASSUME NEW u \in Threads, u # t PROVE Progress(u)'
    OBVIOUS
  <2>1. Progress(u) /\ (at[u] \in {"evaluate", "simplify"} => child[u] # c0)
    BY <1>0, <1>9 DEF Divided, WorksOn
  <2> QED BY <2>1, <1>0, <1>3, <1>6, <1>2 DEF Progress, CanBeDisabled
<1>13. Finished(c0)' \/ WorksOn(t, c0)'
  <2>1. CASE simplify
    BY <2>1, <1>0, <1>3 DEF WorksOn
  <2>2. CASE ~ simplify
    BY <2>2, <1>0, <1>1, <1>10 DEF Finished, SequentialStash
  <2> QED BY <2>1, <2>2
<1>14. \A c \in Children : c < next' => Finished(c)' \/ \E u \in Threads : WorksOn(u, c)'
  <2> SUFFICES ASSUME NEW c \in Children, c < next, c # c0
               PROVE  Finished(c)' \/ \E u \in Threads : WorksOn(u, c)'
    BY <1>0, <1>13
  <2>1. Finished(c) \/ \E u \in Threads : WorksOn(u, c)
    BY <1>0 DEF Divided
  <2>2. ~ WorksOn(t, c)
    BY DEF WorksOn
  <2> QED BY <2>1, <2>2, <1>6, <1>7
<1>15. \A u, v \in Threads, c \in Children : WorksOn(u, c)' /\ WorksOn(v, c)' => u = v
  BY <1>0, <1>7, <1>8, <1>9 DEF Divided
<1>16. \A c \in Children : c >= next' => Untouched(c)'
  <2> SUFFICES ASSUME NEW c \in Children, c >= next PROVE Untouched(c)'
    BY <1>0
  <2>1. c # c0 /\ Untouched(c)
    BY <1>0, <1>1 DEF Divided, Typed, Children
  <2> QED BY <2>1, <1>6
<1>17. at'[t] # "absent"
  BY <1>3
<1>18. Divided'
  BY <1>0, <1>11, <1>12, <1>14, <1>15, <1>16, <1>17 DEF Divided
<1> QED BY <1>0, <1>5, <1>18 DEF SameAsSequential

\* After an exception nothing runs any more.
LEMMA ThrowInv ==
  ASSUME Inv, NEW t \in Threads, Throw(t)
  PROVE  Inv'
<1>1. main' \in {"raised", "terminated"}
  BY DEF Throw
<1>2. Typed'
  BY <1>1 DEF Throw, Inv, Typed, Children
<1> QED BY <1>1, <1>2 DEF Inv, Divided, Running, SameAsSequential

LEMMA StashInv ==
  ASSUME Inv, NEW t \in Threads, NEW g \in Geo, Stash(t, g)
  PROVE  Inv'
<1> USE DEF Inv
<1> DEFINE c0 == child[t]
<1>0. /\ Running /\ Running' /\ main' # "idle" /\ Children' = Children /\ next' = next
      /\ UNCHANGED <<numThreads, simplify, toggles, main, elements, failing, child,
                     evaluated, at>>
      /\ Divided /\ Typed
  BY DEF Stash, Running, Children, Typed, Disabled
<1>1. /\ c0 \in Children /\ c0 < next /\ simplify /\ c0 \notin failing /\ evaluated[c0] = 1
      /\ rest[t] \subseteq elements[c0] /\ WorksOn(t, c0)
      /\ stashed[c0] = {h \in elements[c0] \ rest[t] : CanBeDisabled(h)}
      /\ g \in rest[t]
  BY <1>0 DEF Stash, Divided, Progress, WorksOn
<1>2. /\ rest'[t] = rest[t] \ {g}
      /\ \A u \in Threads : u # t => rest'[u] = rest[u]
      /\ rest' \in [Threads -> SUBSET Geo]
  BY DEF Stash, Typed
<1>3. /\ stashed' \in [Children -> SUBSET Geo]
      /\ \A c \in Children : c # c0 => stashed'[c] = stashed[c]
      /\ stashed'[c0] = IF CanBeDisabled(g) THEN stashed[c0] \cup {g} ELSE stashed[c0]
  <2>1. stashed \in [Children -> SUBSET Geo]
    BY DEF Typed
  <2>2. CASE CanBeDisabled(g)
    <3>1. stashed' = [stashed EXCEPT ![c0] = @ \cup {g}]
      BY <2>2 DEF Stash
    <3> QED BY <2>1, <2>2, <3>1, <1>1
  <2>3. CASE ~ CanBeDisabled(g)
    <3>1. stashed' = stashed
      BY <2>3 DEF Stash
    <3> QED BY <2>1, <2>3, <3>1
  <2> QED BY <2>2, <2>3
<1>4. \A h : CanBeDisabled(h)' <=> CanBeDisabled(h)
  BY <1>0 DEF CanBeDisabled
<1>5. stashed'[c0] = {h \in elements[c0] \ rest'[t] : CanBeDisabled(h)}
  BY <1>1, <1>2, <1>3
<1>6. Typed'
  BY <1>0, <1>2, <1>3 DEF Typed
<1>7. \A c \in Children : c # c0 =>
        (Untouched(c)' <=> Untouched(c)) /\ (Finished(c)' <=> Finished(c))
  BY <1>0, <1>3, <1>4 DEF Untouched, Finished, SequentialStash
<1>8. \A u \in Threads, c \in Children : WorksOn(u, c)' <=> WorksOn(u, c)
  BY <1>0 DEF WorksOn
<1>9. \A u \in Threads : u # t => ~ WorksOn(u, c0)
  BY <1>0, <1>1 DEF Divided
<1>10. Progress(t)'
  BY <1>0, <1>1, <1>2, <1>4, <1>5 DEF Progress, Stash
<1>11. \A u \in Threads : u # t => Progress(u)'
  <2> SUFFICES ASSUME NEW u \in Threads, u # t PROVE Progress(u)'
    OBVIOUS
  <2>1. Progress(u) /\ (at[u] \in {"evaluate", "simplify"} => child[u] # c0)
    BY <1>0, <1>9 DEF Divided, WorksOn
  <2> QED BY <2>1, <1>0, <1>2, <1>3, <1>4, <1>7 DEF Progress
<1>12. \A c \in Children : c < next' => Finished(c)' \/ \E u \in Threads : WorksOn(u, c)'
  BY <1>0, <1>1, <1>7, <1>8 DEF Divided
<1>13. \A c \in Children : c >= next' => Untouched(c)'
  <2> SUFFICES ASSUME NEW c \in Children, c >= next PROVE Untouched(c)'
    BY <1>0
  <2>1. c # c0 /\ Untouched(c)
    BY <1>0, <1>1 DEF Divided, Typed, Children
  <2> QED BY <2>1, <1>7
<1>14. Divided'
  BY <1>0, <1>8, <1>10, <1>11, <1>12, <1>13 DEF Divided
<1> QED BY <1>0, <1>6, <1>14 DEF SameAsSequential

LEMMA SimplifiedInv ==
  ASSUME Inv, NEW t \in Threads, Simplified(t)
  PROVE  Inv'
<1> USE DEF Inv
<1> DEFINE c0 == child[t]
<1>0. /\ Running /\ Running' /\ main' # "idle" /\ Children' = Children /\ next' = next
      /\ UNCHANGED <<numThreads, simplify, toggles, main, elements, failing, child, rest,
                     evaluated, stashed>>
      /\ Divided /\ Typed
  BY DEF Simplified, Running, Children, Typed
<1>1. /\ at'[t] = "claim"
      /\ \A u \in Threads : u # t => at'[u] = at[u]
      /\ at' \in [Threads -> {"absent", "claim", "evaluate", "simplify", "left"}]
  BY DEF Simplified, Typed
<1>2. c0 \in Children /\ Finished(c0)
  BY <1>0 DEF Simplified, Divided, Progress, Finished, SequentialStash
<1>3. Typed'
  BY <1>0, <1>1 DEF Typed
<1>4. \A c \in Children : (Untouched(c)' <=> Untouched(c)) /\ (Finished(c)' <=> Finished(c))
  BY <1>0 DEF Untouched, Finished, SequentialStash, CanBeDisabled
<1>5. \A u \in Threads, c \in Children : u # t => (WorksOn(u, c)' <=> WorksOn(u, c))
  BY <1>0, <1>1 DEF WorksOn
<1>6. \A c \in Children : ~ WorksOn(t, c)' /\ (WorksOn(t, c) => c = c0)
  BY <1>0, <1>1 DEF WorksOn
<1>7. \A u \in Threads : Progress(u)'
  BY <1>0, <1>1, <1>4 DEF Divided, Progress, CanBeDisabled
<1>8. \A c \in Children : c < next' => Finished(c)' \/ \E u \in Threads : WorksOn(u, c)'
  BY <1>0, <1>2, <1>4, <1>5, <1>6 DEF Divided
<1>9. \A c \in Children : c >= next' => Untouched(c)'
  BY <1>0, <1>4 DEF Divided
<1>10. \A u, v \in Threads, c \in Children : WorksOn(u, c)' /\ WorksOn(v, c)' => u = v
  BY <1>0, <1>5, <1>6 DEF Divided
<1>11. Divided'
  BY <1>0, <1>1, <1>7, <1>8, <1>9, <1>10 DEF Divided
<1> QED BY <1>0, <1>3, <1>11 DEF SameAsSequential

\* Once all have left, all children are finished.
LEMMA ReturnInv ==
  ASSUME Inv, Return
  PROVE  Inv'
<1> USE DEF Inv
<1>0. /\ Running /\ main' = "idle" /\ Children' = Children
      /\ UNCHANGED <<numThreads, simplify, toggles, elements, failing, next, at, child, rest,
                     evaluated, stashed>>
      /\ Divided /\ Typed
  BY DEF Return, Running, Children
<1>1. Typed'
  BY <1>0 DEF Typed
<1>2. ASSUME numThreads # 0, NEW c \in Children
      PROVE  Finished(c)
  <2>1. PICK t \in Threads : at[t] # "absent"
    BY <1>0, <1>2 DEF Divided
  <2>2. at[t] = "left" /\ c < next
    BY <1>0, <2>1 DEF Return, Joined, Divided, Progress
  <2>3. \A u \in Threads : ~ WorksOn(u, c)
    BY DEF Return, Joined, WorksOn
  <2> QED BY <1>0, <2>2, <2>3 DEF Divided
<1>3. SameAsSequential'
  BY <1>0, <1>2 DEF SameAsSequential, Finished, SequentialStash, CanBeDisabled
<1> QED BY <1>0, <1>1, <1>3 DEF Divided, Running

\* Together: no step, of whichever thread, disturbs the division of work.
LEMMA StepInv ==
  ASSUME Inv, numThreads <= MaxThreads, [Next]_vars
  PROVE  Inv' /\ (numThreads <= MaxThreads)'
<1>1. numThreads' = numThreads
  BY DEF Next, Branch, Step, Claim, Evaluate, Throw, Stash, Simplified, Return, vars
<1>2. CASE UNCHANGED vars
  <2>1. Typed'
    BY <1>2 DEF vars, Inv, Typed, Children
  <2>2. Divided'
    BY <1>2 DEF vars, Inv, Divided, Children, Running, Progress, WorksOn, Untouched,
                Finished, SequentialStash, CanBeDisabled
  <2>3. SameAsSequential'
    BY <1>2 DEF vars, Inv, SameAsSequential, Children, SequentialStash, CanBeDisabled
  <2> QED BY <1>1, <2>1, <2>2, <2>3 DEF Inv
<1>3. CASE \E n \in 0 .. MaxChildren, R \in Restorable : Branch(n, R)
  BY <1>1, <1>3, BranchInv
<1>4. ASSUME NEW t \in Threads, Step(t)
      PROVE  Inv'
  BY <1>4, ClaimInv, EvaluateInv, ThrowInv, StashInv, SimplifiedInv DEF Step
<1>5. CASE Return
  BY <1>1, <1>5, ReturnInv
<1> QED BY <1>1, <1>2, <1>3, <1>4, <1>5 DEF Next

----------------------------------------------------------------------------
\* Whatever the number of threads and children, and however the threads are
\* scheduled, branch goes on with children that were evaluated and simplified
\* exactly as the loop without threads does it (branching_strategy.cpp
\* distributed_child_evaluation).
THEOREM ThreadsMatchLoop == Spec => []SameAsSequential
<1>1. Init => Inv /\ numThreads <= MaxThreads
  BY InitInv
<1>2. (Inv /\ numThreads <= MaxThreads) /\ [Next]_vars
        => (Inv /\ numThreads <= MaxThreads)'
  BY StepInv
<1>3. Inv => SameAsSequential
  BY DEF Inv
<1> QED BY <1>1, <1>2, <1>3, PTL DEF Spec
=============================================================================
