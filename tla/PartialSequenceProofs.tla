----------------------- MODULE PartialSequenceProofs -----------------------
(***************************************************************************)
(* Theorems about PartialSequence, for every number of polygons, every     *)
(* decomposition, every configuration and every size from which sequences  *)
(* are simplified: the descent through the search tree loses no tour and   *)
(* no polygon, comes to an end and, with the default limits on toggles,    *)
(* never returns to a tour that was excluded above.                        *)
(***************************************************************************)
EXTENDS PartialSequence, Recursion

----------------------------------------------------------------------------
(* One element is added to the stash *)

Elem == [geo : Geo, form : Form, toggles : 0 .. MaxTeToggle]
Entry == [element : Elem, earlier : SUBSET Geo, later : SUBSET Geo]

\* What a stashed element knows holds in the relation R.
Respects(ste, R) ==
  /\ \A x \in ste.earlier : <<x, ste.element.geo>> \in R
  /\ \A y \in ste.later : <<ste.element.geo, y>> \in R

AllRespect(st, R) == \A k \in DOMAIN st : Respects(st[k], R)

\* R is transitive through m.
ComposesAt(R, m) == \A x, y \in Geo : <<x, m>> \in R /\ <<m, y>> \in R => <<x, y>> \in R

\* An exchange leaves the elements alone, forgets nothing and tells the element
\* being stashed which of the two comes first.
LEMMA ExchangedGrows ==
  ASSUME NEW old \in Entry, NEW new \in Entry
  PROVE  LET pair == Exchanged(old, new)
         IN  /\ pair[1] \in Entry /\ pair[2] \in Entry
             /\ pair[1].element = old.element /\ pair[2].element = new.element
             /\ old.earlier \subseteq pair[1].earlier /\ old.later \subseteq pair[1].later
             /\ new.earlier \subseteq pair[2].earlier /\ new.later \subseteq pair[2].later
             /\ new.element.geo \in old.earlier => old.element.geo \in pair[2].later
             /\ new.element.geo \in old.later /\ new.element.geo \notin old.earlier =>
                  old.element.geo \in pair[2].earlier
<1>1. old.element.geo \in Geo /\ new.element.geo \in Geo
  BY DEF Entry, Elem
<1>2. CASE new.element.geo \in old.earlier
  BY <1>1, <1>2 DEF Exchanged, Entry
<1>3. CASE new.element.geo \notin old.earlier /\ new.element.geo \in old.later
  BY <1>1, <1>3 DEF Exchanged, Entry
<1>4. CASE new.element.geo \notin old.earlier /\ new.element.geo \notin old.later
  BY <1>1, <1>4 DEF Exchanged, Entry
<1> QED BY <1>2, <1>3, <1>4

\* What the two learn from each other follows from what they knew.
LEMMA ExchangedRespects ==
  ASSUME NEW old \in Entry, NEW new \in Entry, NEW R,
         Respects(old, R), Respects(new, R),
         ComposesAt(R, old.element.geo), ComposesAt(R, new.element.geo)
  PROVE  Respects(Exchanged(old, new)[1], R) /\ Respects(Exchanged(old, new)[2], R)
<1> DEFINE g == old.element.geo
           n == new.element.geo
           o1 == Exchanged(old, new)[1]
           n1 == Exchanged(old, new)[2]
<1>1. g \in Geo /\ n \in Geo /\ old.earlier \subseteq Geo /\ old.later \subseteq Geo
      /\ new.earlier \subseteq Geo /\ new.later \subseteq Geo
  BY DEF Entry, Elem
<1>2. CASE n \in old.earlier
  <2>1. <<n, g>> \in R
    BY <1>2 DEF Respects
  <2>2. o1 = [old EXCEPT !.earlier = @ \cup new.earlier]
        /\ n1 = [new EXCEPT !.later = @ \cup {g} \cup old.later]
    BY <1>2 DEF Exchanged
  <2>3. \A x \in new.earlier : <<x, g>> \in R
    BY <1>1, <2>1 DEF Respects, ComposesAt
  <2>4. \A y \in old.later : <<n, y>> \in R
    BY <1>1, <2>1 DEF Respects, ComposesAt
  <2>5. o1.element = old.element /\ o1.earlier = old.earlier \cup new.earlier
        /\ o1.later = old.later
    BY <2>2 DEF Entry
  <2>6. n1.element = new.element /\ n1.earlier = new.earlier
        /\ n1.later = new.later \cup {g} \cup old.later
    BY <2>2 DEF Entry
  <2> QED BY <2>1, <2>3, <2>4, <2>5, <2>6 DEF Respects
<1>3. CASE n \notin old.earlier /\ n \in old.later
  <2>1. <<g, n>> \in R
    BY <1>3 DEF Respects
  <2>2. o1 = [old EXCEPT !.later = @ \cup new.later]
        /\ n1 = [new EXCEPT !.earlier = @ \cup {g} \cup old.earlier]
    BY <1>3 DEF Exchanged
  <2>3. \A y \in new.later : <<g, y>> \in R
    BY <1>1, <2>1 DEF Respects, ComposesAt
  <2>4. \A x \in old.earlier : <<x, n>> \in R
    BY <1>1, <2>1 DEF Respects, ComposesAt
  <2>5. o1.element = old.element /\ o1.earlier = old.earlier
        /\ o1.later = old.later \cup new.later
    BY <2>2 DEF Entry
  <2>6. n1.element = new.element /\ n1.later = new.later
        /\ n1.earlier = new.earlier \cup {g} \cup old.earlier
    BY <2>2 DEF Entry
  <2> QED BY <2>1, <2>3, <2>4, <2>5, <2>6 DEF Respects
<1>4. CASE n \notin old.earlier /\ n \notin old.later
  BY <1>4 DEF Exchanged
<1> QED BY <1>2, <1>3, <1>4

LEMMA FreshType ==
  ASSUME NEW s \in Seq(Elem), NEW i \in 1 .. Len(s)
  PROVE  Fresh(s, i) \in Entry /\ Fresh(s, i).element = s[i]
<1>1. \A j \in 1 .. Len(s) : s[j] \in Elem
  OBVIOUS
<1>2. \A j \in 1 .. Len(s) : s[j].geo \in Geo
  BY <1>1 DEF Elem
<1> QED BY <1>1, <1>2 DEF Fresh, Entry

LEMMA ToldDef ==
  ASSUME NEW st \in Seq(Entry), NEW fresh \in Entry
  PROVE  /\ Told(st, fresh) \in [0 .. Len(st) -> Entry]
         /\ Told(st, fresh)[0] = fresh
         /\ \A k \in 1 .. Len(st) :
              Told(st, fresh)[k] = Exchanged(st[k], Told(st, fresh)[k - 1])[2]
<1> DEFINE n == Len(st)
           F == [k \in 1 .. n |-> [new \in Entry |-> Exchanged(st[k], new)[2]]]
           Rule(g) == g = [k \in 0 .. n |->
                             IF k = 0 THEN fresh ELSE Exchanged(st[k], g[k - 1])[2]]
<1>1. n \in Nat
  OBVIOUS
<1>2. F \in [1 .. n -> [Entry -> Entry]]
  <2>1. ASSUME NEW k \in 1 .. n, NEW new \in Entry PROVE Exchanged(st[k], new)[2] \in Entry
    <3>1. st[k] \in Entry
      OBVIOUS
    <3> QED BY <3>1, ExchangedGrows
  <2> QED BY <2>1
<1>3. PICK g \in [0 .. n -> Entry] : Iterates(g, n, fresh, F)
  <2> HIDE DEF n, F, Rule
  <2> QED BY <1>1, <1>2, RecursionExists
<1>4. \A k \in 1 .. n : g[k] = Exchanged(st[k], g[k - 1])[2]
  <2> TAKE k \in 1 .. n
  <2>1. g[k - 1] \in Entry
    OBVIOUS
  <2>2. F[k][g[k - 1]] = Exchanged(st[k], g[k - 1])[2]
    BY <2>1
  <2> HIDE DEF F
  <2> QED BY <1>3, <2>2 DEF Iterates
<1>5. Rule(g)
  <2>1. \A k \in 0 .. n : g[k] = IF k = 0 THEN fresh ELSE Exchanged(st[k], g[k - 1])[2]
    BY <1>1, <1>3, <1>4 DEF Iterates
  <2> QED BY <2>1
<1>6. Rule(Told(st, fresh))
  BY <1>5 DEF Told
<1> DEFINE told == Told(st, fresh)
<1>7. told[0] = fresh /\ \A k \in 1 .. n : told[k] = Exchanged(st[k], told[k - 1])[2]
  <2>1. \A k \in 0 .. n : told[k] = IF k = 0 THEN fresh ELSE Exchanged(st[k], told[k - 1])[2]
    <3>1. told = [k \in 0 .. n |-> IF k = 0 THEN fresh ELSE Exchanged(st[k], told[k - 1])[2]]
      BY <1>6
    <3> HIDE DEF told, n, F
    <3> QED BY <3>1
  <2> HIDE DEF told
  <2> QED BY <1>1, <2>1
<1>8. told \in [0 .. n -> Entry]
  <2> DEFINE P == {k \in 0 .. n : told[k] \in Entry}
  <2>1. 0 \in P
    BY <1>1, <1>7
  <2>2. ASSUME NEW k \in 1 .. n, k - 1 \in P PROVE k \in P
    <3>1. st[k] \in Entry /\ told[k - 1] \in Entry
      BY <2>2
    <3>2. told[k] \in Entry
      BY <3>1, <1>7, ExchangedGrows
    <3> QED BY <3>2
  <2> HIDE DEF P
  <2>3. 0 .. n \subseteq P
    BY <1>1, <2>1, <2>2, IntervalInduction
  <2>4. \A k \in 0 .. n : told[k] \in Entry
    BY <2>3 DEF P
  <2>5. DOMAIN told = 0 .. n /\ told = [k \in 0 .. n |-> told[k]]
    BY <1>6
  <2> HIDE DEF told
  <2> QED BY <2>4, <2>5
<1> QED BY <1>7, <1>8

\* Through the loop, what the element being stashed knows only grows, and it
\* hears of every element it has met which of the two comes first.
LEMMA ToldGrows ==
  ASSUME NEW st \in Seq(Entry), NEW fresh \in Entry, NEW k \in 0 .. Len(st)
  PROVE  LET new == Told(st, fresh)[k]
             n == fresh.element.geo
         IN  /\ new.element = fresh.element
             /\ fresh.earlier \subseteq new.earlier /\ fresh.later \subseteq new.later
             /\ \A j \in 1 .. k :
                  /\ n \in st[j].earlier => st[j].element.geo \in new.later
                  /\ n \in st[j].later /\ n \notin st[j].earlier =>
                       st[j].element.geo \in new.earlier
<1> DEFINE told == Told(st, fresh)
           n == fresh.element.geo
           Knows(i) ==
             /\ told[i].element = fresh.element
             /\ fresh.earlier \subseteq told[i].earlier /\ fresh.later \subseteq told[i].later
             /\ \A j \in 1 .. i :
                  /\ n \in st[j].earlier => st[j].element.geo \in told[i].later
                  /\ n \in st[j].later /\ n \notin st[j].earlier =>
                       st[j].element.geo \in told[i].earlier
           P == {i \in 0 .. Len(st) : Knows(i)}
<1>1. told \in [0 .. Len(st) -> Entry] /\ told[0] = fresh
      /\ \A i \in 1 .. Len(st) : told[i] = Exchanged(st[i], told[i - 1])[2]
  BY ToldDef
<1>2. Len(st) \in Nat
  OBVIOUS
<1> HIDE DEF told
<1>3. 0 \in P
  BY <1>1, <1>2
<1>4. ASSUME NEW i \in 1 .. Len(st), i - 1 \in P PROVE i \in P
  <2>1. Knows(i - 1) /\ i - 1 \in 0 .. Len(st)
    BY <1>4
  <2>2. told[i - 1] \in Entry /\ st[i] \in Entry
    BY <1>1, <2>1
  <2>3. told[i] = Exchanged(st[i], told[i - 1])[2]
    BY <1>1
  <2>4. /\ told[i].element = told[i - 1].element
        /\ told[i - 1].earlier \subseteq told[i].earlier
        /\ told[i - 1].later \subseteq told[i].later
        /\ n \in st[i].earlier => st[i].element.geo \in told[i].later
        /\ n \in st[i].later /\ n \notin st[i].earlier =>
             st[i].element.geo \in told[i].earlier
    <3>1. told[i - 1].element.geo = n
      BY <2>1
    <3> HIDE DEF Knows, n
    <3> QED BY <3>1, <2>2, <2>3, ExchangedGrows, SMTT(30)
  <2>5. \A j \in 1 .. i : j \in 1 .. i - 1 \/ j = i
    OBVIOUS
  <2>6. Knows(i)
    BY <2>1, <2>4, <2>5
  <2>7. i \in 0 .. Len(st)
    OBVIOUS
  <2> HIDE DEF Knows
  <2> QED BY <2>6, <2>7
<1>5. 0 .. Len(st) \subseteq P
  <2> HIDE DEF P
  <2> QED BY <1>2, <1>3, <1>4, IntervalInduction
<1>6. Knows(k)
  BY <1>5
<1> QED BY <1>6 DEF told

\* Everything it hears follows from what was known.
LEMMA ToldRespects ==
  ASSUME NEW st \in Seq(Entry), NEW fresh \in Entry, NEW R,
         AllRespect(st, R), Respects(fresh, R), ComposesAt(R, fresh.element.geo),
         \A j \in 1 .. Len(st) : ComposesAt(R, st[j].element.geo),
         NEW k \in 0 .. Len(st)
  PROVE  Respects(Told(st, fresh)[k], R)
<1> DEFINE told == Told(st, fresh)
           P == {i \in 0 .. Len(st) : Respects(told[i], R)}
<1>1. told \in [0 .. Len(st) -> Entry] /\ told[0] = fresh
      /\ \A i \in 1 .. Len(st) : told[i] = Exchanged(st[i], told[i - 1])[2]
  BY ToldDef
<1>2. Len(st) \in Nat
  OBVIOUS
<1>3. \A i \in 0 .. Len(st) : told[i].element = fresh.element
  BY ToldGrows
<1> HIDE DEF told
<1>4. 0 \in P
  BY <1>1, <1>2
<1>5. ASSUME NEW i \in 1 .. Len(st), i - 1 \in P PROVE i \in P
  <2>1. Respects(told[i - 1], R) /\ i - 1 \in 0 .. Len(st)
    BY <1>5
  <2>2. told[i - 1] \in Entry /\ st[i] \in Entry /\ Respects(st[i], R)
    BY <1>1, <2>1 DEF AllRespect
  <2>3. ComposesAt(R, told[i - 1].element.geo)
    BY <1>3, <2>1
  <2>4. Respects(told[i], R)
    BY <1>1, <2>1, <2>2, <2>3, ExchangedRespects
  <2> QED BY <2>4
<1>6. 0 .. Len(st) \subseteq P
  <2> HIDE DEF P
  <2> QED BY <1>2, <1>4, <1>5, IntervalInduction
<1> QED BY <1>6 DEF told

\* What add_to_stash does to the stash: it keeps the entries in their places,
\* forgets nothing that they know, and appends one for the element, which knows
\* the order of the sequence and what the loop told it.
LEMMA AddedGrows ==
  ASSUME NEW st \in Seq(Entry), NEW s \in Seq(Elem), NEW i \in 1 .. Len(s)
  PROVE  LET st2 == AddToStash(st, s, i)
             new == st2[Len(st) + 1]
             n == s[i].geo
         IN  /\ st2 \in Seq(Entry) /\ Len(st2) = Len(st) + 1
             /\ \A k \in 1 .. Len(st) :
                  /\ st2[k].element = st[k].element
                  /\ st[k].earlier \subseteq st2[k].earlier
                  /\ st[k].later \subseteq st2[k].later
                  /\ n \in st[k].earlier => st[k].element.geo \in new.later
                  /\ n \in st[k].later /\ n \notin st[k].earlier =>
                       st[k].element.geo \in new.earlier
             /\ new.element = s[i]
             /\ \A j \in 1 .. i - 1 : s[j].geo \in new.earlier
             /\ \A j \in i + 1 .. Len(s) : s[j].geo \in new.later
<1> DEFINE fresh == Fresh(s, i)
           told == Told(st, fresh)
           olds == [k \in 1 .. Len(st) |-> Exchanged(st[k], told[k - 1])[1]]
           st2 == AddToStash(st, s, i)
<1>1. fresh \in Entry /\ fresh.element = s[i]
  BY FreshType
<1>2. (\A j \in 1 .. i - 1 : s[j].geo \in fresh.earlier)
      /\ \A j \in i + 1 .. Len(s) : s[j].geo \in fresh.later
  BY DEF Fresh
<1> HIDE DEF fresh
<1>3. told \in [0 .. Len(st) -> Entry]
  BY <1>1, ToldDef
<1>4. st2 = Append(olds, told[Len(st)])
  BY DEF AddToStash, fresh
<1>5. Len(st) \in Nat /\ Len(st) \in 0 .. Len(st)
  OBVIOUS
<1>6. ASSUME NEW k \in 1 .. Len(st)
      PROVE  /\ olds[k] \in Entry /\ olds[k].element = st[k].element
             /\ st[k].earlier \subseteq olds[k].earlier /\ st[k].later \subseteq olds[k].later
  <2>1. st[k] \in Entry /\ told[k - 1] \in Entry
    BY <1>3
  <2>2. olds[k] = Exchanged(st[k], told[k - 1])[1]
    OBVIOUS
  <2> HIDE DEF olds, told
  <2> QED BY <2>1, <2>2, ExchangedGrows
<1>7. olds \in Seq(Entry) /\ Len(olds) = Len(st)
  <2>1. olds \in [1 .. Len(st) -> Entry]
    BY <1>6
  <2> HIDE DEF olds
  <2> QED BY <1>5, <2>1
<1>8. told[Len(st)] \in Entry
  BY <1>3, <1>5
<1>9. /\ st2 \in Seq(Entry) /\ Len(st2) = Len(st) + 1
      /\ st2[Len(st) + 1] = told[Len(st)] /\ \A k \in 1 .. Len(st) : st2[k] = olds[k]
  <2> HIDE DEF st2, olds, told
  <2> QED BY <1>4, <1>5, <1>7, <1>8
<1>10. /\ told[Len(st)].element = fresh.element
       /\ fresh.earlier \subseteq told[Len(st)].earlier
       /\ fresh.later \subseteq told[Len(st)].later
       /\ \A k \in 1 .. Len(st) :
            /\ s[i].geo \in st[k].earlier => st[k].element.geo \in told[Len(st)].later
            /\ s[i].geo \in st[k].later /\ s[i].geo \notin st[k].earlier =>
                 st[k].element.geo \in told[Len(st)].earlier
  BY <1>1, <1>5, ToldGrows
<1> HIDE DEF st2, olds, told
<1>11. \A k \in 1 .. Len(st) :
         /\ st2[k].element = st[k].element
         /\ st[k].earlier \subseteq st2[k].earlier
         /\ st[k].later \subseteq st2[k].later
  BY <1>6, <1>9
<1>12. /\ st2[Len(st) + 1].element = s[i]
       /\ \A j \in 1 .. i - 1 : s[j].geo \in st2[Len(st) + 1].earlier
       /\ \A j \in i + 1 .. Len(s) : s[j].geo \in st2[Len(st) + 1].later
  BY <1>1, <1>2, <1>9, <1>10
<1> QED BY <1>9, <1>10, <1>11, <1>12 DEF st2

LEMMA AddedRespects ==
  ASSUME NEW st \in Seq(Entry), NEW s \in Seq(Elem), NEW i \in 1 .. Len(s), NEW R,
         AllRespect(st, R), Respects(Fresh(s, i), R), ComposesAt(R, s[i].geo),
         \A j \in 1 .. Len(st) : ComposesAt(R, st[j].element.geo)
  PROVE  AllRespect(AddToStash(st, s, i), R)
<1> DEFINE fresh == Fresh(s, i)
           told == Told(st, fresh)
           olds == [k \in 1 .. Len(st) |-> Exchanged(st[k], told[k - 1])[1]]
           st2 == AddToStash(st, s, i)
<1>1. fresh \in Entry /\ fresh.element = s[i]
  BY FreshType
<1>2. told \in [0 .. Len(st) -> Entry]
  BY <1>1, ToldDef
<1>3. \A k \in 0 .. Len(st) : Respects(told[k], R) /\ told[k].element = fresh.element
  BY <1>1, ToldRespects, ToldGrows
<1>4. st2 = Append(olds, told[Len(st)])
  BY DEF AddToStash
<1>5. Len(st) \in Nat /\ Len(st) \in 0 .. Len(st)
  OBVIOUS
<1> HIDE DEF fresh, told
<1>6. ASSUME NEW k \in 1 .. Len(st) PROVE Respects(olds[k], R)
  <2>1. st[k] \in Entry /\ told[k - 1] \in Entry /\ k - 1 \in 0 .. Len(st)
    BY <1>2
  <2>2. Respects(st[k], R)
    BY DEF AllRespect
  <2>3. ComposesAt(R, told[k - 1].element.geo) /\ Respects(told[k - 1], R)
    BY <1>1, <1>3, <2>1
  <2> QED BY <2>1, <2>2, <2>3, ExchangedRespects
<1>7. DOMAIN olds = 1 .. Len(st) /\ Len(olds) = Len(st)
  BY <1>5
<1>8. Len(st2) = Len(st) + 1 /\ st2 \in Seq(Entry)
  BY AddedGrows
<1>9. st2[Len(st) + 1] = told[Len(st)] /\ \A k \in 1 .. Len(st) : st2[k] = olds[k]
  <2> HIDE DEF st2, olds
  <2> QED BY <1>4, <1>5, <1>7
<1>10. \A k \in 1 .. Len(st) + 1 : k = Len(st) + 1 \/ k \in 1 .. Len(st)
  BY <1>5
<1>11. DOMAIN st2 = 1 .. Len(st) + 1
  BY <1>8
<1> HIDE DEF st2, olds
<1>12. \A k \in 1 .. Len(st) + 1 : Respects(st2[k], R)
  BY <1>3, <1>5, <1>6, <1>9, <1>10
<1> QED BY <1>11, <1>12 DEF AllRespect, st2

----------------------------------------------------------------------------
(* Elements are erased *)

LEMMA KeptDef ==
  ASSUME NEW T, NEW s \in Seq(T), NEW rs
  PROVE  /\ Kept(s, rs) \in [0 .. Len(s) -> Seq(T)]
         /\ Kept(s, rs)[0] = <<>>
         /\ \A i \in 1 .. Len(s) :
              Kept(s, rs)[i] = IF i \in rs THEN Kept(s, rs)[i - 1]
                               ELSE Append(Kept(s, rs)[i - 1], s[i])
<1> DEFINE n == Len(s)
           F == [i \in 1 .. n |-> [t \in Seq(T) |-> IF i \in rs THEN t ELSE Append(t, s[i])]]
           kept == Kept(s, rs)
<1>1. n \in Nat /\ <<>> \in Seq(T)
  OBVIOUS
<1>2. F \in [1 .. n -> [Seq(T) -> Seq(T)]]
  <2>1. ASSUME NEW i \in 1 .. n, NEW t \in Seq(T)
        PROVE  (IF i \in rs THEN t ELSE Append(t, s[i])) \in Seq(T)
    OBVIOUS
  <2> QED BY <2>1
<1>3. PICK g \in [0 .. n -> Seq(T)] : Iterates(g, n, <<>>, F)
  <2> HIDE DEF n, F
  <2> QED BY <1>1, <1>2, RecursionExists
<1>4. \A i \in 1 .. n : g[i] = IF i \in rs THEN g[i - 1] ELSE Append(g[i - 1], s[i])
  <2> TAKE i \in 1 .. n
  <2>1. g[i - 1] \in Seq(T)
    OBVIOUS
  <2>2. F[i][g[i - 1]] = IF i \in rs THEN g[i - 1] ELSE Append(g[i - 1], s[i])
    BY <2>1
  <2> HIDE DEF F
  <2> QED BY <1>3, <2>2 DEF Iterates
<1>5. g = [i \in 0 .. n |->
             IF i = 0 THEN <<>>
             ELSE IF i \in rs THEN g[i - 1]
             ELSE Append(g[i - 1], s[i])]
  <2>1. \A i \in 0 .. n : g[i] = IF i = 0 THEN <<>>
                                 ELSE IF i \in rs THEN g[i - 1]
                                 ELSE Append(g[i - 1], s[i])
    <3>1. g[0] = <<>>
      BY <1>3 DEF Iterates
    <3>2. \A i \in 0 .. n : i = 0 \/ (i \in 1 .. n /\ i # 0)
      BY <1>1
    <3> HIDE DEF F, n
    <3> QED BY <1>4, <3>1, <3>2, Zenon
  <2> QED BY <2>1
<1>6. kept = [i \in 0 .. n |->
                IF i = 0 THEN <<>>
                ELSE IF i \in rs THEN kept[i - 1]
                ELSE Append(kept[i - 1], s[i])]
  BY <1>5 DEF Kept
<1>7. \A i \in 0 .. n : kept[i] = IF i = 0 THEN <<>>
                                  ELSE IF i \in rs THEN kept[i - 1]
                                  ELSE Append(kept[i - 1], s[i])
  <2> HIDE DEF kept, n, F
  <2> QED BY <1>6
<1>8. DOMAIN kept = 0 .. n /\ kept = [i \in 0 .. n |-> kept[i]]
  <2> HIDE DEF F
  <2> QED BY <1>6
<1> HIDE DEF F, kept
<1>9. \A i \in 1 .. n : kept[i] = IF i \in rs THEN kept[i - 1] ELSE Append(kept[i - 1], s[i])
  BY <1>1, <1>7
<1>10. kept[0] = <<>>
  BY <1>1, <1>7
<1> DEFINE P == {i \in 0 .. n : kept[i] \in Seq(T)}
<1>11. 0 \in P
  <2>1. 0 \in 0 .. n
    BY <1>1
  <2> HIDE DEF n
  <2> QED BY <1>1, <1>10, <2>1, Zenon
<1>12. ASSUME NEW i \in 1 .. n, i - 1 \in P PROVE i \in P
  <2>1. kept[i - 1] \in Seq(T) /\ s[i] \in T /\ i \in 0 .. n
    BY <1>12
  <2>2. Append(kept[i - 1], s[i]) \in Seq(T)
    BY <2>1
  <2>3. kept[i] = kept[i - 1] \/ kept[i] = Append(kept[i - 1], s[i])
    <3> HIDE DEF n
    <3> QED BY <1>9, Zenon
  <2> QED BY <2>1, <2>2, <2>3, Zenon
<1>13. 0 .. n \subseteq P
  <2> HIDE DEF P
  <2> QED BY <1>1, <1>11, <1>12, IntervalInduction
<1>14. kept \in [0 .. n -> Seq(T)]
  BY <1>8, <1>13
<1> QED BY <1>9, <1>10, <1>14 DEF kept

\* m leads from the places in t to the first i places of s that are not in rs,
\* in ascending order.
Selects(m, t, s, rs, i) ==
  /\ m \in [1 .. Len(t) -> (1 .. i) \ rs]
  /\ \A k, l \in 1 .. Len(t) : k < l => m[k] < m[l]
  /\ \A j \in (1 .. i) \ rs : \E k \in 1 .. Len(t) : m[k] = j
  /\ \A k \in 1 .. Len(t) : t[k] = s[m[k]]

\* What is left of a sequence is, in its order, what was not erased.
LEMMA WithoutSelects ==
  ASSUME NEW T, NEW s \in Seq(T), NEW rs
  PROVE  /\ Without(s, rs) \in Seq(T)
         /\ \E m : Selects(m, Without(s, rs), s, rs, Len(s))
<1> DEFINE n == Len(s)
           kept == Kept(s, rs)
           P == {i \in 0 .. n : \E m : Selects(m, kept[i], s, rs, i)}
<1>1. n \in Nat /\ n \in 0 .. n
  OBVIOUS
<1>2. /\ kept \in [0 .. n -> Seq(T)] /\ kept[0] = <<>>
      /\ \A i \in 1 .. n : kept[i] = IF i \in rs THEN kept[i - 1] ELSE Append(kept[i - 1], s[i])
  BY KeptDef
<1> HIDE DEF kept
<1>3. 0 \in P
  <2>1. Len(kept[0]) = 0 /\ 1 .. 0 = {}
    BY <1>2
  <2>2. Selects(<<>>, kept[0], s, rs, 0)
    BY <2>1 DEF Selects
  <2> QED BY <1>1, <2>2
<1>4. ASSUME NEW i \in 1 .. n, i - 1 \in P PROVE i \in P
  <2>1. PICK m : Selects(m, kept[i - 1], s, rs, i - 1)
    BY <1>4
  <2>2. i - 1 \in 0 .. n /\ kept[i - 1] \in Seq(T) /\ s[i] \in T /\ i \in 0 .. n
    BY <1>2, SMTT(30)
  <2>3. CASE i \in rs
    <3>1. kept[i] = kept[i - 1] /\ (1 .. i) \ rs = (1 .. i - 1) \ rs
      BY <1>2, <2>3
    <3>2. Selects(m, kept[i], s, rs, i)
      BY <2>1, <3>1 DEF Selects
    <3> QED BY <2>2, <3>2
  <2>4. CASE i \notin rs
    <3> DEFINE l == Len(kept[i - 1])
               m2 == [k \in 1 .. l + 1 |-> IF k = l + 1 THEN i ELSE m[k]]
               t == kept[i - 1]
               t2 == kept[i]
    <3>1. t2 = Append(t, s[i])
      BY <1>2, <2>4
    <3>2. l \in Nat /\ Len(t2) = l + 1 /\ t2[l + 1] = s[i] /\ \A k \in 1 .. l : t2[k] = t[k]
      BY <2>2, <3>1
    <3>3. /\ m \in [1 .. l -> (1 .. i - 1) \ rs]
          /\ \A k, j \in 1 .. l : k < j => m[k] < m[j]
          /\ \A j \in (1 .. i - 1) \ rs : \E k \in 1 .. l : m[k] = j
          /\ \A k \in 1 .. l : t[k] = s[m[k]]
      BY <2>1 DEF Selects
    <3>4. m2[l + 1] = i /\ \A k \in 1 .. l : m2[k] = m[k]
      BY <3>2
    <3>5. \A k \in 1 .. l + 1 : k = l + 1 \/ k \in 1 .. l
      BY <3>2
    <3>6. DOMAIN m2 = 1 .. l + 1 /\ m2 = [k \in 1 .. l + 1 |-> m2[k]]
      OBVIOUS
    <3> HIDE DEF m2, t, t2, l
    <3>7. \A k \in 1 .. l + 1 : m2[k] \in (1 .. i) \ rs
      BY <2>4, <3>3, <3>4, <3>5
    <3>8. m2 \in [1 .. l + 1 -> (1 .. i) \ rs]
      BY <3>6, <3>7
    <3>9. \A k, j \in 1 .. l + 1 : k < j => m2[k] < m2[j]
      <4> SUFFICES ASSUME NEW k \in 1 .. l + 1, NEW j \in 1 .. l + 1, k < j
                   PROVE  m2[k] < m2[j]
        OBVIOUS
      <4>1. k \in 1 .. l
        BY <3>2
      <4>2. CASE j = l + 1
        BY <3>3, <3>4, <4>1, <4>2
      <4>3. CASE j \in 1 .. l
        BY <3>3, <3>4, <4>1, <4>3
      <4> QED BY <3>5, <4>2, <4>3
    <3>10. \A j \in (1 .. i) \ rs : \E k \in 1 .. l + 1 : m2[k] = j
      <4> TAKE j \in (1 .. i) \ rs
      <4>1. CASE j = i
        BY <3>2, <3>4, <4>1
      <4>2. CASE j # i
        <5>1. j \in (1 .. i - 1) \ rs
          BY <4>2
        <5>2. PICK k \in 1 .. l : m[k] = j
          BY <3>3, <5>1
        <5>3. k \in 1 .. l + 1
          BY <3>2
        <5> QED BY <3>4, <5>2, <5>3
      <4> QED BY <4>1, <4>2
    <3>11. \A k \in 1 .. l + 1 : t2[k] = s[m2[k]]
      BY <3>2, <3>3, <3>4, <3>5
    <3>12. Selects(m2, t2, s, rs, i)
      BY <3>2, <3>8, <3>9, <3>10, <3>11 DEF Selects
    <3> QED BY <2>2, <3>12 DEF t2
  <2> QED BY <2>3, <2>4
<1>5. 0 .. n \subseteq P
  <2> HIDE DEF P, n
  <2> QED BY <1>1, <1>3, <1>4, IntervalInduction
<1>6. \E m : Selects(m, kept[n], s, rs, n)
  BY <1>1, <1>5
<1> QED BY <1>1, <1>2, <1>6 DEF Without, kept

----------------------------------------------------------------------------
(* simplify adds elements to the stash, one after the other *)

LEMMA StashedDef ==
  ASSUME NEW st \in Seq(Entry), NEW s \in Seq(Elem), NEW rs
  PROVE  /\ Stashed(st, s, rs) \in [0 .. Len(s) -> Seq(Entry)]
         /\ Stashed(st, s, rs)[0] = st
         /\ \A i \in 1 .. Len(s) :
              Stashed(st, s, rs)[i] = IF i \in rs THEN AddToStash(Stashed(st, s, rs)[i - 1], s, i)
                                      ELSE Stashed(st, s, rs)[i - 1]
<1> DEFINE n == Len(s)
           F == [i \in 1 .. n |->
                   [t \in Seq(Entry) |-> IF i \in rs THEN AddToStash(t, s, i) ELSE t]]
           stashed == Stashed(st, s, rs)
<1>1. n \in Nat
  OBVIOUS
<1>a. \A i \in 0 .. n : i = 0 \/ (i \in 1 .. n /\ i # 0)
  <2> HIDE DEF n, F
  <2> QED BY <1>1
<1>2. F \in [1 .. n -> [Seq(Entry) -> Seq(Entry)]]
  <2>1. ASSUME NEW i \in 1 .. n, NEW t \in Seq(Entry)
        PROVE  (IF i \in rs THEN AddToStash(t, s, i) ELSE t) \in Seq(Entry)
    <3>1. AddToStash(t, s, i) \in Seq(Entry)
      BY AddedGrows
    <3> QED BY <3>1
  <2> QED BY <2>1
<1>3. PICK g \in [0 .. n -> Seq(Entry)] : Iterates(g, n, st, F)
  <2> HIDE DEF n, F
  <2> QED BY <1>1, <1>2, RecursionExists
<1>4. \A i \in 1 .. n : g[i] = IF i \in rs THEN AddToStash(g[i - 1], s, i) ELSE g[i - 1]
  <2> TAKE i \in 1 .. n
  <2>1. g[i - 1] \in Seq(Entry)
    OBVIOUS
  <2>2. F[i][g[i - 1]] = IF i \in rs THEN AddToStash(g[i - 1], s, i) ELSE g[i - 1]
    BY <2>1
  <2> HIDE DEF F
  <2> QED BY <1>3, <2>2 DEF Iterates
<1>5. g = [i \in 0 .. n |->
             IF i = 0 THEN st
             ELSE IF i \in rs THEN AddToStash(g[i - 1], s, i)
             ELSE g[i - 1]]
  <2>1. \A i \in 0 .. n : g[i] = IF i = 0 THEN st
                                 ELSE IF i \in rs THEN AddToStash(g[i - 1], s, i)
                                 ELSE g[i - 1]
    <3>1. g[0] = st
      BY <1>3 DEF Iterates
    <3> HIDE DEF F, n
    <3> QED BY <1>a, <1>4, <3>1, Zenon
  <2> QED BY <2>1
<1>6. stashed = [i \in 0 .. n |->
                   IF i = 0 THEN st
                   ELSE IF i \in rs THEN AddToStash(stashed[i - 1], s, i)
                   ELSE stashed[i - 1]]
  BY <1>5 DEF Stashed
<1>7. \A i \in 0 .. n : stashed[i] = IF i = 0 THEN st
                                     ELSE IF i \in rs THEN AddToStash(stashed[i - 1], s, i)
                                     ELSE stashed[i - 1]
  <2> HIDE DEF stashed, n, F
  <2> QED BY <1>6
<1>8. DOMAIN stashed = 0 .. n /\ stashed = [i \in 0 .. n |-> stashed[i]]
  <2> HIDE DEF F
  <2> QED BY <1>6
<1> HIDE DEF F, stashed
<1>9. \A i \in 1 .. n :
        stashed[i] = IF i \in rs THEN AddToStash(stashed[i - 1], s, i) ELSE stashed[i - 1]
  BY <1>1, <1>7
<1>10. stashed[0] = st
  BY <1>1, <1>7
<1> DEFINE P == {i \in 0 .. n : stashed[i] \in Seq(Entry)}
<1>11. 0 \in P
  BY <1>1, <1>10
<1>12. ASSUME NEW i \in 1 .. n, i - 1 \in P PROVE i \in P
  <2>1. stashed[i - 1] \in Seq(Entry) /\ i \in 0 .. n
    BY <1>12
  <2>2. AddToStash(stashed[i - 1], s, i) \in Seq(Entry)
    BY <2>1, AddedGrows
  <2>3. stashed[i] = stashed[i - 1] \/ stashed[i] = AddToStash(stashed[i - 1], s, i)
    <3> HIDE DEF n
    <3> QED BY <1>9, Zenon
  <2> QED BY <2>1, <2>2, <2>3, Zenon
<1>13. 0 .. n \subseteq P
  <2> HIDE DEF P
  <2> QED BY <1>1, <1>11, <1>12, IntervalInduction
<1>14. stashed \in [0 .. n -> Seq(Entry)]
  BY <1>8, <1>13
<1> QED BY <1>9, <1>10, <1>14 DEF stashed

\* The entry of element j of the sequence s knows the order of s.
KnowsOrder(ste, s, j) ==
  /\ ste.element = s[j]
  /\ \A l \in 1 .. j - 1 : s[l].geo \in ste.earlier
  /\ \A l \in j + 1 .. Len(s) : s[l].geo \in ste.later

\* st2 continues st by the elements of s at the positions rs, and forgets nothing.
Continues(st2, st, s, rs) ==
  /\ st2 \in Seq(Entry) /\ Len(st) <= Len(st2)
  /\ \A k \in 1 .. Len(st) :
       /\ st2[k].element = st[k].element
       /\ st[k].earlier \subseteq st2[k].earlier
       /\ st[k].later \subseteq st2[k].later
  /\ \A k \in Len(st) + 1 .. Len(st2) : \E j \in rs : KnowsOrder(st2[k], s, j)
  /\ \A j \in rs : \E k \in Len(st) + 1 .. Len(st2) : KnowsOrder(st2[k], s, j)

\* Adding one more element continues the stash.
LEMMA AddedContinues ==
  ASSUME NEW st \in Seq(Entry), NEW s \in Seq(Elem), NEW rs \in SUBSET (1 .. Len(s)),
         NEW mid, Continues(mid, st, s, rs), NEW i \in 1 .. Len(s)
  PROVE  Continues(AddToStash(mid, s, i), st, s, rs \cup {i})
<1> DEFINE st2 == AddToStash(mid, s, i)
           l == Len(st)
           m == Len(mid)
<1>1. mid \in Seq(Entry) /\ l \in Nat /\ m \in Nat /\ l <= m
  BY DEF Continues
<1>2. /\ st2 \in Seq(Entry) /\ Len(st2) = m + 1
      /\ \A k \in 1 .. m :
           /\ st2[k].element = mid[k].element
           /\ mid[k].earlier \subseteq st2[k].earlier
           /\ mid[k].later \subseteq st2[k].later
      /\ KnowsOrder(st2[m + 1], s, i)
  BY <1>1, AddedGrows DEF KnowsOrder
<1> HIDE DEF st2, m
<1>3. \A k \in 1 .. l : k \in 1 .. m
  BY <1>1
<1>4. ASSUME NEW k \in 1 .. m, NEW j, KnowsOrder(mid[k], s, j)
      PROVE  KnowsOrder(st2[k], s, j)
  BY <1>2, <1>4 DEF KnowsOrder
<1>5. \A k \in 1 .. l :
        /\ st2[k].element = st[k].element
        /\ st[k].earlier \subseteq st2[k].earlier
        /\ st[k].later \subseteq st2[k].later
  BY <1>2, <1>3 DEF Continues
<1>6. ASSUME NEW k \in l + 1 .. m + 1
      PROVE  \E j \in rs \cup {i} : KnowsOrder(st2[k], s, j)
  <2>1. CASE k = m + 1
    BY <1>2, <2>1
  <2>2. CASE k # m + 1
    <3>1. k \in l + 1 .. m /\ k \in 1 .. m
      BY <1>1, <2>2
    <3>2. PICK j \in rs : KnowsOrder(mid[k], s, j)
      BY <3>1 DEF Continues, m
    <3> QED BY <1>4, <3>1, <3>2
  <2> QED BY <2>1, <2>2
<1>7. ASSUME NEW j \in rs \cup {i}
      PROVE  \E k \in l + 1 .. m + 1 : KnowsOrder(st2[k], s, j)
  <2>1. CASE j = i
    <3>1. m + 1 \in l + 1 .. m + 1
      BY <1>1
    <3> QED BY <1>2, <2>1, <3>1
  <2>2. CASE j \in rs
    <3>1. PICK k \in l + 1 .. m : KnowsOrder(mid[k], s, j)
      BY <2>2 DEF Continues, m
    <3>2. k \in 1 .. m /\ k \in l + 1 .. m + 1
      BY <1>1
    <3> QED BY <1>4, <3>1, <3>2
  <2> QED BY <2>1, <2>2
<1>8. l <= Len(st2) /\ Len(st2) = m + 1
  BY <1>1, <1>2
<1> QED BY <1>2, <1>5, <1>6, <1>7, <1>8 DEF Continues, st2

LEMMA StashedContinues ==
  ASSUME NEW st \in Seq(Entry), NEW s \in Seq(Elem), NEW rs \in SUBSET (1 .. Len(s)),
         NEW i \in 0 .. Len(s)
  PROVE  Continues(Stashed(st, s, rs)[i], st, s, rs \cap (1 .. i))
<1> DEFINE n == Len(s)
           stashed == Stashed(st, s, rs)
           P == {k \in 0 .. n : Continues(stashed[k], st, s, rs \cap (1 .. k))}
<1>1. n \in Nat
  OBVIOUS
<1>2. /\ stashed \in [0 .. n -> Seq(Entry)] /\ stashed[0] = st
      /\ \A k \in 1 .. n :
           stashed[k] = IF k \in rs THEN AddToStash(stashed[k - 1], s, k) ELSE stashed[k - 1]
  BY StashedDef
<1> HIDE DEF stashed
<1>3. 0 \in P
  <2>1. rs \cap (1 .. 0) = {} /\ 0 \in 0 .. n /\ Len(st) \in Nat
    BY <1>1
  <2>2. Continues(st, st, s, {})
    BY <2>1 DEF Continues
  <2> QED BY <1>2, <2>1, <2>2
<1>4. ASSUME NEW k \in 1 .. n, k - 1 \in P PROVE k \in P
  <2>1. Continues(stashed[k - 1], st, s, rs \cap (1 .. k - 1)) /\ k \in 0 .. n
    BY <1>4
  <2>2. CASE k \in rs
    <3>1. rs \cap (1 .. k) = (rs \cap (1 .. k - 1)) \cup {k}
      BY <2>2
    <3>2. stashed[k] = AddToStash(stashed[k - 1], s, k)
      BY <1>2, <2>2
    <3>3. rs \cap (1 .. k - 1) \in SUBSET (1 .. Len(s))
      OBVIOUS
    <3>4. Continues(stashed[k], st, s, rs \cap (1 .. k))
      BY <2>1, <3>1, <3>2, <3>3, AddedContinues
    <3> QED BY <2>1, <3>4
  <2>3. CASE k \notin rs
    <3>1. rs \cap (1 .. k) = rs \cap (1 .. k - 1)
      BY <2>3
    <3>2. stashed[k] = stashed[k - 1]
      BY <1>2, <2>3
    <3> QED BY <2>1, <3>1, <3>2
  <2> QED BY <2>2, <2>3
<1>5. 0 .. n \subseteq P
  <2> HIDE DEF P, n
  <2> QED BY <1>1, <1>3, <1>4, IntervalInduction
<1> QED BY <1>5 DEF stashed

\* What simplify() does to the stash.
LEMMA StashAllContinues ==
  ASSUME NEW st \in Seq(Entry), NEW s \in Seq(Elem), NEW rs \in SUBSET (1 .. Len(s))
  PROVE  Continues(StashAll(st, s, rs), st, s, rs)
<1>1. Len(s) \in Nat /\ Len(s) \in 0 .. Len(s)
  OBVIOUS
<1>2. rs \cap (1 .. Len(s)) = rs
  OBVIOUS
<1> QED BY <1>1, <1>2, StashedContinues DEF StashAll

----------------------------------------------------------------------------
(* Elements are inserted *)

\* t is s with e behind its first k elements.
HasInserted(t, s, k, e) ==
  /\ Len(t) = Len(s) + 1 /\ t[k + 1] = e
  /\ \A j \in 1 .. k : t[j] = s[j]
  /\ \A j \in k + 1 .. Len(s) : t[j + 1] = s[j]

LEMMA InsertedAt ==
  ASSUME NEW T, NEW s \in Seq(T), NEW k \in 0 .. Len(s), NEW e \in T
  PROVE  Inserted(s, k, e) \in Seq(T) /\ HasInserted(Inserted(s, k, e), s, k, e)
<1> DEFINE a == SubSeq(s, 1, k)
           b == SubSeq(s, k + 1, Len(s))
           t == Inserted(s, k, e)
<1>1. Len(s) \in Nat /\ k \in Nat /\ k <= Len(s)
  OBVIOUS
<1>2. a \in Seq(T) /\ Len(a) = k /\ \A j \in 1 .. k : a[j] = s[j]
  BY <1>1
<1>3. b \in Seq(T) /\ Len(b) = Len(s) - k /\ \A j \in 1 .. Len(s) - k : b[j] = s[k + j]
  BY <1>1
<1>4. t = a \o <<e>> \o b
  <2> DEFINE p == k + 1
  <2>1. p - 1 = k
    BY <1>1
  <2> HIDE DEF p
  <2>2. InsertAt(s, p, e) = SubSeq(s, 1, p - 1) \o <<e>> \o SubSeq(s, p, Len(s))
    BY DEF InsertAt
  <2>3. InsertAt(s, p, e) = SubSeq(s, 1, k) \o <<e>> \o SubSeq(s, p, Len(s))
    BY <2>1, <2>2
  <2> QED BY <2>3 DEF p, Inserted
<1> HIDE DEF a, b, t
<1>5. t \in Seq(T) /\ Len(t) = Len(s) + 1
  BY <1>1, <1>2, <1>3, <1>4
<1>6. t[k + 1] = e /\ \A j \in 1 .. k : t[j] = s[j]
  BY <1>1, <1>2, <1>3, <1>4
<1>7. ASSUME NEW j \in k + 1 .. Len(s) PROVE t[j + 1] = s[j]
  <2>1. t[j + 1] = b[j - k]
    BY <1>1, <1>2, <1>3, <1>4
  <2>2. b[j - k] = s[k + (j - k)] /\ k + (j - k) = j
    BY <1>1, <1>3
  <2> QED BY <2>1, <2>2
<1> QED BY <1>5, <1>6, <1>7 DEF t, HasInserted

\* Where an element of s is after the insertion.
Shifted(k, j) == IF j <= k THEN j ELSE j + 1

\* The elements keep their order, and every place is that of e or of one of them.
Spreads(t, s, k, e) ==
  /\ k + 1 \in 1 .. Len(t) /\ t[k + 1] = e
  /\ \A j \in 1 .. Len(s) :
       /\ Shifted(k, j) \in 1 .. Len(t) /\ Shifted(k, j) # k + 1
       /\ t[Shifted(k, j)] = s[j]
       /\ (j <= k => Shifted(k, j) < k + 1) /\ (k < j => k + 1 < Shifted(k, j))
  /\ \A j, l \in 1 .. Len(s) : Shifted(k, j) < Shifted(k, l) <=> j < l
  /\ \A i \in 1 .. Len(t) : i = k + 1 \/ \E j \in 1 .. Len(s) : i = Shifted(k, j)

LEMMA InsertedPlaces ==
  ASSUME NEW T, NEW s \in Seq(T), NEW k \in 0 .. Len(s), NEW e \in T
  PROVE  Spreads(Inserted(s, k, e), s, k, e)
<1> DEFINE t == Inserted(s, k, e)
<1>1. /\ Len(s) \in Nat /\ k \in Nat /\ k <= Len(s) /\ Len(t) = Len(s) + 1
      /\ t[k + 1] = e
      /\ \A j \in 1 .. k : t[j] = s[j]
      /\ \A j \in k + 1 .. Len(s) : t[j + 1] = s[j]
  <2>1. Len(s) \in Nat /\ k \in Nat /\ k <= Len(s)
    OBVIOUS
  <2>2. HasInserted(t, s, k, e)
    BY InsertedAt
  <2> QED BY <2>1, <2>2 DEF HasInserted
<1> HIDE DEF t
<1>2. ASSUME NEW j \in 1 .. Len(s)
      PROVE  /\ Shifted(k, j) \in 1 .. Len(t) /\ Shifted(k, j) # k + 1
             /\ t[Shifted(k, j)] = s[j]
             /\ (j <= k => Shifted(k, j) < k + 1) /\ (k < j => k + 1 < Shifted(k, j))
  <2>1. CASE j <= k
    BY <1>1, <2>1 DEF Shifted
  <2>2. CASE j > k
    BY <1>1, <2>2 DEF Shifted
  <2> QED BY <1>1, <2>1, <2>2
<1>3. \A j, l \in 1 .. Len(s) : Shifted(k, j) < Shifted(k, l) <=> j < l
  BY <1>1 DEF Shifted
<1>4. ASSUME NEW i \in 1 .. Len(t)
      PROVE  i = k + 1 \/ \E j \in 1 .. Len(s) : i = Shifted(k, j)
  <2>1. CASE i < k + 1
    <3>1. i \in 1 .. Len(s) /\ i = Shifted(k, i)
      BY <1>1, <2>1 DEF Shifted
    <3> QED BY <3>1
  <2>2. CASE i > k + 1
    <3>1. i - 1 \in 1 .. Len(s) /\ i = Shifted(k, i - 1)
      BY <1>1, <2>2 DEF Shifted
    <3> QED BY <3>1
  <2>3. i < k + 1 \/ i = k + 1 \/ i > k + 1
    BY <1>1
  <2> QED BY <2>1, <2>2, <2>3
<1>5. k + 1 \in 1 .. Len(t)
  BY <1>1
<1> QED BY <1>1, <1>2, <1>3, <1>4, <1>5 DEF t, Spreads

\* What get_reinsert_positions returns: after all that lies earlier and before
\* all that lies later, and no further than that.
LEMMA EarliestBound ==
  ASSUME NEW s \in Seq(Elem), NEW ste \in Entry
  PROVE  /\ Earliest(ste, s) \in 0 .. Len(s)
         /\ \A i \in 1 .. Len(s) : s[i].geo \in ste.earlier => i <= Earliest(ste, s)
         /\ Earliest(ste, s) = 0 \/ s[Earliest(ste, s)].geo \in ste.earlier
<1> DEFINE S == {0} \cup {i \in DOMAIN s : s[i].geo \in ste.earlier}
<1>1. Len(s) \in Nat /\ DOMAIN s = 1 .. Len(s)
  OBVIOUS
<1>2. S \in SUBSET (0 .. Len(s)) /\ S # {}
  BY <1>1
<1>3. \A i \in 1 .. Len(s) : s[i].geo \in ste.earlier => i \in S
  BY <1>1
<1>4. \A i \in S : i = 0 \/ s[i].geo \in ste.earlier
  OBVIOUS
<1> HIDE DEF S
<1>5. Max(S) \in S /\ \A x \in S : x <= Max(S)
  BY <1>1, <1>2, MaxIsGreatest
<1>6. Earliest(ste, s) = Max(S)
  BY DEF Earliest, S
<1> QED BY <1>2, <1>3, <1>4, <1>5, <1>6

LEMMA LatestBound ==
  ASSUME NEW s \in Seq(Elem), NEW ste \in Entry
  PROVE  /\ Latest(ste, s) \in 0 .. Len(s)
         /\ \A i \in 1 .. Len(s) : s[i].geo \in ste.later => Latest(ste, s) < i
         /\ Latest(ste, s) = Len(s) \/ s[Latest(ste, s) + 1].geo \in ste.later
<1> DEFINE I == {i \in DOMAIN s : s[i].geo \in ste.later}
           S == {Len(s)} \cup {i - 1 : i \in I}
<1>1. Len(s) \in Nat /\ DOMAIN s = 1 .. Len(s) /\ I \subseteq 1 .. Len(s)
  OBVIOUS
<1>2. S \in SUBSET Nat /\ S # {} /\ S \subseteq 0 .. Len(s)
  BY <1>1
<1>3. \A i \in 1 .. Len(s) : s[i].geo \in ste.later => i \in I
  BY <1>1
<1>4. \A i \in I : s[i].geo \in ste.later
  OBVIOUS
<1> HIDE DEF I
<1>5. Min(S) \in S /\ \A x \in S : Min(S) <= x
  <2> HIDE DEF S
  <2> QED BY <1>2, MinIsLeast
<1>6. Latest(ste, s) = Min(S)
  BY DEF Latest, I
<1>7. ASSUME NEW i \in 1 .. Len(s), s[i].geo \in ste.later PROVE Min(S) < i
  <2>1. i - 1 \in S
    BY <1>3, <1>7
  <2>2. Min(S) <= i - 1 /\ Min(S) \in Nat
    <3> HIDE DEF S
    <3> QED BY <1>2, <1>5, <2>1
  <2> HIDE DEF S
  <2> QED BY <2>2
<1>8. Min(S) = Len(s) \/ s[Min(S) + 1].geo \in ste.later
  <2>1. CASE Min(S) = Len(s)
    BY <2>1
  <2>2. CASE Min(S) # Len(s)
    <3> DEFINE l == Min(S)
    <3>1. l \in {i - 1 : i \in I}
      <4> HIDE DEF l
      <4> QED BY <1>5, <2>2 DEF l
    <3> HIDE DEF l
    <3>2. PICK i \in I : l = i - 1
      BY <3>1
    <3>3. l + 1 = i
      BY <1>1, <3>2
    <3> QED BY <1>4, <3>3 DEF l
  <2> QED BY <2>1, <2>2
<1> HIDE DEF S
<1> QED BY <1>2, <1>5, <1>6, <1>7, <1>8

----------------------------------------------------------------------------
(* The inductive invariant *)

Typed ==
  /\ options \in Options /\ phase \in {"created", "evaluated", "pruned"}
  /\ seq \in Seq(Elem) /\ stash \in Seq(Entry)
  /\ geomToggles \in [Geo -> Nat]

\* The first element stays where it is, and every stashed element knows that it
\* belongs behind it.
BeginsWithFirst(s, st) ==
  /\ s # <<>> /\ s[1].geo = 1
  /\ \A k \in 1 .. Len(st) : 1 \in st[k].earlier
FirstStays == BeginsWithFirst(seq, stash)

\* What is stashed had a toggle of its own left, and has it still; of its
\* geometry others may have used up all.
TogglesLeft == \A k \in 1 .. Len(stash) : stash[k].element.toggles < MaxTeToggle

\* No polygon has two elements, be it in the sequence or in the stash.
DistinctIn(s) == \A i, j \in 1 .. Len(s) : s[i].geo = s[j].geo => i = j
DistinctStashed(st) ==
  \A k, l \in 1 .. Len(st) : st[k].element.geo = st[l].element.geo => k = l
Apart(s, st) == \A i \in 1 .. Len(s), k \in 1 .. Len(st) : s[i].geo # st[k].element.geo
OnceIn(s, st) == DistinctIn(s) /\ DistinctStashed(st) /\ Apart(s, st)
PlacedOnce == OnceIn(seq, stash)

\* Only a nonconvex polygon is modelled by its hull.
LazyOnlyIn(s, st) ==
  /\ \A i \in 1 .. Len(s) : s[i].form = "lazy" => s[i].geo \in Nonconvex
  /\ \A k \in 1 .. Len(st) : st[k].element.form = "lazy" => st[k].element.geo \in Nonconvex
LazyIsNonconvex == LazyOnlyIn(seq, stash)

Inv == Typed /\ FirstStays /\ TogglesLeft /\ PlacedOnce /\ LazyIsNonconvex

\* Elements and entries as members of a sequence.
LEMMA GeosAsSets ==
  ASSUME Typed
  PROVE  /\ Len(seq) \in Nat /\ DOMAIN seq = 1 .. Len(seq)
         /\ Len(stash) \in Nat /\ DOMAIN stash = 1 .. Len(stash)
         /\ \A i \in 1 .. Len(seq) : seq[i] \in Elem
         /\ \A k \in 1 .. Len(stash) : stash[k] \in Entry /\ stash[k].element \in Elem
         /\ SeqGeos = {seq[i].geo : i \in 1 .. Len(seq)}
         /\ StashGeos = {stash[k].element.geo : k \in 1 .. Len(stash)}
<1>1. /\ Len(seq) \in Nat /\ DOMAIN seq = 1 .. Len(seq)
      /\ Len(stash) \in Nat /\ DOMAIN stash = 1 .. Len(stash)
      /\ \A i \in 1 .. Len(seq) : seq[i] \in Elem
      /\ \A k \in 1 .. Len(stash) : stash[k] \in Entry
  BY DEF Typed
<1>2. \A k \in 1 .. Len(stash) : stash[k].element \in Elem
  BY <1>1 DEF Entry
<1>3. SeqGeos = {seq[i].geo : i \in 1 .. Len(seq)}
  BY <1>1 DEF SeqGeos, GeosOf, ToSet
<1>4. StashGeos = {stash[k].element.geo : k \in 1 .. Len(stash)}
  BY <1>1 DEF StashGeos, ToSet
<1> QED BY <1>1, <1>2, <1>3, <1>4

\* What an evaluated node keeps and what it stashes.
LEMMA EvaluateStep ==
  ASSUME Inv, Evaluate
  PROVE  \E rs \in SUBSET (2 .. Len(seq)) :
           /\ \A i \in rs : CanBeDisabled(seq[i])
           /\ seq' \in Seq(Elem) /\ \E m : Selects(m, seq', seq, rs, Len(seq))
           /\ stash' = StashAll(stash, seq, rs) /\ Continues(stash', stash, seq, rs)
<1>1. PICK ps \in SpanningSets(seq) :
        /\ stash' = StashAll(stash, seq, Removable(ps))
        /\ seq' = Without(seq, Removable(ps))
  BY DEF Evaluate
<1> DEFINE rs == Removable(ps)
<1>2. Len(seq) \in Nat /\ seq \in Seq(Elem) /\ stash \in Seq(Entry)
  BY DEF Inv, Typed
<1>3. /\ rs \in SUBSET (2 .. Len(seq))
      /\ \A i \in rs : CanBeDisabled(seq[i])
  BY DEF Removable
<1>5. rs \in SUBSET (1 .. Len(seq))
  BY <1>2, <1>3
<1> HIDE DEF rs
<1>6. Continues(StashAll(stash, seq, rs), stash, seq, rs)
  BY <1>2, <1>5, StashAllContinues
<1>7. Without(seq, rs) \in Seq(Elem) /\ \E m : Selects(m, Without(seq, rs), seq, rs, Len(seq))
  BY <1>2, WithoutSelects
<1>8. stash' = StashAll(stash, seq, rs) /\ seq' = Without(seq, rs)
  BY <1>1 DEF rs
<1> QED BY <1>3, <1>6, <1>7, <1>8

----------------------------------------------------------------------------
(* The steps of the branching *)

\* The lazy element of g is replaced.
Resolves(s, g) ==
  \E i \in 1 .. Len(seq), form \in Parts \cup {"exact"} :
    seq[i].geo = g /\ seq[i].form = "lazy" /\ s = [seq EXCEPT ![i] = Element(g, form)]

\* An element of g comes behind the first k elements, but not to the front.
InsertsAt(s, g, k, e) ==
  /\ k \in 1 .. Len(seq)
  /\ e \in Elem /\ e.geo = g /\ (e.form = "lazy" => g \in Nonconvex)
  /\ s = Inserted(seq, k, e)

\* It is the stashed one, and all that its entry knows is observed.
Restores(s, g) ==
  \E a \in 1 .. Len(stash), k \in 1 .. Len(seq), e \in Elem :
    /\ stash[a].element.geo = g /\ InsertsAt(s, g, k, e) /\ e.form = stash[a].element.form
    /\ e.toggles = stash[a].element.toggles + 1
    /\ \A i \in 1 .. Len(seq) :
         /\ seq[i].geo \in stash[a].earlier => i <= k
         /\ seq[i].geo \in stash[a].later => k < i

\* It is new.
Extends(s, g) ==
  g \notin StashGeos /\ \E k \in 1 .. Len(seq), e \in Elem : InsertsAt(s, g, k, e)

LEMMA ResolvedSteps ==
  ASSUME Inv, NEW g \in Branchable, g \in SeqGeos, NEW s \in Resolved(g)
  PROVE  Resolves(s, g)
<1> DEFINE i == CHOOSE i \in DOMAIN seq : seq[i].geo = g
<1>1. /\ DOMAIN seq = 1 .. Len(seq) /\ SeqGeos = {seq[j].geo : j \in 1 .. Len(seq)}
  BY GeosAsSets DEF Inv
<1>2. i \in 1 .. Len(seq) /\ seq[i].geo = g
  BY <1>1
<1>3. PICK form \in (IF options.decomposition THEN Parts ELSE {"exact"}) :
        s = [seq EXCEPT ![i] = Element(g, form)]
  BY DEF Resolved
<1> HIDE DEF i
<1>4. seq[i].form = "lazy"
  BY <1>1, <1>2 DEF Branchable, ToSet
<1>5. form \in Parts \cup {"exact"}
  BY <1>3
<1> QED BY <1>2, <1>3, <1>4, <1>5 DEF Resolves

LEMMA ElementType ==
  ASSUME NEW g \in Geo, NEW form \in Form
  PROVE  Element(g, form) \in Elem /\ Element(g, form).geo = g /\ Element(g, form).form = form
BY PartialSequenceAssumption DEF Element, Elem

LEMMA ExtendedSteps ==
  ASSUME Inv, NEW g \in Branchable, g \notin SeqGeos, g \notin StashGeos,
         NEW s \in Extended(g)
  PROVE  Extends(s, g)
<1> DEFINE form == IF g \notin Nonconvex THEN "convex"
                   ELSE IF options.skipHull THEN "exact" ELSE "lazy"
           last == IF options.path THEN Len(seq) - 1 ELSE Len(seq)
<1>1. PICK k \in 1 .. last : s = Inserted(seq, k, Element(g, form))
  BY DEF Extended
<1>2. Len(seq) \in Nat /\ g \in Geo
  BY GeosAsSets DEF Inv, Branchable
<1>3. k \in 1 .. Len(seq)
  BY <1>2
<1>4. form \in Form /\ (form = "lazy" => g \in Nonconvex)
  BY DEF Form
<1> HIDE DEF form
<1>5. Element(g, form) \in Elem /\ Element(g, form).geo = g /\ Element(g, form).form = form
  BY <1>2, <1>4, ElementType
<1> QED BY <1>1, <1>3, <1>4, <1>5 DEF Extends, InsertsAt

LEMMA RestoredSteps ==
  ASSUME Inv, NEW g \in Branchable, g \notin SeqGeos, g \in StashGeos,
         NEW s \in Restored(g)
  PROVE  Restores(s, g)
<1> DEFINE ste == StashedAs(g)
           e == [ste.element EXCEPT !.toggles = @ + 1]
<1>1. PICK k \in Earliest(ste, seq) .. Latest(ste, seq) : s = Inserted(seq, k, e)
  BY DEF Restored
<1>2. /\ Len(seq) \in Nat /\ DOMAIN stash = 1 .. Len(stash)
      /\ \A a \in 1 .. Len(stash) : stash[a] \in Entry /\ stash[a].element \in Elem
      /\ StashGeos = {stash[a].element.geo : a \in 1 .. Len(stash)}
  BY GeosAsSets DEF Inv
<1>3. PICK a \in 1 .. Len(stash) : stash[a] = ste /\ ste.element.geo = g
  <2>1. \E x \in ToSet(stash) : x.element.geo = g
    BY DEF StashGeos
  <2>2. ste \in ToSet(stash) /\ ste.element.geo = g
    BY <2>1 DEF StashedAs
  <2> QED BY <1>2, <2>2 DEF ToSet
<1> HIDE DEF ste
<1>4. ste \in Entry /\ ste.element \in Elem
  BY <1>2, <1>3
<1>5. /\ Earliest(ste, seq) \in 0 .. Len(seq) /\ Latest(ste, seq) \in 0 .. Len(seq)
      /\ \A i \in 1 .. Len(seq) :
           /\ seq[i].geo \in ste.earlier => i <= Earliest(ste, seq)
           /\ seq[i].geo \in ste.later => Latest(ste, seq) < i
  BY <1>4, EarliestBound, LatestBound DEF Inv, Typed
<1>6. \A i \in 1 .. Len(seq) :
        /\ seq[i].geo \in ste.earlier => i <= k
        /\ seq[i].geo \in ste.later => k < i
  BY <1>2, <1>5
<1>7. k \in 1 .. Len(seq)
  <2>1. seq # <<>> /\ seq[1].geo = 1 /\ 1 \in ste.earlier
    BY <1>3 DEF Inv, FirstStays, BeginsWithFirst
  <2>2. 1 \in 1 .. Len(seq)
    BY <1>2, <2>1 DEF Inv, Typed
  <2> QED BY <1>2, <1>5, <1>6, <2>1, <2>2
<1>8. ste.element.toggles < MaxTeToggle
  BY <1>3 DEF Inv, TogglesLeft
<1>9. e \in Elem /\ e.geo = g /\ e.form = ste.element.form /\ e.toggles = ste.element.toggles + 1
  BY <1>3, <1>4, <1>8, PartialSequenceAssumption DEF Elem
<1>10. ste.element.form = "lazy" => g \in Nonconvex
  BY <1>3 DEF Inv, LazyIsNonconvex, LazyOnlyIn
<1> HIDE DEF e
<1>11. InsertsAt(s, g, k, e)
  BY <1>1, <1>7, <1>9, <1>10 DEF InsertsAt
<1> QED BY <1>3, <1>6, <1>7, <1>9, <1>11 DEF Restores

\* Every child that branching proposes comes about in one of the three ways.
LEMMA ProposedSteps ==
  ASSUME Inv, NEW g \in Branchable, NEW s \in Proposed(g)
  PROVE  \/ g \in SeqGeos /\ Resolves(s, g)
         \/ g \notin SeqGeos /\ Restores(s, g)
         \/ g \notin SeqGeos /\ Extends(s, g)
BY ResolvedSteps, RestoredSteps, ExtendedSteps DEF Proposed

\* The stash of a child is that of its parent without the entry of g.
UnstashedBy(m, st, g) ==
  /\ st \in Seq(Entry)
  /\ Selects(m, st, stash, {k \in DOMAIN stash : stash[k].element.geo = g}, Len(stash))

LEMMA StashWithoutSelects ==
  ASSUME Inv, NEW g \in Geo
  PROVE  \E m : UnstashedBy(m, StashWithout(g), g)
BY WithoutSelects DEF Inv, Typed, StashWithout, UnstashedBy

\* Each entry that is left is one of the parent's, of another polygon, and each
\* of those is left.
LEMMA Unstashed ==
  ASSUME Inv, NEW g, NEW st, NEW m, UnstashedBy(m, st, g)
  PROVE  /\ st \in Seq(Entry) /\ Len(st) \in Nat
         /\ \A k \in 1 .. Len(st) :
              m[k] \in 1 .. Len(stash) /\ st[k] = stash[m[k]] /\ st[k].element.geo # g
         /\ \A k, l \in 1 .. Len(st) : m[k] = m[l] => k = l
         /\ \A j \in 1 .. Len(stash) : stash[j].element.geo # g =>
              \E k \in 1 .. Len(st) : st[k] = stash[j]
<1> DEFINE rs == {k \in DOMAIN stash : stash[k].element.geo = g}
<1>1. Len(stash) \in Nat /\ DOMAIN stash = 1 .. Len(stash)
  BY GeosAsSets DEF Inv
<1>2. /\ st \in Seq(Entry) /\ Len(st) \in Nat
      /\ m \in [1 .. Len(st) -> (1 .. Len(stash)) \ rs]
      /\ \A k, l \in 1 .. Len(st) : k < l => m[k] < m[l]
      /\ \A j \in (1 .. Len(stash)) \ rs : \E k \in 1 .. Len(st) : m[k] = j
      /\ \A k \in 1 .. Len(st) : st[k] = stash[m[k]]
  BY DEF UnstashedBy, Selects
<1>3. \A j \in 1 .. Len(stash) : j \in rs <=> stash[j].element.geo = g
  BY <1>1
<1> HIDE DEF rs
<1>4. \A k \in 1 .. Len(st) : m[k] \in 1 .. Len(stash) /\ m[k] \in Nat /\ st[k].element.geo # g
  BY <1>1, <1>2, <1>3
<1>5. ASSUME NEW k \in 1 .. Len(st), NEW l \in 1 .. Len(st), m[k] = m[l] PROVE k = l
  <2>1. ~ (k < l) /\ ~ (l < k)
    BY <1>2, <1>4, <1>5
  <2> QED BY <2>1
<1>6. \A j \in 1 .. Len(stash) : stash[j].element.geo # g =>
        \E k \in 1 .. Len(st) : st[k] = stash[j]
  BY <1>2, <1>3
<1> QED BY <1>2, <1>4, <1>5, <1>6

\* What was not erased at the front is still there.
LEMMA SelectsFirst ==
  ASSUME NEW T, NEW s \in Seq(T), s # <<>>, NEW t \in Seq(T), NEW rs, NEW m,
         Selects(m, t, s, rs, Len(s)), 1 \notin rs
  PROVE  t # <<>> /\ t[1] = s[1]
<1> DEFINE n == Len(s)
           l == Len(t)
<1>1. n \in Nat /\ n # 0 /\ l \in Nat
  OBVIOUS
<1>2. /\ m \in [1 .. l -> (1 .. n) \ rs]
      /\ \A k, j \in 1 .. l : k < j => m[k] < m[j]
      /\ \A j \in (1 .. n) \ rs : \E k \in 1 .. l : m[k] = j
      /\ \A k \in 1 .. l : t[k] = s[m[k]]
  BY DEF Selects
<1> HIDE DEF n
<1>3. PICK k \in 1 .. l : m[k] = 1
  BY <1>1, <1>2
<1>4. l # 0 /\ 1 \in 1 .. l
  BY <1>1, <1>3
<1>5. m[1] \in 1 .. n
  BY <1>2, <1>4
<1>6. m[1] = 1
  BY <1>2, <1>3, <1>4, <1>5
<1>7. t # <<>>
  BY <1>4
<1> QED BY <1>2, <1>4, <1>6, <1>7

----------------------------------------------------------------------------
(* The invariant holds at the root and is preserved by evaluating a node *)

LEMMA InitInv == ASSUME Init PROVE Inv
<1>1. PICK n \in 2 .. NumGeos : \E order \in [1 .. n -> Geo] :
        /\ \A i, j \in 1 .. n : i < j => order[i] < order[j]
        /\ order[1] = 1
        /\ seq = [i \in 1 .. n |->
                    Element(order[i], IF order[i] \in Nonconvex THEN "lazy" ELSE "convex")]
  BY DEF Init
<1>2. PICK order \in [1 .. n -> Geo] :
        /\ \A i, j \in 1 .. n : i < j => order[i] < order[j]
        /\ order[1] = 1
        /\ seq = [i \in 1 .. n |->
                    Element(order[i], IF order[i] \in Nonconvex THEN "lazy" ELSE "convex")]
  BY <1>1
<1>3. options \in Options /\ phase = "evaluated" /\ stash = <<>>
      /\ geomToggles = [g \in Geo |-> 0]
  BY DEF Init
<1>4. n \in Nat /\ n >= 2 /\ NumGeos \in Nat
  BY PartialSequenceAssumption
<1>5. ASSUME NEW i \in 1 .. n
      PROVE  /\ seq[i] \in Elem /\ seq[i].geo = order[i]
             /\ (seq[i].form = "lazy" => seq[i].geo \in Nonconvex)
  <2> DEFINE form == IF order[i] \in Nonconvex THEN "lazy" ELSE "convex"
  <2>1. seq[i] = Element(order[i], form)
    BY <1>2
  <2>2. order[i] \in Geo /\ form \in Form /\ (form = "lazy" => order[i] \in Nonconvex)
    BY DEF Form
  <2> HIDE DEF form
  <2> QED BY <2>1, <2>2, ElementType
<1>6. seq \in Seq(Elem) /\ Len(seq) = n
  <2>1. DOMAIN seq = 1 .. n /\ seq = [i \in 1 .. n |-> seq[i]]
    BY <1>2
  <2>2. seq \in [1 .. n -> Elem]
    BY <1>5, <2>1
  <2> QED BY <1>4, <2>2
<1>7. Typed
  <2>1. stash \in Seq(Entry) /\ geomToggles \in [Geo -> Nat]
    BY <1>3
  <2> QED BY <1>3, <1>6, <2>1 DEF Typed
<1>8. \A k \in 1 .. Len(stash) : FALSE
  BY <1>3
<1>9. FirstStays
  <2>1. seq # <<>> /\ 1 \in 1 .. n
    BY <1>4, <1>6
  <2> QED BY <1>2, <1>5, <1>6, <1>8, <2>1 DEF FirstStays, BeginsWithFirst
<1>10. PlacedOnce
  <2>1. ASSUME NEW i \in 1 .. n, NEW j \in 1 .. n, seq[i].geo = seq[j].geo PROVE i = j
    <3>1. order[i] = order[j] /\ order[i] \in Nat
      BY <1>5, <2>1 DEF Geo
    <3>2. ~ (i < j) /\ ~ (j < i)
      BY <1>2, <3>1
    <3> QED BY <1>4, <3>2
  <2> QED BY <1>6, <1>8, <2>1 DEF PlacedOnce, OnceIn, DistinctIn, DistinctStashed, Apart
<1>11. LazyIsNonconvex /\ TogglesLeft
  BY <1>5, <1>6, <1>8 DEF LazyIsNonconvex, LazyOnlyIn, TogglesLeft
<1> QED BY <1>7, <1>9, <1>10, <1>11 DEF Inv

\* The entries that simplify() adds stand for different elements.
LEMMA StashedDistinct ==
  ASSUME NEW st \in Seq(Entry), NEW s \in Seq(Elem), NEW rs \in SUBSET (1 .. Len(s)),
         OnceIn(s, st)
  PROVE  DistinctStashed(StashAll(st, s, rs))
<1> DEFINE n == Len(s)
           stashed == Stashed(st, s, rs)
           P == {i \in 0 .. n : DistinctStashed(stashed[i])}
<1>1. n \in Nat /\ n \in 0 .. n
  OBVIOUS
<1>2. /\ stashed \in [0 .. n -> Seq(Entry)] /\ stashed[0] = st
      /\ \A i \in 1 .. n :
           stashed[i] = IF i \in rs THEN AddToStash(stashed[i - 1], s, i) ELSE stashed[i - 1]
  BY StashedDef
<1>3. \A i \in 0 .. n : Continues(stashed[i], st, s, rs \cap (1 .. i))
  BY StashedContinues
<1> HIDE DEF stashed
<1>4. 0 \in P
  BY <1>1, <1>2 DEF OnceIn
<1>5. ASSUME NEW i \in 1 .. n, i - 1 \in P PROVE i \in P
  <2> DEFINE mid == stashed[i - 1]
             st2 == AddToStash(mid, s, i)
  <2>1. /\ i \in 0 .. n /\ i - 1 \in 0 .. n /\ mid \in Seq(Entry) /\ Len(mid) \in Nat
        /\ DistinctStashed(mid) /\ Continues(mid, st, s, rs \cap (1 .. i - 1))
    BY <1>2, <1>3, <1>5
  <2>2. /\ st2 \in Seq(Entry) /\ Len(st2) = Len(mid) + 1 /\ st2[Len(mid) + 1].element = s[i]
        /\ \A k \in 1 .. Len(mid) : st2[k].element = mid[k].element
    BY <2>1, AddedGrows
  <2>3. stashed[i] = mid \/ stashed[i] = st2
    BY <1>2
  <2> HIDE DEF st2, mid
  <2>4. ASSUME NEW k \in 1 .. Len(mid) PROVE mid[k].element.geo # s[i].geo
    <3>1. CASE k \in 1 .. Len(st)
      <4>1. mid[k].element = st[k].element
        BY <2>1, <3>1 DEF Continues
      <4> QED BY <3>1, <4>1 DEF OnceIn, Apart
    <3>2. CASE k \notin 1 .. Len(st)
      <4>1. k \in Len(st) + 1 .. Len(mid)
        BY <3>2
      <4>2. PICK j \in rs \cap (1 .. i - 1) : mid[k].element = s[j]
        BY <2>1, <4>1 DEF Continues, KnowsOrder
      <4>3. j \in 1 .. n /\ j # i
        BY <4>2
      <4> QED BY <4>2, <4>3 DEF OnceIn, DistinctIn
    <3> QED BY <3>1, <3>2
  <2>5. DistinctStashed(st2)
    <3> SUFFICES ASSUME NEW k \in 1 .. Len(st2), NEW l \in 1 .. Len(st2),
                        st2[k].element.geo = st2[l].element.geo
                 PROVE  k = l
      BY DEF DistinctStashed
    <3>1. /\ k = Len(mid) + 1 \/ k \in 1 .. Len(mid)
          /\ l = Len(mid) + 1 \/ l \in 1 .. Len(mid)
      BY <2>1, <2>2
    <3>2. CASE k \in 1 .. Len(mid) /\ l \in 1 .. Len(mid)
      BY <2>1, <2>2, <3>2 DEF DistinctStashed
    <3>3. CASE k = Len(mid) + 1 /\ l \in 1 .. Len(mid)
      BY <2>2, <2>4, <3>3
    <3>4. CASE k \in 1 .. Len(mid) /\ l = Len(mid) + 1
      BY <2>2, <2>4, <3>4
    <3> QED BY <3>1, <3>2, <3>3, <3>4
  <2> QED BY <2>1, <2>3, <2>5
<1>6. 0 .. n \subseteq P
  <2> HIDE DEF P, n
  <2> QED BY <1>1, <1>4, <1>5, IntervalInduction
<1> QED BY <1>1, <1>6 DEF StashAll, stashed

LEMMA EvaluateInv == ASSUME Inv, Evaluate PROVE Inv'
<1>1. PICK rs \in SUBSET (2 .. Len(seq)) :
        /\ \A i \in rs : CanBeDisabled(seq[i])
        /\ seq' \in Seq(Elem) /\ \E m : Selects(m, seq', seq, rs, Len(seq))
        /\ stash' = StashAll(stash, seq, rs) /\ Continues(stash', stash, seq, rs)
  BY EvaluateStep
<1>2. PICK m : Selects(m, seq', seq, rs, Len(seq))
  BY <1>1
<1>3. /\ Len(seq) \in Nat /\ seq \in Seq(Elem) /\ seq # <<>> /\ stash \in Seq(Entry)
      /\ \A i \in 1 .. Len(seq) : seq[i] \in Elem
  BY GeosAsSets DEF Inv, Typed, FirstStays, BeginsWithFirst
<1>4. UNCHANGED <<options, geomToggles>> /\ phase' = "evaluated"
  BY DEF Evaluate
<1>5. /\ Len(stash) \in Nat /\ Len(stash') \in Nat /\ Len(seq') \in Nat
      /\ stash' \in Seq(Entry) /\ rs \in SUBSET (1 .. Len(seq))
  BY <1>1, <1>3 DEF Continues
<1>6. /\ m \in [1 .. Len(seq') -> (1 .. Len(seq)) \ rs]
      /\ \A k, l \in 1 .. Len(seq') : k < l => m[k] < m[l]
      /\ \A k \in 1 .. Len(seq') : seq'[k] = seq[m[k]]
  BY <1>2 DEF Selects
<1>7. \A k \in 1 .. Len(seq') : m[k] \in 1 .. Len(seq) /\ m[k] \in Nat /\ m[k] \notin rs
  BY <1>6
\* An entry of the new stash is an old one, or stands for an erased element.
<1>8. ASSUME NEW k \in 1 .. Len(stash')
      PROVE  \/ /\ k \in 1 .. Len(stash) /\ stash'[k].element = stash[k].element
                /\ stash[k].earlier \subseteq stash'[k].earlier
                /\ stash[k].later \subseteq stash'[k].later
             \/ \E j \in rs : KnowsOrder(stash'[k], seq, j)
  <2>1. k \in 1 .. Len(stash) \/ k \in Len(stash) + 1 .. Len(stash')
    BY <1>5
  <2> QED BY <1>1, <2>1 DEF Continues
<1>9. Typed'
  BY <1>1, <1>4, <1>5 DEF Inv, Typed
<1>10. FirstStays'
  <2>1. seq' # <<>> /\ seq'[1] = seq[1]
    <3>1. 1 \notin rs
      BY <1>3
    <3> QED BY <1>1, <1>2, <1>3, <3>1, SelectsFirst
  <2>2. seq[1].geo = 1
    BY DEF Inv, FirstStays, BeginsWithFirst
  <2>3. ASSUME NEW k \in 1 .. Len(stash') PROVE 1 \in stash'[k].earlier
    <3>1. CASE k \in 1 .. Len(stash) /\ stash[k].earlier \subseteq stash'[k].earlier
      BY <3>1 DEF Inv, FirstStays, BeginsWithFirst
    <3>2. CASE \E j \in rs : KnowsOrder(stash'[k], seq, j)
      <4>1. PICK j \in rs : KnowsOrder(stash'[k], seq, j)
        BY <3>2
      <4>2. 1 \in 1 .. j - 1
        BY <1>1, <1>3
      <4> QED BY <2>2, <4>1, <4>2 DEF KnowsOrder
    <3> QED BY <1>8, <3>1, <3>2
  <2> QED BY <2>1, <2>2, <2>3 DEF FirstStays, BeginsWithFirst
<1>11. TogglesLeft'
  <2>1. ASSUME NEW k \in 1 .. Len(stash') PROVE stash'[k].element.toggles < MaxTeToggle
    <3>1. CASE k \in 1 .. Len(stash) /\ stash'[k].element = stash[k].element
      BY <3>1 DEF Inv, TogglesLeft
    <3>2. CASE \E j \in rs : KnowsOrder(stash'[k], seq, j)
      BY <1>1, <3>2 DEF KnowsOrder, CanBeDisabled
    <3> QED BY <1>8, <3>1, <3>2
  <2> QED BY <2>1 DEF TogglesLeft
<1>12. PlacedOnce'
  <2>1. DistinctIn(seq')
    <3> SUFFICES ASSUME NEW k \in 1 .. Len(seq'), NEW l \in 1 .. Len(seq'),
                        seq'[k].geo = seq'[l].geo
                 PROVE  k = l
      BY DEF DistinctIn
    <3>1. m[k] = m[l]
      BY <1>6, <1>7, SMTT(30) DEF Inv, PlacedOnce, OnceIn, DistinctIn
    <3>2. ~ (k < l) /\ ~ (l < k)
      BY <1>6, <1>7, <3>1
    <3> QED BY <3>2
  <2>2. DistinctStashed(stash')
    BY <1>1, <1>3, <1>5, StashedDistinct DEF Inv, PlacedOnce
  <2>3. Apart(seq', stash')
    <3> SUFFICES ASSUME NEW i \in 1 .. Len(seq'), NEW k \in 1 .. Len(stash')
                 PROVE  seq'[i].geo # stash'[k].element.geo
      BY DEF Apart
    <3>1. seq'[i] = seq[m[i]] /\ m[i] \in 1 .. Len(seq) /\ m[i] \notin rs
      BY <1>6, <1>7
    <3>2. CASE k \in 1 .. Len(stash) /\ stash'[k].element = stash[k].element
      BY <3>1, <3>2 DEF Inv, PlacedOnce, OnceIn, Apart
    <3>3. CASE \E j \in rs : KnowsOrder(stash'[k], seq, j)
      BY <1>5, <3>1, <3>3 DEF KnowsOrder, Inv, PlacedOnce, OnceIn, DistinctIn
    <3> QED BY <1>8, <3>2, <3>3
  <2> QED BY <2>1, <2>2, <2>3 DEF PlacedOnce, OnceIn
<1>13. LazyIsNonconvex'
  <2>1. \A i \in 1 .. Len(seq') : seq'[i].form = "lazy" => seq'[i].geo \in Nonconvex
    BY <1>6, <1>7 DEF Inv, LazyIsNonconvex, LazyOnlyIn
  <2>2. ASSUME NEW k \in 1 .. Len(stash'), stash'[k].element.form = "lazy"
        PROVE  stash'[k].element.geo \in Nonconvex
    <3>1. CASE k \in 1 .. Len(stash) /\ stash'[k].element = stash[k].element
      BY <2>2, <3>1 DEF Inv, LazyIsNonconvex, LazyOnlyIn
    <3>2. CASE \E j \in rs : KnowsOrder(stash'[k], seq, j)
      BY <1>5, <2>2, <3>2 DEF KnowsOrder, Inv, LazyIsNonconvex, LazyOnlyIn
    <3> QED BY <1>8, <3>1, <3>2
  <2> QED BY <2>1, <2>2 DEF LazyIsNonconvex, LazyOnlyIn
<1> QED BY <1>9, <1>10, <1>11, <1>12, <1>13 DEF Inv

----------------------------------------------------------------------------
(* and by branching *)

\* The places of the parent's elements in the sequence with e.
LEMMA InsertsPlaces ==
  ASSUME Inv, NEW s, NEW g, NEW k, NEW e, InsertsAt(s, g, k, e)
  PROVE  /\ s \in Seq(Elem) /\ Len(s) = Len(seq) + 1
         /\ HasInserted(s, seq, k, e) /\ Spreads(s, seq, k, e)
<1>1. seq \in Seq(Elem) /\ k \in 0 .. Len(seq) /\ e \in Elem /\ s = Inserted(seq, k, e)
  BY DEF InsertsAt, Inv, Typed
<1>2. s \in Seq(Elem) /\ HasInserted(s, seq, k, e) /\ Spreads(s, seq, k, e)
  BY <1>1, InsertedAt, InsertedPlaces
<1> QED BY <1>2 DEF HasInserted

\* An inserted element comes behind the first element.
LEMMA InsertsBehindFirst ==
  ASSUME Inv, NEW s, NEW g, NEW k, NEW e, InsertsAt(s, g, k, e)
  PROVE  s # <<>> /\ s[1].geo = 1
<1>1. s \in Seq(Elem) /\ HasInserted(s, seq, k, e)
  BY InsertsPlaces
<1>2. Len(seq) \in Nat /\ k \in 1 .. Len(seq) /\ seq[1].geo = 1
  BY GeosAsSets DEF InsertsAt, Inv, FirstStays, BeginsWithFirst
<1>3. Len(s) = Len(seq) + 1 /\ 1 \in 1 .. k /\ s[1] = seq[1]
  BY <1>1, <1>2 DEF HasInserted
<1> QED BY <1>1, <1>2, <1>3

\* A child's sequence has the elements of its parent's, with another element of
\* g or, if g had none, one more.
LEMMA ProposedElements ==
  ASSUME Inv, NEW g \in Geo, NEW s,
         Resolves(s, g) \/ \E k, e : InsertsAt(s, g, k, e)
  PROVE  /\ s \in Seq(Elem) /\ Len(s) \in Nat
         /\ \A i \in 1 .. Len(s) : s[i] \in Elem
         /\ \A i \in 1 .. Len(s) :
              \/ s[i].geo = g /\ (s[i].form = "lazy" => g \in Nonconvex)
              \/ \E j \in 1 .. Len(seq) : s[i] = seq[j]
         /\ \A j \in 1 .. Len(seq) : \E i \in 1 .. Len(s) : s[i].geo = seq[j].geo
         /\ \E i \in 1 .. Len(s) : s[i].geo = g
<1>1. seq \in Seq(Elem) /\ Len(seq) \in Nat /\ \A i \in 1 .. Len(seq) : seq[i] \in Elem
  BY GeosAsSets DEF Inv, Typed
<1>2. CASE Resolves(s, g)
  <2>1. PICK i \in 1 .. Len(seq), form \in Parts \cup {"exact"} :
          seq[i].geo = g /\ seq[i].form = "lazy" /\ s = [seq EXCEPT ![i] = Element(g, form)]
    BY <1>2 DEF Resolves
  <2> DEFINE e == Element(g, form)
  <2>2. e \in Elem /\ e.geo = g /\ e.form # "lazy"
    <3>1. form \in Form /\ form # "lazy"
      BY PartialSequenceAssumption DEF Form
    <3> QED BY <3>1, ElementType
  <2> HIDE DEF e
  <2>3. s \in Seq(Elem) /\ Len(s) = Len(seq) /\ s[i] = e
        /\ \A j \in 1 .. Len(seq) : j # i => s[j] = seq[j]
    BY <1>1, <2>1, <2>2 DEF e
  <2> QED BY <1>1, <2>1, <2>2, <2>3
<1>3. CASE \E k, e : InsertsAt(s, g, k, e)
  <2>1. PICK k, e : InsertsAt(s, g, k, e)
    BY <1>3
  <2>2. s \in Seq(Elem) /\ Len(s) = Len(seq) + 1 /\ Spreads(s, seq, k, e)
    BY <2>1, InsertsPlaces
  <2>3. e \in Elem /\ e.geo = g /\ (e.form = "lazy" => g \in Nonconvex)
    BY <2>1 DEF InsertsAt
  <2>4. \A i \in 1 .. Len(s) : s[i] \in Elem
    BY <2>2
  <2>5. \A i \in 1 .. Len(s) : s[i] = e \/ \E j \in 1 .. Len(seq) : s[i] = seq[j]
    BY <2>2 DEF Spreads
  <2>6. (\A j \in 1 .. Len(seq) : \E i \in 1 .. Len(s) : s[i] = seq[j])
        /\ \E i \in 1 .. Len(s) : s[i] = e
    BY <2>2 DEF Spreads
  <2> QED BY <1>1, <2>2, <2>3, <2>4, <2>5, <2>6
<1> QED BY <1>2, <1>3

\* Every child's sequence, whichever way it came about.
LEMMA ProposedShape ==
  ASSUME Inv, NEW g \in Branchable, NEW s \in Proposed(g)
  PROVE  Resolves(s, g) \/ (g \notin SeqGeos /\ \E k, e : InsertsAt(s, g, k, e))
BY ProposedSteps DEF Restores, Extends

\* No polygon gets a second element.
LEMMA ProposedDistinct ==
  ASSUME Inv, NEW g \in Geo, NEW s,
         Resolves(s, g) \/ (g \notin SeqGeos /\ \E k, e : InsertsAt(s, g, k, e))
  PROVE  DistinctIn(s)
<1>1. /\ seq \in Seq(Elem) /\ Len(seq) \in Nat /\ DistinctIn(seq)
      /\ \A j \in 1 .. Len(seq) : seq[j].geo \in SeqGeos
  BY GeosAsSets DEF Inv, Typed, PlacedOnce, OnceIn
<1>2. CASE Resolves(s, g)
  <2>1. PICK i \in 1 .. Len(seq), form \in Parts \cup {"exact"} :
          seq[i].geo = g /\ s = [seq EXCEPT ![i] = Element(g, form)]
    BY <1>2 DEF Resolves
  <2>2. Len(s) = Len(seq) /\ \A j \in 1 .. Len(seq) : s[j].geo = seq[j].geo
    <3>1. Element(g, form).geo = g
      BY DEF Element
    <3>2. Len(s) = Len(seq) /\ s[i] = Element(g, form)
          /\ \A j \in 1 .. Len(seq) : j # i => s[j] = seq[j]
      <4> DEFINE e == Element(g, form)
      <4> HIDE DEF e
      <4> QED BY <1>1, <2>1 DEF e
    <3> QED BY <2>1, <3>1, <3>2
  <2> QED BY <1>1, <2>2 DEF DistinctIn
<1>3. CASE g \notin SeqGeos /\ \E k, e : InsertsAt(s, g, k, e)
  <2>1. PICK k, e : InsertsAt(s, g, k, e)
    BY <1>3
  <2>2. Spreads(s, seq, k, e) /\ e.geo = g
    BY <2>1, InsertsPlaces DEF InsertsAt
  <2> SUFFICES ASSUME NEW i \in 1 .. Len(s), NEW l \in 1 .. Len(s), s[i].geo = s[l].geo
               PROVE  i = l
    BY DEF DistinctIn
  <2>3. \A j \in 1 .. Len(seq) : s[Shifted(k, j)] = seq[j] /\ seq[j].geo # g
    BY <1>1, <1>3, <2>2 DEF Spreads
  <2>4. /\ i = k + 1 \/ \E j \in 1 .. Len(seq) : i = Shifted(k, j)
        /\ l = k + 1 \/ \E j \in 1 .. Len(seq) : l = Shifted(k, j)
        /\ s[k + 1].geo = g
    BY <2>2 DEF Spreads
  <2> QED BY <1>1, <2>3, <2>4 DEF DistinctIn
<1> QED BY <1>2, <1>3

\* Only the count of g goes up.
LEMMA CountedOnce ==
  ASSUME geomToggles \in [Geo -> Nat], NEW g \in Geo
  PROVE  /\ Counted(g) \in [Geo -> Nat] /\ Counted(g)[g] = geomToggles[g] + 1
         /\ \A h \in Geo : h # g => Counted(g)[h] = geomToggles[h]
BY DEF Counted

\* What branching leaves unchanged, and what it can change.
LEMMA BranchStep ==
  ASSUME Inv, NEW g \in Geo, Branch(g)
  PROVE  /\ g \in Branchable /\ seq' \in Proposed(g) /\ stash' = StashWithout(g)
         /\ options' = options /\ phase' = "created"
         /\ \A h \in Geo : h # g => geomToggles'[h] = geomToggles[h]
         /\ geomToggles' \in [Geo -> Nat]
         /\ g \in StashGeos => geomToggles'[g] = geomToggles[g] + 1
         /\ g \notin StashGeos => geomToggles' = geomToggles
         /\ \E m : UnstashedBy(m, stash', g)
<1>1. /\ g \in Branchable /\ seq' \in Proposed(g) /\ stash' = StashWithout(g)
      /\ options' = options /\ phase' = "created"
      /\ geomToggles' = IF g \in StashGeos THEN Counted(g) ELSE geomToggles
  BY DEF Branch, Children
<1>2. geomToggles \in [Geo -> Nat]
  BY DEF Inv, Typed
<1> QED BY <1>1, <1>2, CountedOnce, StashWithoutSelects

LEMMA BranchInv == ASSUME Inv, NEW g \in Geo, Branch(g) PROVE Inv'
<1>1. /\ g \in Branchable /\ seq' \in Proposed(g) /\ options' = options /\ phase' = "created"
      /\ geomToggles' \in [Geo -> Nat]
      /\ \E m : UnstashedBy(m, stash', g)
  BY BranchStep
<1>2. Resolves(seq', g) \/ (g \notin SeqGeos /\ \E k, e : InsertsAt(seq', g, k, e))
  BY <1>1, ProposedShape
<1>3. PICK m : UnstashedBy(m, stash', g)
  BY <1>1
<1>4. /\ stash' \in Seq(Entry) /\ Len(stash') \in Nat
      /\ \A k \in 1 .. Len(stash') :
           /\ m[k] \in 1 .. Len(stash) /\ stash'[k] = stash[m[k]]
           /\ stash'[k].element.geo # g
      /\ \A k, l \in 1 .. Len(stash') : m[k] = m[l] => k = l
  BY <1>3, Unstashed
<1>5. /\ seq' \in Seq(Elem) /\ Len(seq') \in Nat
      /\ \A i \in 1 .. Len(seq') :
           \/ seq'[i].geo = g /\ (seq'[i].form = "lazy" => g \in Nonconvex)
           \/ \E j \in 1 .. Len(seq) : seq'[i] = seq[j]
  BY <1>2, ProposedElements
<1>6. /\ Len(seq) \in Nat /\ \A i \in 1 .. Len(seq) : seq[i] \in Elem
      /\ \A k \in 1 .. Len(stash) : stash[k] \in Entry /\ stash[k].element \in Elem
  BY GeosAsSets DEF Inv
<1>7. Typed'
  BY <1>1, <1>4, <1>5 DEF Inv, Typed
<1>8. FirstStays'
  <2>1. seq' # <<>> /\ seq'[1].geo = 1
    <3>1. CASE Resolves(seq', g)
      <4>1. PICK i \in 1 .. Len(seq), form \in Parts \cup {"exact"} :
              seq[i].geo = g /\ seq' = [seq EXCEPT ![i] = Element(g, form)]
        BY <3>1 DEF Resolves
      <4> DEFINE e == Element(g, form)
      <4>2. e.geo = seq[i].geo
        BY <4>1 DEF Element
      <4> HIDE DEF e
      <4>3. Len(seq') = Len(seq) /\ \A j \in 1 .. Len(seq) : seq'[j].geo = seq[j].geo
        BY <4>1, <4>2, <1>6 DEF Inv, Typed, e
      <4>4. seq # <<>> /\ seq[1].geo = 1
        BY DEF Inv, FirstStays, BeginsWithFirst
      <4>5. 1 \in 1 .. Len(seq)
        BY <1>6, <4>4 DEF Inv, Typed
      <4> QED BY <1>5, <4>3, <4>4, <4>5
    <3>2. CASE \E k, e : InsertsAt(seq', g, k, e)
      BY <3>2, InsertsBehindFirst
    <3> QED BY <1>2, <3>1, <3>2
  <2>2. \A k \in 1 .. Len(stash') : 1 \in stash'[k].earlier
    BY <1>4 DEF Inv, FirstStays, BeginsWithFirst
  <2> QED BY <2>1, <2>2 DEF FirstStays, BeginsWithFirst
<1>9. TogglesLeft'
  BY <1>4 DEF Inv, TogglesLeft
<1>10. PlacedOnce'
  <2>1. DistinctIn(seq')
    BY <1>2, ProposedDistinct
  <2>2. DistinctStashed(stash')
    <3> SUFFICES ASSUME NEW k \in 1 .. Len(stash'), NEW l \in 1 .. Len(stash'),
                        stash'[k].element.geo = stash'[l].element.geo
                 PROVE  k = l
      BY DEF DistinctStashed
    <3>1. m[k] \in 1 .. Len(stash) /\ m[l] \in 1 .. Len(stash)
      BY <1>4
    <3>2. stash[m[k]].element.geo = stash[m[l]].element.geo
      BY <1>4
    <3>3. m[k] = m[l]
      BY <3>1, <3>2 DEF DistinctStashed, Inv, PlacedOnce, OnceIn
    <3> QED BY <1>4, <3>3
  <2>3. Apart(seq', stash')
    <3> SUFFICES ASSUME NEW i \in 1 .. Len(seq'), NEW k \in 1 .. Len(stash')
                 PROVE  seq'[i].geo # stash'[k].element.geo
      BY DEF Apart
    <3>1. m[k] \in 1 .. Len(stash) /\ stash'[k] = stash[m[k]] /\ stash'[k].element.geo # g
      BY <1>4
    <3>2. CASE \E j \in 1 .. Len(seq) : seq'[i] = seq[j]
      BY <3>1, <3>2 DEF Apart, Inv, PlacedOnce, OnceIn
    <3> QED BY <1>5, <3>1, <3>2
  <2> QED BY <2>1, <2>2, <2>3 DEF PlacedOnce, OnceIn
<1>11. LazyIsNonconvex'
  <2>1. ASSUME NEW i \in 1 .. Len(seq'), seq'[i].form = "lazy"
        PROVE  seq'[i].geo \in Nonconvex
    BY <1>5, <2>1 DEF LazyIsNonconvex, LazyOnlyIn, Inv
  <2>2. ASSUME NEW k \in 1 .. Len(stash'), stash'[k].element.form = "lazy"
        PROVE  stash'[k].element.geo \in Nonconvex
    <3>1. m[k] \in 1 .. Len(stash) /\ stash'[k] = stash[m[k]]
      BY <1>4
    <3> QED BY <2>2, <3>1 DEF LazyIsNonconvex, LazyOnlyIn, Inv
  <2> QED BY <2>1, <2>2 DEF LazyIsNonconvex, LazyOnlyIn
<1> QED BY <1>7, <1>8, <1>9, <1>10, <1>11 DEF Inv

\* A dead end takes at most the entry of g from the stash.
LEMMA DeadEndStep ==
  ASSUME Inv, NEW g \in Geo, DeadEnd(g)
  PROVE  /\ seq' = seq /\ options' = options /\ phase' = "pruned"
         /\ geomToggles' \in [Geo -> Nat]
         /\ stash' \in Seq(Entry) /\ Len(stash') \in Nat
         /\ \E m : /\ \A k \in 1 .. Len(stash') :
                        m[k] \in 1 .. Len(stash) /\ stash'[k] = stash[m[k]]
                   /\ \A k, l \in 1 .. Len(stash') : m[k] = m[l] => k = l
<1>1. seq' = seq /\ options' = options /\ phase' = "pruned"
  BY DEF DeadEnd
<1>2. geomToggles \in [Geo -> Nat] /\ stash \in Seq(Entry) /\ Len(stash) \in Nat
  BY GeosAsSets DEF Inv, Typed
<1>3. CASE stash' = StashWithout(g) /\ geomToggles' = Counted(g)
  <2>1. PICK m : UnstashedBy(m, stash', g)
    BY <1>3, StashWithoutSelects
  <2>2. /\ stash' \in Seq(Entry) /\ Len(stash') \in Nat
        /\ \A k \in 1 .. Len(stash') : m[k] \in 1 .. Len(stash) /\ stash'[k] = stash[m[k]]
        /\ \A k, l \in 1 .. Len(stash') : m[k] = m[l] => k = l
    BY <2>1, Unstashed
  <2> QED BY <1>1, <1>2, <1>3, <2>2, CountedOnce
<1>4. CASE UNCHANGED <<stash, geomToggles>>
  <2> DEFINE m == [k \in 1 .. Len(stash) |-> k]
  <2>1. \A k \in 1 .. Len(stash) : m[k] = k
    OBVIOUS
  <2> HIDE DEF m
  <2> QED BY <1>1, <1>2, <1>4, <2>1
<1> QED BY <1>3, <1>4 DEF DeadEnd

LEMMA DeadEndInv == ASSUME Inv, NEW g \in Geo, DeadEnd(g) PROVE Inv'
<1>1. /\ seq' = seq /\ options' = options /\ phase' = "pruned"
      /\ geomToggles' \in [Geo -> Nat] /\ stash' \in Seq(Entry)
  BY DeadEndStep
<1>2. PICK m : /\ \A k \in 1 .. Len(stash') :
                    m[k] \in 1 .. Len(stash) /\ stash'[k] = stash[m[k]]
               /\ \A k, l \in 1 .. Len(stash') : m[k] = m[l] => k = l
  BY DeadEndStep
<1>3. Typed'
  BY <1>1 DEF Inv, Typed
<1>4. FirstStays' /\ TogglesLeft' /\ LazyIsNonconvex'
  <2>1. FirstStays /\ TogglesLeft /\ LazyIsNonconvex
    BY DEF Inv
  <2>2. FirstStays'
    BY <1>1, <1>2, <2>1 DEF FirstStays, BeginsWithFirst
  <2>3. TogglesLeft'
    BY <1>2, <2>1 DEF TogglesLeft
  <2>4. LazyIsNonconvex'
    BY <1>1, <1>2, <2>1 DEF LazyIsNonconvex, LazyOnlyIn
  <2> QED BY <2>2, <2>3, <2>4
<1>5. DistinctStashed(stash')
  <2> SUFFICES ASSUME NEW k \in 1 .. Len(stash'), NEW l \in 1 .. Len(stash'),
                      stash'[k].element.geo = stash'[l].element.geo
               PROVE  k = l
    BY DEF DistinctStashed
  <2>1. m[k] \in 1 .. Len(stash) /\ m[l] \in 1 .. Len(stash)
        /\ stash[m[k]].element.geo = stash[m[l]].element.geo
    BY <1>2
  <2>2. m[k] = m[l]
    BY <2>1 DEF DistinctStashed, Inv, PlacedOnce, OnceIn
  <2> QED BY <1>2, <2>2
<1>6. DistinctIn(seq') /\ Apart(seq', stash')
  <2>1. DistinctIn(seq) /\ Apart(seq, stash)
    BY DEF Inv, PlacedOnce, OnceIn
  <2>2. Apart(seq', stash')
    BY <1>1, <1>2, <2>1 DEF Apart
  <2> QED BY <1>1, <2>1, <2>2
<1> QED BY <1>3, <1>4, <1>5, <1>6 DEF Inv, PlacedOnce, OnceIn

\* What happens elsewhere shows in the counts alone.
LEMMA ElsewhereStep ==
  ASSUME Inv, NEW g \in Geo, RestoredElsewhere(g)
  PROVE  /\ UNCHANGED <<options, phase, seq, stash>> /\ phase = "evaluated"
         /\ geomToggles' \in [Geo -> Nat] /\ geomToggles'[g] = geomToggles[g] + 1
         /\ \A h \in Geo : h # g => geomToggles'[h] = geomToggles[h]
<1>1. geomToggles \in [Geo -> Nat] /\ geomToggles' = Counted(g)
  BY DEF Inv, Typed, RestoredElsewhere
<1>2. UNCHANGED <<options, phase, seq, stash>> /\ phase = "evaluated"
  BY DEF RestoredElsewhere
<1> QED BY <1>1, <1>2, CountedOnce

LEMMA ElsewhereInv == ASSUME Inv, NEW g \in Geo, RestoredElsewhere(g) PROVE Inv'
<1>1. UNCHANGED <<options, phase, seq, stash>> /\ geomToggles' \in [Geo -> Nat]
  BY ElsewhereStep
<1> QED BY <1>1 DEF Inv, Typed, FirstStays, TogglesLeft, PlacedOnce, LazyIsNonconvex

----------------------------------------------------------------------------
(* Types *)

LEMMA NextInv == ASSUME Inv, [Next]_vars PROVE Inv'
<1>1. CASE Evaluate
  BY <1>1, EvaluateInv
<1>2. ASSUME NEW g \in Geo, Branch(g) PROVE Inv'
  BY <1>2, BranchInv
<1>3. ASSUME NEW g \in Geo, DeadEnd(g) PROVE Inv'
  BY <1>3, DeadEndInv
<1>4. ASSUME NEW g \in Geo, RestoredElsewhere(g) PROVE Inv'
  BY <1>4, ElsewhereInv
<1>5. CASE UNCHANGED vars
  BY <1>5 DEF vars, Inv, Typed, FirstStays, TogglesLeft, PlacedOnce, LazyIsNonconvex
<1> QED BY <1>1, <1>2, <1>3, <1>4, <1>5 DEF Next

LEMMA InvHolds == Spec => []Inv
<1>1. Init => Inv
  BY InitInv
<1>2. Inv /\ [Next]_vars => Inv'
  BY NextInv
<1> QED BY <1>1, <1>2, PTL DEF Spec

LEMMA InvTypeOK == ASSUME Inv PROVE TypeOK
<1>1. /\ DOMAIN seq = 1 .. Len(seq) /\ \A i \in 1 .. Len(seq) : seq[i] \in Elem
      /\ DOMAIN stash = 1 .. Len(stash) /\ \A k \in 1 .. Len(stash) : stash[k] \in Entry
  BY GeosAsSets DEF Inv
<1>2. \A ste \in ToSet(stash) : ste \in Entry
  BY <1>1 DEF ToSet
<1> QED BY <1>1, <1>2 DEF TypeOK, Inv, Typed, Elem, Entry

\* The elements that simplify() and branching move between the sequence and the
\* stash stay elements of polygons of the instance, and no element is toggled
\* more often than its own limit allows, although add_to_stash tests the limit
\* and enable, nodes later, counts (relaxed_solution.cpp, common.cpp enable).
\* For the count of a geometry, which all nodes share, no limit is claimed.
THEOREM TypesCorrect == Spec => []TypeOK
BY InvHolds, InvTypeOK, PTL

----------------------------------------------------------------------------
(* Nothing is forgotten, and every step leaves less to do *)

\* The polygons that have an element, and those whose element is not lazy.
PlacedGeos == SeqGeos \cup StashGeos
ResolvedGeos == GeosOf({e \in Placed : e.form # "lazy"})
Missing == Geo \ GeosOf(Placed)
Unresolved == Nonconvex \ ResolvedGeos
TogglesToGo == {t \in Geo \X (1 .. MaxTeToggle) :
                  \A e \in Placed : e.geo = t[1] => e.toggles < t[2]}

LEMMA PlacedAsSet ==
  ASSUME Typed
  PROVE  /\ Placed = {seq[i] : i \in 1 .. Len(seq)} \cup {stash[k].element : k \in 1 .. Len(stash)}
         /\ GeosOf(Placed) = PlacedGeos
<1>1. Placed = {seq[i] : i \in 1 .. Len(seq)} \cup {stash[k].element : k \in 1 .. Len(stash)}
  BY GeosAsSets DEF Placed, ToSet
<1>2. GeosOf(Placed) = PlacedGeos
  BY <1>1, GeosAsSets DEF GeosOf, PlacedGeos
<1> QED BY <1>1, <1>2

\* The same of the next state.
LEMMA PlacedNext ==
  ASSUME Typed'
  PROVE  /\ Len(seq') \in Nat /\ Len(stash') \in Nat
         /\ Placed' = {seq'[i] : i \in 1 .. Len(seq')}
                         \cup {stash'[k].element : k \in 1 .. Len(stash')}
         /\ SeqGeos' = {seq'[i].geo : i \in 1 .. Len(seq')}
         /\ StashGeos' = {stash'[k].element.geo : k \in 1 .. Len(stash')}
         /\ GeosOf(Placed') = PlacedGeos'
<1>1. /\ Len(seq') \in Nat /\ DOMAIN seq' = 1 .. Len(seq')
      /\ Len(stash') \in Nat /\ DOMAIN stash' = 1 .. Len(stash')
  BY DEF Typed
<1>2. Placed' = {seq'[i] : i \in 1 .. Len(seq')}
                   \cup {stash'[k].element : k \in 1 .. Len(stash')}
  BY <1>1 DEF Placed, ToSet
<1>3. SeqGeos' = {seq'[i].geo : i \in 1 .. Len(seq')}
  BY <1>1 DEF SeqGeos, GeosOf, ToSet
<1>4. StashGeos' = {stash'[k].element.geo : k \in 1 .. Len(stash')}
  BY <1>1 DEF StashGeos, ToSet
<1>5. GeosOf(Placed') = PlacedGeos'
  BY <1>2, <1>3, <1>4 DEF GeosOf, PlacedGeos
<1> QED BY <1>1, <1>2, <1>3, <1>4, <1>5

\* Simplifying moves elements to the stash and changes none.
LEMMA EvaluatePlaces == ASSUME Inv, Evaluate PROVE Placed' = Placed
<1>1. PICK rs \in SUBSET (2 .. Len(seq)) :
        /\ seq' \in Seq(Elem) /\ \E m : Selects(m, seq', seq, rs, Len(seq))
        /\ Continues(stash', stash, seq, rs)
  BY EvaluateStep
<1>2. PICK m : Selects(m, seq', seq, rs, Len(seq))
  BY <1>1
<1>3. Typed' /\ Typed
  BY EvaluateInv DEF Inv
<1>4. /\ Placed = {seq[i] : i \in 1 .. Len(seq)} \cup {stash[k].element : k \in 1 .. Len(stash)}
      /\ Len(stash) \in Nat /\ Len(seq) \in Nat
  BY <1>3, PlacedAsSet, GeosAsSets
<1>5. /\ Placed' = {seq'[i] : i \in 1 .. Len(seq')}
                      \cup {stash'[k].element : k \in 1 .. Len(stash')}
      /\ Len(stash') \in Nat /\ Len(seq') \in Nat
  BY <1>3, PlacedNext
<1>6. ASSUME NEW k \in 1 .. Len(stash') PROVE stash'[k].element \in Placed
  <2>1. k \in 1 .. Len(stash) \/ k \in Len(stash) + 1 .. Len(stash')
    BY <1>4, <1>5
  <2>2. CASE k \in 1 .. Len(stash)
    BY <1>1, <1>4, <2>2 DEF Continues
  <2>3. CASE k \in Len(stash) + 1 .. Len(stash')
    <3>1. PICK j \in rs : stash'[k].element = seq[j]
      BY <1>1, <2>3 DEF Continues, KnowsOrder
    <3> QED BY <1>4, <3>1
  <2> QED BY <2>1, <2>2, <2>3
<1>7. ASSUME NEW i \in 1 .. Len(seq') PROVE seq'[i] \in Placed
  BY <1>2, <1>4 DEF Selects
<1>8. ASSUME NEW k \in 1 .. Len(stash) PROVE stash[k].element \in Placed'
  <2>1. k \in 1 .. Len(stash') /\ stash'[k].element = stash[k].element
    BY <1>1, <1>4, <1>5 DEF Continues
  <2> QED BY <1>5, <2>1
<1>9. ASSUME NEW i \in 1 .. Len(seq) PROVE seq[i] \in Placed'
  <2>1. CASE i \in rs
    <3>1. PICK k \in Len(stash) + 1 .. Len(stash') : stash'[k].element = seq[i]
      BY <1>1, <2>1 DEF Continues, KnowsOrder
    <3>2. k \in 1 .. Len(stash')
      BY <1>4, <1>5
    <3> QED BY <1>5, <3>1, <3>2
  <2>2. CASE i \notin rs
    BY <1>2, <1>5, <2>2 DEF Selects
  <2> QED BY <2>1, <2>2
<1> HIDE DEF Placed
<1>10. Placed' \subseteq Placed
  BY <1>5, <1>6, <1>7
<1>11. Placed \subseteq Placed'
  BY <1>4, <1>8, <1>9
<1> QED BY <1>10, <1>11

\* Branching on g changes the element of g alone.
LEMMA BranchPlaces ==
  ASSUME Inv, NEW g \in Geo, Branch(g)
  PROVE  /\ \A e \in Placed : e.geo # g => e \in Placed'
         /\ g \in PlacedGeos'
<1>1. /\ g \in Branchable /\ seq' \in Proposed(g) /\ \E m : UnstashedBy(m, stash', g)
  BY BranchStep
<1>2. Resolves(seq', g) \/ (g \notin SeqGeos /\ \E k, e : InsertsAt(seq', g, k, e))
  BY <1>1, ProposedShape
<1>3. Typed' /\ Typed
  BY BranchInv DEF Inv
<1>4. Placed = {seq[i] : i \in 1 .. Len(seq)} \cup {stash[k].element : k \in 1 .. Len(stash)}
  BY <1>3, PlacedAsSet
<1>5. /\ Placed' = {seq'[i] : i \in 1 .. Len(seq')}
                      \cup {stash'[k].element : k \in 1 .. Len(stash')}
      /\ SeqGeos' = {seq'[i].geo : i \in 1 .. Len(seq')}
  BY <1>3, PlacedNext
<1>6. PICK m : UnstashedBy(m, stash', g)
  BY <1>1
<1>7. ASSUME NEW j \in 1 .. Len(stash), stash[j].element.geo # g
      PROVE  stash[j].element \in Placed'
  <2>1. \E k \in 1 .. Len(stash') : stash'[k] = stash[j]
    BY <1>6, <1>7, Unstashed
  <2> QED BY <1>5, <2>1
<1>8. ASSUME NEW j \in 1 .. Len(seq), seq[j].geo # g
      PROVE  \E i \in 1 .. Len(seq') : seq'[i] = seq[j]
  <2>1. CASE Resolves(seq', g)
    <3>1. PICK i \in 1 .. Len(seq), form \in Parts \cup {"exact"} :
            seq[i].geo = g /\ seq' = [seq EXCEPT ![i] = Element(g, form)]
      BY <2>1 DEF Resolves
    <3>2. Len(seq') = Len(seq) /\ seq'[j] = seq[j]
      <4> DEFINE e == Element(g, form)
      <4> HIDE DEF e
      <4> QED BY <1>3, <1>8, <3>1 DEF e, Typed
    <3> QED BY <3>2
  <2>2. CASE \E k, e : InsertsAt(seq', g, k, e)
    <3>1. PICK k, e : InsertsAt(seq', g, k, e)
      BY <2>2
    <3>2. Spreads(seq', seq, k, e)
      BY <3>1, InsertsPlaces
    <3> QED BY <3>2 DEF Spreads
  <2> QED BY <1>2, <2>1, <2>2
<1>9. g \in SeqGeos'
  BY <1>2, <1>5, ProposedElements
<1> QED BY <1>4, <1>5, <1>7, <1>8, <1>9 DEF PlacedGeos

\* A greater number takes the product with c + 1 at least c + 1 further.
LEMMA ProductGrows ==
  ASSUME NEW c \in Nat, NEW x \in Nat, NEW y \in Nat
  PROVE  /\ (c + 1) * x \in Nat
         /\ x <= y => (c + 1) * x <= (c + 1) * y
         /\ x < y => (c + 1) * x + c < (c + 1) * y
<1>1. (c + 1) * x \in Nat
  OBVIOUS
<1>2. ASSUME x <= y PROVE (c + 1) * x <= (c + 1) * y
  <2>1. PICK d \in Nat : y = x + d
    <3>1. y - x \in Nat /\ y = x + (y - x)
      BY <1>2
    <3> QED BY <3>1
  <2>2. (c + 1) * y = (c + 1) * x + (c + 1) * d /\ (c + 1) * d \in Nat
    BY <2>1
  <2> QED BY <1>1, <2>2
<1>3. ASSUME x < y PROVE (c + 1) * x + c < (c + 1) * y
  <2>1. PICK d \in Nat : y = x + 1 + d
    <3>1. y - x - 1 \in Nat /\ y = x + 1 + (y - x - 1)
      BY <1>3
    <3> QED BY <3>1
  <2>2. (c + 1) * y = (c + 1) * x + (c + 1) + (c + 1) * d /\ (c + 1) * d \in Nat
    BY <2>1
  <2> QED BY <1>1, <2>2
<1> QED BY <1>1, <1>2, <1>3

\* Of the first two sets nothing is added; what is added to the third is no more
\* than what one member of the second weighs over.
LEMMA WorkShrinks ==
  ASSUME NEW A, NEW B, NEW C, NEW E, IsFiniteSet(A), IsFiniteSet(B), IsFiniteSet(C),
         IsFiniteSet(E), NEW c \in Nat, Cardinality(E) = c,
         NEW A2 \in SUBSET A, NEW B2 \in SUBSET B, NEW C2,
         \/ C2 \subseteq C /\ (A2 # A \/ C2 # C)
         \/ C2 \subseteq C \cup E /\ B2 # B
  PROVE  Cardinality(A2) + (c + 1) * Cardinality(B2) + Cardinality(C2)
           < Cardinality(A) + (c + 1) * Cardinality(B) + Cardinality(C)
<1> DEFINE a == Cardinality(A)
           b == Cardinality(B)
           w == Cardinality(C)
           a2 == Cardinality(A2)
           b2 == Cardinality(B2)
           w2 == Cardinality(C2)
<1>1. a \in Nat /\ b \in Nat /\ w \in Nat
  BY FS_CardinalityType
<1>2. IsFiniteSet(A2) /\ a2 <= a /\ (A2 # A => a2 # a)
  BY FS_Subset
<1>3. IsFiniteSet(B2) /\ b2 <= b /\ (B2 # B => b2 # b)
  BY FS_Subset
<1>4. a2 \in Nat /\ b2 \in Nat
  BY <1>2, <1>3, FS_CardinalityType
<1>5. CASE C2 \subseteq C /\ (A2 # A \/ C2 # C)
  <2>1. IsFiniteSet(C2) /\ w2 <= w /\ (C2 # C => w2 # w)
    BY <1>5, FS_Subset
  <2>2. w2 \in Nat
    BY <2>1, FS_CardinalityType
  <2>3. (c + 1) * b2 \in Nat /\ (c + 1) * b \in Nat /\ (c + 1) * b2 <= (c + 1) * b
    <3> HIDE DEF b, b2
    <3> QED BY <1>1, <1>3, <1>4, ProductGrows
  <2> DEFINE p == (c + 1) * b
             p2 == (c + 1) * b2
  <2>4. p \in Nat /\ p2 \in Nat /\ p2 <= p
    BY <2>3
  <2>5. a2 + p2 + w2 < a + p + w
    <3> HIDE DEF a, w, a2, w2, p, p2
    <3> QED BY <1>1, <1>2, <1>4, <1>5, <2>1, <2>2, <2>4
  <2> QED BY <2>5
<1>6. CASE C2 \subseteq C \cup E /\ B2 # B
  <2>1. IsFiniteSet(C \cup E) /\ Cardinality(C \cup E) = w + c - Cardinality(C \cap E)
    BY FS_Union
  <2>2. Cardinality(C \cap E) \in Nat
    <3>1. IsFiniteSet(C \cap E)
      BY FS_Subset
    <3> QED BY <3>1, FS_CardinalityType
  <2>3. IsFiniteSet(C2) /\ w2 <= Cardinality(C \cup E)
    BY <1>6, <2>1, FS_Subset
  <2>4. w2 \in Nat
    BY <2>3, FS_CardinalityType
  <2>5. w2 <= w + c
    <3> HIDE DEF w, w2
    <3> QED BY <1>1, <2>1, <2>2, <2>3, <2>4
  <2>6. (c + 1) * b2 \in Nat /\ (c + 1) * b \in Nat /\ (c + 1) * b2 + c < (c + 1) * b
    <3>1. b2 < b
      <4> HIDE DEF b, b2
      <4> QED BY <1>1, <1>3, <1>4, <1>6
    <3> HIDE DEF b, b2
    <3> QED BY <1>1, <1>4, <3>1, ProductGrows
  <2> DEFINE p == (c + 1) * b
             p2 == (c + 1) * b2
  <2>7. p \in Nat /\ p2 \in Nat /\ p2 + c < p
    BY <2>6
  <2>8. a2 + p2 + w2 < a + p + w
    <3> HIDE DEF a, w, a2, w2, p, p2
    <3> QED BY <1>1, <1>2, <1>4, <2>4, <2>5, <2>7
  <2> QED BY <2>8
<1> QED BY <1>5, <1>6

\* What can be left to do, and what one more element adds to it.
LEMMA WorkIsFinite ==
  /\ IsFiniteSet(Missing) /\ IsFiniteSet(Unresolved) /\ IsFiniteSet(TogglesToGo)
  /\ \A g : IsFiniteSet({g} \X (1 .. MaxTeToggle))
            /\ Cardinality({g} \X (1 .. MaxTeToggle)) = MaxTeToggle
<1>1. /\ IsFiniteSet(Geo) /\ IsFiniteSet(1 .. MaxTeToggle) /\ MaxTeToggle \in Nat
      /\ Cardinality(1 .. MaxTeToggle) = MaxTeToggle
  BY PartialSequenceAssumption, FS_Interval DEF Geo
<1>2. IsFiniteSet(Geo \X (1 .. MaxTeToggle))
  BY <1>1, FS_Product
<1>3. Missing \subseteq Geo /\ Unresolved \subseteq Geo
      /\ TogglesToGo \subseteq Geo \X (1 .. MaxTeToggle)
  BY PartialSequenceAssumption DEF Missing, Unresolved, TogglesToGo
<1>4. ASSUME NEW g
      PROVE  IsFiniteSet({g} \X (1 .. MaxTeToggle))
             /\ Cardinality({g} \X (1 .. MaxTeToggle)) = MaxTeToggle
  <2>1. IsFiniteSet({g}) /\ Cardinality({g}) = 1
    BY FS_Singleton
  <2>2. IsFiniteSet({g} \X (1 .. MaxTeToggle))
        /\ Cardinality({g} \X (1 .. MaxTeToggle)) = 1 * Cardinality(1 .. MaxTeToggle)
    BY <1>1, <2>1, FS_Product
  <2> QED BY <1>1, <2>2
<1>5. IsFiniteSet(Missing) /\ IsFiniteSet(Unresolved) /\ IsFiniteSet(TogglesToGo)
  BY <1>1, <1>2, <1>3, FS_Subset
<1> QED BY <1>4, <1>5

\* Branching takes away one thing that was left to do.  It adds toggles only for
\* the element that resolves a nonconvex polygon.
LEMMA BranchAdvances ==
  ASSUME Inv, NEW g \in Geo, Branch(g)
  PROVE  /\ Missing' \subseteq Missing /\ Unresolved' \subseteq Unresolved
         /\ \/ /\ TogglesToGo' \subseteq TogglesToGo
               /\ Missing' # Missing \/ TogglesToGo' # TogglesToGo
            \/ /\ TogglesToGo' \subseteq TogglesToGo \cup ({g} \X (1 .. MaxTeToggle))
               /\ Unresolved' # Unresolved
<1>1. g \in Branchable /\ seq' \in Proposed(g)
  BY BranchStep
<1>2. Typed /\ Typed'
  BY BranchInv DEF Inv
<1>3. /\ Placed = {seq[i] : i \in 1 .. Len(seq)} \cup {stash[k].element : k \in 1 .. Len(stash)}
      /\ GeosOf(Placed) = PlacedGeos
      /\ SeqGeos = {seq[i].geo : i \in 1 .. Len(seq)}
      /\ StashGeos = {stash[k].element.geo : k \in 1 .. Len(stash)}
  BY <1>2, PlacedAsSet, GeosAsSets
<1>4. /\ Placed' = {seq'[i] : i \in 1 .. Len(seq')}
                      \cup {stash'[k].element : k \in 1 .. Len(stash')}
      /\ GeosOf(Placed') = PlacedGeos'
  BY <1>2, PlacedNext
<1>5. (\A e \in Placed : e.geo # g => e \in Placed') /\ g \in PlacedGeos'
  BY BranchPlaces
<1>6. \/ g \in SeqGeos /\ Resolves(seq', g)
      \/ g \notin SeqGeos /\ Restores(seq', g)
      \/ g \notin SeqGeos /\ Extends(seq', g)
  BY <1>1, ProposedSteps
<1>7. PlacedGeos \subseteq PlacedGeos'
  BY <1>3, <1>4, <1>5 DEF GeosOf
<1>8. Missing' \subseteq Missing
  BY <1>3, <1>4, <1>7 DEF Missing
\* The other polygons' toggles stay as they are.
<1>9. \A t \in TogglesToGo' : t \in Geo \X (1 .. MaxTeToggle) /\ (t[1] # g => t \in TogglesToGo)
  BY <1>5 DEF TogglesToGo
\* The lazy element of g is replaced by another.
<1>10. ASSUME g \in SeqGeos, Resolves(seq', g)
       PROVE  g \in Unresolved /\ \E e \in Placed' : e.geo = g /\ e.form # "lazy"
  <2>1. PICK i \in 1 .. Len(seq), form \in Parts \cup {"exact"} :
          /\ seq[i].geo = g /\ seq[i].form = "lazy"
          /\ seq' = [seq EXCEPT ![i] = Element(g, form)]
    BY <1>10 DEF Resolves
  <2> DEFINE e == Element(g, form)
  <2>2. e.geo = g /\ e.form # "lazy"
    BY PartialSequenceAssumption DEF Element
  <2> HIDE DEF e
  <2>3. i \in 1 .. Len(seq') /\ seq'[i] = e
    BY <1>2, <2>1 DEF Typed, e
  <2>4. e \in Placed'
    BY <1>4, <2>3
  <2>5. \A d \in Placed : d.geo = g => d.form = "lazy"
    BY <1>3, <2>1 DEF Inv, PlacedOnce, OnceIn, DistinctIn, Apart
  <2>6. g \in Nonconvex
    BY <2>1 DEF Inv, LazyIsNonconvex, LazyOnlyIn
  <2> QED BY <2>2, <2>4, <2>5, <2>6 DEF Unresolved, ResolvedGeos, GeosOf
\* A stashed element keeps its form when it is restored.
<1>11. ASSUME g \notin SeqGeos, NEW d \in Placed, d.geo = g, d.form # "lazy"
       PROVE  \E e \in Placed' : e.geo = g /\ e.form # "lazy"
  <2>1. PICK b \in 1 .. Len(stash) : d = stash[b].element
    BY <1>3, <1>11
  <2>2. g \in StashGeos
    BY <1>3, <1>11, <2>1
  <2>3. PICK a \in 1 .. Len(stash), k \in 1 .. Len(seq), e \in Elem :
          stash[a].element.geo = g /\ InsertsAt(seq', g, k, e) /\ e.form = stash[a].element.form
    BY <1>6, <1>11, <2>2 DEF Restores, Extends
  <2>4. a = b /\ e.geo = g
    BY <1>11, <2>1, <2>3 DEF Inv, PlacedOnce, OnceIn, DistinctStashed, InsertsAt
  <2>5. \E i \in 1 .. Len(seq') : seq'[i] = e
    <3>1. Spreads(seq', seq, k, e)
      BY <2>3, InsertsPlaces
    <3> QED BY <3>1 DEF Spreads
  <2> QED BY <1>4, <1>11, <2>1, <2>3, <2>4, <2>5
<1>12. ResolvedGeos \subseteq ResolvedGeos'
  <2>1. ASSUME NEW d \in Placed, d.form # "lazy"
        PROVE  \E e \in Placed' : e.geo = d.geo /\ e.form # "lazy"
    <3>1. CASE d.geo # g
      BY <1>5, <2>1, <3>1
    <3>2. CASE d.geo = g /\ g \in SeqGeos
      <4>1. Resolves(seq', g)
        BY <1>6, <3>2
      <4> QED BY <1>10, <3>2, <4>1
    <3>3. CASE d.geo = g /\ g \notin SeqGeos
      BY <1>11, <2>1, <3>3
    <3> QED BY <3>1, <3>2, <3>3
  <2> QED BY <2>1 DEF ResolvedGeos, GeosOf
<1>13. Unresolved' \subseteq Unresolved
  BY <1>12 DEF Unresolved
<1>14. CASE g \in SeqGeos /\ Resolves(seq', g)
  <2>1. g \in Unresolved /\ g \notin Unresolved'
    BY <1>10, <1>14 DEF Unresolved, ResolvedGeos, GeosOf
  <2>2. TogglesToGo' \subseteq TogglesToGo \cup ({g} \X (1 .. MaxTeToggle))
    <3> SUFFICES ASSUME NEW t \in TogglesToGo', t[1] = g PROVE t \in {g} \X (1 .. MaxTeToggle)
      BY <1>9
    <3> QED BY <1>9
  <2> QED BY <1>8, <1>13, <2>1, <2>2
\* A restored element has been toggled once more.
<1>15. CASE g \notin SeqGeos /\ Restores(seq', g)
  <2>1. PICK a \in 1 .. Len(stash), k \in 1 .. Len(seq), e \in Elem :
          /\ stash[a].element.geo = g /\ InsertsAt(seq', g, k, e)
          /\ e.toggles = stash[a].element.toggles + 1
    BY <1>15 DEF Restores
  <2> DEFINE old == stash[a].element
             t == <<g, e.toggles>>
  <2>2. e \in Placed' /\ e.geo = g /\ e.toggles = old.toggles + 1
    <3>1. Spreads(seq', seq, k, e)
      BY <2>1, InsertsPlaces
    <3>2. \E i \in 1 .. Len(seq') : seq'[i] = e
      BY <3>1 DEF Spreads
    <3> QED BY <1>4, <2>1, <3>2 DEF InsertsAt
  <2>3. \A d \in Placed : d.geo = g => d = old
    BY <1>3, <1>15, <2>1 DEF Inv, PlacedOnce, OnceIn, DistinctStashed
  <2>4. old.toggles \in Nat /\ e.toggles \in 1 .. MaxTeToggle /\ MaxTeToggle \in Nat
    <3>1. old \in Elem
      BY <1>2, GeosAsSets
    <3>2. old.toggles \in Nat /\ e.toggles \in 0 .. MaxTeToggle
      BY <3>1 DEF Elem
    <3> QED BY <2>2, <3>2, PartialSequenceAssumption
  <2> HIDE DEF old
  <2>5. t \in TogglesToGo
    BY <2>2, <2>3, <2>4 DEF TogglesToGo
  <2>6. t \notin TogglesToGo'
    BY <2>2, <2>4 DEF TogglesToGo
  <2>7. ASSUME NEW u \in TogglesToGo', u[1] = g PROVE u \in TogglesToGo
    <3>1. u \in Geo \X (1 .. MaxTeToggle) /\ e.toggles < u[2]
      BY <2>2, <2>7 DEF TogglesToGo
    <3>2. old.toggles < u[2]
      BY <2>2, <2>4, <3>1
    <3> QED BY <2>3, <2>7, <3>1, <3>2 DEF TogglesToGo
  <2> QED BY <1>8, <1>9, <1>13, <2>5, <2>6, <2>7
<1>16. CASE g \notin SeqGeos /\ g \notin StashGeos
  <2>1. g \in Missing /\ g \notin Missing'
    BY <1>3, <1>4, <1>5, <1>16 DEF Missing, PlacedGeos
  <2>2. \A d \in Placed : d.geo # g
    BY <1>3, <1>16 DEF PlacedGeos, GeosOf
  <2>3. \A t \in TogglesToGo' : t \in TogglesToGo
    BY <1>9, <2>2 DEF TogglesToGo
  <2> QED BY <1>8, <1>13, <2>1, <2>3
<1>17. g \in StashGeos \/ g \notin StashGeos
  OBVIOUS
<1> QED BY <1>6, <1>14, <1>15, <1>16, <1>17 DEF Extends

\* There are as many elements as polygons that have one.
LEMMA OneElementEach ==
  ASSUME NEW s \in Seq(Elem), NEW st \in Seq(Entry), OnceIn(s, st)
  PROVE  Len(s) + Len(st)
           = Cardinality({s[i].geo : i \in 1 .. Len(s)}
                            \cup {st[k].element.geo : k \in 1 .. Len(st)})
<1> DEFINE n == Len(s)
           m == Len(st)
           S == {s[i].geo : i \in 1 .. n} \cup {st[k].element.geo : k \in 1 .. m}
           f == [x \in 1 .. n + m |-> IF x <= n THEN s[x].geo ELSE st[x - n].element.geo]
<1>1. n \in Nat /\ m \in Nat
  OBVIOUS
<1>2. \A x \in 1 .. n + m : (x \in 1 .. n /\ x <= n) \/ (x - n \in 1 .. m /\ ~ (x <= n))
  BY <1>1
<1>3. /\ \A i \in 1 .. n, j \in 1 .. n : s[i].geo = s[j].geo => i = j
      /\ \A k \in 1 .. m, l \in 1 .. m : st[k].element.geo = st[l].element.geo => k = l
      /\ \A i \in 1 .. n, k \in 1 .. m : s[i].geo # st[k].element.geo
  BY DEF OnceIn, DistinctIn, DistinctStashed, Apart
<1> HIDE DEF n, m
<1>4. \A x \in 1 .. n + m : f[x] = IF x <= n THEN s[x].geo ELSE st[x - n].element.geo
  OBVIOUS
<1>5. f \in [1 .. n + m -> S]
  BY <1>2
<1>6. ASSUME NEW x \in 1 .. n + m, NEW y \in 1 .. n + m, f[x] = f[y] PROVE x = y
  <2>1. CASE x <= n /\ y <= n
    BY <1>2, <1>3, <1>4, <1>6, <2>1
  <2>2. CASE ~ (x <= n) /\ ~ (y <= n)
    <3>1. x - n = y - n
      BY <1>2, <1>3, <1>4, <1>6, <2>2
    <3> QED BY <1>1, <3>1
  <2>3. ~ (x <= n /\ ~ (y <= n)) /\ ~ (~ (x <= n) /\ y <= n)
    BY <1>2, <1>3, <1>4, <1>6
  <2> QED BY <2>1, <2>2, <2>3
<1>7. ASSUME NEW g \in S PROVE \E x \in 1 .. n + m : f[x] = g
  <2>1. CASE \E i \in 1 .. n : g = s[i].geo
    <3>1. PICK i \in 1 .. n : g = s[i].geo
      BY <2>1
    <3>2. i \in 1 .. n + m /\ i <= n
      BY <1>1
    <3> QED BY <1>4, <3>1, <3>2
  <2>2. CASE \E k \in 1 .. m : g = st[k].element.geo
    <3>1. PICK k \in 1 .. m : g = st[k].element.geo
      BY <2>2
    <3>2. n + k \in 1 .. n + m /\ ~ (n + k <= n) /\ (n + k) - n = k
      BY <1>1
    <3> QED BY <1>4, <3>1, <3>2
  <2> QED BY <2>1, <2>2
<1> HIDE DEF f, S
<1>8. f \in Bijection(1 .. n + m, S)
  BY <1>5, <1>6, <1>7 DEF Bijection, Injection, Surjection, IsInjective
<1>9. ExistsBijection(1 .. n + m, S) /\ n + m \in Nat
  BY <1>1, <1>8 DEF ExistsBijection
<1>10. Cardinality(S) = n + m
  BY <1>9, FS_CountingElements
<1> QED BY <1>10 DEF S, n, m

\* Whatever moves between the sequence and the stash, no polygon that has an
\* element ever loses it, or gets a second one (relaxed_solution.cpp simplify,
\* remove_from_stash).
THEOREM ElementsKept == Spec => NothingForgotten
<1>1. ASSUME Inv, [Next]_vars, phase' # "pruned" PROVE PlacedGeos \subseteq PlacedGeos'
  <2>1. CASE Evaluate
    <3>1. Typed /\ Typed' /\ Placed' = Placed
      BY <1>1, <2>1, EvaluateInv, EvaluatePlaces DEF Inv
    <3> QED BY <3>1, PlacedAsSet, PlacedNext
  <2>2. ASSUME NEW g \in Geo, Branch(g) PROVE PlacedGeos \subseteq PlacedGeos'
    <3>1. Typed /\ Typed'
      BY <1>1, <2>2, BranchInv DEF Inv
    <3>2. (\A e \in Placed : e.geo # g => e \in Placed') /\ g \in PlacedGeos'
      BY <1>1, <2>2, BranchPlaces
    <3>3. GeosOf(Placed) = PlacedGeos /\ GeosOf(Placed') = PlacedGeos'
      BY <3>1, PlacedAsSet, PlacedNext
    <3> QED BY <3>2, <3>3 DEF GeosOf
  <2>3. CASE (\E g \in Geo : RestoredElsewhere(g)) \/ UNCHANGED vars
    BY <2>3 DEF RestoredElsewhere, vars, PlacedGeos, SeqGeos, StashGeos
  <2>4. \A g \in Geo : ~ DeadEnd(g)
    BY <1>1 DEF DeadEnd
  <2> QED BY <1>1, <2>1, <2>2, <2>3, <2>4 DEF Next
<1>2. ASSUME Inv, [Next]_vars
      PROVE  Len(seq') + Len(stash') = Cardinality(SeqGeos' \cup StashGeos')
  <2>1. /\ seq' \in Seq(Elem) /\ stash' \in Seq(Entry) /\ OnceIn(seq', stash')
    BY <1>2, NextInv DEF Inv, Typed, PlacedOnce
  <2>2. /\ SeqGeos' = {seq'[i].geo : i \in 1 .. Len(seq')}
        /\ StashGeos' = {stash'[k].element.geo : k \in 1 .. Len(stash')}
    BY <2>1 DEF SeqGeos, StashGeos, GeosOf, ToSet
  <2> QED BY <2>1, <2>2, OneElementEach
<1>3. Inv /\ [Next]_vars =>
        [/\ phase' # "pruned" => SeqGeos \cup StashGeos \subseteq SeqGeos' \cup StashGeos'
         /\ Len(seq') + Len(stash') = Cardinality(SeqGeos' \cup StashGeos')]_vars
  BY <1>1, <1>2 DEF PlacedGeos
<1> QED BY <1>3, InvHolds, PTL DEF Spec, NothingForgotten

\* No path of the search tree is infinite: on the way down every child leaves
\* fewer polygons to place, nonconvex ones to resolve and toggles to use than
\* its parent, however often other subtrees restore the same polygons
\* (branching_strategy.cpp branch, common.cpp can_be_disabled).
THEOREM DescentEnds == Spec => DepthBounded
<1> DEFINE Work(a, b, w) ==
             Cardinality(a) + (MaxTeToggle + 1) * Cardinality(b) + Cardinality(w)
<1>1. LeftToDo = Work(Missing, Unresolved, TogglesToGo)
  BY DEF LeftToDo, Missing, Unresolved, ResolvedGeos, TogglesToGo
<1>2. LeftToDo' = Work(Missing', Unresolved', TogglesToGo')
  BY DEF LeftToDo, Missing, Unresolved, ResolvedGeos, TogglesToGo
<1>3. ASSUME Inv, Next
      PROVE  /\ phase' # "pruned" => LeftToDo' <= LeftToDo
             /\ phase' = "created" => LeftToDo' < LeftToDo
  <2>1. /\ Cardinality(Missing) \in Nat /\ Cardinality(Unresolved) \in Nat
        /\ Cardinality(TogglesToGo) \in Nat /\ MaxTeToggle \in Nat
    BY WorkIsFinite, FS_CardinalityType, PartialSequenceAssumption
  <2>2. LeftToDo \in Nat
    BY <1>1, <2>1, ProductGrows
  <2>3. CASE Evaluate
    <3>1. Placed' = Placed /\ phase' = "evaluated"
      BY <1>3, <2>3, EvaluatePlaces DEF Evaluate
    <3>2. LeftToDo' = LeftToDo
      BY <3>1 DEF LeftToDo
    <3> QED BY <2>2, <3>1, <3>2
  <2>4. ASSUME NEW g \in Geo, Branch(g) PROVE LeftToDo' \in Int /\ LeftToDo' < LeftToDo
    <3> DEFINE E == {g} \X (1 .. MaxTeToggle)
    <3>1. /\ Missing' \in SUBSET Missing /\ Unresolved' \in SUBSET Unresolved
          /\ \/ TogglesToGo' \subseteq TogglesToGo
                /\ (Missing' # Missing \/ TogglesToGo' # TogglesToGo)
             \/ TogglesToGo' \subseteq TogglesToGo \cup E /\ Unresolved' # Unresolved
      BY <1>3, <2>4, BranchAdvances
    <3>2. /\ IsFiniteSet(Missing) /\ IsFiniteSet(Unresolved) /\ IsFiniteSet(TogglesToGo)
          /\ IsFiniteSet(E) /\ Cardinality(E) = MaxTeToggle
      BY WorkIsFinite
    <3>3. IsFiniteSet(Missing') /\ IsFiniteSet(Unresolved') /\ IsFiniteSet(TogglesToGo')
      <4>1. IsFiniteSet(TogglesToGo \cup E)
        BY <3>2, FS_Union
      <4> QED BY <3>1, <3>2, <4>1, FS_Subset
    <3>4. /\ Cardinality(Missing') \in Nat /\ Cardinality(Unresolved') \in Nat
          /\ Cardinality(TogglesToGo') \in Nat
      BY <3>3, FS_CardinalityType
    <3> HIDE DEF E
    <3>5. Work(Missing', Unresolved', TogglesToGo') < Work(Missing, Unresolved, TogglesToGo)
      BY <2>1, <3>1, <3>2, WorkShrinks
    <3>6. Work(Missing', Unresolved', TogglesToGo') \in Nat
      BY <2>1, <3>4, ProductGrows
    <3> QED BY <1>1, <1>2, <3>5, <3>6
  <2>5. ASSUME NEW g \in Geo, DeadEnd(g) PROVE phase' = "pruned"
    BY <2>5 DEF DeadEnd
  <2>6. ASSUME NEW g \in Geo, RestoredElsewhere(g)
        PROVE  LeftToDo' = LeftToDo /\ phase' = "evaluated"
    <3>1. Placed' = Placed /\ phase' = "evaluated"
      BY <2>6 DEF RestoredElsewhere, Placed
    <3> QED BY <3>1 DEF LeftToDo
  <2>7. PICK g \in Geo : Evaluate \/ Branch(g) \/ DeadEnd(g) \/ RestoredElsewhere(g)
    <3>1. 1 \in Geo
      BY PartialSequenceAssumption DEF Geo
    <3> QED BY <1>3, <3>1 DEF Next
  <2> QED BY <2>2, <2>3, <2>4, <2>5, <2>6, <2>7
<1>4. Inv /\ [Next]_vars =>
        [/\ phase' # "pruned" => LeftToDo' <= LeftToDo
         /\ phase' = "created" => LeftToDo' < LeftToDo]_vars
  BY <1>3
<1> QED BY <1>4, InvHolds, PTL DEF Spec, DepthBounded

----------------------------------------------------------------------------
(* What simplifying writes into the stash is true of every tour it held *)

\* If what was known holds in a relation that is transitive through everything
\* that is stashed, so does what is known after simplifying.
LEMMA StashedRespects ==
  ASSUME NEW st \in Seq(Entry), NEW s \in Seq(Elem), NEW rs \in SUBSET (1 .. Len(s)), NEW R,
         AllRespect(st, R),
         \A i \in rs : Respects(Fresh(s, i), R) /\ ComposesAt(R, s[i].geo),
         \A k \in 1 .. Len(st) : ComposesAt(R, st[k].element.geo),
         NEW last \in 0 .. Len(s)
  PROVE  AllRespect(Stashed(st, s, rs)[last], R)
<1> DEFINE n == Len(s)
           stashed == Stashed(st, s, rs)
           P == {i \in 0 .. n : AllRespect(stashed[i], R)}
<1>1. n \in Nat /\ n \in 0 .. n
  OBVIOUS
<1>2. /\ stashed \in [0 .. n -> Seq(Entry)] /\ stashed[0] = st
      /\ \A i \in 1 .. n :
           stashed[i] = IF i \in rs THEN AddToStash(stashed[i - 1], s, i) ELSE stashed[i - 1]
  BY StashedDef
<1>3. \A i \in 0 .. n : Continues(stashed[i], st, s, rs \cap (1 .. i))
  BY StashedContinues
<1> HIDE DEF stashed
<1>4. 0 \in P
  BY <1>1, <1>2
<1>5. ASSUME NEW i \in 1 .. n, i - 1 \in P PROVE i \in P
  <2> DEFINE mid == stashed[i - 1]
  <2>a. i \in 0 .. n /\ i - 1 \in 0 .. n
    BY <1>1
  <2>b. AllRespect(mid, R)
    BY <1>5
  <2>1. /\ i \in 0 .. n /\ i - 1 \in 0 .. n /\ mid \in Seq(Entry) /\ AllRespect(mid, R)
        /\ Continues(mid, st, s, rs \cap (1 .. i - 1))
    BY <1>2, <1>3, <2>a, <2>b
  <2>2. ASSUME NEW k \in 1 .. Len(mid) PROVE ComposesAt(R, mid[k].element.geo)
    <3>1. k \in 1 .. Len(st) \/ k \in Len(st) + 1 .. Len(mid)
      <4>1. Len(st) \in Nat /\ Len(mid) \in Nat
        BY <2>1
      <4> QED BY <4>1
    <3>2. CASE k \in 1 .. Len(st)
      BY <2>1, <3>2 DEF Continues
    <3>3. CASE k \in Len(st) + 1 .. Len(mid)
      <4>1. PICK j \in rs \cap (1 .. i - 1) : mid[k].element = s[j]
        BY <2>1, <3>3 DEF Continues, KnowsOrder
      <4> QED BY <4>1
    <3> QED BY <3>1, <3>2, <3>3
  <2>3. CASE i \in rs
    <3>1. stashed[i] = AddToStash(mid, s, i)
      BY <1>2, <2>3
    <3> HIDE DEF mid
    <3>2. AllRespect(AddToStash(mid, s, i), R)
      BY <2>1, <2>2, <2>3, AddedRespects
    <3> QED BY <2>1, <3>1, <3>2
  <2>4. CASE i \notin rs
    <3>1. stashed[i] = mid
      BY <1>2, <2>4
    <3> HIDE DEF mid
    <3> QED BY <2>1, <3>1
  <2> QED BY <2>3, <2>4
<1>6. 0 .. n \subseteq P
  <2> HIDE DEF P, n
  <2> QED BY <1>1, <1>4, <1>5, IntervalInduction
<1> QED BY <1>6 DEF stashed

LEMMA StashAllRespects ==
  ASSUME NEW st \in Seq(Entry), NEW s \in Seq(Elem), NEW rs \in SUBSET (1 .. Len(s)), NEW R,
         AllRespect(st, R),
         \A i \in rs : Respects(Fresh(s, i), R) /\ ComposesAt(R, s[i].geo),
         \A k \in 1 .. Len(st) : ComposesAt(R, st[k].element.geo)
  PROVE  AllRespect(StashAll(st, s, rs), R)
<1>1. Len(s) \in Nat /\ Len(s) \in 0 .. Len(s)
  OBVIOUS
<1> QED BY <1>1, StashedRespects DEF StashAll

\* The order in which the tour visits the polygons.
TourOrder == {p \in Geo \X Geo : p[1] < p[2]}

LEMMA TourOrderComposes == \A g \in Geo : ComposesAt(TourOrder, g)
BY PartialSequenceAssumption DEF TourOrder, ComposesAt, Geo

\* A node that admits the tour, element by element.
Ascends(s) == \A i, j \in 1 .. Len(s) : i < j => s[i].geo < s[j].geo
AdmitsForms(elements) == \A e \in elements : e.form \in Parts => e.form = TourPart

LEMMA AdmitsIff ==
  ASSUME NEW s \in Seq(Elem), NEW st \in Seq(Entry)
  PROVE  AdmitsTour(s, st) <=>
           /\ Ascends(s) /\ AllRespect(st, TourOrder)
           /\ AdmitsForms(ToSet(s) \cup {ste.element : ste \in ToSet(st)})
<1>1. DOMAIN s = 1 .. Len(s) /\ DOMAIN st = 1 .. Len(st)
      /\ ToSet(st) = {st[k] : k \in 1 .. Len(st)}
  BY DEF ToSet
<1>2. \A k \in 1 .. Len(st) :
        st[k].element.geo \in Geo /\ st[k].earlier \subseteq Geo /\ st[k].later \subseteq Geo
  <2>1. \A k \in 1 .. Len(st) : st[k] \in Entry
    OBVIOUS
  <2> QED BY <2>1 DEF Entry, Elem
<1>3. ASSUME NEW k \in 1 .. Len(st)
      PROVE  Respects(st[k], TourOrder) <=>
               /\ \A x \in st[k].earlier : x < st[k].element.geo
               /\ \A x \in st[k].later : st[k].element.geo < x
  BY <1>2 DEF Respects, TourOrder
<1>4. AllRespect(st, TourOrder) <=>
        \A ste \in ToSet(st) :
          /\ \A x \in ste.earlier : x < ste.element.geo
          /\ \A x \in ste.later : ste.element.geo < x
  BY <1>1, <1>3 DEF AllRespect
<1> QED BY <1>1, <1>4 DEF AdmitsTour, Ascends, AdmitsForms

\* Simplifying a node that admits the tour leaves one that admits it: all that
\* its stash then says about the order of elements, in the sequence and in the
\* stash, is what the tour does (relaxed_solution.cpp add_to_stash).
THEOREM SimplifyingKeepsTour == Spec => SimplifyKeepsTour
<1>1. ASSUME Inv, Evaluate, AdmitsTour(seq, stash) PROVE AdmitsTour(seq', stash')
  <2>1. PICK rs \in SUBSET (2 .. Len(seq)) :
          /\ seq' \in Seq(Elem) /\ \E m : Selects(m, seq', seq, rs, Len(seq))
          /\ stash' = StashAll(stash, seq, rs) /\ Continues(stash', stash, seq, rs)
    BY <1>1, EvaluateStep
  <2>2. PICK m : Selects(m, seq', seq, rs, Len(seq))
    BY <2>1
  <2>3. /\ seq \in Seq(Elem) /\ stash \in Seq(Entry) /\ Len(seq) \in Nat
        /\ \A i \in 1 .. Len(seq) : seq[i] \in Elem
        /\ \A k \in 1 .. Len(stash) : stash[k] \in Entry /\ stash[k].element \in Elem
    BY <1>1, GeosAsSets DEF Inv, Typed
  <2>4. Ascends(seq) /\ AllRespect(stash, TourOrder) /\ AdmitsForms(Placed)
    BY <1>1, <2>3, AdmitsIff DEF Placed
  <2>5. Ascends(seq')
    <3> SUFFICES ASSUME NEW k \in 1 .. Len(seq'), NEW l \in 1 .. Len(seq'), k < l
                 PROVE  seq'[k].geo < seq'[l].geo
      BY DEF Ascends
    <3>1. m[k] \in 1 .. Len(seq) /\ m[l] \in 1 .. Len(seq) /\ m[k] < m[l]
          /\ seq'[k] = seq[m[k]] /\ seq'[l] = seq[m[l]]
      BY <2>2 DEF Selects
    <3> QED BY <2>4, <3>1 DEF Ascends
  <2>6. AllRespect(stash', TourOrder)
    <3>1. rs \in SUBSET (1 .. Len(seq))
      BY <2>3
    <3>2. ASSUME NEW i \in rs PROVE Respects(Fresh(seq, i), TourOrder)
      <4>1. i \in 1 .. Len(seq) /\ \A j \in 1 .. Len(seq) : seq[j].geo \in Geo
        BY <2>3, <3>1 DEF Elem
      <4>2. \A j \in 1 .. i - 1 : j \in 1 .. Len(seq) /\ seq[j].geo < seq[i].geo
        BY <2>3, <2>4, <4>1 DEF Ascends
      <4>3. \A j \in i + 1 .. Len(seq) : j \in 1 .. Len(seq) /\ seq[i].geo < seq[j].geo
        BY <2>3, <2>4, <4>1 DEF Ascends
      <4> QED BY <4>1, <4>2, <4>3 DEF Respects, Fresh, TourOrder
    <3>3. (\A i \in 1 .. Len(seq) : seq[i].geo \in Geo)
          /\ \A k \in 1 .. Len(stash) : stash[k].element.geo \in Geo
      BY <2>3 DEF Elem
    <3> QED BY <2>1, <2>3, <2>4, <3>1, <3>2, <3>3, StashAllRespects, TourOrderComposes
  <2>7. AdmitsForms(Placed')
    BY <1>1, <2>4, EvaluatePlaces
  <2>8. stash' \in Seq(Entry)
    BY <2>1 DEF Continues
  <2> QED BY <2>1, <2>5, <2>6, <2>7, <2>8, AdmitsIff DEF Placed
<1>2. ASSUME Inv, [Next]_vars
      PROVE  [phase = "created" /\ AdmitsTour(seq, stash) => AdmitsTour(seq', stash')]_vars
  <2>1. CASE Evaluate
    BY <1>1, <1>2, <2>1
  <2>2. CASE \E g \in Geo : Branch(g) \/ DeadEnd(g) \/ RestoredElsewhere(g)
    BY <2>2 DEF Branch, DeadEnd, RestoredElsewhere
  <2> QED BY <1>2, <2>1, <2>2 DEF Next
<1>3. Inv /\ [Next]_vars =>
        [phase = "created" /\ AdmitsTour(seq, stash) => AdmitsTour(seq', stash')]_vars
  BY <1>2
<1> QED BY <1>3, InvHolds, PTL DEF Spec, SimplifyKeepsTour

----------------------------------------------------------------------------
(* Branching on any polygon leaves a child that admits the tour *)

\* The order annotations, if they filter children, agree with the tour.
OrderHolds == options.filter => FollowsOrder(options.annotations)

\* The rule accepts every sequence in the order of the tour.
LEMMA AscendingIsOk ==
  ASSUME OrderHolds, NEW s \in Seq(Elem), Ascends(s)
  PROVE  IsSequenceOk(s)
<1> DEFINE ann == options.annotations
           geos == [i \in DOMAIN s |-> s[i].geo]
           parent == [i \in DOMAIN seq |-> seq[i].geo]
<1>1. SUFFICES ASSUME options.filter PROVE IsOk(ann, geos, parent)
  BY DEF IsSequenceOk
<1>2. FollowsOrder(ann)
  BY <1>1 DEF OrderHolds
<1>3. /\ Len(s) \in Nat /\ DOMAIN s = 1 .. Len(s) /\ Len(geos) = Len(s)
      /\ DOMAIN geos = 1 .. Len(s) /\ \A i \in 1 .. Len(s) : geos[i] = s[i].geo
  OBVIOUS
<1> HIDE DEF ann, geos, parent
<1>4. ASSUME NEW j \in 1 .. Len(s), NEW i \in 1 .. j - 1, NEW k \in j + 1 .. Len(s),
             Constrained(ann, geos[i], geos[j], geos[k])
      PROVE  IsBetweenCyclic(ann[geos[i]].hull_index, ann[geos[j]].hull_index,
                             ann[geos[k]].hull_index)
  <2>1. geos[i] \in DOMAIN ann /\ geos[j] \in DOMAIN ann /\ geos[k] \in DOMAIN ann
    BY <1>4 DEF Constrained
  <2>2. geos[i] < geos[j] /\ geos[j] < geos[k]
    BY <1>3 DEF Ascends
  <2> QED BY <1>2, <1>4, <2>1, <2>2 DEF FollowsOrder
<1> QED BY <1>3, <1>4 DEF IsOk

\* Behind the first k elements of the sequence is where the tour visits g.
SplitsAt(k, g) ==
  /\ \A i \in 1 .. Len(seq) : i <= k => seq[i].geo < g
  /\ \A i \in 1 .. Len(seq) : k < i => g < seq[i].geo

LEMMA SplitExists ==
  ASSUME Typed, Ascends(seq), NEW g \in Geo, g \notin SeqGeos
  PROVE  \E k \in 0 .. Len(seq) : SplitsAt(k, g)
<1> DEFINE S == {0} \cup {i \in 1 .. Len(seq) : seq[i].geo < g}
<1>1. /\ Len(seq) \in Nat /\ \A i \in 1 .. Len(seq) : seq[i].geo \in Nat /\ seq[i].geo # g
      /\ g \in Nat
  <2>1. \A i \in 1 .. Len(seq) : seq[i].geo \in Geo
    BY GeosAsSets DEF Elem
  <2> QED BY <2>1, GeosAsSets, PartialSequenceAssumption DEF Geo
<1>2. S \in SUBSET (0 .. Len(seq)) /\ S # {}
  BY <1>1
<1>3. \A i \in 1 .. Len(seq) : i \in S <=> seq[i].geo < g
  OBVIOUS
<1> HIDE DEF S
<1>4. Max(S) \in S /\ \A x \in S : x <= Max(S)
  BY <1>1, <1>2, MaxIsGreatest
<1> DEFINE k == Max(S)
<1> HIDE DEF k
<1>5. k \in S /\ k \in 0 .. Len(seq) /\ \A x \in S : x <= k
  BY <1>2, <1>4 DEF k
<1>6. ASSUME NEW i \in 1 .. Len(seq), i <= k PROVE seq[i].geo < g
  <2>1. k \in 1 .. Len(seq) /\ seq[k].geo < g
    BY <1>3, <1>5, <1>6
  <2>2. i = k \/ seq[i].geo < seq[k].geo
    BY <1>6, <2>1 DEF Ascends
  <2> QED BY <1>1, <2>1, <2>2
<1>7. ASSUME NEW i \in 1 .. Len(seq), k < i PROVE g < seq[i].geo
  <2>1. i \notin S
    BY <1>5, <1>7
  <2> QED BY <1>1, <1>3, <2>1
<1> QED BY <1>5, <1>6, <1>7 DEF SplitsAt

\* What branching leaves in the stash agrees with the tour.
LEMMA StashWithoutAdmits ==
  ASSUME Inv, AdmitsTour(seq, stash), NEW g \in Geo
  PROVE  /\ StashWithout(g) \in Seq(Entry) /\ AllRespect(StashWithout(g), TourOrder)
         /\ \A ste \in ToSet(StashWithout(g)) : ste.element \in Placed
<1> DEFINE st == StashWithout(g)
<1>1. PICK m : UnstashedBy(m, st, g)
  BY StashWithoutSelects
<1> HIDE DEF st
<1>2. /\ st \in Seq(Entry)
      /\ \A k \in 1 .. Len(st) : m[k] \in 1 .. Len(stash) /\ st[k] = stash[m[k]]
  BY <1>1, Unstashed
<1>3. DOMAIN st = 1 .. Len(st) /\ ToSet(st) = {st[k] : k \in 1 .. Len(st)}
  BY <1>2 DEF ToSet
<1>4. AllRespect(stash, TourOrder) /\ DOMAIN stash = 1 .. Len(stash)
  BY AdmitsIff, GeosAsSets DEF Inv, Typed
<1>5. AllRespect(st, TourOrder)
  BY <1>2, <1>3, <1>4 DEF AllRespect
<1>6. \A ste \in ToSet(st) : ste.element \in Placed
  BY <1>2, <1>3, PlacedAsSet DEF Inv
<1> QED BY <1>2, <1>5, <1>6 DEF st

\* Inserting an element where the tour visits its polygon keeps the tour.
LEMMA InsertedAdmits ==
  ASSUME Inv, AdmitsTour(seq, stash), NEW g \in Geo, NEW k \in 0 .. Len(seq), SplitsAt(k, g),
         NEW e \in Elem, e.geo = g, e.form \in Parts => e.form = TourPart
  PROVE  /\ Inserted(seq, k, e) \in Seq(Elem) /\ Ascends(Inserted(seq, k, e))
         /\ AdmitsTour(Inserted(seq, k, e), StashWithout(g))
<1> DEFINE s == Inserted(seq, k, e)
<1>1. seq \in Seq(Elem) /\ stash \in Seq(Entry) /\ Len(seq) \in Nat
  BY GeosAsSets DEF Inv, Typed
<1>2. s \in Seq(Elem) /\ Spreads(s, seq, k, e)
  BY <1>1, InsertedAt, InsertedPlaces
<1> HIDE DEF s
<1>3. Ascends(seq) /\ AdmitsForms(Placed)
  BY <1>1, AdmitsIff DEF Placed
<1>4. Ascends(s)
  <2> SUFFICES ASSUME NEW i \in 1 .. Len(s), NEW j \in 1 .. Len(s), i < j
               PROVE  s[i].geo < s[j].geo
    BY DEF Ascends
  <2>1. /\ i = k + 1 \/ \E l \in 1 .. Len(seq) : i = Shifted(k, l)
        /\ j = k + 1 \/ \E l \in 1 .. Len(seq) : j = Shifted(k, l)
        /\ s[k + 1].geo = g
    BY <1>2 DEF Spreads
  <2>2. ASSUME i = k + 1, NEW l \in 1 .. Len(seq), j = Shifted(k, l) PROVE g < s[j].geo
    <3>1. k < l /\ s[j] = seq[l]
      BY <1>1, <1>2, <2>2 DEF Spreads, Shifted
    <3> QED BY <3>1 DEF SplitsAt
  <2>3. ASSUME j = k + 1, NEW l \in 1 .. Len(seq), i = Shifted(k, l) PROVE s[i].geo < g
    <3>1. l <= k /\ s[i] = seq[l]
      BY <1>1, <1>2, <2>3 DEF Spreads, Shifted
    <3> QED BY <3>1 DEF SplitsAt
  <2>4. ASSUME NEW l \in 1 .. Len(seq), i = Shifted(k, l),
               NEW l2 \in 1 .. Len(seq), j = Shifted(k, l2)
        PROVE  s[i].geo < s[j].geo
    <3>1. l < l2 /\ s[i] = seq[l] /\ s[j] = seq[l2]
      BY <1>2, <2>4 DEF Spreads
    <3> QED BY <1>3, <3>1 DEF Ascends
  <2> QED BY <2>1, <2>2, <2>3, <2>4
<1>5. \A x \in ToSet(s) : x = e \/ x \in Placed
  <2>1. \A i \in 1 .. Len(s) : s[i] = e \/ \E j \in 1 .. Len(seq) : s[i] = seq[j]
    BY <1>2 DEF Spreads
  <2>2. ToSet(s) = {s[i] : i \in 1 .. Len(s)}
    BY <1>2 DEF ToSet
  <2> QED BY <2>1, <2>2, PlacedAsSet DEF Inv
<1>6. /\ StashWithout(g) \in Seq(Entry) /\ AllRespect(StashWithout(g), TourOrder)
      /\ \A ste \in ToSet(StashWithout(g)) : ste.element \in Placed
  BY StashWithoutAdmits
<1>7. AdmitsForms(ToSet(s) \cup {ste.element : ste \in ToSet(StashWithout(g))})
  BY <1>3, <1>5, <1>6 DEF AdmitsForms
<1>8. AdmitsTour(s, StashWithout(g))
  BY <1>2, <1>4, <1>6, <1>7, AdmitsIff
<1> QED BY <1>2, <1>4, <1>8 DEF s

LEMMA ResolvedKeepsTour ==
  ASSUME Inv, AdmitsTour(seq, stash), NEW g \in Branchable, g \in SeqGeos
  PROVE  \E s \in Resolved(g) : s \in Seq(Elem) /\ Ascends(s) /\ AdmitsTour(s, StashWithout(g))
<1> DEFINE i == CHOOSE i \in DOMAIN seq : seq[i].geo = g
           form == IF options.decomposition THEN TourPart ELSE "exact"
           e == Element(g, form)
           s == [seq EXCEPT ![i] = e]
<1>1. /\ DOMAIN seq = 1 .. Len(seq) /\ SeqGeos = {seq[j].geo : j \in 1 .. Len(seq)}
      /\ seq \in Seq(Elem) /\ stash \in Seq(Entry) /\ g \in Geo
  BY GeosAsSets DEF Inv, Typed, Branchable
<1>2. i \in 1 .. Len(seq) /\ seq[i].geo = g
  BY <1>1
<1>3. form \in Form /\ (form \in Parts => form = TourPart)
  BY PartialSequenceAssumption DEF Form
<1>4. s \in Resolved(g)
  <2>1. form \in (IF options.decomposition THEN Parts ELSE {"exact"})
    BY PartialSequenceAssumption
  <2> QED BY <2>1 DEF Resolved
<1> HIDE DEF i, form
<1>5. e \in Elem /\ e.geo = g /\ e.form = form
  BY <1>1, <1>3, ElementType
<1> HIDE DEF e
<1>6. s \in Seq(Elem) /\ Len(s) = Len(seq) /\ s[i] = e
      /\ \A j \in 1 .. Len(seq) : j # i => s[j] = seq[j]
  BY <1>1, <1>2, <1>5
<1> HIDE DEF s
<1>7. Ascends(seq) /\ AdmitsForms(Placed)
  BY <1>1, AdmitsIff DEF Placed
<1>8. Ascends(s)
  <2>1. \A j \in 1 .. Len(seq) : s[j].geo = seq[j].geo
    BY <1>2, <1>5, <1>6
  <2> QED BY <1>6, <1>7, <2>1 DEF Ascends
<1>9. /\ StashWithout(g) \in Seq(Entry) /\ AllRespect(StashWithout(g), TourOrder)
      /\ \A ste \in ToSet(StashWithout(g)) : ste.element \in Placed
  BY <1>1, StashWithoutAdmits
<1>10. \A x \in ToSet(s) : x = e \/ x \in Placed
  <2>1. ToSet(s) = {s[j] : j \in 1 .. Len(s)}
    BY <1>6 DEF ToSet
  <2> QED BY <1>6, <2>1, PlacedAsSet DEF Inv
<1>11. AdmitsForms(ToSet(s) \cup {ste.element : ste \in ToSet(StashWithout(g))})
  BY <1>3, <1>5, <1>7, <1>9, <1>10 DEF AdmitsForms
<1> QED BY <1>4, <1>6, <1>8, <1>9, <1>11, AdmitsIff

LEMMA RestoredKeepsTour ==
  ASSUME Inv, AdmitsTour(seq, stash), NEW g \in Branchable, g \notin SeqGeos, g \in StashGeos
  PROVE  \E s \in Restored(g) : s \in Seq(Elem) /\ Ascends(s) /\ AdmitsTour(s, StashWithout(g))
<1> DEFINE ste == StashedAs(g)
           e == [ste.element EXCEPT !.toggles = @ + 1]
<1>1. /\ Len(seq) \in Nat /\ DOMAIN stash = 1 .. Len(stash) /\ g \in Geo
      /\ \A a \in 1 .. Len(stash) : stash[a] \in Entry /\ stash[a].element \in Elem
      /\ seq \in Seq(Elem) /\ stash \in Seq(Entry)
      /\ \A i \in 1 .. Len(seq) : seq[i].geo \in Geo
  BY GeosAsSets DEF Inv, Typed, Branchable, Elem
<1>2. PICK a \in 1 .. Len(stash) : stash[a] = ste /\ ste.element.geo = g
  <2>1. \E x \in ToSet(stash) : x.element.geo = g
    BY DEF StashGeos
  <2>2. ste \in ToSet(stash) /\ ste.element.geo = g
    BY <2>1 DEF StashedAs
  <2> QED BY <1>1, <2>2 DEF ToSet
<1>3. Ascends(seq) /\ AllRespect(stash, TourOrder) /\ AdmitsForms(Placed)
  BY <1>1, AdmitsIff DEF Placed
<1>4. PICK k \in 0 .. Len(seq) : SplitsAt(k, g)
  BY <1>1, <1>3, SplitExists DEF Inv
<1>5. \A s : (\E l \in Earliest(ste, seq) .. Latest(ste, seq) : s = Inserted(seq, l, e))
              => s \in Restored(g)
  BY DEF Restored
<1> HIDE DEF ste
<1>6. ste \in Entry /\ ste.element \in Elem
  BY <1>1, <1>2
<1>7. (\A x \in ste.earlier : x < g) /\ (\A x \in ste.later : g < x)
  BY <1>1, <1>2, <1>3 DEF AllRespect, Respects, TourOrder
<1>8. k \in Earliest(ste, seq) .. Latest(ste, seq)
  <2>1. /\ Earliest(ste, seq) \in 0 .. Len(seq) /\ Latest(ste, seq) \in 0 .. Len(seq)
        /\ Earliest(ste, seq) = 0 \/ seq[Earliest(ste, seq)].geo \in ste.earlier
        /\ Latest(ste, seq) = Len(seq) \/ seq[Latest(ste, seq) + 1].geo \in ste.later
    BY <1>1, <1>6, EarliestBound, LatestBound
  <2> DEFINE p == Earliest(ste, seq)
             q == Latest(ste, seq)
  <2> HIDE DEF p, q
  <2>2. /\ p \in 0 .. Len(seq) /\ q \in 0 .. Len(seq)
        /\ p = 0 \/ seq[p].geo \in ste.earlier
        /\ q = Len(seq) \/ seq[q + 1].geo \in ste.later
    BY <2>1 DEF p, q
  <2>3. g \in Nat /\ \A i \in 1 .. Len(seq) : seq[i].geo \in Nat
    BY <1>1, PartialSequenceAssumption DEF Geo
  <2>4. p <= k
    <3>1. CASE p = 0
      BY <3>1
    <3>2. CASE p # 0
      <4>1. p \in 1 .. Len(seq) /\ seq[p].geo < g
        BY <1>7, <2>2, <3>2
      <4>2. ~ (k < p)
        BY <1>4, <2>3, <4>1 DEF SplitsAt
      <4> QED BY <2>2, <4>2
    <3> QED BY <3>1, <3>2
  <2>5. k <= q
    <3>1. CASE q = Len(seq)
      BY <3>1
    <3>2. CASE q # Len(seq)
      <4>1. q + 1 \in 1 .. Len(seq) /\ g < seq[q + 1].geo
        BY <1>1, <1>7, <2>2, <3>2
      <4>2. ~ (q + 1 <= k)
        BY <1>4, <2>3, <4>1 DEF SplitsAt
      <4> QED BY <2>2, <4>2
    <3> QED BY <3>1, <3>2
  <2> QED BY <2>2, <2>4, <2>5 DEF p, q
<1>9. ste.element.toggles < MaxTeToggle
  BY <1>2 DEF Inv, TogglesLeft
<1>10. e \in Elem /\ e.geo = g /\ e.form = ste.element.form
  BY <1>2, <1>6, <1>9, PartialSequenceAssumption, SMTT(30) DEF Elem
<1>11. e.form \in Parts => e.form = TourPart
  <2>1. ste.element \in Placed
    BY <1>2, PlacedAsSet DEF Inv
  <2> QED BY <1>3, <1>10, <2>1 DEF AdmitsForms
<1> HIDE DEF e
<1>12. Inserted(seq, k, e) \in Restored(g)
  BY <1>5, <1>8
<1> QED BY <1>1, <1>4, <1>10, <1>11, <1>12, InsertedAdmits

LEMMA ExtendedKeepsTour ==
  ASSUME Inv, AdmitsTour(seq, stash), NEW g \in Branchable, g \notin SeqGeos,
         options.path => NumGeos \in SeqGeos
  PROVE  \E s \in Extended(g) : s \in Seq(Elem) /\ Ascends(s) /\ AdmitsTour(s, StashWithout(g))
<1> DEFINE form == IF g \notin Nonconvex THEN "convex"
                   ELSE IF options.skipHull THEN "exact" ELSE "lazy"
           last == IF options.path THEN Len(seq) - 1 ELSE Len(seq)
           e == Element(g, form)
<1>1. /\ Len(seq) \in Nat /\ g \in Geo /\ seq \in Seq(Elem) /\ stash \in Seq(Entry)
      /\ SeqGeos = {seq[i].geo : i \in 1 .. Len(seq)} /\ NumGeos \in Nat /\ g \in 1 .. NumGeos
  BY GeosAsSets, PartialSequenceAssumption DEF Inv, Typed, Branchable, Geo
<1>2. \A k \in 1 .. last : Inserted(seq, k, e) \in Extended(g)
  BY DEF Extended
<1>3. Ascends(seq)
  BY <1>1, AdmitsIff
<1>4. PICK k \in 0 .. Len(seq) : SplitsAt(k, g)
  BY <1>1, <1>3, SplitExists DEF Inv
<1>5. seq # <<>> /\ seq[1].geo = 1 /\ 1 \in 1 .. Len(seq)
  BY <1>1 DEF Inv, FirstStays, BeginsWithFirst
<1>6. k # 0
  BY <1>1, <1>4, <1>5 DEF SplitsAt
\* The target comes last, so that no polygon has to come behind it.
<1>7. ASSUME options.path PROVE k # Len(seq)
  <2>1. PICK i \in 1 .. Len(seq) : seq[i].geo = NumGeos
    BY <1>1, <1>7
  <2>2. ~ (seq[i].geo < g)
    BY <1>1, <2>1
  <2>3. ~ (i <= k)
    BY <1>4, <2>2 DEF SplitsAt
  <2> QED BY <1>1, <2>3
<1>8. k \in 1 .. last
  BY <1>1, <1>6, <1>7
<1>9. form \in Form /\ form \notin Parts
  BY PartialSequenceAssumption DEF Form
<1> HIDE DEF form, last
<1>10. e \in Elem /\ e.geo = g /\ e.form = form
  BY <1>1, <1>9, ElementType
<1> HIDE DEF e
<1> QED BY <1>1, <1>2, <1>4, <1>8, <1>9, <1>10, InsertedAdmits

\* Whichever polygon a node that admits the tour is branched on, one of its
\* children admits the tour, if the annotations by which children are filtered
\* agree with the tour and the target of a path was not stashed
\* (branching_strategy.cpp branch, order_filtering.cpp).
THEOREM BranchingKeepsTour == Spec => [](OrderHolds => NoTourLost)
<1>1. ASSUME Inv, OrderHolds, AdmitsTour(seq, stash), NEW g \in Branchable,
             options.path => NumGeos \in SeqGeos
      PROVE  \E s \in Children(g) : AdmitsTour(s, StashWithout(g))
  <2>1. \E s \in Proposed(g) : s \in Seq(Elem) /\ Ascends(s) /\ AdmitsTour(s, StashWithout(g))
    BY <1>1, ResolvedKeepsTour, RestoredKeepsTour, ExtendedKeepsTour DEF Proposed
  <2> QED BY <1>1, <2>1, AscendingIsOk DEF Children
<1>2. Inv => (OrderHolds => NoTourLost)
  BY <1>1 DEF NoTourLost
<1> QED BY <1>2, InvHolds, PTL

----------------------------------------------------------------------------
(* The order among the polygons that were never restored *)

\* A strict order of the polygons.
IsStrictOrder(L) ==
  /\ L \in SUBSET (Geo \X Geo)
  /\ \A x \in Geo : <<x, x>> \notin L
  /\ \A m \in Geo : ComposesAt(L, m)

\* With the limit 1, only polygons that were never restored, here or elsewhere,
\* are stashed; once stashed, they were not restored here.
Unrestored == {g \in Geo : geomToggles[g] = 0 \/ g \in StashGeos}

\* L, if it is about two of the polygons in U.
Among(U, L) == {p \in Geo \X Geo : p[1] \in U /\ p[2] \in U => p \in L}

SortedBy(s, R) == \A i, j \in 1 .. Len(s) : i < j => <<s[i].geo, s[j].geo>> \in R

\* What is known of these polygons is consistent: although it need not hold for
\* the tour, there is an order in which all of it does.
OrderedBy(s, st, U, L) ==
  IsStrictOrder(L) /\ SortedBy(s, Among(U, L)) /\ AllRespect(st, Among(U, L))
Ordered == \E L : OrderedBy(seq, stash, Unrestored, L)

\* The stash mentions no polygon that has no element.
MentionsPlaced == AllRespect(stash, PlacedGeos \X PlacedGeos)

\* Among is transitive through U, and antisymmetric on it.
LEMMA AmongComposes ==
  ASSUME NEW U, NEW L, IsStrictOrder(L), NEW m \in Geo, m \in U
  PROVE  ComposesAt(Among(U, L), m)
BY DEF IsStrictOrder, ComposesAt, Among

LEMMA AmongAntisymmetric ==
  ASSUME NEW U, NEW L, IsStrictOrder(L), NEW x \in Geo, x \in U, NEW y \in Geo, y \in U
  PROVE  ~ (<<x, y>> \in Among(U, L) /\ <<y, x>> \in Among(U, L))
BY DEF IsStrictOrder, ComposesAt, Among

\* What an element of a sorted sequence knows respects the order.
LEMMA FreshRespects ==
  ASSUME NEW s \in Seq(Elem), NEW R, SortedBy(s, R), NEW i \in 1 .. Len(s)
  PROVE  Respects(Fresh(s, i), R)
<1>1. Len(s) \in Nat
  OBVIOUS
<1>2. \A j \in 1 .. i - 1 : j \in 1 .. Len(s) /\ <<s[j].geo, s[i].geo>> \in R
  BY <1>1 DEF SortedBy
<1>3. \A j \in i + 1 .. Len(s) : j \in 1 .. Len(s) /\ <<s[i].geo, s[j].geo>> \in R
  BY <1>1 DEF SortedBy
<1> QED BY <1>2, <1>3 DEF Respects, Fresh

\* The entries that were added know of the old ones what these know of them.
Tells(st2, st) ==
  \A a \in 1 .. Len(st), b \in Len(st) + 1 .. Len(st2) :
    /\ st2[b].element.geo \in st[a].earlier => st[a].element.geo \in st2[b].later
    /\ st2[b].element.geo \in st[a].later => st[a].element.geo \in st2[b].earlier

\* An exchange passes both on, since no element is both earlier and later.
LEMMA AddedTells ==
  ASSUME NEW st \in Seq(Entry), NEW s \in Seq(Elem), NEW rs \in SUBSET (1 .. Len(s)),
         NEW mid, Continues(mid, st, s, rs), Tells(mid, st), NEW i \in 1 .. Len(s), NEW R,
         AllRespect(mid, R),
         \A a \in 1 .. Len(st) : ~ (/\ <<st[a].element.geo, s[i].geo>> \in R
                                    /\ <<s[i].geo, st[a].element.geo>> \in R)
  PROVE  Tells(AddToStash(mid, s, i), st)
<1> DEFINE st2 == AddToStash(mid, s, i)
           l == Len(st)
           m == Len(mid)
<1>1. /\ mid \in Seq(Entry) /\ l \in Nat /\ m \in Nat /\ l <= m /\ DOMAIN mid = 1 .. m
      /\ \A a \in 1 .. l : /\ mid[a].element = st[a].element
                           /\ st[a].earlier \subseteq mid[a].earlier
                           /\ st[a].later \subseteq mid[a].later
  BY DEF Continues
<1>2. /\ st2 \in Seq(Entry) /\ Len(st2) = m + 1 /\ st2[m + 1].element = s[i]
      /\ \A k \in 1 .. m :
           /\ st2[k].element = mid[k].element
           /\ mid[k].earlier \subseteq st2[k].earlier
           /\ mid[k].later \subseteq st2[k].later
           /\ s[i].geo \in mid[k].earlier => mid[k].element.geo \in st2[m + 1].later
           /\ s[i].geo \in mid[k].later /\ s[i].geo \notin mid[k].earlier =>
                mid[k].element.geo \in st2[m + 1].earlier
  BY <1>1, AddedGrows
<1> HIDE DEF st2, m, l
<1> SUFFICES ASSUME NEW a \in 1 .. l, NEW b \in l + 1 .. Len(st2)
             PROVE  /\ st2[b].element.geo \in st[a].earlier => st[a].element.geo \in st2[b].later
                    /\ st2[b].element.geo \in st[a].later => st[a].element.geo \in st2[b].earlier
  BY DEF Tells, st2, l
<1>3. a \in 1 .. m /\ (b = m + 1 \/ (b \in 1 .. m /\ b \in l + 1 .. m))
  BY <1>1, <1>2
<1>4. CASE b \in l + 1 .. m
  <2>1. /\ mid[b].element.geo \in st[a].earlier => st[a].element.geo \in mid[b].later
        /\ mid[b].element.geo \in st[a].later => st[a].element.geo \in mid[b].earlier
    BY <1>4 DEF Tells, l, m
  <2>2. b \in 1 .. m
    BY <1>1, <1>4
  <2> QED BY <1>2, <2>1, <2>2
<1>5. CASE b = m + 1
  <2>1. Respects(mid[a], R)
    BY <1>1, <1>3 DEF AllRespect
  <2>2. ~ (s[i].geo \in mid[a].earlier /\ s[i].geo \in mid[a].later)
    BY <1>1, <2>1 DEF Respects, l
  <2> QED BY <1>1, <1>2, <1>3, <1>5, <2>2
<1> QED BY <1>3, <1>4, <1>5

LEMMA StashAllTells ==
  ASSUME NEW st \in Seq(Entry), NEW s \in Seq(Elem), NEW rs \in SUBSET (1 .. Len(s)), NEW R,
         AllRespect(st, R),
         \A i \in rs : Respects(Fresh(s, i), R) /\ ComposesAt(R, s[i].geo),
         \A k \in 1 .. Len(st) : ComposesAt(R, st[k].element.geo),
         \A a \in 1 .. Len(st), i \in rs : ~ (/\ <<st[a].element.geo, s[i].geo>> \in R
                                              /\ <<s[i].geo, st[a].element.geo>> \in R)
  PROVE  Tells(StashAll(st, s, rs), st)
<1> DEFINE n == Len(s)
           stashed == Stashed(st, s, rs)
           P == {i \in 0 .. n : Tells(stashed[i], st)}
<1>1. n \in Nat /\ n \in 0 .. n /\ Len(st) \in Nat
  OBVIOUS
<1>2. /\ stashed \in [0 .. n -> Seq(Entry)] /\ stashed[0] = st
      /\ \A i \in 1 .. n :
           stashed[i] = IF i \in rs THEN AddToStash(stashed[i - 1], s, i) ELSE stashed[i - 1]
  BY StashedDef
<1>3. \A i \in 0 .. n : /\ Continues(stashed[i], st, s, rs \cap (1 .. i))
                        /\ AllRespect(stashed[i], R)
  BY StashedContinues, StashedRespects
<1> HIDE DEF stashed
<1>4. 0 \in P
  BY <1>1, <1>2 DEF Tells
<1>5. ASSUME NEW i \in 1 .. n, i - 1 \in P PROVE i \in P
  <2> DEFINE mid == stashed[i - 1]
             early == rs \cap (1 .. i - 1)
  <2>a. i \in 0 .. n /\ i - 1 \in 0 .. n
    BY <1>1
  <2>b. Tells(mid, st)
    BY <1>5
  <2>1. /\ i \in 0 .. n /\ i - 1 \in 0 .. n /\ Tells(mid, st) /\ AllRespect(mid, R)
        /\ Continues(mid, st, s, early) /\ early \in SUBSET (1 .. Len(s))
    BY <1>3, <2>a, <2>b
  <2>2. CASE i \in rs
    <3>1. stashed[i] = AddToStash(mid, s, i)
      BY <1>2, <2>2
    <3> HIDE DEF mid, early
    <3>2. Tells(AddToStash(mid, s, i), st)
      BY <2>1, <2>2, AddedTells
    <3> QED BY <2>1, <3>1, <3>2
  <2>3. CASE i \notin rs
    <3>1. stashed[i] = mid
      BY <1>2, <2>3
    <3> HIDE DEF mid, early
    <3> QED BY <2>1, <3>1
  <2> QED BY <2>2, <2>3
<1>6. 0 .. n \subseteq P
  <2> HIDE DEF P, n
  <2> QED BY <1>1, <1>4, <1>5, IntervalInduction
<1> QED BY <1>1, <1>6 DEF StashAll, stashed

\* A smaller U is easier to respect.
LEMMA AmongShrinks ==
  ASSUME NEW s, NEW st, NEW L, NEW U, NEW V \in SUBSET U, OrderedBy(s, st, U, L)
  PROVE  OrderedBy(s, st, V, L)
<1>1. Among(U, L) \subseteq Among(V, L)
  BY DEF Among
<1>2. IsStrictOrder(L) /\ SortedBy(s, Among(U, L)) /\ AllRespect(st, Among(U, L))
  BY DEF OrderedBy
<1>3. SortedBy(s, Among(V, L))
  BY <1>1, <1>2 DEF SortedBy
<1>4. AllRespect(st, Among(V, L))
  BY <1>1, <1>2 DEF AllRespect, Respects
<1> QED BY <1>2, <1>3, <1>4 DEF OrderedBy

\* What is stashed was not restored, nor what can be stashed.
LEMMA StashedUnrestored ==
  ASSUME Inv, MaxGeomToggle <= 1
  PROVE  /\ \A k \in 1 .. Len(stash) :
              stash[k].element.geo \in Geo /\ stash[k].element.geo \in Unrestored
         /\ \A i \in 1 .. Len(seq) :
              seq[i].geo \in Geo /\ (CanBeDisabled(seq[i]) => seq[i].geo \in Unrestored)
<1>1. (\A i \in 1 .. Len(seq) : seq[i].geo \in Geo)
      /\ \A k \in 1 .. Len(stash) : stash[k].element.geo \in Geo
  BY GeosAsSets DEF Inv, Elem
<1>2. geomToggles \in [Geo -> Nat] /\ MaxGeomToggle \in Nat
  BY PartialSequenceAssumption DEF Inv, Typed
<1>3. \A g \in Geo : geomToggles[g] < MaxGeomToggle => g \in Unrestored
  BY <1>2 DEF Unrestored
<1>4. \A k \in 1 .. Len(stash) : stash[k].element.geo \in StashGeos
  BY GeosAsSets DEF Inv
<1> QED BY <1>1, <1>3, <1>4 DEF CanBeDisabled, Unrestored

\* The same order serves after simplifying, and what the stash learns is mutual.
LEMMA EvaluateOrdered ==
  ASSUME Inv, MaxGeomToggle <= 1, Evaluate, NEW L, OrderedBy(seq, stash, Unrestored, L)
  PROVE  OrderedBy(seq', stash', Unrestored', L) /\ Tells(stash', stash)
<1> DEFINE R == Among(Unrestored, L)
<1>1. PICK rs \in SUBSET (2 .. Len(seq)) :
        /\ \A i \in rs : CanBeDisabled(seq[i])
        /\ \E m : Selects(m, seq', seq, rs, Len(seq))
        /\ stash' = StashAll(stash, seq, rs) /\ Continues(stash', stash, seq, rs)
  BY EvaluateStep
<1>2. PICK m : Selects(m, seq', seq, rs, Len(seq))
  BY <1>1
<1>3. Unrestored' = Unrestored
  <2>1. /\ Len(stash) \in Nat /\ Len(stash') \in Nat /\ Len(seq) \in Nat
        /\ StashGeos = {stash[k].element.geo : k \in 1 .. Len(stash)}
        /\ geomToggles' = geomToggles
    BY <1>1, GeosAsSets DEF Inv, Continues, Evaluate
  <2>2. StashGeos' = {stash'[k].element.geo : k \in 1 .. Len(stash')}
    BY EvaluateInv, PlacedNext DEF Inv
  <2>3. ASSUME NEW g \in StashGeos PROVE g \in StashGeos'
    <3>1. PICK k \in 1 .. Len(stash) : stash[k].element.geo = g
      BY <2>1
    <3>2. k \in 1 .. Len(stash') /\ stash'[k].element = stash[k].element
      BY <1>1, <2>1 DEF Continues
    <3> QED BY <2>2, <3>1, <3>2
  <2>4. ASSUME NEW g \in StashGeos', g \notin StashGeos PROVE g \in Unrestored
    <3>1. PICK k \in 1 .. Len(stash') : stash'[k].element.geo = g
      BY <2>2
    <3>2. k \in 1 .. Len(stash) \/ k \in Len(stash) + 1 .. Len(stash')
      BY <2>1
    <3>3. k \notin 1 .. Len(stash)
      BY <1>1, <2>1, <2>4, <3>1 DEF Continues
    <3>4. PICK j \in rs : stash'[k].element = seq[j]
      BY <1>1, <3>2, <3>3 DEF Continues, KnowsOrder
    <3>5. j \in 1 .. Len(seq)
      BY <2>1
    <3> QED BY <1>1, <3>1, <3>4, <3>5, StashedUnrestored
  <2>5. Unrestored' = {g \in Geo : geomToggles[g] = 0 \/ g \in StashGeos'}
    BY <2>1 DEF Unrestored
  <2> QED BY <2>3, <2>4, <2>5 DEF Unrestored
<1>4. /\ seq \in Seq(Elem) /\ stash \in Seq(Entry) /\ Len(seq) \in Nat
      /\ rs \in SUBSET (1 .. Len(seq))
  BY GeosAsSets DEF Inv, Typed
<1>5. IsStrictOrder(L) /\ SortedBy(seq, R) /\ AllRespect(stash, R)
  BY DEF OrderedBy
<1> HIDE DEF R
<1>6. /\ \A i \in rs : seq[i].geo \in Geo /\ seq[i].geo \in Unrestored
      /\ \A k \in 1 .. Len(stash) :
           stash[k].element.geo \in Geo /\ stash[k].element.geo \in Unrestored
  BY <1>1, <1>4, StashedUnrestored
<1>7. /\ \A i \in rs : Respects(Fresh(seq, i), R) /\ ComposesAt(R, seq[i].geo)
      /\ \A k \in 1 .. Len(stash) : ComposesAt(R, stash[k].element.geo)
  BY <1>4, <1>5, <1>6, FreshRespects, AmongComposes DEF R
<1>8. \A a \in 1 .. Len(stash), i \in rs : ~ (/\ <<stash[a].element.geo, seq[i].geo>> \in R
                                              /\ <<seq[i].geo, stash[a].element.geo>> \in R)
  BY <1>5, <1>6, AmongAntisymmetric DEF R
<1>9. Tells(stash', stash)
  BY <1>1, <1>4, <1>5, <1>7, <1>8, StashAllTells
<1>10. AllRespect(stash', R)
  BY <1>1, <1>4, <1>5, <1>7, StashAllRespects
<1>11. SortedBy(seq', R)
  <2> SUFFICES ASSUME NEW k \in 1 .. Len(seq'), NEW l \in 1 .. Len(seq'), k < l
               PROVE  <<seq'[k].geo, seq'[l].geo>> \in R
    BY DEF SortedBy
  <2>1. m[k] \in 1 .. Len(seq) /\ m[l] \in 1 .. Len(seq) /\ m[k] < m[l]
        /\ seq'[k] = seq[m[k]] /\ seq'[l] = seq[m[l]]
    BY <1>2 DEF Selects
  <2> QED BY <1>5, <2>1 DEF SortedBy
<1>12. Among(Unrestored', L) = R
  BY <1>3 DEF R
<1> QED BY <1>5, <1>9, <1>10, <1>11, <1>12 DEF OrderedBy

----------------------------------------------------------------------------
(* What two polygons agree on *)

\* One of two polygons comes first if the sequence says so or, for each of the
\* two that is stashed, its entry.
Agrees(s, st, x, y) ==
  /\ \A i, j \in 1 .. Len(s) : s[i].geo = x /\ s[j].geo = y => i < j
  /\ \A k \in 1 .. Len(st) : st[k].element.geo = x => y \in st[k].later
  /\ \A k \in 1 .. Len(st) : st[k].element.geo = y => x \in st[k].earlier
Agreed ==
  {p \in Geo \X Geo : /\ p[1] \in PlacedGeos /\ p[2] \in PlacedGeos
                      /\ Agrees(seq, stash, p[1], p[2])}

IsTransitive(R) == \A m \in Geo : ComposesAt(R, m)

\* Whatever the stash says follows from this by transitivity.
Explained ==
  \A R \in SUBSET (Geo \X Geo) : IsTransitive(R) /\ Agreed \subseteq R => AllRespect(stash, R)

\* When an element is stashed, what it agreed on with any other becomes known
\* to the entries of the two.
LEMMA EvaluateAgreed ==
  ASSUME Inv, Evaluate, Tells(stash', stash)
  PROVE  Agreed \subseteq Agreed'
<1>1. PICK rs \in SUBSET (2 .. Len(seq)) :
        /\ \E m : Selects(m, seq', seq, rs, Len(seq))
        /\ Continues(stash', stash, seq, rs)
  BY EvaluateStep
<1>2. PICK m : Selects(m, seq', seq, rs, Len(seq))
  BY <1>1
<1>3. /\ Len(seq) \in Nat /\ Len(stash) \in Nat /\ Len(stash') \in Nat /\ Len(seq') \in Nat
      /\ SeqGeos = {seq[i].geo : i \in 1 .. Len(seq)}
      /\ StashGeos = {stash[k].element.geo : k \in 1 .. Len(stash)}
      /\ rs \in SUBSET (1 .. Len(seq))
  BY EvaluateInv, GeosAsSets, PlacedNext DEF Inv
<1>4. PlacedGeos' = PlacedGeos
  BY EvaluateInv, EvaluatePlaces, PlacedAsSet, PlacedNext DEF Inv
<1> SUFFICES ASSUME NEW x \in Geo, NEW y \in Geo, x \in PlacedGeos, y \in PlacedGeos,
                    Agrees(seq, stash, x, y)
             PROVE  Agrees(seq', stash', x, y)
  BY <1>4 DEF Agreed
<1>5. ASSUME NEW k \in 1 .. Len(stash')
      PROVE  \/ /\ k \in 1 .. Len(stash) /\ stash'[k].element = stash[k].element
                /\ stash[k].earlier \subseteq stash'[k].earlier
                /\ stash[k].later \subseteq stash'[k].later
             \/ k \in Len(stash) + 1 .. Len(stash') /\ \E j \in rs : KnowsOrder(stash'[k], seq, j)
  <2>1. k \in 1 .. Len(stash) \/ k \in Len(stash) + 1 .. Len(stash')
    BY <1>3
  <2> QED BY <1>1, <2>1 DEF Continues
<1>6. ASSUME NEW i \in 1 .. Len(seq'), NEW j \in 1 .. Len(seq'),
             seq'[i].geo = x, seq'[j].geo = y
      PROVE  i < j
  <2>1. /\ m[i] \in 1 .. Len(seq) /\ m[j] \in 1 .. Len(seq)
        /\ seq'[i] = seq[m[i]] /\ seq'[j] = seq[m[j]]
        /\ (j < i => m[j] < m[i])
    BY <1>2 DEF Selects
  <2>2. m[i] < m[j]
    BY <1>6, <2>1 DEF Agrees
  <2> QED BY <2>1, <2>2
<1>7. ASSUME NEW k \in 1 .. Len(stash'), stash'[k].element.geo = x
      PROVE  y \in stash'[k].later
  <2>1. CASE /\ k \in 1 .. Len(stash) /\ stash'[k].element = stash[k].element
             /\ stash[k].later \subseteq stash'[k].later
    BY <1>7, <2>1 DEF Agrees
  <2>2. CASE k \in Len(stash) + 1 .. Len(stash') /\ \E j \in rs : KnowsOrder(stash'[k], seq, j)
    <3>1. PICK i \in rs : KnowsOrder(stash'[k], seq, i)
      BY <2>2
    <3>2. i \in 1 .. Len(seq) /\ seq[i].geo = x
      BY <1>3, <1>7, <3>1 DEF KnowsOrder
    <3>3. CASE y \in SeqGeos
      <4>1. PICK j \in 1 .. Len(seq) : seq[j].geo = y
        BY <1>3, <3>3
      <4>2. i < j
        BY <3>2, <4>1 DEF Agrees
      <4>3. j \in i + 1 .. Len(seq)
        BY <1>3, <3>2, <4>2
      <4> QED BY <3>1, <4>1, <4>3 DEF KnowsOrder
    <3>4. CASE y \in StashGeos
      <4>1. PICK a \in 1 .. Len(stash) : stash[a].element.geo = y
        BY <1>3, <3>4
      <4>2. x \in stash[a].earlier
        BY <4>1 DEF Agrees
      <4> QED BY <1>7, <2>2, <4>1, <4>2 DEF Tells
    <3> QED BY <3>3, <3>4 DEF PlacedGeos
  <2> QED BY <1>5, <2>1, <2>2
<1>8. ASSUME NEW k \in 1 .. Len(stash'), stash'[k].element.geo = y
      PROVE  x \in stash'[k].earlier
  <2>1. CASE /\ k \in 1 .. Len(stash) /\ stash'[k].element = stash[k].element
             /\ stash[k].earlier \subseteq stash'[k].earlier
    BY <1>8, <2>1 DEF Agrees
  <2>2. CASE k \in Len(stash) + 1 .. Len(stash') /\ \E j \in rs : KnowsOrder(stash'[k], seq, j)
    <3>1. PICK j \in rs : KnowsOrder(stash'[k], seq, j)
      BY <2>2
    <3>2. j \in 1 .. Len(seq) /\ seq[j].geo = y
      BY <1>3, <1>8, <3>1 DEF KnowsOrder
    <3>3. CASE x \in SeqGeos
      <4>1. PICK i \in 1 .. Len(seq) : seq[i].geo = x
        BY <1>3, <3>3
      <4>2. i < j
        BY <3>2, <4>1 DEF Agrees
      <4>3. i \in 1 .. j - 1
        BY <1>3, <3>2, <4>2
      <4> QED BY <3>1, <4>1, <4>3 DEF KnowsOrder
    <3>4. CASE x \in StashGeos
      <4>1. PICK a \in 1 .. Len(stash) : stash[a].element.geo = x
        BY <1>3, <3>4
      <4>2. y \in stash[a].later
        BY <4>1 DEF Agrees
      <4> QED BY <1>8, <2>2, <4>1, <4>2 DEF Tells
    <3> QED BY <3>3, <3>4 DEF PlacedGeos
  <2> QED BY <1>5, <2>1, <2>2
<1> QED BY <1>6, <1>7, <1>8 DEF Agrees

\* A stashed element that is restored is put where it agreed to be.
LEMMA BranchAgreed ==
  ASSUME Inv, NEW g \in Geo, Branch(g),
         \A k \in 1 .. Len(stash) : stash[k].element.geo \notin stash[k].later
  PROVE  Agreed \subseteq Agreed'
<1>1. /\ g \in Branchable /\ seq' \in Proposed(g) /\ \E m : UnstashedBy(m, stash', g)
  BY BranchStep
<1>2. PICK m : UnstashedBy(m, stash', g)
  BY <1>1
<1>3. \A k \in 1 .. Len(stash') : m[k] \in 1 .. Len(stash) /\ stash'[k] = stash[m[k]]
  BY <1>2, Unstashed
<1>4. Typed /\ Typed' /\ (\A e \in Placed : e.geo # g => e \in Placed') /\ g \in PlacedGeos'
  BY BranchInv, BranchPlaces DEF Inv
<1>5. PlacedGeos \subseteq PlacedGeos'
  <2>1. GeosOf(Placed) = PlacedGeos /\ GeosOf(Placed') = PlacedGeos'
    BY <1>4, PlacedAsSet, PlacedNext
  <2> QED BY <1>4, <2>1 DEF GeosOf
<1>6. /\ Len(seq) \in Nat /\ SeqGeos = {seq[i].geo : i \in 1 .. Len(seq)}
      /\ StashGeos = {stash[k].element.geo : k \in 1 .. Len(stash)}
  BY <1>4, GeosAsSets
<1> SUFFICES ASSUME NEW x \in Geo, NEW y \in Geo, x \in PlacedGeos, y \in PlacedGeos,
                    Agrees(seq, stash, x, y)
             PROVE  Agrees(seq', stash', x, y)
  BY <1>5 DEF Agreed
<1>7. /\ \A k \in 1 .. Len(stash') : stash'[k].element.geo = x => y \in stash'[k].later
      /\ \A k \in 1 .. Len(stash') : stash'[k].element.geo = y => x \in stash'[k].earlier
  BY <1>3 DEF Agrees
<1>8. ASSUME NEW i \in 1 .. Len(seq'), NEW j \in 1 .. Len(seq'),
             seq'[i].geo = x, seq'[j].geo = y
      PROVE  i < j
  <2>1. CASE Resolves(seq', g)
    <3>1. PICK h \in 1 .. Len(seq), form \in Parts \cup {"exact"} :
            seq[h].geo = g /\ seq' = [seq EXCEPT ![h] = Element(g, form)]
      BY <2>1 DEF Resolves
    <3> DEFINE e == Element(g, form)
    <3>2. e.geo = g
      BY DEF Element
    <3> HIDE DEF e
    <3>3. Len(seq') = Len(seq) /\ \A l \in 1 .. Len(seq) : seq'[l].geo = seq[l].geo
      BY <1>4, <3>1, <3>2 DEF Typed, e
    <3> QED BY <1>8, <3>3 DEF Agrees
  <2>2. ASSUME NEW k, NEW e, InsertsAt(seq', g, k, e), g \notin SeqGeos,
               \A a \in 1 .. Len(stash), l \in 1 .. Len(seq) :
                 stash[a].element.geo = g =>
                   /\ seq[l].geo \in stash[a].earlier => l <= k
                   /\ seq[l].geo \in stash[a].later => k < l
        PROVE  i < j
    <3>1. Spreads(seq', seq, k, e) /\ e.geo = g /\ k \in Nat
      BY <2>2, <1>6, InsertsPlaces DEF InsertsAt
    <3>2. /\ i = k + 1 \/ \E l \in 1 .. Len(seq) : i = Shifted(k, l)
          /\ j = k + 1 \/ \E l \in 1 .. Len(seq) : j = Shifted(k, l)
          /\ seq'[k + 1].geo = g
      BY <3>1 DEF Spreads
    <3>3. ASSUME NEW l \in 1 .. Len(seq), i = Shifted(k, l),
                 NEW l2 \in 1 .. Len(seq), j = Shifted(k, l2)
          PROVE  i < j
      <4>1. seq[l].geo = x /\ seq[l2].geo = y
        BY <1>8, <3>1, <3>3 DEF Spreads
      <4>2. l < l2
        BY <4>1 DEF Agrees
      <4> QED BY <3>1, <3>3, <4>2 DEF Spreads
    <3>4. ASSUME i = k + 1 \/ j = k + 1 PROVE \E a \in 1 .. Len(stash) : stash[a].element.geo = g
      BY <1>6, <1>8, <2>2, <3>2, <3>4 DEF PlacedGeos
    <3>5. ASSUME i = k + 1, NEW l \in 1 .. Len(seq), j = Shifted(k, l) PROVE i < j
      <4>1. x = g /\ seq[l].geo = y
        BY <1>8, <3>1, <3>2, <3>5 DEF Spreads
      <4>2. PICK a \in 1 .. Len(stash) : stash[a].element.geo = g
        BY <3>4, <3>5
      <4>3. k < l
        BY <2>2, <4>1, <4>2 DEF Agrees
      <4> QED BY <3>1, <3>5, <4>3 DEF Spreads
    <3>6. ASSUME j = k + 1, NEW l \in 1 .. Len(seq), i = Shifted(k, l) PROVE i < j
      <4>1. y = g /\ seq[l].geo = x
        BY <1>8, <3>1, <3>2, <3>6 DEF Spreads
      <4>2. PICK a \in 1 .. Len(stash) : stash[a].element.geo = g
        BY <3>4, <3>6
      <4>3. l <= k
        BY <2>2, <4>1, <4>2 DEF Agrees
      <4> QED BY <3>1, <3>6, <4>3 DEF Spreads
    <3>7. ~ (i = k + 1 /\ j = k + 1)
      <4> SUFFICES ASSUME i = k + 1, j = k + 1 PROVE FALSE
        OBVIOUS
      <4>1. x = g /\ y = g
        BY <1>8, <3>2
      <4>2. PICK a \in 1 .. Len(stash) : stash[a].element.geo = g
        BY <3>4
      <4> QED BY <4>1, <4>2 DEF Agrees
    <3> QED BY <3>2, <3>3, <3>5, <3>6, <3>7
  <2>3. CASE g \notin SeqGeos /\ Restores(seq', g)
    <3>1. PICK a \in 1 .. Len(stash), k \in 1 .. Len(seq), e \in Elem :
            /\ stash[a].element.geo = g /\ InsertsAt(seq', g, k, e)
            /\ \A l \in 1 .. Len(seq) :
                 /\ seq[l].geo \in stash[a].earlier => l <= k
                 /\ seq[l].geo \in stash[a].later => k < l
      BY <2>3 DEF Restores
    <3>2. \A b \in 1 .. Len(stash) : stash[b].element.geo = g => b = a
      BY <3>1 DEF Inv, PlacedOnce, OnceIn, DistinctStashed
    <3> QED BY <2>2, <2>3, <3>1, <3>2
  <2>4. CASE g \notin SeqGeos /\ Extends(seq', g)
    <3>1. PICK k \in 1 .. Len(seq), e \in Elem : InsertsAt(seq', g, k, e)
      BY <2>4 DEF Extends
    <3>2. \A a \in 1 .. Len(stash) : stash[a].element.geo # g
      BY <1>6, <2>4 DEF Extends
    <3> QED BY <2>2, <2>4, <3>1, <3>2
  <2>5. \/ g \in SeqGeos /\ Resolves(seq', g)
        \/ g \notin SeqGeos /\ Restores(seq', g)
        \/ g \notin SeqGeos /\ Extends(seq', g)
    BY <1>1, ProposedSteps
  <2> QED BY <2>1, <2>3, <2>4, <2>5
<1> QED BY <1>7, <1>8 DEF Agrees

\* The children's stash says no more than their parent's.
LEMMA BranchRespects ==
  ASSUME Inv, NEW g \in Geo, Branch(g), NEW R, AllRespect(stash, R)
  PROVE  AllRespect(stash', R) /\ stash' \in Seq(Entry)
<1>1. PICK m : UnstashedBy(m, stash', g)
  BY BranchStep
<1>2. /\ stash' \in Seq(Entry)
      /\ \A k \in 1 .. Len(stash') :
           m[k] \in 1 .. Len(stash) /\ stash'[k] = stash[m[k]] /\ stash'[k].element.geo # g
  BY <1>1, Unstashed
<1>3. DOMAIN stash = 1 .. Len(stash) /\ DOMAIN stash' = 1 .. Len(stash')
  BY <1>2, GeosAsSets DEF Inv
<1> QED BY <1>2, <1>3 DEF AllRespect

\* It takes the entry of g from the stash, if there is one, and then counts.
LEMMA BranchUnrestored ==
  ASSUME Inv, NEW g \in Geo, Branch(g)
  PROVE  /\ Unrestored' \subseteq Unrestored
         /\ g \in StashGeos => g \notin Unrestored'
         /\ g \notin StashGeos => Unrestored' = Unrestored
<1>1. /\ \A h \in Geo : h # g => geomToggles'[h] = geomToggles[h]
      /\ g \in StashGeos => geomToggles'[g] = geomToggles[g] + 1
      /\ g \notin StashGeos => geomToggles' = geomToggles
      /\ geomToggles \in [Geo -> Nat]
  BY BranchStep DEF Inv, Typed
<1>2. PICK m : UnstashedBy(m, stash', g)
  BY BranchStep
<1>3. /\ \A k \in 1 .. Len(stash') :
           m[k] \in 1 .. Len(stash) /\ stash'[k] = stash[m[k]] /\ stash'[k].element.geo # g
      /\ \A j \in 1 .. Len(stash) : stash[j].element.geo # g =>
           \E k \in 1 .. Len(stash') : stash'[k] = stash[j]
  BY <1>2, Unstashed
<1>4. /\ StashGeos = {stash[k].element.geo : k \in 1 .. Len(stash)}
      /\ StashGeos' = {stash'[k].element.geo : k \in 1 .. Len(stash')}
  BY BranchInv, GeosAsSets, PlacedNext DEF Inv
<1>5. StashGeos' = StashGeos \ {g}
  <2>1. \A h \in StashGeos' : h \in StashGeos /\ h # g
    BY <1>3, <1>4
  <2>2. \A h \in StashGeos : h # g => h \in StashGeos'
    BY <1>3, <1>4
  <2> QED BY <2>1, <2>2
<1>6. Unrestored' = {h \in Geo : geomToggles'[h] = 0 \/ h \in StashGeos \ {g}}
  BY <1>5 DEF Unrestored
<1>7. CASE g \in StashGeos
  <2>1. geomToggles'[g] # 0
    BY <1>1, <1>7
  <2> QED BY <1>1, <1>6, <1>7, <2>1 DEF Unrestored
<1>8. CASE g \notin StashGeos
  BY <1>1, <1>6, <1>8 DEF Unrestored
<1> QED BY <1>7, <1>8

\* With its polygon out of the order, an inserted element needs no place in it.
LEMMA BranchKeepsOrder ==
  ASSUME Inv, NEW g \in Geo, Branch(g), NEW L, OrderedBy(seq, stash, Unrestored, L),
         g \notin SeqGeos => g \notin Unrestored'
  PROVE  OrderedBy(seq', stash', Unrestored', L)
<1> DEFINE R == Among(Unrestored, L)
           R2 == Among(Unrestored', L)
<1>1. g \in Branchable /\ seq' \in Proposed(g)
  BY BranchStep
<1>2. Unrestored' \subseteq Unrestored
  BY BranchUnrestored
<1>3. R \subseteq R2
  BY <1>2 DEF Among
<1>4. IsStrictOrder(L) /\ SortedBy(seq, R) /\ AllRespect(stash, R)
  BY DEF OrderedBy
<1>5. \A x \in Geo : g \notin Unrestored' => <<x, g>> \in R2 /\ <<g, x>> \in R2
  BY DEF Among
<1> HIDE DEF R, R2
<1>6. AllRespect(stash', R2)
  <2>1. AllRespect(stash, R2)
    BY <1>3, <1>4 DEF AllRespect, Respects
  <2> QED BY <2>1, BranchRespects
<1>7. CASE Resolves(seq', g)
  <2>1. PICK h \in 1 .. Len(seq), form \in Parts \cup {"exact"} :
          seq[h].geo = g /\ seq' = [seq EXCEPT ![h] = Element(g, form)]
    BY <1>7 DEF Resolves
  <2> DEFINE e == Element(g, form)
  <2>2. e.geo = g
    BY DEF Element
  <2> HIDE DEF e
  <2>3. Len(seq') = Len(seq) /\ \A l \in 1 .. Len(seq) : seq'[l].geo = seq[l].geo
    BY <2>1, <2>2 DEF Inv, Typed, e
  <2>4. SortedBy(seq', R2)
    BY <1>3, <1>4, <2>3 DEF SortedBy
  <2> QED BY <1>4, <1>6, <2>4 DEF OrderedBy, R2
<1>8. CASE g \notin SeqGeos /\ \E k, e : InsertsAt(seq', g, k, e)
  <2>1. PICK k, e : InsertsAt(seq', g, k, e)
    BY <1>8
  <2>2. Spreads(seq', seq, k, e) /\ e.geo = g /\ seq' \in Seq(Elem)
    BY <2>1, InsertsPlaces DEF InsertsAt
  <2>3. SortedBy(seq', R2)
    <3> SUFFICES ASSUME NEW i \in 1 .. Len(seq'), NEW j \in 1 .. Len(seq'), i < j
                 PROVE  <<seq'[i].geo, seq'[j].geo>> \in R2
      BY DEF SortedBy
    <3>1. /\ i = k + 1 \/ \E l \in 1 .. Len(seq) : i = Shifted(k, l)
          /\ j = k + 1 \/ \E l \in 1 .. Len(seq) : j = Shifted(k, l)
          /\ seq'[k + 1].geo = g
      BY <2>2 DEF Spreads
    <3>2. seq'[i].geo \in Geo /\ seq'[j].geo \in Geo
      <4>1. seq'[i] \in Elem /\ seq'[j] \in Elem
        BY <2>2
      <4> QED BY <4>1 DEF Elem
    <3>3. CASE i = k + 1 \/ j = k + 1
      BY <1>5, <1>8, <3>1, <3>2, <3>3
    <3>4. ASSUME NEW l \in 1 .. Len(seq), i = Shifted(k, l),
                 NEW l2 \in 1 .. Len(seq), j = Shifted(k, l2)
          PROVE  <<seq'[i].geo, seq'[j].geo>> \in R2
      <4>1. l < l2 /\ seq'[i] = seq[l] /\ seq'[j] = seq[l2]
        BY <2>2, <3>4 DEF Spreads
      <4> QED BY <1>3, <1>4, <4>1 DEF SortedBy
    <3> QED BY <3>1, <3>3, <3>4
  <2> QED BY <1>4, <1>6, <2>3 DEF OrderedBy, R2
<1> QED BY <1>1, <1>7, <1>8, ProposedShape

\* The order L with g put in anew, between the elements of U among the first k
\* of the sequence and those among the others.
UpTo(L, U, k, x) ==
  \E i \in 1 .. Len(seq) :
    i <= k /\ seq[i].geo \in U /\ (x = seq[i].geo \/ <<x, seq[i].geo>> \in L)
From(L, U, k, y) ==
  \E i \in 1 .. Len(seq) :
    k < i /\ seq[i].geo \in U /\ (y = seq[i].geo \/ <<seq[i].geo, y>> \in L)
Reordered(L, U, k, g) ==
  {p \in Geo \X Geo :
     \/ p[1] # g /\ p[2] # g /\ p \in L
     \/ p[1] # g /\ p[2] = g /\ UpTo(L, U, k, p[1])
     \/ p[1] = g /\ p[2] # g /\ From(L, U, k, p[2])}

LEMMA ReorderedIsOrder ==
  ASSUME NEW L, NEW U \in SUBSET Geo, IsStrictOrder(L), SortedBy(seq, Among(U, L)),
         NEW k \in Nat, NEW g \in Geo
  PROVE  IsStrictOrder(Reordered(L, U, k, g))
<1> DEFINE L2 == Reordered(L, U, k, g)
<1>1. \A x, y, z \in Geo : <<x, y>> \in L /\ <<y, z>> \in L => <<x, z>> \in L
  BY DEF IsStrictOrder, ComposesAt
<1>2. \A x \in Geo : <<x, x>> \notin L
  BY DEF IsStrictOrder
<1>3. ASSUME NEW i \in 1 .. Len(seq), NEW j \in 1 .. Len(seq), i <= k, k < j,
             seq[i].geo \in U, seq[j].geo \in U
      PROVE  <<seq[i].geo, seq[j].geo>> \in L
  <2>1. i < j
    BY <1>3
  <2> QED BY <1>3, <2>1 DEF SortedBy, Among
<1>4. \A x, y \in Geo : UpTo(L, U, k, x) /\ From(L, U, k, y) => <<x, y>> \in L
  <2> SUFFICES ASSUME NEW x \in Geo, NEW y \in Geo, UpTo(L, U, k, x), From(L, U, k, y)
               PROVE  <<x, y>> \in L
    OBVIOUS
  <2>1. PICK i \in 1 .. Len(seq) :
          i <= k /\ seq[i].geo \in U /\ (x = seq[i].geo \/ <<x, seq[i].geo>> \in L)
    BY DEF UpTo
  <2>2. PICK j \in 1 .. Len(seq) :
          k < j /\ seq[j].geo \in U /\ (y = seq[j].geo \/ <<seq[j].geo, y>> \in L)
    BY DEF From
  <2> DEFINE a == seq[i].geo
             b == seq[j].geo
  <2>3. a \in Geo /\ b \in Geo /\ <<a, b>> \in L
    BY <1>3, <2>1, <2>2
  <2>4. (x = a \/ <<x, a>> \in L) /\ (y = b \/ <<b, y>> \in L)
    BY <2>1, <2>2
  <2> HIDE DEF a, b
  <2>5. <<x, b>> \in L
    BY <1>1, <2>3, <2>4
  <2> QED BY <1>1, <2>3, <2>4, <2>5
<1>5. \A x, y \in Geo : <<x, y>> \in L /\ UpTo(L, U, k, y) => UpTo(L, U, k, x)
  <2> SUFFICES ASSUME NEW x \in Geo, NEW y \in Geo, <<x, y>> \in L, UpTo(L, U, k, y)
               PROVE  UpTo(L, U, k, x)
    OBVIOUS
  <2>1. PICK i \in 1 .. Len(seq) :
          i <= k /\ seq[i].geo \in U /\ (y = seq[i].geo \/ <<y, seq[i].geo>> \in L)
    BY DEF UpTo
  <2>2. <<x, seq[i].geo>> \in L
    BY <1>1, <2>1
  <2> QED BY <2>1, <2>2 DEF UpTo
<1>6. \A x, y \in Geo : <<x, y>> \in L /\ From(L, U, k, x) => From(L, U, k, y)
  <2> SUFFICES ASSUME NEW x \in Geo, NEW y \in Geo, <<x, y>> \in L, From(L, U, k, x)
               PROVE  From(L, U, k, y)
    OBVIOUS
  <2>1. PICK i \in 1 .. Len(seq) :
          k < i /\ seq[i].geo \in U /\ (x = seq[i].geo \/ <<seq[i].geo, x>> \in L)
    BY DEF From
  <2>2. <<seq[i].geo, y>> \in L
    BY <1>1, <2>1
  <2> QED BY <2>1, <2>2 DEF From
<1>7. \A x, y \in Geo :
        <<x, y>> \in L2 <=> \/ x # g /\ y # g /\ <<x, y>> \in L
                            \/ x # g /\ y = g /\ UpTo(L, U, k, x)
                            \/ x = g /\ y # g /\ From(L, U, k, y)
  BY DEF Reordered
<1>8. L2 \in SUBSET (Geo \X Geo)
  BY DEF Reordered
<1> HIDE DEF L2
<1>9. \A x \in Geo : <<x, x>> \notin L2
  BY <1>2, <1>7
<1>10. ASSUME NEW m \in Geo, NEW x \in Geo, NEW y \in Geo, <<x, m>> \in L2, <<m, y>> \in L2
       PROVE  <<x, y>> \in L2
  <2>1. CASE m = g
    <3>1. x # g /\ y # g /\ <<x, y>> \in L
      BY <1>4, <1>7, <1>10, <2>1
    <3> QED BY <1>7, <3>1
  <2>2. CASE m # g /\ x = g
    <3>1. From(L, U, k, m)
      BY <1>7, <1>10, <2>2
    <3>2. y # g
      BY <1>2, <1>4, <1>7, <1>10, <2>2, <3>1
    <3>3. <<m, y>> \in L
      BY <1>7, <1>10, <2>2, <3>2
    <3> QED BY <1>6, <1>7, <2>2, <3>1, <3>2, <3>3
  <2>3. CASE m # g /\ x # g
    <3>1. <<x, m>> \in L
      BY <1>7, <1>10, <2>3
    <3>2. CASE y = g
      BY <1>5, <1>7, <1>10, <2>3, <3>1, <3>2
    <3>3. CASE y # g
      <4>1. <<m, y>> \in L
        BY <1>7, <1>10, <2>3, <3>3
      <4> QED BY <1>1, <1>7, <2>3, <3>1, <3>3, <4>1
    <3> QED BY <3>2, <3>3
  <2> QED BY <2>1, <2>2, <2>3
<1> QED BY <1>8, <1>9, <1>10 DEF IsStrictOrder, ComposesAt, L2

\* A new polygon gets a place in the order where the sequence has it.
LEMMA ExtendOrders ==
  ASSUME Inv, MentionsPlaced, NEW g \in Geo, Branch(g), g \notin SeqGeos, g \in Unrestored',
         NEW L, OrderedBy(seq, stash, Unrestored, L)
  PROVE  \E L2 : OrderedBy(seq', stash', Unrestored', L2)
<1>1. g \in Branchable /\ seq' \in Proposed(g)
  BY BranchStep
<1>2. g \notin StashGeos
  BY BranchUnrestored
<1> DEFINE U == Unrestored
<1>3. Unrestored' = U /\ U \in SUBSET Geo
  BY <1>2, BranchUnrestored DEF Unrestored
<1>4. \E k, e : InsertsAt(seq', g, k, e)
  BY <1>1, ProposedSteps DEF Extends, Resolves, Restores
<1>5. PICK k, e : InsertsAt(seq', g, k, e)
  BY <1>4
<1>6. /\ Spreads(seq', seq, k, e) /\ e.geo = g /\ seq' \in Seq(Elem) /\ k \in 1 .. Len(seq)
      /\ k \in Nat
  BY <1>5, InsertsPlaces, GeosAsSets DEF InsertsAt, Inv
<1>7. /\ Len(seq) \in Nat /\ DOMAIN stash = 1 .. Len(stash)
      /\ \A i \in 1 .. Len(seq) : seq[i].geo \in SeqGeos /\ seq[i].geo \in Geo
      /\ \A a \in 1 .. Len(stash) : /\ stash[a].element.geo \in StashGeos
                                    /\ stash[a].element.geo \in Geo
      /\ \A a \in 1 .. Len(stash) : stash[a].earlier \subseteq Geo /\ stash[a].later \subseteq Geo
  BY GeosAsSets DEF Inv, Elem, Entry
<1>8. IsStrictOrder(L) /\ SortedBy(seq, Among(U, L)) /\ AllRespect(stash, Among(U, L))
  BY DEF OrderedBy
<1> HIDE DEF U
<1> DEFINE L2 == Reordered(L, U, k, g)
           R2 == Among(U, L2)
<1>9. IsStrictOrder(L2)
  BY <1>3, <1>6, <1>8, ReorderedIsOrder
<1>10. \A x, y \in Geo : x # g /\ y # g /\ <<x, y>> \in Among(U, L) => <<x, y>> \in R2
  BY DEF Among, Reordered
<1>11. \A x \in Geo : x # g /\ (x \in U => UpTo(L, U, k, x)) => <<x, g>> \in R2
  BY DEF Among, Reordered
<1>12. \A y \in Geo : y # g /\ (y \in U => From(L, U, k, y)) => <<g, y>> \in R2
  BY DEF Among, Reordered
<1> HIDE DEF L2, R2
<1>13. SortedBy(seq', R2)
  <2> SUFFICES ASSUME NEW i \in 1 .. Len(seq'), NEW j \in 1 .. Len(seq'), i < j
               PROVE  <<seq'[i].geo, seq'[j].geo>> \in R2
    BY DEF SortedBy
  <2>1. /\ i = k + 1 \/ \E l \in 1 .. Len(seq) : i = Shifted(k, l)
        /\ j = k + 1 \/ \E l \in 1 .. Len(seq) : j = Shifted(k, l)
        /\ seq'[k + 1].geo = g
    BY <1>6 DEF Spreads
  <2>2. ASSUME NEW l \in 1 .. Len(seq), i = Shifted(k, l),
               NEW l2 \in 1 .. Len(seq), j = Shifted(k, l2)
        PROVE  <<seq'[i].geo, seq'[j].geo>> \in R2
    <3>1. l < l2 /\ seq'[i] = seq[l] /\ seq'[j] = seq[l2]
      BY <1>6, <2>2 DEF Spreads
    <3>2. <<seq[l].geo, seq[l2].geo>> \in Among(U, L)
      BY <1>8, <3>1 DEF SortedBy
    <3>3. seq[l].geo \in Geo /\ seq[l].geo # g /\ seq[l2].geo \in Geo /\ seq[l2].geo # g
      BY <1>7
    <3> QED BY <1>10, <3>1, <3>2, <3>3
  <2>3. ASSUME i = k + 1, NEW l \in 1 .. Len(seq), j = Shifted(k, l)
        PROVE  <<seq'[i].geo, seq'[j].geo>> \in R2
    <3>1. k < l /\ seq'[j] = seq[l]
      BY <1>6, <2>3 DEF Spreads, Shifted
    <3>2. seq[l].geo \in U => From(L, U, k, seq[l].geo)
      BY <3>1 DEF From
    <3> QED BY <1>7, <1>12, <2>1, <2>3, <3>1, <3>2
  <2>4. ASSUME j = k + 1, NEW l \in 1 .. Len(seq), i = Shifted(k, l)
        PROVE  <<seq'[i].geo, seq'[j].geo>> \in R2
    <3>1. l <= k /\ seq'[i] = seq[l]
      BY <1>6, <2>4 DEF Spreads, Shifted
    <3>2. seq[l].geo \in U => UpTo(L, U, k, seq[l].geo)
      BY <3>1 DEF UpTo
    <3> QED BY <1>7, <1>11, <2>1, <2>4, <3>1, <3>2
  <2> QED BY <2>1, <2>2, <2>3, <2>4
<1>14. AllRespect(stash, R2)
  <2> SUFFICES ASSUME NEW a \in 1 .. Len(stash) PROVE Respects(stash[a], R2)
    BY <1>7 DEF AllRespect
  <2>1. Respects(stash[a], Among(U, L)) /\ Respects(stash[a], PlacedGeos \X PlacedGeos)
    BY <1>7, <1>8 DEF AllRespect, MentionsPlaced
  <2>2. stash[a].element.geo # g /\ g \notin PlacedGeos
    BY <1>2, <1>7 DEF PlacedGeos
  <2>3. (\A x \in stash[a].earlier : x # g) /\ (\A x \in stash[a].later : x # g)
    BY <2>1, <2>2 DEF Respects
  <2> QED BY <1>7, <1>10, <2>1, <2>2, <2>3 DEF Respects
<1>15. AllRespect(stash', R2)
  BY <1>14, BranchRespects
<1> QED BY <1>3, <1>9, <1>13, <1>15 DEF OrderedBy, R2

----------------------------------------------------------------------------
(* With the default limit no tour is searched again *)

KnowledgeInv == Inv /\ MentionsPlaced /\ Ordered /\ Explained

\* A dead end takes an entry from the stash and puts no element in its place.
UntilPruned == Inv /\ (phase # "pruned" => KnowledgeInv)

LEMMA InitKnowledge == ASSUME Init PROVE KnowledgeInv
<1>1. Inv /\ stash = <<>>
  BY InitInv DEF Init
<1>2. \A R : AllRespect(stash, R)
  BY <1>1 DEF AllRespect
<1>3. Ascends(seq)
  <2>1. PICK n \in 2 .. NumGeos : \E order \in [1 .. n -> Geo] :
          /\ \A i, j \in 1 .. n : i < j => order[i] < order[j]
          /\ seq = [i \in 1 .. n |->
                      Element(order[i], IF order[i] \in Nonconvex THEN "lazy" ELSE "convex")]
    BY DEF Init
  <2>2. PICK order \in [1 .. n -> Geo] :
          /\ \A i, j \in 1 .. n : i < j => order[i] < order[j]
          /\ seq = [i \in 1 .. n |->
                      Element(order[i], IF order[i] \in Nonconvex THEN "lazy" ELSE "convex")]
    BY <2>1
  <2>3. n \in Nat /\ Len(seq) = n /\ \A i \in 1 .. n : seq[i].geo = order[i]
    BY <2>2, PartialSequenceAssumption DEF Element
  <2> QED BY <2>2, <2>3 DEF Ascends
<1>4. OrderedBy(seq, stash, Unrestored, TourOrder)
  <2>1. IsStrictOrder(TourOrder)
    BY TourOrderComposes, PartialSequenceAssumption DEF IsStrictOrder, TourOrder, Geo
  <2>2. \A i \in 1 .. Len(seq) : seq[i].geo \in Geo
    BY <1>1, GeosAsSets DEF Inv, Elem
  <2>3. SortedBy(seq, Among(Unrestored, TourOrder))
    BY <1>3, <2>2 DEF SortedBy, Among, TourOrder, Ascends
  <2> QED BY <1>2, <2>1, <2>3 DEF OrderedBy
<1> QED BY <1>1, <1>2, <1>4 DEF KnowledgeInv, MentionsPlaced, Ordered, Explained

\* What the sequence says, two polygons agree on.
LEMMA SequenceAgrees ==
  ASSUME Inv
  PROVE  SortedBy(seq, Agreed)
<1>1. /\ \A i \in 1 .. Len(seq) : seq[i].geo \in Geo /\ seq[i].geo \in PlacedGeos
      /\ DistinctIn(seq) /\ Apart(seq, stash)
  BY GeosAsSets DEF Inv, Elem, PlacedGeos, PlacedOnce, OnceIn
<1> SUFFICES ASSUME NEW i \in 1 .. Len(seq), NEW j \in 1 .. Len(seq), i < j
             PROVE  Agrees(seq, stash, seq[i].geo, seq[j].geo)
  BY <1>1 DEF SortedBy, Agreed
<1> QED BY <1>1 DEF Agrees, DistinctIn, Apart

\* The steps that do not end in a pruned node.
LEMMA NextUnlessPruned ==
  ASSUME Next, phase' # "pruned"
  PROVE  Evaluate \/ \E g \in Geo : Branch(g) \/ RestoredElsewhere(g)
BY DEF Next, DeadEnd

\* What was agreed on stays so.
LEMMA AgreedGrows ==
  ASSUME KnowledgeInv, MaxGeomToggle <= 1, Next, phase' # "pruned"
  PROVE  Agreed \subseteq Agreed'
<1>1. PICK L : OrderedBy(seq, stash, Unrestored, L)
  BY DEF KnowledgeInv, Ordered
<1>2. CASE Evaluate
  BY <1>1, <1>2, EvaluateOrdered, EvaluateAgreed DEF KnowledgeInv
<1>3. ASSUME NEW g \in Geo, Branch(g) PROVE Agreed \subseteq Agreed'
  <2>1. ASSUME NEW k \in 1 .. Len(stash)
        PROVE  stash[k].element.geo \notin stash[k].later
    <3> DEFINE x == stash[k].element.geo
    <3>1. x \in Geo /\ x \in Unrestored
      BY StashedUnrestored DEF KnowledgeInv
    <3>2. k \in DOMAIN stash
      BY GeosAsSets DEF KnowledgeInv, Inv
    <3>3. Respects(stash[k], Among(Unrestored, L)) /\ IsStrictOrder(L)
      BY <1>1, <3>2 DEF OrderedBy, AllRespect
    <3>4. <<x, x>> \notin Among(Unrestored, L)
      BY <3>1, <3>3, AmongAntisymmetric
    <3> QED BY <3>3, <3>4 DEF Respects
  <2> QED BY <1>3, <2>1, BranchAgreed DEF KnowledgeInv
<1>4. CASE \E g \in Geo : RestoredElsewhere(g)
  BY <1>4 DEF RestoredElsewhere, Agreed, PlacedGeos, SeqGeos, StashGeos
<1> QED BY <1>2, <1>3, <1>4, NextUnlessPruned

LEMMA NextKnowledge ==
  ASSUME KnowledgeInv, MaxGeomToggle <= 1, Next, phase' # "pruned"
  PROVE  KnowledgeInv'
<1>1. Inv'
  BY NextInv DEF KnowledgeInv
<1>2. Agreed \subseteq Agreed'
  BY AgreedGrows
<1>3. CASE Evaluate
  <2>1. PICK rs \in SUBSET (2 .. Len(seq)) : stash' = StashAll(stash, seq, rs)
    BY <1>3, EvaluateStep DEF KnowledgeInv
  <2>2. /\ seq \in Seq(Elem) /\ stash \in Seq(Entry) /\ rs \in SUBSET (1 .. Len(seq))
        /\ \A i \in 1 .. Len(seq) : seq[i].geo \in Geo /\ seq[i].geo \in PlacedGeos
        /\ \A k \in 1 .. Len(stash) : stash[k].element.geo \in Geo
    BY GeosAsSets DEF KnowledgeInv, Inv, Typed, Elem, PlacedGeos
  <2>3. ASSUME NEW R, IsTransitive(R), SortedBy(seq, R), AllRespect(stash, R)
        PROVE  AllRespect(stash', R)
    BY <2>1, <2>2, <2>3, FreshRespects, StashAllRespects DEF IsTransitive
  <2>4. PlacedGeos' = PlacedGeos
    BY <1>3, <1>1, EvaluatePlaces, PlacedAsSet, PlacedNext DEF KnowledgeInv, Inv
  <2>5. MentionsPlaced'
    <3> DEFINE R == PlacedGeos \X PlacedGeos
    <3>1. IsTransitive(R) /\ SortedBy(seq, R) /\ AllRespect(stash, R)
      BY <2>2 DEF IsTransitive, ComposesAt, SortedBy, KnowledgeInv, MentionsPlaced
    <3> HIDE DEF R
    <3>2. AllRespect(stash', R)
      BY <2>3, <3>1
    <3> QED BY <2>4, <3>2 DEF MentionsPlaced, R
  <2>6. Ordered'
    BY <1>3, EvaluateOrdered DEF KnowledgeInv, Ordered
  <2>7. Explained'
    <3> SUFFICES ASSUME NEW R \in SUBSET (Geo \X Geo), IsTransitive(R), Agreed' \subseteq R
                 PROVE  AllRespect(stash', R)
      BY DEF Explained
    <3>1. AllRespect(stash, R)
      BY <1>2 DEF KnowledgeInv, Explained
    <3>2. SortedBy(seq, R)
      BY <1>2, SequenceAgrees DEF KnowledgeInv, SortedBy
    <3> QED BY <2>3, <3>1, <3>2
  <2> QED BY <1>1, <2>5, <2>6, <2>7 DEF KnowledgeInv
<1>4. ASSUME NEW g \in Geo, Branch(g) PROVE KnowledgeInv'
  <2>1. \A R : AllRespect(stash, R) => AllRespect(stash', R)
    BY <1>4, BranchRespects DEF KnowledgeInv
  <2>2. MentionsPlaced'
    <3>1. PlacedGeos \subseteq PlacedGeos'
      <4>1. (\A e \in Placed : e.geo # g => e \in Placed') /\ g \in PlacedGeos'
        BY <1>4, BranchPlaces DEF KnowledgeInv
      <4>2. GeosOf(Placed) = PlacedGeos /\ GeosOf(Placed') = PlacedGeos'
        BY <1>1, PlacedAsSet, PlacedNext DEF KnowledgeInv, Inv
      <4> QED BY <4>1, <4>2 DEF GeosOf
    <3>2. AllRespect(stash, PlacedGeos' \X PlacedGeos')
      BY <3>1 DEF KnowledgeInv, MentionsPlaced, AllRespect, Respects
    <3> QED BY <2>1, <3>2 DEF MentionsPlaced
  <2>3. Ordered'
    <3>1. PICK L : OrderedBy(seq, stash, Unrestored, L)
      BY DEF KnowledgeInv, Ordered
    <3>2. CASE g \notin SeqGeos /\ g \in Unrestored'
      BY <1>4, <3>1, <3>2, ExtendOrders DEF KnowledgeInv, Ordered
    <3>3. CASE ~ (g \notin SeqGeos /\ g \in Unrestored')
      BY <1>4, <3>1, <3>3, BranchKeepsOrder DEF KnowledgeInv, Ordered
    <3> QED BY <3>2, <3>3
  <2>4. Explained'
    BY <1>2, <2>1 DEF KnowledgeInv, Explained
  <2> QED BY <1>1, <2>2, <2>3, <2>4 DEF KnowledgeInv
<1>5. ASSUME NEW g \in Geo, RestoredElsewhere(g) PROVE KnowledgeInv'
  <2>1. /\ seq' = seq /\ stash' = stash /\ geomToggles \in [Geo -> Nat]
        /\ geomToggles'[g] = geomToggles[g] + 1
        /\ \A h \in Geo : h # g => geomToggles'[h] = geomToggles[h]
    BY <1>5, ElsewhereStep DEF KnowledgeInv, Inv, Typed
  <2>2. PlacedGeos' = PlacedGeos /\ StashGeos' = StashGeos
    BY <2>1 DEF PlacedGeos, SeqGeos, StashGeos
  <2>3. Unrestored' \subseteq Unrestored
    <3> SUFFICES ASSUME NEW h \in Geo, geomToggles'[h] = 0 PROVE geomToggles[h] = 0
      BY <2>2 DEF Unrestored
    <3> QED BY <2>1
  <2>4. MentionsPlaced'
    BY <2>1, <2>2 DEF KnowledgeInv, MentionsPlaced
  <2>5. Ordered'
    <3>1. PICK L : OrderedBy(seq, stash, Unrestored, L)
      BY DEF KnowledgeInv, Ordered
    <3>2. OrderedBy(seq', stash', Unrestored', L)
      BY <2>1, <2>3, <3>1, AmongShrinks
    <3> QED BY <3>2 DEF Ordered
  <2>6. Explained'
    BY <1>2, <2>1 DEF KnowledgeInv, Explained
  <2> QED BY <1>1, <2>4, <2>5, <2>6 DEF KnowledgeInv
<1> QED BY <1>3, <1>4, <1>5, NextUnlessPruned

\* An element keeps the part that it stands for.
LEMMA BranchForms ==
  ASSUME Inv, NEW g \in Geo, Branch(g), AdmitsForms(Placed')
  PROVE  AdmitsForms(Placed)
<1> SUFFICES ASSUME NEW d \in Placed, d.form \in Parts PROVE d.form = TourPart
  BY DEF AdmitsForms
<1>1. \A e \in Placed : e.geo # g => e \in Placed'
  BY BranchPlaces
<1>2. /\ Placed = {seq[i] : i \in 1 .. Len(seq)} \cup {stash[k].element : k \in 1 .. Len(stash)}
      /\ SeqGeos = {seq[i].geo : i \in 1 .. Len(seq)}
      /\ StashGeos = {stash[k].element.geo : k \in 1 .. Len(stash)}
  BY PlacedAsSet, GeosAsSets DEF Inv
<1>3. Placed' = {seq'[i] : i \in 1 .. Len(seq')} \cup {stash'[k].element : k \in 1 .. Len(stash')}
  BY BranchInv, PlacedNext DEF Inv
<1>4. g \in Branchable /\ seq' \in Proposed(g)
  BY BranchStep
<1>5. CASE d.geo # g
  BY <1>1, <1>5 DEF AdmitsForms
<1>6. CASE d.geo = g /\ g \in SeqGeos
  <2>1. \A k \in 1 .. Len(stash) : stash[k].element.geo # g
    BY <1>2, <1>6 DEF Inv, PlacedOnce, OnceIn, Apart
  <2>2. d \in ToSet(seq)
    BY <1>2, <1>6, <2>1, GeosAsSets DEF ToSet, Inv
  <2>3. d.form = "lazy"
    BY <1>4, <1>6, <2>2 DEF Branchable
  <2> QED BY <2>3, PartialSequenceAssumption
<1>7. CASE d.geo = g /\ g \notin SeqGeos
  <2>1. PICK b \in 1 .. Len(stash) : d = stash[b].element
    BY <1>2, <1>7
  <2>2. g \in StashGeos
    BY <1>2, <1>7, <2>1
  <2>3. PICK a \in 1 .. Len(stash), k \in 1 .. Len(seq), e \in Elem :
          stash[a].element.geo = g /\ InsertsAt(seq', g, k, e) /\ e.form = stash[a].element.form
    BY <1>4, <1>7, <2>2, ProposedSteps DEF Restores, Extends
  <2>4. a = b
    BY <1>7, <2>1, <2>3 DEF Inv, PlacedOnce, OnceIn, DistinctStashed
  <2>5. \E i \in 1 .. Len(seq') : seq'[i] = e
    <3>1. Spreads(seq', seq, k, e)
      BY <2>3, InsertsPlaces
    <3> QED BY <3>1 DEF Spreads
  <2> QED BY <1>3, <2>1, <2>3, <2>4, <2>5 DEF AdmitsForms
<1> QED BY <1>5, <1>6, <1>7

\* What two polygons agree on in a node that admits the tour, the tour does.
LEMMA AgreedAdmitted ==
  ASSUME Inv', AdmitsTour(seq', stash')
  PROVE  Agreed' \subseteq TourOrder
<1>1. seq' \in Seq(Elem) /\ stash' \in Seq(Entry)
  BY DEF Inv, Typed
<1>2. Ascends(seq') /\ AllRespect(stash', TourOrder)
  BY <1>1, AdmitsIff
<1>3. /\ DOMAIN seq' = 1 .. Len(seq') /\ DOMAIN stash' = 1 .. Len(stash')
      /\ SeqGeos' = {seq'[i].geo : i \in 1 .. Len(seq')}
  BY <1>1, PlacedNext DEF Inv
<1>4. StashGeos' = {stash'[k].element.geo : k \in 1 .. Len(stash')}
  BY <1>3 DEF StashGeos, ToSet
<1> SUFFICES ASSUME NEW x \in Geo, NEW y \in Geo, x \in PlacedGeos', y \in PlacedGeos',
                    Agrees(seq', stash', x, y)
             PROVE  <<x, y>> \in TourOrder
  BY DEF Agreed
<1>5. CASE x \in StashGeos'
  <2>1. PICK k \in 1 .. Len(stash') : stash'[k].element.geo = x
    BY <1>4, <1>5
  <2> QED BY <1>2, <1>3, <2>1 DEF Agrees, AllRespect, Respects
<1>6. CASE y \in StashGeos'
  <2>1. PICK k \in 1 .. Len(stash') : stash'[k].element.geo = y
    BY <1>4, <1>6
  <2> QED BY <1>2, <1>3, <2>1 DEF Agrees, AllRespect, Respects
<1>7. CASE x \in SeqGeos' /\ y \in SeqGeos'
  <2>1. PICK i \in 1 .. Len(seq'), j \in 1 .. Len(seq') : seq'[i].geo = x /\ seq'[j].geo = y
    BY <1>3, <1>7
  <2>2. x < y
    BY <1>2, <2>1 DEF Agrees, Ascends
  <2> QED BY <2>2 DEF TourOrder
<1> QED BY <1>5, <1>6, <1>7 DEF PlacedGeos

\* With the limit of the code on how often a polygon may be restored, a tour
\* that a node excludes is excluded in every node below: an element that simplify()
\* takes out of the sequence no longer constrains the relaxation, but the order
\* that its entry in the stash keeps is all that is needed to restore it without
\* searching anything twice (relaxed_solution.cpp add_to_stash, common.cpp
\* MAX_GEOM_TOGGLE_COUNT).
THEOREM NothingSearchedTwice == ASSUME MaxGeomToggle <= 1 PROVE Spec => NoTourRegained
<1>1. ASSUME KnowledgeInv, Next, phase' # "pruned", AdmitsTour(seq', stash')
      PROVE  AdmitsTour(seq, stash)
  <2>1. seq \in Seq(Elem) /\ stash \in Seq(Entry) /\ Inv /\ Inv'
    BY <1>1, NextInv DEF KnowledgeInv, Inv, Typed
  <2>2. TourOrder \in SUBSET (Geo \X Geo) /\ IsTransitive(TourOrder)
    BY TourOrderComposes DEF TourOrder, IsTransitive
  <2>3. Agreed \subseteq TourOrder
    BY <1>1, <2>1, AgreedGrows, AgreedAdmitted
  <2>4. AllRespect(stash, TourOrder)
    BY <1>1, <2>2, <2>3 DEF KnowledgeInv, Explained
  <2>5. Ascends(seq)
    BY <2>1, <2>3, SequenceAgrees DEF SortedBy, Ascends, TourOrder
  <2>6. AdmitsForms(Placed)
    <3>1. seq' \in Seq(Elem) /\ stash' \in Seq(Entry)
      BY <2>1 DEF Inv, Typed
    <3>2. AdmitsForms(Placed')
      BY <1>1, <3>1, AdmitsIff DEF Placed
    <3>3. CASE Evaluate
      BY <2>1, <3>2, <3>3, EvaluatePlaces
    <3>4. CASE \E g \in Geo : Branch(g)
      BY <2>1, <3>2, <3>4, BranchForms
    <3>5. CASE \E g \in Geo : RestoredElsewhere(g)
      BY <3>2, <3>5 DEF RestoredElsewhere, Placed
    <3> QED BY <1>1, <3>3, <3>4, <3>5, NextUnlessPruned
  <2> QED BY <2>1, <2>4, <2>5, <2>6, AdmitsIff DEF Placed
<1>2. Init => UntilPruned
  BY InitKnowledge DEF UntilPruned, KnowledgeInv
<1>3. ASSUME UntilPruned, Next PROVE KnowledgeInv
  BY <1>3 DEF UntilPruned, Next, Evaluate, Branch, DeadEnd, RestoredElsewhere
<1>4. UntilPruned /\ [Next]_vars => UntilPruned'
  <2>1. ASSUME UntilPruned, Next PROVE UntilPruned'
    BY <1>3, <2>1, NextInv, NextKnowledge DEF UntilPruned
  <2>2. ASSUME UntilPruned, UNCHANGED vars PROVE UntilPruned'
    BY <2>2 DEF UntilPruned, KnowledgeInv, vars, Inv, Typed, FirstStays, TogglesLeft,
                PlacedOnce, LazyIsNonconvex, MentionsPlaced, PlacedGeos, SeqGeos, StashGeos,
                Ordered, Unrestored, Explained, Agreed
  <2> QED BY <2>1, <2>2
<1>5. UntilPruned /\ [Next]_vars =>
        [phase' # "pruned" /\ AdmitsTour(seq', stash') => AdmitsTour(seq, stash)]_vars
  BY <1>1, <1>3
<1> QED BY <1>2, <1>4, <1>5, PTL DEF Spec, NoTourRegained
=============================================================================
