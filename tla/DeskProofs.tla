----------------------------- MODULE DeskProofs -----------------------------
(***************************************************************************)
(* Proofs about the components of Desk, for every value of its constants.  *)
(* A behaviour of Desk is, for each component, one of the component's own  *)
(* specification; what is proved of that holds in Desk.                    *)
(*                                                                         *)
(* The form and the table of submissions bring their theorems (FormProofs, *)
(* TableProofs); the prices, the calendar, the seasons, the passes, the    *)
(* limiter, the edit pages, the menu cards and the ordered lists are       *)
(* proved about here, each with the invariant that stands at the head of   *)
(* its part.                                                               *)
(***************************************************************************)
EXTENDS Desk, FiniteSetTheorems, SequenceTheorems, WellFoundedInduction, TLAPS

deskVars == <<part, priceState, seasonState, menuState, pageState, formState,
              orderState, limitState, calendarState, passState, tabState, tableState>>

\* A set of numbers that is not empty has a least one.
LEMMA LeastOf ==
  ASSUME NEW S \in SUBSET Nat, S # {}
  PROVE  \E n \in S : \A m \in S : n <= m
<1> DEFINE R == OpToRel(<, Nat)
<1>1. IsWellFoundedOn(R, Nat)
  BY NatLessThanWellFounded
<1>2. \A x, y \in Nat : x < y => <<x, y>> \in R
  BY DEF OpToRel
<1> HIDE DEF R
<1>3. PICK n \in S : \A m \in S : ~(<<m, n>> \in R)
  BY <1>1, WFMin
<1>4. ASSUME NEW m \in S  PROVE n <= m
  <2>1. n \in Nat /\ m \in Nat
    OBVIOUS
  <2>2. ~(m < n)
    BY <1>2, <1>3, <2>1
  <2> QED BY <2>1, <2>2
<1> QED BY <1>4

-----------------------------------------------------------------------------
\* Whichever component runs, the form follows its own specification.
LEMMA FormRun == Spec => Form!Spec
<1>1. Init => Form!Init
  BY DEF Init
<1>2. [Next]_deskVars => [Form!Next]_(Form!formVars)
  BY DEF Next, deskVars, formState, Form!formVars
<1> QED BY <1>1, <1>2, PTL DEF Spec, Form!Spec, deskVars

\* The submit checks demand what the site shows as required, a key keeps its
\* type, and a save changes what its editor touched and is asked as the page
\* showed it (form-config.ts, FormEditorPage.tsx).
THEOREM FormAlwaysKept == Spec => FormKept
<1>1. Form!Spec => []Form!RequiredIsShown
  BY Form!RequiredAlwaysShown, DeskAssumption
<1>2. Form!Spec => []Form!KeyMeansOne
  BY Form!KeyAlwaysMeansOne, DeskAssumption
<1>3. Form!Spec => Form!UntouchedKept
  BY Form!UntouchedAlwaysKept, DeskAssumption
<1>4. Form!Spec => Form!SavedIsAsked
  BY Form!SavedAlwaysAsked, DeskAssumption
<1> QED BY <1>1, <1>2, <1>3, <1>4, FormRun, PTL DEF FormKept

-----------------------------------------------------------------------------
\* Whichever component runs, the table of submissions follows its own
\* specification.
LEMMA TableRun == Spec => Table!Spec
<1>1. Init => Table!Init
  BY DEF Init
<1>2. [Next]_deskVars => [Table!Next]_(Table!tableVars)
  BY DEF Next, deskVars, tableState, Table!tableVars
<1> QED BY <1>1, <1>2, PTL DEF Spec, Table!Spec, deskVars

\* A page at rest shows its rows as they are stored, what a group request takes
\* is on the screen, and a season's move takes only its rows
\* (SubmissionTable.tsx fetchData, saveField, moveWholeSeason).
THEOREM TableAlwaysKept == Spec => TableKept
<1>1. Table!Spec => []Table!TableTrue
  BY Table!TableAlwaysTrue, DeskAssumption
<1>2. Table!Spec => []Table!SelectionShown
  BY Table!SelectionAlwaysShown, DeskAssumption
<1>3. Table!Spec => Table!MovesOnlyItsSeason
  BY Table!MovesOnlyItsSeasonAlways, DeskAssumption
<1> QED BY <1>1, <1>2, <1>3, TableRun, PTL DEF TableKept

-----------------------------------------------------------------------------
(* The prices.                                                              *)
(*                                                                          *)
(* The three properties look at the store and the history; PriceInv says    *)
(* what a request holds between its awaits: the list it is about to write   *)
(* is its edit of the list it read, of the stored one unless another write  *)
(* came in between, under a name found free, and its record is of just that *)
(* change.  The lemmas on adding, changing and removing one item of a list  *)
(* come first.                                                              *)

PriceValues == Prices!Items \union ListTitles \union SectionNotes
PriceItemEdits == {e \in Prices!Edits : e.kind \in Prices!ItemKinds}
PriceNoneOr(S) == S \union {Nothing}

\* A request past its reading holds what it is about to store.
PriceItemJobs ==
  [step : {"check", "write", "record", "answer"}, edit : PriceItemEdits,
   next : Seq(Prices!Items), before : PriceNoneOr(Prices!Items),
   after : PriceNoneOr(Prices!Items)]
PriceTitleJobs ==
  [step : {"write", "record", "answer"}, edit : [kind : {"titles"}, item : ListTitles],
   next : ListTitles, before : {Nothing}, after : ListTitles]
PriceNoteJobs ==
  [step : {"write", "record", "answer"}, edit : [kind : {"notes"}, item : SectionNotes],
   next : SectionNotes, before : SectionNotes, after : SectionNotes]
PriceJobs == {Prices!Idle} \union [step : {"read"}, edit : Prices!Edits]
               \union PriceItemJobs \union PriceTitleJobs \union PriceNoteJobs

PriceEntries == [subject : PriceLists \union {"titles", "notes"},
                 before : PriceNoneOr(PriceValues), after : PriceNoneOr(PriceValues)]

PricesTyped ==
  /\ priceRows \in [PriceLists -> Seq(Prices!Items)]
  /\ priceTitles \in [PriceLists -> PriceNoneOr(ListTitles)]
  /\ priceNotes \in SectionNotes
  /\ pricePage \in [Staff -> [PriceLists -> Seq(Prices!Items)]]
  /\ priceJob \in [Staff -> PriceJobs]
  /\ priceLog \in Seq(PriceEntries)
  /\ priceOvertaken \in [Staff -> BOOLEAN] /\ priceUnlogged \in BOOLEAN
  /\ priceRaced \subseteq {"items", "titles", "notes"}
  /\ priceAsks \in 0..MaxPriceAsks /\ priceFaults \in 0..MaxPriceFaults

\* Only a list that was created holds items, on a page too, and is asked for.
PriceOnlyCreated ==
  /\ \A l \in PriceLists : priceTitles[l] = Nothing =>
       priceRows[l] = <<>> /\ \A a \in Staff : pricePage[a][l] = <<>>
  /\ \A a \in Staff : priceJob[a] # Prices!Idle /\ priceJob[a].edit.kind \in Prices!ItemKinds =>
       priceTitles[priceJob[a].edit.list] # Nothing

\* What a request that was not overtaken is about to store is its edit of what
\* is stored now, under a name that is free.
PriceReads(a) == \A e \in PriceItemEdits :
  /\ Prices!At(a, "check") \/ Prices!At(a, "write")
  /\ priceJob[a].edit = e /\ ~priceOvertaken[a]
  => /\ e.kind # "add" => Prices!CheckExpected(priceRows[e.list], e)
     /\ priceJob[a].next = Prices!ApplyItemEdit(priceRows[e.list], e).next
     /\ priceJob[a].before = Prices!ApplyItemEdit(priceRows[e.list], e).before
     /\ priceJob[a].after = Prices!ApplyItemEdit(priceRows[e.list], e).after
PriceNameFree(a) == \A e \in PriceItemEdits : \A next, name :
  /\ Prices!At(a, "write") /\ priceJob[a].edit = e /\ ~priceOvertaken[a]
       /\ Prices!Renamed(priceJob[a])
  /\ priceJob[a].next = next /\ priceJob[a].after.name = name
  => ~Prices!NameClash(e.list, next, name)
PriceTitleFree(a) ==
  Prices!At(a, "write") /\ priceJob[a].edit.kind = "titles" =>
    priceJob[a].next = priceJob[a].after
      /\ (~priceOvertaken[a] => ~Prices!ListNameTaken(priceJob[a].next))
PriceNotesRead(a) ==
  Prices!At(a, "write") /\ priceJob[a].edit.kind = "notes" =>
    priceJob[a].next = priceJob[a].after /\ (~priceOvertaken[a] => priceJob[a].before = priceNotes)
PriceFitsStored(a) == PriceReads(a) /\ PriceNameFree(a) /\ PriceTitleFree(a) /\ PriceNotesRead(a)

PriceInv == PricesTyped /\ PriceOnlyCreated /\ \A a \in Staff : PriceFitsStored(a)

-----------------------------------------------------------------------------
(* Lists with an item more, changed or less.                               *)

LEMMA PriceEditKinds ==
  ASSUME NEW e \in PriceItemEdits
  PROVE  /\ e.list \in PriceLists
         /\ \/ e.kind = "add" /\ e.item \in Prices!Items
            \/ e.kind = "update" /\ e.item \in Prices!Items /\ e.index \in Nat
            \/ e.kind = "remove" /\ e.index \in Nat
BY DEF PriceItemEdits, Prices!Edits, Prices!ItemKinds

LEMMA PriceJobKinds ==
  ASSUME NEW j \in PriceJobs
  PROVE  \/ j = Prices!Idle /\ j.step = "idle"
         \/ j.step = "read" /\ j.edit \in Prices!Edits /\ j # Prices!Idle
         \/ /\ j \in PriceItemJobs /\ j # Prices!Idle
                 /\ j.step \in {"check", "write", "record", "answer"}
            /\ j.edit \in PriceItemEdits /\ j.edit.kind \in Prices!ItemKinds
                 /\ j.edit.kind \notin {"titles", "notes"}
            /\ j.next \in Seq(Prices!Items) /\ j.before \in PriceNoneOr(Prices!Items)
                 /\ j.after \in PriceNoneOr(Prices!Items)
         \/ /\ j \in PriceTitleJobs /\ j # Prices!Idle /\ j.step \in {"write", "record", "answer"}
                 /\ j.edit.kind = "titles"
            /\ j.next \in ListTitles /\ j.before = Nothing /\ j.after \in ListTitles
         \/ /\ j \in PriceNoteJobs /\ j # Prices!Idle /\ j.step \in {"write", "record", "answer"}
                 /\ j.edit.kind = "notes"
            /\ j.next \in SectionNotes /\ j.before \in SectionNotes /\ j.after \in SectionNotes
<1>1. CASE j = Prices!Idle
  BY <1>1 DEF Prices!Idle
<1>2. CASE j \in [step : {"read"}, edit : Prices!Edits]
  BY <1>2 DEF Prices!Idle
<1>3. CASE j \in PriceItemJobs
  BY <1>3 DEF PriceItemJobs, Prices!Idle, PriceItemEdits, Prices!ItemKinds
<1>4. CASE j \in PriceTitleJobs
  BY <1>4 DEF PriceTitleJobs, Prices!Idle
<1>5. CASE j \in PriceNoteJobs
  BY <1>5 DEF PriceNoteJobs, Prices!Idle
<1> QED
  BY <1>1, <1>2, <1>3, <1>4, <1>5 DEF PriceJobs

\* The list without row i.
LEMMA PriceWithoutRow ==
  ASSUME NEW S, NEW s \in Seq(S), NEW i \in DOMAIN s
  PROVE  /\ Prices!Without(s, i) \in Seq(S) /\ Len(Prices!Without(s, i)) = Len(s) - 1
         /\ \A k \in 1..(Len(s) - 1) : Prices!Without(s, i)[k] = IF k < i THEN s[k] ELSE s[k + 1]
<1> DEFINE u == SubSeq(s, 1, i - 1)
           v == SubSeq(s, i + 1, Len(s))
<1>1. Len(s) \in Nat /\ i \in Nat /\ 1 <= i /\ i <= Len(s) /\ \A k \in 1..Len(s) : s[k] \in S
  BY LenProperties
<1>2. u \in Seq(S) /\ Len(u) = i - 1 /\ \A k \in 1..(i - 1) : u[k] = s[k]
  BY <1>1, SubSeqProperties
<1>3. v \in Seq(S) /\ Len(v) = Len(s) - i /\ \A k \in 1..(Len(s) - i) : v[k] = s[i + k]
  BY <1>1, SubSeqProperties
<1>4. Prices!Without(s, i) = u \o v
  BY DEF Prices!Without
<1> HIDE DEF u, v
<1>5. /\ u \o v \in Seq(S) /\ Len(u \o v) = Len(u) + Len(v)
      /\ \A k \in 1..(Len(u) + Len(v)) : (u \o v)[k] = IF k <= Len(u) THEN u[k] ELSE v[k - Len(u)]
  BY <1>2, <1>3, ConcatProperties
<1>6. ASSUME NEW k \in 1..(Len(s) - 1)
      PROVE  (u \o v)[k] = IF k < i THEN s[k] ELSE s[k + 1]
  <2>1. (u \o v)[k] = IF k <= i - 1 THEN u[k] ELSE v[k - (i - 1)]
    BY <1>1, <1>2, <1>3, <1>5
  <2>2. CASE k < i
    BY <1>1, <1>2, <2>1, <2>2
  <2>3. CASE ~(k < i)
    <3>1. k - (i - 1) \in 1..(Len(s) - i) /\ i + (k - (i - 1)) = k + 1
      BY <1>1, <2>3
    <3> QED
      BY <1>1, <1>3, <2>1, <2>3, <3>1
  <2> QED
    BY <2>2, <2>3
<1> QED
  BY <1>1, <1>2, <1>3, <1>4, <1>5, <1>6

\* What an edit makes of a list it fits.
LEMMA PriceApplied ==
  ASSUME NEW e \in PriceItemEdits, NEW s \in Seq(Prices!Items),
         e.kind # "add" => Prices!CheckExpected(s, e)
  PROVE  LET done == Prices!ApplyItemEdit(s, e) IN
         /\ done.next \in Seq(Prices!Items) /\ done.before \in PriceNoneOr(Prices!Items)
              /\ done.after \in PriceNoneOr(Prices!Items)
         /\ \/ /\ e.kind = "add" /\ done.next = Append(s, e.item) /\ e.item \in Prices!Items
               /\ done.before = Nothing /\ done.after = e.item
            \/ /\ e.kind = "update" /\ e.index \in DOMAIN s
                    /\ done.next = [s EXCEPT ![e.index] = e.item]
               /\ done.before = s[e.index] /\ done.after = e.item /\ e.item \in Prices!Items
            \/ /\ e.kind = "remove" /\ e.index \in DOMAIN s
                    /\ done.next = Prices!Without(s, e.index)
               /\ done.before = s[e.index] /\ done.after = Nothing
<1>1. Len(s) \in Nat /\ DOMAIN s = 1..Len(s) /\ \A k \in 1..Len(s) : s[k] \in Prices!Items
  BY LenProperties
<1>2. CASE e.kind = "add"
  <2>1. Prices!ApplyItemEdit(s, e)
          = [next |-> Append(s, e.item), before |-> Nothing, after |-> e.item]
    BY <1>2, Zenon DEF Prices!ApplyItemEdit
  <2> QED
    BY <1>2, <2>1, PriceEditKinds, AppendProperties DEF PriceNoneOr
<1>3. CASE e.kind = "update"
  <2>1. Prices!ApplyItemEdit(s, e) = [next |-> [s EXCEPT ![e.index] = e.item],
                               before |-> s[e.index], after |-> e.item]
    BY <1>3, Zenon DEF Prices!ApplyItemEdit
  <2>2. e.index \in 1..Len(s) /\ e.item \in Prices!Items
    BY <1>1, <1>3, PriceEditKinds DEF Prices!CheckExpected
  <2>3. [s EXCEPT ![e.index] = e.item] \in Seq(Prices!Items)
    BY <2>2, ExceptSeq
  <2> QED
    BY <1>1, <1>3, <2>1, <2>2, <2>3 DEF PriceNoneOr
<1>4. CASE e.kind = "remove"
  <2>1. Prices!ApplyItemEdit(s, e) = [next |-> Prices!Without(s, e.index),
                               before |-> s[e.index], after |-> Nothing]
    BY <1>4, Zenon DEF Prices!ApplyItemEdit
  <2>2. e.index \in 1..Len(s)
    BY <1>1, <1>4 DEF Prices!CheckExpected
  <2> QED
    BY <1>1, <1>4, <2>1, <2>2, PriceWithoutRow DEF PriceNoneOr
<1> QED
  BY <1>2, <1>3, <1>4, PriceEditKinds
-----------------------------------------------------------------------------
(* How often a value stands in a list.                                     *)

PriceOne(b) == IF b THEN 1 ELSE 0

\* The prices count with the module they were instantiated with.
LEMMA PriceCount == \A S : Prices!Cardinality(S) = Cardinality(S)
BY DEF Prices!Cardinality, Cardinality

LEMMA PriceTimesIs == \A x, f : Prices!Times(x, f) = Cardinality({i \in DOMAIN f : f[i] = x})
BY DEF Prices!Times, Prices!Cardinality, Cardinality

LEMMA PriceSetsFinite ==
  ASSUME Prices!StoredAssumption
  PROVE  IsFiniteSet(Staff) /\ IsFiniteSet(PriceLists)
BY DEF Prices!StoredAssumption, Prices!IsFiniteSet, IsFiniteSet

\* A part of a finite set, and a set with an element more.
LEMMA PriceOneMore ==
  ASSUME NEW D, IsFiniteSet(D), NEW S, S \subseteq D
  PROVE  /\ IsFiniteSet(S) /\ Cardinality(S) \in Nat
         /\ \A x : x \notin S => Cardinality(S \union {x}) = Cardinality(S) + 1
<1>1. IsFiniteSet(S)
  BY FS_Subset
<1> QED
  BY <1>1, FS_CardinalityType, FS_AddElement

LEMMA PriceTimesChanged ==
  ASSUME NEW f, IsFiniteSet(DOMAIN f), NEW i \in DOMAIN f, NEW e, NEW x
  PROVE  /\ Prices!Times(x, f) \in Nat /\ Prices!Times(x, [f EXCEPT ![i] = e]) \in Nat
         /\ Prices!Times(x, [f EXCEPT ![i] = e]) + PriceOne(f[i] = x)
              = Prices!Times(x, f) + PriceOne(e = x)
<1> DEFINE A == {j \in DOMAIN f \ {i} : f[j] = x}
<1>1. i \notin A /\ A \subseteq DOMAIN f
  OBVIOUS
<1>2. {j \in DOMAIN f : f[j] = x} = IF f[i] = x THEN A \union {i} ELSE A
  OBVIOUS
<1>3. {j \in DOMAIN [f EXCEPT ![i] = e] : [f EXCEPT ![i] = e][j] = x}
        = IF e = x THEN A \union {i} ELSE A
  OBVIOUS
<1> HIDE DEF A
<1>0. Cardinality(A) \in Nat /\ Cardinality(A \union {i}) = Cardinality(A) + 1
  BY <1>1, PriceOneMore
<1>4. Prices!Times(x, f) = IF f[i] = x THEN Cardinality(A \union {i}) ELSE Cardinality(A)
  BY <1>2, PriceTimesIs, Zenon
<1>5. Prices!Times(x, [f EXCEPT ![i] = e]) = IF e = x THEN Cardinality(A \union {i})
        ELSE Cardinality(A)
  BY <1>3, PriceTimesIs, Zenon
<1> QED
  BY <1>0, <1>4, <1>5 DEF PriceOne

LEMMA PriceTimesAppended ==
  ASSUME NEW S, NEW s \in Seq(S), NEW e, NEW x
  PROVE  /\ Prices!Times(x, s) \in Nat /\ Prices!Times(x, Append(s, e)) \in Nat
         /\ Prices!Times(x, Append(s, e)) = Prices!Times(x, s) + PriceOne(e = x)
<1> DEFINE A == {j \in DOMAIN s : s[j] = x}
<1>1. Len(s) \in Nat /\ DOMAIN s = 1..Len(s)
  BY LenProperties
<1>2. A \subseteq 1..Len(s) /\ Len(s) + 1 \notin A /\ IsFiniteSet(1..Len(s))
  BY <1>1, FS_Interval
<1>3. {j \in DOMAIN Append(s, e) : Append(s, e)[j] = x} = IF e = x THEN A \union {Len(s) + 1} ELSE A
  <2>1. DOMAIN Append(s, e) = 1..(Len(s) + 1)
    BY <1>1
  <2>2. \A j \in 1..Len(s) : Append(s, e)[j] = s[j]
    BY <1>1
  <2>3. Append(s, e)[Len(s) + 1] = e
    BY <1>1
  <2>4. \A j : j \in 1..(Len(s) + 1) <=> j \in 1..Len(s) \/ j = Len(s) + 1
    BY <1>1
  <2> QED
    BY <1>1, <2>1, <2>2, <2>3, <2>4
<1> HIDE DEF A
<1>0. Cardinality(A) \in Nat /\ Cardinality(A \union {Len(s) + 1}) = Cardinality(A) + 1
  BY <1>2, PriceOneMore
<1>4. Prices!Times(x, Append(s, e)) = IF e = x THEN Cardinality(A \union {Len(s) + 1})
        ELSE Cardinality(A)
  BY <1>3, PriceTimesIs, Zenon
<1>5. Prices!Times(x, s) = Cardinality(A)
  BY PriceTimesIs DEF A
<1> QED
  BY <1>0, <1>4, <1>5 DEF PriceOne

LEMMA PriceTimesRemoved ==
  ASSUME NEW S, NEW s \in Seq(S), NEW i \in DOMAIN s, NEW x
  PROVE  /\ Prices!Times(x, s) \in Nat /\ Prices!Times(x, Prices!Without(s, i)) \in Nat
         /\ Prices!Times(x, Prices!Without(s, i)) + PriceOne(s[i] = x) = Prices!Times(x, s)
<1> DEFINE t == Prices!Without(s, i)
           A == {j \in DOMAIN s \ {i} : s[j] = x}
           B == {j \in DOMAIN t : t[j] = x}
           From(j) == IF j < i THEN j ELSE j + 1
           f == [j \in B |-> From(j)]
<1>1. Len(s) \in Nat /\ DOMAIN s = 1..Len(s) /\ i \in 1..Len(s)
  BY LenProperties
<1>2. /\ DOMAIN t = 1..(Len(s) - 1)
      /\ \A k \in 1..(Len(s) - 1) : t[k] = s[From(k)]
  <2>1. t \in Seq(S) /\ Len(t) = Len(s) - 1
        /\ \A k \in 1..(Len(s) - 1) : t[k] = IF k < i THEN s[k] ELSE s[k + 1]
    BY PriceWithoutRow
  <2>2. DOMAIN t = 1..Len(t)
    BY <2>1, LenProperties
  <2> QED
    BY <2>1, <2>2
<1> HIDE DEF t
<1>3. A \subseteq 1..Len(s) /\ i \notin A /\ IsFiniteSet(1..Len(s))
  BY <1>1, FS_Interval
<1>0. /\ IsFiniteSet(A) /\ Cardinality(A) \in Nat
      /\ Cardinality(A \union {i}) = Cardinality(A) + 1
  BY <1>3, PriceOneMore
<1>9. IsFiniteSet(B)
  <2>1. B \subseteq 1..(Len(s) - 1) /\ IsFiniteSet(1..(Len(s) - 1))
    BY <1>1, <1>2, FS_Interval
  <2> QED
    BY <2>1, PriceOneMore
<1>4. f \in Bijection(B, A)
  <2>1. \A j \in B : From(j) \in A
    BY <1>1, <1>2
  <2>2. \A j, k \in B : From(j) = From(k) => j = k
    BY <1>1, <1>2
  <2>3. \A k \in A : \E j \in B : From(j) = k
    <3> TAKE k \in A
    <3>1. CASE k < i
      <4>1. k \in 1..(Len(s) - 1) /\ From(k) = k
        BY <1>1, <3>1
      <4> QED
        BY <1>2, <4>1
    <3>2. CASE ~(k < i)
      <4>1. k - 1 \in 1..(Len(s) - 1) /\ From(k - 1) = k
        BY <1>1, <3>2
      <4> QED
        BY <1>2, <4>1
    <3> QED
      BY <3>1, <3>2
  <2> QED
    BY <2>1, <2>2, <2>3 DEF Bijection, Injection, Surjection, IsInjective
<1>5. Cardinality(B) = Cardinality(A)
  BY <1>0, <1>9, <1>4, FS_Bijection DEF ExistsBijection
<1>6. {j \in DOMAIN s : s[j] = x} = IF s[i] = x THEN A \union {i} ELSE A
  BY <1>1
<1>7. Prices!Times(x, t) = Cardinality(B)
  BY PriceTimesIs
<1> HIDE DEF A, B
<1>8. Prices!Times(x, s) = IF s[i] = x THEN Cardinality(A \union {i}) ELSE Cardinality(A)
  BY <1>6, PriceTimesIs, Zenon
<1> QED
  BY <1>0, <1>5, <1>7, <1>8 DEF t, PriceOne

\* An edit accounts for itself.
LEMMA PriceEditBalances ==
  ASSUME Prices!StoredAssumption, NEW e \in PriceItemEdits, NEW s \in Seq(Prices!Items),
         NEW x \in PriceValues,
         e.kind # "add" => Prices!CheckExpected(s, e)
  PROVE  LET done == Prices!ApplyItemEdit(s, e) IN
         /\ Prices!Times(x, s) \in Nat /\ Prices!Times(x, done.next) \in Nat
         /\ Prices!Times(x, done.next) + PriceOne(done.before = x)
              = Prices!Times(x, s) + PriceOne(done.after = x)
<1> DEFINE done == Prices!ApplyItemEdit(s, e)
<1>1. Nothing # x
  BY DEF Prices!StoredAssumption, PriceValues
<1>2. IsFiniteSet(DOMAIN s)
  BY LenProperties, FS_Interval
<1>3. CASE e.kind = "add"
  <2>1. done.next = Append(s, e.item) /\ done.before = Nothing /\ done.after = e.item
    BY <1>3, PriceApplied
  <2> QED
    BY <1>1, <2>1, PriceTimesAppended DEF PriceOne
<1>4. CASE e.kind = "update"
  <2>1. e.index \in DOMAIN s /\ done.next = [s EXCEPT ![e.index] = e.item]
        /\ done.before = s[e.index] /\ done.after = e.item
    BY <1>4, PriceApplied
  <2> QED
    BY <1>2, <2>1, PriceTimesChanged
<1>5. CASE e.kind = "remove"
  <2>1. e.index \in DOMAIN s /\ done.next = Prices!Without(s, e.index)
        /\ done.before = s[e.index] /\ done.after = Nothing
    BY <1>5, PriceApplied
  <2> QED
    BY <1>1, <2>1, PriceTimesRemoved DEF PriceOne
<1> QED
  BY <1>3, <1>4, <1>5, PriceEditKinds

-----------------------------------------------------------------------------
(* Each step keeps the types and what requests hold.                       *)

LEMMA PriceStart ==
  ASSUME Prices!StoredAssumption, Prices!Init
  PROVE  PriceInv
<1>1. PricesTyped
  <2>1. Prices!Idle \in PriceJobs /\ priceJob = [a \in Staff |-> Prices!Idle]
    BY DEF Prices!Init, PriceJobs
  <2>2. priceLog \in Seq(PriceEntries)
    BY EmptySeq DEF Prices!Init
  <2>3. priceRows \in [PriceLists -> Seq(Prices!Items)]
          /\ pricePage \in [Staff -> [PriceLists -> Seq(Prices!Items)]]
    BY DEF Prices!Init, Prices!StoredAssumption
  <2>4. /\ priceTitles \in [PriceLists -> PriceNoneOr(ListTitles)] /\ priceNotes \in SectionNotes
        /\ priceAsks \in 0..MaxPriceAsks /\ priceFaults \in 0..MaxPriceFaults
    BY DEF Prices!Init, Prices!StoredAssumption, PriceNoneOr
  <2> QED BY <2>1, <2>2, <2>3, <2>4 DEF Prices!Init, PricesTyped
<1>2. PriceOnlyCreated
  BY DEF Prices!Init, Prices!StoredAssumption, PriceOnlyCreated
<1>3. ASSUME NEW a \in Staff
      PROVE  PriceFitsStored(a)
  BY DEF Prices!Init, Prices!Idle, Prices!At, PriceFitsStored, PriceReads, PriceNameFree,
     PriceTitleFree, PriceNotesRead
<1> QED BY <1>1, <1>2, <1>3 DEF PriceInv

\* Where the lists stand still, only a request that goes on to its check or its
\* write has to be looked at.
LEMMA PriceStandStill ==
  ASSUME NEW a \in Staff, PriceFitsStored(a), UNCHANGED <<priceRows, priceTitles, priceNotes>>,
         \/ priceJob'[a] = priceJob[a] /\ priceOvertaken'[a] = priceOvertaken[a]
         \/ priceJob'[a].step \notin {"check", "write"}
  PROVE  PriceFitsStored(a)'
<1>1. CASE priceJob'[a] = priceJob[a] /\ priceOvertaken'[a] = priceOvertaken[a]
  <2>1. Prices!At(a, "check")' = Prices!At(a, "check")
          /\ Prices!At(a, "write")' = Prices!At(a, "write")
    BY <1>1 DEF Prices!At
  <2>2. PriceReads(a)'
    BY <1>1, <2>1 DEF PriceFitsStored, PriceReads
  <2>3. PriceNameFree(a)'
    BY <1>1, <2>1 DEF PriceFitsStored, PriceNameFree, Prices!NameClash
  <2>4. PriceTitleFree(a)' /\ PriceNotesRead(a)'
    BY <1>1, <2>1 DEF PriceFitsStored, PriceTitleFree, PriceNotesRead, Prices!ListNameTaken
  <2> QED BY <2>2, <2>3, <2>4 DEF PriceFitsStored
<1>2. CASE priceJob'[a].step \notin {"check", "write"}
  BY <1>2 DEF Prices!At, PriceFitsStored, PriceReads, PriceNameFree, PriceTitleFree, PriceNotesRead
<1> QED BY <1>1, <1>2

\* A request's own steps while the lists stand still.
LEMMA PriceOwnStep ==
  ASSUME PriceInv, NEW a \in Staff, NEW j, j \in PriceJobs, priceJob' = [priceJob EXCEPT ![a] = j],
         UNCHANGED <<priceRows, priceTitles, priceNotes, pricePage>>,
         \A b \in Staff \ {a} : priceOvertaken'[b] = priceOvertaken[b],
         priceLog' \in Seq(PriceEntries), priceOvertaken' \in [Staff -> BOOLEAN],
         priceUnlogged' \in BOOLEAN,
         UNCHANGED priceRaced, priceAsks' \in 0..MaxPriceAsks, priceFaults' \in 0..MaxPriceFaults,
         j # Prices!Idle /\ j.edit.kind \in Prices!ItemKinds => priceTitles[j.edit.list] # Nothing,
         j.step \notin {"check", "write"} \/ PriceFitsStored(a)'
  PROVE  PriceInv'
<1>1. priceJob'[a] = j /\ \A b \in Staff \ {a} : priceJob'[b] = priceJob[b]
  BY DEF PriceInv, PricesTyped
<1>2. PricesTyped'
  BY DEF PriceInv, PricesTyped
<1>3. PriceOnlyCreated'
  BY <1>1 DEF PriceInv, PriceOnlyCreated, Prices!Idle
<1>4. ASSUME NEW b \in Staff
      PROVE  PriceFitsStored(b)'
  <2>1. CASE b # a
    BY <1>1, <2>1, PriceStandStill DEF PriceInv
  <2>2. CASE b = a
    BY <1>1, <2>2, PriceStandStill DEF PriceInv
  <2> QED BY <2>1, <2>2
<1> QED BY <1>2, <1>3, <1>4 DEF PriceInv

LEMMA PriceReloadKeeps ==
  ASSUME PriceInv, NEW a \in Staff, Prices!Reload(a)
  PROVE  PriceInv'
<1>1. PricesTyped'
  BY DEF PriceInv, PricesTyped, Prices!Reload
<1>2. PriceOnlyCreated'
  BY DEF PriceInv, PricesTyped, PriceOnlyCreated, Prices!Reload, Prices!Idle
<1>3. ASSUME NEW b \in Staff
      PROVE  PriceFitsStored(b)'
  BY PriceStandStill DEF PriceInv, Prices!Reload
<1> QED BY <1>1, <1>2, <1>3 DEF PriceInv

LEMMA PriceSendKeeps ==
  ASSUME Prices!StoredAssumption, PriceInv, NEW a \in Staff, NEW e \in Prices!Edits,
         Prices!Send(a, e),
         e.kind \in Prices!ItemKinds => priceTitles[e.list] # Nothing
  PROVE  PriceInv'
<1> DEFINE j == [step |-> "read", edit |-> e]
<1>1. j \in PriceJobs /\ j.step = "read" /\ j.edit = e
  BY DEF PriceJobs
<1>2. priceAsks' \in 0..MaxPriceAsks
  BY DEF Prices!StoredAssumption, PriceInv, PricesTyped, Prices!Send
<1> QED BY <1>1, <1>2, PriceOwnStep DEF Prices!Send, PriceInv, PricesTyped

LEMMA PriceAsksKeep ==
  ASSUME Prices!StoredAssumption, PriceInv, NEW a \in Staff,
         Prices!AddItem(a) \/ Prices!UpdateItem(a) \/ Prices!RemoveItem(a) \/ Prices!CreateList(a)
           \/ Prices!SaveNotes(a)
  PROVE  PriceInv'
<1>1. CASE Prices!AddItem(a)
  <2>1. PICK l \in PriceLists, item \in Prices!Items :
          priceTitles[l] # Nothing /\ Prices!Send(a, [kind |-> "add", list |-> l, item |-> item])
    BY <1>1 DEF Prices!AddItem
  <2>2. [kind |-> "add", list |-> l, item |-> item] \in Prices!Edits
    BY DEF Prices!Edits
  <2> QED BY <2>1, <2>2, PriceSendKeeps
<1>2. ASSUME NEW l \in PriceLists, NEW i \in DOMAIN pricePage[a][l]
      PROVE  i \in Nat /\ pricePage[a][l][i].name \in ItemNames /\ priceTitles[l] # Nothing
  <2>1. pricePage[a][l] \in Seq(Prices!Items)
    BY DEF PriceInv, PricesTyped
  <2>2. pricePage[a][l] # <<>>
    <3>1. Len(pricePage[a][l]) \in Nat /\ DOMAIN pricePage[a][l] = 1..Len(pricePage[a][l])
      BY <2>1, LenProperties
    <3>2. Len(pricePage[a][l]) # 0
      BY <3>1
    <3> QED BY <3>2, <2>1, EmptySeq
  <2>3. pricePage[a][l][i] \in Prices!Items /\ i \in Nat
    BY <2>1, LenProperties
  <2> QED BY <2>2, <2>3 DEF Prices!Items, PriceInv, PriceOnlyCreated
<1>3. CASE Prices!UpdateItem(a)
  <2>1. PICK l \in PriceLists, item \in Prices!Items : \E i \in DOMAIN pricePage[a][l] :
          Prices!Send(a, [kind |-> "update", list |-> l, item |-> item,
                   index |-> i, expected |-> pricePage[a][l][i].name])
    BY <1>3 DEF Prices!UpdateItem
  <2>2. PICK i \in DOMAIN pricePage[a][l] :
          Prices!Send(a, [kind |-> "update", list |-> l, item |-> item,
                   index |-> i, expected |-> pricePage[a][l][i].name])
    BY <2>1
  <2> DEFINE e == [kind |-> "update", list |-> l, item |-> item,
                   index |-> i, expected |-> pricePage[a][l][i].name]
  <2>3. e \in Prices!Edits /\ e.list = l
    BY <1>2 DEF Prices!Edits
  <2> QED BY <1>2, <2>2, <2>3, PriceSendKeeps
<1>4. CASE Prices!RemoveItem(a)
  <2>1. PICK l \in PriceLists : \E i \in DOMAIN pricePage[a][l] :
          Prices!Send(a, [kind |-> "remove", list |-> l, index |-> i,
            expected |-> pricePage[a][l][i].name])
    BY <1>4 DEF Prices!RemoveItem
  <2>2. PICK i \in DOMAIN pricePage[a][l] :
          Prices!Send(a, [kind |-> "remove", list |-> l, index |-> i,
            expected |-> pricePage[a][l][i].name])
    BY <2>1
  <2> DEFINE e == [kind |-> "remove", list |-> l, index |-> i, expected |-> pricePage[a][l][i].name]
  <2>3. e \in Prices!Edits /\ e.list = l
    BY <1>2 DEF Prices!Edits
  <2> QED BY <1>2, <2>2, <2>3, PriceSendKeeps
<1>5. CASE Prices!CreateList(a)
  <2>1. PICK t \in ListTitles : Prices!Send(a, [kind |-> "titles", item |-> t])
    BY <1>5 DEF Prices!CreateList
  <2>2. [kind |-> "titles", item |-> t] \in Prices!Edits
    BY DEF Prices!Edits
  <2> QED BY <2>1, <2>2, PriceSendKeeps DEF Prices!ItemKinds
<1>6. CASE Prices!SaveNotes(a)
  <2>1. PICK n \in SectionNotes : Prices!Send(a, [kind |-> "notes", item |-> n])
    BY <1>6 DEF Prices!SaveNotes
  <2>2. [kind |-> "notes", item |-> n] \in Prices!Edits
    BY DEF Prices!Edits
  <2> QED BY <2>1, <2>2, PriceSendKeeps DEF Prices!ItemKinds
<1> QED BY <1>1, <1>3, <1>4, <1>5, <1>6

LEMMA PriceRefuseKeeps ==
  ASSUME PriceInv, NEW a \in Staff, Prices!Refuse(a)
  PROVE  PriceInv'
<1>1. Prices!Idle \in PriceJobs /\ Prices!Idle.step = "idle"
  BY DEF PriceJobs, Prices!Idle
<1> QED BY <1>1, PriceOwnStep DEF Prices!Refuse, PriceInv, PricesTyped

LEMMA PriceAnswerKeeps ==
  ASSUME Prices!StoredAssumption, PriceInv, NEW a \in Staff, Prices!Answer(a)
  PROVE  PriceInv'
<1>1. PricesTyped'
  BY DEF PriceInv, PricesTyped, Prices!Answer, PriceJobs
<1>2. PriceOnlyCreated'
  BY DEF PriceInv, PricesTyped, PriceOnlyCreated, Prices!Answer, Prices!Idle
<1>3. ASSUME NEW b \in Staff
      PROVE  PriceFitsStored(b)'
  <2>1. IF b = a THEN priceJob'[b].step = "idle" ELSE priceJob'[b] = priceJob[b]
    BY DEF PriceInv, PricesTyped, Prices!Answer, Prices!Idle
  <2> QED BY <2>1, PriceStandStill DEF PriceInv, Prices!Answer
<1> QED BY <1>1, <1>2, <1>3 DEF PriceInv

LEMMA PriceFailKeeps ==
  ASSUME Prices!StoredAssumption, PriceInv, NEW a \in Staff, Prices!Fail(a)
  PROVE  PriceInv'
<1>1. Prices!Idle \in PriceJobs /\ Prices!Idle.step = "idle"
  BY DEF PriceJobs, Prices!Idle
<1>2. priceFaults' \in 0..MaxPriceFaults /\ priceUnlogged' \in BOOLEAN
  BY DEF Prices!StoredAssumption, PriceInv, PricesTyped, Prices!Fail
<1> QED BY <1>1, <1>2, PriceOwnStep DEF Prices!Fail, PriceInv, PricesTyped

\* The request a step later.
LEMMA PriceMovedOn ==
  ASSUME NEW j \in PriceJobs, NEW step \in {"write", "record", "answer"},
         j.step \in {"check", "write", "record"}
  PROVE  LET k == [j EXCEPT !.step = step] IN
         /\ k \in PriceJobs /\ k # Prices!Idle /\ j # Prices!Idle /\ k.step = step
              /\ k.edit = j.edit
         /\ k.next = j.next /\ k.before = j.before /\ k.after = j.after
<1>1. CASE j \in PriceItemJobs
  BY <1>1, PriceJobKinds DEF PriceItemJobs, PriceJobs, Prices!Idle
<1>2. CASE j \in PriceTitleJobs
  BY <1>2, PriceJobKinds DEF PriceTitleJobs, PriceJobs, Prices!Idle
<1>3. CASE j \in PriceNoteJobs
  BY <1>3, PriceJobKinds DEF PriceNoteJobs, PriceJobs, Prices!Idle
<1> QED BY <1>1, <1>2, <1>3, PriceJobKinds

\* What a request holds once it has read what it edits.
LEMMA PriceFindListKeeps ==
  ASSUME PriceInv, NEW a \in Staff, Prices!FindList(a)
  PROVE  PriceInv'
<1> DEFINE e == priceJob[a].edit
           done == Prices!ApplyItemEdit(priceRows[e.list], e)
           step == IF Prices!Renamed(done) THEN "check"
                   ELSE IF done.before = done.after THEN "answer" ELSE "write"
           j == [step |-> step, edit |-> e, next |-> done.next,
                 before |-> done.before, after |-> done.after]
<1>1. /\ priceJob[a] \in PriceJobs /\ priceJob[a].step = "read" /\ e.kind \in Prices!ItemKinds
      /\ e.kind # "add" => Prices!CheckExpected(priceRows[e.list], e)
      /\ priceJob' = [priceJob EXCEPT ![a] = j]
      /\ UNCHANGED <<priceRows, priceTitles, priceNotes, pricePage, priceLog, priceAsks,
           priceFaults, priceOvertaken, priceRaced, priceUnlogged>>
  BY DEF Prices!FindList, Prices!At, Prices!Move, PriceInv, PricesTyped
<1>2. e \in PriceItemEdits /\ priceJob[a] # Prices!Idle
  BY <1>1, PriceJobKinds DEF PriceItemEdits
<1>3. e.list \in PriceLists /\ priceRows[e.list] \in Seq(Prices!Items)
        /\ priceTitles[e.list] # Nothing
  BY <1>1, <1>2, PriceEditKinds DEF PriceInv, PricesTyped, PriceOnlyCreated
<1>4. done.next \in Seq(Prices!Items) /\ done.before \in PriceNoneOr(Prices!Items)
        /\ done.after \in PriceNoneOr(Prices!Items)
  BY <1>1, <1>2, <1>3, PriceApplied
<1>5. step \in {"check", "write", "answer"} /\ (step = "write" => ~Prices!Renamed(done))
  OBVIOUS
<1> HIDE DEF done, step, e
<1>6. j \in PriceJobs /\ j.edit = e
  BY <1>2, <1>4, <1>5 DEF PriceJobs, PriceItemJobs
<1>7. priceJob'[a] = j
  BY <1>1 DEF PriceInv, PricesTyped
<1>8. PriceFitsStored(a)'
  <2>1. PriceReads(a)'
    BY <1>1, <1>7 DEF PriceReads, done
  <2>2. Prices!Renamed(j) = Prices!Renamed(done)
    BY DEF Prices!Renamed
  <2>3. PriceNameFree(a)'
    BY <1>5, <1>7, <2>2 DEF PriceNameFree, Prices!At
  <2>4. PriceTitleFree(a)' /\ PriceNotesRead(a)'
    BY <1>1, <1>7 DEF PriceTitleFree, PriceNotesRead, Prices!ItemKinds
  <2> QED BY <2>1, <2>3, <2>4 DEF PriceFitsStored
<1> HIDE DEF j
<1> QED BY <1>1, <1>3, <1>6, <1>8, PriceOwnStep DEF PriceInv, PricesTyped

LEMMA PriceCheckNameKeeps ==
  ASSUME PriceInv, NEW a \in Staff, Prices!CheckName(a)
  PROVE  PriceInv'
<1>1. CASE Prices!NameClash(priceJob[a].edit.list, priceJob[a].next, priceJob[a].after.name)
  BY <1>1, PriceRefuseKeeps DEF Prices!CheckName
<1>2. CASE ~Prices!NameClash(priceJob[a].edit.list, priceJob[a].next, priceJob[a].after.name)
  <2> DEFINE j == [priceJob[a] EXCEPT !.step = "write"]
  <2>1. /\ priceJob[a] \in PriceJobs /\ priceJob[a].step = "check"
             /\ priceJob' = [priceJob EXCEPT ![a] = j]
        /\ UNCHANGED <<priceRows, priceTitles, priceNotes, pricePage, priceLog, priceAsks,
             priceFaults, priceOvertaken, priceRaced, priceUnlogged>>
    BY <1>2 DEF Prices!CheckName, Prices!At, PriceInv, PricesTyped
  <2>2. /\ j \in PriceJobs /\ priceJob[a] # Prices!Idle /\ j.step = "write"
             /\ j.edit = priceJob[a].edit
        /\ j.next = priceJob[a].next /\ j.before = priceJob[a].before /\ j.after = priceJob[a].after
    BY <2>1, PriceMovedOn
  <2>3. j.edit.kind \in Prices!ItemKinds /\ priceTitles[j.edit.list] # Nothing
    BY <2>1, <2>2, PriceJobKinds DEF PriceInv, PriceOnlyCreated
  <2>4. priceJob'[a] = j
    BY <2>1 DEF PriceInv, PricesTyped
  <2> HIDE DEF j
  <2>5. PriceFitsStored(a)'
    <3>1. PriceFitsStored(a) /\ Prices!At(a, "check")
      BY <2>1 DEF PriceInv, Prices!At
    <3>2. PriceReads(a)'
      BY <2>1, <2>2, <2>4, <3>1 DEF PriceFitsStored, PriceReads
    <3>3. PriceNameFree(a)'
      <4>1. \A l, next, name : Prices!NameClash(l, next, name)' <=> Prices!NameClash(l, next, name)
        BY <2>1 DEF Prices!NameClash
      <4> QED BY <1>2, <2>2, <2>4, <4>1 DEF PriceNameFree
    <3>4. PriceTitleFree(a)' /\ PriceNotesRead(a)'
      BY <2>3, <2>4 DEF PriceTitleFree, PriceNotesRead, Prices!ItemKinds
    <3> QED BY <3>2, <3>3, <3>4 DEF PriceFitsStored
  <2> QED BY <2>1, <2>2, <2>3, <2>5, PriceOwnStep DEF PriceInv, PricesTyped
<1> QED BY <1>1, <1>2

LEMMA PriceCheckTitleKeeps ==
  ASSUME Prices!StoredAssumption, PriceInv, NEW a \in Staff, Prices!CheckTitle(a)
  PROVE  PriceInv'
<1> DEFINE e == priceJob[a].edit
<1>1. CASE Prices!ListNameTaken(e.item)
  BY <1>1, PriceRefuseKeeps DEF Prices!CheckTitle
<1>2. CASE ~Prices!ListNameTaken(e.item)
  <2> DEFINE j == [step |-> "write", edit |-> e, next |-> e.item,
                   before |-> Nothing, after |-> e.item]
  <2>1. /\ priceJob[a] \in PriceJobs /\ priceJob[a].step = "read" /\ e.kind = "titles"
        /\ priceJob' = [priceJob EXCEPT ![a] = j]
        /\ UNCHANGED <<priceRows, priceTitles, priceNotes, pricePage, priceLog, priceAsks,
             priceFaults, priceOvertaken, priceRaced, priceUnlogged>>
    BY <1>2 DEF Prices!CheckTitle, Prices!Move, Prices!At, PriceInv, PricesTyped
  <2>2. e \in [kind : {"titles"}, item : ListTitles]
    BY <2>1, PriceJobKinds DEF Prices!Edits
  <2> HIDE DEF e
  <2>3. j \in PriceJobs /\ j.edit = e /\ e.kind \notin Prices!ItemKinds
    BY <2>2 DEF PriceJobs, PriceTitleJobs, Prices!ItemKinds
  <2>4. priceJob'[a] = j
    BY <2>1 DEF PriceInv, PricesTyped
  <2>5. PriceFitsStored(a)'
    <3>1. PriceReads(a)' /\ PriceNameFree(a)'
      BY <2>3, <2>4 DEF PriceReads, PriceNameFree, PriceItemEdits
    <3>2. PriceTitleFree(a)' /\ PriceNotesRead(a)'
      BY <1>2, <2>1, <2>4 DEF PriceTitleFree, PriceNotesRead, Prices!ListNameTaken
    <3> QED BY <3>1, <3>2 DEF PriceFitsStored
  <2> HIDE DEF j
  <2> QED BY <2>1, <2>3, <2>5, PriceOwnStep DEF PriceInv, PricesTyped
<1> QED BY <1>1, <1>2

LEMMA PriceFindSectionKeeps ==
  ASSUME PriceInv, NEW a \in Staff, Prices!FindSection(a)
  PROVE  PriceInv'
<1> DEFINE e == priceJob[a].edit
           j == [step |-> "write", edit |-> e, next |-> e.item,
                 before |-> priceNotes, after |-> e.item]
<1>1. /\ priceJob[a] \in PriceJobs /\ priceJob[a].step = "read" /\ e.kind = "notes"
           /\ priceNotes \in SectionNotes
      /\ priceJob' = [priceJob EXCEPT ![a] = j]
      /\ UNCHANGED <<priceRows, priceTitles, priceNotes, pricePage, priceLog, priceAsks,
           priceFaults, priceOvertaken, priceRaced, priceUnlogged>>
  BY DEF Prices!FindSection, Prices!Move, Prices!At, PriceInv, PricesTyped
<1>2. e \in [kind : {"notes"}, item : SectionNotes]
  BY <1>1, PriceJobKinds DEF Prices!Edits
<1> HIDE DEF e
<1>3. j \in PriceJobs /\ j.edit = e /\ e.kind \notin Prices!ItemKinds
  BY <1>1, <1>2 DEF PriceJobs, PriceNoteJobs, Prices!ItemKinds
<1>4. priceJob'[a] = j
  BY <1>1 DEF PriceInv, PricesTyped
<1>5. PriceFitsStored(a)'
  <2>1. PriceReads(a)' /\ PriceNameFree(a)'
    BY <1>3, <1>4 DEF PriceReads, PriceNameFree, PriceItemEdits
  <2>2. PriceTitleFree(a)' /\ PriceNotesRead(a)'
    BY <1>1, <1>4 DEF PriceTitleFree, PriceNotesRead
  <2> QED BY <2>1, <2>2 DEF PriceFitsStored
<1> HIDE DEF j
<1> QED BY <1>1, <1>3, <1>5, PriceOwnStep DEF PriceInv, PricesTyped

LEMMA PriceRecordKeeps ==
  ASSUME PriceInv, NEW a \in Staff, Prices!Record(a)
  PROVE  PriceInv'
<1> DEFINE j == [priceJob[a] EXCEPT !.step = "answer"]
           entry == [subject |-> Prices!Subject(priceJob[a].edit), before |-> priceJob[a].before,
             after |-> priceJob[a].after]
<1>1. /\ priceJob[a] \in PriceJobs /\ priceJob[a].step = "record"
           /\ priceJob' = [priceJob EXCEPT ![a] = j]
      /\ priceLog' = Append(priceLog, entry)
      /\ UNCHANGED <<priceRows, priceTitles, priceNotes, pricePage, priceAsks, priceFaults,
           priceOvertaken, priceRaced, priceUnlogged>>
  BY DEF Prices!Record, Prices!At, PriceInv, PricesTyped
<1>2. /\ j \in PriceJobs /\ priceJob[a] # Prices!Idle /\ j.step = "answer"
           /\ j.edit = priceJob[a].edit
  BY <1>1, PriceMovedOn
<1>3. entry \in PriceEntries
  <2>1. CASE priceJob[a] \in PriceItemJobs
    <3>1. priceJob[a].edit \in PriceItemEdits
      BY <2>1 DEF PriceItemJobs
    <3>2. Prices!Subject(priceJob[a].edit) \in PriceLists
      BY <3>1, PriceEditKinds DEF Prices!Subject, PriceItemEdits
    <3> QED BY <2>1, <3>2 DEF PriceItemJobs, PriceEntries, PriceNoneOr, PriceValues
  <2>2. CASE priceJob[a] \in PriceTitleJobs
    BY <2>2 DEF PriceTitleJobs, Prices!Subject, PriceEntries, PriceNoneOr, PriceValues,
            Prices!ItemKinds
  <2>3. CASE priceJob[a] \in PriceNoteJobs
    BY <2>3 DEF PriceNoteJobs, Prices!Subject, PriceEntries, PriceNoneOr, PriceValues,
            Prices!ItemKinds
  <2> QED BY <1>1, <2>1, <2>2, <2>3, PriceJobKinds
<1> HIDE DEF j, entry
<1>4. priceLog' \in Seq(PriceEntries)
  BY <1>1, <1>3, AppendProperties DEF PriceInv, PricesTyped
<1>5. j # Prices!Idle /\ j.edit.kind \in Prices!ItemKinds => priceTitles[j.edit.list] # Nothing
  BY <1>2 DEF PriceInv, PriceOnlyCreated
<1> QED BY <1>1, <1>2, <1>4, <1>5, PriceOwnStep DEF PriceInv, PricesTyped

-----------------------------------------------------------------------------
(* A write.                                                                *)

\* It changes one list, one title or the notes.
LEMMA PriceWriteIs ==
  ASSUME PriceInv, NEW a \in Staff, Prices!Write(a)
  PROVE  /\ priceJob[a] \in PriceJobs /\ priceJob[a].step = "write"
         /\ priceJob' = [priceJob EXCEPT ![a].step = "record"]
         /\ priceOvertaken' = [b \in Staff |->
              \/ priceOvertaken[b]
              \/ b # a /\ priceJob[b].step \in {"check", "write"}
                   /\ Prices!Family(priceJob[b].edit) = Prices!Family(priceJob[a].edit)]
         /\ priceRaced' = IF priceOvertaken[a]
              THEN priceRaced \union {Prices!Family(priceJob[a].edit)} ELSE priceRaced
         /\ UNCHANGED <<pricePage, priceLog, priceAsks, priceFaults, priceUnlogged>>
         /\ \/ /\ priceJob[a] \in PriceItemJobs
               /\ priceRows' = [priceRows EXCEPT ![priceJob[a].edit.list] = priceJob[a].next]
               /\ UNCHANGED <<priceTitles, priceNotes>>
            \/ /\ priceJob[a] \in PriceTitleJobs
               /\ \E l \in PriceLists : priceTitles[l] = Nothing
                    /\ priceTitles' = [priceTitles EXCEPT ![l] = priceJob[a].next]
               /\ UNCHANGED <<priceRows, priceNotes>>
            \/ priceJob[a] \in PriceNoteJobs /\ priceNotes' = priceJob[a].next
                 /\ UNCHANGED <<priceRows, priceTitles>>
<1> DEFINE e == priceJob[a].edit
           TitleFilled == /\ \E l \in PriceLists : priceTitles[l] = Nothing
                          /\ LET l == CHOOSE x \in PriceLists : priceTitles[x] = Nothing
                             IN  priceTitles' = [priceTitles EXCEPT ![l] = priceJob[a].next]
                          /\ UNCHANGED <<priceRows, priceNotes>>
<1>1. /\ priceJob[a] \in PriceJobs /\ priceJob[a].step = "write"
      /\ priceJob' = [priceJob EXCEPT ![a].step = "record"]
      /\ priceOvertaken' = [b \in Staff |->
           \/ priceOvertaken[b]
           \/ b # a /\ priceJob[b].step \in {"check", "write"}
                /\ Prices!Family(priceJob[b].edit) = Prices!Family(e)]
      /\ priceRaced' = IF priceOvertaken[a] THEN priceRaced \union {Prices!Family(e)}
           ELSE priceRaced
      /\ UNCHANGED <<pricePage, priceLog, priceAsks, priceFaults, priceUnlogged>>
  <2>1. Prices!At(a, "write") /\ UNCHANGED <<pricePage, priceLog, priceAsks, priceFaults,
          priceUnlogged>>
    BY Zenon DEF Prices!Write
  <2>2. priceJob' = [priceJob EXCEPT ![a].step = "record"]
    BY Zenon DEF Prices!Write
  <2>3. priceOvertaken' = [b \in Staff |->
             \/ priceOvertaken[b]
             \/ b # a /\ priceJob[b].step \in {"check", "write"}
                  /\ Prices!Family(priceJob[b].edit) = Prices!Family(e)]
    BY Zenon DEF Prices!Write
  <2>4. priceRaced' = IF priceOvertaken[a] THEN priceRaced \union {Prices!Family(e)} ELSE priceRaced
    BY Zenon DEF Prices!Write
  <2>5. priceJob[a] \in PriceJobs /\ priceJob[a].step = "write"
    BY <2>1 DEF Prices!At, PriceInv, PricesTyped
  <2> QED BY <2>1, <2>2, <2>3, <2>4, <2>5
<1>2. CASE priceJob[a] \in PriceItemJobs
  <2>1. e.kind \in Prices!ItemKinds
    BY <1>2 DEF PriceItemJobs, PriceItemEdits
  <2>2. priceRows' = [priceRows EXCEPT ![e.list] = priceJob[a].next]
          /\ UNCHANGED <<priceTitles, priceNotes>>
    <3>1. (CASE e.kind \in Prices!ItemKinds ->
                 /\ priceRows' = [priceRows EXCEPT ![e.list] = priceJob[a].next]
                 /\ UNCHANGED <<priceTitles, priceNotes>>
            [] e.kind = "titles" ->
                 /\ \E l \in PriceLists : priceTitles[l] = Nothing
                 /\ LET l == CHOOSE x \in PriceLists : priceTitles[x] = Nothing
                    IN  priceTitles' = [priceTitles EXCEPT ![l] = priceJob[a].next]
                 /\ UNCHANGED <<priceRows, priceNotes>>
            [] e.kind = "notes" -> priceNotes' = priceJob[a].next
              /\ UNCHANGED <<priceRows, priceTitles>>)
      BY Zenon DEF Prices!Write
    <3>2. e.kind # "titles" /\ e.kind # "notes"
      BY <2>1 DEF Prices!ItemKinds
    <3>3. QED BY <2>1, <3>1, <3>2, ZenonT(60)
  <2> QED BY <1>1, <1>2, <2>2
<1>3. CASE priceJob[a] \in PriceTitleJobs
  <2>1. e.kind = "titles" /\ ~(e.kind \in Prices!ItemKinds) /\ e.kind # "notes"
    BY <1>3 DEF PriceTitleJobs, Prices!ItemKinds
  <2>2. TitleFilled
    BY <2>1, Zenon DEF Prices!Write
  <2>3. \E l \in PriceLists : priceTitles[l] = Nothing
          /\ priceTitles' = [priceTitles EXCEPT ![l] = priceJob[a].next]
    BY <2>2
  <2> QED BY <1>1, <1>3, <2>2, <2>3
<1>4. CASE priceJob[a] \in PriceNoteJobs
  <2>1. e.kind = "notes" /\ ~(e.kind \in Prices!ItemKinds) /\ e.kind # "titles"
    BY <1>4 DEF PriceNoteJobs, Prices!ItemKinds
  <2>2. priceNotes' = priceJob[a].next /\ UNCHANGED <<priceRows, priceTitles>>
    BY <2>1, Zenon DEF Prices!Write
  <2> QED BY <1>1, <1>4, <2>2
<1> QED BY <1>1, <1>2, <1>3, <1>4, PriceJobKinds

LEMMA PriceFamilyOf ==
  ASSUME NEW j
  PROVE  /\ j \in PriceItemJobs => /\ Prices!Family(j.edit) = "items" /\ j.edit \in PriceItemEdits
                               /\ j.edit.kind \in Prices!ItemKinds
                                    /\ j.edit.kind \notin {"titles", "notes"}
                               /\ Prices!Subject(j.edit) = j.edit.list /\ j.edit.list \in PriceLists
         /\ j \in PriceTitleJobs => /\ Prices!Family(j.edit) = "titles" /\ j.edit.kind = "titles"
                                /\ j.edit.kind \notin Prices!ItemKinds
                                     /\ Prices!Subject(j.edit) = "titles"
         /\ j \in PriceNoteJobs => /\ Prices!Family(j.edit) = "notes" /\ j.edit.kind = "notes"
                               /\ j.edit.kind \notin Prices!ItemKinds
                                    /\ Prices!Subject(j.edit) = "notes"
<1>1. CASE j \in PriceItemJobs
  <2>1. j.edit \in PriceItemEdits
    BY <1>1 DEF PriceItemJobs
  <2>2. j.edit.kind \in Prices!ItemKinds /\ j.edit.list \in PriceLists
    BY <2>1, PriceEditKinds DEF PriceItemEdits
  <2>3. j \notin PriceTitleJobs /\ j \notin PriceNoteJobs
    BY <2>2 DEF PriceTitleJobs, PriceNoteJobs, Prices!ItemKinds
  <2> QED BY <2>1, <2>2, <2>3 DEF Prices!Family, Prices!Subject, Prices!ItemKinds
<1>2. CASE j \in PriceTitleJobs /\ j \notin PriceItemJobs
  BY <1>2 DEF PriceTitleJobs, PriceNoteJobs, Prices!Family, Prices!Subject, Prices!ItemKinds
<1>3. CASE j \in PriceNoteJobs /\ j \notin PriceItemJobs
  BY <1>3 DEF PriceTitleJobs, PriceNoteJobs, Prices!Family, Prices!Subject, Prices!ItemKinds
<1> QED BY <1>1, <1>2, <1>3

\* The writer, and everybody else's request.
LEMMA PriceWriterMoves ==
  ASSUME PriceInv, NEW a \in Staff, Prices!Write(a)
  PROVE  /\ priceJob' \in [Staff -> PriceJobs]
         /\ \A b \in Staff \ {a} : priceJob'[b] = priceJob[b]
         /\ priceJob[a] # Prices!Idle /\ priceJob'[a] # Prices!Idle /\ priceJob'[a].step = "record"
              /\ priceJob'[a].edit = priceJob[a].edit
         /\ priceJob'[a].before = priceJob[a].before /\ priceJob'[a].after = priceJob[a].after
<1> DEFINE j == [priceJob[a] EXCEPT !.step = "record"]
<1>1. priceJob \in [Staff -> PriceJobs] /\ priceJob' = [priceJob EXCEPT ![a] = j]
  BY PriceWriteIs DEF PriceInv, PricesTyped
<1>2. /\ j \in PriceJobs /\ j # Prices!Idle /\ priceJob[a] # Prices!Idle /\ j.step = "record"
           /\ j.edit = priceJob[a].edit
      /\ j.next = priceJob[a].next /\ j.before = priceJob[a].before /\ j.after = priceJob[a].after
  BY <1>1, PriceWriteIs, PriceMovedOn
<1> HIDE DEF j
<1> QED BY <1>1, <1>2

LEMMA PriceWriteKeepsTypes ==
  ASSUME Prices!StoredAssumption, PriceInv, NEW a \in Staff, Prices!Write(a)
  PROVE  PricesTyped' /\ PriceOnlyCreated'
<1>1. Prices!Family(priceJob[a].edit) \in {"items", "titles", "notes"}
  BY PriceWriteIs, PriceJobKinds DEF Prices!Family
<1>2. priceOvertaken' \in [Staff -> BOOLEAN] /\ priceRaced' \subseteq {"items", "titles", "notes"}
  <2>1. priceOvertaken' = [b \in Staff |->
          \/ priceOvertaken[b]
          \/ b # a /\ priceJob[b].step \in {"check", "write"}
               /\ Prices!Family(priceJob[b].edit) = Prices!Family(priceJob[a].edit)]
    BY PriceWriteIs
  <2>2. priceOvertaken' \in [Staff -> BOOLEAN]
    BY <2>1 DEF PriceInv, PricesTyped
  <2>3. priceRaced' = priceRaced
          \/ priceRaced' = priceRaced \union {Prices!Family(priceJob[a].edit)}
    BY PriceWriteIs
  <2> QED BY <1>1, <2>2, <2>3 DEF PriceInv, PricesTyped
<1>3. /\ pricePage' = pricePage /\ pricePage \in [Staff -> [PriceLists -> Seq(Prices!Items)]]
      /\ priceLog' \in Seq(PriceEntries) /\ priceUnlogged' \in BOOLEAN
      /\ priceAsks' \in 0..MaxPriceAsks /\ priceFaults' \in 0..MaxPriceFaults
      /\ priceRows \in [PriceLists -> Seq(Prices!Items)]
           /\ priceTitles \in [PriceLists -> PriceNoneOr(ListTitles)] /\ priceNotes \in SectionNotes
  BY PriceWriteIs DEF PriceInv, PricesTyped
<1>4. \A b \in Staff : priceJob'[b] # Prices!Idle
        => priceJob[b] # Prices!Idle /\ priceJob'[b].edit = priceJob[b].edit
  BY PriceWriterMoves
<1>5. CASE /\ priceJob[a] \in PriceItemJobs /\ UNCHANGED <<priceTitles, priceNotes>>
           /\ priceRows' = [priceRows EXCEPT ![priceJob[a].edit.list] = priceJob[a].next]
  <2>1. /\ priceJob[a].edit.list \in PriceLists /\ priceJob[a].next \in Seq(Prices!Items)
        /\ priceTitles[priceJob[a].edit.list] # Nothing
    BY <1>5, PriceWriterMoves, PriceEditKinds
         DEF PriceItemJobs, PriceItemEdits, PriceInv, PriceOnlyCreated
  <2>2. PricesTyped'
    BY <1>2, <1>3, <1>5, <2>1, PriceWriterMoves DEF PricesTyped
  <2>3. PriceOnlyCreated'
    BY <1>3, <1>4, <1>5, <2>1 DEF PriceInv, PriceOnlyCreated
  <2> QED BY <2>2, <2>3
<1>6. CASE /\ priceJob[a] \in PriceTitleJobs /\ UNCHANGED <<priceRows, priceNotes>>
           /\ \E l \in PriceLists : priceTitles[l] = Nothing
                /\ priceTitles' = [priceTitles EXCEPT ![l] = priceJob[a].next]
  <2>1. PICK l \in PriceLists : priceTitles[l] = Nothing
          /\ priceTitles' = [priceTitles EXCEPT ![l] = priceJob[a].next]
    BY <1>6
  <2>2. priceJob[a].next \in ListTitles /\ priceJob[a].next # Nothing
    BY <1>6 DEF PriceTitleJobs, Prices!StoredAssumption
  <2>3. priceTitles' \in [PriceLists -> PriceNoneOr(ListTitles)]
          /\ \A k \in PriceLists : priceTitles'[k] = Nothing => priceTitles[k] = Nothing
    BY <1>3, <2>1, <2>2 DEF PriceNoneOr
  <2>4. PricesTyped'
    BY <1>2, <1>3, <1>6, <2>3, PriceWriterMoves DEF PricesTyped
  <2>5. ASSUME NEW b \in Staff, priceJob[b] # Prices!Idle,
               priceJob[b].edit.kind \in Prices!ItemKinds
        PROVE  priceJob[b].edit.list \in PriceLists
    <3>1. priceJob[b] \in PriceJobs
      BY DEF PriceInv, PricesTyped
    <3>2. priceJob[b].edit \in Prices!Edits
      BY <3>1, <2>5, PriceJobKinds DEF PriceItemEdits, Prices!ItemKinds
    <3> QED BY <2>5, <3>2, PriceEditKinds DEF PriceItemEdits
  <2>6. PriceOnlyCreated'
    BY <1>3, <1>4, <1>6, <2>3, <2>5 DEF PriceInv, PriceOnlyCreated
  <2> QED BY <2>4, <2>6
<1>7. CASE priceJob[a] \in PriceNoteJobs /\ priceNotes' = priceJob[a].next
             /\ UNCHANGED <<priceRows, priceTitles>>
  <2>1. priceJob[a].next \in SectionNotes
    BY <1>7 DEF PriceNoteJobs
  <2>2. PricesTyped'
    BY <1>2, <1>3, <1>7, <2>1, PriceWriterMoves DEF PricesTyped
  <2>3. PriceOnlyCreated'
    BY <1>3, <1>4, <1>7 DEF PriceInv, PriceOnlyCreated
  <2> QED BY <2>2, <2>3
<1> QED BY <1>5, <1>6, <1>7, PriceWriteIs

\* Another request of the family is overtaken, one of another family reads what
\* stays as it was.
LEMMA PriceWriteKeepsOthers ==
  ASSUME Prices!StoredAssumption, PriceInv, NEW a \in Staff, Prices!Write(a), NEW b \in Staff, b # a
  PROVE  PriceFitsStored(b)'
<1>1. CASE priceJob[b].step \notin {"check", "write"}
  BY <1>1, PriceStandStill, PriceWriterMoves
       DEF PriceFitsStored, PriceReads, PriceNameFree, PriceTitleFree, PriceNotesRead, Prices!At
<1>2. CASE priceJob[b].step \in {"check", "write"}
  <2>1. /\ priceJob'[b] = priceJob[b] /\ priceOvertaken \in [Staff -> BOOLEAN]
        /\ priceOvertaken'[b] = (priceOvertaken[b]
             \/ Prices!Family(priceJob[b].edit) = Prices!Family(priceJob[a].edit))
    <3>1. priceOvertaken' = [c \in Staff |->
            \/ priceOvertaken[c]
            \/ c # a /\ priceJob[c].step \in {"check", "write"}
                 /\ Prices!Family(priceJob[c].edit) = Prices!Family(priceJob[a].edit)]
      BY PriceWriteIs
    <3>2. priceJob'[b] = priceJob[b] /\ priceOvertaken \in [Staff -> BOOLEAN]
      BY PriceWriterMoves DEF PriceInv, PricesTyped
    <3> QED BY <1>2, <3>1, <3>2
  <2>2. Prices!At(b, "write")' = Prices!At(b, "write")
          /\ Prices!At(b, "check")' = Prices!At(b, "check")
    BY <2>1 DEF Prices!At
  <2>3. PriceFitsStored(b) /\ priceJob[b] \in PriceJobs
    BY DEF PriceInv, PricesTyped
  <2>4. \/ priceJob[b] \in PriceItemJobs /\ Prices!Family(priceJob[b].edit) = "items"
             /\ priceJob[b].edit.kind \notin {"titles", "notes"}
        \/ priceJob[b] \in PriceTitleJobs /\ Prices!Family(priceJob[b].edit) = "titles"
             /\ priceJob[b].edit.kind = "titles"
        \/ priceJob[b] \in PriceNoteJobs /\ Prices!Family(priceJob[b].edit) = "notes"
             /\ priceJob[b].edit.kind = "notes"
    BY <1>2, <2>3, PriceJobKinds, PriceFamilyOf
  <2>5. \/ Prices!Family(priceJob[a].edit) = "items" /\ UNCHANGED <<priceTitles, priceNotes>>
        \/ Prices!Family(priceJob[a].edit) = "titles" /\ UNCHANGED <<priceRows, priceNotes>>
        \/ Prices!Family(priceJob[a].edit) = "notes" /\ UNCHANGED <<priceRows, priceTitles>>
    BY PriceWriteIs, PriceFamilyOf
  <2>6. CASE priceJob[b] \in PriceItemJobs
    <3>1. priceOvertaken'[b] \/ (UNCHANGED priceRows /\ ~priceOvertaken[b])
      BY <2>1, <2>5, <2>6, PriceFamilyOf
    <3>2. PriceReads(b)'
      BY <2>1, <2>2, <2>3, <3>1 DEF PriceFitsStored, PriceReads
    <3>3. priceRows' = priceRows => \A l, next, name : Prices!NameClash(l, next, name)'
            <=> Prices!NameClash(l, next, name)
      BY DEF Prices!NameClash
    <3>4. PriceNameFree(b)'
      BY <2>1, <2>2, <2>3, <3>1, <3>3 DEF PriceFitsStored, PriceNameFree
    <3>5. PriceTitleFree(b)' /\ PriceNotesRead(b)'
      BY <2>1, <2>6, PriceFamilyOf DEF PriceTitleFree, PriceNotesRead
    <3> QED BY <3>2, <3>4, <3>5 DEF PriceFitsStored
  <2>7. CASE priceJob[b].edit.kind = "titles" /\ Prices!Family(priceJob[b].edit) = "titles"
    <3>1. priceOvertaken'[b] \/ (UNCHANGED priceTitles /\ ~priceOvertaken[b])
      BY <2>1, <2>5, <2>7
    <3>2. PriceReads(b)' /\ PriceNameFree(b)' /\ PriceNotesRead(b)'
      BY <2>1, <2>7 DEF PriceReads, PriceNameFree, PriceNotesRead, PriceItemEdits, Prices!ItemKinds
    <3>3. PriceTitleFree(b)'
      BY <2>1, <2>2, <2>3, <3>1 DEF PriceFitsStored, PriceTitleFree, Prices!ListNameTaken
    <3> QED BY <3>2, <3>3 DEF PriceFitsStored
  <2>8. CASE priceJob[b].edit.kind = "notes" /\ Prices!Family(priceJob[b].edit) = "notes"
    <3>1. priceOvertaken'[b] \/ (UNCHANGED priceNotes /\ ~priceOvertaken[b])
      BY <2>1, <2>5, <2>8
    <3>2. PriceReads(b)' /\ PriceNameFree(b)' /\ PriceTitleFree(b)'
      BY <2>1, <2>8 DEF PriceReads, PriceNameFree, PriceTitleFree, PriceItemEdits, Prices!ItemKinds
    <3>3. PriceNotesRead(b)'
      BY <2>1, <2>2, <2>3, <3>1 DEF PriceFitsStored, PriceNotesRead
    <3> QED BY <3>2, <3>3 DEF PriceFitsStored
  <2> QED BY <2>4, <2>6, <2>7, <2>8
<1> QED BY <1>1, <1>2

LEMMA PriceWriteKeeps ==
  ASSUME Prices!StoredAssumption, PriceInv, NEW a \in Staff, Prices!Write(a)
  PROVE  PriceInv'
<1>1. PriceFitsStored(a)'
  BY PriceWriterMoves DEF PriceFitsStored, PriceReads, PriceNameFree, PriceTitleFree,
     PriceNotesRead, Prices!At
<1> QED BY <1>1, PriceWriteKeepsTypes, PriceWriteKeepsOthers DEF PriceInv

-----------------------------------------------------------------------------
LEMMA PriceFindStaleKeeps ==
  ASSUME PriceInv, NEW a \in Staff, Prices!FindStale(a)
  PROVE  PriceInv'
BY PriceRefuseKeeps DEF Prices!FindStale

LEMMA PriceInvStep ==
  ASSUME Prices!StoredAssumption, PriceInv, [Prices!Next]_(Prices!priceVars)
  PROVE  PriceInv'
<1>1. CASE UNCHANGED Prices!priceVars
  <2>1. PricesTyped' /\ PriceOnlyCreated'
    BY <1>1 DEF Prices!priceVars, PriceInv, PricesTyped, PriceOnlyCreated
  <2>2. ASSUME NEW a \in Staff
        PROVE  PriceFitsStored(a)'
    BY <1>1, PriceStandStill DEF Prices!priceVars, PriceInv
  <2> QED BY <2>1, <2>2 DEF PriceInv
<1>2. ASSUME NEW a \in Staff, Prices!Step(a)
      PROVE  PriceInv'
  BY <1>2, PriceReloadKeeps, PriceAsksKeep, PriceFindStaleKeeps, PriceFindListKeeps,
     PriceCheckNameKeeps, PriceCheckTitleKeeps,
     PriceFindSectionKeeps, PriceWriteKeeps, PriceRecordKeeps, PriceAnswerKeeps, PriceFailKeeps
       DEF Prices!Step
<1> QED BY <1>1, <1>2 DEF Prices!Next

-----------------------------------------------------------------------------
(* Names.                                                                  *)

LEMMA PriceSequenceFinite ==
  ASSUME NEW S, NEW s \in Seq(S)
  PROVE  /\ Len(s) \in Nat /\ DOMAIN s = 1..Len(s) /\ DOMAIN s \subseteq Nat
         /\ IsFiniteSet(DOMAIN s) /\ \A i \in DOMAIN s : s[i] \in S
<1>1. Len(s) \in Nat /\ DOMAIN s = 1..Len(s) /\ \A i \in DOMAIN s : s[i] \in S
  BY LenProperties
<1>2. IsFiniteSet(1..Len(s))
  BY <1>1, FS_Interval
<1> QED BY <1>1, <1>2

\* Finitely many lists with finitely many places each.
LEMMA PriceFinitelyManyPlaces ==
  ASSUME IsFiniteSet(PriceLists), NEW D, \A l \in PriceLists : IsFiniteSet(D[l])
  PROVE  IsFiniteSet(UNION {{l} \X D[l] : l \in PriceLists})
<1>1. PICK n \in Nat : ExistsBijection(1..n, PriceLists)
  BY FS_NatBijection
<1>2. PICK f : f \in Bijection(1..n, PriceLists)
  BY <1>1 DEF ExistsBijection
<1>3. /\ f \in [1..n -> PriceLists]
      /\ \A l \in PriceLists : \E i \in 1..n : f[i] = l
  BY <1>2 DEF Bijection, Injection, Surjection
<1> DEFINE Upto(m) == UNION {{f[i]} \X D[f[i]] : i \in 1..m}
           Bad == {m \in 0..n : ~IsFiniteSet(Upto(m))}
<1>4. Bad = {}
  <2>1. SUFFICES ASSUME Bad # {} PROVE FALSE
    OBVIOUS
  <2>2. Bad \in SUBSET Nat
    OBVIOUS
  <2>3. PICK m \in Bad : \A k \in Bad : m <= k
    BY <2>1, <2>2, LeastOf
  <2>4. m # 0
    <3>1. Upto(0) = {}
      OBVIOUS
    <3> QED BY <3>1, <2>3, FS_EmptySet
  <2>5. m - 1 \in 0..n /\ m \in 1..n /\ ~(m <= m - 1)
    BY <2>3, <2>4
  <2>6. IsFiniteSet(Upto(m - 1))
    BY <2>3, <2>5
  <2> DEFINE l == f[m]
             g == [i \in D[l] |-> <<l, i>>]
  <2>7. l \in PriceLists
    BY <1>3, <2>5
  <2>8. IsFiniteSet({l} \X D[l])
    <3>1. g \in Bijection(D[l], {l} \X D[l])
      BY DEF Bijection, Injection, Surjection, IsInjective
    <3> QED BY <2>7, <3>1, FS_Bijection DEF ExistsBijection
  <2>9. Upto(m) = Upto(m - 1) \union ({l} \X D[l])
    <3>1. \A i : i \in 1..m <=> i \in 1..(m - 1) \/ i = m
      BY <2>5
    <3> QED BY <3>1
  <2> HIDE DEF Upto, l
  <2>10. IsFiniteSet(Upto(m))
    <3>1. IsFiniteSet(Upto(m - 1) \union ({l} \X D[l]))
      BY <2>6, <2>8, FS_Union
    <3> QED BY <2>9, <3>1
  <2> QED BY <2>3, <2>10 DEF Bad
<1>5. IsFiniteSet(Upto(n))
  BY <1>4
<1>6. UNION {{l} \X D[l] : l \in PriceLists} = Upto(n)
  BY <1>3
<1> QED BY <1>5, <1>6

\* No two elements of a set that holds one at most.
LEMMA PriceOneAtMost ==
  ASSUME NEW S, IsFiniteSet(S), ~(Cardinality(S) > 1), NEW x \in S, NEW y \in S
  PROVE  x = y
<1>1. SUFFICES ASSUME x # y PROVE FALSE
  OBVIOUS
<1>2. IsFiniteSet({x}) /\ Cardinality({x}) = 1
  BY FS_Singleton
<1>3. Cardinality({x} \union {y}) = 2
  BY <1>1, <1>2, FS_AddElement
<1>4. {x} \union {y} \in SUBSET S
  OBVIOUS
<1>5. Cardinality({x} \union {y}) <= Cardinality(S) /\ Cardinality(S) \in Nat
  BY <1>4, FS_Subset, FS_CardinalityType
<1> QED BY <1>3, <1>5

\* A name that does not clash stands at one place of the section.
LEMMA PriceFreeNameOnce ==
  ASSUME Prices!StoredAssumption, priceRows \in [PriceLists -> Seq(Prices!Items)],
         NEW l \in PriceLists, NEW next \in Seq(Prices!Items), NEW name,
         ~Prices!NameClash(l, next, name)
  PROVE  LET section == [priceRows EXCEPT ![l] = next]
         IN  \A j, k \in PriceLists : \A m \in DOMAIN section[j], n \in DOMAIN section[k] :
               section[j][m].name = name /\ section[k][n].name = name => <<j, m>> = <<k, n>>
<1> DEFINE section == [priceRows EXCEPT ![l] = next]
           Q == UNION {{x} \X {i \in DOMAIN section[x] : section[x][i].name = name} : x
             \in PriceLists}
           D == [x \in PriceLists |-> {i \in DOMAIN section[x] : section[x][i].name = name}]
           P == UNION {{x} \X D[x] : x \in PriceLists}
<1>1. ~(Cardinality(Q) > 1)
  BY PriceCount DEF Prices!NameClash
<1>2. \A x \in PriceLists : section[x] \in Seq(Prices!Items)
  OBVIOUS
<1> HIDE DEF section
<1>3. ASSUME NEW x \in PriceLists
      PROVE  IsFiniteSet(D[x])
  <2>1. IsFiniteSet(DOMAIN section[x])
    BY <1>2, PriceSequenceFinite
  <2>2. D[x] \in SUBSET DOMAIN section[x]
    OBVIOUS
  <2> QED BY <2>1, <2>2, FS_Subset
<1>4. P = Q
  OBVIOUS
<1>5. SUFFICES ASSUME NEW j \in PriceLists, NEW k \in PriceLists,
                      NEW m \in DOMAIN section[j], NEW n \in DOMAIN section[k],
                      section[j][m].name = name, section[k][n].name = name
               PROVE  <<j, m>> = <<k, n>>
  BY DEF section
<1>6. <<j, m>> \in P /\ <<k, n>> \in P
  <2>1. m \in D[j] /\ n \in D[k]
    BY <1>5
  <2> HIDE DEF D
  <2> QED BY <2>1
<1> HIDE DEF D, Q
<1>7. IsFiniteSet(P)
  BY <1>3, PriceFinitelyManyPlaces, PriceSetsFinite
<1> HIDE DEF P
<1> QED BY <1>1, <1>4, <1>6, <1>7, PriceOneAtMost

\* Where the names of an edited list come from.
LEMMA PriceEditPlaces ==
  ASSUME Prices!StoredAssumption, NEW e \in PriceItemEdits, NEW s \in Seq(Prices!Items),
         e.kind # "add" => Prices!CheckExpected(s, e)
  PROVE  LET done == Prices!ApplyItemEdit(s, e)
             From(m) == IF e.kind = "remove" /\ m >= e.index THEN m + 1 ELSE m
         IN  /\ \A m \in DOMAIN done.next :
                  \/ Prices!Renamed(done) /\ done.next[m].name = done.after.name
                  \/ From(m) \in DOMAIN s /\ done.next[m].name = s[From(m)].name
             /\ \A m, n \in DOMAIN done.next : From(m) = From(n) => m = n
<1> DEFINE done == Prices!ApplyItemEdit(s, e)
           From(m) == IF e.kind = "remove" /\ m >= e.index THEN m + 1 ELSE m
<1>1. Len(s) \in Nat /\ DOMAIN s = 1..Len(s)
  BY LenProperties
<1>2. Nothing \notin Prices!Items
  BY DEF Prices!StoredAssumption
<1>4. CASE e.kind = "add"
  <2>1. done.next = Append(s, e.item) /\ done.before = Nothing /\ done.after = e.item
          /\ e.item \in Prices!Items
    BY <1>4, PriceApplied
  <2>2. Prices!Renamed(done)
    BY <1>2, <2>1 DEF Prices!Renamed
  <2>3. /\ DOMAIN done.next = 1..(Len(s) + 1) /\ done.next[Len(s) + 1] = e.item
        /\ \A m \in 1..Len(s) : done.next[m] = s[m]
    BY <1>1, <2>1
  <2>4. \A m \in DOMAIN done.next : m = Len(s) + 1 \/ m \in 1..Len(s)
    BY <1>1, <2>3
  <2> QED BY <1>1, <1>4, <2>1, <2>2, <2>3, <2>4
<1>5. CASE e.kind = "update"
  <2>1. /\ e.index \in DOMAIN s /\ done.next = [s EXCEPT ![e.index] = e.item]
        /\ done.before = s[e.index] /\ done.after = e.item /\ e.item \in Prices!Items
    BY <1>5, PriceApplied
  <2>2. Prices!Renamed(done) \/ e.item.name = s[e.index].name
    BY <1>2, <2>1 DEF Prices!Renamed
  <2>3. DOMAIN done.next = DOMAIN s
          /\ \A m \in DOMAIN s : done.next[m] = IF m = e.index THEN e.item ELSE s[m]
    BY <2>1
  <2> QED BY <1>5, <2>1, <2>2, <2>3
<1>6. CASE e.kind = "remove"
  <2>1. /\ e.index \in DOMAIN s /\ done.next = Prices!Without(s, e.index)
    BY <1>6, PriceApplied
  <2>2. DOMAIN done.next = 1..(Len(s) - 1)
        /\ \A m \in 1..(Len(s) - 1) : done.next[m] = IF m < e.index THEN s[m] ELSE s[m + 1]
    BY <2>1, PriceWithoutRow, LenProperties
  <2>3. e.index \in Nat
    BY <1>1, <2>1
  <2>4. \A m \in 1..(Len(s) - 1) : From(m) \in 1..Len(s) /\ done.next[m] = s[From(m)]
    BY <1>1, <1>6, <2>2, <2>3
  <2>5. \A m, n \in 1..(Len(s) - 1) : From(m) = From(n) => m = n
    BY <1>1, <2>3
  <2> QED BY <1>1, <2>2, <2>4, <2>5
<1> QED BY <1>4, <1>5, <1>6, PriceEditKinds

\* An edit of one list under a free name keeps names apart.
LEMMA PriceNamesStayApart ==
  ASSUME Prices!StoredAssumption, priceRows \in [PriceLists -> Seq(Prices!Items)],
         Prices!NamesApart(priceRows),
         NEW e \in PriceItemEdits, e.kind # "add" => Prices!CheckExpected(priceRows[e.list], e),
         LET done == Prices!ApplyItemEdit(priceRows[e.list], e)
         IN  Prices!Renamed(done) => ~Prices!NameClash(e.list, done.next, done.after.name)
  PROVE  Prices!NamesApart([priceRows EXCEPT ![e.list]
           = Prices!ApplyItemEdit(priceRows[e.list], e).next])
<1> DEFINE l == e.list
           s == priceRows[l]
           done == Prices!ApplyItemEdit(s, e)
           section == [priceRows EXCEPT ![l] = done.next]
           From(m) == IF e.kind = "remove" /\ m >= e.index THEN m + 1 ELSE m
           Place(k, m) == IF k = l THEN From(m) ELSE m
<1>1. l \in PriceLists /\ s \in Seq(Prices!Items)
  BY PriceEditKinds
<1>2. done.next \in Seq(Prices!Items)
  BY <1>1, PriceApplied
<1>3. /\ \A m \in DOMAIN done.next :
           \/ Prices!Renamed(done) /\ done.next[m].name = done.after.name
           \/ From(m) \in DOMAIN s /\ done.next[m].name = s[From(m)].name
      /\ \A m, n \in DOMAIN done.next : From(m) = From(n) => m = n
  BY <1>1, PriceEditPlaces
<1>4. Prices!Renamed(done) => ~Prices!NameClash(l, done.next, done.after.name)
  OBVIOUS
<1> HIDE DEF done, s, From
<1>5. \A k \in PriceLists : section[k] = IF k = l THEN done.next ELSE priceRows[k]
  BY <1>1
<1>6. ASSUME NEW k \in PriceLists, NEW m \in DOMAIN section[k]
      PROVE  \/ Prices!Renamed(done) /\ section[k][m].name = done.after.name
             \/ Place(k, m) \in DOMAIN priceRows[k]
                  /\ section[k][m].name = priceRows[k][Place(k, m)].name
  <2>1. CASE k = l
    BY <1>3, <1>5, <2>1 DEF s
  <2>2. CASE k # l
    BY <1>5, <2>2
  <2> QED BY <2>1, <2>2
<1>7. SUFFICES ASSUME NEW j \in PriceLists, NEW k \in PriceLists,
                      NEW m \in DOMAIN section[j], NEW n \in DOMAIN section[k],
                      section[j][m].name = section[k][n].name
               PROVE  <<j, m>> = <<k, n>>
  BY DEF Prices!NamesApart, done, s
<1>8. CASE Prices!Renamed(done) /\ section[j][m].name = done.after.name
  <2> HIDE DEF l
  <2>1. ~Prices!NameClash(l, done.next, done.after.name)
    BY <1>4, <1>8
  <2>2. section[k][n].name = done.after.name
    BY <1>7, <1>8
  <2> QED BY <1>1, <1>2, <1>8, <2>1, <2>2, PriceFreeNameOnce
<1>9. CASE ~(Prices!Renamed(done) /\ section[j][m].name = done.after.name)
  <2>1. /\ Place(j, m) \in DOMAIN priceRows[j]
             /\ section[j][m].name = priceRows[j][Place(j, m)].name
        /\ Place(k, n) \in DOMAIN priceRows[k]
             /\ section[k][n].name = priceRows[k][Place(k, n)].name
    BY <1>6, <1>7, <1>9
  <2>2. <<j, Place(j, m)>> = <<k, Place(k, n)>>
    BY <1>7, <2>1 DEF Prices!NamesApart
  <2>3. j = k /\ Place(j, m) = Place(j, n)
    BY <2>2
  <2> QED BY <1>3, <1>5, <2>3
<1> QED BY <1>8, <1>9

-----------------------------------------------------------------------------
(* Whose step it is.                                                       *)

LEMMA PriceOneMoves ==
  ASSUME PriceInv, NEW b \in Staff, Prices!Step(b)
  PROVE  \A c \in Staff \ {b} : priceJob'[c] = priceJob[c]
<1>1. priceJob \in [Staff -> PriceJobs]
  BY DEF PriceInv, PricesTyped
<1>2. CASE Prices!Reload(b)
  BY <1>2 DEF Prices!Reload
<1>3. CASE Prices!AddItem(b) \/ Prices!UpdateItem(b) \/ Prices!RemoveItem(b) \/ Prices!CreateList(b)
             \/ Prices!SaveNotes(b)
  <2>1. PICK e : Prices!Send(b, e)
    BY <1>3 DEF Prices!AddItem, Prices!UpdateItem, Prices!RemoveItem, Prices!CreateList,
            Prices!SaveNotes
  <2> QED BY <1>1, <2>1 DEF Prices!Send
<1>4. CASE Prices!FindStale(b) \/ Prices!FindList(b) \/ Prices!CheckName(b) \/ Prices!CheckTitle(b)
             \/ Prices!FindSection(b)
  BY <1>1, <1>4 DEF Prices!FindStale, Prices!FindList, Prices!CheckName, Prices!CheckTitle,
     Prices!FindSection, Prices!Refuse, Prices!Move
<1>5. CASE Prices!Write(b)
  BY <1>5, PriceWriterMoves
<1>6. CASE Prices!Record(b) \/ Prices!Answer(b) \/ Prices!Fail(b)
  BY <1>1, <1>6 DEF Prices!Record, Prices!Answer, Prices!Fail
<1> QED BY <1>2, <1>3, <1>4, <1>5, <1>6 DEF Prices!Step

\* A request stores by its write only.
LEMMA PriceStoresByWrite ==
  ASSUME PriceInv, [Prices!Next]_(Prices!priceVars), NEW a \in Staff, Prices!At(a, "write"),
         priceJob'[a].step = "record"
  PROVE  Prices!Write(a)
<1>1. PICK b \in Staff : Prices!Step(b)
  BY DEF Prices!Next, Prices!priceVars, Prices!At
<1>2. b = a
  BY <1>1, PriceOneMoves DEF Prices!At
<1>3. ~Prices!Fail(a)
  BY DEF Prices!Fail, Prices!Idle, PriceInv, PricesTyped
<1>4. ~\E e : Prices!Send(a, e)
  BY DEF Prices!Send, Prices!At
<1> QED BY <1>1, <1>2, <1>3, <1>4 DEF Prices!Step, Prices!At, Prices!Reload, Prices!AddItem,
           Prices!UpdateItem, Prices!RemoveItem, Prices!CreateList, Prices!SaveNotes,
          Prices!FindStale, Prices!FindList, Prices!CheckName, Prices!CheckTitle,
          Prices!FindSection, Prices!Record, Prices!Answer

\* Steps other than a write leave what is stored.
LEMMA PriceOnlyWriteStores ==
  ASSUME NEW b \in Staff, Prices!Step(b), ~Prices!Write(b)
  PROVE  UNCHANGED <<priceRows, priceTitles, priceNotes, priceRaced>>
<1>1. CASE Prices!AddItem(b) \/ Prices!UpdateItem(b) \/ Prices!RemoveItem(b) \/ Prices!CreateList(b)
             \/ Prices!SaveNotes(b)
  <2>1. PICK e : Prices!Send(b, e)
    BY <1>1 DEF Prices!AddItem, Prices!UpdateItem, Prices!RemoveItem, Prices!CreateList,
            Prices!SaveNotes
  <2> QED BY <2>1 DEF Prices!Send
<1>2. CASE Prices!FindStale(b) \/ Prices!FindList(b) \/ Prices!CheckName(b) \/ Prices!CheckTitle(b)
             \/ Prices!FindSection(b)
  BY <1>2 DEF Prices!FindStale, Prices!FindList, Prices!CheckName, Prices!CheckTitle,
          Prices!FindSection, Prices!Refuse
<1>3. CASE Prices!Reload(b) \/ Prices!Record(b) \/ Prices!Answer(b) \/ Prices!Fail(b)
  BY <1>3 DEF Prices!Reload, Prices!Record, Prices!Answer, Prices!Fail
<1> QED BY <1>1, <1>2, <1>3 DEF Prices!Step

\* What a write stores of an edit nobody overtook.
LEMMA PriceWriteApplies ==
  ASSUME Prices!StoredAssumption, PriceInv, NEW a \in Staff, Prices!Write(a),
         priceJob[a] \in PriceItemJobs, ~priceOvertaken[a]
  PROVE  LET e == priceJob[a].edit
             done == Prices!ApplyItemEdit(priceRows[e.list], e)
         IN  /\ e \in PriceItemEdits /\ e.list \in PriceLists
                  /\ priceRows[e.list] \in Seq(Prices!Items)
             /\ e.kind # "add" => Prices!CheckExpected(priceRows[e.list], e)
             /\ priceRows' = [priceRows EXCEPT ![e.list] = done.next]
             /\ priceJob[a].next = done.next /\ priceJob[a].before = done.before
                  /\ priceJob[a].after = done.after
             /\ Prices!Renamed(done) => ~Prices!NameClash(e.list, done.next, done.after.name)
<1> DEFINE e == priceJob[a].edit
           done == Prices!ApplyItemEdit(priceRows[e.list], e)
<1>1. Prices!At(a, "write") /\ PriceFitsStored(a) /\ e \in PriceItemEdits /\ e.list \in PriceLists
        /\ priceRows \in [PriceLists -> Seq(Prices!Items)]
  BY PriceWriteIs, PriceFamilyOf DEF Prices!At, PriceInv, PricesTyped
<1>2. /\ e.kind # "add" => Prices!CheckExpected(priceRows[e.list], e)
      /\ priceJob[a].next = done.next /\ priceJob[a].before = done.before
           /\ priceJob[a].after = done.after
  BY <1>1 DEF PriceFitsStored, PriceReads
<1>3. Prices!Renamed(priceJob[a]) <=> Prices!Renamed(done)
  BY <1>2 DEF Prices!Renamed
<1>4. Prices!Renamed(done) => ~Prices!NameClash(e.list, done.next, done.after.name)
  BY <1>1, <1>2, <1>3 DEF PriceFitsStored, PriceNameFree
<1>5. priceJob[a] \notin PriceTitleJobs /\ priceJob[a] \notin PriceNoteJobs
  BY PriceFamilyOf
<1>6. priceRows' = [priceRows EXCEPT ![e.list] = priceJob[a].next]
  BY <1>5, PriceWriteIs
<1> QED BY <1>1, <1>2, <1>4, <1>6

LEMMA PriceNamedOnceStep ==
  ASSUME Prices!StoredAssumption, PriceInv, Prices!NamedOnce, [Prices!Next]_(Prices!priceVars)
  PROVE  Prices!NamedOnce'
<1>1. CASE UNCHANGED <<priceRows, priceTitles, priceNotes, priceRaced>>
  BY <1>1 DEF Prices!NamedOnce, Prices!NamesApart, Prices!TitlesApart
<1>2. ASSUME NEW a \in Staff, Prices!Write(a)
      PROVE  Prices!NamedOnce'
  <2>1. /\ priceJob[a] \in PriceJobs /\ priceRaced \subseteq priceRaced'
        /\ priceOvertaken[a] => Prices!Family(priceJob[a].edit) \in priceRaced'
    BY <1>2, PriceWriteIs
  <2>2. CASE priceJob[a] \in PriceItemJobs /\ UNCHANGED priceTitles
    <3>1. Prices!TitlesApart(priceTitles') = Prices!TitlesApart(priceTitles)
      BY <2>2
    <3>2. ASSUME "items" \notin priceRaced' PROVE Prices!NamesApart(priceRows')
      <4>1. ~priceOvertaken[a] /\ Prices!NamesApart(priceRows)
              /\ priceRows \in [PriceLists -> Seq(Prices!Items)]
        BY <2>1, <2>2, <3>2, PriceFamilyOf DEF Prices!NamedOnce, PriceInv, PricesTyped
      <4> DEFINE e == priceJob[a].edit
      <4>2. /\ e \in PriceItemEdits
            /\ e.kind # "add" => Prices!CheckExpected(priceRows[e.list], e)
            /\ priceRows' = [priceRows EXCEPT ![e.list]
                 = Prices!ApplyItemEdit(priceRows[e.list], e).next]
            /\ Prices!Renamed(Prices!ApplyItemEdit(priceRows[e.list], e)) =>
                 ~Prices!NameClash(e.list, Prices!ApplyItemEdit(priceRows[e.list], e).next,
                   Prices!ApplyItemEdit(priceRows[e.list], e).after.name)
        BY <1>2, <2>2, <4>1, PriceWriteApplies
      <4> HIDE DEF e
      <4>3. Prices!NamesApart([priceRows EXCEPT ![e.list]
              = Prices!ApplyItemEdit(priceRows[e.list], e).next])
        BY <4>1, <4>2, PriceNamesStayApart
      <4> QED BY <4>2, <4>3
    <3> QED BY <2>1, <3>1, <3>2 DEF Prices!NamedOnce
  <2>3. CASE /\ priceJob[a] \in PriceTitleJobs /\ UNCHANGED priceRows
             /\ \E l \in PriceLists : priceTitles[l] = Nothing
                  /\ priceTitles' = [priceTitles EXCEPT ![l] = priceJob[a].next]
    <3>1. Prices!NamesApart(priceRows') = Prices!NamesApart(priceRows)
      BY <2>3
    <3>2. ASSUME "titles" \notin priceRaced' PROVE Prices!TitlesApart(priceTitles')
      <4>1. ~priceOvertaken[a] /\ Prices!TitlesApart(priceTitles)
              /\ priceTitles \in [PriceLists -> PriceNoneOr(ListTitles)]
        BY <2>1, <2>3, <3>2, PriceFamilyOf DEF Prices!NamedOnce, PriceInv, PricesTyped
      <4>2. ~Prices!ListNameTaken(priceJob[a].next)
        BY <1>2, <2>3, <4>1, PriceWriteIs, PriceFamilyOf
             DEF PriceInv, PriceFitsStored, PriceTitleFree, Prices!At
      <4> QED BY <2>3, <4>1, <4>2 DEF Prices!TitlesApart, Prices!ListNameTaken
    <3> QED BY <2>1, <3>1, <3>2 DEF Prices!NamedOnce
  <2>4. CASE UNCHANGED <<priceRows, priceTitles>>
    BY <2>1, <2>4 DEF Prices!NamedOnce
  <2> QED BY <1>2, <2>2, <2>3, <2>4, PriceWriteIs
<1> QED BY <1>1, <1>2, PriceOnlyWriteStores DEF Prices!Next, Prices!priceVars

LEMMA PriceEditSpares ==
  ASSUME NEW e \in PriceItemEdits, NEW s \in Seq(Prices!Items),
         e.kind # "add" => Prices!CheckExpected(s, e),
         NEW item \in Prices!RangeOf(s)
  PROVE  \/ item \in Prices!RangeOf(Prices!ApplyItemEdit(s, e).next)
         \/ e.kind # "add" /\ item.name = e.expected
<1> DEFINE done == Prices!ApplyItemEdit(s, e)
<1>1. PICK i \in DOMAIN s : s[i] = item
  BY DEF Prices!RangeOf
<1>2. Len(s) \in Nat /\ DOMAIN s = 1..Len(s) /\ i \in Nat
  BY PriceSequenceFinite
<1>3. CASE e.kind = "add"
  <2>1. done.next = Append(s, e.item)
    BY <1>3, PriceApplied
  <2>2. i \in DOMAIN done.next /\ done.next[i] = item
    BY <1>1, <1>2, <2>1
  <2> QED BY <2>2 DEF Prices!RangeOf
<1>4. CASE e.kind = "update"
  <2>1. e.index \in DOMAIN s /\ done.next = [s EXCEPT ![e.index] = e.item]
          /\ s[e.index].name = e.expected
    BY <1>4, PriceApplied DEF Prices!CheckExpected
  <2>2. i = e.index \/ (i \in DOMAIN done.next /\ done.next[i] = item)
    BY <1>1, <2>1
  <2> QED BY <1>1, <1>4, <2>1, <2>2 DEF Prices!RangeOf
<1>5. CASE e.kind = "remove"
  <2>1. e.index \in DOMAIN s /\ done.next = Prices!Without(s, e.index)
          /\ s[e.index].name = e.expected
    BY <1>5, PriceApplied DEF Prices!CheckExpected
  <2>2. DOMAIN done.next = 1..(Len(s) - 1)
        /\ \A m \in 1..(Len(s) - 1) : done.next[m] = IF m < e.index THEN s[m] ELSE s[m + 1]
    BY <2>1, PriceWithoutRow, LenProperties
  <2>3. e.index \in 1..Len(s)
    BY <1>2, <2>1
  <2>4. CASE i < e.index
    <3>1. i \in DOMAIN done.next /\ done.next[i] = item
      BY <1>1, <1>2, <2>2, <2>3, <2>4
    <3> QED BY <3>1 DEF Prices!RangeOf
  <2>5. CASE i > e.index
    <3>1. i - 1 \in DOMAIN done.next /\ done.next[i - 1] = item
      BY <1>1, <1>2, <2>2, <2>3, <2>5
    <3> QED BY <3>1 DEF Prices!RangeOf
  <2>6. CASE i = e.index
    BY <1>1, <1>5, <2>1, <2>6
  <2> QED BY <1>2, <2>3, <2>4, <2>5, <2>6
<1> QED BY <1>3, <1>4, <1>5, PriceEditKinds

LEMMA PriceSparesStep ==
  ASSUME Prices!StoredAssumption, PriceInv, [Prices!Next]_(Prices!priceVars), NEW a \in Staff,
         Prices!At(a, "write"), priceJob'[a].step = "record", ~priceOvertaken[a],
         priceJob[a].edit.kind \in Prices!ItemKinds,
         NEW l \in PriceLists, NEW item \in Prices!RangeOf(priceRows[l])
  PROVE  \/ item \in Prices!RangeOf(priceRows'[l])
         \/ priceJob[a].edit.kind # "add" /\ item.name = priceJob[a].edit.expected
<1>1. Prices!Write(a)
  BY PriceStoresByWrite
<1>2. priceJob[a] \in PriceItemJobs
  BY <1>1, PriceWriteIs, PriceFamilyOf
<1> DEFINE e == priceJob[a].edit
<1>3. /\ e \in PriceItemEdits /\ e.list \in PriceLists /\ priceRows[e.list] \in Seq(Prices!Items)
      /\ e.kind # "add" => Prices!CheckExpected(priceRows[e.list], e)
      /\ priceRows' = [priceRows EXCEPT ![e.list] = Prices!ApplyItemEdit(priceRows[e.list], e).next]
  BY <1>1, <1>2, PriceWriteApplies
<1>4. priceRows \in [PriceLists -> Seq(Prices!Items)]
  BY DEF PriceInv, PricesTyped
<1> HIDE DEF e
<1>5. CASE l = e.list
  <2>1. priceRows'[l] = Prices!ApplyItemEdit(priceRows[l], e).next
    BY <1>3, <1>4, <1>5
  <2>2. \/ item \in Prices!RangeOf(Prices!ApplyItemEdit(priceRows[l], e).next)
        \/ e.kind # "add" /\ item.name = e.expected
    BY <1>3, <1>5, PriceEditSpares
  <2> QED BY <2>1, <2>2 DEF e
<1>6. CASE l # e.list
  <2>1. priceRows'[l] = priceRows[l]
    BY <1>3, <1>4, <1>6
  <2> QED BY <2>1
<1> QED BY <1>5, <1>6

-----------------------------------------------------------------------------
(* The history's account.                                                  *)

PriceTold(s, x, side) == Cardinality({k \in DOMAIN priceLog : priceLog[k].subject = s
  /\ priceLog[k][side] = x})

PriceBalanced(s, x) == Prices!Times(x, Prices!Held(s)) + PriceTold(s, x, "before")
  + Prices!Unrecorded(s, x, "before")
                    = Prices!Times(x, Prices!HeldFirst(s)) + PriceTold(s, x, "after")
                        + Prices!Unrecorded(s, x, "after")

PriceSubjects == PriceLists \union {"titles", "notes"}
PriceFamilyOfSubject(s) == IF s \in PriceLists THEN "items" ELSE s

LEMMA PriceBalanceIs ==
  /\ Prices!HistoryBalances <=> \A s \in PriceSubjects : ~priceUnlogged
       /\ PriceFamilyOfSubject(s) \notin priceRaced =>
                           \A x \in PriceValues : PriceBalanced(s, x)
  /\ Prices!HistoryBalances'
       <=> \A s \in PriceSubjects : ~priceUnlogged' /\ PriceFamilyOfSubject(s) \notin priceRaced' =>
                            \A x \in PriceValues : PriceBalanced(s, x)'
BY PriceCount DEF Prices!HistoryBalances, PriceSubjects, PriceFamilyOfSubject, PriceValues,
   PriceBalanced, PriceTold

LEMMA PriceHeldIs ==
  ASSUME Prices!StoredAssumption
  PROVE  /\ \A s \in PriceLists : Prices!Held(s) = priceRows[s] /\ Prices!Held(s)' = priceRows'[s]
              /\ Prices!HeldFirst(s) = FirstItems[s]
         /\ Prices!Held("titles") = priceTitles /\ Prices!Held("titles")' = priceTitles'
              /\ Prices!HeldFirst("titles") = FirstListTitles
         /\ Prices!Held("notes") = <<priceNotes>> /\ Prices!Held("notes")' = <<priceNotes'>>
         /\ Prices!HeldFirst("notes") = <<FirstSectionNotes>>
<1>1. \A s \in PriceLists : s # "titles" /\ s # "notes"
  BY DEF Prices!StoredAssumption
<1>2. ASSUME NEW s \in PriceLists
      PROVE  Prices!Held(s) = priceRows[s] /\ Prices!Held(s)' = priceRows'[s]
               /\ Prices!HeldFirst(s) = FirstItems[s]
  <2>1. s # "titles" /\ s # "notes"
    BY <1>1
  <2> QED BY <2>1, Zenon DEF Prices!Held, Prices!HeldFirst
<1>3. "notes" # "titles"
  OBVIOUS
<1>4. Prices!Held("titles") = priceTitles /\ Prices!Held("titles")' = priceTitles'
        /\ Prices!HeldFirst("titles") = FirstListTitles
  BY <1>3, Zenon DEF Prices!Held, Prices!HeldFirst
<1>5. Prices!Held("notes") = <<priceNotes>> /\ Prices!Held("notes")' = <<priceNotes'>>
        /\ Prices!HeldFirst("notes") = <<FirstSectionNotes>>
  BY <1>3, Zenon DEF Prices!Held, Prices!HeldFirst
<1> QED BY <1>2, <1>4, <1>5

LEMMA PriceTimesNat ==
  ASSUME NEW f, IsFiniteSet(DOMAIN f), NEW x
  PROVE  Prices!Times(x, f) \in Nat
<1>1. {i \in DOMAIN f : f[i] = x} \subseteq DOMAIN f
  OBVIOUS
<1>2. Cardinality({i \in DOMAIN f : f[i] = x}) \in Nat
  BY <1>1, PriceOneMore
<1> QED BY <1>2, PriceTimesIs

LEMMA PriceTimesOne ==
  ASSUME NEW n, NEW x
  PROVE  Prices!Times(x, <<n>>) = PriceOne(n = x)
<1>1. {i \in DOMAIN <<n>> : <<n>>[i] = x} = IF n = x THEN {1} ELSE {}
  OBVIOUS
<1>2. Cardinality({1}) = 1 /\ Cardinality({}) = 0
  BY FS_Singleton, FS_EmptySet
<1>3. Prices!Times(x, <<n>>) = IF n = x THEN Cardinality({1}) ELSE Cardinality({})
  BY <1>1, PriceTimesIs, Zenon
<1> QED BY <1>2, <1>3 DEF PriceOne

\* Who has an entry still to record.
LEMMA PriceUnrecordedStep ==
  ASSUME IsFiniteSet(Staff), NEW a \in Staff, \A b \in Staff \ {a} : priceJob'[b] = priceJob[b],
         NEW s, NEW x, NEW side
  PROVE  /\ Prices!Unrecorded(s, x, side) \in Nat /\ Prices!Unrecorded(s, x, side)' \in Nat
         /\ Prices!Unrecorded(s, x, side)'
              + PriceOne(Prices!At(a, "record") /\ Prices!Subject(priceJob[a].edit) = s
                /\ priceJob[a][side] = x)
              = Prices!Unrecorded(s, x, side)
                  + PriceOne(priceJob'[a].step = "record" /\ Prices!Subject(priceJob'[a].edit) = s
                    /\ priceJob'[a][side] = x)
<1> DEFINE Holds(b) == Prices!At(b, "record") /\ Prices!Subject(priceJob[b].edit) = s
             /\ priceJob[b][side] = x
           A == {b \in Staff \ {a} : Holds(b)}
           Now == Holds(a)
           Next1 == priceJob'[a].step = "record" /\ Prices!Subject(priceJob'[a].edit) = s
             /\ priceJob'[a][side] = x
<1>1. a \notin A /\ A \subseteq Staff
  OBVIOUS
<1>2. {b \in Staff : Holds(b)} = IF Now THEN A \union {a} ELSE A
  OBVIOUS
<1>3. {b \in Staff : priceJob'[b].step = "record" /\ Prices!Subject(priceJob'[b].edit) = s
        /\ priceJob'[b][side] = x}
        = IF Next1 THEN A \union {a} ELSE A
  BY DEF Prices!At
<1>4. Prices!Unrecorded(s, x, side) = IF Now THEN Cardinality(A \union {a}) ELSE Cardinality(A)
  <2>1. Prices!Unrecorded(s, x, side) = Cardinality({b \in Staff : Holds(b)})
    BY PriceCount DEF Prices!Unrecorded
  <2> QED BY <1>2, <2>1, Zenon
<1>5. Prices!Unrecorded(s, x, side)' = IF Next1 THEN Cardinality(A \union {a}) ELSE Cardinality(A)
  <2>1. Prices!Unrecorded(s, x, side)'
          = Cardinality({b \in Staff : priceJob'[b].step = "record"
              /\ Prices!Subject(priceJob'[b].edit) = s /\ priceJob'[b][side] = x})
    BY PriceCount DEF Prices!Unrecorded, Prices!At, Prices!Subject
  <2> QED BY <1>3, <2>1, Zenon
<1> HIDE DEF A
<1>6. Cardinality(A) \in Nat /\ Cardinality(A \union {a}) = Cardinality(A) + 1
  BY <1>1, PriceOneMore
<1> HIDE DEF Now, Next1
<1>7. /\ Prices!Unrecorded(s, x, side) \in Nat /\ Prices!Unrecorded(s, x, side)' \in Nat
      /\ Prices!Unrecorded(s, x, side)' + PriceOne(Now)
           = Prices!Unrecorded(s, x, side) + PriceOne(Next1)
  BY <1>4, <1>5, <1>6 DEF PriceOne
<1> QED BY <1>7 DEF Now, Next1, PriceOne

LEMMA PriceToldStep ==
  ASSUME priceLog \in Seq(PriceEntries), NEW s, NEW x, NEW side
  PROVE  /\ PriceTold(s, x, side) \in Nat
         /\ \A entry \in PriceEntries : priceLog' = Append(priceLog, entry) =>
              PriceTold(s, x, side)' = PriceTold(s, x, side)
                + PriceOne(entry.subject = s /\ entry[side] = x)
<1> DEFINE A == {k \in DOMAIN priceLog : priceLog[k].subject = s /\ priceLog[k][side] = x}
<1>1. Len(priceLog) \in Nat /\ DOMAIN priceLog = 1..Len(priceLog) /\ IsFiniteSet(DOMAIN priceLog)
  BY PriceSequenceFinite
<1>2. A \subseteq DOMAIN priceLog /\ Len(priceLog) + 1 \notin A
  BY <1>1
<1>3. PriceTold(s, x, side) = Cardinality(A)
  BY DEF PriceTold
<1>4. ASSUME NEW entry \in PriceEntries, priceLog' = Append(priceLog, entry)
      PROVE  {k \in DOMAIN priceLog' : priceLog'[k].subject = s /\ priceLog'[k][side] = x}
               = IF entry.subject = s /\ entry[side] = x THEN A \union {Len(priceLog) + 1} ELSE A
  <2>1. /\ DOMAIN priceLog' = 1..(Len(priceLog) + 1) /\ priceLog'[Len(priceLog) + 1] = entry
        /\ \A k \in 1..Len(priceLog) : priceLog'[k] = priceLog[k]
    BY <1>1, <1>4
  <2>2. \A k : k \in 1..(Len(priceLog) + 1) <=> k \in 1..Len(priceLog) \/ k = Len(priceLog) + 1
    BY <1>1
  <2> QED BY <1>1, <2>1, <2>2
<1> HIDE DEF A
<1>5. Cardinality(A) \in Nat /\ Cardinality(A \union {Len(priceLog) + 1}) = Cardinality(A) + 1
  BY <1>1, <1>2, PriceOneMore
<1>6. ASSUME NEW entry \in PriceEntries, priceLog' = Append(priceLog, entry)
      PROVE  PriceTold(s, x, side)' = PriceTold(s, x, side)
               + PriceOne(entry.subject = s /\ entry[side] = x)
  <2>1. PriceTold(s, x, side)' = IF entry.subject = s
          /\ entry[side] = x THEN Cardinality(A \union {Len(priceLog) + 1})
                            ELSE Cardinality(A)
    BY <1>4, <1>6, Zenon DEF PriceTold
  <2> QED BY <1>3, <1>5, <2>1 DEF PriceOne
<1> QED BY <1>3, <1>5, <1>6

LEMMA PriceBalanceStart ==
  ASSUME Prices!StoredAssumption, Prices!Init
  PROVE  Prices!HistoryBalances
<1>1. SUFFICES ASSUME NEW s \in PriceSubjects, NEW x \in PriceValues PROVE PriceBalanced(s, x)
  BY PriceBalanceIs
<1>2. Prices!Held(s) = Prices!HeldFirst(s)
  BY PriceHeldIs DEF PriceSubjects, Prices!Init
<1>3. PriceTold(s, x, "before") = 0 /\ PriceTold(s, x, "after") = 0
  <2>1. DOMAIN priceLog = {}
    BY DEF Prices!Init
  <2> QED BY <2>1, FS_EmptySet DEF PriceTold
<1>4. \A side : Prices!Unrecorded(s, x, side) = 0
  <2>1. \A a \in Staff : ~Prices!At(a, "record")
    BY DEF Prices!Init, Prices!At, Prices!Idle
  <2> QED BY <2>1, FS_EmptySet, PriceCount DEF Prices!Unrecorded
<1> QED BY <1>2, <1>3, <1>4 DEF PriceBalanced

\* A write brings what its entry will tell.
LEMMA PriceWriteBrings ==
  ASSUME Prices!StoredAssumption, PriceInv, NEW a \in Staff, Prices!Write(a),
         NEW s \in PriceSubjects, NEW x \in PriceValues,
         PriceFamilyOfSubject(s) \notin priceRaced'
  PROVE  /\ Prices!Times(x, Prices!Held(s)) \in Nat /\ Prices!Times(x, Prices!Held(s)') \in Nat
         /\ Prices!Times(x, Prices!Held(s)')
              + PriceOne(Prices!Subject(priceJob[a].edit) = s /\ priceJob[a].before = x)
              = Prices!Times(x, Prices!Held(s))
                  + PriceOne(Prices!Subject(priceJob[a].edit) = s /\ priceJob[a].after = x)
<1>1. /\ priceRows \in [PriceLists -> Seq(Prices!Items)]
           /\ priceTitles \in [PriceLists -> PriceNoneOr(ListTitles)]
      /\ "titles" \notin PriceLists /\ "notes" \notin PriceLists
      /\ Nothing # x /\ IsFiniteSet(PriceLists) /\ IsFiniteSet(DOMAIN priceTitles)
      /\ priceOvertaken[a] => Prices!Family(priceJob[a].edit) \in priceRaced'
  BY PriceWriteIs, PriceSetsFinite DEF PriceInv, PricesTyped, Prices!StoredAssumption, PriceValues
<1>2. Prices!Times(x, Prices!Held(s)) \in Nat
  <2>1. CASE s \in PriceLists
    <3>1. Prices!Held(s) = priceRows[s] /\ priceRows[s] \in Seq(Prices!Items)
      BY <1>1, <2>1, PriceHeldIs
    <3>2. IsFiniteSet(DOMAIN priceRows[s])
      BY <3>1, PriceSequenceFinite
    <3> QED BY <3>1, <3>2, PriceTimesNat
  <2>2. CASE s = "titles"
    <3>1. Prices!Times(x, priceTitles) \in Nat
      BY <1>1, PriceTimesNat
    <3> QED BY <2>2, <3>1, PriceHeldIs
  <2>3. CASE s = "notes"
    BY <2>3, PriceHeldIs, PriceTimesOne DEF PriceOne
  <2> QED BY <2>1, <2>2, <2>3 DEF PriceSubjects
<1>3. CASE Prices!Subject(priceJob[a].edit) # s
  <2>1. Prices!Held(s)' = Prices!Held(s)
    <3>1. CASE priceJob[a] \in PriceItemJobs /\ UNCHANGED <<priceTitles, priceNotes>>
                 /\ priceRows' = [priceRows EXCEPT ![priceJob[a].edit.list] = priceJob[a].next]
      BY <1>1, <1>3, <3>1, PriceFamilyOf, PriceHeldIs DEF PriceSubjects
    <3>2. CASE priceJob[a] \in PriceTitleJobs /\ UNCHANGED <<priceRows, priceNotes>>
      BY <1>1, <1>3, <3>2, PriceFamilyOf, PriceHeldIs DEF PriceSubjects
    <3>3. CASE priceJob[a] \in PriceNoteJobs /\ UNCHANGED <<priceRows, priceTitles>>
      BY <1>1, <1>3, <3>3, PriceFamilyOf, PriceHeldIs DEF PriceSubjects
    <3> QED BY <3>1, <3>2, <3>3, PriceWriteIs
  <2> QED BY <1>2, <1>3, <2>1 DEF PriceOne
<1>4. CASE Prices!Subject(priceJob[a].edit) = s
  <2>1. CASE priceJob[a] \in PriceItemJobs
    <3> DEFINE e == priceJob[a].edit
               done == Prices!ApplyItemEdit(priceRows[e.list], e)
    <3>1. s = e.list /\ s \in PriceLists /\ ~priceOvertaken[a]
      BY <1>1, <1>4, <2>1, PriceFamilyOf DEF PriceFamilyOfSubject
    <3>2. /\ e \in PriceItemEdits /\ priceRows[s] \in Seq(Prices!Items)
          /\ e.kind # "add" => Prices!CheckExpected(priceRows[s], e)
          /\ priceRows' = [priceRows EXCEPT ![s] = Prices!ApplyItemEdit(priceRows[s], e).next]
          /\ priceJob[a].before = Prices!ApplyItemEdit(priceRows[s], e).before
          /\ priceJob[a].after = Prices!ApplyItemEdit(priceRows[s], e).after
      BY <2>1, <3>1, PriceWriteApplies
    <3> HIDE DEF e
    <3>3. priceRows'[s] = Prices!ApplyItemEdit(priceRows[s], e).next
      BY <1>1, <3>1, <3>2
    <3>4. /\ Prices!Times(x, priceRows[s]) \in Nat
               /\ Prices!Times(x, Prices!ApplyItemEdit(priceRows[s], e).next) \in Nat
          /\ Prices!Times(x, Prices!ApplyItemEdit(priceRows[s], e).next)
               + PriceOne(Prices!ApplyItemEdit(priceRows[s], e).before = x)
               = Prices!Times(x, priceRows[s])
                   + PriceOne(Prices!ApplyItemEdit(priceRows[s], e).after = x)
      BY <3>2, PriceEditBalances
    <3>5. Prices!Times(x, priceRows'[s]) \in Nat
          /\ Prices!Times(x, priceRows'[s]) + PriceOne(priceJob[a].before = x)
               = Prices!Times(x, priceRows[s]) + PriceOne(priceJob[a].after = x)
      BY <3>2, <3>3, <3>4
    <3> QED BY <1>2, <1>4, <3>1, <3>5, PriceHeldIs DEF PriceOne
  <2>2. CASE priceJob[a] \in PriceTitleJobs
    <3>1. s = "titles" /\ priceJob[a].before = Nothing /\ priceJob[a].next = priceJob[a].after
      BY <1>4, <2>2, PriceFamilyOf, PriceWriteIs
           DEF PriceTitleJobs, PriceInv, PriceFitsStored, PriceTitleFree, Prices!At
    <3>2. priceJob[a] \notin PriceItemJobs /\ priceJob[a] \notin PriceNoteJobs
      BY <2>2, PriceFamilyOf
    <3>3. PICK l \in PriceLists : priceTitles[l] = Nothing
            /\ priceTitles' = [priceTitles EXCEPT ![l] = priceJob[a].next]
      BY <3>2, PriceWriteIs
    <3>4. Prices!Times(x, priceTitles') \in Nat
          /\ Prices!Times(x, priceTitles') + PriceOne(priceTitles[l] = x)
               = Prices!Times(x, priceTitles) + PriceOne(priceJob[a].next = x)
      <4>1. l \in DOMAIN priceTitles
        BY <1>1
      <4>2. \A n : /\ Prices!Times(x, [priceTitles EXCEPT ![l] = n]) \in Nat
                   /\ Prices!Times(x, [priceTitles EXCEPT ![l] = n]) + PriceOne(priceTitles[l] = x)
                        = Prices!Times(x, priceTitles) + PriceOne(n = x)
        <5> TAKE n
        <5>1. IsFiniteSet(DOMAIN priceTitles)
          BY <1>1
        <5> QED BY <4>1, <5>1, PriceTimesChanged
      <4> QED BY <3>3, <4>2
    <3> QED BY <1>1, <1>2, <1>4, <3>1, <3>3, <3>4, PriceHeldIs DEF PriceOne
  <2>3. CASE priceJob[a] \in PriceNoteJobs
    <3>1. s = "notes" /\ ~priceOvertaken[a]
      BY <1>1, <1>4, <2>3, PriceFamilyOf DEF PriceFamilyOfSubject
    <3>2. priceJob[a].before = priceNotes /\ priceJob[a].next = priceJob[a].after
      BY <2>3, <3>1, PriceFamilyOf, PriceWriteIs
           DEF PriceInv, PriceFitsStored, PriceNotesRead, Prices!At
    <3>3. priceNotes' = priceJob[a].next
      BY <2>3, PriceFamilyOf, PriceWriteIs
    <3> QED BY <1>4, <3>1, <3>2, <3>3, PriceHeldIs, PriceTimesOne DEF PriceOne
  <2> QED BY <2>1, <2>2, <2>3, PriceWriteIs
<1> QED BY <1>3, <1>4

LEMMA PriceBalancedThen ==
  ASSUME NEW s, NEW x
  PROVE  PriceBalanced(s, x)' <=>
           Prices!Times(x, Prices!Held(s)') + PriceTold(s, x, "before")'
             + Prices!Unrecorded(s, x, "before")'
             = Prices!Times(x, Prices!HeldFirst(s)) + PriceTold(s, x, "after")'
                 + Prices!Unrecorded(s, x, "after")'
BY DEF PriceBalanced, Prices!Times

LEMMA PriceSameAccount ==
  ASSUME Prices!StoredAssumption, PriceInv, Prices!HistoryBalances, NEW a \in Staff,
         \A b \in Staff \ {a} : priceJob'[b] = priceJob[b], ~Prices!At(a, "record"),
         priceJob'[a].step # "record",
         UNCHANGED <<priceRows, priceTitles, priceNotes, priceRaced, priceLog, priceUnlogged>>
  PROVE  Prices!HistoryBalances'
<1>1. \A s, x, side : Prices!Unrecorded(s, x, side)' = Prices!Unrecorded(s, x, side)
  <2> SUFFICES ASSUME NEW s, NEW x, NEW side
               PROVE  Prices!Unrecorded(s, x, side)' = Prices!Unrecorded(s, x, side)
    OBVIOUS
  <2> QED BY PriceUnrecordedStep, PriceSetsFinite DEF PriceOne
<1>2. \A s \in PriceSubjects : Prices!Held(s)' = Prices!Held(s)
  BY PriceHeldIs DEF PriceSubjects
<1>3. \A s, x, side : PriceTold(s, x, side)' = PriceTold(s, x, side)
  BY DEF PriceTold
<1>4. ASSUME NEW s \in PriceSubjects, NEW x \in PriceValues, PriceBalanced(s, x)
      PROVE  PriceBalanced(s, x)'
  <2>1. Prices!Times(x, Prices!Held(s)') = Prices!Times(x, Prices!Held(s))
    BY <1>2
  <2> QED BY <1>1, <1>3, <1>4, <2>1, PriceBalancedThen DEF PriceBalanced
<1> QED BY <1>4, PriceBalanceIs

LEMMA PriceEntryTyped ==
  ASSUME NEW j \in PriceJobs, j.step = "record"
  PROVE  [subject |-> Prices!Subject(j.edit), before |-> j.before, after |-> j.after]
           \in PriceEntries
<1>1. CASE j \in PriceItemJobs
  BY <1>1, PriceFamilyOf DEF PriceItemJobs, PriceEntries, PriceNoneOr, PriceValues
<1>2. CASE j \in PriceTitleJobs
  BY <1>2, PriceFamilyOf DEF PriceTitleJobs, PriceEntries, PriceNoneOr, PriceValues
<1>3. CASE j \in PriceNoteJobs
  BY <1>3, PriceFamilyOf DEF PriceNoteJobs, PriceEntries, PriceNoneOr, PriceValues
<1> QED BY <1>1, <1>2, <1>3, PriceJobKinds

LEMMA PriceTimesTyped ==
  ASSUME Prices!StoredAssumption, PricesTyped, NEW s \in PriceSubjects, NEW x
  PROVE  Prices!Times(x, Prices!Held(s)) \in Nat /\ Prices!Times(x, Prices!HeldFirst(s)) \in Nat
<1>1. CASE s \in PriceLists
  <2>1. /\ Prices!Held(s) = priceRows[s] /\ Prices!HeldFirst(s) = FirstItems[s]
        /\ priceRows[s] \in Seq(Prices!Items) /\ FirstItems[s] \in Seq(Prices!Items)
    BY <1>1, PriceHeldIs DEF Prices!StoredAssumption, PricesTyped
  <2>2. IsFiniteSet(DOMAIN priceRows[s]) /\ IsFiniteSet(DOMAIN FirstItems[s])
    BY <2>1, PriceSequenceFinite
  <2> QED BY <2>1, <2>2, PriceTimesNat
<1>2. CASE s = "titles"
  <2>1. /\ Prices!Held(s) = priceTitles /\ Prices!HeldFirst(s) = FirstListTitles
        /\ IsFiniteSet(DOMAIN priceTitles) /\ IsFiniteSet(DOMAIN FirstListTitles)
    BY <1>2, PriceHeldIs, PriceSetsFinite DEF Prices!StoredAssumption, PricesTyped
  <2> QED BY <2>1, PriceTimesNat
<1>3. CASE s = "notes"
  BY <1>3, PriceHeldIs, PriceTimesOne DEF PriceOne
<1> QED BY <1>1, <1>2, <1>3 DEF PriceSubjects

\* The steps that write, record and lose nothing.
LEMMA PriceOtherSteps ==
  ASSUME PriceInv, NEW a \in Staff, Prices!Step(a), ~Prices!Write(a), ~Prices!Record(a),
         ~(Prices!Fail(a) /\ Prices!At(a, "record"))
  PROVE  ~Prices!At(a, "record") /\ priceJob'[a].step # "record"
           /\ UNCHANGED <<priceLog, priceUnlogged>>
<1>1. priceJob \in [Staff -> PriceJobs] /\ Prices!Idle.step = "idle" /\ priceUnlogged \in BOOLEAN
  BY DEF PriceInv, PricesTyped, Prices!Idle
<1>2. CASE Prices!AddItem(a) \/ Prices!UpdateItem(a) \/ Prices!RemoveItem(a) \/ Prices!CreateList(a)
             \/ Prices!SaveNotes(a)
  <2>1. PICK e : Prices!Send(a, e)
    BY <1>2 DEF Prices!AddItem, Prices!UpdateItem, Prices!RemoveItem, Prices!CreateList,
            Prices!SaveNotes
  <2> QED BY <1>1, <2>1 DEF Prices!Send, Prices!At
<1>3. CASE Prices!FindStale(a)
  BY <1>1, <1>3 DEF Prices!FindStale, Prices!Refuse, Prices!At
<1>4. CASE Prices!FindList(a)
  BY <1>1, <1>4 DEF Prices!FindList, Prices!Move, Prices!At
<1>5. CASE Prices!CheckName(a)
  <2>1. Prices!At(a, "check") /\ UNCHANGED <<priceLog, priceUnlogged>>
    BY <1>5 DEF Prices!CheckName, Prices!Refuse
  <2>2. priceJob'[a] = Prices!Idle \/ priceJob'[a] = [priceJob[a] EXCEPT !.step = "write"]
    BY <1>1, <1>5 DEF Prices!CheckName, Prices!Refuse
  <2>3. priceJob'[a] = Prices!Idle \/ priceJob'[a].step = "write"
    <3>1. priceJob[a] \in PriceJobs /\ priceJob[a].step = "check"
      BY <1>1, <2>1 DEF Prices!At
    <3>2. [priceJob[a] EXCEPT !.step = "write"].step = "write"
      BY <3>1, PriceMovedOn
    <3> QED BY <2>2, <3>2
  <2> QED BY <1>1, <2>1, <2>3 DEF Prices!At
<1>6. CASE Prices!CheckTitle(a)
  <2>1. Prices!At(a, "read") /\ UNCHANGED <<priceLog, priceUnlogged>>
    BY <1>6 DEF Prices!CheckTitle, Prices!Refuse
  <2>2. priceJob'[a].step = "idle" \/ priceJob'[a].step = "write"
    BY <1>1, <1>6 DEF Prices!CheckTitle, Prices!Move, Prices!Refuse
  <2> QED BY <2>1, <2>2 DEF Prices!At
<1>8. CASE Prices!FindSection(a)
  BY <1>1, <1>8 DEF Prices!FindSection, Prices!Move, Prices!At
<1>7. CASE Prices!Reload(a) \/ Prices!Answer(a) \/ Prices!Fail(a)
  BY <1>1, <1>7 DEF Prices!Reload, Prices!Answer, Prices!Fail, Prices!At
<1> QED BY <1>2, <1>3, <1>4, <1>5, <1>6, <1>7, <1>8 DEF Prices!Step

LEMMA PriceWriteAccounts ==
  ASSUME Prices!StoredAssumption, PriceInv, Prices!HistoryBalances, NEW a \in Staff, Prices!Write(a)
  PROVE  Prices!HistoryBalances'
<1>1. SUFFICES ASSUME NEW s \in PriceSubjects, ~priceUnlogged',
                      PriceFamilyOfSubject(s) \notin priceRaced', NEW x \in PriceValues
               PROVE  PriceBalanced(s, x)'
  BY PriceBalanceIs
<1>2. /\ Prices!Times(x, Prices!Held(s)) \in Nat /\ Prices!Times(x, Prices!Held(s)') \in Nat
      /\ Prices!Times(x, Prices!Held(s)')
           + PriceOne(Prices!Subject(priceJob[a].edit) = s /\ priceJob[a].before = x)
           = Prices!Times(x, Prices!Held(s))
               + PriceOne(Prices!Subject(priceJob[a].edit) = s /\ priceJob[a].after = x)
  BY <1>1, PriceWriteBrings
<1>3. PriceBalanced(s, x)
  <2>1. ~priceUnlogged /\ PriceFamilyOfSubject(s) \notin priceRaced
    BY <1>1, PriceWriteIs
  <2> QED BY <2>1, PriceBalanceIs
<1>4. \A side : PriceTold(s, x, side)' = PriceTold(s, x, side) /\ PriceTold(s, x, side) \in Nat
  <2> TAKE side
  <2>1. priceLog' = priceLog /\ priceLog \in Seq(PriceEntries)
    BY PriceWriteIs DEF PriceInv, PricesTyped
  <2>2. PriceTold(s, x, side) \in Nat
    BY <2>1, PriceToldStep
  <2> QED BY <2>1, <2>2 DEF PriceTold
<1>5. ASSUME NEW side
      PROVE  /\ Prices!Unrecorded(s, x, side) \in Nat /\ Prices!Unrecorded(s, x, side)' \in Nat
             /\ Prices!Unrecorded(s, x, side)'
                  = Prices!Unrecorded(s, x, side)
                      + PriceOne(Prices!Subject(priceJob[a].edit) = s /\ priceJob'[a][side] = x)
  <2>1. ~Prices!At(a, "record") /\ priceJob'[a].step = "record"
          /\ priceJob'[a].edit = priceJob[a].edit
    BY PriceWriterMoves, PriceWriteIs DEF Prices!At
  <2>2. \A b \in Staff \ {a} : priceJob'[b] = priceJob[b]
    BY PriceWriterMoves
  <2>3. IsFiniteSet(Staff)
    BY PriceSetsFinite
  <2>4. /\ Prices!Unrecorded(s, x, side) \in Nat /\ Prices!Unrecorded(s, x, side)' \in Nat
        /\ Prices!Unrecorded(s, x, side)'
             + PriceOne(Prices!At(a, "record") /\ Prices!Subject(priceJob[a].edit) = s
               /\ priceJob[a][side] = x)
             = Prices!Unrecorded(s, x, side)
                 + PriceOne(priceJob'[a].step = "record" /\ Prices!Subject(priceJob'[a].edit) = s
                   /\ priceJob'[a][side] = x)
    BY <2>2, <2>3, PriceUnrecordedStep
  <2> QED BY <2>1, <2>4 DEF PriceOne
<1>6. priceJob'[a].before = priceJob[a].before /\ priceJob'[a].after = priceJob[a].after
  BY PriceWriterMoves
<1>7. Prices!Times(x, Prices!HeldFirst(s)) \in Nat
  BY PriceTimesTyped DEF PriceInv
<1> QED BY <1>2, <1>3, <1>4, <1>5, <1>6, <1>7, PriceBalancedThen DEF PriceBalanced, PriceOne

LEMMA PriceRecordAccounts ==
  ASSUME Prices!StoredAssumption, PriceInv, Prices!HistoryBalances, NEW a \in Staff,
         Prices!Record(a)
  PROVE  Prices!HistoryBalances'
<1> DEFINE entry == [subject |-> Prices!Subject(priceJob[a].edit), before |-> priceJob[a].before,
             after |-> priceJob[a].after]
<1>1. /\ priceJob[a] \in PriceJobs /\ priceJob[a].step = "record"
           /\ priceLog' = Append(priceLog, entry)
      /\ priceJob'[a].step = "answer" /\ \A b \in Staff \ {a} : priceJob'[b] = priceJob[b]
      /\ UNCHANGED <<priceRows, priceTitles, priceNotes, priceRaced, priceUnlogged>>
  BY DEF Prices!Record, Prices!At, PriceInv, PricesTyped, PriceJobs, PriceItemJobs, PriceTitleJobs,
     PriceNoteJobs, Prices!Idle
<1>2. entry \in PriceEntries
  BY <1>1, PriceEntryTyped
<1>3. entry.subject = Prices!Subject(priceJob[a].edit) /\ entry.before = priceJob[a].before
        /\ entry.after = priceJob[a].after
  OBVIOUS
<1> HIDE DEF entry
<1>4. SUFFICES ASSUME NEW s \in PriceSubjects, ~priceUnlogged',
                      PriceFamilyOfSubject(s) \notin priceRaced', NEW x \in PriceValues
               PROVE  PriceBalanced(s, x)'
  BY PriceBalanceIs
<1>5. PriceBalanced(s, x) /\ Prices!Times(x, Prices!Held(s)') = Prices!Times(x, Prices!Held(s))
  <2>1. Prices!Held(s)' = Prices!Held(s)
    BY <1>1, PriceHeldIs DEF PriceSubjects
  <2> QED BY <1>1, <1>4, <2>1, PriceBalanceIs
<1>6. \A side : /\ PriceTold(s, x, side) \in Nat
                /\ PriceTold(s, x, side)' = PriceTold(s, x, side)
                     + PriceOne(entry.subject = s /\ entry[side] = x)
  <2> TAKE side
  <2>1. priceLog \in Seq(PriceEntries)
    BY DEF PriceInv, PricesTyped
  <2> QED BY <1>1, <1>2, <2>1, PriceToldStep DEF PriceOne
<1>7. ASSUME NEW side
      PROVE  /\ Prices!Unrecorded(s, x, side) \in Nat /\ Prices!Unrecorded(s, x, side)' \in Nat
             /\ Prices!Unrecorded(s, x, side)'
                  + PriceOne(Prices!Subject(priceJob[a].edit) = s /\ priceJob[a][side] = x)
                  = Prices!Unrecorded(s, x, side)
  <2>1. IsFiniteSet(Staff)
    BY PriceSetsFinite
  <2>2. /\ Prices!Unrecorded(s, x, side) \in Nat /\ Prices!Unrecorded(s, x, side)' \in Nat
        /\ Prices!Unrecorded(s, x, side)'
             + PriceOne(Prices!At(a, "record") /\ Prices!Subject(priceJob[a].edit) = s
               /\ priceJob[a][side] = x)
             = Prices!Unrecorded(s, x, side)
                 + PriceOne(priceJob'[a].step = "record" /\ Prices!Subject(priceJob'[a].edit) = s
                   /\ priceJob'[a][side] = x)
    BY <1>1, <2>1, PriceUnrecordedStep
  <2>3. Prices!At(a, "record") /\ priceJob'[a].step # "record"
    BY <1>1 DEF Prices!At
  <2> QED BY <2>2, <2>3 DEF PriceOne
<1>8. /\ PriceTold(s, x, "before")' + Prices!Unrecorded(s, x, "before")'
           = PriceTold(s, x, "before") + Prices!Unrecorded(s, x, "before")
      /\ PriceTold(s, x, "after")' + Prices!Unrecorded(s, x, "after")'
           = PriceTold(s, x, "after") + Prices!Unrecorded(s, x, "after")
  BY <1>3, <1>6, <1>7 DEF PriceOne
<1>9. Prices!Times(x, Prices!Held(s)) \in Nat /\ Prices!Times(x, Prices!HeldFirst(s)) \in Nat
  BY PriceTimesTyped DEF PriceInv
<1> HIDE DEF entry
<1>10. /\ PriceTold(s, x, "before") \in Nat /\ PriceTold(s, x, "after") \in Nat
       /\ PriceTold(s, x, "before")' \in Nat /\ PriceTold(s, x, "after")' \in Nat
  BY <1>6 DEF PriceOne
<1>11. /\ Prices!Unrecorded(s, x, "before") \in Nat /\ Prices!Unrecorded(s, x, "after") \in Nat
       /\ Prices!Unrecorded(s, x, "before")' \in Nat /\ Prices!Unrecorded(s, x, "after")' \in Nat
  BY <1>7
<1> QED BY <1>5, <1>8, <1>9, <1>10, <1>11, PriceBalancedThen DEF PriceBalanced

LEMMA PriceAccountStep ==
  ASSUME Prices!StoredAssumption, PriceInv, Prices!HistoryBalances, [Prices!Next]_(Prices!priceVars)
  PROVE  Prices!HistoryBalances'
<1>1. CASE UNCHANGED Prices!priceVars
  <2>1. \A s, x : PriceBalanced(s, x)' <=> PriceBalanced(s, x)
    BY <1>1 DEF Prices!priceVars, PriceBalanced, Prices!Times, Prices!Held, Prices!HeldFirst,
            PriceTold, Prices!Unrecorded, Prices!At
  <2> QED BY <1>1, <2>1, PriceBalanceIs DEF Prices!priceVars
<1>2. ASSUME NEW a \in Staff, Prices!Step(a)
      PROVE  Prices!HistoryBalances'
  <2>1. CASE Prices!Write(a)
    BY <2>1, PriceWriteAccounts
  <2>2. CASE Prices!Record(a)
    BY <2>2, PriceRecordAccounts
  <2>3. CASE Prices!Fail(a) /\ Prices!At(a, "record")
    BY <2>3, PriceBalanceIs DEF Prices!Fail
  <2>4. CASE ~Prices!Write(a) /\ ~Prices!Record(a) /\ ~(Prices!Fail(a) /\ Prices!At(a, "record"))
    <3>1. /\ ~Prices!At(a, "record") /\ priceJob'[a].step # "record"
          /\ UNCHANGED <<priceLog, priceUnlogged>>
      BY <1>2, <2>4, PriceOtherSteps
    <3> QED BY <1>2, <2>4, <3>1, PriceOnlyWriteStores, PriceOneMoves, PriceSameAccount
  <2> QED BY <2>1, <2>2, <2>3, <2>4
<1> QED BY <1>1, <1>2 DEF Prices!Next

-----------------------------------------------------------------------------
\* The types of the price lists (price-admin-service.ts).
THEOREM PricesAlwaysTyped ==
  ASSUME Prices!StoredAssumption
  PROVE  Prices!Spec => []Prices!TypeOK
<1>1. Prices!Init => PriceInv
  BY PriceStart
<1>2. PriceInv /\ [Prices!Next]_(Prices!priceVars) => PriceInv'
  BY PriceInvStep
<1>3. PriceInv => Prices!TypeOK
  <2>1. \A j \in PriceJobs : j = Prices!Idle \/ j.edit \in Prices!Edits
    <3>1. \A j \in PriceTitleJobs : j.edit \in Prices!Edits
      BY DEF PriceTitleJobs, Prices!Edits
    <3>2. \A j \in PriceNoteJobs : j.edit \in Prices!Edits
      BY DEF PriceNoteJobs, Prices!Edits
    <3>3. \A j \in PriceItemJobs : j.edit \in Prices!Edits
      BY DEF PriceItemJobs, PriceItemEdits
    <3> QED BY <3>1, <3>2, <3>3 DEF PriceJobs
  <2> QED BY <2>1 DEF PriceInv, PricesTyped, PriceOnlyCreated, Prices!TypeOK, PriceNoneOr
<1> QED BY <1>1, <1>2, <1>3, PTL DEF Prices!Spec

\* A name stands once in a section, a list's name once, unless a request wrote
\* over a write it never read (price-admin-service.ts nameClash).
THEOREM PriceNamesAlwaysOnce ==
  ASSUME Prices!StoredAssumption
  PROVE  Prices!Spec => []Prices!NamedOnce
<1>1. Prices!Init => PriceInv /\ Prices!NamedOnce
  BY PriceStart DEF Prices!Init, Prices!NamedOnce, Prices!StoredAssumption
<1>2. PriceInv /\ Prices!NamedOnce /\ [Prices!Next]_(Prices!priceVars)
        => PriceInv' /\ Prices!NamedOnce'
  BY PriceInvStep, PriceNamedOnceStep
<1> QED BY <1>1, <1>2, PTL DEF Prices!Spec

\* The history accounts for what is stored (price-admin-service.ts recordChange).
THEOREM PriceHistoryAlwaysBalances ==
  ASSUME Prices!StoredAssumption
  PROVE  Prices!Spec => []Prices!HistoryBalances
<1>1. Prices!Init => PriceInv /\ Prices!HistoryBalances
  BY PriceStart, PriceBalanceStart
<1>2. PriceInv /\ Prices!HistoryBalances /\ [Prices!Next]_(Prices!priceVars)
        => PriceInv' /\ Prices!HistoryBalances'
  BY PriceInvStep, PriceAccountStep
<1> QED BY <1>1, <1>2, PTL DEF Prices!Spec

\* A late request changes no price but the one its administrator saw
\* (price-admin.ts checkExpected).
THEOREM PriceOthersAlwaysKept ==
  ASSUME Prices!StoredAssumption
  PROVE  Prices!Spec => Prices!OthersKept
<1> DEFINE Spares == \A a \in Staff :
       /\ Prices!At(a, "write") /\ priceJob'[a].step = "record" /\ ~priceOvertaken[a]
       /\ priceJob[a].edit.kind \in Prices!ItemKinds
       => \A l \in PriceLists : \A item \in Prices!RangeOf(priceRows[l]) :
            \/ item \in Prices!RangeOf(priceRows'[l])
            \/ priceJob[a].edit.kind # "add" /\ item.name = priceJob[a].edit.expected
<1>1. Prices!Init => PriceInv
  BY PriceStart
<1>2. PriceInv /\ [Prices!Next]_(Prices!priceVars) => PriceInv'
  BY PriceInvStep
<1>3. PriceInv /\ [Prices!Next]_(Prices!priceVars) => Spares
  BY PriceSparesStep
<1>4. Prices!OthersKept <=> [][Spares]_(Prices!priceVars)
  BY DEF Prices!OthersKept
<1> HIDE DEF Spares
<1> QED BY <1>1, <1>2, <1>3, <1>4, PTL DEF Prices!Spec

\* Whichever component runs, the price lists follow their own specification.
LEMMA PricesRun == Spec => Prices!Spec
<1>1. Init => Prices!Init
  BY DEF Init
<1>2. [Next]_deskVars => [Prices!Next]_(Prices!priceVars)
  BY DEF Next, deskVars, priceState, Prices!priceVars
<1> QED BY <1>1, <1>2, PTL DEF Spec, Prices!Spec, deskVars

\* A name finds one price, the history accounts for what is stored, and a late
\* request changes no other price (price-admin-service.ts, price-admin.ts
\* checkExpected).
THEOREM PricesAlwaysKept == Spec => PricesKept
<1>1. Prices!Spec => []Prices!NamedOnce
  BY PriceNamesAlwaysOnce, DeskAssumption
<1>2. Prices!Spec => []Prices!HistoryBalances
  BY PriceHistoryAlwaysBalances, DeskAssumption
<1>3. Prices!Spec => Prices!OthersKept
  BY PriceOthersAlwaysKept, DeskAssumption
<1> QED BY <1>1, <1>2, <1>3, PricesRun, PTL DEF PricesKept

-----------------------------------------------------------------------------
(* The calendar.                                                            *)
(*                                                                          *)
(* Days come first: their month, their day of the month, their weekday and  *)
(* the weeks between two of them, each as the code counts it and as a       *)
(* reader means it.  CalendarInv says what the loops have found so far;     *)
(* with the lemma that a month's n-th weekday is one the loop looks at, it  *)
(* gives that the days found are the days meant.                            *)
(*                                                                          *)
(* MonthStart is recursive in the months: what it computes is proved of the *)
(* least month that would have another start.                               *)

Months == 1..Len(MonthDays)
NextMonth(m) == Calendar!MonthStart[m] + MonthDays[m]

-----------------------------------------------------------------------------
(* The months of the stretch.                                               *)

LEMMA StretchHasMonths ==
  ASSUME Calendar!CalendarAssumption
  PROVE  /\ Len(MonthDays) \in Nat \ {0} /\ \A m \in Months : MonthDays[m] \in 28..31
         /\ FirstWeekday \in 0..6
  BY DEF Calendar!CalendarAssumption, Months

\* The starts of the months can be worked out one after the other.
LEMMA StartsWorkedOut ==
  ASSUME Calendar!CalendarAssumption
  PROVE  \A m \in Months :
           Calendar!MonthStart[m] = IF m = 1 THEN 1
             ELSE Calendar!MonthStart[m - 1] + MonthDays[m - 1]
<1> DEFINE Fits(f, n) == f = [m \in 1..n |-> IF m = 1 THEN 1 ELSE f[m - 1] + MonthDays[m - 1]]
           N == Len(MonthDays)
           Bad == {n \in 0..N : ~ \E f : Fits(f, n)}
<1>0. N \in Nat
  BY StretchHasMonths
<1>1. \E f : Fits(f, 0)
  <2>1. Fits([m \in 1..0 |-> 0], 0)
    OBVIOUS
  <2> QED BY <2>1
<1>2. ASSUME NEW n \in 0..N, n # 0, NEW f, Fits(f, n - 1)
      PROVE  \E g : Fits(g, n)
  <2> DEFINE g == [m \in 1..n |-> IF m < n THEN f[m] ELSE IF n = 1 THEN 1
               ELSE f[n - 1] + MonthDays[n - 1]]
             h == [m \in 1..n |-> IF m = 1 THEN 1 ELSE g[m - 1] + MonthDays[m - 1]]
  <2>1. ASSUME NEW m \in 1..n  PROVE g[m] = h[m]
    <3>1. CASE m < n
      <4>1. m \in 1..(n - 1) /\ g[m] = f[m] /\ (m # 1 => g[m - 1] = f[m - 1])
        BY <1>0, <1>2, <3>1
      <4>2. f[m] = IF m = 1 THEN 1 ELSE f[m - 1] + MonthDays[m - 1]
        BY <1>2, <4>1
      <4> QED BY <4>1, <4>2
    <3>2. CASE m = n
      <4>1. n # 1 => g[n - 1] = f[n - 1]
        BY <1>0, <1>2
      <4> QED BY <1>0, <1>2, <3>2, <4>1
    <3> QED BY <1>0, <1>2, <3>1, <3>2
  <2>2. g = h
    BY <2>1
  <2> QED BY <2>2
<1>3. Bad = {}
  <2> SUFFICES ASSUME Bad # {}  PROVE FALSE
    OBVIOUS
  <2>1. Bad \in SUBSET Nat
    BY <1>0
  <2> HIDE DEF Bad
  <2>2. PICK n \in Bad : \A k \in Bad : n <= k
    BY <2>1, LeastOf
  <2> USE DEF Bad
  <2> HIDE DEF Fits
  <2>3. n \in 0..N /\ n # 0 /\ ~ \E f : Fits(f, n)
    BY <2>2, <1>1
  <2>4. n - 1 \in 0..N /\ ~(n <= n - 1)
    BY <1>0, <2>3
  <2>5. PICK f : Fits(f, n - 1)
    BY <2>2, <2>4
  <2> QED BY <1>2, <2>3, <2>5
<1> HIDE DEF Bad
<1>4. \E f : Fits(f, N)
  BY <1>0, <1>3 DEF Bad
<1>5. Calendar!MonthStart = CHOOSE f : Fits(f, N)
  BY DEF Calendar!MonthStart
<1> HIDE DEF Fits
<1>6. Fits(Calendar!MonthStart, N)
  BY <1>4, <1>5
<1> QED BY <1>6, <1>0 DEF Fits, Months

LEMMA StartsAscend ==
  ASSUME Calendar!CalendarAssumption
  PROVE  /\ Calendar!MonthStart[1] = 1
         /\ \A m \in Months : Calendar!MonthStart[m] \in Nat /\ Calendar!MonthStart[m] >= 1
         /\ \A m \in Months : m + 1 \in Months => Calendar!MonthStart[m + 1] = NextMonth(m)
         /\ \A m, n \in Months : m < n => NextMonth(m) <= Calendar!MonthStart[n]
<1>0. /\ Len(MonthDays) \in Nat \ {0} /\ \A m \in Months : MonthDays[m] \in 28..31
      /\ \A m \in Months : Calendar!MonthStart[m] = IF m = 1 THEN 1
           ELSE Calendar!MonthStart[m - 1] + MonthDays[m - 1]
      /\ \A m \in Months : m \in Nat /\ m >= 1 /\ m <= Len(MonthDays)
      /\ \A m \in Nat : m >= 1 /\ m <= Len(MonthDays) => m \in Months
  BY StretchHasMonths, StartsWorkedOut DEF Months
<1>1. Calendar!MonthStart[1] = 1
  BY <1>0
<1>2. \A m \in Months : m # 1 => m - 1 \in Months /\ Calendar!MonthStart[m] = NextMonth(m - 1)
  BY <1>0 DEF NextMonth
<1> DEFINE Bad == {m \in Months : ~(Calendar!MonthStart[m] \in Nat /\ Calendar!MonthStart[m] >= 1)}
<1>3. Bad = {}
  <2> SUFFICES ASSUME Bad # {}  PROVE FALSE
    OBVIOUS
  <2>1. Bad \in SUBSET Nat
    BY <1>0
  <2> HIDE DEF Bad
  <2>2. PICK m \in Bad : \A k \in Bad : m <= k
    BY <2>1, LeastOf
  <2> USE DEF Bad
  <2>3. m \in Months /\ m # 1
    BY <2>2, <1>1
  <2>4. m - 1 \in Months /\ ~(m <= m - 1)
    BY <1>0, <2>3
  <2>5. Calendar!MonthStart[m - 1] \in Nat /\ Calendar!MonthStart[m - 1] >= 1
          /\ MonthDays[m - 1] \in 28..31
    BY <2>2, <2>4, <1>0
  <2>6. Calendar!MonthStart[m] \in Nat /\ Calendar!MonthStart[m] >= 1
    BY <1>0, <2>3, <2>5
  <2> QED BY <2>2, <2>6
<1>4. \A m \in Months : Calendar!MonthStart[m] \in Nat /\ Calendar!MonthStart[m] >= 1
  BY <1>3
<1>5. \A m \in Months : m + 1 \in Months => Calendar!MonthStart[m + 1] = NextMonth(m)
  <2> TAKE m \in Months
  <2> HAVE m + 1 \in Months
  <2> DEFINE k == m + 1
  <2>1. k \in Months /\ k # 1 /\ k - 1 = m
    BY <1>0
  <2> HIDE DEF k
  <2>2. Calendar!MonthStart[k] = NextMonth(m)
    BY <1>2, <2>1 DEF NextMonth
  <2> QED BY <2>2 DEF k
<1> HIDE DEF Bad
<1>6. ASSUME NEW m \in Months  PROVE \A n \in Months : m < n
               => NextMonth(m) <= Calendar!MonthStart[n]
  <2> DEFINE Worse == {n \in Months : m < n /\ ~(NextMonth(m) <= Calendar!MonthStart[n])}
  <2> SUFFICES ASSUME Worse # {}  PROVE FALSE
    OBVIOUS
  <2>1. Worse \in SUBSET Nat
    BY <1>0
  <2> HIDE DEF Worse
  <2>2. PICK n \in Worse : \A k \in Worse : n <= k
    BY <2>1, LeastOf
  <2> USE DEF Worse
  <2>3. n \in Months /\ m < n /\ ~(NextMonth(m) <= Calendar!MonthStart[n])
    BY <2>2
  <2>4. n - 1 \in Months /\ ~(n <= n - 1) /\ n # 1 /\ (m = n - 1 \/ m < n - 1)
    BY <1>0, <2>3
  <2>5. Calendar!MonthStart[n] = NextMonth(n - 1)
    BY <1>2, <2>4
  <2>6. NextMonth(m) \in Nat /\ NextMonth(n - 1) \in Nat
          /\ Calendar!MonthStart[n - 1] <= NextMonth(n - 1)
    <3>1. /\ MonthDays[m] \in 28..31 /\ MonthDays[n - 1] \in 28..31
          /\ Calendar!MonthStart[m] \in Nat /\ Calendar!MonthStart[n - 1] \in Nat
      BY <1>0, <1>4, <2>4
    <3> QED BY <3>1 DEF NextMonth
  <2>7. CASE m = n - 1
    BY <2>3, <2>5, <2>6, <2>7
  <2>8. CASE m < n - 1
    <3>1. NextMonth(m) <= Calendar!MonthStart[n - 1]
      BY <2>2, <2>4, <2>8
    <3> QED BY <1>4, <2>3, <2>4, <2>5, <2>6, <3>1
  <2> QED BY <2>4, <2>7, <2>8
<1> QED BY <1>1, <1>4, <1>5, <1>6

\* Every day of the stretch lies in one month.
LEMMA MonthOfDay ==
  ASSUME Calendar!CalendarAssumption, NEW d \in Calendar!Days
  PROVE  /\ Calendar!MonthOf(d) \in Months
         /\ Calendar!MonthStart[Calendar!MonthOf(d)] <= d /\ d < NextMonth(Calendar!MonthOf(d))
         /\ \A m \in Months : Calendar!MonthStart[m] <= d /\ d < NextMonth(m)
              => m = Calendar!MonthOf(d)
<1>0. /\ Len(MonthDays) \in Months /\ 1 \in Months /\ Months \subseteq Nat
      /\ \A m \in Months : m # 1 => m - 1 \in Months /\ m - 1 + 1 = m
      /\ \A m, n \in Months : m < n \/ m = n \/ n < m
      /\ \A m \in Months : ~(m <= m - 1)
  BY StretchHasMonths DEF Months
<1>1. /\ Calendar!MonthStart[1] = 1
      /\ \A m \in Months : Calendar!MonthStart[m] \in Nat /\ NextMonth(m) \in Nat
      /\ \A m \in Months : m # 1 => Calendar!MonthStart[m] = NextMonth(m - 1)
      /\ \A m, n \in Months : m < n => NextMonth(m) <= Calendar!MonthStart[n]
  <2>1. ASSUME NEW m \in Months  PROVE Calendar!MonthStart[m] \in Nat /\ NextMonth(m) \in Nat
    <3>1. Calendar!MonthStart[m] \in Nat /\ MonthDays[m] \in 28..31
      BY StartsAscend, StretchHasMonths
    <3> QED BY <3>1 DEF NextMonth
  <2> QED BY <1>0, <2>1, StartsAscend
<1>2. d \in Nat /\ d >= 1 /\ d < NextMonth(Len(MonthDays))
  <2>1. Calendar!MonthStart[Len(MonthDays)] \in Nat /\ MonthDays[Len(MonthDays)] \in 28..31
    BY <1>0, <1>1, StretchHasMonths
  <2> QED BY <2>1 DEF Calendar!Days, NextMonth
<1> DEFINE After == {m \in Months : d < NextMonth(m)}
<1>3. After \in SUBSET Nat /\ After # {}
  BY <1>0, <1>2
<1>4. PICK m \in After : \A k \in After : m <= k
  BY <1>3, LeastOf
<1>5. m \in Months /\ d < NextMonth(m)
  BY <1>4
<1>6. Calendar!MonthStart[m] <= d
  <2>1. CASE m = 1
    BY <1>1, <1>2, <2>1
  <2>2. CASE m # 1
    <3>1. m - 1 \in Months /\ ~(d < NextMonth(m - 1))
      BY <1>0, <1>4, <1>5, <2>2
    <3>2. NextMonth(m - 1) \in Nat /\ Calendar!MonthStart[m] = NextMonth(m - 1)
      BY <1>1, <1>5, <2>2, <3>1
    <3> QED BY <1>2, <3>1, <3>2
  <2> QED BY <2>1, <2>2
<1> HIDE DEF After
<1>7. \A k, l \in Months : Calendar!MonthStart[k] <= d /\ d < NextMonth(k)
        /\ Calendar!MonthStart[l] <= d
                             /\ d < NextMonth(l) => k = l
  <2>1. ASSUME NEW k \in Months, NEW l \in Months, k < l, d < NextMonth(k),
               Calendar!MonthStart[l] <= d
        PROVE  FALSE
    <3>1. NextMonth(k) <= Calendar!MonthStart[l] /\ NextMonth(k) \in Nat
            /\ Calendar!MonthStart[l] \in Nat
      BY <1>1, <2>1
    <3> QED BY <1>2, <2>1, <3>1
  <2> QED BY <1>0, <2>1
<1>8. Calendar!MonthOf(d) \in Months /\ Calendar!MonthStart[Calendar!MonthOf(d)] <= d
        /\ d < NextMonth(Calendar!MonthOf(d))
  BY <1>5, <1>6 DEF Calendar!MonthOf, Months, NextMonth
<1> QED BY <1>7, <1>8

\* Later days lie in later months.
LEMMA MonthsFollowDays ==
  ASSUME Calendar!CalendarAssumption, NEW d \in Calendar!Days, NEW e \in Calendar!Days, d <= e
  PROVE  Calendar!MonthOf(d) <= Calendar!MonthOf(e)
<1>0. /\ d \in Nat /\ e \in Nat
      /\ Calendar!MonthOf(d) \in Months /\ Calendar!MonthOf(e) \in Months
      /\ Calendar!MonthOf(d) \in Nat /\ Calendar!MonthOf(e) \in Nat
      /\ Calendar!MonthStart[Calendar!MonthOf(d)] <= d /\ e < NextMonth(Calendar!MonthOf(e))
  <2>1. d \in Nat /\ e \in Nat /\ Months \subseteq Nat
    BY DEF Calendar!Days, Months
  <2> QED BY <2>1, MonthOfDay
<1>1. SUFFICES ASSUME Calendar!MonthOf(e) < Calendar!MonthOf(d)  PROVE FALSE
  BY <1>0
<1>2. /\ NextMonth(Calendar!MonthOf(e)) <= Calendar!MonthStart[Calendar!MonthOf(d)]
      /\ Calendar!MonthStart[Calendar!MonthOf(d)] \in Nat
           /\ Calendar!MonthStart[Calendar!MonthOf(e)] \in Nat
      /\ MonthDays[Calendar!MonthOf(e)] \in 28..31
  BY <1>0, <1>1, StartsAscend, StretchHasMonths
<1> QED BY <1>0, <1>2 DEF NextMonth

-----------------------------------------------------------------------------
(* The weekdays.                                                            *)

\* What % and \div say of numbers that are seven apart.
LEMMA Sevens ==
  ASSUME NEW d \in Int
  PROVE  /\ d % 7 \in 0..6 /\ d \div 7 \in Int /\ d = 7 * (d \div 7) + (d % 7)
         /\ \A e \in Int : e % 7 = d % 7 <=> \E i \in Int : e = d + 7 * i
         /\ \A i \in Int : (7 * i) \div 7 = i
<1>1. \A k \in Int : k % 7 \in 0..6 /\ k \div 7 \in Int /\ k = 7 * (k \div 7) + (k % 7)
  OBVIOUS
<1>2. \A i \in Int : (7 * i) \div 7 = i
  OBVIOUS
<1>3. ASSUME NEW e \in Int, e % 7 = d % 7  PROVE \E i \in Int : e = d + 7 * i
  <2>1. e = d + 7 * ((e \div 7) - (d \div 7)) /\ (e \div 7) - (d \div 7) \in Int
    BY <1>1, <1>3
  <2> QED BY <2>1
<1>4. \A i \in Int : (d + 7 * i) % 7 = d % 7
  OBVIOUS
<1> QED BY <1>1, <1>2, <1>3, <1>4

LEMMA DaysOfWeek ==
  ASSUME Calendar!CalendarAssumption, NEW d \in Int
  PROVE  /\ Calendar!getDay(d) \in 0..6
         /\ \A e \in Int : Calendar!getDay(e) = Calendar!getDay(d) <=> \E i \in Int : e = d + 7 * i
         /\ Calendar!StartOfWeek(d) \in Int /\ d - 7 < Calendar!StartOfWeek(d)
              /\ Calendar!StartOfWeek(d) <= d
         /\ Calendar!getDay(Calendar!StartOfWeek(d)) = 1
<1>1. FirstWeekday \in 0..6
  BY StretchHasMonths
<1>2. Calendar!getDay(d) \in 0..6
  BY <1>1 DEF Calendar!getDay
<1>3. ASSUME NEW e \in Int  PROVE Calendar!getDay(e) = Calendar!getDay(d)
               <=> \E i \in Int : e = d + 7 * i
  <2> DEFINE p == e - 1 + FirstWeekday
             q == d - 1 + FirstWeekday
  <2>1. p \in Int /\ q \in Int /\ \A i \in Int : e = d + 7 * i <=> p = q + 7 * i
    BY <1>1
  <2>2. Calendar!getDay(e) = p % 7 /\ Calendar!getDay(d) = q % 7
    BY DEF Calendar!getDay
  <2> HIDE DEF p, q
  <2>3. p % 7 = q % 7 <=> \E i \in Int : p = q + 7 * i
    BY <2>1, Sevens
  <2> QED BY <2>1, <2>2, <2>3
<1>4. Calendar!StartOfWeek(d) \in Int /\ d - 7 < Calendar!StartOfWeek(d)
        /\ Calendar!StartOfWeek(d) <= d
  BY <1>2 DEF Calendar!StartOfWeek
<1>5. Calendar!getDay(Calendar!StartOfWeek(d)) = 1
  <2> DEFINE q == d - 1 + FirstWeekday
             g == q % 7
  <2>1. q \in Int /\ g \in 0..6 /\ q = 7 * (q \div 7) + g /\ q \div 7 \in Int
    BY <1>1
  <2>2. Calendar!getDay(Calendar!StartOfWeek(d)) = (d - ((g + 6) % 7) - 1 + FirstWeekday) % 7
    BY DEF Calendar!getDay, Calendar!StartOfWeek
  <2>3. d - ((g + 6) % 7) - 1 + FirstWeekday = q - ((g + 6) % 7)
    BY <1>1, <2>1
  <2> HIDE DEF g, q
  <2>4. CASE g = 0
    BY <2>1, <2>2, <2>3, <2>4
  <2>5. CASE g # 0
    <3>1. (g + 6) % 7 = g - 1
      BY <2>1, <2>5
    <3> QED BY <2>1, <2>2, <2>3, <3>1
  <2> QED BY <2>4, <2>5
<1> QED BY <1>2, <1>3, <1>4, <1>5

\* The calendar counts as this module does.
LEMMA DaysCounted == \A S : Calendar!Cardinality(S) = Cardinality(S)
BY DEF Calendar!Cardinality, Cardinality

\* A week begun in summer time, counted from one that was not.
Short(a, d) == Calendar!StartOfWeek(d) \in SummerTime /\ Calendar!StartOfWeek(a) \notin SummerTime

\* The Mondays passed since a day are the weeks between, less one for an hour that
\* was lost on the way.
LEMMA WeeksAreMondays ==
  ASSUME Calendar!CalendarAssumption, NEW a \in Int, NEW d \in Int, a <= d
  PROVE  /\ Calendar!MondaysSince(a, d) \in Nat
         /\ Calendar!weekIndex(d, a)
              = Calendar!MondaysSince(a, d) - (IF Short(a, d) THEN 1 ELSE 0)
<1> DEFINE s == Calendar!StartOfWeek(a)
           e == Calendar!StartOfWeek(d)
           n == (e - s) \div 7
           Mondays == {m \in a + 1..d : Calendar!getDay(m) = 1}
           f == [i \in 1..n |-> s + 7 * i]
<1>1. /\ s \in Int /\ a - 7 < s /\ s <= a /\ Calendar!getDay(s) = 1
      /\ e \in Int /\ d - 7 < e /\ e <= d /\ Calendar!getDay(e) = 1
      /\ \A m \in Int : Calendar!getDay(m) = Calendar!getDay(s) <=> \E i \in Int : m = s + 7 * i
  BY DaysOfWeek
<1>2. n = (e - s) \div 7
  OBVIOUS
<1>10. Calendar!weekIndex(d, a) = ((24 * e - (IF e \in SummerTime THEN 1 ELSE 0))
                                   - (24 * s - (IF s \in SummerTime THEN 1 ELSE 0))) \div (7 * 24)
  BY DEF Calendar!weekIndex, Calendar!Midnight
<1>11. Short(a, d) <=> e \in SummerTime /\ s \notin SummerTime
  BY DEF Short
<1> HIDE DEF s, e, n
<1>3. PICK k \in Int : e = s + 7 * k
  BY <1>1
<1>4. n = k /\ n \in Nat
  BY <1>1, <1>2, <1>3
<1>5. \A i \in 1..n : f[i] \in Mondays
  BY <1>1, <1>3, <1>4
<1>6. \A i, j \in 1..n : f[i] = f[j] => i = j
  BY <1>1, <1>4
<1>7. \A m \in Mondays : \E i \in 1..n : f[i] = m
  <2> TAKE m \in Mondays
  <2>1. m \in Int /\ a < m /\ m <= d /\ Calendar!getDay(m) = 1
    OBVIOUS
  <2>2. PICK i \in Int : m = s + 7 * i
    BY <1>1, <2>1
  <2>3. i \in 1..n
    BY <1>1, <1>3, <1>4, <2>1, <2>2
  <2> QED BY <2>2, <2>3
<1>8. f \in Bijection(1..n, Mondays)
  BY <1>5, <1>6, <1>7 DEF Bijection, Injection, Surjection, IsInjective
<1>9. Cardinality(Mondays) = n
  BY <1>4, <1>8, FS_CountingElements DEF ExistsBijection
<1>12. Calendar!MondaysSince(a, d) = n
  BY <1>9, DaysCounted DEF Calendar!MondaysSince
<1>13. Calendar!weekIndex(d, a) = n - (IF Short(a, d) THEN 1 ELSE 0)
  <2> DEFINE x == IF e \in SummerTime THEN 1 ELSE 0
             y == IF s \in SummerTime THEN 1 ELSE 0
  <2>1. x \in {0, 1} /\ y \in {0, 1} /\ (Short(a, d) <=> x = 1 /\ y = 0)
    BY <1>11
  <2>2. Calendar!weekIndex(d, a) = ((24 * e - x) - (24 * s - y)) \div (7 * 24)
    BY <1>10
  <2> HIDE DEF x, y
  <2>3. (24 * e - x) - (24 * s - y) = 168 * k + (y - x)
    BY <1>1, <1>3, <2>1
  <2>4. /\ (168 * k + 0) \div 168 = k /\ (168 * k + 1) \div 168 = k
        /\ (168 * k + (-1)) \div 168 = k - 1
    OBVIOUS
  <2>5. CASE x = 1 /\ y = 0
    BY <1>4, <2>1, <2>2, <2>3, <2>4, <2>5
  <2>6. CASE x = y
    BY <1>4, <2>1, <2>2, <2>3, <2>4, <2>6
  <2>7. CASE x = 0 /\ y = 1
    BY <1>4, <2>1, <2>2, <2>3, <2>4, <2>7
  <2> QED BY <2>1, <2>5, <2>6, <2>7
<1> QED BY <1>4, <1>12, <1>13

\* The days of a day's weekday, from the first of its month on.
LEMMA SameWeekdayCounted ==
  ASSUME Calendar!CalendarAssumption, NEW d \in Calendar!Days
  PROVE  Cardinality(Calendar!SameWeekday(d))
           = (d - Calendar!MonthStart[Calendar!MonthOf(d)]) \div 7 + 1
<1> DEFINE s == Calendar!MonthStart[Calendar!MonthOf(d)]
           k == (d - s) \div 7
           n == k + 1
           f == [i \in 1..n |-> d - 7 * (i - 1)]
<1>1. s \in Nat /\ s <= d /\ d \in Int /\ d \in Nat
  <2>1. d \in Int /\ d \in Nat
    BY DEF Calendar!Days
  <2> QED BY <2>1, MonthOfDay, StartsAscend
<1>2. Calendar!SameWeekday(d) = {e \in s..d : Calendar!getDay(e) = Calendar!getDay(d)}
  BY DEF Calendar!SameWeekday
<1> HIDE DEF s
<1>3. \A e \in Int : Calendar!getDay(e) = Calendar!getDay(d) <=> \E i \in Int : e = d + 7 * i
  BY <1>1, DaysOfWeek
<1>4. k \in Nat /\ 7 * k <= d - s /\ d - s < 7 * k + 7
  BY <1>1
<1> HIDE DEF k
<1>5. ASSUME NEW i \in 1..n  PROVE f[i] \in Calendar!SameWeekday(d)
  <2>1. f[i] \in Int /\ f[i] = d + 7 * (1 - i) /\ 1 - i \in Int
    BY <1>1, <1>4
  <2>2. Calendar!getDay(f[i]) = Calendar!getDay(d)
    BY <1>3, <2>1
  <2>3. f[i] \in s..d
    BY <1>1, <1>4
  <2> QED BY <1>2, <2>2, <2>3
<1>6. \A i, j \in 1..n : f[i] = f[j] => i = j
  BY <1>1, <1>4
<1>7. \A e \in Calendar!SameWeekday(d) : \E i \in 1..n : f[i] = e
  <2> TAKE e \in Calendar!SameWeekday(d)
  <2>1. e \in Int /\ s <= e /\ e <= d /\ Calendar!getDay(e) = Calendar!getDay(d)
    BY <1>1, <1>2
  <2>2. PICK i \in Int : e = d + 7 * i
    BY <1>3, <2>1
  <2>3. 1 - i \in 1..n /\ d - 7 * (1 - i - 1) = e
    BY <1>1, <1>4, <2>1, <2>2
  <2> QED BY <2>3
<1>8. f \in Bijection(1..n, Calendar!SameWeekday(d))
  BY <1>5, <1>6, <1>7 DEF Bijection, Injection, Surjection, IsInjective
<1>9. Cardinality(Calendar!SameWeekday(d)) = n
  BY <1>4, <1>8, FS_CountingElements DEF ExistsBijection
<1> QED BY <1>9 DEF k, s

\* The first such weekday of a month is within its first seven days.
FirstMatch(m, weekday) == 1 + ((7 + weekday - Calendar!getDay(Calendar!MonthStart[m])) % 7)

LEMMA FirstMatchFits ==
  ASSUME Calendar!CalendarAssumption, NEW m \in Months, NEW wd \in 0..6
  PROVE  /\ FirstMatch(m, wd) \in 1..7
         /\ \A e \in Int : Calendar!getDay(e) = wd <=>
              \E i \in Int : e = Calendar!MonthStart[m] + FirstMatch(m, wd) - 1 + 7 * i
<1> DEFINE s == Calendar!MonthStart[m]
           g == Calendar!getDay(s)
           k == (7 + wd - g) % 7
<1>1. s \in Int /\ g \in 0..6
  <2>1. s \in Int
    BY StartsAscend
  <2> QED BY <2>1, DaysOfWeek
<1>2. g = (s - 1 + FirstWeekday) % 7 /\ FirstWeekday \in 0..6
  BY StretchHasMonths DEF Calendar!getDay
<1>3. FirstMatch(m, wd) = 1 + k
  BY DEF FirstMatch
<1> HIDE DEF g, s
<1>4. k \in 0..6 /\ (k = wd - g \/ k = 7 + wd - g)
  BY <1>1
<1> HIDE DEF k
<1>5. Calendar!getDay(s + k) = wd
  <2>1. Calendar!getDay(s + k) = (s + k - 1 + FirstWeekday) % 7
    BY <1>1, <1>2, <1>4 DEF Calendar!getDay
  <2> DEFINE q == s - 1 + FirstWeekday
  <2>2. q \in Int /\ s + k - 1 + FirstWeekday = q + k
    BY <1>1, <1>2, <1>4
  <2>3. g = q % 7
    BY <1>2
  <2> HIDE DEF q
  <2>4. q = 7 * (q \div 7) + g /\ q \div 7 \in Int
    BY <2>2, <2>3
  <2>5. CASE k = wd - g
    BY <1>1, <1>4, <2>1, <2>2, <2>4, <2>5
  <2>6. CASE k = 7 + wd - g
    BY <1>1, <1>4, <2>1, <2>2, <2>4, <2>6
  <2> QED BY <1>4, <2>5, <2>6
<1>6. s + k \in Int /\ s + FirstMatch(m, wd) - 1 = s + k
  BY <1>1, <1>3, <1>4
<1>7. \A e \in Int : Calendar!getDay(e) = Calendar!getDay(s + k)
        <=> \E i \in Int : e = s + k + 7 * i
  BY <1>6, DaysOfWeek
<1> QED BY <1>3, <1>4, <1>5, <1>6, <1>7 DEF s

\* The n-th or last such weekday of a month is the day the calendar says.
LEMMA NthWeekday ==
  ASSUME Calendar!CalendarAssumption, NEW m \in Months, NEW wd \in 0..6, NEW d \in Calendar!Days,
         NEW which \in {"first", "second", "third", "fourth", "last"}
  PROVE  Calendar!nthWeekdayOfMonth(m, wd, which) = d <=>
           /\ Calendar!MonthOf(d) = m /\ Calendar!getDay(d) = wd
           /\ IF which = "last" THEN d + 7 >= NextMonth(m)
              ELSE \E n \in DOMAIN Calendar!WeeksOfMonth :
                     Calendar!WeeksOfMonth[n] = which /\ Cardinality(Calendar!SameWeekday(d)) = n
<1> DEFINE s == Calendar!MonthStart[m]
           l == MonthDays[m]
           first == FirstMatch(m, wd)
           nth == CHOOSE n \in 1..4 : Calendar!WeeksOfMonth[n] = which
           day == IF which = "last" THEN first + 7 * ((l - first) \div 7)
                  ELSE first + 7 * (nth - 1)
           last == d + 7 >= s + l
           counted == \E n \in DOMAIN Calendar!WeeksOfMonth :
                        Calendar!WeeksOfMonth[n] = which /\ Cardinality(Calendar!SameWeekday(d)) = n
<1>1. Calendar!nthWeekdayOfMonth(m, wd, which) = IF day > l THEN Nothing ELSE s + day - 1
  BY DEF Calendar!nthWeekdayOfMonth, FirstMatch
<1>2. /\ s \in Nat /\ l \in 28..31 /\ first \in 1..7 /\ d \in Int /\ Nothing \notin Int
      /\ NextMonth(m) = s + l
  BY StartsAscend, StretchHasMonths, FirstMatchFits DEF Calendar!Days, Calendar!CalendarAssumption,
     NextMonth
<1>3. Calendar!getDay(d) = wd <=> \E i \in Int : d = s + first - 1 + 7 * i
  BY <1>2, FirstMatchFits
<1>4. Calendar!MonthOf(d) = m <=> s <= d /\ d < s + l
  BY <1>2, MonthOfDay
<1>5. Calendar!MonthOf(d) = m => Cardinality(Calendar!SameWeekday(d)) = (d - s) \div 7 + 1
  BY SameWeekdayCounted
<1>6. which # "last" => nth \in 1..4 /\ Calendar!WeeksOfMonth[nth] = which
  <2>1. Calendar!WeeksOfMonth[1] = "first" /\ Calendar!WeeksOfMonth[2] = "second"
          /\ Calendar!WeeksOfMonth[3] = "third"
        /\ Calendar!WeeksOfMonth[4] = "fourth"
    BY DEF Calendar!WeeksOfMonth
  <2>2. which # "last" => \E n \in 1..4 : Calendar!WeeksOfMonth[n] = which
    BY <2>1
  <2> QED BY <2>2
<1>7. counted <=> \E n \in 1..4 : Calendar!WeeksOfMonth[n] = which
        /\ Cardinality(Calendar!SameWeekday(d)) = n
  BY DEF Calendar!WeeksOfMonth
<1>8. \A n, k \in 1..4 : Calendar!WeeksOfMonth[n] = Calendar!WeeksOfMonth[k] => n = k
  <2>1. Calendar!WeeksOfMonth[1] = "first" /\ Calendar!WeeksOfMonth[2] = "second"
          /\ Calendar!WeeksOfMonth[3] = "third"
        /\ Calendar!WeeksOfMonth[4] = "fourth"
    BY DEF Calendar!WeeksOfMonth
  <2>2. \A n \in 1..4 : n = 1 \/ n = 2 \/ n = 3 \/ n = 4
    OBVIOUS
  <2> QED BY <2>1, <2>2
<1> HIDE DEF s, l, first, nth, counted
<1>9. CASE which = "last"
  <2>1. day = first + 7 * ((l - first) \div 7)
    BY <1>9
  <2> HIDE DEF day
  <2>2. day \in 1..l /\ l < day + 7
    BY <1>2, <2>1
  <2>3. Calendar!nthWeekdayOfMonth(m, wd, which) = s + day - 1
    BY <1>1, <1>2, <2>2
  <2>4. ASSUME d = s + day - 1  PROVE Calendar!MonthOf(d) = m /\ Calendar!getDay(d) = wd /\ last
    <3>1. d = s + first - 1 + 7 * ((l - first) \div 7) /\ (l - first) \div 7 \in Int
      BY <1>2, <2>1, <2>4
    <3>2. s <= d /\ d < s + l /\ last
      BY <1>2, <2>2, <2>4
    <3> QED BY <1>3, <1>4, <3>1, <3>2
  <2>5. ASSUME Calendar!MonthOf(d) = m, Calendar!getDay(d) = wd, last  PROVE d = s + day - 1
    <3>1. PICK i \in Int : d = s + first - 1 + 7 * i
      BY <1>3, <2>5
    <3>2. s <= d /\ d < s + l /\ d + 7 >= s + l
      BY <1>4, <2>5
    <3>3. i = (l - first) \div 7
      BY <1>2, <3>1, <3>2
    <3> QED BY <1>2, <2>1, <3>1, <3>3
  <2>6. NextMonth(m) = s + l
    BY <1>2
  <2> QED BY <1>9, <2>3, <2>4, <2>5, <2>6
<1>10. CASE which # "last"
  <2>1. day = first + 7 * (nth - 1) /\ nth \in 1..4
    BY <1>6, <1>10
  <2> HIDE DEF day
  <2>2. Calendar!nthWeekdayOfMonth(m, wd, which) = d <=> day <= l /\ d = s + day - 1
    BY <1>1, <1>2, <2>1
  <2>3. counted <=> Cardinality(Calendar!SameWeekday(d)) = nth
    BY <1>6, <1>7, <1>8, <1>10
  <2>4. ASSUME day <= l, d = s + day - 1
        PROVE  Calendar!MonthOf(d) = m /\ Calendar!getDay(d) = wd /\ counted
    <3>1. d = s + first - 1 + 7 * (nth - 1) /\ nth - 1 \in Int
      BY <1>2, <2>1, <2>4
    <3>2. s <= d /\ d < s + l
      BY <1>2, <2>1, <2>4
    <3>3. (d - s) \div 7 = nth - 1
      BY <1>2, <2>1, <3>1
    <3>4. Calendar!MonthOf(d) = m /\ Calendar!getDay(d) = wd
      BY <1>3, <1>4, <3>1, <3>2
    <3>5. Cardinality(Calendar!SameWeekday(d)) = nth
      BY <1>5, <2>1, <3>3, <3>4
    <3> QED BY <2>3, <3>4, <3>5
  <2>5. ASSUME Calendar!MonthOf(d) = m, Calendar!getDay(d) = wd, counted
      PROVE  day <= l /\ d = s + day - 1
    <3>1. PICK i \in Int : d = s + first - 1 + 7 * i
      BY <1>3, <2>5
    <3>2. s <= d /\ d < s + l
      BY <1>4, <2>5
    <3>3. (d - s) \div 7 + 1 = nth
      BY <1>5, <2>3, <2>5
    <3>4. i = nth - 1
      BY <1>2, <2>1, <3>1, <3>2, <3>3
    <3> QED BY <1>2, <2>1, <3>1, <3>2, <3>4
  <2> QED BY <1>10, <2>2, <2>4, <2>5 DEF counted
<1> QED BY <1>9, <1>10

-----------------------------------------------------------------------------
(* What the loops look at.                                                  *)

LEMMA RuleFields ==
  ASSUME Calendar!CalendarAssumption, calendarRule \in CalendarRules
  PROVE  /\ calendarRule.freq \in Calendar!Freqs /\ calendarRule.days \in SUBSET (0..6)
         /\ calendarRule.week \in {"first", "second", "third", "fourth", "last"}
         /\ calendarRule.single \in Calendar!Days \union {Nothing}
              /\ calendarRule.last \in Calendar!Days \union {Nothing}
         /\ calendarRule.seasonStart \in Calendar!Days \union {Nothing}
              /\ calendarRule.seasonEnd \in Calendar!Days \union {Nothing}
         /\ calendarRule.exceptions \in
              Seq([date : Calendar!Days, kind : Calendar!Kinds,
                newDate : Calendar!Days \union {Nothing}])
              /\ calendarRule.blackout \in SUBSET Calendar!Days
         /\ calendarRule.start \in Nat \union {Nothing} /\ calendarRule.end \in Nat \union {Nothing}
         /\ calendarRule.nextDay \in BOOLEAN
         /\ calendarRule.newStart \in Nat \union {Nothing}
              /\ calendarRule.newEnd \in Nat \union {Nothing}
  BY DEF Calendar!CalendarAssumption, Calendar!Rule

\* The window and the season, and what of the window the season leaves.
LEMMA Borders ==
  ASSUME Calendar!CalendarAssumption, calendarRule \in CalendarRules,
         <<calendarFrom, calendarTo>> \in CalendarWindows
  PROVE  /\ calendarFrom \in Calendar!Days /\ calendarTo \in Calendar!Days
              /\ Calendar!Days \subseteq Nat
         /\ Calendar!lo \in Calendar!Days /\ Calendar!hi \in Calendar!Days
         /\ Calendar!Anchor \in Calendar!Days /\ Calendar!Anchor <= Calendar!lo
         /\ \A d \in Int : d \in Calendar!lo..Calendar!hi <=> d \in calendarFrom..calendarTo
              /\ Calendar!InSeason(d)
         /\ calendarFrom..calendarTo \subseteq Calendar!Days
<1>1. calendarFrom \in Calendar!Days /\ calendarTo \in Calendar!Days
  BY DEF Calendar!CalendarAssumption
<1>2. Calendar!Days \subseteq Nat
  BY DEF Calendar!Days
<1>3. Nothing \notin Int
  BY DEF Calendar!CalendarAssumption
<1>4. Calendar!SeasonStart \in Calendar!Days /\ Calendar!SeasonEnd \in Calendar!Days
  BY <1>1, RuleFields DEF Calendar!SeasonStart, Calendar!SeasonEnd
<1>5. Calendar!lo \in Calendar!Days /\ Calendar!hi \in Calendar!Days /\ Calendar!lo >= calendarFrom
        /\ Calendar!lo >= Calendar!SeasonStart /\ Calendar!hi <= calendarTo
             /\ Calendar!hi <= Calendar!SeasonEnd
      /\ (Calendar!lo = calendarFrom \/ Calendar!lo = Calendar!SeasonStart)
           /\ (Calendar!hi = calendarTo \/ Calendar!hi = Calendar!SeasonEnd)
  BY <1>1, <1>2, <1>4 DEF Calendar!lo, Calendar!hi
<1>6. Calendar!Anchor \in Calendar!Days /\ Calendar!Anchor <= Calendar!lo
  BY <1>2, <1>4, <1>5, RuleFields DEF Calendar!Anchor, Calendar!SeasonStart
<1>7. \A d \in Int : d \in Calendar!lo..Calendar!hi <=> d \in calendarFrom..calendarTo
        /\ Calendar!InSeason(d)
  <2>1. /\ calendarFrom \in Nat /\ calendarTo \in Nat /\ Calendar!lo \in Nat /\ Calendar!hi \in Nat
        /\ Calendar!SeasonStart \in Nat /\ Calendar!SeasonEnd \in Nat
    BY <1>1, <1>2, <1>4, <1>5
  <2>2. ASSUME NEW d \in Int
        PROVE  Calendar!InSeason(d) => (calendarFrom <= d => Calendar!SeasonStart <= d)
                 /\ (d <= calendarTo => d <= Calendar!SeasonEnd)
    BY DEF Calendar!InSeason, Calendar!SeasonStart, Calendar!SeasonEnd
  <2>3. ASSUME NEW d \in Int, Calendar!SeasonStart <= d, d <= Calendar!SeasonEnd
      PROVE  Calendar!InSeason(d)
    BY <2>3 DEF Calendar!InSeason, Calendar!SeasonStart, Calendar!SeasonEnd
  <2>4. ASSUME NEW d \in Int
      PROVE  d \in Calendar!lo..Calendar!hi
               <=> d \in calendarFrom..calendarTo /\ Calendar!InSeason(d)
    <3>1. d \in Calendar!lo..Calendar!hi => calendarFrom <= d /\ d <= calendarTo
            /\ Calendar!SeasonStart <= d /\ d <= Calendar!SeasonEnd
      BY <1>5, <2>1
    <3>2. calendarFrom <= d /\ d <= calendarTo /\ Calendar!SeasonStart <= d
            /\ d <= Calendar!SeasonEnd
            => d \in Calendar!lo..Calendar!hi
      BY <1>5, <2>1
    <3>3. d \in calendarFrom..calendarTo <=> calendarFrom <= d /\ d <= calendarTo
      BY <2>1
    <3> QED BY <2>2, <2>3, <3>1, <3>2, <3>3
  <2> QED BY <2>4
<1>8. calendarFrom..calendarTo \subseteq Calendar!Days
  <2>1. \A e, f \in Calendar!Days : e..f \subseteq Calendar!Days
    <3> DEFINE n == Calendar!MonthStart[Len(MonthDays)] + MonthDays[Len(MonthDays)] - 1
    <3>1. Calendar!Days = 1..n
      BY DEF Calendar!Days
    <3>2. n \in Int
      <4>1. /\ Len(MonthDays) \in Months /\ MonthDays[Len(MonthDays)] \in 28..31
            /\ Calendar!MonthStart[Len(MonthDays)] \in Nat
        BY StretchHasMonths, StartsAscend DEF Months
      <4> QED BY <4>1
    <3> HIDE DEF n
    <3> QED BY <3>1, <3>2
  <2> QED BY <1>1, <2>1
<1> QED BY <1>1, <1>2, <1>5, <1>6, <1>7, <1>8

\* The day the rule means, by the rule's frequency.
LEMMA MeantIs ==
  ASSUME NEW d
  PROVE  /\ calendarRule.freq = "none" =>
              (Calendar!Meant(d) <=> calendarRule.single # Nothing /\ calendarRule.single <= d
                /\ d <= Calendar!LastSingle)
         /\ calendarRule.freq = "weekly" => (Calendar!Meant(d) <=> Calendar!InSeason(d)
              /\ Calendar!getDay(d) \in calendarRule.days)
         /\ calendarRule.freq = "biweekly" =>
              (Calendar!Meant(d) <=>
                 /\ Calendar!InSeason(d) /\ Calendar!getDay(d) \in calendarRule.days
                 /\ Calendar!MondaysSince(Calendar!Anchor, d) % 2 = 0)
         /\ calendarRule.freq = "monthly" =>
              (Calendar!Meant(d) <=>
                 /\ Calendar!InSeason(d) /\ Calendar!getDay(d) \in calendarRule.days
                 /\ IF calendarRule.week = "last"
                    THEN d + 7 >= Calendar!MonthStart[Calendar!MonthOf(d)]
                           + MonthDays[Calendar!MonthOf(d)]
                    ELSE \E n \in DOMAIN Calendar!WeeksOfMonth :
                           Calendar!WeeksOfMonth[n] = calendarRule.week
                             /\ Cardinality(Calendar!SameWeekday(d)) = n)
<1>1. ASSUME calendarRule.freq = "none"
      PROVE  Calendar!Meant(d) <=> calendarRule.single # Nothing /\ calendarRule.single <= d
               /\ d <= Calendar!LastSingle
  BY <1>1, Zenon DEF Calendar!Meant
<1>2. ASSUME calendarRule.freq = "weekly"
      PROVE  Calendar!Meant(d) <=> Calendar!InSeason(d) /\ Calendar!getDay(d) \in calendarRule.days
  BY <1>2, Zenon DEF Calendar!Meant
<1>3. ASSUME calendarRule.freq = "biweekly"
      PROVE  Calendar!Meant(d) <=>
               /\ Calendar!InSeason(d) /\ Calendar!getDay(d) \in calendarRule.days
               /\ Calendar!MondaysSince(Calendar!Anchor, d) % 2 = 0
  BY <1>3, Zenon DEF Calendar!Meant
<1> DEFINE Week == IF calendarRule.week = "last"
                   THEN d + 7 >= Calendar!MonthStart[Calendar!MonthOf(d)]
                          + MonthDays[Calendar!MonthOf(d)]
                   ELSE \E n \in DOMAIN Calendar!WeeksOfMonth :
                          /\ Calendar!WeeksOfMonth[n] = calendarRule.week
                          /\ Calendar!Cardinality(Calendar!SameWeekday(d)) = n
           Counted == IF calendarRule.week = "last"
                      THEN d + 7 >= Calendar!MonthStart[Calendar!MonthOf(d)]
                             + MonthDays[Calendar!MonthOf(d)]
                      ELSE \E n \in DOMAIN Calendar!WeeksOfMonth :
                             Calendar!WeeksOfMonth[n] = calendarRule.week
                               /\ Cardinality(Calendar!SameWeekday(d)) = n
<1>4. ASSUME calendarRule.freq = "monthly"
      PROVE  Calendar!Meant(d) <=> Calendar!InSeason(d) /\ Calendar!getDay(d) \in calendarRule.days
               /\ Week
  BY <1>4, Zenon DEF Calendar!Meant
<1>5. Week <=> Counted
  BY DaysCounted
<1> HIDE DEF Week, Counted
<1>6. calendarRule.freq = "monthly" =>
        (Calendar!Meant(d) <=> Calendar!InSeason(d) /\ Calendar!getDay(d) \in calendarRule.days
          /\ Counted)
  BY <1>4, <1>5
<1> QED BY <1>1, <1>2, <1>3, <1>6, Zenon DEF Counted

\* The day the loops find, by the rule's frequency.
LEMMA FoundIs ==
  ASSUME NEW d
  PROVE  /\ calendarRule.freq = "none" =>
              (Calendar!Found(d) <=> calendarRule.single # Nothing /\ calendarRule.single <= d
                /\ d <= Calendar!LastSingle)
         /\ calendarRule.freq = "weekly" => (Calendar!Found(d) <=> Calendar!InSeason(d)
              /\ Calendar!getDay(d) \in calendarRule.days)
         /\ calendarRule.freq = "biweekly" =>
              (Calendar!Found(d) <=>
                 /\ Calendar!InSeason(d) /\ Calendar!getDay(d) \in calendarRule.days
                 /\ Calendar!MondaysSince(Calendar!Anchor, d) % 2 = 0
                      <=> ~Calendar!CountedShort(d))
         /\ calendarRule.freq = "monthly" =>
              (Calendar!Found(d) <=>
                 /\ Calendar!InSeason(d) /\ Calendar!getDay(d) \in calendarRule.days
                 /\ IF calendarRule.week = "last"
                    THEN d + 7 >= Calendar!MonthStart[Calendar!MonthOf(d)]
                           + MonthDays[Calendar!MonthOf(d)]
                    ELSE \E n \in DOMAIN Calendar!WeeksOfMonth :
                           Calendar!WeeksOfMonth[n] = calendarRule.week
                             /\ Cardinality(Calendar!SameWeekday(d)) = n)
<1>1. calendarRule.freq # "biweekly" => (Calendar!Found(d) <=> Calendar!Meant(d))
  BY DEF Calendar!Found, Calendar!CountedShort
<1>2. CASE calendarRule.freq = "biweekly"
  <2>1. Calendar!Meant(d) <=>
          /\ Calendar!InSeason(d) /\ Calendar!getDay(d) \in calendarRule.days
          /\ Calendar!MondaysSince(Calendar!Anchor, d) % 2 = 0
    BY <1>2, MeantIs
  <2>2. Calendar!Found(d) <=>
          /\ Calendar!InSeason(d) /\ Calendar!getDay(d) \in calendarRule.days
          /\ Calendar!MondaysSince(Calendar!Anchor, d) % 2 = 0 <=> ~Calendar!CountedShort(d)
    BY <2>1, Zenon DEF Calendar!Found
  <2> QED BY <1>2, <2>2
<1>3. CASE calendarRule.freq # "biweekly"
  BY <1>1, <1>3, MeantIs
<1> QED BY <1>2, <1>3

LEMMA LimitIs ==
  /\ Calendar!Weekly => Calendar!Limit = Calendar!hi
  /\ calendarRule.freq = "monthly" => Calendar!Limit = Calendar!MonthOf(Calendar!hi)
  /\ calendarRule.freq = "none"
       => Calendar!Limit = IF calendarRule.single = Nothing THEN 0 ELSE Calendar!LastSingle
<1>1. Calendar!Weekly /\ calendarRule.freq # "monthly" => Calendar!Limit = Calendar!hi
  BY Zenon DEF Calendar!Limit
<1>2. calendarRule.freq = "monthly" => ~Calendar!Weekly
  BY DEF Calendar!Weekly
<1>3. calendarRule.freq = "monthly" /\ ~Calendar!Weekly
        => Calendar!Limit = Calendar!MonthOf(Calendar!hi)
  BY Zenon DEF Calendar!Limit
<1>4. calendarRule.freq = "none" => ~Calendar!Weekly /\ calendarRule.freq # "monthly"
  BY DEF Calendar!Weekly
<1>5. ~Calendar!Weekly /\ calendarRule.freq # "monthly"
        => Calendar!Limit = IF calendarRule.single = Nothing THEN 0 ELSE Calendar!LastSingle
  BY Zenon DEF Calendar!Limit
<1> QED BY <1>1, <1>2, <1>3, <1>4, <1>5

LEMMA FoundStays ==
  ASSUME UNCHANGED <<calendarRule, calendarFrom, calendarTo>>
  PROVE  /\ \A d : Calendar!Found(d)' <=> Calendar!Found(d)
         /\ Calendar!Limit' = Calendar!Limit /\ Calendar!lo' = Calendar!lo
              /\ Calendar!Weekly' = Calendar!Weekly
<1>1. Calendar!lo' = Calendar!lo /\ Calendar!hi' = Calendar!hi /\ Calendar!Anchor' = Calendar!Anchor
        /\ Calendar!LastSingle' = Calendar!LastSingle /\ Calendar!Weekly' = Calendar!Weekly
  BY DEF Calendar!lo, Calendar!hi, Calendar!Anchor, Calendar!LastSingle, Calendar!SeasonStart,
     Calendar!SeasonEnd, Calendar!Weekly
<1>2. ASSUME NEW d  PROVE Calendar!Found(d)' <=> Calendar!Found(d)
  <2>1. Calendar!InSeason(d)' <=> Calendar!InSeason(d)
    BY DEF Calendar!InSeason
  <2>2. Calendar!Meant(d)' <=> Calendar!Meant(d)
    BY <1>1, <2>1, Zenon DEF Calendar!Meant
  <2>3. Calendar!CountedShort(d)' <=> Calendar!CountedShort(d)
    BY <1>1 DEF Calendar!CountedShort
  <2> QED BY <2>1, <2>2, <2>3, Zenon DEF Calendar!Found
<1>3. Calendar!Limit' = Calendar!Limit
  BY <1>1, Zenon DEF Calendar!Limit
<1> QED BY <1>1, <1>2, <1>3

\* Where the cursor is when it finds a day, and where it begins.
PlaceOf(d) == IF calendarRule.freq = "monthly" THEN Calendar!MonthOf(d) ELSE d
FirstPlace == IF Calendar!Weekly THEN Calendar!lo
              ELSE IF calendarRule.freq = "monthly" THEN Calendar!MonthOf(Calendar!lo)
              ELSE IF calendarRule.single = Nothing THEN 1 ELSE calendarRule.single

\* What the rule's exceptions make of a day found.
OccurrenceOf(d) == [status |-> Calendar!StatusOf(d), on |-> Calendar!OutDate(d)]

\* The loop has found the days it is to find that it has passed, and each is
\* answered as the rule's exceptions say.
CalendarInv ==
  /\ calendarRule \in CalendarRules /\ <<calendarFrom, calendarTo>> \in CalendarWindows
  /\ calendarCursor \in Nat /\ calendarCursor >= FirstPlace
  /\ calendarDates = {d \in calendarFrom..calendarTo : Calendar!Found(d)
       /\ PlaceOf(d) < calendarCursor}
  /\ calendarOccurrences # <<>> => Calendar!Scanned
       /\ calendarOccurrences = [d \in calendarDates |-> OccurrenceOf(d)]

LEMMA Frequencies ==
  ASSUME Calendar!CalendarAssumption, calendarRule \in CalendarRules
  PROVE  /\ calendarRule.freq = "none" \/ Calendar!Weekly \/ calendarRule.freq = "monthly"
         /\ Calendar!Weekly <=> calendarRule.freq = "weekly" \/ calendarRule.freq = "biweekly"
         /\ calendarRule.freq = "none" => ~Calendar!Weekly /\ calendarRule.freq # "monthly"
         /\ calendarRule.freq = "monthly" => ~Calendar!Weekly
<1>1. calendarRule.freq \in {"none", "weekly", "biweekly", "monthly"}
  BY RuleFields DEF Calendar!Freqs
<1> QED BY <1>1 DEF Calendar!Weekly

\* A day the rule means has its place between the first and the last.
LEMMA Places ==
  ASSUME Calendar!CalendarAssumption, calendarRule \in CalendarRules,
         <<calendarFrom, calendarTo>> \in CalendarWindows
  PROVE  /\ FirstPlace \in Nat
         /\ \A d \in calendarFrom..calendarTo :
              /\ d \in Nat /\ PlaceOf(d) \in Nat
              /\ Calendar!Found(d) => FirstPlace <= PlaceOf(d) /\ PlaceOf(d) <= Calendar!Limit
<1>1. /\ Calendar!lo \in Calendar!Days /\ Calendar!hi \in Calendar!Days
           /\ Calendar!Days \subseteq Nat
           /\ calendarFrom..calendarTo \subseteq Calendar!Days
      /\ \A d \in Int : d \in Calendar!lo..Calendar!hi <=> d \in calendarFrom..calendarTo
           /\ Calendar!InSeason(d)
  BY Borders
<1>2. \A d \in Calendar!Days : Calendar!MonthOf(d) \in Nat
  <2>1. Months \subseteq Nat
    BY DEF Months
  <2> QED BY <2>1, MonthOfDay
<1>3. FirstPlace \in Nat
  BY <1>1, <1>2, RuleFields DEF FirstPlace
<1>4. ASSUME NEW d \in calendarFrom..calendarTo
      PROVE  d \in Nat /\ d \in Calendar!Days /\ PlaceOf(d) \in Nat
  <2>1. d \in Calendar!Days /\ d \in Nat
    BY <1>1
  <2> QED BY <1>2, <2>1 DEF PlaceOf
<1>5. ASSUME NEW d \in calendarFrom..calendarTo, Calendar!Found(d)
      PROVE  FirstPlace <= PlaceOf(d) /\ PlaceOf(d) <= Calendar!Limit
  <2>1. d \in Nat /\ d \in Calendar!Days /\ Calendar!lo \in Nat /\ Calendar!hi \in Nat
    BY <1>1, <1>4
  <2>2. calendarRule.freq # "none" => Calendar!lo <= d /\ d <= Calendar!hi
    <3>1. calendarRule.freq # "none" => Calendar!InSeason(d)
      BY <1>5, FoundIs, Frequencies
    <3> QED BY <1>1, <2>1, <3>1
  <2>3. CASE Calendar!Weekly
    BY <2>1, <2>2, <2>3, LimitIs, Frequencies DEF FirstPlace, PlaceOf
  <2>4. CASE calendarRule.freq = "monthly"
    <3>1. Calendar!MonthOf(Calendar!lo) <= Calendar!MonthOf(d)
            /\ Calendar!MonthOf(d) <= Calendar!MonthOf(Calendar!hi)
      BY <1>1, <2>1, <2>2, <2>4, MonthsFollowDays
    <3> QED BY <2>4, <3>1, LimitIs, Frequencies DEF FirstPlace, PlaceOf
  <2>5. CASE calendarRule.freq = "none"
    BY <1>5, <2>5, FoundIs, LimitIs, Frequencies DEF FirstPlace, PlaceOf
  <2> QED BY <2>3, <2>4, <2>5, Frequencies
<1> QED BY <1>3, <1>4, <1>5

LEMMA CalendarStarts ==
  ASSUME Calendar!CalendarAssumption, Calendar!Init
  PROVE  CalendarInv
<1>1. calendarRule \in CalendarRules /\ <<calendarFrom, calendarTo>> \in CalendarWindows
  <2>1. PICK w \in CalendarWindows : calendarFrom = w[1] /\ calendarTo = w[2]
    BY DEF Calendar!Init
  <2>2. w = <<w[1], w[2]>>
    BY <2>1 DEF Calendar!CalendarAssumption
  <2> QED BY <2>1, <2>2 DEF Calendar!Init
<1>2. calendarCursor = FirstPlace
  <2>0. Calendar!Weekly => calendarRule.freq # "monthly"
    BY DEF Calendar!Weekly
  <2>1. Calendar!Weekly /\ calendarRule.freq # "monthly" => calendarCursor = Calendar!lo
    BY Zenon DEF Calendar!Init
  <2>2. ~Calendar!Weekly /\ calendarRule.freq = "monthly"
          => calendarCursor = Calendar!MonthOf(Calendar!lo)
    BY Zenon DEF Calendar!Init
  <2>3. ~Calendar!Weekly /\ calendarRule.freq # "monthly"
          => calendarCursor = IF calendarRule.single = Nothing THEN 1 ELSE calendarRule.single
    BY Zenon DEF Calendar!Init
  <2> QED BY <2>0, <2>1, <2>2, <2>3 DEF FirstPlace
<1>3. FirstPlace \in Nat
      /\ \A d \in calendarFrom..calendarTo : PlaceOf(d) \in Nat /\ (Calendar!Found(d)
           => FirstPlace <= PlaceOf(d))
  BY <1>1, Places
<1>4. calendarDates = {} /\ calendarOccurrences = <<>>
  BY DEF Calendar!Init
<1> QED BY <1>1, <1>2, <1>3, <1>4 DEF CalendarInv

\* One step of the loop finds the days whose place it is at.
LEMMA Advances ==
  ASSUME Calendar!CalendarAssumption, CalendarInv, NEW found, Calendar!Advance(found),
         found = {d \in calendarFrom..calendarTo : Calendar!Found(d) /\ PlaceOf(d) = calendarCursor}
  PROVE  CalendarInv'
<1>1. /\ calendarRule \in CalendarRules /\ <<calendarFrom, calendarTo>> \in CalendarWindows
           /\ calendarCursor \in Nat /\ calendarCursor >= FirstPlace
      /\ calendarDates = {d \in calendarFrom..calendarTo : Calendar!Found(d)
           /\ PlaceOf(d) < calendarCursor}
      /\ calendarOccurrences = <<>>
  BY DEF CalendarInv, Calendar!Advance
<1>2. /\ calendarRule' = calendarRule /\ calendarFrom' = calendarFrom /\ calendarTo' = calendarTo
           /\ calendarOccurrences' = calendarOccurrences
      /\ calendarCursor' = calendarCursor + 1 /\ calendarDates' = calendarDates \union found
  BY DEF Calendar!Advance
<1>3. /\ FirstPlace' = FirstPlace /\ \A d : Calendar!Found(d)' <=> Calendar!Found(d)
      /\ \A d : PlaceOf(d)' = PlaceOf(d)
  <2>1. Calendar!lo' = Calendar!lo /\ Calendar!Weekly' = Calendar!Weekly
          /\ \A d : Calendar!Found(d)'
          <=> Calendar!Found(d)
    BY <1>2, FoundStays
  <2> QED BY <1>2, <2>1 DEF FirstPlace, PlaceOf
<1>4. FirstPlace \in Nat /\ \A d \in calendarFrom..calendarTo : PlaceOf(d) \in Nat
  BY <1>1, Places
<1>5. \A d \in calendarFrom..calendarTo : PlaceOf(d) < calendarCursor + 1
        <=> PlaceOf(d) < calendarCursor \/ PlaceOf(d) = calendarCursor
  BY <1>1, <1>4
<1>6. calendarDates' = {d \in calendarFrom..calendarTo : Calendar!Found(d)
        /\ PlaceOf(d) < calendarCursor + 1}
  BY <1>1, <1>2, <1>5
<1>7. {d \in calendarFrom..calendarTo : Calendar!Found(d) /\ PlaceOf(d) < calendarCursor + 1}
        = {d \in calendarFrom'..calendarTo' : Calendar!Found(d)' /\ PlaceOf(d)' < calendarCursor'}
  BY <1>2, <1>3
<1>8. calendarCursor' \in Nat /\ calendarCursor' >= FirstPlace'
  BY <1>1, <1>2, <1>3, <1>4
<1>9. calendarRule' \in CalendarRules /\ <<calendarFrom', calendarTo'>> \in CalendarWindows
  BY <1>1, <1>2
<1>10. calendarDates' = {d \in calendarFrom'..calendarTo' : Calendar!Found(d)'
         /\ PlaceOf(d)' < calendarCursor'}
  BY <1>6, <1>7
<1> QED BY <1>1, <1>2, <1>8, <1>9, <1>10 DEF CalendarInv

LEMMA ScanSingleKeeps ==
  ASSUME Calendar!CalendarAssumption, CalendarInv, Calendar!ScanSingle
  PROVE  CalendarInv'
<1> DEFINE found == {d \in {calendarCursor} : calendarFrom <= d /\ d <= calendarTo}
<1>1. calendarRule.freq = "none" /\ Calendar!Advance(found)
  BY DEF Calendar!ScanSingle
<1>2. calendarRule \in CalendarRules /\ <<calendarFrom, calendarTo>> \in CalendarWindows
        /\ calendarCursor \in Nat /\ calendarCursor >= FirstPlace
  BY DEF CalendarInv
<1>3. ~Calendar!Scanned
  BY <1>1 DEF Calendar!Advance
<1>4. /\ calendarRule.single # Nothing /\ calendarRule.single \in Nat /\ Calendar!LastSingle \in Nat
      /\ calendarRule.single <= calendarCursor /\ calendarCursor <= Calendar!LastSingle
  <2>1. /\ Calendar!Limit = IF calendarRule.single = Nothing THEN 0 ELSE Calendar!LastSingle
        /\ FirstPlace = IF calendarRule.single = Nothing THEN 1 ELSE calendarRule.single
    BY <1>1, <1>2, LimitIs, Frequencies DEF FirstPlace
  <2>2. calendarRule.single # Nothing
    BY <1>2, <1>3, <2>1 DEF Calendar!Scanned
  <2>3. calendarRule.single \in Nat /\ Calendar!LastSingle \in Nat
    BY <1>2, <2>2, RuleFields, Borders DEF Calendar!LastSingle
  <2> QED BY <1>2, <1>3, <2>1, <2>2, <2>3 DEF Calendar!Scanned
<1>5. calendarFrom \in Nat /\ calendarTo \in Nat
  BY <1>2, Borders
<1>6. \A d : Calendar!Found(d) <=> calendarRule.single # Nothing /\ calendarRule.single <= d
        /\ d <= Calendar!LastSingle
  BY <1>1, FoundIs
<1>7. \A d : PlaceOf(d) = d
  BY <1>1 DEF PlaceOf
<1>8. found = {d \in calendarFrom..calendarTo : Calendar!Found(d) /\ PlaceOf(d) = calendarCursor}
  BY <1>2, <1>4, <1>5, <1>6, <1>7
<1> HIDE DEF found
<1> QED BY <1>1, <1>8, Advances

LEMMA ScanDayKeeps ==
  ASSUME Calendar!CalendarAssumption, CalendarInv, Calendar!ScanDay
  PROVE  CalendarInv'
<1> DEFINE On(d) == /\ Calendar!getDay(d) \in calendarRule.days
                    /\ calendarRule.freq = "biweekly"
                         => Calendar!weekIndex(d, Calendar!Anchor) % 2 = 0
           found == {d \in {calendarCursor} : On(d)}
<1>1. Calendar!Weekly /\ Calendar!Advance(found)
  BY DEF Calendar!ScanDay
<1>2. calendarRule \in CalendarRules /\ <<calendarFrom, calendarTo>> \in CalendarWindows
        /\ calendarCursor \in Nat /\ calendarCursor >= FirstPlace
  BY DEF CalendarInv
<1>3. ~Calendar!Scanned
  BY <1>1 DEF Calendar!Advance
<1>4. /\ Calendar!lo \in Nat /\ Calendar!hi \in Nat /\ Calendar!Anchor \in Nat
           /\ Calendar!Anchor <= Calendar!lo
      /\ \A d \in Int : d \in Calendar!lo..Calendar!hi <=> d \in calendarFrom..calendarTo
           /\ Calendar!InSeason(d)
  BY <1>2, Borders
<1>5. Calendar!lo <= calendarCursor /\ calendarCursor <= Calendar!hi
  BY <1>1, <1>2, <1>3, <1>4, LimitIs DEF FirstPlace, Calendar!Scanned
<1>6. calendarCursor \in calendarFrom..calendarTo /\ Calendar!InSeason(calendarCursor)
        /\ calendarCursor \in Int
  BY <1>2, <1>4, <1>5
<1>7. /\ Calendar!MondaysSince(Calendar!Anchor, calendarCursor) \in Nat
      /\ Calendar!weekIndex(calendarCursor, Calendar!Anchor)
           = Calendar!MondaysSince(Calendar!Anchor, calendarCursor)
               - (IF Short(Calendar!Anchor, calendarCursor) THEN 1 ELSE 0)
  BY <1>2, <1>4, <1>5, WeeksAreMondays
<1>8. calendarRule.freq = "weekly" \/ calendarRule.freq = "biweekly"
  BY <1>1, <1>2, Frequencies
<1>9. Calendar!Found(calendarCursor) <=> On(calendarCursor)
  <2>1. CASE calendarRule.freq = "weekly"
    <3>1. Calendar!Found(calendarCursor) <=> Calendar!InSeason(calendarCursor)
            /\ Calendar!getDay(calendarCursor) \in calendarRule.days
      BY <2>1, FoundIs
    <3> QED BY <1>6, <2>1, <3>1
  <2>2. CASE calendarRule.freq = "biweekly"
    <3>1. Calendar!Found(calendarCursor) <=> Calendar!InSeason(calendarCursor)
            /\ Calendar!getDay(calendarCursor) \in calendarRule.days
            /\ (Calendar!MondaysSince(Calendar!Anchor, calendarCursor) % 2 = 0
                  <=> ~Calendar!CountedShort(calendarCursor))
      BY <2>2, FoundIs
    <3>2. Calendar!CountedShort(calendarCursor) <=> Short(Calendar!Anchor, calendarCursor)
      BY <2>2 DEF Calendar!CountedShort, Short
    <3> DEFINE n == Calendar!MondaysSince(Calendar!Anchor, calendarCursor)
               i == Calendar!weekIndex(calendarCursor, Calendar!Anchor)
    <3>3. n \in Nat /\ i = n - (IF Short(Calendar!Anchor, calendarCursor) THEN 1 ELSE 0)
      BY <1>7
    <3>4. On(calendarCursor) <=> Calendar!getDay(calendarCursor) \in calendarRule.days /\ i % 2 = 0
      BY <2>2
    <3>5. Calendar!Found(calendarCursor) <=> Calendar!getDay(calendarCursor) \in calendarRule.days
            /\ (n % 2 = 0 <=> ~Calendar!CountedShort(calendarCursor))
      BY <1>6, <3>1
    <3> HIDE DEF n, i, On
    <3>6. i % 2 = 0 <=> (n % 2 = 0 <=> ~Short(Calendar!Anchor, calendarCursor))
      BY <3>3
    <3> QED BY <3>2, <3>4, <3>5, <3>6
  <2> QED BY <1>8, <2>1, <2>2
<1>10. \A d : PlaceOf(d) = d
  BY <1>8 DEF PlaceOf
<1> HIDE DEF On
<1>11. found = {d \in calendarFrom..calendarTo : Calendar!Found(d) /\ PlaceOf(d) = calendarCursor}
  <2>1. ASSUME NEW d
      PROVE  d \in found <=> d \in calendarFrom..calendarTo /\ Calendar!Found(d)
               /\ PlaceOf(d) = calendarCursor
    <3>1. CASE d = calendarCursor
      BY <1>6, <1>9, <1>10, <3>1
    <3>2. CASE d # calendarCursor
      BY <1>10, <3>2
    <3> QED BY <3>1, <3>2
  <2> QED BY <2>1
<1> HIDE DEF found
<1> QED BY <1>1, <1>11, Advances

LEMMA ScanMonthKeeps ==
  ASSUME Calendar!CalendarAssumption, CalendarInv, Calendar!ScanMonth
  PROVE  CalendarInv'
<1> DEFINE found == {d \in {Calendar!nthWeekdayOfMonth(calendarCursor, wd, calendarRule.week) : wd
             \in calendarRule.days} \ {Nothing} :
                       Calendar!lo <= d /\ d <= Calendar!hi}
<1>1. calendarRule.freq = "monthly" /\ Calendar!Advance(found)
  BY DEF Calendar!ScanMonth
<1>2. calendarRule \in CalendarRules /\ <<calendarFrom, calendarTo>> \in CalendarWindows
        /\ calendarCursor \in Nat /\ calendarCursor >= FirstPlace
  BY DEF CalendarInv
<1>3. ~Calendar!Scanned
  BY <1>1 DEF Calendar!Advance
<1>4. /\ Calendar!lo \in Calendar!Days /\ Calendar!hi \in Calendar!Days
           /\ Calendar!Days \subseteq Nat
           /\ calendarFrom..calendarTo \subseteq Calendar!Days
      /\ \A d \in Int : d \in Calendar!lo..Calendar!hi <=> d \in calendarFrom..calendarTo
           /\ Calendar!InSeason(d)
  BY <1>2, Borders
<1>5. calendarCursor \in Months
  <2>1. Calendar!MonthOf(Calendar!lo) \in Months /\ Calendar!MonthOf(Calendar!hi) \in Months
    BY <1>4, MonthOfDay
  <2>2. Calendar!MonthOf(Calendar!lo) <= calendarCursor
          /\ ~(calendarCursor > Calendar!MonthOf(Calendar!hi))
    BY <1>1, <1>2, <1>3, LimitIs, Frequencies DEF FirstPlace, Calendar!Scanned
  <2> QED BY <1>2, <2>1, <2>2, StretchHasMonths DEF Months
<1>6. calendarRule.days \subseteq 0..6
        /\ calendarRule.week \in {"first", "second", "third", "fourth", "last"}
  BY <1>2, RuleFields
<1> DEFINE Week(d) == IF calendarRule.week = "last"
             THEN d + 7 >= Calendar!MonthStart[Calendar!MonthOf(d)] + MonthDays[Calendar!MonthOf(d)]
                      ELSE \E n \in DOMAIN Calendar!WeeksOfMonth :
                             Calendar!WeeksOfMonth[n] = calendarRule.week
                               /\ Cardinality(Calendar!SameWeekday(d)) = n
<1>7. ASSUME NEW wd \in 0..6, NEW d \in Calendar!Days
      PROVE  Calendar!nthWeekdayOfMonth(calendarCursor, wd, calendarRule.week) = d <=>
               Calendar!MonthOf(d) = calendarCursor /\ Calendar!getDay(d) = wd /\ Week(d)
  <2>1. Calendar!nthWeekdayOfMonth(calendarCursor, wd, calendarRule.week) = d <=>
           /\ Calendar!MonthOf(d) = calendarCursor /\ Calendar!getDay(d) = wd
           /\ IF calendarRule.week = "last" THEN d + 7 >= NextMonth(calendarCursor)
              ELSE \E n \in DOMAIN Calendar!WeeksOfMonth :
                     Calendar!WeeksOfMonth[n] = calendarRule.week
                       /\ Cardinality(Calendar!SameWeekday(d)) = n
    BY <1>5, <1>6, NthWeekday
  <2> QED BY <2>1 DEF NextMonth
<1>8. \A d : Calendar!Found(d) <=> Calendar!InSeason(d) /\ Calendar!getDay(d) \in calendarRule.days
        /\ Week(d)
  BY <1>1, FoundIs
<1>9. \A d : PlaceOf(d) = Calendar!MonthOf(d)
  BY <1>1 DEF PlaceOf
<1> HIDE DEF Week
<1>10. ASSUME NEW d
      PROVE  d \in found <=> d \in calendarFrom..calendarTo /\ Calendar!Found(d)
               /\ PlaceOf(d) = calendarCursor
  <2>1. CASE d \in calendarFrom..calendarTo /\ Calendar!InSeason(d)
    <3>1. d \in Calendar!Days /\ Calendar!lo <= d /\ d <= Calendar!hi /\ d # Nothing
      <4>1. d \in Calendar!Days /\ d \in Nat /\ d \in Calendar!lo..Calendar!hi
        BY <1>4, <2>1
      <4> QED BY <1>4, <4>1 DEF Calendar!CalendarAssumption
    <3>2. d \in found
            <=> \E wd \in calendarRule.days : Calendar!nthWeekdayOfMonth(calendarCursor, wd,
                  calendarRule.week) = d
      BY <3>1
    <3>3. d \in found <=> \E wd \in calendarRule.days : Calendar!MonthOf(d) = calendarCursor
            /\ Calendar!getDay(d) = wd /\ Week(d)
      BY <1>6, <1>7, <3>1, <3>2
    <3> QED BY <1>8, <1>9, <2>1, <3>3
  <2>2. CASE ~(d \in calendarFrom..calendarTo /\ Calendar!InSeason(d))
    <3>1. ASSUME d \in found  PROVE FALSE
      <4>1. PICK wd \in calendarRule.days : d
              = Calendar!nthWeekdayOfMonth(calendarCursor, wd, calendarRule.week) /\ d # Nothing
                                    /\ Calendar!lo <= d /\ d <= Calendar!hi
        BY <3>1
      <4>2. d \in Int
        <5> DEFINE firstMatch == FirstMatch(calendarCursor, wd)
                   nth == CHOOSE n \in 1..4 : Calendar!WeeksOfMonth[n] = calendarRule.week
                   day == IF calendarRule.week = "last"
                          THEN firstMatch + 7 * ((MonthDays[calendarCursor] - firstMatch) \div 7)
                          ELSE firstMatch + 7 * (nth - 1)
        <5>1. d = Calendar!MonthStart[calendarCursor] + day - 1
          BY <4>1, Zenon DEF Calendar!nthWeekdayOfMonth, FirstMatch
        <5>2. calendarRule.week # "last" => nth \in 1..4
          <6>1. /\ Calendar!WeeksOfMonth[1] = "first" /\ Calendar!WeeksOfMonth[2] = "second"
                /\ Calendar!WeeksOfMonth[3] = "third" /\ Calendar!WeeksOfMonth[4] = "fourth"
            BY DEF Calendar!WeeksOfMonth
          <6>2. calendarRule.week # "last"
                  => \E n \in 1..4 : Calendar!WeeksOfMonth[n] = calendarRule.week
            BY <1>6, <6>1
          <6> QED BY <6>2
        <5>3. /\ firstMatch \in 1..7 /\ MonthDays[calendarCursor] \in 28..31
              /\ Calendar!MonthStart[calendarCursor] \in Nat
          BY <1>5, <1>6, FirstMatchFits, StretchHasMonths, StartsAscend
        <5> HIDE DEF firstMatch, nth
        <5> QED BY <5>1, <5>2, <5>3
      <4>3. d \in Calendar!lo..Calendar!hi
        BY <1>4, <4>1, <4>2
      <4> QED BY <1>4, <2>2, <4>2, <4>3
    <3>2. ~(d \in calendarFrom..calendarTo /\ Calendar!Found(d))
      BY <1>8, <2>2
    <3> QED BY <3>1, <3>2
  <2> QED BY <2>1, <2>2
<1>11. found = {d \in calendarFrom..calendarTo : Calendar!Found(d) /\ PlaceOf(d) = calendarCursor}
  BY <1>10
<1> HIDE DEF found
<1> QED BY <1>1, <1>11, Advances

LEMMA OccurrencesStay ==
  ASSUME calendarRule' = calendarRule
  PROVE  \A d : OccurrenceOf(d)' = OccurrenceOf(d)
<1> TAKE d
<1>1. Calendar!ExceptionOn(d)' = Calendar!ExceptionOn(d)
  BY DEF Calendar!ExceptionOn
<1>2. Calendar!Overridden(d)' <=> Calendar!Overridden(d)
  BY <1>1 DEF Calendar!Overridden
<1>3. Calendar!StatusOf(d)' = Calendar!StatusOf(d)
  BY <1>1, <1>2, Zenon DEF Calendar!StatusOf
<1>4. Calendar!OutDate(d)' = Calendar!OutDate(d)
  BY <1>1, <1>2, Zenon DEF Calendar!OutDate
<1> QED BY <1>3, <1>4 DEF OccurrenceOf

LEMMA DecideKeeps ==
  ASSUME Calendar!CalendarAssumption, CalendarInv, Calendar!Decide
  PROVE  CalendarInv'
<1>1. /\ Calendar!Scanned /\ calendarOccurrences' = [d \in calendarDates |-> OccurrenceOf(d)]
      /\ calendarRule' = calendarRule /\ calendarFrom' = calendarFrom /\ calendarTo' = calendarTo
           /\ calendarCursor' = calendarCursor /\ calendarDates' = calendarDates
  BY DEF Calendar!Decide, OccurrenceOf
<1>2. /\ Calendar!Limit' = Calendar!Limit /\ Calendar!lo' = Calendar!lo
           /\ Calendar!Weekly' = Calendar!Weekly /\ \A d : Calendar!Found(d)' <=> Calendar!Found(d)
  BY <1>1, FoundStays
<1>3. FirstPlace' = FirstPlace /\ \A d : PlaceOf(d)' = PlaceOf(d)
  BY <1>1, <1>2 DEF FirstPlace, PlaceOf
<1>4. Calendar!Scanned'
  BY <1>1, <1>2 DEF Calendar!Scanned
<1>5. \A d : OccurrenceOf(d)' = OccurrenceOf(d)
  BY <1>1, OccurrencesStay
<1>6. calendarOccurrences' = [d \in calendarDates' |-> OccurrenceOf(d)']
  BY <1>1, <1>5
<1>7. {d \in calendarFrom'..calendarTo' : Calendar!Found(d)' /\ PlaceOf(d)' < calendarCursor'}
        = {d \in calendarFrom..calendarTo : Calendar!Found(d) /\ PlaceOf(d) < calendarCursor}
  BY <1>1, <1>2, <1>3
<1>8. /\ calendarRule \in CalendarRules /\ <<calendarFrom, calendarTo>> \in CalendarWindows
           /\ calendarCursor \in Nat /\ calendarCursor >= FirstPlace
      /\ calendarDates = {d \in calendarFrom..calendarTo : Calendar!Found(d)
           /\ PlaceOf(d) < calendarCursor}
  BY DEF CalendarInv
<1>9. calendarDates' = {d \in calendarFrom'..calendarTo' : Calendar!Found(d)'
        /\ PlaceOf(d)' < calendarCursor'}
  BY <1>1, <1>7, <1>8
<1> QED BY <1>1, <1>3, <1>4, <1>6, <1>8, <1>9 DEF CalendarInv

LEMMA CalendarSteps ==
  ASSUME Calendar!CalendarAssumption, CalendarInv, [Calendar!Next]_(Calendar!calendarVars)
  PROVE  CalendarInv'
<1>1. CASE UNCHANGED Calendar!calendarVars
  <2>1. /\ calendarRule' = calendarRule /\ calendarFrom' = calendarFrom /\ calendarTo' = calendarTo
             /\ calendarCursor' = calendarCursor /\ calendarDates' = calendarDates
        /\ calendarOccurrences' = calendarOccurrences
    BY <1>1 DEF Calendar!calendarVars
  <2>2. /\ Calendar!Limit' = Calendar!Limit /\ Calendar!lo' = Calendar!lo
             /\ Calendar!Weekly' = Calendar!Weekly /\ \A d : Calendar!Found(d)'
                  <=> Calendar!Found(d)
    BY <2>1, FoundStays
  <2>3. FirstPlace' = FirstPlace /\ \A d : PlaceOf(d)' = PlaceOf(d)
    BY <2>1, <2>2 DEF FirstPlace, PlaceOf
  <2>4. Calendar!Scanned' = Calendar!Scanned
    BY <2>1, <2>2 DEF Calendar!Scanned
  <2>5. \A d : OccurrenceOf(d)' = OccurrenceOf(d)
    BY <2>1, OccurrencesStay
  <2>6. /\ calendarRule \in CalendarRules /\ <<calendarFrom, calendarTo>> \in CalendarWindows
             /\ calendarCursor \in Nat /\ calendarCursor >= FirstPlace
        /\ calendarDates = {d \in calendarFrom..calendarTo : Calendar!Found(d)
             /\ PlaceOf(d) < calendarCursor}
        /\ calendarOccurrences # <<>> => Calendar!Scanned
             /\ calendarOccurrences = [d \in calendarDates |-> OccurrenceOf(d)]
    BY DEF CalendarInv
  <2>7. calendarDates' = {d \in calendarFrom'..calendarTo' : Calendar!Found(d)'
          /\ PlaceOf(d)' < calendarCursor'}
    BY <2>1, <2>2, <2>3, <2>6
  <2>8. calendarOccurrences' # <<>> => Calendar!Scanned'
          /\ calendarOccurrences' = [d \in calendarDates' |-> OccurrenceOf(d)']
    BY <2>1, <2>4, <2>5, <2>6
  <2> QED BY <2>1, <2>3, <2>6, <2>7, <2>8 DEF CalendarInv
<1> QED BY <1>1, ScanSingleKeeps, ScanDayKeeps, ScanMonthKeeps, DecideKeeps DEF Calendar!Next

-----------------------------------------------------------------------------
(* What the finished loop shows.                                            *)

\* Once the loop is done it has passed every day of the window.
LEMMA AllPassed ==
  ASSUME Calendar!CalendarAssumption, CalendarInv, Calendar!Scanned
  PROVE  calendarDates = {d \in calendarFrom..calendarTo : Calendar!Found(d)}
<1>1. /\ calendarRule \in CalendarRules /\ <<calendarFrom, calendarTo>> \in CalendarWindows
           /\ calendarCursor \in Nat
      /\ calendarDates = {d \in calendarFrom..calendarTo : Calendar!Found(d)
           /\ PlaceOf(d) < calendarCursor}
  BY DEF CalendarInv
<1>2. Calendar!Limit \in Int
  <2>1. Calendar!hi \in Calendar!Days /\ Calendar!Days \subseteq Nat
    BY <1>1, Borders
  <2>2. Calendar!MonthOf(Calendar!hi) \in Int
    BY <2>1, MonthOfDay DEF Months
  <2>3. calendarRule.single # Nothing => Calendar!LastSingle \in Int
    <3>1. calendarRule.single \in Calendar!Days \union {Nothing}
            /\ calendarRule.last \in Calendar!Days \union {Nothing}
      BY <1>1, RuleFields
    <3>2. calendarRule.single # Nothing => Calendar!LastSingle \in Calendar!Days
      BY <3>1 DEF Calendar!LastSingle
    <3>3. Calendar!Days \subseteq Int
      BY <2>1
    <3> QED BY <3>2, <3>3
  <2> QED BY <1>1, <2>1, <2>2, <2>3, LimitIs, Frequencies
<1>3. ASSUME NEW d \in calendarFrom..calendarTo,
             Calendar!Found(d)  PROVE PlaceOf(d) < calendarCursor
  <2>1. PlaceOf(d) \in Nat /\ PlaceOf(d) <= Calendar!Limit
    BY <1>1, <1>3, Places
  <2> QED BY <1>1, <1>2, <2>1 DEF Calendar!Scanned
<1> QED BY <1>1, <1>3

\* The exceptions of a rule.
ExceptionRows == [date : Calendar!Days, kind : Calendar!Kinds,
                  newDate : Calendar!Days \union {Nothing}]

\* The last of the exceptions on a day decides, where there is one.
LEMMA LastException ==
  ASSUME Calendar!CalendarAssumption, calendarRule \in CalendarRules, NEW d
  PROVE  \/ /\ Calendar!ExceptionOn(d) = [kind |-> Nothing, newDate |-> Nothing]
            /\ \A j \in DOMAIN calendarRule.exceptions : calendarRule.exceptions[j].date # d
         \/ \E i \in DOMAIN calendarRule.exceptions :
              /\ Calendar!ExceptionOn(d) = calendarRule.exceptions[i]
              /\ calendarRule.exceptions[i] \in ExceptionRows /\ calendarRule.exceptions[i].date = d
              /\ \A j \in DOMAIN calendarRule.exceptions :
                   calendarRule.exceptions[j].date = d => j <= i
<1> DEFINE rows == {i \in DOMAIN calendarRule.exceptions : calendarRule.exceptions[i].date = d}
           lastRow == CHOOSE i \in rows : \A j \in rows : j <= i
<1>1. /\ DOMAIN calendarRule.exceptions = 1..Len(calendarRule.exceptions)
           /\ Len(calendarRule.exceptions) \in Nat
      /\ \A i \in DOMAIN calendarRule.exceptions : calendarRule.exceptions[i] \in ExceptionRows
  <2> DEFINE e == calendarRule.exceptions
  <2>1. e \in Seq(ExceptionRows)
    BY RuleFields DEF ExceptionRows
  <2> HIDE DEF e
  <2>2. DOMAIN e = 1..Len(e) /\ Len(e) \in Nat
    BY <2>1, LenProperties
  <2>3. \A i \in DOMAIN e : e[i] \in ExceptionRows
    BY <2>1, <2>2, ElementOfSeq
  <2> QED BY <2>2, <2>3 DEF e
<1>2. rows # {} => lastRow \in rows /\ \A j \in rows : j <= lastRow
  <2> SUFFICES ASSUME rows # {}  PROVE \E i \in rows : \A j \in rows : j <= i
    OBVIOUS
  <2> DEFINE Above == {k \in Nat : \A j \in rows : j <= k}
             n == Len(calendarRule.exceptions)
  <2>1. rows \subseteq 1..n /\ n \in Nat
    BY <1>1
  <2> HIDE DEF rows, n
  <2>2. n \in Above /\ Above \in SUBSET Nat
    BY <2>1
  <2> HIDE DEF Above
  <2>3. PICK k \in Above : \A m \in Above : k <= m
    BY <2>2, LeastOf
  <2>4. k \in Nat /\ \A j \in rows : j <= k
    BY <2>3 DEF Above
  <2>5. ASSUME k \notin rows  PROVE FALSE
    <3>1. PICK j \in rows : TRUE
      OBVIOUS
    <3>2. k - 1 \in Nat /\ ~(k <= k - 1)
      BY <2>1, <2>4, <3>1
    <3>3. \A i \in rows : i <= k - 1
      BY <2>1, <2>4, <2>5
    <3> QED BY <2>3, <3>2, <3>3 DEF Above
  <2> QED BY <2>4, <2>5
<1>3. Calendar!ExceptionOn(d) = IF rows = {} THEN [kind |-> Nothing, newDate |-> Nothing]
                                ELSE calendarRule.exceptions[lastRow]
  BY DEF Calendar!ExceptionOn
<1>4. CASE rows = {}
  <2>1. \A i \in DOMAIN calendarRule.exceptions : calendarRule.exceptions[i].date # d
    BY <1>4
  <2> QED BY <1>3, <1>4, <2>1
<1>5. CASE rows # {}
  <2>1. lastRow \in rows /\ \A j \in rows : j <= lastRow
    BY <1>2, <1>5
  <2>2. /\ lastRow \in DOMAIN calendarRule.exceptions
        /\ calendarRule.exceptions[lastRow].date = d
        /\ \A j \in DOMAIN calendarRule.exceptions :
             calendarRule.exceptions[j].date = d => j <= lastRow
    BY <2>1
  <2>3. Calendar!ExceptionOn(d) = calendarRule.exceptions[lastRow]
    BY <1>3, <1>5
  <2> HIDE DEF rows, lastRow
  <2> QED BY <1>1, <2>2, <2>3
<1> QED BY <1>4, <1>5

\* A day is scheduled unless something takes it off.
LEMMA ScheduledUnlessOff ==
  ASSUME Calendar!CalendarAssumption, calendarRule \in CalendarRules, NEW d
  PROVE  Calendar!StatusOf(d) = "scheduled" <=> ~Calendar!OffDay(d)
<1> DEFINE some == \E i \in DOMAIN calendarRule.exceptions : calendarRule.exceptions[i].date = d
           kind == Calendar!ExceptionOn(d).kind
<1>1. (some => kind \in Calendar!Kinds) /\ (~some => kind = Nothing)
  <2>1. CASE /\ Calendar!ExceptionOn(d) = [kind |-> Nothing, newDate |-> Nothing]
             /\ \A j \in DOMAIN calendarRule.exceptions : calendarRule.exceptions[j].date # d
    BY <2>1
  <2>2. CASE \E i \in DOMAIN calendarRule.exceptions :
               /\ Calendar!ExceptionOn(d) = calendarRule.exceptions[i]
               /\ calendarRule.exceptions[i] \in ExceptionRows
                    /\ calendarRule.exceptions[i].date = d
    BY <2>2 DEF ExceptionRows
  <2> QED BY <2>1, <2>2, LastException
<1>2. Calendar!Overridden(d) <=> kind = "override"
  BY DEF Calendar!Overridden
<1>3. Nothing \notin Calendar!Kinds
  BY DEF Calendar!CalendarAssumption
<1>4. Calendar!Overridden(d) => Calendar!StatusOf(d) = "override"
  BY Zenon DEF Calendar!StatusOf
<1>5. ~Calendar!Overridden(d) /\ (d \in calendarRule.blackout \/ kind # Nothing)
        => Calendar!StatusOf(d) = "cancelled"
  BY Zenon DEF Calendar!StatusOf
<1>6. ~Calendar!Overridden(d) /\ ~(d \in calendarRule.blackout \/ kind # Nothing)
        => Calendar!StatusOf(d) = "scheduled"
  BY Zenon DEF Calendar!StatusOf
<1>7. Calendar!OffDay(d) <=> d \in calendarRule.blackout \/ some
  BY DEF Calendar!OffDay
<1> HIDE DEF some, kind
<1>8. "override" \in Calendar!Kinds /\ "override" # "scheduled" /\ "cancelled" # "scheduled"
  BY DEF Calendar!Kinds
<1> QED BY <1>1, <1>2, <1>3, <1>4, <1>5, <1>6, <1>7, <1>8

\* The day an occurrence is answered on is the one it is held on.
LEMMA HeldOnOutDate ==
  ASSUME Calendar!CalendarAssumption, calendarRule \in CalendarRules, NEW d \in Calendar!Days
  PROVE  /\ Calendar!OutDate(d) \in Calendar!Days
         /\ \A e \in Calendar!Days : Calendar!HeldOn(d, e) <=> e = Calendar!OutDate(d)
<1> DEFINE x == Calendar!ExceptionOn(d)
           Moves(f) == Calendar!Overridden(d) /\ x.newDate # Nothing /\ f = x.newDate
<1>1. /\ Calendar!Overridden(d) <=> x.kind = "override"
      /\ Calendar!OutDate(d) = IF Calendar!Overridden(d)
           /\ x.newDate # Nothing THEN x.newDate ELSE d
      /\ Nothing \notin Calendar!Kinds /\ Nothing \notin Calendar!Days
           /\ "override" \in Calendar!Kinds
  BY DEF Calendar!Overridden, Calendar!OutDate, Calendar!CalendarAssumption, Calendar!Kinds,
     Calendar!Days
<1>2. /\ \A f : Calendar!MovedTo(d, f) /\ f \in Calendar!Days => Moves(f)
      /\ \A f : Moves(f) => Calendar!MovedTo(d, f) /\ f \in Calendar!Days
  <2>1. CASE /\ x = [kind |-> Nothing, newDate |-> Nothing]
             /\ \A j \in DOMAIN calendarRule.exceptions : calendarRule.exceptions[j].date # d
    <3>1. x.newDate = Nothing
      BY <2>1
    <3>2. \A f : ~Calendar!MovedTo(d, f)
      BY <2>1 DEF Calendar!MovedTo
    <3> QED BY <3>1, <3>2
  <2>2. CASE \E i \in DOMAIN calendarRule.exceptions :
              /\ x = calendarRule.exceptions[i]
              /\ calendarRule.exceptions[i] \in ExceptionRows /\ calendarRule.exceptions[i].date = d
              /\ \A j \in DOMAIN calendarRule.exceptions :
                   calendarRule.exceptions[j].date = d => j <= i
    <3>1. PICK i \in DOMAIN calendarRule.exceptions :
              /\ x = calendarRule.exceptions[i]
              /\ calendarRule.exceptions[i] \in ExceptionRows /\ calendarRule.exceptions[i].date = d
              /\ \A j \in DOMAIN calendarRule.exceptions :
                   calendarRule.exceptions[j].date = d => j <= i
      BY <2>2
    <3> HIDE DEF x
    <3>2. DOMAIN calendarRule.exceptions \subseteq Int
      BY RuleFields
    <3>3. x.newDate \in Calendar!Days \union {Nothing} /\ x.date = d
            /\ x = [date |-> x.date, kind |-> x.kind, newDate |-> x.newDate]
      BY <3>1 DEF ExceptionRows
    <3>4. ASSUME NEW f, Calendar!MovedTo(d, f), f \in Calendar!Days  PROVE Moves(f)
      <4>1. PICK j \in DOMAIN calendarRule.exceptions :
              /\ calendarRule.exceptions[j] = [date |-> d, kind |-> "override", newDate |-> f]
              /\ \A k \in DOMAIN calendarRule.exceptions :
                   calendarRule.exceptions[k].date = d => k <= j
        BY <3>4 DEF Calendar!MovedTo
      <4>2. calendarRule.exceptions[j].date = d
        BY <4>1
      <4>3. j <= i /\ i <= j
        BY <3>1, <4>1, <4>2
      <4>4. i = j
        BY <3>2, <4>3
      <4>5. x = [date |-> d, kind |-> "override", newDate |-> f]
        BY <3>1, <4>1, <4>4
      <4>6. x.kind = "override" /\ x.newDate = f
        BY <4>5
      <4> QED BY <1>1, <3>4, <4>6
    <3>5. ASSUME NEW f, Moves(f)  PROVE Calendar!MovedTo(d, f) /\ f \in Calendar!Days
      <4>1. x = [date |-> d, kind |-> "override", newDate |-> f] /\ f \in Calendar!Days
        BY <1>1, <3>3, <3>5
      <4> QED BY <3>1, <4>1 DEF Calendar!MovedTo
    <3> QED BY <3>4, <3>5
  <2> QED BY <2>1, <2>2, LastException
<1> HIDE DEF x
<1>3. Calendar!OutDate(d) \in Calendar!Days
  BY <1>1, <1>2
<1> QED BY <1>1, <1>2, <1>3 DEF Calendar!HeldOn

LEMMA MeantFound ==
  ASSUME Calendar!CalendarAssumption, CalendarInv
  PROVE  Calendar!ExactlyTheMeant
<1>1. Calendar!Scanned => calendarDates = {d \in calendarFrom..calendarTo : Calendar!Found(d)}
  BY AllPassed
<1>2. ASSUME calendarOccurrences # <<>>
      PROVE  {d \in calendarDates : calendarOccurrences[d].status = "scheduled"}
               = {d \in calendarFrom..calendarTo : Calendar!Found(d) /\ ~Calendar!OffDay(d)}
  <2>1. calendarRule \in CalendarRules /\ Calendar!Scanned
          /\ calendarOccurrences = [d \in calendarDates |-> OccurrenceOf(d)]
    BY <1>2 DEF CalendarInv
  <2>2. \A d \in calendarDates : calendarOccurrences[d].status = "scheduled" <=> ~Calendar!OffDay(d)
    <3>1. \A d \in calendarDates : calendarOccurrences[d].status = Calendar!StatusOf(d)
      BY <2>1 DEF OccurrenceOf
    <3> QED BY <2>1, <3>1, ScheduledUnlessOff
  <2> QED BY <1>1, <2>1, <2>2
<1> QED BY <1>1, <1>2 DEF Calendar!ExactlyTheMeant

\* A day to which nothing comes from outside the window is answered in full.
LEMMA DaysAreWhole ==
  ASSUME Calendar!CalendarAssumption, CalendarInv
  PROVE  Calendar!WholeDays
<1> SUFFICES ASSUME calendarOccurrences # <<>>
    PROVE  /\ \A d \in calendarDates : Calendar!HeldOn(d, calendarOccurrences[d].on)
           /\ \A e \in calendarFrom..calendarTo :
                (\A d \in Calendar!Days \ (calendarFrom..calendarTo) : ~Calendar!HeldOn(d, e)) =>
                  {d \in calendarDates : calendarOccurrences[d].on = e}
                    = {d \in Calendar!Days : Calendar!Found(d) /\ Calendar!HeldOn(d, e)}
  BY DEF Calendar!WholeDays
<1>1. /\ calendarRule \in CalendarRules /\ <<calendarFrom, calendarTo>> \in CalendarWindows
      /\ Calendar!Scanned /\ calendarOccurrences = [d \in calendarDates |-> OccurrenceOf(d)]
  BY DEF CalendarInv
<1>2. calendarDates = {d \in calendarFrom..calendarTo : Calendar!Found(d)}
  BY <1>1, AllPassed
<1>3. calendarFrom..calendarTo \subseteq Calendar!Days
  BY <1>1, Borders
<1>4. \A d \in calendarDates : calendarOccurrences[d].on = Calendar!OutDate(d)
  BY <1>1 DEF OccurrenceOf
<1>5. \A d \in Calendar!Days : Calendar!OutDate(d) \in Calendar!Days /\
        \A e \in Calendar!Days : Calendar!HeldOn(d, e) <=> e = Calendar!OutDate(d)
  BY <1>1, HeldOnOutDate
<1>6. \A d \in calendarDates : Calendar!HeldOn(d, calendarOccurrences[d].on)
  BY <1>2, <1>3, <1>4, <1>5
<1>7. ASSUME NEW e \in calendarFrom..calendarTo,
             \A d \in Calendar!Days \ (calendarFrom..calendarTo) : ~Calendar!HeldOn(d, e)
      PROVE  {d \in calendarDates : calendarOccurrences[d].on = e}
               = {d \in Calendar!Days : Calendar!Found(d) /\ Calendar!HeldOn(d, e)}
  <2>1. ASSUME NEW d \in Calendar!Days
        PROVE  d \in calendarDates /\ calendarOccurrences[d].on = e
                 <=> Calendar!Found(d) /\ Calendar!HeldOn(d, e)
    BY <1>2, <1>3, <1>4, <1>5, <1>7
  <2> QED BY <1>2, <1>3, <2>1
<1> QED BY <1>6, <1>7

LEMMA TimesFit ==
  ASSUME Calendar!CalendarAssumption, calendarRule \in CalendarRules
  PROVE  Calendar!EndsAfterStart
<1>1. /\ calendarRule.start \in Nat \union {Nothing} /\ calendarRule.end \in Nat \union {Nothing}
      /\ calendarRule.nextDay \in BOOLEAN /\ Nothing \notin Int
      /\ calendarRule.newStart \in Nat \union {Nothing}
           /\ calendarRule.newEnd \in Nat \union {Nothing}
  BY RuleFields DEF Calendar!CalendarAssumption
<1> SUFFICES ASSUME Calendar!validateRecurrence(calendarRule), NEW overridden \in BOOLEAN,
                    Calendar!Slot(calendarRule, overridden).start # Nothing,
                    Calendar!Slot(calendarRule, overridden).end # Nothing,
                    ~Calendar!Slot(calendarRule, overridden).nextDay
             PROVE  LET s == Calendar!Slot(calendarRule, overridden) IN
                    \/ s.end > s.start
                    \/ overridden /\ s.end = s.start
                         /\ <<calendarRule.newStart, calendarRule.newEnd>> # <<Nothing, Nothing>>
  BY DEF Calendar!EndsAfterStart
<1>2. calendarRule.start # Nothing /\ calendarRule.end # Nothing /\ ~calendarRule.nextDay
        => calendarRule.end > calendarRule.start
  BY DEF Calendar!validateRecurrence
<1>3. CASE ~overridden
  BY <1>1, <1>2, <1>3 DEF Calendar!Slot
<1>4. CASE overridden
  <2> DEFINE start == Calendar!Moved(calendarRule.newStart, calendarRule.start)
             end == Calendar!Moved(calendarRule.newEnd, calendarRule.end)
  <2>1. /\ Calendar!Slot(calendarRule, overridden).start = start
             /\ Calendar!Slot(calendarRule, overridden).end = end
        /\ Calendar!Slot(calendarRule, overridden).nextDay = (end # Nothing
             /\ Calendar!EndsNextDay(start, end, calendarRule))
    BY <1>4 DEF Calendar!Slot
  <2>2. start \in Nat /\ end \in Nat /\ ~Calendar!EndsNextDay(start, end, calendarRule)
    BY <1>1, <2>1 DEF Calendar!Moved
  <2>3. CASE calendarRule.newStart = Nothing /\ calendarRule.newEnd = Nothing
    <3>1. start = calendarRule.start /\ end = calendarRule.end /\ ~calendarRule.nextDay
      BY <2>2, <2>3 DEF Calendar!Moved, Calendar!EndsNextDay
    <3> QED BY <1>1, <1>2, <2>1, <2>2, <3>1
  <2>4. CASE ~(calendarRule.newStart = Nothing /\ calendarRule.newEnd = Nothing)
    <3>1. start # end => ~(end < start)
      BY <1>1, <2>2, <2>4 DEF Calendar!EndsNextDay
    <3>2. <<calendarRule.newStart, calendarRule.newEnd>> # <<Nothing, Nothing>>
      BY <2>4
    <3> HIDE DEF start, end
    <3>3. end > start \/ end = start
      BY <2>2, <3>1
    <3> QED BY <1>4, <2>1, <3>2, <3>3
  <2> QED BY <2>3, <2>4
<1> QED BY <1>3, <1>4

LEMMA CalendarTyped ==
  ASSUME Calendar!CalendarAssumption, CalendarInv
  PROVE  Calendar!TypeOK
<1>1. /\ calendarRule \in CalendarRules /\ <<calendarFrom, calendarTo>> \in CalendarWindows
           /\ calendarCursor \in Nat
      /\ calendarDates \subseteq calendarFrom..calendarTo
      /\ calendarOccurrences # <<>>
           => Calendar!Scanned /\ DOMAIN calendarOccurrences = calendarDates
  BY DEF CalendarInv
<1>2. calendarFrom..calendarTo \subseteq Calendar!Days
  BY <1>1, Borders
<1> QED BY <1>1, <1>2 DEF Calendar!TypeOK

-----------------------------------------------------------------------------
\* The types of the calendar's loops (services/expand.ts).
THEOREM CalendarAlwaysTyped ==
  ASSUME Calendar!CalendarAssumption
  PROVE  Calendar!Spec => []Calendar!TypeOK
<1>1. Calendar!Init => CalendarInv
  BY CalendarStarts
<1>2. CalendarInv /\ [Calendar!Next]_(Calendar!calendarVars) => CalendarInv'
  BY CalendarSteps
<1>3. CalendarInv => Calendar!TypeOK
  BY CalendarTyped
<1> QED BY <1>1, <1>2, <1>3, PTL DEF Calendar!Spec

\* The loops find exactly the days the rule means (a fortnightly rule's other weeks
\* where clocks went forward since its anchor), announce exactly those that nothing
\* takes off and answer each on the day it is held, a day in full unless something
\* is moved to it from outside the window; and no occurrence ends before it starts
\* (services/expand.ts, validate-recurrence.ts).
THEOREM DaysAlwaysRight ==
  ASSUME Calendar!CalendarAssumption
  PROVE  Calendar!Spec => []Calendar!OccurrencesRight
<1>1. Calendar!Init => CalendarInv
  BY CalendarStarts
<1>2. CalendarInv /\ [Calendar!Next]_(Calendar!calendarVars) => CalendarInv'
  BY CalendarSteps
<1>3. CalendarInv => Calendar!OccurrencesRight
  <2>1. CalendarInv => calendarRule \in CalendarRules
    BY DEF CalendarInv
  <2> QED BY <2>1, MeantFound, DaysAreWhole, TimesFit DEF Calendar!OccurrencesRight
<1> QED BY <1>1, <1>2, <1>3, PTL DEF Calendar!Spec

-----------------------------------------------------------------------------
\* Whichever component runs, the calendar follows its own specification.
LEMMA CalendarRun == Spec => Calendar!Spec
<1>1. Init => Calendar!Init
  BY DEF Init
<1>2. [Next]_deskVars => [Calendar!Next]_(Calendar!calendarVars)
  BY DEF Next, deskVars, calendarState, Calendar!calendarVars
<1> QED BY <1>1, <1>2, PTL DEF Spec, Calendar!Spec, deskVars

\* The loops find the days the rule means, occurrences are answered on the days they
\* are held, and end after they start (expand.ts expandOccurrences, weekIndex,
\* outDate, endsNextDay).
THEOREM OccurrencesAlwaysRight == Spec => []OccurrencesRight
<1>1. Calendar!Spec => []Calendar!OccurrencesRight
  BY DaysAlwaysRight, DeskAssumption
<1>2. Calendar!OccurrencesRight => OccurrencesRight
  BY DEF OccurrencesRight
<1> QED BY <1>1, <1>2, CalendarRun, PTL

-----------------------------------------------------------------------------
(* The seasons.                                                             *)

\* What a submit or a move holds between reading a season and storing it; the
\* current season keeps a label.
SeasonWritersTyped ==
  /\ seasonWriter \in [Writers -> {SeasonPage!Idle} \union
                 [step : {"store"}, link : Seasons \union {Nothing}, text : SeasonLabels]]
  /\ seasonLabels[CurrentSeason] # Nothing

\* A clerk that edits a season has one.
SeasonClerksTyped ==
  /\ seasonClerk \in [Staff -> {SeasonPage!Idle} \union SeasonPage!Requests]
  /\ \A c \in Staff : SeasonPage!At(c, "find") => seasonClerk[c].season \in Seasons

\* A clerk about to write, with no label changed since it looked, has a label no
\* other season bears.
SeasonLabelFree ==
  ~seasonSameLabel => \A c \in Staff : SeasonPage!At(c, "write") /\ ~seasonOvertaken[c]
    => ~SeasonPage!LabelTaken(seasonClerk[c].label, seasonClerk[c].season)

\* A clerk that would change the label of a season, with no registration having
\* joined it since the clerk looked, has a season no registration points at.
SeasonCounted ==
  ~seasonCrossed => \A c \in Staff, w \in Writers :
    (/\ SeasonPage!At(c, "taken") \/ SeasonPage!At(c, "write")
     /\ seasonClerk[c].season # Nothing /\ ~seasonJoined[c]
     /\ seasonLabels[seasonClerk[c].season] # seasonClerk[c].label)
      => seasonLink[w] # seasonClerk[c].season

\* What a writer is about to store agrees.
SeasonHeldAgree ==
  ~seasonCrossed => \A w \in Writers :
    seasonWriter[w].step = "store" /\ seasonWriter[w].link # Nothing
      => seasonWriter[w].text = seasonLabels[seasonWriter[w].link]

SeasonTypes == SeasonPage!TypeOK /\ SeasonClerksTyped /\ SeasonWritersTyped
SeasonIInv == SeasonTypes /\ SeasonPage!LabelsOnce /\ SeasonLabelFree /\ SeasonPage!MarksAgree
  /\ SeasonCounted /\ SeasonHeldAgree

-----------------------------------------------------------------------------
\* A clerk's step is one of its own.
LEMMA SeasonClerkSteps ==
  ASSUME SeasonClerksTyped, NEW c \in Staff
  PROVE  seasonClerk[c] = SeasonPage!Idle \/ seasonClerk[c] \in SeasonPage!Requests
  BY DEF SeasonClerksTyped

\* Everything holds before the first request.
LEMMA SeasonStart ==
  ASSUME SeasonPage!SeasonsAssumption, SeasonPage!Init
  PROVE  SeasonIInv
<1>1. SeasonTypes
  <2>1. SeasonPage!TypeOK
    <3>1. seasonOvertaken \in [Staff -> BOOLEAN] /\ seasonJoined \in [Staff -> BOOLEAN]
            /\ seasonSameLabel \in BOOLEAN
            /\ seasonCrossed \in BOOLEAN
      BY Zenon DEF SeasonPage!Init
    <3> QED BY <3>1 DEF SeasonPage!SeasonsAssumption, SeasonPage!Init, SeasonPage!TypeOK
  <2>2. SeasonClerksTyped
    BY DEF SeasonPage!Init, SeasonClerksTyped, SeasonPage!At, SeasonPage!Idle
  <2>3. SeasonWritersTyped
    BY DEF SeasonPage!SeasonsAssumption, SeasonPage!Init, SeasonWritersTyped
  <2> QED BY <2>1, <2>2, <2>3 DEF SeasonTypes
<1>2. SeasonPage!LabelsOnce
  <2>1. SUFFICES ASSUME NEW s \in Seasons, NEW t \in Seasons,
                        FirstLabels[s] = FirstLabels[t], FirstLabels[s] # Nothing
                 PROVE  s = t
    BY DEF SeasonPage!LabelsOnce, SeasonPage!Init
  <2> QED BY <2>1 DEF SeasonPage!SeasonsAssumption
<1>3. SeasonLabelFree /\ SeasonCounted
  <2>1. \A c \in Staff : ~SeasonPage!At(c, "taken") /\ ~SeasonPage!At(c, "write")
    BY DEF SeasonPage!Init, SeasonPage!At, SeasonPage!Idle
  <2> QED BY <2>1, Zenon DEF SeasonLabelFree, SeasonCounted
<1>4. SeasonPage!MarksAgree /\ SeasonHeldAgree
  BY DEF SeasonPage!Init, SeasonPage!MarksAgree, SeasonHeldAgree, SeasonPage!Idle
<1> QED BY <1>1, <1>2, <1>3, <1>4 DEF SeasonIInv

-----------------------------------------------------------------------------
\* A step of a clerk that only moves the clerk on keeps what it must: it comes to
\* "taken" with no registration of its season, to "write" with a free label, or
\* with the one the season has.
LEMMA SeasonClerkGoesOn ==
  ASSUME SeasonIInv, NEW c \in Staff, NEW next \in {SeasonPage!Idle} \union SeasonPage!Requests,
         SeasonPage!Go(c, next),
         seasonEdits' \in 0..MaxSeasonEdits, seasonOvertaken' \in [Staff -> BOOLEAN],
         \A d \in Staff \ {c} : seasonOvertaken'[d] = seasonOvertaken[d],
         seasonJoined' \in [Staff -> BOOLEAN],
         \A d \in Staff \ {c} : seasonJoined'[d] = seasonJoined[d],
         next.step = "find" => next.season \in Seasons,
         next.step = "write" =>
           ~SeasonPage!LabelTaken(next.label, next.season) \/ seasonSameLabel,
         next.step \in {"taken", "write"} /\ next.season # Nothing =>
           \/ \A w \in Writers : seasonLink[w] # next.season
           \/ seasonCrossed \/ seasonJoined'[c]
           \/ seasonLabels[next.season] = next.label
  PROVE  SeasonIInv'
<1>0. /\ seasonClerk' = [seasonClerk EXCEPT ![c] = next]
      /\ UNCHANGED <<seasonLabels, seasonLink, seasonText, seasonWriter, seasonSameLabel,
           seasonCrossed>>
  BY DEF SeasonPage!Go
<1>1. \A d \in Staff : seasonClerk'[d] = IF d = c THEN next ELSE seasonClerk[d]
  BY <1>0 DEF SeasonIInv, SeasonTypes, SeasonClerksTyped
<1>2. SeasonTypes'
  <2>1. SeasonClerksTyped'
    BY <1>0, <1>1 DEF SeasonPage!At, SeasonIInv, SeasonTypes, SeasonClerksTyped
  <2>2. SeasonPage!TypeOK'
    BY <1>0, <2>1 DEF SeasonIInv, SeasonTypes, SeasonPage!TypeOK, SeasonClerksTyped,
       SeasonPage!Requests, SeasonPage!Idle
  <2>3. SeasonWritersTyped'
    BY <1>0 DEF SeasonIInv, SeasonTypes, SeasonWritersTyped, SeasonPage!Idle
  <2> QED BY <2>1, <2>2, <2>3 DEF SeasonTypes
<1>3. SeasonPage!LabelsOnce' /\ SeasonPage!MarksAgree' /\ SeasonHeldAgree'
  BY <1>0 DEF SeasonIInv, SeasonPage!LabelsOnce, SeasonPage!MarksAgree, SeasonHeldAgree
<1>4. SeasonLabelFree'
  <2> SUFFICES ASSUME ~seasonSameLabel',
                      NEW d \in Staff, SeasonPage!At(d, "write")', ~seasonOvertaken'[d]
               PROVE  (~SeasonPage!LabelTaken(seasonClerk[d].label, seasonClerk[d].season))'
    BY DEF SeasonLabelFree
  <2>1. CASE d = c
    BY <1>0, <1>1, <2>1 DEF SeasonPage!At, SeasonPage!LabelTaken
  <2>2. CASE d # c
    BY <1>0, <1>1, <2>2 DEF SeasonIInv, SeasonLabelFree, SeasonPage!At, SeasonPage!LabelTaken
  <2> QED BY <2>1, <2>2
<1>5. SeasonCounted'
  <2> SUFFICES ASSUME ~seasonCrossed', NEW d \in Staff, NEW w \in Writers,
                      SeasonPage!At(d, "taken")' \/ SeasonPage!At(d, "write")',
                      seasonClerk'[d].season # Nothing, ~seasonJoined'[d],
                      seasonLabels'[seasonClerk'[d].season] # seasonClerk'[d].label
               PROVE  seasonLink'[w] # seasonClerk'[d].season
    BY Zenon DEF SeasonCounted
  <2>1. CASE d = c
    <3>1. seasonClerk'[d] = next
      BY <1>1, <2>1
    <3>2. next.step \in {"taken", "write"} /\ next.season # Nothing
      BY <3>1 DEF SeasonPage!At
    <3>3. ~seasonCrossed /\ ~seasonJoined'[c] /\ seasonLabels[next.season] # next.label
      BY <1>0, <2>1, <3>1
    <3>4. seasonLink[w] # next.season
      BY <3>2, <3>3
    <3> QED BY <1>0, <3>1, <3>4
  <2>2. CASE d # c
    BY <1>0, <1>1, <2>2 DEF SeasonIInv, SeasonCounted, SeasonPage!At
  <2> QED BY <2>1, <2>2
<1> QED BY <1>2, <1>3, <1>4, <1>5 DEF SeasonIInv

\* The requests, the three checks and what they lead to.
LEMMA SeasonAskKeeps ==
  ASSUME SeasonIInv, SeasonPage!SeasonsAssumption, NEW c \in Staff,
         SeasonPage!AskCreate(c) \/ SeasonPage!AskUpdate(c)
  PROVE  SeasonIInv'
<1>1. PICK s \in Seasons \union {Nothing}, l \in SeasonLabels, step \in {"taken", "find"} :
        /\ SeasonPage!Ask(c, [step |-> step, season |-> s, before |-> Nothing, label |-> l])
        /\ step = "taken" => s = Nothing
        /\ step = "find" => s \in Seasons
  BY Zenon DEF SeasonPage!AskCreate, SeasonPage!AskUpdate
<1> DEFINE next == [step |-> step, season |-> s, before |-> Nothing, label |-> l]
<1>2. next \in SeasonPage!Requests /\ next.step # "write"
        /\ (next.step = "taken" => next.season = Nothing)
      /\ (next.step = "find" => next.season \in Seasons)
  BY <1>1 DEF SeasonPage!Requests
<1>3. SeasonPage!Go(c, next) /\ seasonEdits' \in 0..MaxSeasonEdits
  BY <1>1 DEF SeasonPage!Ask, SeasonIInv, SeasonTypes, SeasonPage!TypeOK,
          SeasonPage!SeasonsAssumption
<1>4. seasonOvertaken' \in [Staff -> BOOLEAN]
        /\ \A d \in Staff \ {c} : seasonOvertaken'[d] = seasonOvertaken[d]
  BY <1>1 DEF SeasonPage!Ask, SeasonIInv, SeasonTypes, SeasonPage!TypeOK
<1>5. seasonJoined' \in [Staff -> BOOLEAN]
        /\ \A d \in Staff \ {c} : seasonJoined'[d] = seasonJoined[d]
  BY <1>1 DEF SeasonPage!Ask, SeasonIInv, SeasonTypes, SeasonPage!TypeOK
<1> HIDE DEF next
<1> QED BY <1>2, <1>3, <1>4, <1>5, SeasonClerkGoesOn

\* A season found becomes a count of its registrations, or a write of the label
\* it has, which no other season bears.
LEMMA SeasonFindKeeps ==
  ASSUME SeasonIInv, SeasonPage!SeasonsAssumption, NEW c \in Staff, SeasonPage!Find(c)
  PROVE  SeasonIInv'
<1> DEFINE s == seasonClerk[c].season  l == seasonClerk[c].label
<1>1. seasonClerk[c] \in SeasonPage!Requests /\ seasonClerk[c].step = "find" /\ s \in Seasons
  BY DEF SeasonPage!Find, SeasonPage!At, SeasonIInv, SeasonTypes, SeasonClerksTyped, SeasonPage!Idle
<1>2. l \in SeasonLabels /\ l # Nothing /\ seasonLabels[s] \in SeasonLabels \union {Nothing}
  BY <1>1 DEF SeasonPage!Requests, SeasonPage!SeasonsAssumption, SeasonIInv, SeasonTypes,
     SeasonPage!TypeOK
<1>3. PICK next \in {SeasonPage!Idle} \union SeasonPage!Requests :
        /\ SeasonPage!Go(c, next) /\ next.step \notin {"find", "taken"}
        /\ next.step = "write" => next.season = s /\ next.label = l /\ seasonLabels[s] = l
  <2>1. CASE SeasonPage!Go(c, SeasonPage!Idle)
    BY <2>1 DEF SeasonPage!Idle
  <2>2. CASE seasonLabels[s] # l /\ ~SeasonPage!Go(c, SeasonPage!Idle)
    <3> DEFINE next == [seasonClerk[c] EXCEPT !.step = "count", !.before = seasonLabels[s]]
    <3>1. SeasonPage!Go(c, next)
      BY <2>2 DEF SeasonPage!Find
    <3>2. next.step = "count" /\ next \in SeasonPage!Requests
      BY <1>1, <1>2 DEF SeasonPage!Requests
    <3> QED BY <3>1, <3>2
  <2>3. CASE seasonLabels[s] = l /\ ~SeasonPage!Go(c, SeasonPage!Idle)
    <3> DEFINE next == [seasonClerk[c] EXCEPT !.step = "write"]
    <3>1. SeasonPage!Go(c, next)
      BY <2>3 DEF SeasonPage!Find
    <3>2. next \in SeasonPage!Requests /\ next.season = s /\ next.label = l /\ next.step = "write"
      BY <1>1 DEF SeasonPage!Requests
    <3> QED BY <2>3, <3>1, <3>2
  <2> QED BY <2>1, <2>2, <2>3
<1>4. next.step = "write" => ~SeasonPage!LabelTaken(next.label, next.season) \/ seasonSameLabel
  BY <1>1, <1>2, <1>3 DEF SeasonIInv, SeasonPage!LabelsOnce, SeasonPage!LabelTaken
<1>5. next.step = "write" => seasonLabels[next.season] = next.label
  BY <1>3
<1>6. UNCHANGED <<seasonEdits, seasonOvertaken, seasonJoined>>
  BY DEF SeasonPage!Find
<1> HIDE DEF s, l
<1> QED BY <1>3, <1>4, <1>5, <1>6, SeasonClerkGoesOn DEF SeasonIInv, SeasonTypes, SeasonPage!TypeOK

\* No registration is counted, so none points at the season.
LEMMA SeasonCountKeeps ==
  ASSUME SeasonIInv, NEW c \in Staff, SeasonPage!CountRegistrations(c)
  PROVE  SeasonIInv'
<1>1. seasonClerk[c] \in SeasonPage!Requests /\ seasonClerk[c].step = "count"
  BY DEF SeasonPage!CountRegistrations, SeasonPage!At, SeasonIInv, SeasonTypes, SeasonClerksTyped,
     SeasonPage!Idle
<1>2. PICK next \in {SeasonPage!Idle} \union SeasonPage!Requests :
        /\ SeasonPage!Go(c, next) /\ next.step \notin {"find", "write"}
        /\ next.step = "taken" => \A w \in Writers : seasonLink[w] # next.season
  <2>1. CASE SeasonPage!Registrations(seasonClerk[c].season, seasonClerk[c].before) # {}
    BY <2>1 DEF SeasonPage!CountRegistrations, SeasonPage!Idle
  <2>2. CASE SeasonPage!Registrations(seasonClerk[c].season, seasonClerk[c].before) = {}
    <3> DEFINE next == [seasonClerk[c] EXCEPT !.step = "taken"]
    <3>1. SeasonPage!Go(c, next)
      BY <2>2 DEF SeasonPage!CountRegistrations
    <3>2. next \in SeasonPage!Requests /\ next.step = "taken" /\ next.season = seasonClerk[c].season
      BY <1>1 DEF SeasonPage!Requests
    <3>3. \A w \in Writers : seasonLink[w] # seasonClerk[c].season
      BY <2>2 DEF SeasonPage!Registrations
    <3> QED BY <3>1, <3>2, <3>3
  <2> QED BY <2>1, <2>2
<1>3. UNCHANGED <<seasonEdits, seasonOvertaken, seasonJoined>>
  BY DEF SeasonPage!CountRegistrations
<1> QED BY <1>2, <1>3, SeasonClerkGoesOn DEF SeasonIInv, SeasonTypes, SeasonPage!TypeOK

\* A label that is free may be written.
LEMMA SeasonCheckKeeps ==
  ASSUME SeasonIInv, NEW c \in Staff, SeasonPage!CheckLabel(c)
  PROVE  SeasonIInv'
<1>1. seasonClerk[c] \in SeasonPage!Requests /\ seasonClerk[c].step = "taken"
  BY DEF SeasonPage!CheckLabel, SeasonPage!At, SeasonIInv, SeasonTypes, SeasonClerksTyped,
     SeasonPage!Idle
<1>2. PICK next \in {SeasonPage!Idle} \union SeasonPage!Requests :
        /\ SeasonPage!Go(c, next) /\ next.step \notin {"find", "taken"}
        /\ next.step = "write" => next.season = seasonClerk[c].season
             /\ next.label = seasonClerk[c].label
             /\ ~SeasonPage!LabelTaken(next.label, next.season)
  <2>1. CASE SeasonPage!LabelTaken(seasonClerk[c].label, seasonClerk[c].season)
    BY <2>1 DEF SeasonPage!CheckLabel, SeasonPage!Idle
  <2>2. CASE ~SeasonPage!LabelTaken(seasonClerk[c].label, seasonClerk[c].season)
    <3> DEFINE next == [seasonClerk[c] EXCEPT !.step = "write"]
    <3>1. SeasonPage!Go(c, next)
      BY <2>2 DEF SeasonPage!CheckLabel
    <3>2. next \in SeasonPage!Requests /\ next.season = seasonClerk[c].season
            /\ next.label = seasonClerk[c].label
      BY <1>1 DEF SeasonPage!Requests
    <3>3. next.step \notin {"find", "taken"}
      BY <1>1 DEF SeasonPage!Requests
    <3> QED BY <2>2, <3>1, <3>2, <3>3
  <2> QED BY <2>1, <2>2
<1>3. next.step = "write" /\ next.season # Nothing
        => \/ \A w \in Writers : seasonLink[w] # next.season
           \/ seasonCrossed \/ seasonJoined[c]
           \/ seasonLabels[next.season] = next.label
  BY <1>1, <1>2 DEF SeasonIInv, SeasonCounted, SeasonPage!At
<1>4. UNCHANGED <<seasonEdits, seasonOvertaken, seasonJoined>>
  BY DEF SeasonPage!CheckLabel
<1> QED BY <1>2, <1>3, <1>4, SeasonClerkGoesOn DEF SeasonIInv, SeasonTypes, SeasonPage!TypeOK

-----------------------------------------------------------------------------
\* A label is written.  If it changes, nobody bears it, a season that had one has
\* no registration, and a new one had no label for a mark to agree with.
LEMMA SeasonWriteKeeps ==
  ASSUME SeasonIInv, SeasonPage!SeasonsAssumption, NEW c \in Staff, SeasonPage!WriteSeason(c)
  PROVE  SeasonIInv'
<1> DEFINE t == SeasonPage!Target(c)  l == seasonClerk[c].label
<1>1. seasonClerk[c] \in SeasonPage!Requests /\ seasonClerk[c].step = "write"
  BY DEF SeasonPage!WriteSeason, SeasonPage!At, SeasonIInv, SeasonTypes, SeasonClerksTyped,
     SeasonPage!Idle
<1>2. t \in Seasons /\ (seasonClerk[c].season # Nothing => t = seasonClerk[c].season)
      /\ (seasonClerk[c].season = Nothing => seasonLabels[t] = Nothing)
  BY <1>1 DEF SeasonPage!WriteSeason, SeasonPage!Target, SeasonPage!Requests
<1>3. l \in SeasonLabels /\ l # Nothing
  BY <1>1 DEF SeasonPage!Requests, SeasonPage!SeasonsAssumption
<1>4. /\ seasonLabels' = [seasonLabels EXCEPT ![t] = l]
      /\ seasonClerk' = [seasonClerk EXCEPT ![c] = SeasonPage!Idle]
      /\ seasonOvertaken' = [d \in Staff |-> seasonOvertaken[d]
           \/ (SeasonPage!Changes(c) /\ d # c /\ SeasonPage!At(d, "write"))]
      /\ seasonSameLabel' = (seasonSameLabel \/ (SeasonPage!Changes(c) /\ seasonOvertaken[c]))
      /\ seasonCrossed' = (seasonCrossed \/ (SeasonPage!Changes(c) /\
           (seasonJoined[c] \/ \E w \in Writers : seasonWriter[w].step = "store"
                                                /\ seasonWriter[w].link = t)))
      /\ UNCHANGED <<seasonLink, seasonText, seasonWriter, seasonEdits, seasonJoined>>
  BY DEF SeasonPage!WriteSeason
<1>14. SeasonPage!Changes(c) <=> seasonLabels[t] # l
  BY DEF SeasonPage!Changes
<1> HIDE DEF t, l
<1>5. \A s \in Seasons : seasonLabels'[s] = IF s = t THEN l ELSE seasonLabels[s]
  BY <1>2, <1>4 DEF SeasonIInv, SeasonTypes, SeasonPage!TypeOK
<1>6. \A d \in Staff : seasonClerk'[d] = IF d = c THEN SeasonPage!Idle ELSE seasonClerk[d]
  BY <1>4 DEF SeasonIInv, SeasonTypes, SeasonClerksTyped
<1>7. SeasonTypes'
  <2>1. SeasonPage!TypeOK'
    <3>1. seasonOvertaken' \in [Staff -> BOOLEAN] /\ seasonSameLabel' \in BOOLEAN
            /\ seasonCrossed' \in BOOLEAN
      <4>1. \A d \in Staff : (seasonOvertaken[d]
              \/ (SeasonPage!Changes(c) /\ d # c /\ SeasonPage!At(d, "write"))) \in BOOLEAN
        BY Zenon
      <4>2. seasonOvertaken' \in [Staff -> BOOLEAN]
        BY <1>4, <4>1, Zenon
      <4>3. seasonSameLabel' \in BOOLEAN /\ seasonCrossed' \in BOOLEAN
        BY <1>4, Zenon
      <4> QED BY <4>2, <4>3
    <3> QED BY <1>2, <1>3, <1>4, <1>6, <3>1 DEF SeasonIInv, SeasonTypes, SeasonPage!TypeOK
  <2>2. SeasonClerksTyped'
    BY <1>4, <1>6 DEF SeasonIInv, SeasonTypes, SeasonClerksTyped, SeasonPage!At, SeasonPage!Idle
  <2>3. SeasonWritersTyped'
    BY <1>3, <1>4, <1>5 DEF SeasonIInv, SeasonTypes, SeasonWritersTyped,
       SeasonPage!SeasonsAssumption
  <2> QED BY <2>1, <2>2, <2>3 DEF SeasonTypes
<1>15. ~SeasonPage!Changes(c) =>
         /\ \A s \in Seasons : seasonLabels'[s] = seasonLabels[s]
         /\ \A d \in Staff : seasonOvertaken'[d] = seasonOvertaken[d]
         /\ seasonSameLabel' = seasonSameLabel /\ seasonCrossed' = seasonCrossed
  <2>1. seasonSameLabel \in BOOLEAN /\ seasonCrossed \in BOOLEAN
          /\ \A d \in Staff : seasonOvertaken[d] \in BOOLEAN
    BY DEF SeasonIInv, SeasonTypes, SeasonPage!TypeOK
  <2> QED BY <1>2, <1>4, <1>5, <1>14, <2>1
<1>8. SeasonPage!LabelsOnce'
  <2>4. CASE ~SeasonPage!Changes(c)
    BY <1>15, <2>4 DEF SeasonIInv, SeasonPage!LabelsOnce
  <2> SUFFICES ASSUME SeasonPage!Changes(c), ~seasonSameLabel', NEW s \in Seasons,
                      NEW u \in Seasons,
                      seasonLabels'[s] = seasonLabels'[u], seasonLabels'[s] # Nothing
               PROVE  s = u
    BY <2>4 DEF SeasonPage!LabelsOnce
  <2>1. ~seasonSameLabel /\ ~seasonOvertaken[c]
    BY <1>4
  <2>2. ~SeasonPage!LabelTaken(l, seasonClerk[c].season)
    BY <1>1, <2>1 DEF SeasonIInv, SeasonLabelFree, SeasonPage!At, l
  <2>3. \A v \in Seasons : seasonLabels[v] = l => v = t
    BY <1>2, <1>3, <2>2 DEF SeasonPage!LabelTaken, SeasonPage!SeasonsAssumption
  <2> QED BY <1>5, <2>1, <2>3 DEF SeasonIInv, SeasonPage!LabelsOnce
<1>9. SeasonLabelFree'
  <2> SUFFICES ASSUME ~seasonSameLabel',
                      NEW d \in Staff, SeasonPage!At(d, "write")', ~seasonOvertaken'[d]
               PROVE  ~SeasonPage!LabelTaken(seasonClerk[d].label, seasonClerk[d].season)'
    BY DEF SeasonLabelFree
  <2>1. d # c
    BY <1>6 DEF SeasonPage!At, SeasonPage!Idle
  <2>2. SeasonPage!At(d, "write") /\ seasonClerk'[d] = seasonClerk[d]
    BY <1>6, <2>1 DEF SeasonPage!At
  <2>3. ~SeasonPage!Changes(c)
    BY <1>4, <2>1, <2>2
  <2>4. ~SeasonPage!LabelTaken(seasonClerk[d].label, seasonClerk[d].season)
    BY <1>15, <2>2, <2>3 DEF SeasonIInv, SeasonLabelFree
  <2> QED BY <1>15, <2>2, <2>3, <2>4 DEF SeasonPage!LabelTaken
<1>16. ~seasonCrossed' => ~seasonCrossed
  BY <1>4, <1>15
<1>10. ~seasonCrossed' /\ SeasonPage!Changes(c) => \A w \in Writers : seasonLink[w] # t
  <2> SUFFICES ASSUME ~seasonCrossed', SeasonPage!Changes(c), NEW w \in Writers,
                      seasonLink[w] = t, ~seasonCrossed, ~seasonJoined[c]
               PROVE  FALSE
    BY <1>4, <1>16
  <2>1. CASE seasonClerk[c].season # Nothing
    BY <1>1, <1>2, <1>14, <2>1 DEF SeasonIInv, SeasonCounted, SeasonPage!At, l
  <2>2. CASE seasonClerk[c].season = Nothing
    BY <1>2, <2>2 DEF SeasonIInv, SeasonPage!MarksAgree, SeasonTypes, SeasonPage!TypeOK,
       SeasonPage!SeasonsAssumption
  <2> QED BY <2>1, <2>2
<1>11. SeasonPage!MarksAgree'
  <2> SUFFICES ASSUME ~seasonCrossed', NEW w \in Writers, seasonLink[w] # Nothing
               PROVE  seasonText[w] = seasonLabels'[seasonLink[w]]
    BY <1>4 DEF SeasonPage!MarksAgree
  <2>1. seasonLink[w] \in Seasons /\ seasonText[w] = seasonLabels[seasonLink[w]]
    BY <1>16 DEF SeasonIInv, SeasonPage!MarksAgree, SeasonTypes, SeasonPage!TypeOK
  <2> QED BY <1>5, <1>10, <1>15, <2>1
<1>12. SeasonCounted'
  <2> SUFFICES ASSUME ~seasonCrossed', NEW d \in Staff, NEW w \in Writers,
                      SeasonPage!At(d, "taken")' \/ SeasonPage!At(d, "write")',
                      seasonClerk'[d].season # Nothing, ~seasonJoined'[d],
                      seasonLabels'[seasonClerk'[d].season] # seasonClerk'[d].label
               PROVE  seasonLink'[w] # seasonClerk'[d].season
    BY Zenon DEF SeasonCounted
  <2>1. d # c /\ seasonClerk'[d] = seasonClerk[d]
    BY <1>6 DEF SeasonPage!At, SeasonPage!Idle
  <2>2. seasonClerk[d].season \in Seasons
    BY <2>1 DEF SeasonPage!At, SeasonIInv, SeasonTypes, SeasonClerksTyped, SeasonPage!Requests,
       SeasonPage!Idle
  <2>3. CASE SeasonPage!Changes(c) /\ seasonClerk[d].season = t
    BY <1>4, <1>10, <2>1, <2>3
  <2>4. CASE ~(SeasonPage!Changes(c) /\ seasonClerk[d].season = t)
    <3>1. seasonLabels[seasonClerk[d].season] # seasonClerk[d].label
      BY <1>5, <1>15, <2>1, <2>2, <2>4
    <3> QED BY <1>4, <1>16, <2>1, <3>1 DEF SeasonIInv, SeasonCounted, SeasonPage!At
  <2> QED BY <2>3, <2>4
<1>13. SeasonHeldAgree'
  <2> SUFFICES ASSUME ~seasonCrossed', NEW w \in Writers, seasonWriter[w].step = "store",
                      seasonWriter[w].link # Nothing
               PROVE  seasonWriter[w].text = seasonLabels'[seasonWriter[w].link]
    BY <1>4 DEF SeasonHeldAgree
  <2>1. SeasonPage!Changes(c) => seasonWriter[w].link # t
    BY <1>4
  <2>2. seasonWriter[w].link \in Seasons
    BY DEF SeasonIInv, SeasonTypes, SeasonWritersTyped, SeasonPage!Idle
  <2>3. seasonWriter[w].text = seasonLabels[seasonWriter[w].link]
    BY <1>16 DEF SeasonIInv, SeasonHeldAgree
  <2> QED BY <1>5, <1>15, <2>1, <2>2, <2>3
<1> QED BY <1>7, <1>8, <1>9, <1>11, <1>12, <1>13 DEF SeasonIInv

-----------------------------------------------------------------------------
\* A submit or a move reads a season and its label together.
LEMMA SeasonReadKeeps ==
  ASSUME SeasonIInv, SeasonPage!SeasonsAssumption, NEW w \in Writers,
         SeasonPage!ReadCurrent(w) \/ SeasonPage!FindTarget(w)
  PROVE  SeasonIInv'
<1>1. PICK s \in Seasons \union {Nothing}, l \in SeasonLabels :
        SeasonPage!ReadSeason(w, s, l) /\ (s # Nothing => seasonLabels[s] = l)
  <2>1. CASE SeasonPage!ReadCurrent(w)
    BY <2>1 DEF SeasonPage!ReadCurrent, SeasonIInv, SeasonTypes, SeasonPage!TypeOK,
            SeasonWritersTyped, SeasonPage!SeasonsAssumption
  <2>2. CASE SeasonPage!FindTarget(w)
    <3>1. PICK l \in SeasonLabels : SeasonPage!ReadSeason(w, SeasonPage!SeasonIdFor(l), l)
      BY <2>2 DEF SeasonPage!FindTarget
    <3>2. SeasonPage!SeasonIdFor(l) \in Seasons \union {Nothing}
          /\ (SeasonPage!SeasonIdFor(l) # Nothing => seasonLabels[SeasonPage!SeasonIdFor(l)] = l)
      BY DEF SeasonPage!SeasonIdFor
    <3> QED BY <3>1, <3>2
  <2> QED BY <2>1, <2>2
<1>2. /\ seasonWriter' = [seasonWriter EXCEPT ![w] = [step |-> "store", link |-> s, text |-> l]]
      /\ UNCHANGED <<seasonLabels, seasonLink, seasonText, seasonClerk, seasonEdits,
           seasonOvertaken, seasonJoined, seasonSameLabel, seasonCrossed>>
  BY <1>1 DEF SeasonPage!ReadSeason
<1>3. SeasonPage!TypeOK' /\ SeasonClerksTyped' /\ SeasonPage!LabelsOnce' /\ SeasonLabelFree'
        /\ SeasonPage!MarksAgree' /\ SeasonCounted'
  BY <1>2 DEF SeasonIInv, SeasonTypes, SeasonPage!TypeOK, SeasonClerksTyped, SeasonPage!LabelsOnce,
          SeasonLabelFree, SeasonPage!LabelTaken, SeasonPage!MarksAgree, SeasonCounted,
          SeasonPage!At
<1>4. SeasonWritersTyped'
  BY <1>2 DEF SeasonIInv, SeasonTypes, SeasonWritersTyped
<1>5. SeasonHeldAgree'
  BY <1>1, <1>2 DEF SeasonIInv, SeasonHeldAgree, SeasonTypes, SeasonWritersTyped
<1> QED BY <1>3, <1>4, <1>5 DEF SeasonIInv, SeasonTypes

\* Both marks are stored: that joins the season, which the clerks about to write
\* its label have not seen.
LEMMA SeasonStoreKeeps ==
  ASSUME SeasonIInv, SeasonPage!SeasonsAssumption, NEW w \in Writers, SeasonPage!StoreBoth(w)
  PROVE  SeasonIInv'
<1>1. /\ seasonWriter[w].step = "store"
      /\ seasonWriter[w].link \in Seasons \union {Nothing} /\ seasonWriter[w].text \in SeasonLabels
  BY DEF SeasonPage!StoreBoth, SeasonIInv, SeasonTypes, SeasonWritersTyped, SeasonPage!Idle
<1>2. /\ seasonLink' = [seasonLink EXCEPT ![w] = seasonWriter[w].link]
      /\ seasonText' = [seasonText EXCEPT ![w] = seasonWriter[w].text]
      /\ seasonWriter' = [seasonWriter EXCEPT ![w] = SeasonPage!Idle]
      /\ seasonJoined' = [c \in Staff |-> seasonJoined[c] \/
                             (/\ seasonClerk[c].step \in {"taken", "write"}
                              /\ seasonClerk[c].season = seasonWriter[w].link
                              /\ seasonWriter[w].link # Nothing)]
      /\ UNCHANGED <<seasonLabels, seasonClerk, seasonEdits, seasonOvertaken, seasonSameLabel,
           seasonCrossed>>
  BY DEF SeasonPage!StoreBoth, SeasonPage!Joins
<1>3. \A v \in Writers : /\ seasonLink'[v] = IF v = w THEN seasonWriter[w].link ELSE seasonLink[v]
                         /\ seasonText'[v] = IF v = w THEN seasonWriter[w].text ELSE seasonText[v]
                         /\ seasonWriter'[v] = IF v = w THEN SeasonPage!Idle ELSE seasonWriter[v]
  BY <1>2 DEF SeasonIInv, SeasonTypes, SeasonPage!TypeOK, SeasonWritersTyped
<1>4. SeasonTypes'
  <2>1. seasonJoined' \in [Staff -> BOOLEAN]
    <3>1. \A c \in Staff : (seasonJoined[c] \/
            (/\ seasonClerk[c].step \in {"taken", "write"}
             /\ seasonClerk[c].season = seasonWriter[w].link
             /\ seasonWriter[w].link # Nothing)) \in BOOLEAN
      BY Zenon
    <3> QED BY <1>2, <3>1, Zenon
  <2>2. SeasonPage!TypeOK'
    BY <1>1, <1>2, <1>3, <2>1 DEF SeasonIInv, SeasonTypes, SeasonPage!TypeOK,
       SeasonPage!SeasonsAssumption
  <2>3. SeasonClerksTyped' /\ SeasonWritersTyped'
    BY <1>2 DEF SeasonIInv, SeasonTypes, SeasonClerksTyped, SeasonWritersTyped, SeasonPage!At
  <2> QED BY <2>2, <2>3 DEF SeasonTypes
<1>5. SeasonPage!LabelsOnce' /\ SeasonLabelFree'
  BY <1>2 DEF SeasonIInv, SeasonPage!LabelsOnce, SeasonLabelFree, SeasonPage!LabelTaken,
          SeasonPage!At
<1>6. \A c \in Staff : ~seasonJoined'[c] =>
        /\ ~seasonJoined[c]
        /\ ~(/\ seasonClerk[c].step \in {"taken", "write"}
             /\ seasonClerk[c].season = seasonWriter[w].link
             /\ seasonWriter[w].link # Nothing)
  BY <1>2, Zenon
<1>7. seasonLabels' = seasonLabels /\ seasonClerk' = seasonClerk /\ seasonCrossed' = seasonCrossed
  BY <1>2
<1>8. SeasonPage!MarksAgree'
  BY <1>1, <1>3, <1>7 DEF SeasonIInv, SeasonPage!MarksAgree, SeasonHeldAgree
<1>9. SeasonCounted'
  <2> SUFFICES ASSUME ~seasonCrossed', NEW d \in Staff, NEW v \in Writers,
                      SeasonPage!At(d, "taken")' \/ SeasonPage!At(d, "write")',
                      seasonClerk'[d].season # Nothing, ~seasonJoined'[d],
                      seasonLabels'[seasonClerk'[d].season] # seasonClerk'[d].label
               PROVE  seasonLink'[v] # seasonClerk'[d].season
    BY Zenon DEF SeasonCounted
  <2>1. CASE v = w
    BY <1>3, <1>6, <1>7, <2>1 DEF SeasonPage!At
  <2>2. CASE v # w
    BY <1>3, <1>6, <1>7, <2>2 DEF SeasonIInv, SeasonCounted, SeasonPage!At
  <2> QED BY <2>1, <2>2
<1>10. SeasonHeldAgree'
  BY <1>3, <1>7 DEF SeasonIInv, SeasonHeldAgree, SeasonPage!Idle
<1> QED BY <1>4, <1>5, <1>8, <1>9, <1>10 DEF SeasonIInv

\* A deleted registration has no mark left to disagree.
LEMMA SeasonDeleteKeeps ==
  ASSUME SeasonIInv, SeasonPage!SeasonsAssumption, NEW w \in Writers, SeasonPage!Delete(w)
  PROVE  SeasonIInv'
<1>1. /\ seasonLink' = [seasonLink EXCEPT ![w] = Nothing]
           /\ seasonText' = [seasonText EXCEPT ![w] = Nothing]
      /\ UNCHANGED <<seasonLabels, seasonClerk, seasonWriter, seasonEdits, seasonOvertaken,
           seasonJoined, seasonSameLabel, seasonCrossed>>
  BY DEF SeasonPage!Delete
<1>2. \A v \in Writers : /\ seasonLink'[v] = IF v = w THEN Nothing ELSE seasonLink[v]
                         /\ seasonText'[v] = IF v = w THEN Nothing ELSE seasonText[v]
  BY <1>1 DEF SeasonIInv, SeasonTypes, SeasonPage!TypeOK
<1>3. SeasonTypes'
  BY <1>1, <1>2 DEF SeasonIInv, SeasonTypes, SeasonPage!TypeOK, SeasonClerksTyped,
     SeasonWritersTyped, SeasonPage!At
<1>4. SeasonPage!LabelsOnce' /\ SeasonLabelFree' /\ SeasonHeldAgree'
  BY <1>1 DEF SeasonIInv, SeasonPage!LabelsOnce, SeasonLabelFree, SeasonPage!LabelTaken,
          SeasonHeldAgree, SeasonPage!At
<1>5. SeasonPage!MarksAgree' /\ SeasonCounted'
  BY <1>1, <1>2 DEF SeasonIInv, SeasonPage!MarksAgree, SeasonCounted, SeasonPage!At
<1> QED BY <1>3, <1>4, <1>5 DEF SeasonIInv

-----------------------------------------------------------------------------
\* Every step keeps the invariant.
LEMMA SeasonStepKeeps ==
  ASSUME SeasonIInv, SeasonPage!SeasonsAssumption, [SeasonPage!Next]_(SeasonPage!seasonVars)
  PROVE  SeasonIInv'
<1>1. CASE UNCHANGED SeasonPage!seasonVars
  BY <1>1 DEF SeasonPage!seasonVars, SeasonIInv, SeasonTypes, SeasonPage!TypeOK, SeasonClerksTyped,
          SeasonWritersTyped, SeasonPage!LabelsOnce, SeasonLabelFree,
              SeasonPage!LabelTaken, SeasonPage!MarksAgree, SeasonCounted, SeasonHeldAgree,
              SeasonPage!At
<1>2. ASSUME NEW c \in Staff, SeasonPage!AskCreate(c) \/ SeasonPage!AskUpdate(c)
      PROVE  SeasonIInv'
  BY <1>2, SeasonAskKeeps
<1>3. ASSUME NEW c \in Staff, SeasonPage!Find(c) \/ SeasonPage!CountRegistrations(c)
               \/ SeasonPage!CheckLabel(c) \/ SeasonPage!WriteSeason(c)
      PROVE  SeasonIInv'
  BY <1>3, SeasonFindKeeps, SeasonCountKeeps, SeasonCheckKeeps, SeasonWriteKeeps
<1>4. ASSUME NEW w \in Writers, SeasonPage!ReadCurrent(w) \/ SeasonPage!FindTarget(w)
               \/ SeasonPage!StoreBoth(w) \/ SeasonPage!Delete(w)
      PROVE  SeasonIInv'
  BY <1>4, SeasonReadKeeps, SeasonStoreKeeps, SeasonDeleteKeeps
<1> QED BY <1>1, <1>2, <1>3, <1>4 DEF SeasonPage!Next

\* Type correctness of the seasons (season-admin-service.ts, submits and moves).
THEOREM SeasonsTyped ==
  ASSUME SeasonPage!SeasonsAssumption
  PROVE  SeasonPage!Spec => []SeasonPage!TypeOK
<1>1. SeasonPage!Init => SeasonIInv
  BY SeasonStart
<1>2. SeasonIInv /\ [SeasonPage!Next]_(SeasonPage!seasonVars) => SeasonIInv'
  BY SeasonStepKeeps
<1>3. SeasonIInv => SeasonPage!TypeOK
  BY DEF SeasonIInv, SeasonTypes
<1> QED BY <1>1, <1>2, <1>3, PTL DEF SeasonPage!Spec

\* Two seasons share a label only after a clerk stored a label over another one
\* while some label had changed since it looked: a rename or a new season past its
\* check, or an edit of the fee that puts the old label back
\* (season-admin-store.ts labelTaken, season-admin-service.ts:61).
THEOREM LabelsFindOne ==
  ASSUME SeasonPage!SeasonsAssumption
  PROVE  SeasonPage!Spec => []SeasonPage!LabelsOnce
<1>1. SeasonPage!Init => SeasonIInv
  BY SeasonStart
<1>2. SeasonIInv /\ [SeasonPage!Next]_(SeasonPage!seasonVars) => SeasonIInv'
  BY SeasonStepKeeps
<1>3. SeasonIInv => SeasonPage!LabelsOnce
  BY DEF SeasonIInv
<1> QED BY <1>1, <1>2, <1>3, PTL DEF SeasonPage!Spec

\* The marks of a registration name one season unless its label was changed, by a
\* rename past its count or by an edit of the fee that puts the old label back,
\* while a registration joined it (season-admin-service.ts updateRefusal, :61).
THEOREM MarksNameOne ==
  ASSUME SeasonPage!SeasonsAssumption
  PROVE  SeasonPage!Spec => []SeasonPage!MarksAgree
<1>1. SeasonPage!Init => SeasonIInv
  BY SeasonStart
<1>2. SeasonIInv /\ [SeasonPage!Next]_(SeasonPage!seasonVars) => SeasonIInv'
  BY SeasonStepKeeps
<1>3. SeasonIInv => SeasonPage!MarksAgree
  BY DEF SeasonIInv
<1> QED BY <1>1, <1>2, <1>3, PTL DEF SeasonPage!Spec

\* Whichever component runs, the seasons follow their own specification.
LEMMA SeasonsRun == Spec => SeasonPage!Spec
<1>1. Init => SeasonPage!Init
  BY DEF Init
<1>2. [Next]_deskVars => [SeasonPage!Next]_(SeasonPage!seasonVars)
  BY DEF Next, deskVars, seasonState, SeasonPage!seasonVars
<1> QED BY <1>1, <1>2, PTL DEF Spec, SeasonPage!Spec, deskVars

\* Labels find one season and the two marks of a registration name one
\* (season-admin-store.ts labelTaken, season-admin-service.ts updateRefusal).
THEOREM SeasonsAlwaysAgree == Spec => []SeasonsAgree
<1>1. SeasonPage!Spec => []SeasonPage!LabelsOnce
  BY LabelsFindOne, DeskAssumption
<1>2. SeasonPage!Spec => []SeasonPage!MarksAgree
  BY MarksNameOne, DeskAssumption
<1>3. SeasonPage!LabelsOnce /\ SeasonPage!MarksAgree => SeasonsAgree
  BY DEF SeasonsAgree
<1> QED BY <1>1, <1>2, <1>3, SeasonsRun, PTL

-----------------------------------------------------------------------------
(* The scheduled passes.                                                    *)

PassTicks == [step : {"none", "look", "pass", "stamp"}, at : Nat, left : Seq(Passes!FormSet),
  found : Nat]
PassSaves == [form : Passes!FormSet, patch : Passes!Patches, found : Nat]

PassTickTyped ==
  /\ passTick \in PassTicks
  /\ passTick.step # "none" => passTick.left # <<>>
  /\ passTick.step = "none" => passTick = Passes!NoTick

PassSavesTyped == passSave \in [Staff -> {Passes!NoSave} \union PassSaves]

\* A save under way names a row that is there or, with none there, is the only
\* one of its form unless the form's first saves overlapped.
PassFound ==
  /\ \A a \in Staff : passSave[a] \in PassSaves =>
       LET f == passSave[a].form IN
       IF passSave[a].found # 0 THEN passSave[a].found \in DOMAIN passLinks[f]
       ELSE f \notin passOverlapped =>
              passLinks[f] = <<>> /\ \A b \in Staff \ {a} : passSave[b] \in PassSaves => passSave[b].form # f
  /\ passTick.step = "pass" => passLinks[Head(passTick.left)] # <<>>
  /\ passTick.step = "stamp" => passTick.found \in DOMAIN passLinks[Head(passTick.left)]

\* A stamp is the instant of the tick of the hour it was made in.
PassInHour(t, h) == \E d \in Lateness : t = h * Hour + d
PassStamped ==
  /\ passTick.step # "none" => PassInHour(passTick.at, passHour)
  /\ \A f \in Passes!FormSet :
       /\ passLinks[f] = <<>> => passRan[f] = Nothing
       /\ Len(passLinks[f]) = 1 =>
            IF passRan[f] = Nothing THEN passLinks[f][1].stamp = Nothing
            ELSE passRan[f] <= passHour /\ passLinks[f][1].stamp \in Nat
                   /\ PassInHour(passLinks[f][1].stamp, passRan[f])

PassTypes == Passes!TypeOK /\ PassTickTyped /\ PassSavesTyped
PassIInv == PassTypes /\ Passes!OneLink /\ PassFound /\ PassStamped

-----------------------------------------------------------------------------
(* Rows and patches.                                                       *)

PassTyped(r) ==
  /\ ("file" \in DOMAIN r => r["file"] \in BOOLEAN)
  /\ ("enabled" \in DOMAIN r => r["enabled"] \in BOOLEAN)
  /\ ("interval" \in DOMAIN r => r["interval"] \in PassIntervals)
  /\ ("stamp" \in DOMAIN r => r["stamp"] \in Nat \union {Nothing})

\* A row with a patch laid over it is a row, and keeps the columns the patch leaves out.
LEMMA PassLaidRow ==
  ASSUME Passes!ScheduleAssumption, NEW row \in Passes!Row,
         NEW patch \in Passes!Patches \union {[stamp |-> n] : n \in Nat}
  PROVE  /\ Passes!With(row, patch) \in Passes!Row
         /\ \A c \in DOMAIN row : Passes!With(row, patch)[c] = IF c \in DOMAIN patch THEN patch[c]
              ELSE row[c]
<1> DEFINE new == Passes!With(row, patch)
<1>1. DOMAIN row = {"file", "enabled", "interval", "stamp"}
  BY DEF Passes!Row
<1>2. DOMAIN new = {"file", "enabled", "interval", "stamp"}
  BY <1>1 DEF Passes!With
<1>3. \A c \in DOMAIN row : new[c] = IF c \in DOMAIN patch THEN patch[c] ELSE row[c]
  BY DEF Passes!With
<1>6. PassTyped(patch)
  <2>1. CASE patch = [file |-> TRUE, enabled |-> TRUE]
    BY <2>1 DEF PassTyped
  <2>2. CASE patch = [file |-> FALSE]
    BY <2>2 DEF PassTyped
  <2>3. ASSUME NEW b \in BOOLEAN, patch = [enabled |-> b] PROVE PassTyped(patch)
    BY <2>3 DEF PassTyped
  <2>4. ASSUME NEW h \in PassIntervals, patch = [interval |-> h] PROVE PassTyped(patch)
    BY <2>4 DEF PassTyped
  <2>5. ASSUME NEW n \in Nat, patch = [stamp |-> n] PROVE PassTyped(patch)
    BY <2>5 DEF PassTyped
  <2> QED BY <2>1, <2>2, <2>3, <2>4, <2>5 DEF Passes!Patches
<1>7. PassTyped(row)
  BY DEF Passes!Row, PassTyped
<1>4. new["file"] \in BOOLEAN /\ new["enabled"] \in BOOLEAN /\ new["interval"] \in PassIntervals
      /\ new["stamp"] \in Nat \union {Nothing}
  BY <1>1, <1>3, <1>6, <1>7 DEF PassTyped
<1>5. new = [file |-> new["file"], enabled |-> new["enabled"], interval |-> new["interval"],
        stamp |-> new["stamp"]]
  BY <1>2 DEF Passes!With
<1> QED BY <1>3, <1>4, <1>5 DEF Passes!Row

\* A save of an administrator leaves the stamp.
LEMMA PassPatchesNoStamp ==
  ASSUME NEW patch \in Passes!Patches
  PROVE  "stamp" \notin DOMAIN patch
  BY DEF Passes!Patches

\* A created row is a row with no stamp.
LEMMA PassBlankRow ==
  ASSUME Passes!ScheduleAssumption
  PROVE  Passes!Blank \in Passes!Row /\ Passes!Blank.stamp = Nothing
  BY DEF Passes!ScheduleAssumption, Passes!Blank, Passes!Row

\* What saveLink leaves: a row more, or one row changed.
LEMMA PassStoredRows ==
  ASSUME Passes!ScheduleAssumption, NEW f \in Passes!FormSet, passLinks[f] \in Seq(Passes!Row),
         NEW found \in Nat, found = 0 \/ found \in DOMAIN passLinks[f],
         NEW patch \in Passes!Patches \union {[stamp |-> n] : n \in Nat}
  PROVE  LET new == Passes!Stored(f, found, patch) IN
         /\ new \in Seq(Passes!Row)
         /\ found = 0 => /\ Len(new) = Len(passLinks[f]) + 1
                         /\ new[Len(passLinks[f]) + 1] = Passes!With(Passes!Blank, patch)
                         /\ \A i \in DOMAIN passLinks[f] : new[i] = passLinks[f][i]
         /\ found # 0 => /\ Len(new) = Len(passLinks[f])
                         /\ \A i \in DOMAIN passLinks[f] :
                              new[i] = IF i = found THEN Passes!With(passLinks[f][found], patch)
                                ELSE passLinks[f][i]
<1>1. CASE found = 0
  <2>1. Passes!With(Passes!Blank, patch) \in Passes!Row
    BY PassBlankRow, PassLaidRow
  <2> QED BY <1>1, <2>1 DEF Passes!Stored
<1>2. CASE found # 0
  <2>1. Passes!With(passLinks[f][found], patch) \in Passes!Row
    BY <1>2, PassLaidRow
  <2> QED BY <1>2, <2>1 DEF Passes!Stored
<1> QED BY <1>1, <1>2

-----------------------------------------------------------------------------
\* Everything holds of the rows stored at first.
LEMMA PassStart ==
  ASSUME Passes!ScheduleAssumption, Passes!Init
  PROVE  PassIInv
<1>1. PassTypes
  <2>1. PassTickTyped
    BY DEF Passes!Init, PassTickTyped, Passes!NoTick, PassTicks
  <2>2. PassSavesTyped
    BY DEF Passes!Init, PassSavesTyped
  <2>3. Passes!TypeOK
    BY DEF Passes!Init, Passes!TypeOK, Passes!NoTick, Passes!ScheduleAssumption
  <2> QED BY <2>1, <2>2, <2>3 DEF PassTypes
<1>2. Passes!NoSave \notin PassSaves
  BY DEF Passes!NoSave, PassSaves
<1>3. Passes!OneLink
  BY DEF Passes!Init, Passes!OneLink, Passes!ScheduleAssumption
<1>4. PassFound
  BY <1>2 DEF Passes!Init, PassFound, Passes!NoTick
<1>5. PassStamped
  BY DEF Passes!Init, PassStamped, Passes!NoTick, Passes!ScheduleAssumption
<1> QED BY <1>1, <1>3, <1>4, <1>5 DEF PassIInv

-----------------------------------------------------------------------------
\* A step of the task that stores nothing.
LEMMA PassTickGoesOn ==
  ASSUME PassIInv, Passes!ScheduleAssumption,
         UNCHANGED <<passLinks, passSave, passSaves, passRan, passOverlapped>>,
         passHour' \in 0..MaxHours, passHour <= passHour', passFaults' \in 0..MaxPassFaults,
         PassTickTyped',
         passTick'.step # "none" => PassInHour(passTick'.at, passHour'),
         passTick'.step = "pass" => passLinks[Head(passTick'.left)] # <<>>,
         passTick'.step = "stamp" => passTick'.found \in DOMAIN passLinks[Head(passTick'.left)]
  PROVE  PassIInv'
<1>1. Passes!TypeOK'
  BY DEF PassIInv, PassTypes, Passes!TypeOK, PassTickTyped, PassTicks, Passes!NoTick
<1>2. PassSavesTyped' /\ Passes!OneLink' /\ PassFound'
  BY DEF PassIInv, PassTypes, PassSavesTyped, Passes!OneLink, PassFound
<1>3. PassStamped'
  BY DEF PassIInv, PassStamped, PassTypes, Passes!TypeOK, PassInHour, Passes!ScheduleAssumption
<1> QED BY <1>1, <1>2, <1>3 DEF PassIInv, PassTypes

\* On to the next form, or the tick is over.
LEMMA PassOnToTyped ==
  ASSUME PassIInv, passTick.step # "none"
  PROVE  /\ Passes!OnTo \in PassTicks
         /\ Passes!OnTo.step \in {"look", "none"}
              /\ (Passes!OnTo.step = "none" => Passes!OnTo = Passes!NoTick)
         /\ Passes!OnTo.step # "none" => Passes!OnTo.left # <<>> /\ Passes!OnTo.at = passTick.at
<1>1. passTick \in PassTicks /\ passTick.left \in Seq(Passes!FormSet) /\ passTick.left # <<>>
  BY DEF PassIInv, PassTypes, PassTickTyped, PassTicks
<1>2. CASE Len(passTick.left) = 1
  BY <1>2 DEF Passes!OnTo, Passes!NoTick, PassTicks
<1>3. CASE Len(passTick.left) # 1
  <2>1. Tail(passTick.left) \in Seq(Passes!FormSet) /\ Tail(passTick.left) # <<>>
    <3>1. Len(passTick.left) \in Nat \ {0}
      BY <1>1, EmptySeq
    <3>2. Tail(passTick.left) \in Seq(Passes!FormSet)
            /\ Len(Tail(passTick.left)) = Len(passTick.left) - 1
      BY <1>1, HeadTailProperties
    <3>3. Len(Tail(passTick.left)) # 0
      BY <1>3, <3>1, <3>2
    <3>4. Tail(passTick.left) # <<>>
      BY <3>2, <3>3, EmptySeq
    <3> QED BY <3>2, <3>4
  <2> QED BY <1>1, <1>3, <2>1 DEF Passes!OnTo, PassTicks
<1> QED BY <1>2, <1>3

\* The instant of a tick.
LEMMA PassInstant ==
  ASSUME NEW m \in Nat, NEW n \in Nat, NEW d \in Nat
  PROVE  m * n + d \in Nat
<1>1. m * n \in Nat
  BY SMT
<1> QED BY <1>1

\* The steps of the task but the stamp.
LEMMA PassTickSteps ==
  ASSUME PassIInv, Passes!ScheduleAssumption,
         Passes!TickStarts \/ Passes!TickMissed \/ Passes!Look \/ Passes!LookFails
           \/ Passes!PassEnds \/ Passes!StampFails
  PROVE  PassIInv'
<1>1. passHour \in 0..MaxHours /\ passHour \in Nat /\ passFaults \in 0..MaxPassFaults
        /\ MaxHours \in Nat /\ MaxPassFaults \in Nat
  BY DEF PassIInv, PassTypes, Passes!TypeOK, Passes!ScheduleAssumption
<1>2. passTick \in PassTicks
  BY DEF PassIInv, PassTypes, PassTickTyped
<1>3. CASE Passes!TickStarts
  <2>1. PICK d \in Lateness :
          /\ passTick = Passes!NoTick /\ passHour < MaxHours /\ passHour' = passHour + 1
          /\ passTick' = [step |-> "look", at |-> passHour' * Hour + d, left |-> SheetForms,
               found |-> 0]
          /\ UNCHANGED <<passLinks, passSave, passSaves, passFaults, passRan, passOverlapped>>
    BY <1>3 DEF Passes!TickStarts
  <2>2. passHour' \in Nat /\ Hour \in Nat /\ d \in Nat /\ passHour' * Hour + d \in Nat
    <3>1. passHour' \in Nat /\ Hour \in Nat /\ d \in Nat
      BY <1>1, <2>1 DEF Passes!ScheduleAssumption
    <3>2. passHour' * Hour + d \in Nat
      BY <3>1, PassInstant
    <3> QED BY <3>1, <3>2
  <2>3. PassTickTyped'
    BY <2>1, <2>2 DEF PassTickTyped, PassTicks, Passes!ScheduleAssumption
  <2>4. PassInHour(passTick'.at, passHour')
    BY <2>1 DEF PassInHour
  <2>5. passTick'.step = "look"
    BY <2>1
  <2> QED BY <1>1, <2>1, <2>3, <2>4, <2>5, PassTickGoesOn
<1>4. CASE Passes!TickMissed
  BY <1>1, <1>4, PassTickGoesOn
       DEF Passes!TickMissed, Passes!NoTick, PassIInv, PassTypes, PassTickTyped, PassTicks
<1>5. CASE passTick' = Passes!OnTo /\ passTick.step # "none" /\ passHour' = passHour
             /\ passFaults' \in 0..MaxPassFaults
           /\ UNCHANGED <<passLinks, passSave, passSaves, passRan, passOverlapped>>
  <2>1. PassTickTyped' /\ passTick'.step \in {"look", "none"}
    BY <1>5, PassOnToTyped DEF PassTickTyped
  <2>2. passTick'.step # "none" => PassInHour(passTick'.at, passHour')
    BY <1>5, PassOnToTyped DEF PassIInv, PassStamped, PassInHour
  <2> QED BY <1>1, <1>5, <2>1, <2>2, PassTickGoesOn
<1>6. CASE Passes!Look /\ passTick' # Passes!OnTo
  <2>1. /\ passTick.step = "look" /\ passTick' = [passTick EXCEPT !.step = "pass"]
        /\ \E i \in Passes!FindFirst(Head(passTick.left)) : i # 0
        /\ UNCHANGED <<passLinks, passHour, passSave, passSaves, passFaults, passRan,
             passOverlapped>>
    BY <1>6 DEF Passes!Look
  <2>2. passTick' \in PassTicks /\ passTick'.step = "pass" /\ passTick'.left = passTick.left
          /\ passTick'.at = passTick.at
    BY <1>2, <2>1 DEF PassTicks
  <2>3. PassTickTyped'
    BY <2>1, <2>2 DEF PassIInv, PassTypes, PassTickTyped
  <2>4. passLinks[Head(passTick'.left)] # <<>>
    BY <2>1, <2>2 DEF Passes!FindFirst
  <2>5. PassInHour(passTick'.at, passHour')
    BY <2>1, <2>2 DEF PassIInv, PassStamped, PassInHour
  <2> QED BY <1>1, <2>1, <2>2, <2>3, <2>4, <2>5, PassTickGoesOn
<1>7. CASE Passes!PassEnds
  <2>1. PICK i \in Passes!FindFirst(Head(passTick.left)) :
          /\ passTick.step = "pass" /\ passTick' = [passTick EXCEPT !.step = "stamp", !.found = i]
          /\ UNCHANGED <<passLinks, passHour, passSave, passSaves, passFaults, passRan,
               passOverlapped>>
    BY <1>7 DEF Passes!PassEnds
  <2>2. Head(passTick.left) \in Passes!FormSet
    BY <1>2, <2>1, HeadTailProperties DEF PassIInv, PassTypes, PassTickTyped, PassTicks
  <2>3. i \in DOMAIN passLinks[Head(passTick.left)] /\ i \in Nat
    BY <2>1, <2>2 DEF Passes!FindFirst, PassIInv, PassFound, PassTypes, Passes!TypeOK
  <2>4. /\ passTick' \in PassTicks /\ passTick'.step = "stamp" /\ passTick'.left = passTick.left
             /\ passTick'.at = passTick.at
        /\ passTick'.found = i
    BY <1>2, <2>1, <2>3 DEF PassTicks
  <2>5. PassTickTyped'
    BY <2>1, <2>4 DEF PassIInv, PassTypes, PassTickTyped
  <2>6. PassInHour(passTick'.at, passHour')
    BY <2>1, <2>4 DEF PassIInv, PassStamped, PassInHour
  <2> QED BY <1>1, <2>1, <2>3, <2>4, <2>5, <2>6, PassTickGoesOn
<1>8. CASE Passes!Look /\ passTick' = Passes!OnTo
  BY <1>1, <1>5, <1>8 DEF Passes!Look
<1>9. CASE Passes!LookFails \/ Passes!StampFails
  BY <1>1, <1>5, <1>9 DEF Passes!LookFails, Passes!StampFails, Passes!Fault
<1> QED BY <1>3, <1>4, <1>6, <1>7, <1>8, <1>9

\* The stamp changes one row, which is there.
LEMMA PassStampKeeps ==
  ASSUME PassIInv, Passes!ScheduleAssumption, Passes!Stamp
  PROVE  PassIInv'
<1> DEFINE f == Head(passTick.left)  k == passTick.found  new == Passes!Stored(f, k, Passes!StampOf)
<1>1. /\ passTick.step = "stamp" /\ passLinks' = [passLinks EXCEPT ![f] = new]
      /\ passRan' = [passRan EXCEPT ![f] = passHour] /\ passTick' = Passes!OnTo
      /\ UNCHANGED <<passHour, passSave, passSaves, passFaults, passOverlapped>>
  BY DEF Passes!Stamp
<1>2. passTick \in PassTicks /\ f \in Passes!FormSet
        /\ passLinks \in [Passes!FormSet -> Seq(Passes!Row)] /\ passLinks[f] \in Seq(Passes!Row)
  BY <1>1, HeadTailProperties DEF PassIInv, PassTypes, Passes!TypeOK, PassTickTyped, PassTicks
<1>3. k \in DOMAIN passLinks[f] /\ k \in Nat /\ k # 0
  BY <1>1, <1>2 DEF PassIInv, PassFound
<1>4. Passes!StampOf \in {[stamp |-> n] : n \in Nat}
  BY <1>2 DEF Passes!StampOf, PassTicks
<1>5. /\ new \in Seq(Passes!Row) /\ Len(new) = Len(passLinks[f])
      /\ new[k] = Passes!With(passLinks[f][k], Passes!StampOf)
  BY <1>2, <1>3, <1>4, PassStoredRows
<1>6. new[k].stamp = passTick.at
  <2>1. passLinks[f][k] \in Passes!Row
    BY <1>2, <1>3
  <2>2. "stamp" \in DOMAIN passLinks[f][k] /\ "stamp" \in DOMAIN Passes!StampOf
          /\ Passes!StampOf["stamp"] = passTick.at
    BY <2>1 DEF Passes!Row, Passes!StampOf
  <2> QED BY <1>5, <2>2 DEF Passes!With
<1> HIDE DEF new, f, k
<1>7. /\ \A g \in Passes!FormSet : passLinks'[g] = IF g = f THEN new ELSE passLinks[g]
      /\ \A g \in Passes!FormSet : passRan'[g] = IF g = f THEN passHour ELSE passRan[g]
  BY <1>1, <1>2 DEF PassIInv, PassTypes, Passes!TypeOK
<1>8. PassTickTyped' /\ passTick'.step \in {"look", "none"}
      /\ (passTick'.step # "none" => passTick'.at = passTick.at)
  BY <1>1, PassOnToTyped DEF PassTickTyped
<1>9. Passes!TypeOK'
  <2>1. passLinks' \in [Passes!FormSet -> Seq(Passes!Row)]
          /\ passRan' \in [Passes!FormSet -> (0..MaxHours) \union {Nothing}]
    BY <1>1, <1>2, <1>5 DEF PassIInv, PassTypes, Passes!TypeOK
  <2> QED BY <1>1, <1>8, <2>1 DEF PassIInv, PassTypes, Passes!TypeOK, PassTickTyped, PassTicks,
             Passes!NoTick
<1>10. PassSavesTyped'
  BY <1>1 DEF PassIInv, PassTypes, PassSavesTyped
<1>11. Passes!OneLink'
  BY <1>1, <1>5, <1>7 DEF PassIInv, Passes!OneLink
<1>12. PassFound'
  <2>1. passLinks[f] # <<>>
    BY <1>2, <1>3
  <2>2. \A g \in Passes!FormSet : passLinks[g] = <<>> => passLinks'[g] = <<>>
    BY <1>7, <2>1
  <2>3. \A g \in Passes!FormSet : DOMAIN passLinks'[g] = DOMAIN passLinks[g]
    BY <1>2, <1>5, <1>7
  <2>4. \A a \in Staff : passSave[a] \in PassSaves => passSave[a].form \in Passes!FormSet
    BY DEF PassSaves
  <2> QED BY <1>1, <1>8, <2>2, <2>3, <2>4 DEF PassIInv, PassFound
<1>13. PassStamped'
  <2>1. passTick'.step # "none" => PassInHour(passTick'.at, passHour)
    BY <1>1, <1>8 DEF PassIInv, PassStamped
  <2>2. ASSUME NEW g \in Passes!FormSet, g # f
        PROVE  /\ passLinks'[g] = <<>> => passRan'[g] = Nothing
               /\ Len(passLinks'[g]) = 1 =>
                    IF passRan'[g] = Nothing THEN passLinks'[g][1].stamp = Nothing
                    ELSE passRan'[g] <= passHour /\ passLinks'[g][1].stamp \in Nat
                           /\ PassInHour(passLinks'[g][1].stamp, passRan'[g])
    BY <1>7, <2>2 DEF PassIInv, PassStamped
  <2>3. passLinks'[f] # <<>>
    BY <1>2, <1>3, <1>5, <1>7
  <2>4. ASSUME Len(passLinks'[f]) = 1
        PROVE  /\ passRan'[f] # Nothing /\ passRan'[f] <= passHour
               /\ passLinks'[f][1].stamp \in Nat /\ PassInHour(passLinks'[f][1].stamp, passRan'[f])
    <3>1. k = 1
      BY <1>2, <1>3, <1>5, <1>7, <2>4
    <3>2. passLinks'[f][1].stamp = passTick.at /\ passRan'[f] = passHour
      BY <1>2, <1>6, <1>7, <3>1
    <3>3. passHour \in Nat /\ passHour # Nothing
      BY DEF PassIInv, PassTypes, Passes!TypeOK, Passes!ScheduleAssumption
    <3> QED BY <1>1, <1>2, <3>2, <3>3 DEF PassIInv, PassStamped, PassTicks
  <2>5. passHour' = passHour
    BY <1>1
  <2> QED BY <2>1, <2>2, <2>3, <2>4, <2>5 DEF PassStamped, PassInHour
<1> QED BY <1>8, <1>9, <1>10, <1>11, <1>12, <1>13 DEF PassIInv, PassTypes

-----------------------------------------------------------------------------
\* A save that finds no row excuses its form if another of that form is under way.
LEMMA PassFindsKeeps ==
  ASSUME PassIInv, Passes!ScheduleAssumption, NEW a \in Staff, Passes!SaveFinds(a)
  PROVE  PassIInv'
<1>0. PICK f \in Passes!FormSet, p \in Passes!Patches : \E i \in Passes!FindFirst(f) :
        /\ passSave[a] = Passes!NoSave /\ passSaves < MaxLinkSaves /\ passSaves' = passSaves + 1
        /\ passSave' = [passSave EXCEPT ![a] = [form |-> f, patch |-> p, found |-> i]]
        /\ passOverlapped' = IF i = 0 /\ \E b \in Staff : passSave[b].form = f
                         THEN passOverlapped \union {f} ELSE passOverlapped
        /\ UNCHANGED <<passLinks, passHour, passTick, passFaults, passRan>>
  BY DEF Passes!SaveFinds
<1>1. PICK i \in Passes!FindFirst(f) :
        /\ passSave[a] = Passes!NoSave /\ passSaves < MaxLinkSaves /\ passSaves' = passSaves + 1
        /\ passSave' = [passSave EXCEPT ![a] = [form |-> f, patch |-> p, found |-> i]]
        /\ passOverlapped' = IF i = 0 /\ \E b \in Staff : passSave[b].form = f
                         THEN passOverlapped \union {f} ELSE passOverlapped
        /\ UNCHANGED <<passLinks, passHour, passTick, passFaults, passRan>>
  BY <1>0
<1>2. passLinks[f] \in Seq(Passes!Row)
  BY DEF PassIInv, PassTypes, Passes!TypeOK
<1>3. i \in Nat /\ IF i = 0 THEN passLinks[f] = <<>> ELSE i \in DOMAIN passLinks[f]
  BY <1>1, <1>2 DEF Passes!FindFirst
<1> DEFINE new == [form |-> f, patch |-> p, found |-> i]
<1>4. new \in PassSaves /\ new.form = f /\ new.patch = p /\ new.found = i
  BY <1>3 DEF PassSaves
<1>5. \A b \in Staff : b # a => passSave'[b] = passSave[b]
  BY <1>1
<1>6. passSave'[a] = Passes!NoSave \/ passSave'[a] = new
  BY <1>1
<1> HIDE DEF new
<1>7. passOverlapped \subseteq passOverlapped'
      /\ (i = 0 /\ f \notin passOverlapped' => \A b \in Staff : passSave[b].form # f)
  BY <1>1
<1>8. Passes!NoSave \notin PassSaves
  BY DEF Passes!NoSave, PassSaves
<1>9. PassTickTyped' /\ PassSavesTyped'
  BY <1>1, <1>4, <1>5, <1>6 DEF PassIInv, PassTypes, PassTickTyped, PassSavesTyped
<1>10. Passes!TypeOK'
  <2>1. passSaves' \in 0..MaxLinkSaves /\ passOverlapped' \subseteq Passes!FormSet
    BY <1>1 DEF PassIInv, PassTypes, Passes!TypeOK, Passes!ScheduleAssumption
  <2>2. \A b \in Staff : passSave'[b] # Passes!NoSave
          => passSave'[b].form \in Passes!FormSet /\ passSave'[b].patch \in Passes!Patches
    BY <1>4, <1>5, <1>6 DEF PassIInv, PassTypes, Passes!TypeOK
  <2> QED BY <1>1, <2>1, <2>2 DEF PassIInv, PassTypes, Passes!TypeOK
<1>11. Passes!OneLink'
  BY <1>1, <1>7 DEF PassIInv, Passes!OneLink
<1>12. PassFound'
  <2>1. passTick' = passTick /\ passLinks' = passLinks
    BY <1>1
  <2>2. ASSUME NEW b \in Staff, passSave'[b] \in PassSaves,
               passSave'[b].found # 0
        PROVE  passSave'[b].found \in DOMAIN passLinks[passSave'[b].form]
    BY <1>3, <1>4, <1>5, <1>6, <1>8, <2>2 DEF PassIInv, PassFound
  <2>3. ASSUME NEW b \in Staff, passSave'[b] \in PassSaves,
               passSave'[b].found = 0, passSave'[b].form \notin passOverlapped'
        PROVE  /\ passLinks[passSave'[b].form] = <<>>
               /\ \A c \in Staff \ {b} : passSave'[c] \in PassSaves
                    => passSave'[c].form # passSave'[b].form
    <3>1. CASE b = a
      <4>1. passSave'[b] = new /\ i = 0
        BY <1>4, <1>6, <1>8, <2>3, <3>1
      <4>2. \A c \in Staff : passSave[c].form # f
        BY <1>4, <1>7, <2>3, <4>1
      <4> QED BY <1>3, <1>4, <1>5, <3>1, <4>1, <4>2
    <3>2. CASE b # a
      <4>1. passSave'[b] = passSave[b] /\ passSave[b].form \notin passOverlapped
        BY <1>5, <1>7, <2>3, <3>2
      <4>2. /\ passLinks[passSave[b].form] = <<>>
            /\ \A c \in Staff \ {b} : passSave[c] \in PassSaves
                 => passSave[c].form # passSave[b].form
        BY <2>3, <4>1 DEF PassIInv, PassFound
      <4>3. passSave'[a] \in PassSaves => f # passSave[b].form
        <5> SUFFICES ASSUME f = passSave[b].form PROVE FALSE
          OBVIOUS
        <5>1. i = 0
          BY <1>2, <1>3, <4>2
        <5> QED BY <1>7, <2>3, <4>1, <5>1
      <4> QED BY <1>4, <1>5, <1>6, <1>8, <4>1, <4>2, <4>3
    <3> QED BY <3>1, <3>2
  <2> QED BY <2>1, <2>2, <2>3 DEF PassIInv, PassFound
<1>13. PassStamped'
  BY <1>1 DEF PassIInv, PassStamped, PassInHour
<1> QED BY <1>9, <1>10, <1>11, <1>12, <1>13 DEF PassIInv, PassTypes

\* Saves given up, by their request or with the process; the tick may end too.
LEMMA PassGivenUpKeeps ==
  ASSUME PassIInv, Passes!ScheduleAssumption,
         UNCHANGED <<passLinks, passHour, passSaves, passRan, passOverlapped>>,
         passFaults' \in 0..MaxPassFaults, passTick' = passTick \/ passTick' = Passes!NoTick,
         passSave' \in [Staff -> {Passes!NoSave} \union PassSaves],
         \A b \in Staff : passSave'[b] = passSave[b] \/ passSave'[b] = Passes!NoSave
  PROVE  PassIInv'
<1>1. Passes!NoSave \notin PassSaves
  BY DEF Passes!NoSave, PassSaves
<1>2. PassTickTyped' /\ PassSavesTyped'
  <2>1. Passes!NoTick \in PassTicks /\ Passes!NoTick.step = "none"
    BY DEF Passes!NoTick, PassTicks
  <2>2. PassTickTyped'
    BY <2>1 DEF PassIInv, PassTypes, PassTickTyped
  <2> QED BY <2>2 DEF PassSavesTyped
<1>3. Passes!TypeOK'
  BY DEF PassIInv, PassTypes, Passes!TypeOK, Passes!NoTick
<1>4. Passes!OneLink' /\ PassStamped'
  BY DEF PassIInv, Passes!OneLink, PassStamped, PassInHour, Passes!NoTick
<1>5. PassFound'
  BY <1>1 DEF PassIInv, PassFound, Passes!NoTick
<1> QED BY <1>2, <1>3, <1>4, <1>5 DEF PassIInv, PassTypes

\* A save that fails, and a restart.
LEMMA PassFailsKeeps ==
  ASSUME PassIInv, Passes!ScheduleAssumption, Passes!Restart \/ \E a \in Staff : Passes!SaveFails(a)
  PROVE  PassIInv'
<1>1. passFaults' \in 0..MaxPassFaults
  BY DEF Passes!Restart, Passes!SaveFails, Passes!Fault, PassIInv, PassTypes, Passes!TypeOK,
     Passes!ScheduleAssumption
<1>2. CASE Passes!Restart
  <2>1. passSave' \in [Staff -> {Passes!NoSave} \union PassSaves]
          /\ \A b \in Staff : passSave'[b] = Passes!NoSave
    BY <1>2 DEF Passes!Restart
  <2> QED BY <1>1, <1>2, <2>1, PassGivenUpKeeps DEF Passes!Restart
<1>3. CASE \E a \in Staff : Passes!SaveFails(a)
  <2>1. PICK a \in Staff : Passes!SaveFails(a)
    BY <1>3
  <2>2. /\ passSave' \in [Staff -> {Passes!NoSave} \union PassSaves]
        /\ \A b \in Staff : passSave'[b] = passSave[b] \/ passSave'[b] = Passes!NoSave
    BY <2>1 DEF Passes!SaveFails, PassIInv, PassTypes, PassSavesTyped
  <2> QED BY <1>1, <2>1, <2>2, PassGivenUpKeeps DEF Passes!SaveFails
<1> QED BY <1>2, <1>3

-----------------------------------------------------------------------------
\* A save is written: one row changed but for its stamp, or the first row of a
\* form made.
LEMMA PassWritesKeeps ==
  ASSUME PassIInv, Passes!ScheduleAssumption, NEW a \in Staff, Passes!SaveWrites(a)
  PROVE  PassIInv'
<1> DEFINE f == passSave[a].form  k == passSave[a].found  p == passSave[a].patch  new == Passes!Stored(f, k, p)
<1>1. /\ passSave[a] # Passes!NoSave
      /\ passLinks' = [passLinks EXCEPT ![f] = new]
      /\ passSave' = [passSave EXCEPT ![a] = Passes!NoSave]
      /\ UNCHANGED <<passHour, passTick, passSaves, passFaults, passRan, passOverlapped>>
  BY DEF Passes!SaveWrites
<1>2. passSave[a] \in PassSaves /\ f \in Passes!FormSet /\ k \in Nat /\ p \in Passes!Patches
  BY <1>1 DEF PassIInv, PassTypes, PassSavesTyped, PassSaves
<1>3. passLinks \in [Passes!FormSet -> Seq(Passes!Row)] /\ passLinks[f] \in Seq(Passes!Row)
  BY <1>2 DEF PassIInv, PassTypes, Passes!TypeOK
<1>4. k # 0 => k \in DOMAIN passLinks[f]
  BY <1>2 DEF PassIInv, PassFound
<1>5. k = 0 /\ f \notin passOverlapped =>
        passLinks[f] = <<>> /\ \A b \in Staff \ {a} : passSave[b] \in PassSaves => passSave[b].form # f
  BY <1>2 DEF PassIInv, PassFound
<1>6. /\ new \in Seq(Passes!Row)
      /\ k = 0 => /\ Len(new) = Len(passLinks[f]) + 1
                  /\ new[Len(passLinks[f]) + 1] = Passes!With(Passes!Blank, p)
      /\ k # 0 => /\ Len(new) = Len(passLinks[f])
                  /\ new[k] = Passes!With(passLinks[f][k], p)
                  /\ \A i \in DOMAIN passLinks[f] : i # k => new[i] = passLinks[f][i]
  BY <1>2, <1>3, <1>4, PassStoredRows
<1>7. Passes!With(Passes!Blank, p).stamp = Nothing
  BY <1>2, PassBlankRow, PassPatchesNoStamp DEF Passes!With, Passes!Row
<1>8. k # 0 => Passes!With(passLinks[f][k], p).stamp = passLinks[f][k].stamp
  <2>1. k # 0 => passLinks[f][k] \in Passes!Row
    BY <1>3, <1>4
  <2> QED BY <1>2, <2>1, PassPatchesNoStamp DEF Passes!With, Passes!Row
<1> HIDE DEF new, f, k, p
<1>9. \A g \in Passes!FormSet : passLinks'[g] = IF g = f THEN new ELSE passLinks[g]
  BY <1>1, <1>3
<1>10. /\ passSave' \in [Staff -> {Passes!NoSave} \union PassSaves]
       /\ passSave'[a] = Passes!NoSave /\ \A b \in Staff \ {a} : passSave'[b] = passSave[b]
  BY <1>1 DEF PassIInv, PassTypes, PassSavesTyped
<1>11. \A i \in DOMAIN passLinks[f] : i \in DOMAIN new
  BY <1>3, <1>6
<1>12. Passes!NoSave \notin PassSaves
  BY DEF Passes!NoSave, PassSaves
<1>13. Passes!TypeOK' /\ PassTickTyped' /\ PassSavesTyped'
  <2>1. passLinks' \in [Passes!FormSet -> Seq(Passes!Row)]
    BY <1>1, <1>3, <1>6
  <2> QED BY <1>1, <1>10, <2>1 DEF PassIInv, PassTypes, Passes!TypeOK, PassTickTyped, PassSavesTyped
<1>14. Passes!OneLink'
  <2> SUFFICES ASSUME NEW g \in Passes!FormSet,
                      g \notin passOverlapped PROVE Len(passLinks'[g]) <= 1
    BY <1>1 DEF Passes!OneLink
  <2>1. CASE g # f
    BY <1>9, <2>1 DEF PassIInv, Passes!OneLink
  <2>2. CASE g = f /\ k = 0
    BY <1>5, <1>6, <1>9, <2>2
  <2>3. CASE g = f /\ k # 0
    BY <1>6, <1>9, <2>3 DEF PassIInv, Passes!OneLink
  <2> QED BY <2>1, <2>2, <2>3
<1>15. \A g \in Passes!FormSet : passLinks[g] # <<>> => passLinks'[g] # <<>>
  BY <1>2, <1>3, <1>6, <1>9
<1>16. PassFound'
  <2>1. ASSUME NEW b \in Staff, passSave'[b] \in PassSaves, passSave'[b].found # 0
        PROVE  passSave'[b].found \in DOMAIN passLinks'[passSave'[b].form]
    <3>1. b # a /\ passSave'[b] = passSave[b] /\ passSave[b].form \in Passes!FormSet
      BY <1>10, <1>12, <2>1 DEF PassSaves
    <3>2. passSave[b].found \in DOMAIN passLinks[passSave[b].form]
      BY <2>1, <3>1 DEF PassIInv, PassFound
    <3> QED BY <1>9, <1>11, <3>1, <3>2
  <2>2. ASSUME NEW b \in Staff, passSave'[b] \in PassSaves, passSave'[b].found = 0,
               passSave'[b].form \notin passOverlapped
        PROVE  /\ passLinks'[passSave'[b].form] = <<>>
               /\ \A c \in Staff \ {b} : passSave'[c] \in PassSaves
                    => passSave'[c].form # passSave'[b].form
    <3>1. b # a /\ passSave'[b] = passSave[b] /\ passSave[b].form \in Passes!FormSet
      BY <1>10, <1>12, <2>2 DEF PassSaves
    <3>2. /\ passLinks[passSave[b].form] = <<>>
          /\ \A c \in Staff \ {b} : passSave[c] \in PassSaves => passSave[c].form # passSave[b].form
      BY <2>2, <3>1 DEF PassIInv, PassFound
    <3>3. passSave[b].form # f
      BY <1>2, <3>1, <3>2 DEF f
    <3> QED BY <1>9, <1>10, <1>12, <3>1, <3>2, <3>3
  <2>3. passTick'.step = "pass" => passLinks'[Head(passTick'.left)] # <<>>
    <3>1. passTick.step = "pass" => Head(passTick.left) \in Passes!FormSet
      BY HeadTailProperties DEF PassIInv, PassTypes, PassTickTyped, PassTicks
    <3> QED BY <1>1, <1>15, <3>1 DEF PassIInv, PassFound
  <2>4. passTick'.step = "stamp" => passTick'.found \in DOMAIN passLinks'[Head(passTick'.left)]
    <3>1. passTick.step = "stamp" => Head(passTick.left) \in Passes!FormSet
      BY HeadTailProperties DEF PassIInv, PassTypes, PassTickTyped, PassTicks
    <3> QED BY <1>1, <1>9, <1>11, <3>1 DEF PassIInv, PassFound
  <2>5. passOverlapped' = passOverlapped
    BY <1>1
  <2> QED BY <2>1, <2>2, <2>3, <2>4, <2>5 DEF PassFound
<1>17. PassStamped'
  <2>1. passTick' = passTick /\ passHour' = passHour /\ passRan' = passRan
    BY <1>1
  <2>2. ASSUME NEW g \in Passes!FormSet, g # f
        PROVE  passLinks'[g] = passLinks[g]
    BY <1>9, <2>2
  <2>3. ASSUME Len(passLinks'[f]) = 1
        PROVE  IF passRan[f] = Nothing THEN passLinks'[f][1].stamp = Nothing
               ELSE passRan[f] <= passHour /\ passLinks'[f][1].stamp \in Nat
                      /\ PassInHour(passLinks'[f][1].stamp, passRan[f])
    <3>1. CASE k = 0
      <4>1. Len(passLinks[f]) = 0
        BY <1>2, <1>3, <1>6, <1>9, <2>3, <3>1
      <4>2. passRan[f] = Nothing
        BY <1>2, <1>3, <4>1 DEF PassIInv, PassStamped
      <4> QED BY <1>2, <1>6, <1>7, <1>9, <3>1, <4>1, <4>2
    <3>2. CASE k # 0
      <4>1. Len(passLinks[f]) = 1 /\ k = 1
        BY <1>2, <1>3, <1>4, <1>6, <1>9, <2>3, <3>2
      <4>2. passLinks'[f][1].stamp = passLinks[f][1].stamp
        BY <1>2, <1>6, <1>8, <1>9, <3>2, <4>1
      <4> QED BY <1>2, <4>1, <4>2 DEF PassIInv, PassStamped
    <3> QED BY <3>1, <3>2
  <2>4. \A g \in Passes!FormSet : passLinks'[g] = <<>> => passRan[g] = Nothing
    BY <1>15 DEF PassIInv, PassStamped
  <2> QED BY <2>1, <2>2, <2>3, <2>4 DEF PassIInv, PassStamped, PassInHour
<1> QED BY <1>13, <1>14, <1>16, <1>17 DEF PassIInv, PassTypes

\* Every step keeps the invariant.
LEMMA PassStepKeeps ==
  ASSUME PassIInv, Passes!ScheduleAssumption, [Passes!Next]_(Passes!scheduleVars)
  PROVE  PassIInv'
<1>1. CASE UNCHANGED Passes!scheduleVars
  BY <1>1 DEF Passes!scheduleVars, PassIInv, PassTypes, Passes!TypeOK, PassTickTyped,
          PassSavesTyped, Passes!OneLink, PassFound, PassStamped, PassInHour
<1>2. CASE Passes!TickStarts \/ Passes!TickMissed \/ Passes!Look \/ Passes!LookFails
             \/ Passes!PassEnds \/ Passes!StampFails
  BY <1>2, PassTickSteps
<1>3. CASE Passes!Stamp
  BY <1>3, PassStampKeeps
<1>4. ASSUME NEW a \in Staff, Passes!SaveFinds(a) \/ Passes!SaveWrites(a)
      PROVE  PassIInv'
  BY <1>4, PassFindsKeeps, PassWritesKeeps
<1>5. CASE Passes!Restart \/ \E a \in Staff : Passes!SaveFails(a)
  BY <1>5, PassFailsKeeps
<1> QED BY <1>1, <1>2, <1>3, <1>4, <1>5 DEF Passes!Next

-----------------------------------------------------------------------------
\* Whole hours decide, whatever the lateness of the two ticks.
LEMMA PassWholeHours ==
  ASSUME Passes!ScheduleAssumption, NEW h \in Nat, NEW n \in Nat, NEW r \in Nat, r <= n,
         NEW d \in Lateness, NEW e \in Lateness
  PROVE  (n * Hour + d) - (r * Hour + e) >= h * Hour - Tolerance <=> n - r >= h
<1>1. /\ Hour \in Nat /\ Tolerance \in Nat /\ d \in Nat /\ e \in Nat
      /\ e <= Tolerance /\ Tolerance + d < Hour
  BY DEF Passes!ScheduleAssumption
<1>2. PICK k \in Nat : n = r + k
  <2>1. n - r \in Nat /\ n = r + (n - r)
    OBVIOUS
  <2> QED BY <2>1
<1>3. n * Hour = r * Hour + k * Hour /\ r * Hour \in Nat /\ k * Hour \in Nat /\ h * Hour \in Nat
  BY <1>1, <1>2
<1>4. CASE k >= h
  <2>1. PICK m \in Nat : k = h + m
    <3>1. k - h \in Nat /\ k = h + (k - h)
      BY <1>4
    <3> QED BY <3>1
  <2>2. k * Hour = h * Hour + m * Hour /\ m * Hour \in Nat
    BY <1>1, <2>1
  <2> QED BY <1>1, <1>2, <1>3, <1>4, <2>2
<1>5. CASE k < h
  <2>1. PICK m \in Nat : h = k + 1 + m
    <3>1. h - k - 1 \in Nat /\ h = k + 1 + (h - k - 1)
      BY <1>5
    <3> QED BY <3>1
  <2>2. h * Hour = k * Hour + Hour + m * Hour /\ m * Hour \in Nat
    BY <1>1, <2>1
  <2> QED BY <1>1, <1>2, <1>3, <1>5, <2>2
<1> QED BY <1>2, <1>4, <1>5

\* A look starts a pass exactly when the interval has gone by.
LEMMA PassLookIsPunctual ==
  ASSUME PassIInv, Passes!ScheduleAssumption, [Passes!Next]_(Passes!scheduleVars),
         NEW f \in Passes!FormSet,
         passTick.step = "look", Head(passTick.left) = f, passTick' # passTick,
         passFaults' = passFaults,
         Len(passLinks[f]) = 1, Passes!Connected(passLinks[f][1])
  PROVE  passTick'.step = "pass" <=>
           LET h == passLinks[f][1].interval IN h > 0
                 /\ (passRan[f] = Nothing \/ passHour - passRan[f] >= h)
<1> DEFINE link == passLinks[f][1]
<1>1. passFaults \in Nat
  BY DEF PassIInv, PassTypes, Passes!TypeOK, Passes!ScheduleAssumption
<1>2. Passes!Look
  BY <1>1 DEF Passes!Next, Passes!scheduleVars, Passes!TickStarts, Passes!TickMissed,
          Passes!LookFails, Passes!PassEnds, Passes!Stamp, Passes!StampFails, Passes!SaveFinds,
              Passes!SaveWrites, Passes!SaveFails, Passes!Restart, Passes!Fault, Passes!NoTick
<1>3. passLinks[f] \in Seq(Passes!Row) /\ Passes!FindFirst(f) = {1} /\ link \in Passes!Row
  <2>1. passLinks[f] \in Seq(Passes!Row)
    BY DEF PassIInv, PassTypes, Passes!TypeOK
  <2>2. DOMAIN passLinks[f] = {1} /\ passLinks[f] # <<>> /\ passLinks[f][1] \in Passes!Row
    <3> DEFINE s == passLinks[f]
    <3>1. s \in Seq(Passes!Row) /\ Len(s) = 1
      BY <2>1
    <3> HIDE DEF s
    <3>2. DOMAIN s = {1} /\ s # <<>> /\ s[1] \in Passes!Row
      BY <3>1
    <3> QED BY <3>2 DEF s
  <2> QED BY <2>1, <2>2 DEF Passes!FindFirst
<1>4. passTick' = IF Passes!Due(link, passTick.at) THEN [passTick EXCEPT !.step = "pass"]
        ELSE Passes!OnTo
  BY <1>2, <1>3 DEF Passes!Look
<1>5. Passes!OnTo.step # "pass" /\ [passTick EXCEPT !.step = "pass"].step = "pass"
  BY PassOnToTyped DEF PassIInv, PassTypes, PassTickTyped, PassTicks
<1>6. passTick'.step = "pass" <=> Passes!Due(link, passTick.at)
  BY <1>4, <1>5
<1>7. link.interval \in Nat /\ passHour \in Nat
  <2>1. link.interval \in PassIntervals
    <3> HIDE DEF link
    <3> QED BY <1>3 DEF Passes!Row
  <2>2. passHour \in 0..MaxHours /\ MaxHours \in Nat
    BY DEF PassIInv, PassTypes, Passes!TypeOK, Passes!ScheduleAssumption
  <2>3. PassIntervals \subseteq Nat
    BY DEF Passes!ScheduleAssumption
  <2>4. link.interval \in Nat
    BY <2>1, <2>3, Zenon
  <2>5. passHour \in Nat
    BY <2>2
  <2> QED BY <2>4, <2>5
<1>8. CASE passRan[f] = Nothing
  BY <1>6, <1>8 DEF Passes!Due, PassIInv, PassStamped
<1>9. CASE passRan[f] # Nothing
  <2>1. passRan[f] \in Nat /\ passRan[f] <= passHour /\ link.stamp \in Nat
    BY <1>9 DEF PassIInv, PassStamped, PassTypes, Passes!TypeOK, Passes!ScheduleAssumption
  <2>2. PICK e \in Lateness : link.stamp = passRan[f] * Hour + e
    BY <1>9 DEF PassIInv, PassStamped, PassInHour
  <2>3. PICK d \in Lateness : passTick.at = passHour * Hour + d
    BY DEF PassIInv, PassStamped, PassInHour
  <2>4. passTick.at - link.stamp >= link.interval * Hour - Tolerance
          <=> passHour - passRan[f] >= link.interval
    BY <1>7, <2>1, <2>2, <2>3, PassWholeHours
  <2>5. link.stamp # Nothing
    BY <2>1 DEF Passes!ScheduleAssumption
  <2> QED BY <1>6, <1>9, <2>4, <2>5 DEF Passes!Due
<1> QED BY <1>8, <1>9

\* Only a save of a choice changes it.
LEMMA PassChoiceIsKept ==
  ASSUME PassIInv, Passes!ScheduleAssumption, [Passes!Next]_(Passes!scheduleVars),
         NEW f \in Passes!FormSet,
         NEW i \in DOMAIN passLinks[f], NEW c \in {"file", "enabled", "interval"},
         passLinks'[f][i][c] # passLinks[f][i][c]
  PROVE  \E a \in Staff : /\ passSave'[a] # passSave[a] /\ passSave[a].form = f
                           /\ c \in DOMAIN passSave[a].patch
                                /\ passLinks'[f][i][c] = passSave[a].patch[c]
<1>1. passLinks \in [Passes!FormSet -> Seq(Passes!Row)] /\ passLinks[f] \in Seq(Passes!Row)
        /\ passLinks[f][i] \in Passes!Row
  BY DEF PassIInv, PassTypes, Passes!TypeOK
<1>0. ASSUME NEW row \in Passes!Row
      PROVE  c \in DOMAIN row
  BY <1>0 DEF Passes!Row
<1>2. Passes!Stamp \/ \E a \in Staff : Passes!SaveWrites(a)
  BY DEF Passes!Next, Passes!scheduleVars, Passes!TickStarts, Passes!TickMissed, Passes!Look,
     Passes!LookFails, Passes!PassEnds, Passes!StampFails, Passes!SaveFinds, Passes!SaveFails,
     Passes!Restart
<1>3. CASE Passes!Stamp
  <2> DEFINE g == Head(passTick.left)  k == passTick.found
  <2>1. passTick.step = "stamp"
          /\ passLinks' = [passLinks EXCEPT ![g] = Passes!Stored(g, k, Passes!StampOf)]
    BY <1>3 DEF Passes!Stamp
  <2>2. passTick \in PassTicks /\ g \in Passes!FormSet
    BY <2>1, HeadTailProperties DEF PassIInv, PassTypes, PassTickTyped, PassTicks
  <2>3. passLinks[g] \in Seq(Passes!Row) /\ k \in Nat /\ k \in DOMAIN passLinks[g] /\ k # 0
    BY <1>1, <2>1, <2>2 DEF PassIInv, PassFound, PassTicks
  <2>4. Passes!StampOf \in {[stamp |-> n] : n \in Nat} /\ c \notin DOMAIN Passes!StampOf
    BY <2>2 DEF Passes!StampOf, PassTicks
  <2>5. \A j \in DOMAIN passLinks[g] :
          Passes!Stored(g, k, Passes!StampOf)[j] = IF j = k
            THEN Passes!With(passLinks[g][k], Passes!StampOf) ELSE passLinks[g][j]
    BY <2>2, <2>3, <2>4, PassStoredRows
  <2>6. Passes!With(passLinks[g][k], Passes!StampOf)[c] = passLinks[g][k][c]
    <3> HIDE DEF g, k
    <3>0. passLinks[g][k] \in Passes!Row
      BY <2>3
    <3>1. c \in DOMAIN passLinks[g][k]
      BY <1>0, <3>0
    <3> QED BY <2>4, <3>1 DEF Passes!With
  <2> HIDE DEF g, k
  <2> QED BY <1>1, <2>1, <2>2, <2>5, <2>6
<1>4. CASE \E a \in Staff : Passes!SaveWrites(a)
  <2>1. PICK a \in Staff : Passes!SaveWrites(a)
    BY <1>4
  <2> DEFINE g == passSave[a].form  k == passSave[a].found  p == passSave[a].patch
  <2>2. /\ passSave[a] # Passes!NoSave /\ passSave' = [passSave EXCEPT ![a] = Passes!NoSave]
        /\ passLinks' = [passLinks EXCEPT ![g] = Passes!Stored(g, k, p)]
    BY <2>1 DEF Passes!SaveWrites
  <2>3. passSave[a] \in PassSaves /\ g \in Passes!FormSet /\ k \in Nat /\ p \in Passes!Patches
          /\ passSave'[a] # passSave[a]
    BY <2>2 DEF PassIInv, PassTypes, PassSavesTyped, PassSaves
  <2>4. passLinks[g] \in Seq(Passes!Row) /\ (k # 0 => k \in DOMAIN passLinks[g])
    BY <1>1, <2>3 DEF PassIInv, PassFound
  <2>5. \A j \in DOMAIN passLinks[g] :
          Passes!Stored(g, k, p)[j] = IF k # 0
            /\ j = k THEN Passes!With(passLinks[g][k], p) ELSE passLinks[g][j]
    BY <2>3, <2>4, PassStoredRows
  <2>6. ASSUME k # 0
        PROVE  Passes!With(passLinks[g][k], p)[c] = IF c \in DOMAIN p THEN p[c]
                 ELSE passLinks[g][k][c]
    <3> HIDE DEF g, k, p
    <3>0. passLinks[g][k] \in Passes!Row
      BY <2>4, <2>6
    <3>1. c \in DOMAIN passLinks[g][k]
      BY <1>0, <3>0
    <3> QED BY <3>1 DEF Passes!With
  <2>7. g = f /\ c \in DOMAIN p /\ passLinks'[f][i][c] = p[c]
    <3> HIDE DEF g, k, p
    <3> QED BY <1>1, <2>2, <2>3, <2>5, <2>6
  <2> QED BY <2>3, <2>7
<1> QED BY <1>2, <1>3, <1>4

-----------------------------------------------------------------------------
\* Type correctness of the schedule (cron-tasks.ts, store.ts).
THEOREM ScheduleTyped ==
  ASSUME Passes!ScheduleAssumption
  PROVE  Passes!Spec => []Passes!TypeOK
<1>1. Passes!Init => PassIInv
  BY PassStart
<1>2. PassIInv /\ [Passes!Next]_(Passes!scheduleVars) => PassIInv'
  BY PassStepKeeps
<1>3. PassIInv => Passes!TypeOK
  BY DEF PassIInv, PassTypes
<1> QED BY <1>1, <1>2, <1>3, PTL DEF Passes!Spec

\* A form has one link row, whatever saves, stamps, failures and restarts come
\* between, unless its first saves overlapped (store.ts saveLink).
THEOREM OneLinkEach ==
  ASSUME Passes!ScheduleAssumption
  PROVE  Passes!Spec => []Passes!OneLink
<1>1. Passes!Init => PassIInv
  BY PassStart
<1>2. PassIInv /\ [Passes!Next]_(Passes!scheduleVars) => PassIInv'
  BY PassStepKeeps
<1>3. PassIInv => Passes!OneLink
  BY DEF PassIInv
<1> QED BY <1>1, <1>2, <1>3, PTL DEF Passes!Spec

\* A look starts a pass exactly when the interval has gone by (store.ts
\* isReconcileDue).
THEOREM LooksPunctual ==
  ASSUME Passes!ScheduleAssumption
  PROVE  Passes!Spec => Passes!Punctual
<1>1. Passes!Init => PassIInv
  BY PassStart
<1>2. PassIInv /\ [Passes!Next]_(Passes!scheduleVars) => PassIInv'
  BY PassStepKeeps
<1>3. PassIInv /\ [Passes!Next]_(Passes!scheduleVars) =>
        [\A f \in Passes!FormSet :
           /\ passTick.step = "look" /\ Head(passTick.left) = f /\ passTick' # passTick
                /\ passFaults' = passFaults
           /\ Len(passLinks[f]) = 1 /\ Passes!Connected(passLinks[f][1])
           => (passTick'.step = "pass" <=>
                 LET h == passLinks[f][1].interval IN
                 h > 0 /\ (passRan[f] = Nothing
                   \/ passHour - passRan[f] >= h))]_(Passes!scheduleVars)
  BY PassLookIsPunctual
<1> QED BY <1>1, <1>2, <1>3, PTL DEF Passes!Spec, Passes!Punctual

\* What an administrator chose stays until a save of it (sheet-link.ts, store.ts
\* stampReconcile).
THEOREM ChoicesStay ==
  ASSUME Passes!ScheduleAssumption
  PROVE  Passes!Spec => Passes!ChoicesKept
<1> DEFINE Kept ==
      \A f \in Passes!FormSet : \A i \in DOMAIN passLinks[f] : \A c
        \in {"file", "enabled", "interval"} :
        passLinks'[f][i][c] # passLinks[f][i][c]
          => \E a \in Staff : /\ passSave'[a] # passSave[a] /\ passSave[a].form = f
                              /\ c \in DOMAIN passSave[a].patch
                              /\ passLinks'[f][i][c] = passSave[a].patch[c]
<1>1. Passes!Init => PassIInv
  BY PassStart
<1>2. PassIInv /\ [Passes!Next]_(Passes!scheduleVars) => PassIInv'
  BY PassStepKeeps
<1>3. PassIInv /\ [Passes!Next]_(Passes!scheduleVars) => [Kept]_(Passes!scheduleVars)
  BY PassChoiceIsKept
<1>4. Passes!ChoicesKept <=> [][Kept]_(Passes!scheduleVars)
  BY DEF Passes!ChoicesKept
<1> HIDE DEF Kept
<1> QED BY <1>1, <1>2, <1>3, <1>4, PTL DEF Passes!Spec

\* So do the scheduled passes.
LEMMA PassesRun == Spec => Passes!Spec
<1>1. Init => Passes!Init
  BY DEF Init
<1>2. [Next]_deskVars => [Passes!Next]_(Passes!scheduleVars)
  BY DEF Next, deskVars, passState, Passes!scheduleVars
<1> QED BY <1>1, <1>2, PTL DEF Spec, Passes!Spec, deskVars

\* A form has one link row, its passes come on time and the administrators'
\* choices stay (cron-tasks.ts, store.ts).
THEOREM PassesAlwaysPunctual == Spec => PassesPunctual
<1>1. Passes!Spec => []Passes!OneLink
  BY OneLinkEach, DeskAssumption
<1>2. Passes!Spec => Passes!Punctual
  BY LooksPunctual, DeskAssumption
<1>3. Passes!Spec => Passes!ChoicesKept
  BY ChoicesStay, DeskAssumption
<1> QED BY <1>1, <1>2, <1>3, PassesRun, PTL DEF PassesPunctual

-----------------------------------------------------------------------------
(* The submit limiter.                                                     *)

\* A hit that passed fell in its window, and that window is either the one in
\* the map, which has counted it, or one that closed before that began.
Remembered(k, p) ==
  /\ p.window <= p.tick /\ p.tick < p.window + SubmitWindow
  /\ IF k \in Limiter!Listed
     THEN \/ p.window = limitStart[k] /\ p.nth <= limitHits[k]
          \/ p.window + SubmitWindow <= limitStart[k]
     ELSE p.window + SubmitWindow <= limitNow

\* Two that passed are the same, or hold different places in one window, or their
\* windows do not overlap.
Apart(p, q) ==
  \/ p = q
  \/ p.window = q.window /\ p.nth # q.nth
  \/ p.window + SubmitWindow <= q.window
  \/ q.window + SubmitWindow <= p.window

LimitInv ==
  /\ Limiter!TypeOK
  /\ \A k \in Addresses : \A p \in limitPassed[k] : Remembered(k, p)
  /\ \A k \in Addresses : \A p, q \in limitPassed[k] : Apart(p, q)

LEMMA LimiterRuns == Spec => Limiter!Spec
<1>1. Init => Limiter!Init
  BY DEF Init
<1>2. [Next]_deskVars => [Limiter!Next]_(Limiter!limitVars)
  BY DEF Next, deskVars, limitState, Limiter!limitVars
<1> QED BY <1>1, <1>2, PTL DEF Spec, Limiter!Spec, deskVars

LEMMA LimiterStarts == Limiter!Init => LimitInv
<1> SUFFICES ASSUME Limiter!Init PROVE LimitInv
  OBVIOUS
<1>1. DOMAIN limitStart = {} /\ DOMAIN limitHits = {}
  BY DEF Limiter!Init
<1>2. MaxTime \in Nat
  BY DeskAssumption DEF Limiter!LimitAssumption
<1>3. limitPassed = [k \in Addresses |-> {}] /\ limitNow = 0 /\ limitLastPrune = 0
  BY DEF Limiter!Init
<1> QED
  BY <1>1, <1>2, <1>3 DEF LimitInv, Limiter!TypeOK, Limiter!Listed

LEMMA TickKeeps ==
  ASSUME LimitInv, Limiter!Tick
  PROVE  LimitInv'
<1> USE DeskAssumption DEF Limiter!LimitAssumption
<1>1. Limiter!TypeOK'
  BY DEF LimitInv, Limiter!TypeOK, Limiter!Tick, Limiter!Listed
<1>2. \A k \in Addresses : \A p \in limitPassed[k] : Remembered(k, p)'
  <2> SUFFICES ASSUME NEW k \in Addresses, NEW p \in limitPassed[k] PROVE Remembered(k, p)'
    OBVIOUS
  <2>1. p \in Limiter!Pass
    BY DEF LimitInv, Limiter!TypeOK
  <2>2. Remembered(k, p) /\ limitNow \in Nat /\ limitNow' = limitNow + 1
    BY DEF LimitInv, Limiter!TypeOK, Limiter!Tick
  <2> QED
    BY <2>1, <2>2 DEF Remembered, Limiter!Pass, Limiter!Tick, Limiter!Listed
<1> QED
  BY <1>1, <1>2 DEF LimitInv, Apart, Limiter!Tick

LEMMA RestartKeeps ==
  ASSUME LimitInv, Limiter!Restart
  PROVE  LimitInv'
BY DEF LimitInv, Limiter!TypeOK, Limiter!Restart, Limiter!Listed

\* A hit counts in a window of its key: the one still open, or one that opens
\* with it after every earlier one has closed.
LEMMA HitKeeps ==
  ASSUME LimitInv, NEW k \in Addresses, Limiter!Hit(k)
  PROVE  LimitInv'
<1> USE DeskAssumption DEF Limiter!LimitAssumption
<1>0. PICK w, n, new : /\ w = Limiter!FirstTick(k) /\ n = Limiter!Counted(k)
                       /\ new = [window |-> w, nth |-> n, tick |-> limitNow]
  OBVIOUS
<1>1. /\ limitNow \in Nat /\ limitLastPrune \in Nat /\ Limiter!Listed \subseteq Addresses
      /\ limitNow \in 0..MaxTime /\ limitLastPrune \in 0..limitNow
      /\ SubmitWindow \in Nat \ {0} /\ SubmitLimit \in Nat \ {0}
      /\ DOMAIN limitHits = Limiter!Listed /\ DOMAIN limitStart = Limiter!Listed
      /\ \A j \in Limiter!Listed : /\ limitStart[j] \in Nat /\ limitStart[j] <= limitNow
                                   /\ limitHits[j] \in Nat \ {0}
  BY DEF LimitInv, Limiter!TypeOK, Limiter!Listed
<1>2. /\ w \in Nat /\ n \in Nat \ {0} /\ w <= limitNow /\ limitNow < w + SubmitWindow
  BY <1>0, <1>1 DEF Limiter!FirstTick, Limiter!Counted, Limiter!Open
<1>3. \A j \in Addresses : \A p \in limitPassed[j] : p \in Limiter!Pass /\ Remembered(j, p)
  BY DEF LimitInv, Limiter!TypeOK
<1>4. /\ limitNow' = limitNow
      /\ Limiter!Listed' = Limiter!Kept \union {k}
      /\ DOMAIN limitHits' = Limiter!Kept \union {k}
      /\ limitStart'[k] = w /\ limitHits'[k] = n
      /\ \A j \in Limiter!Kept : j # k => /\ limitStart'[j] = limitStart[j]
                                            /\ limitHits'[j] = limitHits[j]
      /\ limitLastPrune' \in {limitNow, limitLastPrune}
  BY <1>0 DEF Limiter!Hit, Limiter!Listed
<1>5. Limiter!Kept \subseteq Limiter!Listed
  BY DEF Limiter!Kept
<1>6. \A j \in Limiter!Listed \ Limiter!Kept : limitStart[j] + SubmitWindow <= limitNow
  BY <1>1 DEF Limiter!Kept
<1>7. \A p \in limitPassed[k] : \/ p.window = w /\ p.nth < n
                                \/ p.window + SubmitWindow <= w
  <2> SUFFICES ASSUME NEW p \in limitPassed[k]
               PROVE  (p.window = w /\ p.nth < n) \/ p.window + SubmitWindow <= w
    OBVIOUS
  <2>1. p.window \in Nat /\ p.nth \in Nat /\ p.tick \in Nat /\ Remembered(k, p)
    BY <1>1, <1>3 DEF Limiter!Pass
  <2>2. CASE Limiter!Open(k)
    BY <1>0, <1>1, <2>1, <2>2 DEF Remembered, Limiter!Open, Limiter!FirstTick, Limiter!Counted
  <2>3. CASE ~Limiter!Open(k)
    BY <1>0, <1>1, <2>1, <2>3 DEF Remembered, Limiter!Open, Limiter!FirstTick, Limiter!Counted
  <2> QED
    BY <2>2, <2>3
<1>8. \A j \in Addresses : \/ limitPassed'[j] = limitPassed[j]
                           \/ /\ j = k /\ new \in Limiter!Pass
                              /\ limitPassed'[j] = limitPassed[j] \union {new}
  <2>1. limitPassed \in [Addresses -> SUBSET Limiter!Pass]
    BY DEF LimitInv, Limiter!TypeOK
  <2>2. CASE Limiter!Allowed(k)
    <3>1. new \in Limiter!Pass
      BY <1>0, <1>1, <1>2, <2>2 DEF Limiter!Allowed, Limiter!Pass
    <3> QED
      BY <1>0, <2>1, <2>2, <3>1 DEF Limiter!Hit
  <2>3. CASE ~Limiter!Allowed(k)
    BY <2>3 DEF Limiter!Hit
  <2> QED
    BY <2>2, <2>3
<1>9. \A j \in Addresses : \A p \in limitPassed[j] : Remembered(j, p)'
  <2> SUFFICES ASSUME NEW j \in Addresses, NEW p \in limitPassed[j] PROVE Remembered(j, p)'
    OBVIOUS
  <2>1. p.window \in Nat /\ p.nth \in Nat /\ p.tick \in Nat /\ Remembered(j, p)
    BY <1>1, <1>3 DEF Limiter!Pass
  <2>2. CASE j = k
    BY <1>1, <1>2, <1>4, <1>7, <2>1, <2>2 DEF Remembered
  <2>3. CASE j # k /\ j \in Limiter!Kept
    BY <1>4, <1>5, <2>1, <2>3 DEF Remembered
  <2>4. CASE j # k /\ j \in Limiter!Listed /\ j \notin Limiter!Kept
    BY <1>1, <1>4, <1>6, <2>1, <2>4 DEF Remembered
  <2>5. CASE j # k /\ j \notin Limiter!Listed
    BY <1>4, <1>5, <2>1, <2>5 DEF Remembered
  <2> QED
    BY <1>5, <2>2, <2>3, <2>4, <2>5
<1>10. Remembered(k, new)'
  BY <1>0, <1>1, <1>2, <1>4 DEF Remembered
<1>11. \A p \in limitPassed[k] : Apart(p, new)' /\ Apart(new, p)'
  <2> SUFFICES ASSUME NEW p \in limitPassed[k] PROVE Apart(p, new)' /\ Apart(new, p)'
    OBVIOUS
  <2>1. p.window \in Nat /\ p.nth \in Nat
    BY <1>1, <1>3 DEF Limiter!Pass
  <2> QED
    BY <1>0, <1>2, <1>7, <2>1 DEF Apart
<1>12. Limiter!TypeOK'
  <2>1. limitNow' \in 0..MaxTime /\ limitLastPrune' \in 0..limitNow'
    BY <1>1, <1>4
  <2>2. Limiter!Listed' \subseteq Addresses /\ DOMAIN limitHits' = Limiter!Listed'
    BY <1>1, <1>4, <1>5
  <2>3. \A j \in Limiter!Listed' : limitStart'[j] \in 0..limitNow' /\ limitHits'[j] \in Nat \ {0}
    BY <1>1, <1>2, <1>4, <1>5
  <2>4. limitPassed' \in [Addresses -> SUBSET Limiter!Pass]
    <3>1. /\ limitPassed \in [Addresses -> SUBSET Limiter!Pass]
          /\ \E T : limitPassed' = [limitPassed EXCEPT ![k] = T]
      BY DEF LimitInv, Limiter!TypeOK, Limiter!Hit, Limiter!Allowed
    <3> QED
      BY <1>8, <3>1
  <2> QED
    BY <2>1, <2>2, <2>3, <2>4 DEF Limiter!TypeOK
<1>13. \A j \in Addresses : \A p \in limitPassed'[j] : Remembered(j, p)'
  BY <1>8, <1>9, <1>10
<1>14. \A j \in Addresses : \A p, q \in limitPassed'[j] : Apart(p, q)'
  <2>1. \A p, q : Apart(p, q) <=> Apart(p, q)'
    BY DEF Apart
  <2>2. \A j \in Addresses : \A p, q \in limitPassed[j] : Apart(p, q)'
    BY <2>1 DEF LimitInv
  <2>3. Apart(new, new)'
    BY DEF Apart
  <2> QED
    BY <1>8, <1>11, <2>2, <2>3
<1> QED
  BY <1>12, <1>13, <1>14 DEF LimitInv

LEMMA LimitInvariant == Limiter!Spec => []LimitInv
<1>1. LimitInv /\ [Limiter!Next]_(Limiter!limitVars) => LimitInv'
  <2> SUFFICES ASSUME LimitInv, [Limiter!Next]_(Limiter!limitVars) PROVE LimitInv'
    OBVIOUS
  <2>1. CASE UNCHANGED Limiter!limitVars
    BY <2>1 DEF Limiter!limitVars, LimitInv, Limiter!TypeOK, Limiter!Listed, Remembered, Apart
  <2> QED
    BY <2>1, TickKeeps, RestartKeeps, HitKeeps DEF Limiter!Next
<1> QED BY <1>1, LimiterStarts, PTL DEF Limiter!Spec

\* Hits of one window are at most the limit: they differ in their place.
LEMMA OneWindow ==
  ASSUME LimitInv, NEW k \in Addresses, NEW w, NEW S \in SUBSET limitPassed[k],
         \A p \in S : p.window = w
  PROVE  IsFiniteSet(S) /\ Cardinality(S) <= SubmitLimit
<1> DEFINE place == [p \in S |-> p.nth]
<1>0. SubmitLimit \in Nat \ {0} /\ SubmitWindow \in Nat \ {0}
  BY DeskAssumption DEF Limiter!LimitAssumption
<1>1. \A p \in S : p.window \in Nat /\ p.nth \in 1..SubmitLimit
  BY DEF LimitInv, Limiter!TypeOK, Limiter!Pass
<1>2. \A p, q \in S : p.nth = q.nth => p = q
  <2>1. \A p, q \in S : Apart(p, q)
    BY DEF LimitInv
  <2> QED
    BY <1>0, <1>1, <2>1 DEF Apart
<1>3. place \in Injection(S, 1..SubmitLimit)
  BY <1>1, <1>2 DEF Injection, IsInjective
<1>4. IsFiniteSet(1..SubmitLimit) /\ Cardinality(1..SubmitLimit) = SubmitLimit
  BY <1>0, FS_Interval
<1> QED
  <2> HIDE DEF place
  <2> QED BY <1>3, <1>4, FS_Injection

\* The limiter counts as this module does.
LEMMA SameCount == \A S : Limiter!Cardinality(S) = Cardinality(S)
BY DEF Limiter!Cardinality, Cardinality, Limiter!IsFiniteSet, IsFiniteSet

\* A stretch of a window's length meets at most two windows of a key.
LEMMA Stretch ==
  ASSUME LimitInv, NEW k \in Addresses, NEW t \in Nat,
         NEW S \in SUBSET limitPassed[k],
         \A p \in S : t <= p.tick /\ p.tick < t + SubmitWindow
  PROVE  Cardinality(S) <= 2 * SubmitLimit
<1>1. SubmitLimit \in Nat
  BY DeskAssumption DEF Limiter!LimitAssumption
<1>2. \E v, w : \A p \in S : p.window \in {v, w}
  <2>0. SubmitWindow \in Nat \ {0}
    BY DeskAssumption DEF Limiter!LimitAssumption
  <2>1. \A p \in S : /\ p.window \in Nat /\ p.tick \in Nat
                     /\ t < p.window + SubmitWindow /\ p.window < t + SubmitWindow
    <3> SUFFICES ASSUME NEW p \in S
                 PROVE /\ p.window \in Nat /\ p.tick \in Nat
                       /\ t < p.window + SubmitWindow /\ p.window < t + SubmitWindow
      OBVIOUS
    <3>1. p.window \in Nat /\ p.tick \in Nat /\ Remembered(k, p)
      BY DEF LimitInv, Limiter!TypeOK, Limiter!Pass
    <3> QED
      BY <2>0, <3>1 DEF Remembered
  <2>2. \A p, q \in S : p.window = q.window \/ p.window + SubmitWindow <= q.window
                                            \/ q.window + SubmitWindow <= p.window
    BY DEF LimitInv, Apart
  <2>3. CASE \E p, q \in S : p.window # q.window
    <3>1. PICK p \in S, q \in S : p.window # q.window
      BY <2>3
    <3>2. \A r \in S : r.window \in {p.window, q.window}
      <4> SUFFICES ASSUME NEW r \in S, r.window # p.window, r.window # q.window PROVE FALSE
        OBVIOUS
      <4> QED
        BY <2>0, <2>1, <2>2, <3>1
    <3> QED
      BY <3>2
  <2>4. CASE \A p, q \in S : p.window = q.window
    BY <2>4
  <2> QED
    BY <2>3, <2>4
<1>3. PICK v, w : \A p \in S : p.window \in {v, w}
  BY <1>2
<1> DEFINE A == {p \in S : p.window = v}
           B == {p \in S : p.window = w}
<1>4. S = A \cup B
  BY <1>3
<1>5. IsFiniteSet(A) /\ Cardinality(A) <= SubmitLimit
  BY OneWindow
<1>6. IsFiniteSet(B) /\ Cardinality(B) <= SubmitLimit
  BY OneWindow
<1> HIDE DEF A, B
<1>7. /\ IsFiniteSet(A \cap B)
      /\ Cardinality(S) = Cardinality(A) + Cardinality(B) - Cardinality(A \cap B)
  BY <1>4, <1>5, <1>6, FS_Union, FS_Intersection, Zenon
<1>8. Cardinality(A) \in Nat /\ Cardinality(B) \in Nat /\ Cardinality(A \cap B) \in Nat
  BY <1>5, <1>6, <1>7, FS_CardinalityType
<1> QED
  BY <1>1, <1>5, <1>6, <1>7, <1>8

LEMMA LimitKept == LimitInv => Limiter!PassesBounded
<1> SUFFICES ASSUME LimitInv, NEW k \in Addresses, NEW t \in 0..limitNow
             PROVE  Cardinality({p \in limitPassed[k] : t <= p.tick /\ p.tick < t + SubmitWindow})
                      <= 2 * SubmitLimit
  BY SameCount DEF Limiter!PassesBounded
<1> DEFINE S == {p \in limitPassed[k] : t <= p.tick /\ p.tick < t + SubmitWindow}
<1>1. t \in Nat
  BY DEF LimitInv, Limiter!TypeOK
<1>2. S \in SUBSET limitPassed[k] /\ \A p \in S : t <= p.tick /\ p.tick < t + SubmitWindow
  OBVIOUS
<1> HIDE DEF S
<1>3. Cardinality(S) <= 2 * SubmitLimit
  BY <1>1, <1>2, Stretch
<1> QED
  BY <1>3 DEF S

\* At most twice the limit passes in any stretch of a window's length, wherever it
\* starts (rate-limit.ts createRateLimiter, submit-rate-limit.ts:9).
THEOREM PassesAlwaysBounded == Spec => []PassesBounded
<1>1. LimitInv => PassesBounded
  BY LimitKept DEF PassesBounded
<1> QED BY <1>1, LimiterRuns, LimitInvariant, PTL

-----------------------------------------------------------------------------
(* The edit pages of single types.                                         *)

\* What a save may send: some of the fields.
Bodies == UNION {[D -> FieldValues] : D \in SUBSET PageFields}

\* The fields in which a working copy differs were typed in it, and so were those
\* a save is about to store.
DirtyTyped ==
  /\ \A b \in Staff, f \in PageFields : pageValue[b][f] # pageLoaded[b][f] => f \in pageTyped[b]
  /\ \A b \in Staff : pageSaving[b] = "put" => DOMAIN pageBody[b] \subseteq pageTyped[b]

\* A differing field that was neither typed nor stored by another browser since the
\* save began is in its body, and once that is stored the draft shows it.
OwnTextOnItsWay ==
  \A b \in Staff, f \in PageFields :
    pageValue[b][f] # pageLoaded[b][f] /\ f \notin pageLate[b] \union pageOver[b] =>
      /\ pageSaving[b] = "put" => f \in DOMAIN pageBody[b] /\ pageBody[b][f] = pageValue[b][f]
      /\ pageSaving[b] \in {"publish", "fetch"} => pageDraft[f] = pageValue[b][f]

PageTyped ==
  /\ Page!TypeOK
  /\ pageBody \in [Staff -> Bodies]
  /\ pageTyped \in [Staff -> SUBSET PageFields]
  /\ pageLate \in [Staff -> SUBSET PageFields]
  /\ pageOver \in [Staff -> SUBSET PageFields]

PageInv == PageTyped /\ Page!NothingUnpublished /\ DirtyTyped /\ OwnTextOnItsWay

LEMMA PagesRun == Spec => Page!Spec
<1>1. Init => Page!Init
  BY DEF Init
<1>2. [Next]_deskVars => [Page!Next]_(Page!pageVars)
  BY DEF Next, deskVars, pageState, Page!pageVars
<1> QED BY <1>1, <1>2, PTL DEF Spec, Page!Spec, deskVars

LEMMA NoBody == <<>> \in Bodies /\ DOMAIN <<>> = {}
<1> DEFINE D == {}
<1>1. <<>> \in [D -> FieldValues] /\ D \in SUBSET PageFields
  OBVIOUS
<1> QED
  BY <1>1, Zenon DEF Bodies

\* The shape of a body, as the actions use it.
LEMMA BodyShape ==
  ASSUME NEW x \in Bodies
  PROVE  DOMAIN x \subseteq PageFields /\ \A f \in DOMAIN x : x[f] \in FieldValues
BY DEF Bodies

\* What the working copy changed is a body.
LEMMA ChangesAreBody ==
  ASSUME NEW old \in Page!Document, NEW new \in Page!Document
  PROVE  Page!ChangedFields(old, new) \in Bodies
<1> DEFINE D == {f \in PageFields : old[f] # new[f]}
<1>1. D \in SUBSET PageFields /\ Page!ChangedFields(old, new) = [f \in D |-> new[f]]
  BY DEF Page!ChangedFields
<1>2. [f \in D |-> new[f]] \in [D -> FieldValues]
  BY DEF Page!Document
<1> HIDE DEF D
<1> QED
  BY <1>1, <1>2, Zenon DEF Bodies

LEMMA PagesStart == Page!Init => PageInv
<1> SUFFICES ASSUME Page!Init PROVE PageInv
  OBVIOUS
<1>1. FirstValue \in FieldValues /\ MaxTyped \in Nat /\ MaxPageFaults \in Nat
  BY DeskAssumption DEF Page!PagesAssumption
<1>2. pageDraft \in Page!Document
  BY <1>1 DEF Page!Init, Page!Document
<1>3. /\ pageBody = [b \in Staff |-> <<>>] /\ pageTyped = [b \in Staff |-> {}]
      /\ pageLate = pageTyped /\ pageOver = pageTyped
  BY DEF Page!Init
<1>4. Page!TypeOK
  <2>1. /\ pagePublished \in Page!Document
        /\ pageLoaded \in [Staff -> Page!Document] /\ pageValue \in [Staff -> Page!Document]
    BY <1>2 DEF Page!Init
  <2>2. pageSaving \in [Staff -> {"no", "put", "publish", "fetch"}] /\ pageHalfway \in BOOLEAN
    BY DEF Page!Init
  <2>3. pageCount \in 0..MaxTyped /\ pageFaults \in 0..MaxPageFaults
    BY <1>1 DEF Page!Init
  <2>4. \A g \in {pageTyped, pageLate, pageOver} : g \in [Staff -> SUBSET PageFields]
    BY <1>3
  <2>5. \A b \in Staff : pageBody[b] = <<>>
    BY <1>3
  <2> QED
    BY <1>2, <2>1, <2>2, <2>3, <2>4, <2>5, NoBody DEF Page!TypeOK
<1>5. PageTyped
  BY <1>3, <1>4, NoBody DEF PageTyped
<1> QED
  BY <1>5 DEF Page!Init, PageInv, Page!NothingUnpublished, DirtyTyped, OwnTextOnItsWay

LEMMA OpenKeeps ==
  ASSUME PageInv, NEW b \in Staff, Page!Open(b)
  PROVE  PageInv'
<1> USE NoBody, DeskAssumption
    DEF PageInv, PageTyped, Page!TypeOK, Page!Document, Page!PagesAssumption
<1>1. PageTyped'
  BY BodyShape DEF Page!Open, Page!Restart
<1>2. Page!NothingUnpublished'
  BY DEF Page!Open, Page!Restart, Page!NothingUnpublished
<1>3. DirtyTyped'
  BY DEF Page!Open, Page!Restart, DirtyTyped
<1>4. OwnTextOnItsWay'
  BY DEF Page!Open, Page!Restart, OwnTextOnItsWay
<1> QED
  BY <1>1, <1>2, <1>3, <1>4

LEMMA TypeKeeps ==
  ASSUME PageInv, NEW b \in Staff, Page!Type(b)
  PROVE  PageInv'
<1> USE NoBody, DeskAssumption
    DEF PageInv, PageTyped, Page!TypeOK, Page!Document, Page!PagesAssumption
<1>1. PageTyped'
  BY BodyShape DEF Page!Type
<1>2. Page!NothingUnpublished'
  BY DEF Page!Type, Page!NothingUnpublished
<1>3. DirtyTyped'
  BY DEF Page!Type, DirtyTyped
<1>4. OwnTextOnItsWay'
  BY DEF Page!Type, OwnTextOnItsWay
<1> QED
  BY <1>1, <1>2, <1>3, <1>4

LEMMA DiscardKeeps ==
  ASSUME PageInv, NEW b \in Staff, Page!Discard(b)
  PROVE  PageInv'
<1> USE NoBody, DeskAssumption
    DEF PageInv, PageTyped, Page!TypeOK, Page!Document, Page!PagesAssumption
<1>1. PageTyped'
  BY BodyShape DEF Page!Discard, Page!Restart, Page!Dirty
<1>2. Page!NothingUnpublished'
  BY DEF Page!Discard, Page!Restart, Page!Dirty, Page!NothingUnpublished
<1>3. DirtyTyped'
  BY DEF Page!Discard, Page!Restart, Page!Dirty, DirtyTyped
<1>4. OwnTextOnItsWay'
  BY DEF Page!Discard, Page!Restart, Page!Dirty, OwnTextOnItsWay
<1> QED
  BY <1>1, <1>2, <1>3, <1>4

LEMMA StartSaveKeeps ==
  ASSUME PageInv, NEW b \in Staff, Page!StartSave(b)
  PROVE  PageInv'
<1> USE NoBody, DeskAssumption
    DEF PageInv, PageTyped, Page!TypeOK, Page!Document, Page!PagesAssumption
<1>1. PageTyped'
  <2>1. Page!ChangedFields(pageLoaded[b], pageValue[b]) \in Bodies
    BY ChangesAreBody
  <2> QED
    BY <2>1, BodyShape DEF Page!StartSave
<1>2. Page!NothingUnpublished'
  BY DEF Page!StartSave, Page!Dirty, Page!ChangedFields, Page!NothingUnpublished
<1>3. DirtyTyped'
  BY DEF Page!StartSave, Page!Dirty, Page!ChangedFields, DirtyTyped
<1>4. OwnTextOnItsWay'
  BY DEF Page!StartSave, Page!Dirty, Page!ChangedFields, OwnTextOnItsWay
<1> QED
  BY <1>1, <1>2, <1>3, <1>4

LEMMA PutKeeps ==
  ASSUME PageInv, NEW b \in Staff, Page!Put(b)
  PROVE  PageInv'
<1> USE NoBody, DeskAssumption
    DEF PageInv, PageTyped, Page!TypeOK, Page!Document, Page!PagesAssumption
<1>1. PageTyped'
  BY BodyShape DEF Page!Put, Page!StoreBody
<1>2. Page!NothingUnpublished'
  BY DEF Page!Put, Page!StoreBody, Page!NothingUnpublished
<1>3. DirtyTyped'
  BY DEF Page!Put, Page!StoreBody, DirtyTyped
<1>4. OwnTextOnItsWay'
  BY DEF Page!Put, Page!StoreBody, OwnTextOnItsWay
<1> QED
  BY <1>1, <1>2, <1>3, <1>4

LEMMA PublishKeeps ==
  ASSUME PageInv, NEW b \in Staff, Page!Publish(b)
  PROVE  PageInv'
<1> USE NoBody, DeskAssumption
    DEF PageInv, PageTyped, Page!TypeOK, Page!Document, Page!PagesAssumption
<1>1. PageTyped'
  BY BodyShape DEF Page!Publish
<1>2. Page!NothingUnpublished'
  BY DEF Page!Publish, Page!NothingUnpublished
<1>3. DirtyTyped'
  BY DEF Page!Publish, DirtyTyped
<1>4. OwnTextOnItsWay'
  BY DEF Page!Publish, OwnTextOnItsWay
<1> QED
  BY <1>1, <1>2, <1>3, <1>4

LEMMA FetchKeeps ==
  ASSUME PageInv, NEW b \in Staff, Page!Fetch(b)
  PROVE  PageInv'
<1> USE NoBody, DeskAssumption
    DEF PageInv, PageTyped, Page!TypeOK, Page!Document, Page!PagesAssumption
<1>1. PageTyped'
  BY BodyShape DEF Page!Fetch, Page!Restart
<1>2. Page!NothingUnpublished'
  BY DEF Page!Fetch, Page!Restart, Page!NothingUnpublished
<1>3. DirtyTyped'
  BY DEF Page!Fetch, Page!Restart, DirtyTyped
<1>4. OwnTextOnItsWay'
  BY DEF Page!Fetch, Page!Restart, OwnTextOnItsWay
<1> QED
  BY <1>1, <1>2, <1>3, <1>4

LEMMA PutFailsKeeps ==
  ASSUME PageInv, NEW b \in Staff, Page!PutFails(b)
  PROVE  PageInv'
<1> USE NoBody, DeskAssumption
    DEF PageInv, PageTyped, Page!TypeOK, Page!Document, Page!PagesAssumption
<1>1. PageTyped'
  BY BodyShape DEF Page!PutFails, Page!GiveUp
<1>2. Page!NothingUnpublished'
  BY DEF Page!PutFails, Page!GiveUp, Page!NothingUnpublished
<1>3. DirtyTyped'
  BY DEF Page!PutFails, Page!GiveUp, DirtyTyped
<1>4. OwnTextOnItsWay'
  BY DEF Page!PutFails, Page!GiveUp, OwnTextOnItsWay
<1> QED
  BY <1>1, <1>2, <1>3, <1>4

LEMMA PutUnansweredKeeps ==
  ASSUME PageInv, NEW b \in Staff, Page!PutUnanswered(b)
  PROVE  PageInv'
<1> USE NoBody, DeskAssumption
    DEF PageInv, PageTyped, Page!TypeOK, Page!Document, Page!PagesAssumption
<1>1. PageTyped'
  BY BodyShape DEF Page!PutUnanswered, Page!GiveUp, Page!StoreBody
<1>2. Page!NothingUnpublished'
  BY DEF Page!PutUnanswered, Page!GiveUp, Page!StoreBody, Page!NothingUnpublished
<1>3. DirtyTyped'
  BY DEF Page!PutUnanswered, Page!GiveUp, Page!StoreBody, DirtyTyped
<1>4. OwnTextOnItsWay'
  BY DEF Page!PutUnanswered, Page!GiveUp, Page!StoreBody, OwnTextOnItsWay
<1> QED
  BY <1>1, <1>2, <1>3, <1>4

LEMMA PublishFailsKeeps ==
  ASSUME PageInv, NEW b \in Staff, Page!PublishFails(b)
  PROVE  PageInv'
<1> USE NoBody, DeskAssumption
    DEF PageInv, PageTyped, Page!TypeOK, Page!Document, Page!PagesAssumption
<1>1. PageTyped'
  BY BodyShape DEF Page!PublishFails, Page!GiveUp
<1>2. Page!NothingUnpublished'
  BY DEF Page!PublishFails, Page!GiveUp, Page!NothingUnpublished
<1>3. DirtyTyped'
  BY DEF Page!PublishFails, Page!GiveUp, DirtyTyped
<1>4. OwnTextOnItsWay'
  BY DEF Page!PublishFails, Page!GiveUp, OwnTextOnItsWay
<1> QED
  BY <1>1, <1>2, <1>3, <1>4

LEMMA FetchFailsKeeps ==
  ASSUME PageInv, NEW b \in Staff, Page!FetchFails(b)
  PROVE  PageInv'
<1> USE NoBody, DeskAssumption
    DEF PageInv, PageTyped, Page!TypeOK, Page!Document, Page!PagesAssumption
<1>1. PageTyped'
  BY BodyShape DEF Page!FetchFails, Page!GiveUp
<1>2. Page!NothingUnpublished'
  BY DEF Page!FetchFails, Page!GiveUp, Page!NothingUnpublished
<1>3. DirtyTyped'
  BY DEF Page!FetchFails, Page!GiveUp, DirtyTyped
<1>4. OwnTextOnItsWay'
  BY DEF Page!FetchFails, Page!GiveUp, OwnTextOnItsWay
<1> QED
  BY <1>1, <1>2, <1>3, <1>4

LEMMA PageInvariant == Page!Spec => []PageInv
<1>1. PageInv /\ [Page!Next]_(Page!pageVars) => PageInv'
  <2> SUFFICES ASSUME PageInv, [Page!Next]_(Page!pageVars) PROVE PageInv'
    OBVIOUS
  <2>1. CASE UNCHANGED Page!pageVars
    BY <2>1 DEF Page!pageVars, PageInv, PageTyped, Page!TypeOK, Page!NothingUnpublished, DirtyTyped,
                OwnTextOnItsWay
  <2>2. ASSUME NEW b \in Staff, Page!Step(b) PROVE PageInv'
    BY <2>2, OpenKeeps, TypeKeeps, DiscardKeeps, StartSaveKeeps, PutKeeps, PublishKeeps, FetchKeeps,
       PutFailsKeeps, PutUnansweredKeeps, PublishFailsKeeps, FetchFailsKeeps DEF Page!Step
  <2> QED
    BY <2>1, <2>2 DEF Page!Next
<1> QED BY <1>1, PagesStart, PTL DEF Page!Spec

\* A step of one browser does not move the save of another.
LEMMA OwnSave ==
  ASSUME PageInv, NEW b \in Staff, NEW c \in Staff, c # b, Page!Step(c)
  PROVE  pageSaving'[b] = pageSaving[b] /\ pageValue'[b] = pageValue[b]
BY DEF PageInv, PageTyped, Page!TypeOK, Page!Step, Page!Open, Page!Type, Page!Discard,
   Page!StartSave, Page!Put, Page!Publish, Page!Fetch, Page!PutFails, Page!PutUnanswered,
   Page!PublishFails, Page!FetchFails, Page!Restart, Page!GiveUp, Page!StoreBody

OnlyTyped ==
  \A b \in Staff : pageSaving[b] = "put" /\ pageDraft' # pageDraft /\ pageSaving'[b] # "put"
     => \A f \in PageFields : pageDraft'[f] # pageDraft[f] => f \in pageTyped[b]

LEMMA StoresOnlyTyped ==
  ASSUME PageInv, [Page!Next]_(Page!pageVars)
  PROVE  OnlyTyped
<1> SUFFICES ASSUME NEW b \in Staff, NEW f \in PageFields, pageSaving[b] = "put",
                    pageSaving'[b] # "put", pageDraft'[f] # pageDraft[f]
             PROVE  f \in pageTyped[b]
  BY DEF OnlyTyped
<1>1. PICK c \in Staff : Page!Step(c)
  BY DEF Page!Next, Page!pageVars
<1>2. c = b
  BY <1>1, OwnSave
<1>3. f \in DOMAIN pageBody[b]
  BY <1>1, <1>2 DEF PageInv, PageTyped, Page!TypeOK, Page!Document, Page!Step, Page!Open, Page!Type,
     Page!Discard, Page!StartSave, Page!Put, Page!Publish, Page!Fetch, Page!PutFails,
     Page!PutUnanswered, Page!PublishFails, Page!FetchFails, Page!Restart, Page!GiveUp,
     Page!StoreBody
<1> QED
  BY <1>3 DEF PageInv, DirtyTyped

OnlyLateLost ==
  \A b \in Staff, f \in PageFields :
    /\ pageSaving[b] # "no" /\ pageValue[b][f] # pageLoaded[b][f]
    /\ pageValue'[b][f] # pageValue[b][f]
    => f \in pageLate'[b] \union pageLate[b] \union pageOver[b]

LEMMA LosesOnlyLate ==
  ASSUME PageInv, [Page!Next]_(Page!pageVars)
  PROVE  OnlyLateLost
<1> SUFFICES ASSUME NEW b \in Staff, NEW f \in PageFields, pageSaving[b] # "no",
                    pageValue[b][f] # pageLoaded[b][f], pageValue'[b][f] # pageValue[b][f]
             PROVE  f \in pageLate'[b] \union pageLate[b] \union pageOver[b]
  BY DEF OnlyLateLost
<1>1. PICK c \in Staff : Page!Step(c)
  BY DEF Page!Next, Page!pageVars
<1>2. c = b
  BY <1>1, OwnSave
<1>3. Page!Type(b) \/ Page!Fetch(b)
  BY <1>1, <1>2 DEF Page!Step, Page!Open, Page!Discard, Page!StartSave, Page!Put, Page!Publish,
     Page!PutFails, Page!PutUnanswered, Page!PublishFails, Page!FetchFails, Page!GiveUp
<1>4. CASE Page!Type(b)
  BY <1>4 DEF Page!Type, PageInv, PageTyped, Page!TypeOK, Page!Document
<1>5. CASE Page!Fetch(b)
  BY <1>5 DEF Page!Fetch, Page!Restart, PageInv, PageTyped, Page!TypeOK, OwnTextOnItsWay
<1> QED
  BY <1>3, <1>4, <1>5

\* A save stores only what its user typed, is published or a failure explains why
\* not, and takes away only text typed, or stored by another, while it ran
\* (contentApi.ts:227, useSingleType.ts:37).
THEOREM PagesAlwaysKept == Spec => PagesKept
<1>1. PageInv => (part = "pages" => Page!NothingUnpublished)
  BY DEF PageInv
<1>2. PageInv /\ [Page!Next]_(Page!pageVars) =>
       [OnlyTyped]_(Page!pageVars) /\ [OnlyLateLost]_(Page!pageVars)
  BY StoresOnlyTyped, LosesOnlyLate
<1>3. Page!OnlyTypedStored <=> [][OnlyTyped]_(Page!pageVars)
  BY DEF Page!OnlyTypedStored, OnlyTyped
<1>4. Page!OnlyLateTextLost <=> [][OnlyLateLost]_(Page!pageVars)
  BY DEF Page!OnlyLateTextLost, OnlyLateLost
<1> QED BY <1>1, <1>2, <1>3, <1>4, PagesRun, PageInvariant, PTL DEF PagesKept, Page!Spec

-----------------------------------------------------------------------------
(* The cards of the menu.                                                  *)

CardBodies == UNION {[fs -> CardTexts \union {Nothing}] : fs \in SUBSET Menu!Fields}

\* A request, by the step it is at.
CardRequests ==
  [step : {"idle"}] \union [step : {"find"}, key : MenuKeys, body : CardBodies]
    \union [step : {"write"}, key : MenuKeys, body : CardBodies, next : Seq(Menu!Row)]

CardsTyped == Menu!TypeOK /\ menuUpdate \in [Staff -> CardRequests]

\* What a request that was not overtaken is about to write is its edit of what is
\* stored now.
NextIsEdit ==
  \A e \in Staff : menuUpdate[e].step = "write" /\ ~menuOvertaken[e] =>
    menuUpdate[e].next = [i \in DOMAIN menuOverrides |->
      Menu!Edited(menuOverrides[i], menuUpdate[e].key, menuUpdate[e].body)]

MenuInv == CardsTyped /\ Menu!LastAskedShown /\ NextIsEdit

LEMMA MenuRuns == Spec => Menu!Spec
<1>1. Init => Menu!Init
  BY DEF Init
<1>2. [Next]_deskVars => [Menu!Next]_(Menu!menuVars)
  BY DEF Next, deskVars, menuState, Menu!menuVars
<1> QED BY <1>1, <1>2, PTL DEF Spec, Menu!Spec, deskVars

\* An edited row is a row.
LEMMA EditedRow ==
  ASSUME NEW row \in Menu!Row, NEW key, NEW body \in CardBodies
  PROVE  Menu!Edited(row, key, body) \in Menu!Row
<1>1. PICK fs \in SUBSET Menu!Fields : body \in [fs -> CardTexts \union {Nothing}]
  BY DEF CardBodies
<1>2. /\ DOMAIN row = {"key", "description", "image"}
      /\ row.key \in MenuKeys /\ row.description \in CardTexts \union {Nothing}
      /\ row.image \in CardTexts \union {Nothing}
  BY DEF Menu!Row
<1>3. /\ "key" \notin DOMAIN body
      /\ \A f \in DOMAIN body : body[f] \in CardTexts \union {Nothing}
  BY <1>1 DEF Menu!Fields
<1>4. CASE row.key = key
  <2> DEFINE new == [f \in DOMAIN row |-> IF f \in DOMAIN body THEN body[f] ELSE row[f]]
  <2>1. /\ new.key \in MenuKeys /\ new.description \in CardTexts \union {Nothing}
        /\ new.image \in CardTexts \union {Nothing}
    BY <1>2, <1>3
  <2>2. new = [key |-> new.key, description |-> new.description, image |-> new.image]
    BY <1>2
  <2>3. Menu!Edited(row, key, body) = new
    BY <1>4 DEF Menu!Edited
  <2> HIDE DEF new
  <2> QED
    BY <2>1, <2>2, <2>3 DEF Menu!Row
<1>5. CASE row.key # key
  BY <1>5 DEF Menu!Edited
<1> QED
  BY <1>4, <1>5

LEMMA EditedRows ==
  ASSUME NEW s \in Seq(Menu!Row), NEW key, NEW body \in CardBodies
  PROVE  [i \in DOMAIN s |-> Menu!Edited(s[i], key, body)] \in Seq(Menu!Row)
<1>1. Len(s) \in Nat /\ DOMAIN s = 1..Len(s) /\ \A i \in DOMAIN s : s[i] \in Menu!Row
  BY ElementOfSeq, LenProperties
<1> DEFINE t == [i \in DOMAIN s |-> Menu!Edited(s[i], key, body)]
<1>2. t \in [1..Len(s) -> Menu!Row]
  BY <1>1, EditedRow
<1> HIDE DEF t
<1>3. t \in Seq(Menu!Row)
  BY <1>1, <1>2, IsASeq
<1> QED
  BY <1>3 DEF t

LEMMA MenuStarts == Menu!Init => MenuInv
<1> SUFFICES ASSUME Menu!Init PROVE MenuInv
  OBVIOUS
<1>1. FirstCards \in Seq(Menu!Row) /\ MaxCardUpdates \in Nat
  BY DeskAssumption DEF Menu!CardsAssumption
<1>2. [i \in DOMAIN FirstCards |-> FirstCards[i]] = FirstCards
  BY <1>1, SeqDef
<1>3. menuOverrides = FirstCards /\ menuWanted = FirstCards
  BY <1>2 DEF Menu!Init
<1>4. \A e \in Staff : menuUpdate[e].step = "idle"
  BY DEF Menu!Init, Menu!Idle
<1>5. menuUpdate \in [Staff -> CardRequests]
  BY DEF Menu!Init, Menu!Idle, CardRequests
<1>6. menuUpdates \in 0..MaxCardUpdates
  BY <1>1 DEF Menu!Init
<1>7. menuOvertaken \in [Staff -> BOOLEAN] /\ menuRaced \in BOOLEAN
  BY DEF Menu!Init
<1>8. CardsTyped
  BY <1>1, <1>3, <1>4, <1>5, <1>6, <1>7 DEF CardsTyped, Menu!TypeOK
<1> QED
  BY <1>3, <1>4, <1>8 DEF MenuInv, Menu!LastAskedShown, NextIsEdit

LEMMA RequestSteps ==
  ASSUME NEW r \in CardRequests
  PROVE  /\ r.step \in {"idle", "find", "write"}
         /\ r.step = "find" => r.key \in MenuKeys /\ r.body \in CardBodies
         /\ r.step = "write" => /\ r.key \in MenuKeys /\ r.body \in CardBodies
                                /\ r.next \in Seq(Menu!Row)
BY DEF CardRequests

\* A request that does not write leaves the rows; only its own step moves.
LEMMA MenuFrame ==
  ASSUME MenuInv, NEW e \in Staff, NEW r \in CardRequests,
         menuUpdate' = [menuUpdate EXCEPT ![e] = r],
         UNCHANGED <<menuOverrides, menuWanted, menuRaced>>,
         menuUpdates' \in 0..MaxCardUpdates,
         \/ UNCHANGED menuOvertaken
         \/ menuOvertaken' = [menuOvertaken EXCEPT ![e] = FALSE],
         r.step = "write" => r.next = [i \in DOMAIN menuOverrides |->
                                         Menu!Edited(menuOverrides[i], r.key, r.body)]
  PROVE  MenuInv'
<1>1. CardsTyped'
  <2>1. menuUpdate' \in [Staff -> CardRequests]
    BY DEF MenuInv, CardsTyped
  <2>2. \A d \in Staff : menuUpdate'[d].step \in {"idle", "find", "write"}
    BY <2>1, RequestSteps
  <2>3. menuOvertaken' \in [Staff -> BOOLEAN]
    BY DEF MenuInv, CardsTyped, Menu!TypeOK
  <2> QED
    BY <2>1, <2>2, <2>3 DEF MenuInv, CardsTyped, Menu!TypeOK
<1>2. Menu!LastAskedShown'
  BY DEF MenuInv, Menu!LastAskedShown
<1>3. NextIsEdit'
  <2> SUFFICES ASSUME NEW d \in Staff, menuUpdate'[d].step = "write", ~menuOvertaken'[d]
               PROVE  menuUpdate'[d].next = [i \in DOMAIN menuOverrides' |->
                        Menu!Edited(menuOverrides'[i], menuUpdate'[d].key, menuUpdate'[d].body)]
    BY DEF NextIsEdit
  <2>1. menuUpdate \in [Staff -> CardRequests] /\ menuOvertaken \in [Staff -> BOOLEAN]
    BY DEF MenuInv, CardsTyped, Menu!TypeOK
  <2>2. CASE d = e
    BY <2>1, <2>2
  <2>3. CASE d # e
    <3>1. menuUpdate'[d] = menuUpdate[d] /\ menuOvertaken'[d] = menuOvertaken[d]
      BY <2>1, <2>3
    <3> QED
      BY <3>1 DEF MenuInv, NextIsEdit
  <2> QED
    BY <2>2, <2>3
<1> QED
  BY <1>1, <1>2, <1>3 DEF MenuInv

LEMMA SendKeeps ==
  ASSUME MenuInv, NEW e \in Staff, Menu!Send(e)
  PROVE  MenuInv'
<1>1. PICK k \in MenuKeys, fs \in SUBSET Menu!Fields :
        \E body \in [fs -> CardTexts \union {Nothing}] :
          /\ menuUpdates < MaxCardUpdates /\ menuUpdates' = menuUpdates + 1
          /\ menuUpdate' = [menuUpdate EXCEPT ![e] = [step |-> "find", key |-> k, body |-> body]]
          /\ menuOvertaken' = [menuOvertaken EXCEPT ![e] = FALSE]
          /\ UNCHANGED <<menuOverrides, menuWanted, menuRaced>>
  BY DEF Menu!Send
<1>2. PICK body \in [fs -> CardTexts \union {Nothing}] :
          /\ menuUpdates < MaxCardUpdates /\ menuUpdates' = menuUpdates + 1
          /\ menuUpdate' = [menuUpdate EXCEPT ![e] = [step |-> "find", key |-> k, body |-> body]]
          /\ menuOvertaken' = [menuOvertaken EXCEPT ![e] = FALSE]
          /\ UNCHANGED <<menuOverrides, menuWanted, menuRaced>>
  BY <1>1
<1>3. body \in CardBodies
  BY Zenon DEF CardBodies
<1>4. [step |-> "find", key |-> k, body |-> body] \in CardRequests
  BY <1>3 DEF CardRequests
<1>5. menuUpdates' \in 0..MaxCardUpdates
  BY <1>2, DeskAssumption DEF MenuInv, CardsTyped, Menu!TypeOK, Menu!CardsAssumption
<1> QED
  BY <1>2, <1>4, <1>5, MenuFrame

LEMMA EndKeeps ==
  ASSUME MenuInv, NEW e \in Staff, Menu!FindUnknown(e) \/ Menu!WriteFails(e)
  PROVE  MenuInv'
<1>1. Menu!Idle \in CardRequests /\ Menu!Idle.step = "idle"
  BY DEF Menu!Idle, CardRequests
<1>2. menuUpdates' \in 0..MaxCardUpdates
  BY DEF Menu!FindUnknown, Menu!WriteFails, MenuInv, CardsTyped, Menu!TypeOK
<1> QED
  BY <1>1, <1>2, MenuFrame DEF Menu!FindUnknown, Menu!WriteFails

LEMMA FindKeeps ==
  ASSUME MenuInv, NEW e \in Staff, Menu!FindRows(e)
  PROVE  MenuInv'
<1>1. PICK u : u = menuUpdate[e]
  OBVIOUS
<1>2. u.step = "find" /\ u.key \in MenuKeys /\ u.body \in CardBodies
  BY <1>1, RequestSteps DEF Menu!FindRows, MenuInv, CardsTyped
<1>3. PICK next :
       next = [i \in DOMAIN menuOverrides |-> Menu!Edited(menuOverrides[i], u.key, u.body)]
  OBVIOUS
<1>4. next \in Seq(Menu!Row)
  BY <1>2, <1>3, EditedRows DEF MenuInv, CardsTyped, Menu!TypeOK
<1>5. PICK r : r = [step |-> "write", key |-> u.key, body |-> u.body, next |-> next]
  OBVIOUS
<1>6. r \in CardRequests
  BY <1>2, <1>4, <1>5 DEF CardRequests
<1>7. menuUpdate' = [menuUpdate EXCEPT ![e] = r]
  BY <1>1, <1>3, <1>5 DEF Menu!FindRows
<1>8. menuUpdates' \in 0..MaxCardUpdates
  BY DEF Menu!FindRows, MenuInv, CardsTyped, Menu!TypeOK
<1>9. r.next = [i \in DOMAIN menuOverrides |-> Menu!Edited(menuOverrides[i], r.key, r.body)]
  BY <1>3, <1>5
<1> QED
  BY <1>6, <1>7, <1>8, <1>9, MenuFrame DEF Menu!FindRows

LEMMA WriteKeeps ==
  ASSUME MenuInv, NEW e \in Staff, Menu!WriteRows(e)
  PROVE  MenuInv'
<1>1. PICK u : u = menuUpdate[e]
  OBVIOUS
<1>2. /\ u.step = "write" /\ u.key \in MenuKeys /\ u.body \in CardBodies
      /\ u.next \in Seq(Menu!Row)
  BY <1>1, RequestSteps DEF Menu!WriteRows, MenuInv, CardsTyped
<1>3. /\ menuOverrides \in Seq(Menu!Row) /\ menuWanted \in Seq(Menu!Row)
      /\ menuUpdate \in [Staff -> CardRequests]
      /\ menuOvertaken \in [Staff -> BOOLEAN] /\ menuRaced \in BOOLEAN
  BY DEF MenuInv, CardsTyped, Menu!TypeOK
<1>4. \A row \in Menu!Row :
        [f \in DOMAIN row |-> IF row.key = u.key /\ f \in DOMAIN u.body THEN u.body[f] ELSE row[f]]
          = Menu!Edited(row, u.key, u.body)
  BY DEF Menu!Edited, Menu!Row
<1>5. \A i \in DOMAIN menuWanted : menuWanted[i] \in Menu!Row
  BY <1>3, ElementOfSeq, LenProperties
<1>6. menuWanted' = [i \in DOMAIN menuWanted |-> Menu!Edited(menuWanted[i], u.key, u.body)]
  BY <1>1, <1>4, <1>5 DEF Menu!WriteRows
<1>7. menuWanted' \in Seq(Menu!Row)
  BY <1>2, <1>3, <1>6, EditedRows
<1>8. /\ menuOverrides' = u.next /\ menuUpdate' = [menuUpdate EXCEPT ![e] = Menu!Idle]
      /\ menuRaced' = (menuRaced \/ menuOvertaken[e]) /\ menuUpdates' = menuUpdates
      /\ menuOvertaken' = [d \in Staff |-> \/ menuOvertaken[d]
                                           \/ d # e /\ menuUpdate[d].step = "write"]
  BY <1>1 DEF Menu!WriteRows
<1>9. Menu!Idle \in CardRequests /\ Menu!Idle.step = "idle"
  BY DEF Menu!Idle, CardRequests
<1>10. CardsTyped'
  <2>1. menuUpdate' \in [Staff -> CardRequests]
    BY <1>3, <1>8, <1>9
  <2>2. menuOvertaken' \in [Staff -> BOOLEAN] /\ menuRaced' \in BOOLEAN
    BY <1>3, <1>8
  <2>3. \A d \in Staff : menuUpdate'[d].step \in {"idle", "find", "write"}
    BY <2>1, RequestSteps
  <2> QED
    BY <1>2, <1>7, <1>8, <2>1, <2>2, <2>3 DEF CardsTyped, Menu!TypeOK, MenuInv
<1>11. Menu!LastAskedShown'
  BY <1>1, <1>2, <1>6, <1>8 DEF MenuInv, Menu!LastAskedShown, NextIsEdit
<1>12. NextIsEdit'
  <2> SUFFICES ASSUME NEW d \in Staff, menuUpdate'[d].step = "write", ~menuOvertaken'[d]
               PROVE  FALSE
    BY DEF NextIsEdit
  <2> QED
    BY <1>3, <1>8, <1>9
<1> QED
  BY <1>10, <1>11, <1>12 DEF MenuInv

LEMMA MenuInvariant == Menu!Spec => []MenuInv
<1>1. MenuInv /\ [Menu!Next]_(Menu!menuVars) => MenuInv'
  <2> SUFFICES ASSUME MenuInv, [Menu!Next]_(Menu!menuVars) PROVE MenuInv'
    OBVIOUS
  <2>1. CASE UNCHANGED Menu!menuVars
    BY <2>1 DEF Menu!menuVars, MenuInv, CardsTyped, Menu!TypeOK, Menu!LastAskedShown, NextIsEdit
  <2> QED
    BY <2>1, SendKeeps, EndKeeps, FindKeeps, WriteKeeps DEF Menu!Next
<1> QED BY <1>1, MenuStarts, PTL DEF Menu!Spec

-----------------------------------------------------------------------------
(* Lists put in order by hand.                                             *)

OrderRow == [id : OrderedRows, order : Nat, name : RowNames]
OneEach(rs) == \A r, s \in rs : r.id = s.id => r = s

\* What a page can show, and the identities it can ask for: none of them twice.
RowLists == {l \in Seq(OrderRow) : \A i, j \in DOMAIN l : l[i].id = l[j].id => i = j}
RowOrders == {o \in Seq(OrderedRows) : \A i, j \in DOMAIN o : o[i] = o[j] => i = j}

OrderRequests ==
  [step : {"idle", "reload"}] \union [step : {"puts"}, pending : SUBSET OrderRow]
    \union [step : {"find"}, previous : RowLists, order : RowOrders]
    \union [step : {"loop"}, previous : RowLists, order : RowOrders,
            left : SUBSET Nat, priority : Nat]

OrderTyped ==
  /\ orderStored \subseteq OrderRow /\ OneEach(orderStored) /\ IsFiniteSet(orderStored)
  /\ orderList \in [Staff -> RowLists]
  /\ orderJob \in [Staff -> OrderRequests]
  /\ orderStray \in [Staff -> SUBSET OrderRow]
  /\ orderBlind \in [Staff -> BOOLEAN] /\ orderCrossed \in [Staff -> BOOLEAN]

InOrder(l) == \A i \in DOMAIN l \ {1} : l[i - 1].order <= l[i].order

\* A list shows the identities stored, and rows as stored but for those of wait,
\* which are still to be written as the list has them.
Fits(rs, l, wait) ==
  /\ \A r \in rs : \E i \in DOMAIN l : l[i].id = r.id
  /\ \A i \in DOMAIN l : \E r \in rs : l[i].id = r.id
  /\ \A i \in DOMAIN l : l[i] \in rs \union wait
  /\ \A r \in wait : \E i \in DOMAIN l : l[i] = r
  /\ InOrder(l)

\* The rows a loop has passed are numbered in the order asked for, below the next
\* number; the places left are all behind them and name stored rows.
NumberedSoFar(rs, order, left, priority) ==
  /\ left \subseteq DOMAIN order
  /\ \A k \in left : \E r \in rs : r.id = order[k]
  /\ \A k \in DOMAIN order \ left : \A r \in rs : r.id = order[k] =>
       r.order < priority /\ \A m \in left : k < m
  /\ \A i, j \in DOMAIN order \ left : \A r, s \in rs :
       i < j /\ r.id = order[i] /\ s.id = order[j] => r.order < s.order

BrowserFits(b) ==
  /\ orderJob[b].step = "idle" /\ ~orderBlind[b] => Fits(orderStored, orderList[b], {})
  /\ orderJob[b].step = "puts" /\ ~orderBlind[b] =>
       Fits(orderStored, orderList[b], orderJob[b].pending)
  /\ orderJob[b].step = "loop" /\ ~orderCrossed[b] =>
       NumberedSoFar(orderStored, orderJob[b].order, orderJob[b].left, orderJob[b].priority)

OrderInv == OrderTyped /\ \A b \in Staff : BrowserFits(b)

LEMMA OrderRuns == Spec => Order!Spec
<1>1. Init => Order!Init
  BY DEF Init
<1>2. [Next]_deskVars => [Order!Next]_(Order!orderVars)
  BY DEF Next, deskVars, orderState, Order!orderVars
<1> QED BY <1>1, <1>2, PTL DEF Spec, Order!Spec, deskVars

\* The sorted listings of a finite set are the sequences in order that show each
\* of its elements once.
LEMMA SortedLists ==
  ASSUME NEW rs, IsFiniteSet(rs), NEW l
  PROVE  l \in Order!Sorted(rs) <=>
           /\ l \in Seq(rs) /\ InOrder(l)
           /\ \A i, j \in DOMAIN l : l[i] = l[j] => i = j
           /\ \A r \in rs : \E i \in DOMAIN l : l[i] = r
<1> DEFINE n == Cardinality(rs)
<1>1. n \in Nat
  BY FS_CardinalityType
<1>2. Order!Cardinality(rs) = n
  BY DEF Order!Cardinality, Cardinality
<1>3. IsFiniteSet(1..n) /\ Cardinality(1..n) = n
  BY <1>1, FS_Interval
<1>4. l \in Order!Sorted(rs) <=>
        /\ l \in [1..n -> rs] /\ InOrder(l)
        /\ \A i, j \in 1..n : i # j => l[i] # l[j]
  BY <1>2 DEF Order!Sorted, Order!SetToSeqs, InOrder
<1>5. ASSUME l \in [1..n -> rs], \A i, j \in 1..n : i # j => l[i] # l[j]
      PROVE  \A r \in rs : \E i \in 1..n : l[i] = r
  <2>1. l \in Injection(1..n, rs)
    BY <1>5 DEF Injection, IsInjective
  <2>2. l \in Surjection(1..n, rs)
    BY <2>1, <1>3, FS_Injection
  <2> QED
    BY <2>2 DEF Surjection
<1>6. ASSUME l \in Seq(rs), \A i, j \in DOMAIN l : l[i] = l[j] => i = j,
             \A r \in rs : \E i \in DOMAIN l : l[i] = r
      PROVE  l \in [1..n -> rs]
  <2>1. Len(l) \in Nat /\ DOMAIN l = 1..Len(l) /\ l \in [1..Len(l) -> rs]
    BY <1>6, LenProperties
  <2>2. l \in Bijection(1..Len(l), rs)
    BY <1>6, <2>1 DEF Bijection, Injection, IsInjective, Surjection
  <2>3. n = Len(l)
    BY <2>1, <2>2, FS_CountingElements DEF ExistsBijection
  <2> QED
    BY <2>1, <2>3
<1>7. ASSUME l \in [1..n -> rs]  PROVE l \in Seq(rs) /\ DOMAIN l = 1..n
  BY <1>1, <1>7, IsASeq
<1> HIDE DEF n
<1> QED
  BY <1>4, <1>5, <1>6, <1>7

\* A sequence without one of its elements, and with one more.
LEMMA Removed ==
  ASSUME NEW S, NEW l \in Seq(S), NEW i \in 1..Len(l)
  PROVE  /\ Order!RemoveAt(l, i) \in Seq(S)
         /\ Len(Order!RemoveAt(l, i)) = Len(l) - 1
         /\ \A k \in 1..(Len(l) - 1) :
              Order!RemoveAt(l, i)[k] = IF k < i THEN l[k] ELSE l[k + 1]
<1> DEFINE u == SubSeq(l, 1, i - 1)
           v == SubSeq(l, i + 1, Len(l))
<1>1. Len(l) \in Nat /\ i \in Nat /\ 1 <= i /\ i <= Len(l)
  BY LenProperties
<1>2. /\ u \in Seq(S) /\ Len(u) = i - 1
      /\ \A k \in 1..(i - 1) : u[k] = l[k]
  BY <1>1, SubSeqProperties
<1>3. /\ v \in Seq(S) /\ Len(v) = Len(l) - i
      /\ \A k \in 1..(Len(l) - i) : v[k] = l[i + k]
  BY <1>1, SubSeqProperties
<1>4. Order!RemoveAt(l, i) = u \o v
  BY DEF Order!RemoveAt
<1> HIDE DEF u, v
<1>5. /\ u \o v \in Seq(S) /\ Len(u \o v) = Len(u) + Len(v)
      /\ \A k \in 1..(Len(u) + Len(v)) : (u \o v)[k] = IF k <= Len(u) THEN u[k] ELSE v[k - Len(u)]
  BY <1>2, <1>3, ConcatProperties
<1>6. ASSUME NEW k \in 1..(Len(l) - 1)
      PROVE  (u \o v)[k] = IF k < i THEN l[k] ELSE l[k + 1]
  <2>1. (u \o v)[k] = IF k <= i - 1 THEN u[k] ELSE v[k - (i - 1)]
    BY <1>1, <1>2, <1>3, <1>5
  <2>2. CASE k < i
    BY <1>1, <1>2, <2>1, <2>2
  <2>3. CASE ~(k < i)
    <3>1. k - (i - 1) \in 1..(Len(l) - i) /\ i + (k - (i - 1)) = k + 1
      BY <1>1, <2>3
    <3> QED
      BY <1>1, <1>3, <2>1, <2>3, <3>1
  <2> QED
    BY <2>2, <2>3
<1> QED
  BY <1>1, <1>2, <1>3, <1>4, <1>5, <1>6

LEMMA Inserted ==
  ASSUME NEW S, NEW l \in Seq(S), NEW e \in S,
         NEW n, n = Len(l) + 1, NEW i \in 1..n
  PROVE  /\ Order!InsertAt(l, i, e) \in Seq(S)
         /\ Len(Order!InsertAt(l, i, e)) = n
         /\ \A k \in 1..n :
              Order!InsertAt(l, i, e)[k] =
                IF k < i THEN l[k] ELSE IF k = i THEN e ELSE l[k - 1]
<1> DEFINE u == SubSeq(l, 1, i - 1)
           v == SubSeq(l, i, Len(l))
           w == u \o <<e>>
<1>1. Len(l) \in Nat /\ i \in Nat /\ 1 <= i /\ i <= Len(l) + 1
  BY LenProperties
<1>2. /\ u \in Seq(S) /\ Len(u) = i - 1
      /\ \A k \in 1..(i - 1) : u[k] = l[k]
  BY <1>1, SubSeqProperties
<1>3. /\ v \in Seq(S) /\ Len(v) = Len(l) - i + 1
      /\ \A k \in 1..(Len(l) - i + 1) : v[k] = l[i + k - 1]
  BY <1>1, SubSeqProperties
<1>4. Order!InsertAt(l, i, e) = w \o v
  BY DEF Order!InsertAt
<1>5. <<e>> \in Seq(S) /\ Len(<<e>>) = 1 /\ <<e>>[1] = e
  OBVIOUS
<1> HIDE DEF u, v
<1>6. /\ w \in Seq(S) /\ Len(w) = i
      /\ \A k \in 1..i : w[k] = IF k < i THEN l[k] ELSE e
  <2>1. /\ w \in Seq(S) /\ Len(w) = Len(u) + 1
        /\ \A k \in 1..(Len(u) + 1) : w[k] = IF k <= Len(u) THEN u[k] ELSE <<e>>[k - Len(u)]
    BY <1>2, <1>5, ConcatProperties
  <2> HIDE DEF w
  <2>2. Len(w) = i /\ i - (i - 1) = 1 /\ i \in 1..i
    BY <1>1, <1>2, <2>1
  <2>3. \A k \in 1..i : w[k] = IF k <= i - 1 THEN u[k] ELSE <<e>>[k - (i - 1)]
    BY <1>1, <1>2, <2>1
  <2>4. w[i] = e
    BY <1>1, <1>5, <2>2, <2>3
  <2>5. \A k \in 1..(i - 1) : w[k] = l[k]
    BY <1>1, <1>2, <2>3
  <2>6. \A k \in 1..i : k < i => k \in 1..(i - 1)
    BY <1>1
  <2>7. \A k \in 1..i : ~(k < i) => k = i
    BY <1>1
  <2> QED
    BY <2>1, <2>2, <2>4, <2>5, <2>6, <2>7
<1> HIDE DEF w
<1>7. /\ w \o v \in Seq(S) /\ Len(w \o v) = Len(w) + Len(v)
      /\ \A k \in 1..(Len(w) + Len(v)) : (w \o v)[k] = IF k <= Len(w) THEN w[k] ELSE v[k - Len(w)]
  BY <1>3, <1>6, ConcatProperties
<1>8. ASSUME NEW k \in 1..n
      PROVE  (w \o v)[k] = IF k < i THEN l[k] ELSE IF k = i THEN e ELSE l[k - 1]
  <2>1. (w \o v)[k] = IF k <= i THEN w[k] ELSE v[k - i]
    BY <1>1, <1>3, <1>6, <1>7
  <2>2. CASE k <= i
    BY <1>1, <1>6, <2>1, <2>2
  <2>3. CASE ~(k <= i)
    <3>1. k - i \in 1..(Len(l) - i + 1) /\ i + (k - i) - 1 = k - 1
      BY <1>1, <2>3
    <3> QED
      BY <1>1, <1>3, <2>1, <2>3, <3>1
  <2> QED
    BY <2>2, <2>3
<1> QED
  BY <1>1, <1>3, <1>4, <1>6, <1>7, <1>8

\* A moved row: the same rows at other places.
LEMMA MovedRows ==
  ASSUME NEW l \in RowLists, NEW i \in DOMAIN l, NEW j \in DOMAIN l
  PROVE  /\ Order!Renumbered(Order!Moved(l, i, j)) \in RowLists
         /\ InOrder(Order!Renumbered(Order!Moved(l, i, j)))
         /\ \A k \in DOMAIN Order!Renumbered(Order!Moved(l, i, j)) :
              \E m \in DOMAIN l : l[m].id = Order!Renumbered(Order!Moved(l, i, j))[k].id
         /\ \A m \in DOMAIN l : \E k \in DOMAIN Order!Renumbered(Order!Moved(l, i, j)) :
              l[m].id = Order!Renumbered(Order!Moved(l, i, j))[k].id
<1> DEFINE rest == Order!RemoveAt(l, i)
           moved == Order!InsertAt(rest, j, l[i])
           next == Order!Renumbered(moved)
           From(k) == IF k = j THEN i
                      ELSE IF k < j THEN (IF k < i THEN k ELSE k + 1)
                      ELSE (IF k - 1 < i THEN k - 1 ELSE k)
           To(m) == IF m = i THEN j
                    ELSE IF m < i THEN (IF m < j THEN m ELSE m + 1)
                    ELSE (IF m - 1 < j THEN m - 1 ELSE m)
<1>1. /\ l \in Seq(OrderRow) /\ Len(l) \in Nat /\ DOMAIN l = 1..Len(l)
      /\ i \in 1..Len(l) /\ j \in 1..Len(l) /\ l[i] \in OrderRow
  BY LenProperties, ElementOfSeq DEF RowLists
<1>2. /\ rest \in Seq(OrderRow) /\ Len(rest) = Len(l) - 1
      /\ \A k \in 1..(Len(l) - 1) : rest[k] = IF k < i THEN l[k] ELSE l[k + 1]
  BY <1>1, Removed
<1> HIDE DEF rest
<1>3. /\ moved \in Seq(OrderRow) /\ Len(moved) = Len(l)
      /\ \A k \in 1..Len(l) :
           moved[k] = IF k < j THEN rest[k] ELSE IF k = j THEN l[i] ELSE rest[k - 1]
  <2>1. PICK n : n = Len(l)
    OBVIOUS
  <2>2. n = Len(rest) + 1
    BY <1>1, <1>2, <2>1
  <2>3. PICK row : row = l[i]
    OBVIOUS
  <2>4. rest \in Seq(OrderRow) /\ row \in OrderRow /\ j \in 1..n
    BY <1>1, <1>2, <2>1, <2>3
  <2>5. /\ Order!InsertAt(rest, j, row) \in Seq(OrderRow)
        /\ Len(Order!InsertAt(rest, j, row)) = n
        /\ \A k \in 1..n : Order!InsertAt(rest, j, row)[k] =
             IF k < j THEN rest[k] ELSE IF k = j THEN row ELSE rest[k - 1]
    BY <2>2, <2>4, Inserted
  <2> QED
    BY <2>1, <2>3, <2>5
<1> HIDE DEF moved
<1>4. \A k \in 1..Len(l) : From(k) \in 1..Len(l) /\ moved[k] = l[From(k)]
  <2> TAKE k \in 1..Len(l)
  <2>1. CASE k = j
    BY <1>1, <1>3, <2>1
  <2>2. CASE k < j
    <3>1. k \in 1..(Len(l) - 1) /\ k # j /\ k + 1 \in 1..Len(l)
      BY <1>1, <2>2
    <3>2. moved[k] = rest[k]
      BY <1>3, <2>2
    <3>3. rest[k] = IF k < i THEN l[k] ELSE l[k + 1]
      BY <1>2, <3>1
    <3> QED
      BY <2>2, <3>1, <3>2, <3>3
  <2>3. CASE k > j
    <3>1. k - 1 \in 1..(Len(l) - 1) /\ (k - 1) + 1 = k
      BY <1>1, <2>3
    <3> QED
      BY <1>1, <1>2, <1>3, <2>3, <3>1
  <2> QED
    BY <1>1, <2>1, <2>2, <2>3
<1>5. \A m \in 1..Len(l) : To(m) \in 1..Len(l) /\ From(To(m)) = m
  BY <1>1
<1>6. \A k, m \in 1..Len(l) : From(k) = From(m) => k = m
  BY <1>1
<1> HIDE DEF From, To
<1>7. /\ next \in Seq(OrderRow) /\ DOMAIN next = 1..Len(l)
      /\ \A k \in 1..Len(l) : next[k].order = k /\ next[k].id = l[From(k)].id
  <2>1. next = [k \in 1..Len(l) |-> [moved[k] EXCEPT !.order = k]]
    BY <1>3, LenProperties DEF Order!Renumbered
  <2>2. ASSUME NEW k \in 1..Len(l)
        PROVE  /\ next[k] \in OrderRow /\ next[k].order = k /\ next[k].id = l[From(k)].id
    <3>1. moved[k] \in OrderRow /\ moved[k] = l[From(k)]
      BY <1>3, <1>4, ElementOfSeq
    <3>2. next[k] = [moved[k] EXCEPT !.order = k]
      BY <2>1
    <3>3. k \in Nat
      BY <1>1
    <3> QED
      BY <3>1, <3>2, <3>3 DEF OrderRow
  <2>3. next \in [1..Len(l) -> OrderRow]
    BY <2>1, <2>2
  <2> QED
    BY <1>1, <2>2, <2>3, IsASeq
<1> HIDE DEF next
<1>8. Order!Renumbered(Order!Moved(l, i, j)) = next
  BY DEF next, moved, rest, Order!Moved
<1>9. next \in RowLists
  <2> SUFFICES ASSUME NEW k \in 1..Len(l), NEW m \in 1..Len(l), next[k].id = next[m].id
               PROVE  k = m
    BY <1>7 DEF RowLists
  <2>1. l[From(k)].id = l[From(m)].id /\ From(k) \in DOMAIN l /\ From(m) \in DOMAIN l
    BY <1>1, <1>4, <1>7
  <2>2. From(k) = From(m)
    BY <2>1 DEF RowLists
  <2> QED
    BY <1>6, <2>2
<1>10. InOrder(next)
  <2> SUFFICES ASSUME NEW k \in 1..Len(l), k # 1
               PROVE  next[k - 1].order <= next[k].order
    BY <1>7 DEF InOrder
  <2>1. k - 1 \in 1..Len(l) /\ k - 1 <= k
    BY <1>1
  <2> QED
    BY <1>7, <2>1
<1>11. \A k \in DOMAIN next : \E m \in DOMAIN l : l[m].id = next[k].id
  BY <1>1, <1>4, <1>7
<1>12. \A m \in DOMAIN l : \E k \in DOMAIN next : l[m].id = next[k].id
  BY <1>1, <1>5, <1>7
<1> QED
  BY <1>8, <1>9, <1>10, <1>11, <1>12

\* One row put in place of another, or given another number.
LEMMA PutRow ==
  ASSUME NEW rs \in SUBSET OrderRow, OneEach(rs), IsFiniteSet(rs), NEW r \in OrderRow
  PROVE  /\ Order!Put(rs, r) \subseteq OrderRow /\ OneEach(Order!Put(rs, r))
         /\ IsFiniteSet(Order!Put(rs, r))
<1> DEFINE others == {s \in rs : s.id # r.id}
<1>1. others \subseteq rs /\ IsFiniteSet(others)
  <2>1. others \in SUBSET rs
    OBVIOUS
  <2> QED
    BY <2>1, FS_Subset, Zenon
<1>2. IsFiniteSet(others \union {r})
  BY <1>1, FS_AddElement, Zenon
<1>3. Order!Put(rs, r) \in {rs, others \union {r}}
  BY DEF Order!Put
<1>4. OneEach(others \union {r})
  BY DEF OneEach
<1> HIDE DEF others
<1> QED
  BY <1>1, <1>2, <1>3, <1>4

LEMMA NumberRow ==
  ASSUME NEW rs \in SUBSET OrderRow, OneEach(rs), IsFiniteSet(rs), NEW id, NEW n \in Nat
  PROVE  /\ Order!PutOrder(rs, id, n) \subseteq OrderRow /\ OneEach(Order!PutOrder(rs, id, n))
         /\ IsFiniteSet(Order!PutOrder(rs, id, n))
         /\ \A s \in Order!PutOrder(rs, id, n) : \E r \in rs :
              r.id = s.id /\ s.order = IF s.id = id THEN n ELSE r.order
         /\ \A r \in rs : \E s \in Order!PutOrder(rs, id, n) : s.id = r.id
<1> DEFINE F == [r \in rs |-> IF r.id = id THEN [r EXCEPT !.order = n] ELSE r]
           new == Order!PutOrder(rs, id, n)
<1>1. \A r \in rs : /\ F[r] \in OrderRow /\ F[r].id = r.id
                    /\ F[r].order = IF r.id = id THEN n ELSE r.order
  BY DEF OrderRow
<1>2. /\ \A s \in new : \E r \in rs : s = F[r]
      /\ \A r \in rs : F[r] \in new
      /\ F \in [rs -> new]
  BY DEF Order!PutOrder
<1> HIDE DEF F, new
<1>3. F \in Surjection(rs, new)
  BY <1>2 DEF Surjection
<1>4. IsFiniteSet(new)
  BY <1>3, FS_Surjection
<1>5. OneEach(new)
  <2> SUFFICES ASSUME NEW s \in new, NEW t \in new, s.id = t.id  PROVE s = t
    BY DEF OneEach
  <2>1. PICK r \in rs, q \in rs : s = F[r] /\ t = F[q]
    BY <1>2
  <2> QED
    BY <1>1, <2>1 DEF OneEach
<1>6. /\ new \subseteq OrderRow
      /\ \A s \in new : \E r \in rs : r.id = s.id /\ s.order = IF s.id = id THEN n ELSE r.order
      /\ \A r \in rs : \E s \in new : s.id = r.id
  BY <1>1, <1>2
<1> QED
  BY <1>4, <1>5, <1>6 DEF new

\* What a page shows still fits when it drags a row, when one of its writes lands
\* and when it deletes a row.
LEMMA FitsMoved ==
  ASSUME NEW rs, NEW l \in RowLists, Fits(rs, l, {}), NEW i \in DOMAIN l, NEW j \in DOMAIN l
  PROVE  Fits(rs, Order!Renumbered(Order!Moved(l, i, j)),
              Order!Changed(l, Order!Renumbered(Order!Moved(l, i, j))))
<1> DEFINE next == Order!Renumbered(Order!Moved(l, i, j))
<1>1. /\ InOrder(next)
      /\ \A k \in DOMAIN next : \E m \in DOMAIN l : l[m].id = next[k].id
      /\ \A m \in DOMAIN l : \E k \in DOMAIN next : l[m].id = next[k].id
  BY MovedRows
<1>2. /\ \A r \in Order!Changed(l, next) : \E k \in DOMAIN next : next[k] = r
      /\ \A k \in DOMAIN next :
           next[k] \in Order!Changed(l, next) \/ \E m \in DOMAIN l : next[k] = l[m]
  BY DEF Order!Changed, Order!Range
<1>3. PICK wait : wait = Order!Changed(l, next)
  OBVIOUS
<1> HIDE DEF next
<1>4. \A r \in rs : \E k \in DOMAIN next : next[k].id = r.id
  <2> TAKE r \in rs
  <2>1. PICK m \in DOMAIN l : l[m].id = r.id
    BY DEF Fits
  <2> QED
    BY <1>1, <2>1
<1>5. \A k \in DOMAIN next : \E r \in rs : next[k].id = r.id
  <2> TAKE k \in DOMAIN next
  <2>1. PICK m \in DOMAIN l : l[m].id = next[k].id
    BY <1>1
  <2> QED
    BY <2>1 DEF Fits
<1>6. \A k \in DOMAIN next : next[k] \in rs \union wait
  BY <1>2, <1>3 DEF Fits
<1>7. Fits(rs, next, wait)
  BY <1>1, <1>2, <1>3, <1>4, <1>5, <1>6 DEF Fits
<1> QED
  BY <1>7, <1>3 DEF next

LEMMA FitsLanded ==
  ASSUME NEW rs \in SUBSET OrderRow, NEW l \in RowLists, NEW wait, Fits(rs, l, wait),
         NEW r \in wait, r.id \in Order!Ids(rs)
  PROVE  Fits(Order!Put(rs, r), l, wait \ {r})
<1> DEFINE new == Order!Put(rs, r)
<1>1. PICK old \in rs : old.id = r.id
  BY DEF Order!Ids
<1>2. new = {s \in rs : s.id # r.id} \union {r}
  BY DEF Order!Put
<1>3. PICK m \in DOMAIN l : l[m] = r
  BY DEF Fits
<1> HIDE DEF new
<1>4. \A i \in DOMAIN l : l[i] \in new \union (wait \ {r})
  <2> TAKE i \in DOMAIN l
  <2>1. CASE l[i].id = r.id
    BY <1>2, <1>3, <2>1 DEF RowLists
  <2>2. CASE l[i].id # r.id
    BY <1>2, <2>2 DEF Fits
  <2> QED
    BY <2>1, <2>2
<1>5. \A s \in new : \E i \in DOMAIN l : l[i].id = s.id
  BY <1>2, <1>3 DEF Fits
<1>6. \A i \in DOMAIN l : \E s \in new : l[i].id = s.id
  BY <1>2 DEF Fits
<1>7. (\A s \in wait \ {r} : \E i \in DOMAIN l : l[i] = s) /\ InOrder(l)
  BY DEF Fits
<1>8. Fits(new, l, wait \ {r})
  BY <1>4, <1>5, <1>6, <1>7 DEF Fits
<1> QED
  BY <1>8 DEF new

LEMMA FitsDeleted ==
  ASSUME NEW rs \in SUBSET OrderRow, NEW l \in RowLists, NEW k \in DOMAIN l
  PROVE  /\ Order!RemoveAt(l, k) \in RowLists
         /\ Fits(rs, l, {}) =>
              Fits({s \in rs : s.id # l[k].id}, Order!RemoveAt(l, k), {})
<1> DEFINE rest == Order!RemoveAt(l, k)
           kept == {s \in rs : s.id # l[k].id}
           From(m) == IF m < k THEN m ELSE m + 1
           To(i) == IF i < k THEN i ELSE i - 1
<1>1. /\ l \in Seq(OrderRow) /\ Len(l) \in Nat /\ DOMAIN l = 1..Len(l) /\ k \in 1..Len(l)
      /\ \A i \in 1..Len(l) : l[i].order \in Nat
  <2>1. l \in Seq(OrderRow) /\ Len(l) \in Nat /\ DOMAIN l = 1..Len(l) /\ k \in 1..Len(l)
    BY LenProperties DEF RowLists
  <2>2. \A i \in 1..Len(l) : l[i] \in OrderRow
    BY <2>1, ElementOfSeq
  <2> QED
    BY <2>1, <2>2 DEF OrderRow
<1>2. /\ rest \in Seq(OrderRow) /\ Len(rest) = Len(l) - 1
      /\ \A m \in 1..(Len(l) - 1) : rest[m] = IF m < k THEN l[m] ELSE l[m + 1]
  BY <1>1, Removed
<1> HIDE DEF rest
<1>3. DOMAIN rest = 1..(Len(l) - 1)
  BY <1>2, LenProperties
<1>4. \A m \in 1..(Len(l) - 1) :
        From(m) \in 1..Len(l) /\ From(m) # k /\ rest[m] = l[From(m)]
  BY <1>1, <1>2
<1>5. \A i \in 1..Len(l) : i # k => To(i) \in 1..(Len(l) - 1) /\ From(To(i)) = i
  BY <1>1
<1>6. \A m, n \in 1..(Len(l) - 1) : From(m) = From(n) => m = n
  BY <1>1
<1>7. \A m \in 1..(Len(l) - 1) : m # 1 =>
        /\ m - 1 \in 1..(Len(l) - 1)
        /\ \/ From(m - 1) = From(m) - 1
           \/ From(m - 1) = k - 1 /\ From(m) = k + 1 /\ k # 1
  BY <1>1
<1> HIDE DEF From, To
<1>8. rest \in RowLists
  <2> SUFFICES ASSUME NEW m \in 1..(Len(l) - 1), NEW n \in 1..(Len(l) - 1), rest[m].id = rest[n].id
               PROVE  m = n
    BY <1>2, <1>3 DEF RowLists
  <2>1. l[From(m)].id = l[From(n)].id /\ From(m) \in DOMAIN l /\ From(n) \in DOMAIN l
    BY <1>1, <1>4
  <2> QED
    BY <1>6, <2>1 DEF RowLists
<1>9. ASSUME Fits(rs, l, {})  PROVE Fits(kept, rest, {})
  <2>1. \A i \in 1..Len(l) : l[i].id = l[k].id => i = k
    BY <1>1 DEF RowLists
  <2>2. \A r \in kept : \E m \in DOMAIN rest : rest[m].id = r.id
    <3> TAKE r \in kept
    <3>1. PICK i \in 1..Len(l) : l[i].id = r.id
      BY <1>1, <1>9 DEF Fits
    <3>2. i # k /\ r.id # l[k].id
      BY <3>1
    <3> QED
      BY <1>3, <1>4, <1>5, <3>1, <3>2
  <2>3. \A m \in DOMAIN rest : rest[m] \in kept
    <3> TAKE m \in DOMAIN rest
    <3>1. rest[m] = l[From(m)] /\ From(m) \in 1..Len(l) /\ From(m) # k
      BY <1>3, <1>4
    <3>2. l[From(m)] \in rs /\ l[From(m)].id # l[k].id
      BY <1>1, <1>9, <2>1, <3>1 DEF Fits
    <3> QED
      BY <3>1, <3>2
  <2>4. InOrder(rest)
    <3> SUFFICES ASSUME NEW m \in 1..(Len(l) - 1), m # 1
                 PROVE  rest[m - 1].order <= rest[m].order
      BY <1>3 DEF InOrder
    <3>1. /\ m - 1 \in 1..(Len(l) - 1)
          /\ rest[m] = l[From(m)] /\ rest[m - 1] = l[From(m - 1)]
          /\ From(m) \in 1..Len(l) /\ From(m - 1) \in 1..Len(l)
      BY <1>4, <1>7
    <3>2. \A i \in 1..Len(l) : i # 1 => l[i - 1].order <= l[i].order
      BY <1>1, <1>9 DEF Fits, InOrder
    <3>3. CASE From(m - 1) = From(m) - 1
      <4>1. From(m) # 1
        BY <1>1, <3>1, <3>3
      <4> QED
        BY <3>1, <3>2, <3>3, <4>1
    <3>4. CASE From(m - 1) = k - 1 /\ From(m) = k + 1 /\ k # 1
      <4>1. /\ k \in 1..Len(l) /\ k # 1 /\ k - 1 \in 1..Len(l)
            /\ k + 1 \in 1..Len(l) /\ k + 1 # 1 /\ (k + 1) - 1 = k
        <5>1. Len(l) \in Nat /\ k \in 1..Len(l)
          BY <1>1
        <5>2. k + 1 \in 1..Len(l) /\ k - 1 \in 1..Len(l)
          BY <3>1, <3>4
        <5> QED
          BY <3>4, <5>1, <5>2
      <4>2. PICK before, here, after :
              /\ before = l[k - 1].order /\ here = l[k].order /\ after = l[k + 1].order
        OBVIOUS
      <4>3. before \in Nat /\ here \in Nat /\ after \in Nat
        BY <1>1, <4>1, <4>2
      <4>4. before <= here
        BY <3>2, <4>1, <4>2
      <4>5. here <= after
        BY <3>2, <4>1, <4>2
      <4>6. before <= after
        BY <4>3, <4>4, <4>5
      <4> QED
        BY <3>1, <3>4, <4>2, <4>6
    <3> QED
      BY <1>7, <3>3, <3>4
  <2> QED
    BY <2>2, <2>3, <2>4 DEF Fits
<1> QED
  BY <1>8, <1>9 DEF rest

\* One more row numbered.
LEMMA NumberedNext ==
  ASSUME NEW rs \in SUBSET OrderRow, OneEach(rs), IsFiniteSet(rs),
         NEW order \in RowOrders, NEW left \in SUBSET Nat, NEW priority \in Nat,
         NumberedSoFar(rs, order, left, priority), NEW k \in left, \A m \in left : k <= m
  PROVE  NumberedSoFar(Order!PutOrder(rs, order[k], priority), order, left \ {k}, priority + 1)
<1> DEFINE new == Order!PutOrder(rs, order[k], priority)
           passed == DOMAIN order \ left
<1>1. /\ \A s \in new : s \in OrderRow /\ s.order \in Nat
      /\ \A s \in new : \E r \in rs :
              r.id = s.id /\ s.order = IF s.id = order[k] THEN priority ELSE r.order
      /\ \A r \in rs : \E s \in new : s.id = r.id
      /\ \A r \in rs : r.order \in Nat
  <2>1. /\ new \subseteq OrderRow
        /\ \A s \in new : \E r \in rs :
              r.id = s.id /\ s.order = IF s.id = order[k] THEN priority ELSE r.order
        /\ \A r \in rs : \E s \in new : s.id = r.id
    BY NumberRow
  <2> QED
    BY <2>1 DEF OrderRow
<1> HIDE DEF new
<1>2. left \subseteq DOMAIN order
  BY DEF NumberedSoFar
<1>3. \A i \in DOMAIN order : order[i] = order[k] => i = k
  BY <1>2 DEF RowOrders
<1>4. DOMAIN order \subseteq Nat
  BY LenProperties DEF RowOrders
<1>5. \A i \in passed : \A s \in new : s.id = order[i] =>
        /\ i < k /\ s.order < priority
        /\ \E r \in rs : r.id = s.id /\ r.order = s.order
  <2> TAKE i \in passed
  <2> TAKE s \in new
  <2> HAVE s.id = order[i]
  <2>1. i # k
    OBVIOUS
  <2>2. s.id # order[k]
    BY <1>3, <2>1
  <2>3. PICK r \in rs : r.id = s.id /\ r.order = s.order
    BY <1>1, <2>2
  <2> QED
    BY <2>3 DEF NumberedSoFar
<1>6. DOMAIN order \ (left \ {k}) = passed \union {k}
  BY <1>2
<1>7. \A m \in left \ {k} : k < m
  BY <1>4, <1>2
<1>8. \A s \in new : s.id = order[k] => s.order = priority
  BY <1>1
<1>9. \A i \in passed \union {k} : \A s \in new : s.id = order[i] =>
        s.order < priority + 1 /\ \A m \in left \ {k} : i < m
  <2> TAKE i \in passed \union {k}
  <2> TAKE s \in new
  <2> HAVE s.id = order[i]
  <2>1. CASE i = k
    BY <1>7, <1>8, <2>1
  <2>2. CASE i \in passed
    <3>1. s.order < priority /\ s.order \in Nat
      BY <1>1, <1>5, <2>2
    <3>2. PICK r \in rs : r.id = order[i]
      BY <1>5, <2>2
    <3>3. \A m \in left : i < m
      BY <2>2, <3>2 DEF NumberedSoFar
    <3> QED
      BY <3>1, <3>3
  <2> QED
    BY <2>1, <2>2
<1>10. \A i, j \in passed \union {k} : \A r, s \in new :
         i < j /\ r.id = order[i] /\ s.id = order[j] => r.order < s.order
  <2> TAKE i, j \in passed \union {k}
  <2> TAKE r, s \in new
  <2> HAVE i < j /\ r.id = order[i] /\ s.id = order[j]
  <2>1. CASE i \in passed /\ j \in passed
    <3>1. PICK q \in rs : q.id = order[i] /\ q.order = r.order
      BY <1>5, <2>1
    <3>2. PICK t \in rs : t.id = order[j] /\ t.order = s.order
      BY <1>5, <2>1
    <3> QED
      BY <2>1, <3>1, <3>2 DEF NumberedSoFar
  <2>2. CASE i \in passed /\ j = k
    BY <1>5, <1>8, <2>2
  <2>3. CASE i = k /\ j \in passed
    <3>1. j < k
      BY <1>5, <2>3
    <3>2. k \in Nat /\ j \in Nat
      BY <1>2, <1>4, <2>3
    <3> QED
      BY <2>3, <3>1, <3>2
  <2>4. CASE i = k /\ j = k
    BY <1>2, <1>4, <2>4
  <2> QED
    BY <2>1, <2>2, <2>3, <2>4
<1>11. \A m \in left \ {k} : \E r \in new : r.id = order[m]
  BY <1>1 DEF NumberedSoFar
<1> HIDE DEF passed
<1>12. NumberedSoFar(new, order, left \ {k}, priority + 1)
  BY <1>2, <1>6, <1>9, <1>10, <1>11 DEF NumberedSoFar
<1> QED
  BY <1>12 DEF new

LEMMA OrderSteps ==
  ASSUME NEW q \in OrderRequests
  PROVE  /\ q.step \in {"idle", "reload", "puts", "find", "loop"}
         /\ q.step = "puts" => q = [step |-> "puts", pending |-> q.pending]
                               /\ q.pending \subseteq OrderRow
         /\ q.step = "find" => /\ q = [step |-> "find", previous |-> q.previous, order |-> q.order]
                               /\ q.previous \in RowLists /\ q.order \in RowOrders
         /\ q.step = "loop" =>
              /\ q = [step |-> "loop", previous |-> q.previous, order |-> q.order,
                      left |-> q.left, priority |-> q.priority]
              /\ q.previous \in RowLists /\ q.order \in RowOrders
              /\ q.left \subseteq Nat /\ q.priority \in Nat
  BY DEF OrderRequests

\* A step of one page tells the others what it did to the rows.
LEMMA OtherPages ==
  ASSUME OrderInv, NEW b \in Staff, Order!Step(b), NEW c \in Staff, c # b
  PROVE  BrowserFits(c)'
<1>1. orderList'[c] = orderList[c] /\ orderJob'[c] = orderJob[c]
  BY DEF OrderInv, OrderTyped, Order!Step, Order!Load, Order!LoadFails, Order!Rename,
     Order!RenameFails, Order!Delete, Order!DeleteFails, Order!Move,
     Order!Land, Order!AllLanded, Order!PutFails, Order!StrayLands, Order!FindKnown,
     Order!UpdateNext, Order!LoopAnswers, Order!LoopFails
<1>2. \/ /\ orderStored' = orderStored
         /\ orderBlind'[c] = orderBlind[c] /\ orderCrossed'[c] = orderCrossed[c]
      \/ orderBlind'[c] /\ (orderJob[c].step = "loop" => orderCrossed'[c])
  <2>1. CASE Order!Unseen({b}) \/ Order!Unseen({})
    BY <2>1 DEF OrderInv, OrderTyped, Order!Unseen, Order!At
  <2>2. CASE /\ orderStored' = orderStored
             /\ \/ orderBlind' = orderBlind
                \/ \E v \in BOOLEAN : orderBlind' = [orderBlind EXCEPT ![b] = v]
             /\ \/ orderCrossed' = orderCrossed
                \/ \E v \in BOOLEAN : orderCrossed' = [orderCrossed EXCEPT ![b] = v]
    BY <2>2 DEF OrderInv, OrderTyped
  <2> QED
    BY <2>1, <2>2 DEF Order!Step, Order!Load, Order!LoadFails, Order!Rename,
       Order!RenameFails, Order!Delete, Order!DeleteFails, Order!Move,
       Order!Land, Order!AllLanded, Order!PutFails, Order!StrayLands, Order!FindKnown,
       Order!UpdateNext, Order!LoopAnswers, Order!LoopFails
<1>3. BrowserFits(c)
  BY DEF OrderInv
<1> QED
  BY <1>1, <1>2, <1>3 DEF BrowserFits

\* What a step leaves typed but for the rows, the list and the request.
LEMMA OrderStays ==
  ASSUME OrderInv, NEW b \in Staff, Order!Step(b)
  PROVE  /\ orderStray' \in [Staff -> SUBSET OrderRow]
         /\ orderBlind' \in [Staff -> BOOLEAN] /\ orderCrossed' \in [Staff -> BOOLEAN]
<1>1. orderStray' \in [Staff -> SUBSET OrderRow]
  <2>1. CASE Order!PutFails(b)
    <3>1. PICK r \in orderJob[b].pending, lost \in BOOLEAN :
            orderStray' = [orderStray EXCEPT ![b] =
              @ \union IF lost THEN orderJob[b].pending \ {r} ELSE orderJob[b].pending]
      BY <2>1 DEF Order!PutFails
    <3>2. orderJob[b].pending \subseteq OrderRow
      BY <2>1, OrderSteps DEF Order!PutFails, Order!At, OrderInv, OrderTyped
    <3> QED
      BY <3>1, <3>2 DEF OrderInv, OrderTyped
  <2>2. CASE Order!StrayLands(b)
    BY <2>2 DEF Order!StrayLands, OrderInv, OrderTyped
  <2>3. CASE orderStray' = orderStray
    BY <2>3 DEF OrderInv, OrderTyped
  <2> QED
    BY <2>1, <2>2, <2>3 DEF Order!Step, Order!Load, Order!LoadFails, Order!Rename,
       Order!RenameFails, Order!Delete, Order!DeleteFails, Order!Move,
       Order!Land, Order!AllLanded, Order!FindKnown,
       Order!UpdateNext, Order!LoopAnswers, Order!LoopFails
<1>2. orderBlind' \in [Staff -> BOOLEAN] /\ orderCrossed' \in [Staff -> BOOLEAN]
  <2>1. CASE Order!Unseen({b}) \/ Order!Unseen({})
    BY <2>1 DEF OrderInv, OrderTyped, Order!Unseen, Order!At
  <2>2. CASE /\ \/ orderBlind' = orderBlind
                \/ \E v \in BOOLEAN : orderBlind' = [orderBlind EXCEPT ![b] = v]
             /\ \/ orderCrossed' = orderCrossed
                \/ \E v \in BOOLEAN : orderCrossed' = [orderCrossed EXCEPT ![b] = v]
    BY <2>2 DEF OrderInv, OrderTyped
  <2> QED
    BY <2>1, <2>2 DEF Order!Step, Order!Load, Order!LoadFails, Order!Rename,
       Order!RenameFails, Order!Delete, Order!DeleteFails, Order!Move,
       Order!Land, Order!AllLanded, Order!PutFails, Order!StrayLands, Order!FindKnown,
       Order!UpdateNext, Order!LoopAnswers, Order!LoopFails
<1> QED
  BY <1>1, <1>2

\* What is left to show of a step of one page.
LEMMA OrderKept ==
  ASSUME OrderInv, NEW b \in Staff, Order!Step(b),
         orderStored' \subseteq OrderRow, OneEach(orderStored'), IsFiniteSet(orderStored'),
         orderList' \in [Staff -> RowLists], orderJob' \in [Staff -> OrderRequests],
         BrowserFits(b)'
  PROVE  OrderInv'
  BY OtherPages, OrderStays DEF OrderInv, OrderTyped

LEMMA SortedFits ==
  ASSUME NEW rs \in SUBSET OrderRow, OneEach(rs), IsFiniteSet(rs), NEW l \in Order!Sorted(rs)
  PROVE  l \in RowLists /\ Fits(rs, l, {})
<1>1. /\ l \in Seq(rs) /\ InOrder(l)
      /\ \A i, j \in DOMAIN l : l[i] = l[j] => i = j
      /\ \A r \in rs : \E i \in DOMAIN l : l[i] = r
  BY SortedLists
<1>2. \A i \in DOMAIN l : l[i] \in rs
  BY <1>1, ElementOfSeq, LenProperties
<1>3. l \in Seq(OrderRow)
  BY <1>1, SeqMonotonic
<1>4. Fits(rs, l, {})
  BY <1>1, <1>2 DEF Fits
<1>5. l \in RowLists
  BY <1>1, <1>2, <1>3 DEF RowLists, OneEach
<1> QED
  BY <1>4, <1>5

LEMMA OrderStarts == Order!Init => OrderInv
<1> SUFFICES ASSUME Order!Init  PROVE OrderInv
  OBVIOUS
<1>1. /\ FirstList \in Seq(Order!Record)
      /\ \A i \in DOMAIN FirstList : FirstList[i].order = i
      /\ \A i, j \in DOMAIN FirstList : FirstList[i].id = FirstList[j].id => i = j
  BY DeskAssumption DEF Order!OrderAssumption
<1>2. Len(FirstList) \in Nat /\ DOMAIN FirstList = 1..Len(FirstList)
  BY <1>1, LenProperties
<1>3. Order!Record \subseteq OrderRow
  BY <1>2 DEF Order!Record, OrderRow
<1>4. FirstList \in Seq(OrderRow)
  BY <1>1, <1>3, SeqMonotonic
<1>5. FirstList \in RowLists
  BY <1>1, <1>4 DEF RowLists
<1>6. orderStored = {FirstList[i] : i \in 1..Len(FirstList)}
  BY <1>2 DEF Order!Init, Order!Range
<1>7. \A i \in 1..Len(FirstList) : FirstList[i] \in OrderRow
  BY <1>4, ElementOfSeq
<1>8. orderStored \subseteq OrderRow /\ OneEach(orderStored)
  BY <1>1, <1>2, <1>6, <1>7 DEF OneEach
<1>9. IsFiniteSet(orderStored)
  <2>1. FirstList \in Surjection(1..Len(FirstList), orderStored)
    BY <1>2, <1>4, <1>6, LenProperties DEF Surjection
  <2>2. IsFiniteSet(1..Len(FirstList))
    BY <1>2, FS_Interval
  <2> QED
    BY <2>1, <2>2, FS_Surjection
<1>10. InOrder(FirstList)
  <2> SUFFICES ASSUME NEW i \in 1..Len(FirstList), i # 1
               PROVE  FirstList[i - 1].order <= FirstList[i].order
    BY <1>2 DEF InOrder
  <2>1. i - 1 \in 1..Len(FirstList) /\ i - 1 <= i
    BY <1>2
  <2> QED
    BY <1>1, <1>2, <2>1
<1>11. Fits(orderStored, FirstList, {})
  BY <1>2, <1>6, <1>10 DEF Fits
<1>12. [step |-> "idle"] \in OrderRequests
  BY DEF OrderRequests
<1>13. OrderTyped
  BY <1>5, <1>8, <1>9, <1>12 DEF OrderTyped, Order!Init, Order!Idle
<1>14. ASSUME NEW b \in Staff  PROVE BrowserFits(b)
  BY <1>11 DEF BrowserFits, Order!Init, Order!Idle
<1> QED
  BY <1>13, <1>14 DEF OrderInv

LEMMA LoadKeeps ==
  ASSUME OrderInv, NEW b \in Staff, Order!Load(b) \/ Order!LoopAnswers(b)
  PROVE  OrderInv'
<1>1. PICK l \in Order!Sorted(orderStored) : orderList' = [orderList EXCEPT ![b] = l]
  BY DEF Order!Load, Order!LoopAnswers
<1>2. l \in RowLists /\ Fits(orderStored, l, {})
  BY SortedFits DEF OrderInv, OrderTyped
<1>3. /\ orderStored' = orderStored
      /\ orderJob' = [orderJob EXCEPT ![b] = [step |-> "idle"]]
  BY DEF Order!Load, Order!LoopAnswers, Order!Idle
<1>4. [step |-> "idle"] \in OrderRequests
  BY DEF OrderRequests
<1>5. BrowserFits(b)'
  BY <1>1, <1>2, <1>3 DEF BrowserFits, OrderInv, OrderTyped
<1> QED
  BY <1>1, <1>2, <1>3, <1>4, <1>5, OrderKept DEF OrderInv, OrderTyped, Order!Step

\* A list that could not be loaded is the old one or none, and the page knows no more.
LEMMA LoadFailsKeeps ==
  ASSUME OrderInv, NEW b \in Staff, Order!LoadFails(b)
  PROVE  OrderInv'
<1>1. /\ orderJob' = [orderJob EXCEPT ![b] = [step |-> "idle"]]
      /\ orderBlind' = [orderBlind EXCEPT ![b] = TRUE]
      /\ orderStored' = orderStored
      /\ orderList' = orderList \/ orderList' = [orderList EXCEPT ![b] = <<>>]
  BY DEF Order!LoadFails, Order!Idle
<1>2. [step |-> "idle"] \in OrderRequests /\ <<>> \in RowLists
  BY DEF OrderRequests, RowLists
<1>3. BrowserFits(b)'
  BY <1>1 DEF BrowserFits, OrderInv, OrderTyped
<1> QED
  BY <1>1, <1>2, <1>3, OrderKept DEF OrderInv, OrderTyped, Order!Step

\* The rows stay typed when one is written whole, and when one is taken out.
LEMMA RenamedRows ==
  ASSUME OrderInv, NEW b \in Staff, NEW rs \in Order!Renamed(b)
  PROVE  rs \subseteq OrderRow /\ OneEach(rs) /\ IsFiniteSet(rs)
<1>1. PICK n \in RowNames, r \in Order!Range(orderList[b]) \union orderStored :
        rs = Order!Put(orderStored, [r EXCEPT !.name = n])
  BY DEF Order!Renamed
<1>2. Order!Range(orderList[b]) \subseteq OrderRow
  <2>1. orderList[b] \in Seq(OrderRow)
    BY DEF OrderInv, OrderTyped, RowLists
  <2> QED
    BY <2>1, ElementOfSeq, LenProperties DEF Order!Range
<1>3. [r EXCEPT !.name = n] \in OrderRow
  BY <1>2 DEF OrderInv, OrderTyped, OrderRow
<1> QED
  BY <1>1, <1>3, PutRow DEF OrderInv, OrderTyped

LEMMA RowsWithout ==
  ASSUME OrderInv, NEW b \in Staff, NEW i
  PROVE  /\ Order!Without(b, i) \subseteq OrderRow
         /\ OneEach(Order!Without(b, i)) /\ IsFiniteSet(Order!Without(b, i))
<1>1. PICK rs : rs = Order!Without(b, i)
  OBVIOUS
<1>2. rs \subseteq orderStored
  BY <1>1 DEF Order!Without
<1>3. IsFiniteSet(rs)
  BY <1>2, FS_Subset DEF OrderInv, OrderTyped
<1> QED
  BY <1>1, <1>2, <1>3 DEF OrderInv, OrderTyped, OneEach

LEMMA RenameKeeps ==
  ASSUME OrderInv, NEW b \in Staff, Order!Rename(b)
  PROVE  OrderInv'
<1>1. /\ orderStored' \in Order!Renamed(b)
      /\ orderJob' = [orderJob EXCEPT ![b] = [step |-> "reload"]]
      /\ orderList' = orderList
  BY DEF Order!Rename
<1>2. /\ orderStored' \subseteq OrderRow /\ OneEach(orderStored') /\ IsFiniteSet(orderStored')
  BY <1>1, RenamedRows
<1>3. [step |-> "reload"] \in OrderRequests
  BY DEF OrderRequests
<1>4. BrowserFits(b)'
  BY <1>1 DEF BrowserFits, OrderInv, OrderTyped
<1> QED
  BY <1>1, <1>2, <1>3, <1>4, OrderKept DEF OrderInv, OrderTyped, Order!Step

\* A row written or taken out without its answer is a change the page did not see.
LEMMA UnansweredKeeps ==
  ASSUME OrderInv, NEW b \in Staff, Order!RenameFails(b) \/ Order!DeleteFails(b)
  PROVE  OrderInv'
<1>1. /\ orderList' = orderList /\ orderJob[b].step = "idle"
      /\ orderJob' = orderJob \/ orderJob' = [orderJob EXCEPT ![b] = [step |-> "reload"]]
  BY DEF Order!RenameFails, Order!DeleteFails, Order!Ask, Order!At
<1>2. [step |-> "reload"] \in OrderRequests
  BY DEF OrderRequests
<1>3. orderStored' \subseteq OrderRow /\ OneEach(orderStored') /\ IsFiniteSet(orderStored')
  <2>1. CASE orderStored' \in Order!Renamed(b)
    BY <2>1, RenamedRows
  <2>2. CASE \E i \in DOMAIN orderList[b] : orderStored' = Order!Without(b, i)
    BY <2>2, RowsWithout
  <2>3. CASE orderStored' = orderStored
    BY <2>3 DEF OrderInv, OrderTyped
  <2> QED
    BY <2>1, <2>2, <2>3 DEF Order!RenameFails, Order!DeleteFails
<1>4. \/ orderStored' = orderStored /\ orderBlind' = orderBlind
      \/ orderBlind'[b]
  BY DEF Order!RenameFails, Order!DeleteFails, Order!Unseen, OrderInv, OrderTyped
<1>5. orderJob'[b].step \in {"idle", "reload"}
  BY <1>1 DEF OrderInv, OrderTyped
<1>6. BrowserFits(b)'
  BY <1>1, <1>4, <1>5 DEF BrowserFits, OrderInv
<1> QED
  BY <1>1, <1>2, <1>3, <1>6, OrderKept DEF OrderInv, OrderTyped, Order!Step

LEMMA DeleteKeeps ==
  ASSUME OrderInv, NEW b \in Staff, Order!Delete(b)
  PROVE  OrderInv'
<1>1. PICK i \in DOMAIN orderList[b] :
        /\ orderStored' = {s \in orderStored : s.id # orderList[b][i].id}
        /\ orderList' = [orderList EXCEPT ![b] = Order!RemoveAt(@, i)]
        /\ orderJob' = orderJob /\ orderJob[b].step = "idle"
        /\ orderBlind'[b] = orderBlind[b]
  BY DEF Order!Delete, Order!Without, Order!Ask, Order!At, Order!Unseen, OrderInv, OrderTyped
<1>2. orderList[b] \in RowLists /\ orderStored \in SUBSET OrderRow
  BY DEF OrderInv, OrderTyped
<1>3. /\ Order!RemoveAt(orderList[b], i) \in RowLists
      /\ Fits(orderStored, orderList[b], {}) =>
           Fits(orderStored', Order!RemoveAt(orderList[b], i), {})
  BY <1>1, <1>2, FitsDeleted
<1>4. orderStored' \subseteq OrderRow /\ OneEach(orderStored') /\ IsFiniteSet(orderStored')
  BY RowsWithout DEF Order!Delete
<1>5. orderList'[b] = Order!RemoveAt(orderList[b], i)
  BY <1>1 DEF OrderInv, OrderTyped
<1>6. BrowserFits(b)'
  BY <1>1, <1>3, <1>5 DEF BrowserFits, OrderInv
<1> QED
  BY <1>1, <1>3, <1>4, <1>6, OrderKept DEF OrderInv, OrderTyped, Order!Step

LEMMA MoveKeeps ==
  ASSUME OrderInv, NEW b \in Staff, Order!Move(b)
  PROVE  OrderInv'
<1>1. PICK i \in DOMAIN orderList[b], j \in DOMAIN orderList[b] :
        /\ orderList' = [orderList EXCEPT ![b] = Order!Renumbered(Order!Moved(orderList[b], i, j))]
        /\ orderJob' = [orderJob EXCEPT ![b] =
             IF orderStyle = "puts"
             THEN [step |-> "puts", pending |->
                    Order!Changed(orderList[b], Order!Renumbered(Order!Moved(orderList[b], i, j)))]
             ELSE [step |-> "find", previous |-> orderList[b],
                   order |-> [k \in DOMAIN Order!Renumbered(Order!Moved(orderList[b], i, j)) |->
                                Order!Renumbered(Order!Moved(orderList[b], i, j))[k].id]]]
  BY DEF Order!Move
<1>2. PICK next : next = Order!Renumbered(Order!Moved(orderList[b], i, j))
  OBVIOUS
<1>3. PICK wait : wait = Order!Changed(orderList[b], next)
  OBVIOUS
<1>4. PICK order : order = [k \in DOMAIN next |-> next[k].id]
  OBVIOUS
<1>5. /\ orderList' = [orderList EXCEPT ![b] = next]
      /\ orderJob' = [orderJob EXCEPT ![b] =
           IF orderStyle = "puts" THEN [step |-> "puts", pending |-> wait]
           ELSE [step |-> "find", previous |-> orderList[b], order |-> order]]
  BY <1>1, <1>2, <1>3, <1>4
<1>6. orderList[b] \in RowLists
  BY DEF OrderInv, OrderTyped
<1>7. next \in RowLists
  BY <1>2, <1>6, MovedRows
<1>8. next \in Seq(OrderRow) /\ Len(next) \in Nat /\ DOMAIN next = 1..Len(next)
  BY <1>7, LenProperties DEF RowLists
<1>9. \A k \in DOMAIN next : next[k] \in OrderRow
  BY <1>8, ElementOfSeq
<1>10. wait \subseteq OrderRow
  BY <1>3, <1>9 DEF Order!Changed, Order!Range
<1>11. order \in RowOrders
  <2>1. order \in [1..Len(next) -> OrderedRows]
    BY <1>4, <1>8, <1>9 DEF OrderRow
  <2>2. order \in Seq(OrderedRows)
    BY <1>8, <2>1, IsASeq
  <2> QED
    BY <1>4, <1>7, <2>2 DEF RowOrders, RowLists
<1>12. /\ [step |-> "puts", pending |-> wait] \in OrderRequests
       /\ [step |-> "find", previous |-> orderList[b], order |-> order] \in OrderRequests
  BY <1>6, <1>10, <1>11 DEF OrderRequests
<1>13. orderJob' \in [Staff -> OrderRequests] /\ orderList' \in [Staff -> RowLists]
  BY <1>5, <1>7, <1>12 DEF OrderInv, OrderTyped
<1>14. /\ orderStored' = orderStored /\ orderBlind' = orderBlind
       /\ orderJob[b].step = "idle"
  BY DEF Order!Move, Order!Ask, Order!At
<1>15. orderList'[b] = next
  BY <1>5 DEF OrderInv, OrderTyped
<1>16. ~orderBlind[b] => Fits(orderStored, next, wait)
  BY <1>2, <1>3, <1>6, <1>14, FitsMoved DEF OrderInv, BrowserFits
<1>17. \/ orderJob'[b] = [step |-> "puts", pending |-> wait]
       \/ orderJob'[b].step = "find"
  BY <1>5 DEF OrderInv, OrderTyped
<1>18. BrowserFits(b)'
  BY <1>14, <1>15, <1>16, <1>17 DEF BrowserFits
<1> QED
  BY <1>13, <1>14, <1>18, OrderKept DEF OrderInv, OrderTyped, Order!Step

LEMMA LandKeeps ==
  ASSUME OrderInv, NEW b \in Staff, Order!Land(b)
  PROVE  OrderInv'
<1>1. PICK r \in orderJob[b].pending :
        /\ r.id \in Order!Ids(orderStored)
        /\ orderStored' = Order!Put(orderStored, r)
        /\ orderJob' = [orderJob EXCEPT ![b].pending = @ \ {r}]
        /\ orderList' = orderList /\ orderJob[b].step = "puts"
        /\ orderBlind'[b] = orderBlind[b]
  BY DEF Order!Land, Order!At, Order!Unseen, OrderInv, OrderTyped
<1>2. PICK q : q = orderJob[b]
  OBVIOUS
<1>3. q \in OrderRequests /\ q.step = "puts"
  BY <1>1, <1>2 DEF OrderInv, OrderTyped
<1>4. q = [step |-> "puts", pending |-> q.pending] /\ q.pending \subseteq OrderRow
  BY <1>3, OrderSteps
<1>5. PICK wait : wait = q.pending
  OBVIOUS
<1>6. /\ orderJob' = [orderJob EXCEPT ![b] = [step |-> "puts", pending |-> wait \ {r}]]
      /\ r \in wait /\ wait \subseteq OrderRow
  <2>1. orderJob[b] = [step |-> "puts", pending |-> wait]
    BY <1>2, <1>4, <1>5
  <2>2. orderJob' = [orderJob EXCEPT ![b] = [orderJob[b] EXCEPT !.pending = @ \ {r}]]
    BY <1>1
  <2>3. [orderJob[b] EXCEPT !.pending = @ \ {r}] = [step |-> "puts", pending |-> wait \ {r}]
    BY <2>1
  <2>4. r \in wait /\ wait \subseteq OrderRow
    BY <1>1, <1>2, <1>4, <1>5
  <2> QED
    BY <2>2, <2>3, <2>4
<1>7. [step |-> "puts", pending |-> wait \ {r}] \in OrderRequests
  BY <1>6 DEF OrderRequests
<1>8. orderStored' \subseteq OrderRow /\ OneEach(orderStored') /\ IsFiniteSet(orderStored')
  BY <1>1, <1>6, PutRow DEF OrderInv, OrderTyped
<1>9. orderJob'[b] = [step |-> "puts", pending |-> wait \ {r}]
  BY <1>6 DEF OrderInv, OrderTyped
<1>10. ~orderBlind[b] => Fits(orderStored, orderList[b], wait)
  BY <1>1, <1>2, <1>5 DEF OrderInv, BrowserFits
<1>11. ~orderBlind[b] => Fits(orderStored', orderList[b], wait \ {r})
  BY <1>1, <1>6, <1>10, FitsLanded DEF OrderInv, OrderTyped
<1>12. BrowserFits(b)'
  BY <1>1, <1>9, <1>11 DEF BrowserFits
<1> QED
  BY <1>1, <1>6, <1>7, <1>8, <1>12, OrderKept DEF OrderInv, OrderTyped, Order!Step

LEMMA AllLandedKeeps ==
  ASSUME OrderInv, NEW b \in Staff, Order!AllLanded(b)
  PROVE  OrderInv'
<1>1. /\ orderJob[b].step = "puts" /\ orderJob[b].pending = {}
      /\ orderJob' = [orderJob EXCEPT ![b] = [step |-> "idle"]]
      /\ orderStored' = orderStored /\ orderList' = orderList /\ orderBlind' = orderBlind
  BY DEF Order!AllLanded, Order!At, Order!Idle
<1>2. [step |-> "idle"] \in OrderRequests
  BY DEF OrderRequests
<1>3. BrowserFits(b)'
  BY <1>1 DEF BrowserFits, OrderInv, OrderTyped
<1> QED
  BY <1>1, <1>2, <1>3, OrderKept DEF OrderInv, OrderTyped, Order!Step

LEMMA FailureKeeps ==
  ASSUME OrderInv, NEW b \in Staff, Order!PutFails(b) \/ Order!LoopFails(b)
  PROVE  OrderInv'
<1>1. CASE Order!PutFails(b)
  <2>1. /\ orderJob' = [orderJob EXCEPT ![b] = [step |-> "reload"]]
        /\ orderStored' = orderStored /\ orderList' = orderList
    BY <1>1 DEF Order!PutFails
  <2>2. [step |-> "reload"] \in OrderRequests
    BY DEF OrderRequests
  <2>3. BrowserFits(b)'
    BY <2>1 DEF BrowserFits, OrderInv, OrderTyped
  <2> QED
    BY <1>1, <2>1, <2>2, <2>3, OrderKept DEF OrderInv, OrderTyped, Order!Step
<1>2. CASE Order!LoopFails(b)
  <2>1. /\ orderJob' = [orderJob EXCEPT ![b] = [step |-> "idle"]]
        /\ orderList' = [orderList EXCEPT ![b] = orderJob[b].previous]
        /\ orderStored' = orderStored /\ orderBlind' = [orderBlind EXCEPT ![b] = TRUE]
        /\ orderJob[b].step \in {"find", "loop"}
    BY <1>2 DEF Order!LoopFails, Order!Idle
  <2>2. [step |-> "idle"] \in OrderRequests
    BY DEF OrderRequests
  <2>3. orderJob[b].previous \in RowLists
    BY <2>1, OrderSteps DEF OrderInv, OrderTyped
  <2>4. BrowserFits(b)'
    BY <2>1 DEF BrowserFits, OrderInv, OrderTyped
  <2> QED
    BY <1>2, <2>1, <2>2, <2>3, <2>4, OrderKept DEF OrderInv, OrderTyped, Order!Step
<1> QED
  BY <1>1, <1>2

LEMMA StrayKeeps ==
  ASSUME OrderInv, NEW b \in Staff, Order!StrayLands(b)
  PROVE  OrderInv'
<1>1. PICK r \in orderStray[b] :
        /\ orderStored' = Order!Put(orderStored, r)
        /\ orderList' = orderList /\ orderJob' = orderJob
        /\ \/ /\ orderStored' = orderStored /\ orderBlind'[b] = orderBlind[b]
              /\ orderCrossed'[b] = orderCrossed[b]
           \/ orderBlind'[b] /\ (orderJob[b].step = "loop" => orderCrossed'[b])
  BY DEF Order!StrayLands, Order!Unseen, Order!At, OrderInv, OrderTyped
<1>2. r \in OrderRow
  BY DEF OrderInv, OrderTyped
<1>3. orderStored' \subseteq OrderRow /\ OneEach(orderStored') /\ IsFiniteSet(orderStored')
  BY <1>1, <1>2, PutRow DEF OrderInv, OrderTyped
<1>4. BrowserFits(b)'
  BY <1>1 DEF BrowserFits, OrderInv
<1> QED
  BY <1>1, <1>3, <1>4, OrderKept DEF OrderInv, OrderTyped, Order!Step

LEMMA FindKnownKeeps ==
  ASSUME OrderInv, NEW b \in Staff, Order!FindKnown(b)
  PROVE  OrderInv'
<1>1. PICK q : q = orderJob[b]
  OBVIOUS
<1>2. q.previous \in RowLists /\ q.order \in RowOrders
  BY <1>1, OrderSteps DEF Order!FindKnown, Order!At, OrderInv, OrderTyped
<1>3. PICK left : left = {k \in DOMAIN q.order : q.order[k] \in Order!Ids(orderStored)}
  OBVIOUS
<1>4. DOMAIN q.order \subseteq Nat
  BY <1>2, LenProperties DEF RowOrders
<1>5. /\ orderJob' = [orderJob EXCEPT ![b] =
           [step |-> "loop", previous |-> q.previous, order |-> q.order, left |-> left,
            priority |-> 1]]
      /\ orderStored' = orderStored /\ orderList' = orderList
  BY <1>1, <1>3 DEF Order!FindKnown
<1>6. [step |-> "loop", previous |-> q.previous, order |-> q.order, left |-> left,
       priority |-> 1] \in OrderRequests
  BY <1>2, <1>3, <1>4 DEF OrderRequests
<1>7. NumberedSoFar(orderStored, q.order, left, 1)
  BY <1>3 DEF NumberedSoFar, Order!Ids
<1>8. orderJob'[b] = [step |-> "loop", previous |-> q.previous, order |-> q.order, left |-> left,
                      priority |-> 1]
  BY <1>5 DEF OrderInv, OrderTyped
<1>9. BrowserFits(b)'
  BY <1>5, <1>7, <1>8 DEF BrowserFits
<1> QED
  BY <1>5, <1>6, <1>9, OrderKept DEF OrderInv, OrderTyped, Order!Step

LEMMA UpdateKeeps ==
  ASSUME OrderInv, NEW b \in Staff, Order!UpdateNext(b)
  PROVE  OrderInv'
<1>1. PICK k \in orderJob[b].left :
        /\ \A i \in orderJob[b].left : k <= i
        /\ orderStored' =
             Order!PutOrder(orderStored, orderJob[b].order[k], orderJob[b].priority)
        /\ orderJob' = [orderJob EXCEPT ![b].left = @ \ {k}, ![b].priority = @ + 1]
        /\ orderJob[b].step = "loop" /\ orderList' = orderList
        /\ orderCrossed'[b] = orderCrossed[b]
  <2>1. PICK k \in orderJob[b].left :
          /\ \A i \in orderJob[b].left : k <= i
          /\ orderStored' =
               Order!PutOrder(orderStored, orderJob[b].order[k], orderJob[b].priority)
          /\ orderJob' = [orderJob EXCEPT ![b].left = @ \ {k}, ![b].priority = @ + 1]
          /\ Order!Unseen({b}) /\ orderList' = orderList
    BY Zenon DEF Order!UpdateNext
  <2>2. orderJob[b].step = "loop"
    BY DEF Order!UpdateNext, Order!At
  <2>3. orderCrossed'[b] = orderCrossed[b]
    BY <2>1 DEF Order!Unseen, OrderInv, OrderTyped
  <2> QED
    BY <2>1, <2>2, <2>3
<1>2. PICK q : q = orderJob[b]
  OBVIOUS
<1>3. q \in OrderRequests /\ q.step = "loop"
  BY <1>1, <1>2 DEF OrderInv, OrderTyped
<1>4. /\ q = [step |-> "loop", previous |-> q.previous, order |-> q.order,
              left |-> q.left, priority |-> q.priority]
      /\ q.previous \in RowLists /\ q.order \in RowOrders
      /\ q.left \subseteq Nat /\ q.priority \in Nat
  BY <1>3, OrderSteps
<1>5. PICK p, o, t, n : p = q.previous /\ o = q.order /\ t = q.left /\ n = q.priority
  OBVIOUS
<1>6. orderJob[b] = [step |-> "loop", previous |-> p, order |-> o, left |-> t, priority |-> n]
  BY <1>2, <1>4, <1>5
<1>7. p \in RowLists /\ o \in RowOrders /\ t \in SUBSET Nat /\ n \in Nat /\ n + 1 \in Nat
  BY <1>4, <1>5
<1>8. /\ orderJob' = [orderJob EXCEPT ![b] =
           [step |-> "loop", previous |-> p, order |-> o, left |-> t \ {k}, priority |-> n + 1]]
      /\ orderStored' = Order!PutOrder(orderStored, o[k], n)
      /\ k \in t /\ \A i \in t : k <= i
  <2>1. orderJob' = [orderJob EXCEPT ![b] =
                       [[orderJob[b] EXCEPT !.left = @ \ {k}] EXCEPT !.priority = @ + 1]]
    BY <1>1 DEF OrderInv, OrderTyped
  <2>2. [[orderJob[b] EXCEPT !.left = @ \ {k}] EXCEPT !.priority = @ + 1] =
          [step |-> "loop", previous |-> p, order |-> o, left |-> t \ {k}, priority |-> n + 1]
    <3>1. PICK one : one = [orderJob[b] EXCEPT !.left = @ \ {k}]
      OBVIOUS
    <3>2. one = [step |-> "loop", previous |-> p, order |-> o, left |-> t \ {k}, priority |-> n]
      BY <1>6, <3>1
    <3>3. [one EXCEPT !.priority = @ + 1] =
            [step |-> "loop", previous |-> p, order |-> o, left |-> t \ {k}, priority |-> n + 1]
      BY <3>2
    <3> QED
      BY <3>1, <3>3
  <2>3. /\ orderStored' = Order!PutOrder(orderStored, o[k], n)
        /\ k \in t /\ \A i \in t : k <= i
    BY <1>1, <1>6
  <2> QED
    BY <2>1, <2>2, <2>3
<1>9. [step |-> "loop", previous |-> p, order |-> o, left |-> t \ {k}, priority |-> n + 1]
        \in OrderRequests
  BY <1>7 DEF OrderRequests
<1>10. orderStored' \subseteq OrderRow /\ OneEach(orderStored') /\ IsFiniteSet(orderStored')
  BY <1>7, <1>8, NumberRow DEF OrderInv, OrderTyped
<1>11. orderJob'[b] =
         [step |-> "loop", previous |-> p, order |-> o, left |-> t \ {k}, priority |-> n + 1]
  BY <1>8 DEF OrderInv, OrderTyped
<1>12. ~orderCrossed[b] => NumberedSoFar(orderStored, o, t, n)
  BY <1>1, <1>6 DEF OrderInv, BrowserFits
<1>13. ~orderCrossed[b] => NumberedSoFar(orderStored', o, t \ {k}, n + 1)
  BY <1>7, <1>8, <1>12, NumberedNext DEF OrderInv, OrderTyped
<1>14. BrowserFits(b)'
  <2>1. /\ orderJob'[b].step = "loop" /\ orderJob'[b].order = o
        /\ orderJob'[b].left = t \ {k} /\ orderJob'[b].priority = n + 1
    BY <1>11
  <2> QED
    BY <1>1, <1>13, <2>1 DEF BrowserFits
<1>15. orderJob' \in [Staff -> OrderRequests]
  BY <1>8, <1>9 DEF OrderInv, OrderTyped
<1> QED
  BY <1>1, <1>10, <1>14, <1>15, OrderKept DEF OrderInv, OrderTyped, Order!Step

LEMMA OrderInvariant == Order!Spec => []OrderInv
<1>1. OrderInv /\ [Order!Next]_(Order!orderVars) => OrderInv'
  <2> SUFFICES ASSUME OrderInv, [Order!Next]_(Order!orderVars)  PROVE OrderInv'
    OBVIOUS
  <2>1. CASE UNCHANGED Order!orderVars
    BY <2>1 DEF Order!orderVars, OrderInv, OrderTyped, BrowserFits
  <2>2. CASE Order!Next
    <3>1. PICK b \in Staff : Order!Step(b)
      BY <2>2 DEF Order!Next
    <3> QED
      BY <3>1, LoadKeeps, LoadFailsKeeps, RenameKeeps, UnansweredKeeps, DeleteKeeps, MoveKeeps,
         LandKeeps, AllLandedKeeps,
         FailureKeeps, StrayKeeps, FindKnownKeeps, UpdateKeeps DEF Order!Step
  <2> QED
    BY <2>1, <2>2
<1> QED BY <1>1, OrderStarts, PTL DEF Order!Spec

OrderAnswered ==
  \A b \in Staff :
    Order!At(b, "loop") /\ orderJob[b].left = {} /\ orderJob'[b].step = "idle"
      /\ ~orderCrossed[b] /\ orderFaults' = orderFaults
    => \A i, j \in DOMAIN orderJob[b].order : \A r, s \in orderStored :
         i < j /\ r.id = orderJob[b].order[i] /\ s.id = orderJob[b].order[j]
         => r.order < s.order

\* A menu card shows what was last asked for it, a page of an ordered list at rest
\* shows the stored rows unless it missed a change or could not load the list again,
\* and an answered order is the stored one unless another change fell in its loop
\* (navigation.ts:76, SponsoriPage.tsx load, saveDraft, move and confirmDelete,
\* announcement.ts reorder).
THEOREM ListsAlwaysKept == Spec => ListsKept
<1>1. MenuInv => Menu!LastAskedShown
  BY DEF MenuInv
<1>2. OrderInv => Order!PageTrue
  <2> SUFFICES ASSUME OrderInv, NEW b \in Staff, orderJob[b].step = "idle", ~orderBlind[b]
               PROVE  orderList[b] \in Order!Sorted(orderStored)
    BY DEF Order!PageTrue, Order!At
  <2>1. PICK l : l = orderList[b]
    OBVIOUS
  <2>2. l \in RowLists /\ Fits(orderStored, l, {})
    BY <2>1 DEF OrderInv, OrderTyped, BrowserFits
  <2>3. \A i \in DOMAIN l : l[i] \in orderStored
    BY <2>2 DEF Fits
  <2>4. l \in Seq(orderStored)
    <3>1. /\ l \in Seq(OrderRow) /\ l \in [1..Len(l) -> OrderRow]
          /\ Len(l) \in Nat /\ DOMAIN l = 1..Len(l)
      BY <2>2, LenProperties DEF RowLists
    <3>2. l \in [1..Len(l) -> orderStored]
      BY <2>3, <3>1
    <3> QED
      BY <3>1, <3>2, IsASeq
  <2>5. \A r \in orderStored : \E i \in DOMAIN l : l[i] = r
    BY <2>2, <2>3 DEF Fits, OrderInv, OrderTyped, OneEach
  <2>6. (\A i, j \in DOMAIN l : l[i] = l[j] => i = j) /\ InOrder(l)
    BY <2>2 DEF RowLists, Fits
  <2> QED
    BY <2>1, <2>4, <2>5, <2>6, SortedLists DEF OrderInv, OrderTyped
<1>3. OrderInv => OrderAnswered
  <2> SUFFICES ASSUME OrderInv, NEW b \in Staff, orderJob[b].step = "loop", orderJob[b].left = {},
                      ~orderCrossed[b]
               PROVE  \A i, j \in DOMAIN orderJob[b].order : \A r, s \in orderStored :
                        i < j /\ r.id = orderJob[b].order[i] /\ s.id = orderJob[b].order[j]
                        => r.order < s.order
    BY DEF OrderAnswered, Order!At
  <2>1. NumberedSoFar(orderStored, orderJob[b].order, {}, orderJob[b].priority)
    BY DEF OrderInv, BrowserFits
  <2> QED
    BY <2>1 DEF NumberedSoFar
<1>4. Order!OrderAsAsked <=> [][OrderAnswered]_(Order!orderVars)
  BY DEF Order!OrderAsAsked, OrderAnswered
<1> QED
  BY <1>1, <1>2, <1>3, <1>4, MenuRuns, MenuInvariant, OrderRuns, OrderInvariant, PTL
     DEF ListsKept, Order!Spec
=============================================================================
