---------------------------- MODULE TableProofs ----------------------------
(***************************************************************************)
(* Proofs about SubmissionTable, for any browsers, registrations and views.*)
(*                                                                         *)
(* What the server answers comes first: it lists rows as they are stored,  *)
(* none twice, and depends only on which rows the view finds.  BrowserInv  *)
(* says what a page may count on: a row it shows is as stored, ahead of    *)
(* the store by its one save, changed by the page itself and about to be   *)
(* read again, or excused.  Then come what a change of the store does to   *)
(* the pages it does not concern, and the actions one by one.              *)
(***************************************************************************)
EXTENDS SubmissionTable, FiniteSetTheorems, SequenceTheorems, WellFoundedInduction, TLAPS

-----------------------------------------------------------------------------
(* The list of a store.                                                     *)

FoundIn(st, v) ==
  {i \in DOMAIN Newest : Newest[i] \in DOMAIN st /\ Matches(v, st[Newest[i]])}
IdAt(S, v, n) == Newest[Nth(S, (v.page - 1) * v.size + n)]
Height(S, v) == Min({Cardinality(S) - (v.page - 1) * v.size, v.size})
ListedIn(st, v) ==
  LET S == FoundIn(st, v) IN
  [rows |-> [n \in 1..Height(S, v) |-> [id |-> IdAt(S, v, n), data |-> st[IdAt(S, v, n)]]],
   pages |-> IF Cardinality(S) = 0 THEN 1 ELSE (Cardinality(S) + v.size - 1) \div v.size]

LEMMA ListedNow ==
  ASSUME NEW v
  PROVE  Listed(v) = ListedIn(stored, v)
BY DEF Listed, ListedIn, Found, FoundIn, Height, IdAt

-----------------------------------------------------------------------------
(* Types.                                                                   *)

PageRow == [id : Rows, data : Row]
Answer == [rows : Seq(PageRow), pages : 1..Len(Newest)]
PageState ==
  [view : View, rows : Seq(PageRow), pages : 1..Len(Newest), fetch : {"asked", "read", "shown"},
   answer : Answer \union {Nothing}, error : BOOLEAN, selected : SUBSET Rows,
   busy : {Nothing, "delete", "archive", "move"}]

SaveOf(key, values) ==
  [by : Browsers, id : Rows, key : {key}, value : values, prev : values, filtered : BOOLEAN,
   done : BOOLEAN]
SaveRequests == SaveOf("season", Seasons) \union SaveOf("status", Statuses)
                  \union SaveOf("relationship", Kins)
PartRequests == [by : Browsers, kind : {"remove", "delete", "archive"}, id : Rows, live : BOOLEAN,
                 done : BOOLEAN]
PickedMoves == [left : SUBSET Rows, ids : SUBSET Rows, to : Seasons, whole : {FALSE}, live : BOOLEAN]
WholeMoves == [left : SUBSET Rows, ids : SUBSET Rows, to : Seasons, whole : {TRUE}, live : BOOLEAN,
               from : Seasons, only : BOOLEAN]

StoreTyped == DOMAIN stored \subseteq Rows /\ stored \in [DOMAIN stored -> Row] /\ waiting \subseteq Rows
PagesTyped == page \in [Browsers -> PageState]
RequestsTyped ==
  /\ saves \subseteq SaveRequests /\ parts \subseteq PartRequests
  /\ move \in [Browsers -> {NoMove} \union PickedMoves \union WholeMoves]
  /\ \A b \in Browsers : move[b] # NoMove => move[b].left \subseteq move[b].ids
NotesTyped ==
  /\ excused \in [Browsers -> SUBSET Rows] /\ since \in [Browsers -> SUBSET Rows]
  /\ raced \in [Browsers -> SUBSET Rows] /\ early \in [Browsers -> BOOLEAN]
  /\ asks \in 0..MaxAsks /\ faults \in 0..MaxFaults
TableTyped == StoreTyped /\ PagesTyped /\ RequestsTyped /\ NotesTyped

-----------------------------------------------------------------------------
(* What a page may count on.                                                *)

\* A list of at most a page's rows, none twice.
ListFits(rs) ==
  /\ \A i, j \in DOMAIN rs : rs[i].id = rs[j].id => i = j
  /\ Len(rs) <= Max(Sizes)
ListsFit(b) ==
  /\ ListFits(page[b].rows)
  /\ page[b].fetch = "read" => page[b].answer \in Answer /\ ListFits(page[b].answer.rows)

\* A row is as it is stored.
AsStored(st, r) == r.id \in DOMAIN st /\ r.data = st[r.id]

\* A list that was read and is not shown yet is the stored one, but for the
\* rows changed since.
AnswerKnown(b) == page[b].fetch = "read" =>
  /\ \A i \in DOMAIN page[b].answer.rows :
       page[b].answer.rows[i].id \in since[b] \/ AsStored(stored, page[b].answer.rows[i])
  /\ since[b] = {} => page[b].answer = ListedIn(stored, page[b].view)

\* A page that shows the list it asked for last.
Fresh(b) == page[b].fetch = "shown" /\ ~page[b].error

\* The rows a page has changed itself and is about to read again.
Moved(b) == IF move[b].live THEN move[b].ids \ move[b].left ELSE {}
Own(b) == Moved(b) \union {q.id : q \in {t \in PartsOf(b) : t.live /\ t.done}}

\* A row with a save under way: the page is ahead of the store by the save, or
\* lacks what the server cleared.
Cleared(s) == s.key = "relationship" /\ s.value # Alta
Ahead(st, r, s) ==
  /\ s.done => st[r.id] = [r.data EXCEPT !.relationshipOther = @ /\ ~Cleared(s)]
  /\ ~s.done => r.data = [st[r.id] EXCEPT ![s.key] = s.value] /\ s.prev = st[r.id][s.key]

\* What a page shows of a row it has to show as it is.
RowTrue(st, sv, r) ==
  /\ r.id \in DOMAIN st
  /\ (\A s \in sv : s.id # r.id) => r.data = st[r.id]
  /\ \A s \in sv : s.id = r.id => Ahead(st, r, s)
RowsTrue(b) == Fresh(b) =>
  \A i \in DOMAIN page[b].rows :
    \/ page[b].rows[i].id \in excused[b] \union Own(b)
    \/ RowTrue(stored, SavesOf(b), page[b].rows[i])

\* Of one row a page has one save under way, asked as its filters are now.
SavesApart(b) == Fresh(b) =>
  \A s \in SavesOf(b) : s.id \notin excused[b] =>
    /\ s.id \in Shown(b)
    /\ s.filtered = Filtered(page[b].view)
    /\ \A t \in SavesOf(b) : t.id = s.id => t = s

\* A page with nothing to account for shows the rows its view finds.
SameIds(rs, ts) == DOMAIN rs = DOMAIN ts /\ \A i \in DOMAIN rs : rs[i].id = ts[i].id
IdsTrue(b) ==
  /\ Fresh(b) /\ excused[b] = {} /\ Own(b) = {}
  /\ \A s \in SavesOf(b) : ~(s.done /\ Rereads(s))
  => SameIds(page[b].rows, ListedIn(stored, page[b].view).rows)

TicksTrue(b) == ~early[b] =>
  page[b].selected \subseteq IF page[b].fetch = "shown" THEN Shown(b) ELSE {}

\* A row still to be moved with its season, if nothing has changed it since.
MoveKnown(b) == \A r \in move[b].left :
  move[b].whole /\ r \notin raced[b] =>
    r \in DOMAIN stored /\ stored[r].season = move[b].from /\ (move[b].only => stored[r].archived)

BrowserInv(b) ==
  /\ ListsFit(b) /\ AnswerKnown(b) /\ RowsTrue(b) /\ SavesApart(b) /\ IdsTrue(b)
  /\ TicksTrue(b) /\ MoveKnown(b)
TableInv == TableTyped /\ \A b \in Browsers : BrowserInv(b)

-----------------------------------------------------------------------------
(* Lists.                                                                   *)

\* A set of numbers that is not empty has a least one.
LEMMA LeastOf ==
  ASSUME NEW S \in SUBSET Nat, S # {}
  PROVE  \E n \in S : \A m \in S : n <= m
<1> DEFINE R == OpToRel(<, Nat)
<1>1. IsWellFoundedOn(R, Nat)
  BY NatLessThanWellFounded
<1>2. \A x, y \in Nat : x < y => <<x, y>> \in R
  BY DEF OpToRel
<1> HIDE DEF R
<1>3. PICK n \in S : \A m \in S : ~(<<m, n>> \in R)
  BY <1>1, WFMin
<1>4. ASSUME NEW m \in S  PROVE n <= m
  <2>1. n \in Nat /\ m \in Nat
    OBVIOUS
  <2>2. ~(m < n)
    BY <1>2, <1>3, <2>1
  <2> QED BY <2>1, <2>2
<1> QED BY <1>4

LEMMA NewestIs ==
  ASSUME TableAssumption
  PROVE  /\ Len(Newest) \in Nat \ {0} /\ DOMAIN Newest = 1..Len(Newest)
         /\ \A i \in 1..Len(Newest) : Newest[i] \in Rows
         /\ \A i, j \in 1..Len(Newest) : Newest[i] = Newest[j] => i = j
<1>1. Newest \in Seq(Range(Newest)) /\ Newest # <<>> /\ IsInjective(Newest)
  BY DEF TableAssumption
<1>2. Len(Newest) \in Nat \ {0} /\ DOMAIN Newest = 1..Len(Newest)
  BY <1>1, LenProperties, EmptySeq
<1> QED BY <1>1, <1>2 DEF Rows, Range, IsInjective

\* Every number up to a set's size is the place of one of its members.
LEMMA NthIs ==
  ASSUME NEW N \in Nat, NEW S \in SUBSET (1..N)
  PROVE  /\ IsFiniteSet(S) /\ Cardinality(S) \in 0..N
         /\ \A n \in 1..Cardinality(S) :
              Nth(S, n) \in S /\ Cardinality({j \in S : j <= Nth(S, n)}) = n
<1> DEFINE Upto(k) == {j \in S : j <= k}
           Has(k) == \A n \in 1..Cardinality(Upto(k)) : \E i \in S : i <= k /\ Cardinality(Upto(i)) = n
           Bad == {k \in 0..N : ~Has(k)}
<1>0. \A j \in S : j \in Nat /\ 1 <= j /\ j <= N
  OBVIOUS
<1>1. IsFiniteSet(1..N) /\ Cardinality(1..N) = N
  BY FS_Interval
<1>2. IsFiniteSet(S) /\ Cardinality(S) \in 0..N
  <2>1. IsFiniteSet(S) /\ Cardinality(S) <= N
    BY <1>1, FS_Subset
  <2> QED BY <2>1, FS_CardinalityType
<1>3. \A k \in 0..N : IsFiniteSet(Upto(k)) /\ Cardinality(Upto(k)) \in Nat
  <2> TAKE k \in 0..N
  <2>1. Upto(k) \in SUBSET S
    OBVIOUS
  <2> HIDE DEF Upto
  <2>2. IsFiniteSet(Upto(k))
    BY <1>2, <2>1, FS_Subset
  <2> QED BY <2>2, FS_CardinalityType
<1>4. Has(0)
  <2>0. \A j \in S : ~(j <= 0)
    BY <1>0
  <2>1. Upto(0) = {}
    BY <2>0
  <2> HIDE DEF Upto
  <2>2. Cardinality(Upto(0)) = 0
    BY <2>1, FS_EmptySet
  <2> QED BY <2>2
<1>5. ASSUME NEW k \in 0..N, k # 0, Has(k - 1)  PROVE Has(k)
  <2>1. k \in 1..N /\ k - 1 \in 0..N /\ k \in Int /\ ~(k <= k - 1)
    BY <1>5
  <2>0. \A j \in S : j <= k <=> j <= k - 1 \/ j = k
    BY <1>0, <2>1
  <2>2. CASE k \in S
    <3>1. Upto(k) = Upto(k - 1) \union {k} /\ k \notin Upto(k - 1)
      <4>1. \A j : j \in Upto(k) <=> j \in Upto(k - 1) \/ j = k
        BY <2>0, <2>1, <2>2
      <4>2. k \notin Upto(k - 1)
        BY <2>1
      <4> HIDE DEF Upto
      <4> QED BY <4>1, <4>2
    <3>2. Cardinality(Upto(k)) = Cardinality(Upto(k - 1)) + 1
      <4> HIDE DEF Upto
      <4> QED BY <1>3, <2>1, <3>1, FS_AddElement
    <3> SUFFICES ASSUME NEW n \in 1..Cardinality(Upto(k))
                 PROVE  \E i \in S : i <= k /\ Cardinality(Upto(i)) = n
      OBVIOUS
    <3>3. Cardinality(Upto(k - 1)) \in Nat
      BY <1>3, <2>1
    <3>4. CASE n = Cardinality(Upto(k))
      <4> HIDE DEF Upto
      <4>1. k <= k
        BY <2>1
      <4> WITNESS k \in S
      <4> QED BY <3>4, <4>1
    <3>5. CASE n # Cardinality(Upto(k))
      <4>1. n \in 1..Cardinality(Upto(k - 1))
        <5> HIDE DEF Upto
        <5> QED BY <3>2, <3>3, <3>5
      <4> HIDE DEF Upto
      <4>2. PICK i \in S : i <= k - 1 /\ Cardinality(Upto(i)) = n
        BY <1>5, <4>1
      <4>3. i <= k
        BY <2>1, <4>2
      <4> QED BY <4>2, <4>3
    <3> QED BY <3>4, <3>5
  <2>3. CASE k \notin S
    <3>1. Upto(k) = Upto(k - 1)
      BY <2>0, <2>1, <2>3
    <3> HIDE DEF Upto
    <3> SUFFICES ASSUME NEW n \in 1..Cardinality(Upto(k))
                 PROVE  \E i \in S : i <= k /\ Cardinality(Upto(i)) = n
      OBVIOUS
    <3>2. PICK i \in S : i <= k - 1 /\ Cardinality(Upto(i)) = n
      BY <1>5, <3>1
    <3>3. i <= k
      BY <2>1, <3>2
    <3> QED BY <3>2, <3>3
  <2> QED BY <2>2, <2>3
<1>6. Bad = {}
  <2> SUFFICES ASSUME Bad # {}  PROVE FALSE
    OBVIOUS
  <2>1. Bad \in SUBSET Nat
    OBVIOUS
  <2> HIDE DEF Bad
  <2>2. PICK k \in Bad : \A l \in Bad : k <= l
    BY <2>1, LeastOf
  <2> USE DEF Bad
  <2> HIDE DEF Has
  <2>3. k \in 0..N /\ k # 0 /\ ~Has(k)
    BY <2>2, <1>4
  <2>4. k - 1 \in 0..N /\ ~(k <= k - 1)
    BY <2>3
  <2>5. Has(k - 1)
    BY <2>2, <2>4
  <2> QED BY <1>5, <2>3, <2>5
<1>7. Has(N)
  <2> HIDE DEF Has
  <2> QED BY <1>6
<1>8. Upto(N) = S
  BY <1>0
<1>9. ASSUME NEW n \in 1..Cardinality(S)
      PROVE  Nth(S, n) \in S /\ Cardinality({j \in S : j <= Nth(S, n)}) = n
  <2>1. \E i \in S : Cardinality({j \in S : j <= i}) = n
    BY <1>7, <1>8
  <2> QED BY <2>1 DEF Nth
<1> QED BY <1>2, <1>9

LEMMA MinIs ==
  ASSUME NEW a \in Int, NEW b \in Int
  PROVE  Min({a, b}) \in {a, b} /\ Min({a, b}) <= a /\ Min({a, b}) <= b
<1>1. \E x \in {a, b} : \A y \in {a, b} : x <= y
  OBVIOUS
<1> QED BY <1>1 DEF Min

\* A finite set of numbers that is not empty has a greatest one.
LEMMA MaxIs ==
  ASSUME NEW S \in SUBSET Nat, IsFiniteSet(S), S # {}
  PROVE  Max(S) \in S /\ \A x \in S : x <= Max(S)
<1> DEFINE HasMax(T) == \E x \in T : \A y \in T : x >= y
           Bad == {n \in Nat : \E T \in SUBSET S : Cardinality(T) = n /\ T # {} /\ ~HasMax(T)}
<1>1. SUFFICES ASSUME ~HasMax(S)  PROVE FALSE
  BY DEF Max
<1>2. Bad # {}
  <2>1. Cardinality(S) \in Nat
    BY FS_CardinalityType
  <2> QED BY <1>1, <2>1
<1>3. Bad \in SUBSET Nat
  OBVIOUS
<1> HIDE DEF Bad
<1>4. PICK n \in Bad : \A m \in Bad : n <= m
  BY <1>2, <1>3, LeastOf
<1> USE DEF Bad
<1>5. n \in Nat
  BY <1>3
<1>6. PICK T \in SUBSET S : Cardinality(T) = n /\ T # {} /\ ~HasMax(T)
  OBVIOUS
<1>7. PICK x \in T : TRUE
  BY <1>6
<1> DEFINE U == T \ {x}
<1>8. IsFiniteSet(T)
  BY FS_Subset
<1>9. Cardinality(U) = n - 1 /\ n - 1 \in Nat
  <2>1. IsFiniteSet(U) /\ Cardinality(U) = Cardinality(T) - 1
    BY <1>7, <1>8, FS_RemoveElement
  <2>2. Cardinality(U) \in Nat
    BY <2>1, FS_CardinalityType
  <2> QED BY <1>5, <1>6, <2>1, <2>2
<1>10. x \in Nat
  OBVIOUS
<1>11. CASE U = {}
  <2>1. \A y \in T : y = x
    BY <1>11
  <2> QED BY <1>6, <1>10, <2>1
<1>12. CASE U # {}
  <2>1. n - 1 \notin Bad
    <3> HIDE DEF Bad
    <3>1. ~(n <= n - 1)
      BY <1>5
    <3> QED BY <1>4, <3>1
  <2>2. HasMax(U)
    BY <1>9, <1>12, <2>1
  <2>3. PICK z \in U : \A y \in U : z >= y
    BY <2>2
  <2>4. z \in Nat
    OBVIOUS
  <2>5. CASE z >= x
    <3>1. \A y \in T : z >= y
      BY <2>3, <2>5
    <3> QED BY <1>6, <3>1
  <2>6. CASE ~(z >= x)
    <3>1. \A y \in T : x >= y
      BY <1>10, <2>3, <2>4, <2>6
    <3> QED BY <1>6, <3>1
  <2> QED BY <2>5, <2>6
<1> QED BY <1>11, <1>12

\* A list of c rows in pages of s.
LEMMA PagesFit ==
  ASSUME NEW c \in Nat \ {0}, NEW s \in Nat \ {0}
  PROVE  (c + s - 1) \div s \in 1..c
<1> DEFINE q == (c + s - 1) \div s
<1>1. c + s - 1 \in Nat /\ s \in Int /\ s > 0
  OBVIOUS
<1>2. q \in Int /\ q * s <= c + s - 1 /\ c + s - 1 < (q + 1) * s
  BY <1>1
<1> HIDE DEF q
<1>3. q >= 1
  BY <1>2
<1>4. q <= c
  <2> SUFFICES ASSUME q >= c + 1  PROVE FALSE
    BY <1>2
  <2>1. q * s >= (c + 1) * s
    BY <1>2
  <2>2. (c + 1) * s >= c + s
    OBVIOUS
  <2> QED BY <1>2, <2>1, <2>2
<1> QED BY <1>2, <1>3, <1>4 DEF q

LEMMA ViewFields ==
  ASSUME TableAssumption, NEW v \in View
  PROVE  /\ v.page \in 1..Len(Newest) /\ v.size \in Sizes /\ v.size \in Nat \ {0}
         /\ v.season \in Seasons /\ v.only \in BOOLEAN /\ v.status \in Statuses \union {Nothing}
         /\ (v.page - 1) * v.size \in Nat
<1>1. /\ v.page \in 1..Len(Newest) /\ v.size \in Sizes /\ v.size \in Nat \ {0}
      /\ v.season \in Seasons /\ v.only \in BOOLEAN /\ v.status \in Statuses \union {Nothing}
  BY DEF View, TableAssumption
<1>2. v.page - 1 \in Nat /\ v.size \in Nat
  BY <1>1, NewestIs
<1>3. \A x, y \in Nat : x * y \in Nat
  OBVIOUS
<1> QED BY <1>1, <1>2, <1>3

\* What the server answers: rows as they are stored, none twice, and a page at
\* most.
LEMMA ListedShape ==
  ASSUME TableAssumption, NEW D \in SUBSET Rows, NEW st \in [D -> Row], NEW v \in View
  PROVE  /\ ListedIn(st, v) \in Answer /\ ListFits(ListedIn(st, v).rows)
         /\ \A i \in DOMAIN ListedIn(st, v).rows : AsStored(st, ListedIn(st, v).rows[i])
<1> DEFINE S == FoundIn(st, v)
           start == (v.page - 1) * v.size
           c == Cardinality(S)
           h == Height(S, v)
           pages == IF c = 0 THEN 1 ELSE (c + v.size - 1) \div v.size
           id(n) == IdAt(S, v, n)
           rs == [n \in 1..h |-> [id |-> id(n), data |-> st[id(n)]]]
<1>1. ListedIn(st, v) = [rows |-> rs, pages |-> pages]
  BY DEF ListedIn
<1>2. S \in SUBSET (1..Len(Newest)) /\ \A i \in S : Newest[i] \in D
  BY NewestIs DEF FoundIn
<1> HIDE DEF S
<1>3. /\ c \in 0..Len(Newest)
      /\ \A n \in 1..c : Nth(S, n) \in S /\ Cardinality({j \in S : j <= Nth(S, n)}) = n
  BY <1>2, NewestIs, NthIs
<1>4. start \in Nat /\ v.size \in Nat \ {0} /\ v.size \in Sizes
  BY ViewFields
<1>5. h \in Int /\ h <= c - start /\ h <= v.size
  <2>1. c - start \in Int /\ v.size \in Int
    BY <1>3, <1>4, NewestIs
  <2> HIDE DEF c, start
  <2>2. h = Min({c - start, v.size})
    BY DEF Height, c, start
  <2> QED BY <2>1, <2>2, MinIs
<1>6. pages \in 1..Len(Newest)
  <2>1. CASE c = 0
    BY <2>1, NewestIs
  <2>2. CASE c # 0
    <3>1. c \in Nat \ {0}
      BY <1>3, <2>2
    <3> HIDE DEF c
    <3>2. (c + v.size - 1) \div v.size \in 1..c
      BY <3>1, <1>4, PagesFit
    <3> QED BY <1>3, <2>2, <3>2, NewestIs
  <2> QED BY <2>1, <2>2
<1> HIDE DEF h, pages, c, start
<1>7. \A n \in 1..h : start + n \in 1..c
  BY <1>3, <1>4, <1>5, NewestIs
<1>8. \A n \in 1..h : id(n) \in D /\ id(n) = Newest[Nth(S, start + n)] /\ Nth(S, start + n) \in S
  BY <1>2, <1>3, <1>7 DEF IdAt, start
<1>9. \A m, n \in 1..h : id(m) = id(n) => m = n
  <2> TAKE m, n \in 1..h
  <2> HAVE id(m) = id(n)
  <2>1. Nth(S, start + m) = Nth(S, start + n)
    BY <1>2, <1>8, NewestIs
  <2>2. start + m = start + n
    BY <1>3, <1>7, <2>1
  <2> QED BY <1>4, <1>5, <2>2
<1> HIDE DEF id
<1>10. \A n \in 1..h : rs[n] = [id |-> id(n), data |-> st[id(n)]]
  OBVIOUS
<1>11. rs \in Seq(PageRow) /\ Len(rs) <= v.size /\ DOMAIN rs = 1..h
  <2>1. \A n \in 1..h : rs[n] \in PageRow
    BY <1>8, <1>10 DEF PageRow
  <2>2. CASE h \in Nat
    <3>1. rs \in [1..h -> PageRow]
      BY <2>1
    <3>2. rs \in Seq(PageRow)
      BY <3>1, <2>2, SeqDef
    <3>3. Len(rs) = h
      BY <3>2, <3>1, <2>2, LenProperties
    <3> QED BY <3>1, <3>2, <3>3, <1>5
  <2>3. CASE h \notin Nat
    <3>1. 1..h = 1..0
      BY <1>5, <2>3
    <3>2. rs \in [1..0 -> PageRow]
      BY <2>1, <3>1
    <3>3. rs \in Seq(PageRow)
      BY <3>2, SeqDef
    <3>4. Len(rs) \in Nat /\ DOMAIN rs = 1..Len(rs) /\ DOMAIN rs = 1..0
      BY <3>3, <3>2, LenProperties
    <3> HIDE DEF rs
    <3>6. Len(rs) = 0
      <4>1. \A n \in Nat : 1..n = 1..0 => n = 0
        <5> SUFFICES ASSUME NEW n \in Nat, 1..n = 1..0, n # 0  PROVE FALSE
          OBVIOUS
        <5>1. 1 \in 1..n
          OBVIOUS
        <5> QED BY <5>1
      <4> QED BY <3>4, <4>1
    <3> QED BY <3>1, <3>3, <3>4, <3>6, <1>4
  <2> QED BY <2>2, <2>3
<1>12. v.size <= Max(Sizes) /\ Max(Sizes) \in Nat
  <2>1. Sizes \in SUBSET Nat /\ IsFiniteSet(Sizes)
    BY DEF TableAssumption
  <2> QED BY <1>4, <2>1, MaxIs
<1> HIDE DEF rs
<1>13. ListFits(rs)
  <2>1. \A i, j \in DOMAIN rs : rs[i].id = rs[j].id => i = j
    BY <1>9, <1>10, <1>11
  <2>2. Len(rs) \in Nat
    BY <1>11, LenProperties
  <2> QED BY <1>4, <1>11, <1>12, <2>1, <2>2 DEF ListFits
<1>14. \A i \in DOMAIN rs : AsStored(st, rs[i])
  BY <1>8, <1>10, <1>11 DEF AsStored
<1>15. ListedIn(st, v) \in Answer
  BY <1>1, <1>6, <1>11 DEF Answer
<1> QED BY <1>1, <1>13, <1>14, <1>15

\* Which rows are listed depends on which the view finds.
LEMMA ListedIds ==
  ASSUME NEW st, NEW tt, NEW v, FoundIn(st, v) = FoundIn(tt, v)
  PROVE  SameIds(ListedIn(st, v).rows, ListedIn(tt, v).rows)
BY DEF ListedIn, SameIds

-----------------------------------------------------------------------------
(* What does not disturb a page.                                            *)

LEMMA PageShape ==
  ASSUME TableTyped, NEW b \in Browsers
  PROVE  /\ page[b] \in PageState /\ page[b].view \in View /\ page[b].rows \in Seq(PageRow)
         /\ page[b].pages \in 1..Len(Newest) /\ page[b].selected \in SUBSET Rows
         /\ DOMAIN page[b].rows = 1..Len(page[b].rows) /\ Len(page[b].rows) \in Nat
         /\ \A i \in DOMAIN page[b].rows :
              /\ page[b].rows[i] \in PageRow /\ page[b].rows[i].id \in Rows
              /\ page[b].rows[i].data \in Row
         /\ Shown(b) \subseteq Rows
<1>1. page[b] \in PageState
  BY DEF TableTyped, PagesTyped
<1>2. page[b].view \in View /\ page[b].rows \in Seq(PageRow) /\ page[b].pages \in 1..Len(Newest)
      /\ page[b].selected \in SUBSET Rows
  BY <1>1 DEF PageState
<1>3. DOMAIN page[b].rows = 1..Len(page[b].rows) /\ Len(page[b].rows) \in Nat
  BY <1>2, LenProperties
<1>4. \A i \in DOMAIN page[b].rows : page[b].rows[i] \in PageRow
  BY <1>2, <1>3, ElementOfSeq
<1>5. \A i \in DOMAIN page[b].rows : page[b].rows[i].id \in Rows /\ page[b].rows[i].data \in Row
  BY <1>4 DEF PageRow
<1>6. Shown(b) \subseteq Rows
  BY <1>5 DEF Shown, Ids
<1> QED BY <1>1, <1>2, <1>3, <1>4, <1>5, <1>6

SameScreen(b) ==
  /\ page'[b].view = page[b].view /\ page'[b].rows = page[b].rows
  /\ page'[b].fetch = page[b].fetch /\ page'[b].answer = page[b].answer
  /\ page'[b].error = page[b].error
SameTicks(b) == page'[b].selected = page[b].selected /\ early'[b] = early[b]
FewerToMove(b) ==
  /\ move'[b].left \subseteq move[b].left
  /\ move'[b].left # {} =>
       /\ move'[b].whole = move[b].whole
       /\ move[b].whole => move'[b].from = move[b].from /\ move'[b].only = move[b].only

LEMMA MoveStays ==
  ASSUME NEW b \in Browsers, MoveKnown(b), stored' = stored, FewerToMove(b), raced'[b] = raced[b]
  PROVE  MoveKnown(b)'
BY DEF MoveKnown, FewerToMove

LEMMA NothingToMove ==
  ASSUME NEW b \in Browsers, move'[b].left = {}
  PROVE  MoveKnown(b)'
BY DEF MoveKnown

LEMMA TicksStay ==
  ASSUME NEW b \in Browsers, TicksTrue(b), SameScreen(b), SameTicks(b)
  PROVE  TicksTrue(b)'
BY DEF TicksTrue, SameScreen, SameTicks, Shown

\* A page's list stays true while the store does and the page forgets nothing it
\* has to account for.
LEMMA CalmStays ==
  ASSUME NEW b \in Browsers, BrowserInv(b), stored' = stored, SameScreen(b),
         SavesOf(b)' = SavesOf(b), excused[b] \subseteq excused'[b],
         Own(b) \subseteq excused'[b] \union Own(b)', since'[b] = since[b],
         TicksTrue(b)', MoveKnown(b)'
  PROVE  BrowserInv(b)'
<1>1. ListsFit(b)'
  BY DEF BrowserInv, ListsFit, SameScreen
<1>2. AnswerKnown(b)'
  BY DEF BrowserInv, AnswerKnown, SameScreen
<1>3. RowsTrue(b)'
  <2> HIDE DEF SavesOf, Own
  <2> SUFFICES ASSUME Fresh(b)', NEW i \in DOMAIN page[b].rows,
                      page[b].rows[i].id \notin excused'[b] \union Own(b)'
               PROVE  RowTrue(stored, SavesOf(b), page[b].rows[i])
    BY DEF RowsTrue, SameScreen
  <2>1. Fresh(b)
    BY DEF Fresh, SameScreen
  <2>2. page[b].rows[i].id \notin excused[b] \union Own(b)
    OBVIOUS
  <2> QED BY <2>1, <2>2 DEF BrowserInv, RowsTrue
<1>4. SavesApart(b)'
  <2> HIDE DEF SavesOf
  <2>1. Shown(b)' = Shown(b)
    BY DEF Shown, SameScreen
  <2>2. Fresh(b)' = Fresh(b)
    BY DEF Fresh, SameScreen
  <2> HIDE DEF Shown, Fresh
  <2> QED BY <2>1, <2>2 DEF BrowserInv, SavesApart, SameScreen
<1>5. IdsTrue(b)'
  <2> HIDE DEF SavesOf, Own
  <2> SUFFICES ASSUME Fresh(b)', excused'[b] = {}, Own(b)' = {},
                      \A s \in SavesOf(b) : ~(s.done /\ Rereads(s))
               PROVE  SameIds(page[b].rows, ListedIn(stored, page[b].view).rows)
    BY DEF IdsTrue, SameScreen
  <2>1. Fresh(b)
    BY DEF Fresh, SameScreen
  <2>2. excused[b] = {} /\ Own(b) = {}
    OBVIOUS
  <2> QED BY <2>1, <2>2 DEF BrowserInv, IdsTrue
<1> QED BY <1>1, <1>2, <1>3, <1>4, <1>5 DEF BrowserInv

\* A page that has just asked for a list counts on nothing.
LEMMA AskedStays ==
  ASSUME NEW b \in Browsers, BrowserInv(b), page'[b].fetch = "asked",
         page'[b].rows = page[b].rows, page'[b].selected = {}, MoveKnown(b)'
  PROVE  BrowserInv(b)'
<1>1. ~Fresh(b)'
  BY DEF Fresh
<1>2. ListsFit(b)'
  BY DEF BrowserInv, ListsFit
<1>3. AnswerKnown(b)'
  BY DEF AnswerKnown
<1>4. TicksTrue(b)'
  BY DEF TicksTrue
<1> QED BY <1>1, <1>2, <1>3, <1>4 DEF BrowserInv, RowsTrue, SavesApart, IdsTrue

\* The store changes in some rows.
Touched(ids) == \A r \in Rows \ ids :
  /\ r \in DOMAIN stored' <=> r \in DOMAIN stored
  /\ r \in DOMAIN stored => stored'[r] = stored[r]
Noted(b, ids) ==
  /\ since'[b] = (IF page[b].fetch = "read" THEN since[b] \union ids ELSE {})
  /\ raced'[b] = (IF move[b].left # {} THEN raced[b] \union ids ELSE raced[b])

LEMMA AnswerTouched ==
  ASSUME NEW b \in Browsers, NEW ids \in SUBSET Rows, ids # {}, BrowserInv(b), Touched(ids), Noted(b, ids),
         SameScreen(b)
  PROVE  AnswerKnown(b)'
<1> SUFFICES ASSUME page[b].fetch = "read"  PROVE AnswerKnown(b)'
  BY DEF AnswerKnown, SameScreen
<1>1. since'[b] = since[b] \union ids
  BY DEF Noted
<1>2. page[b].answer \in Answer
  BY DEF BrowserInv, ListsFit
<1>3. ASSUME NEW i \in DOMAIN page[b].answer.rows
      PROVE  page[b].answer.rows[i].id \in since'[b] \/ AsStored(stored', page[b].answer.rows[i])
  <2>1. page[b].answer.rows \in Seq(PageRow)
    BY <1>2 DEF Answer
  <2>2. page[b].answer.rows[i] \in PageRow
    BY <2>1, LenProperties, ElementOfSeq
  <2>3. page[b].answer.rows[i].id \in Rows
    BY <2>2 DEF PageRow
  <2>4. page[b].answer.rows[i].id \in since[b] \/ AsStored(stored, page[b].answer.rows[i])
    BY DEF BrowserInv, AnswerKnown
  <2> QED BY <1>1, <2>3, <2>4 DEF Touched, AsStored
<1>4. since'[b] # {}
  BY <1>1
<1> QED BY <1>3, <1>4 DEF AnswerKnown, SameScreen

LEMMA MoveTouched ==
  ASSUME TableTyped, NEW b \in Browsers, NEW ids \in SUBSET Rows, BrowserInv(b), Touched(ids),
         Noted(b, ids), FewerToMove(b)
  PROVE  MoveKnown(b)'
<1> SUFFICES ASSUME NEW r \in move'[b].left, move'[b].whole, r \notin raced'[b]
             PROVE  /\ r \in DOMAIN stored' /\ stored'[r].season = move'[b].from
                    /\ move'[b].only => stored'[r].archived
  BY DEF MoveKnown
<1>1. r \in move[b].left /\ move[b].whole
  BY DEF FewerToMove
<1>2. r \notin raced[b] /\ r \notin ids
  BY <1>1 DEF Noted
<1>3. r \in DOMAIN stored /\ stored[r].season = move[b].from /\ (move[b].only => stored[r].archived)
  BY <1>1, <1>2 DEF BrowserInv, MoveKnown
<1>4. r \in Rows
  BY <1>3 DEF TableTyped, StoreTyped
<1> QED BY <1>2, <1>3, <1>4 DEF Touched, FewerToMove

\* A page a change does not concern, or that accounts for it, stays true.
LEMMA TouchedStays ==
  ASSUME TableTyped, NEW b \in Browsers, NEW ids \in SUBSET Rows, ids # {}, BrowserInv(b), Touched(ids),
         Noted(b, ids), SameScreen(b), SameTicks(b), FewerToMove(b), SavesOf(b)' = SavesOf(b),
         excused[b] \subseteq excused'[b],
         Own(b) \union ids \subseteq excused'[b] \union Own(b)'
  PROVE  BrowserInv(b)'
<1>1. ListsFit(b)'
  BY DEF BrowserInv, ListsFit, SameScreen
<1>2. AnswerKnown(b)' /\ MoveKnown(b)'
  BY AnswerTouched, MoveTouched
<1>3. RowsTrue(b)'
  <2> HIDE DEF SavesOf, Own
  <2> SUFFICES ASSUME Fresh(b)', NEW i \in DOMAIN page[b].rows,
                      page[b].rows[i].id \notin excused'[b] \union Own(b)'
               PROVE  RowTrue(stored', SavesOf(b), page[b].rows[i])
    BY DEF RowsTrue, SameScreen
  <2>1. Fresh(b)
    BY DEF Fresh, SameScreen
  <2>2. page[b].rows[i].id \notin excused[b] \union Own(b) \union ids
    OBVIOUS
  <2>3. RowTrue(stored, SavesOf(b), page[b].rows[i])
    BY <2>1, <2>2 DEF BrowserInv, RowsTrue
  <2>4. page[b].rows[i].id \in Rows \ ids
    BY <2>2, PageShape
  <2>5. page[b].rows[i].id \in DOMAIN stored'
        /\ stored'[page[b].rows[i].id] = stored[page[b].rows[i].id]
    BY <2>3, <2>4 DEF Touched, RowTrue
  <2> QED BY <2>3, <2>5 DEF RowTrue, Ahead
<1>4. SavesApart(b)'
  <2> HIDE DEF SavesOf
  <2>1. Shown(b)' = Shown(b)
    BY DEF Shown, SameScreen
  <2>2. Fresh(b)' = Fresh(b)
    BY DEF Fresh, SameScreen
  <2> HIDE DEF Shown, Fresh
  <2> QED BY <2>1, <2>2 DEF BrowserInv, SavesApart, SameScreen
<1>5. IdsTrue(b)'
  <2> HIDE DEF Own
  <2>1. ~(excused'[b] = {} /\ Own(b)' = {})
    OBVIOUS
  <2> QED BY <2>1 DEF IdsTrue
<1>6. TicksTrue(b)'
  BY DEF BrowserInv, TicksTrue, SameScreen, SameTicks, Shown
<1> QED BY <1>1, <1>2, <1>3, <1>4, <1>5, <1>6 DEF BrowserInv

-----------------------------------------------------------------------------
(* The beginning.                                                           *)

LEMMA TableStarts ==
  ASSUME TableAssumption, Init
  PROVE  TableInv
<1>1. AtFirst \in SUBSET Rows /\ stored \in [AtFirst -> Row] /\ DOMAIN stored = AtFirst
  BY DEF Init, TableAssumption
<1>2. FirstView \in View
  BY NewestIs DEF FirstView, View, TableAssumption
<1> DEFINE first == ListedIn(stored, FirstView)
<1>3. /\ first \in Answer /\ ListFits(first.rows)
      /\ \A i \in DOMAIN first.rows : AsStored(stored, first.rows[i])
  BY <1>1, <1>2, ListedShape
<1>4. FirstPage = [view |-> FirstView, rows |-> first.rows, pages |-> first.pages, fetch |-> "shown",
                   answer |-> Nothing, error |-> FALSE, selected |-> {}, busy |-> Nothing]
  BY ListedNow DEF FirstPage
<1> HIDE DEF first
<1>5. FirstPage \in PageState
  BY <1>2, <1>3, <1>4 DEF PageState, Answer
<1>6. TableTyped
  <2>1. StoreTyped
    BY <1>1 DEF StoreTyped, Init
  <2>2. PagesTyped
    BY <1>5 DEF PagesTyped, Init
  <2>3. RequestsTyped
    BY DEF RequestsTyped, Init
  <2>4. NotesTyped
    BY DEF NotesTyped, Init, TableAssumption
  <2> QED BY <2>1, <2>2, <2>3, <2>4 DEF TableTyped
<1>7. ASSUME NEW b \in Browsers  PROVE BrowserInv(b)
  <2>1. /\ page[b] = FirstPage /\ SavesOf(b) = {} /\ PartsOf(b) = {} /\ move[b] = NoMove
        /\ early[b] = FALSE
    BY DEF Init, SavesOf, PartsOf
  <2>2. /\ page[b].view = FirstView /\ page[b].rows = first.rows /\ page[b].fetch = "shown"
        /\ page[b].selected = {}
    BY <1>4, <2>1
  <2>3. ListsFit(b)
    BY <1>3, <2>2 DEF ListsFit
  <2>4. AnswerKnown(b)
    BY <2>2 DEF AnswerKnown
  <2>5. RowsTrue(b)
    BY <1>3, <2>1, <2>2 DEF RowsTrue, RowTrue, AsStored
  <2>6. SavesApart(b)
    BY <2>1 DEF SavesApart
  <2>7. IdsTrue(b)
    BY <2>2 DEF IdsTrue, SameIds, first
  <2>8. TicksTrue(b)
    BY <2>2 DEF TicksTrue
  <2>9. MoveKnown(b)
    BY <2>1 DEF MoveKnown, NoMove
  <2> QED BY <2>3, <2>4, <2>5, <2>6, <2>7, <2>8, <2>9 DEF BrowserInv
<1> QED BY <1>6, <1>7 DEF TableInv

-----------------------------------------------------------------------------
(* The list.                                                                *)

\* A page and its requests are as they were.
Quiet(b) ==
  /\ page'[b] = page[b] /\ early'[b] = early[b] /\ move'[b] = move[b]
  /\ SavesOf(b)' = SavesOf(b) /\ PartsOf(b)' = PartsOf(b)

LEMMA QuietStays ==
  ASSUME NEW b \in Browsers, BrowserInv(b), Quiet(b), stored' = stored, excused'[b] = excused[b],
         since'[b] = since[b], raced'[b] = raced[b]
  PROVE  BrowserInv(b)'
<1>1. SameScreen(b) /\ SameTicks(b) /\ FewerToMove(b)
  BY DEF Quiet, SameScreen, SameTicks, FewerToMove
<1>2. Own(b)' = Own(b)
  BY DEF Quiet, Own, Moved
<1>3. MoveKnown(b)' /\ TicksTrue(b)'
  BY <1>1, MoveStays, TicksStay DEF BrowserInv
<1> HIDE DEF Own
<1> QED BY <1>1, <1>2, <1>3, CalmStays DEF Quiet

LEMMA QuietTouched ==
  ASSUME TableTyped, NEW b \in Browsers, NEW ids \in SUBSET Rows, ids # {}, BrowserInv(b), Touched(ids),
         Noted(b, ids), Quiet(b), excused'[b] = excused[b] \union ids
  PROVE  BrowserInv(b)'
<1>1. SameScreen(b) /\ SameTicks(b) /\ FewerToMove(b)
  BY DEF Quiet, SameScreen, SameTicks, FewerToMove
<1>2. Own(b)' = Own(b)
  BY DEF Quiet, Own, Moved
<1> HIDE DEF Own
<1> QED BY <1>1, <1>2, TouchedStays DEF Quiet

LEMMA ChangedNotes ==
  ASSUME NEW b \in Browsers, NEW ids, NEW knowing, Changed(ids, knowing)
  PROVE  /\ Noted(b, ids)
         /\ excused'[b] = IF b \in knowing THEN excused[b] ELSE excused[b] \union ids
BY DEF Changed, Noted

LEMMA ChangedTyped ==
  ASSUME NotesTyped, NEW ids \in SUBSET Rows, NEW knowing, Changed(ids, knowing),
         UNCHANGED <<early, asks, faults>>
  PROVE  NotesTyped'
BY DEF NotesTyped, Changed

LEMMA ArriveKeeps ==
  ASSUME TableAssumption, TableInv, Arrive
  PROVE  TableInv'
<1>1. PICK r \in waiting :
        /\ waiting' = waiting \ {r}
        /\ stored' = [q \in DOMAIN stored \union {r} |-> IF q = r THEN Submitted[r] ELSE stored[q]]
        /\ Changed({r}, {})
  BY DEF Arrive
<1>2. UNCHANGED <<page, saves, parts, move, asks, faults, early>>
  BY DEF Arrive
<1>3. TableTyped /\ r \in Rows
  BY <1>1 DEF TableInv, TableTyped, StoreTyped
<1>4. StoreTyped'
  <2>1. Submitted[r] \in Row
    BY <1>3 DEF TableAssumption
  <2> QED BY <1>1, <1>3, <2>1 DEF TableTyped, StoreTyped
<1>5. NotesTyped'
  BY <1>1, <1>2, <1>3, ChangedTyped DEF TableTyped
<1>6. TableTyped'
  BY <1>2, <1>3, <1>4, <1>5 DEF TableTyped, PagesTyped, RequestsTyped
<1>7. Touched({r})
  BY <1>1 DEF Touched
<1>8. ASSUME NEW b \in Browsers  PROVE BrowserInv(b)'
  <2>1. Quiet(b)
    BY <1>2 DEF Quiet, SavesOf, PartsOf
  <2>2. Noted(b, {r}) /\ excused'[b] = excused[b] \union {r}
    BY <1>1 DEF Changed, Noted
  <2> QED BY <1>3, <1>7, <2>1, <2>2, QuietTouched DEF TableInv
<1> QED BY <1>6, <1>8 DEF TableInv

LEMMA ArchiveSeasonKeeps ==
  ASSUME TableAssumption, TableInv, ArchiveSeason
  PROVE  TableInv'
<1>1. PICK s \in Seasons :
        LET ids == {r \in DOMAIN stored : stored[r].season = s /\ ~stored[r].archived} IN
        /\ Ask /\ ids # {}
        /\ stored' = [r \in DOMAIN stored |-> IF r \in ids THEN [stored[r] EXCEPT !.archived = TRUE] ELSE stored[r]]
        /\ Changed(ids, {})
  BY DEF ArchiveSeason
<1> DEFINE ids == {r \in DOMAIN stored : stored[r].season = s /\ ~stored[r].archived}
<1>2. UNCHANGED <<waiting, page, saves, parts, move, faults, early>>
  BY DEF ArchiveSeason
<1>3. TableTyped /\ ids \in SUBSET Rows /\ ids # {} /\ Changed(ids, {})
  BY <1>1 DEF TableInv, TableTyped, StoreTyped
<1>4. stored' = [r \in DOMAIN stored |-> IF r \in ids THEN [stored[r] EXCEPT !.archived = TRUE] ELSE stored[r]]
  BY <1>1
<1> HIDE DEF ids
<1>5. StoreTyped'
  <2>1. \A d \in Row : [d EXCEPT !.archived = TRUE] \in Row
    BY DEF Row
  <2>2. \A r \in DOMAIN stored : stored[r] \in Row
    BY <1>3 DEF TableTyped, StoreTyped
  <2> QED BY <1>2, <1>3, <1>4, <2>1, <2>2 DEF TableTyped, StoreTyped
<1>6. NotesTyped'
  <2>1. asks' \in 0..MaxAsks
    BY <1>1, <1>3 DEF Ask, TableTyped, NotesTyped, TableAssumption
  <2> QED BY <1>2, <1>3, <2>1 DEF TableTyped, NotesTyped, Changed
<1>7. TableTyped'
  BY <1>2, <1>3, <1>5, <1>6 DEF TableTyped, PagesTyped, RequestsTyped
<1>8. Touched(ids)
  BY <1>4 DEF Touched
<1>9. ASSUME NEW b \in Browsers  PROVE BrowserInv(b)'
  <2>1. Quiet(b)
    BY <1>2 DEF Quiet, SavesOf, PartsOf
  <2>2. Noted(b, ids) /\ excused'[b] = excused[b] \union ids
    BY <1>3 DEF Changed, Noted
  <2> QED BY <1>3, <1>8, <2>1, <2>2, QuietTouched DEF TableInv
<1> QED BY <1>7, <1>9 DEF TableInv

LEMMA AskTyped ==
  ASSUME TableAssumption, NotesTyped, Ask
  PROVE  asks' \in 0..MaxAsks
BY DEF NotesTyped, Ask, TableAssumption

LEMMA FaultTyped ==
  ASSUME TableAssumption, NotesTyped, Fault
  PROVE  faults' \in 0..MaxFaults
BY DEF NotesTyped, Fault, TableAssumption

LEMMA AskedPage ==
  ASSUME NEW p \in PageState, NEW v \in View
  PROVE  /\ Asked(p, v) \in PageState /\ Asked(p, v).fetch = "asked" /\ Asked(p, v).rows = p.rows
         /\ Asked(p, v).selected = {}
BY DEF Asked, PageState

\* The views the controls lead to.
LEMMA TurnedViews ==
  ASSUME TableAssumption, NEW p \in PageState
  PROVE  Turned(p) \subseteq View
<1>1. p.view \in View /\ p.pages \in 1..Len(Newest)
  BY DEF PageState
<1>2. 1 \in 1..Len(Newest)
  BY NewestIs
<1>3. /\ \A s \in Seasons : [p.view EXCEPT !.season = s, !.page = 1] \in View
      /\ \A s \in Statuses \union {Nothing} : [p.view EXCEPT !.status = s, !.page = 1] \in View
      /\ \A n \in Sizes : [p.view EXCEPT !.size = n, !.page = 1] \in View
      /\ [p.view EXCEPT !.only = ~p.view.only, !.page = 1] \in View
  BY <1>1, <1>2 DEF View
<1>4. \A n \in 1..p.pages : [p.view EXCEPT !.page = n] \in View
  <2> SUFFICES ASSUME NEW n \in 1..p.pages  PROVE [p.view EXCEPT !.page = n] \in View
    OBVIOUS
  <2>1. n \in 1..Len(Newest)
    BY <1>1, NewestIs
  <2> QED BY <1>1, <2>1 DEF View
<1> QED BY <1>3, <1>4 DEF Turned

LEMMA ChangeViewKeeps ==
  ASSUME TableAssumption, TableInv, NEW c \in Browsers, ChangeView(c)
  PROVE  TableInv'
<1>1. PICK v \in Turned(page[c]) : Ask /\ page' = [page EXCEPT ![c] = Asked(@, v)]
  BY DEF ChangeView
<1>2. early' = [early EXCEPT ![c] = FALSE] /\ Unchanged /\ UNCHANGED <<stored, waiting, saves, parts, move, faults>>
  BY DEF ChangeView
<1>3. TableTyped /\ page[c] \in PageState
  BY PageShape DEF TableInv
<1>4. v \in View
  BY <1>1, <1>3, TurnedViews
<1>5. PagesTyped'
  BY <1>1, <1>3, <1>4, AskedPage DEF TableTyped, PagesTyped
<1>6. NotesTyped'
  <2>1. asks' \in 0..MaxAsks
    BY <1>1, <1>3, AskTyped DEF TableTyped
  <2> QED BY <1>2, <1>3, <2>1 DEF TableTyped, NotesTyped, Unchanged
<1>7. TableTyped'
  BY <1>2, <1>3, <1>5, <1>6 DEF TableTyped, StoreTyped, RequestsTyped
<1>8. BrowserInv(c)'
  <2>1. page'[c] = Asked(page[c], v)
    BY <1>1, <1>3 DEF TableTyped, PagesTyped
  <2>2. FewerToMove(c)
    BY <1>2 DEF FewerToMove
  <2>3. MoveKnown(c)'
    BY <1>2, <2>2, MoveStays DEF TableInv, BrowserInv, Unchanged
  <2> QED BY <1>3, <1>4, <2>1, <2>3, AskedPage, AskedStays DEF TableInv
<1>9. ASSUME NEW b \in Browsers, b # c  PROVE BrowserInv(b)'
  <2>1. Quiet(b)
    BY <1>1, <1>2, <1>3, <1>9 DEF Quiet, SavesOf, PartsOf, TableTyped, PagesTyped, NotesTyped
  <2> QED BY <1>2, <2>1, QuietStays DEF TableInv, Unchanged
<1> QED BY <1>7, <1>8, <1>9 DEF TableInv

LEMMA ReadKeeps ==
  ASSUME TableAssumption, TableInv, NEW c \in Browsers, Read(c)
  PROVE  TableInv'
<1> DEFINE answer == ListedIn(stored, page[c].view)
<1>1. /\ page[c].fetch = "asked"
      /\ page' = [page EXCEPT ![c].fetch = "read", ![c].answer = answer]
      /\ since' = [since EXCEPT ![c] = {}]
  BY ListedNow DEF Read
<1>2. UNCHANGED <<stored, waiting, saves, parts, move, asks, faults, excused, early, raced>>
  BY DEF Read
<1>3. TableTyped /\ page[c] \in PageState /\ page[c].view \in View
  BY PageShape DEF TableInv
<1>4. /\ answer \in Answer /\ ListFits(answer.rows)
      /\ \A i \in DOMAIN answer.rows : AsStored(stored, answer.rows[i])
  BY <1>3, ListedShape DEF TableTyped, StoreTyped
<1> HIDE DEF answer
<1>5. PagesTyped'
  <2>1. [page[c] EXCEPT !.fetch = "read", !.answer = answer] \in PageState
    BY <1>3, <1>4 DEF PageState
  <2> QED BY <1>1, <1>3, <2>1 DEF TableTyped, PagesTyped
<1>6. NotesTyped'
  BY <1>1, <1>2, <1>3 DEF TableTyped, NotesTyped
<1>7. TableTyped'
  BY <1>2, <1>3, <1>5, <1>6 DEF TableTyped, StoreTyped, RequestsTyped
<1>8. BrowserInv(c)'
  <2>1. /\ page'[c].fetch = "read" /\ page'[c].answer = answer /\ page'[c].rows = page[c].rows
        /\ page'[c].view = page[c].view /\ page'[c].selected = page[c].selected
    BY <1>1, <1>3 DEF TableTyped, PagesTyped, PageState
  <2>2. since'[c] = {}
    BY <1>1, <1>3 DEF TableTyped, NotesTyped
  <2>3. FewerToMove(c)
    BY <1>2 DEF FewerToMove
  <2>4. MoveKnown(c)'
    BY <1>2, <2>3, MoveStays DEF TableInv, BrowserInv
  <2>5. ListsFit(c)'
    BY <1>4, <2>1 DEF ListsFit, TableInv, BrowserInv
  <2>6. AnswerKnown(c)'
    BY <1>2, <1>4, <2>1, <2>2 DEF AnswerKnown, answer
  <2>7. ~Fresh(c)'
    BY <2>1 DEF Fresh
  <2>8. TicksTrue(c)'
    BY <1>1, <1>2, <2>1 DEF TicksTrue, TableInv, BrowserInv
  <2> QED BY <2>4, <2>5, <2>6, <2>7, <2>8 DEF BrowserInv, RowsTrue, SavesApart, IdsTrue
<1>9. ASSUME NEW b \in Browsers, b # c  PROVE BrowserInv(b)'
  <2>1. Quiet(b) /\ since'[b] = since[b]
    BY <1>1, <1>2, <1>3, <1>9 DEF Quiet, SavesOf, PartsOf, TableTyped, PagesTyped, NotesTyped
  <2> QED BY <1>2, <2>1, QuietStays DEF TableInv
<1> QED BY <1>7, <1>8, <1>9 DEF TableInv

LEMMA UnderWayRows ==
  ASSUME TableTyped, NEW b \in Browsers
  PROVE  UnderWay(b) \subseteq Rows
<1>1. \A s \in saves : s.id \in Rows
  BY DEF TableTyped, RequestsTyped, SaveRequests, SaveOf
<1>2. \A q \in parts : q.id \in Rows
  BY DEF TableTyped, RequestsTyped, PartRequests
<1>3. move[b].left \subseteq Rows
  <2>1. move[b] = NoMove \/ move[b] \in PickedMoves \/ move[b] \in WholeMoves
    BY DEF TableTyped, RequestsTyped
  <2>2. CASE move[b] = NoMove
    BY <2>2 DEF NoMove
  <2>3. CASE move[b] \in PickedMoves
    BY <2>3 DEF PickedMoves
  <2>4. CASE move[b] \in WholeMoves
    BY <2>4 DEF WholeMoves
  <2> QED BY <2>1, <2>2, <2>3, <2>4
<1> QED BY <1>1, <1>2, <1>3 DEF UnderWay, SavesOf, PartsOf

LEMMA ShowKeeps ==
  ASSUME TableAssumption, TableInv, NEW c \in Browsers, Show(c)
  PROVE  TableInv'
<1> DEFINE a == page[c].answer
<1>1. /\ page[c].fetch = "read"
      /\ page' = [page EXCEPT ![c].fetch = "shown", ![c].answer = Nothing, ![c].rows = a.rows,
                              ![c].pages = a.pages]
      /\ excused' = [excused EXCEPT ![c] = since[c] \union UnderWay(c)]
      /\ since' = [since EXCEPT ![c] = {}]
  BY DEF Show
<1>2. UNCHANGED <<stored, waiting, saves, parts, move, asks, faults, early, raced>>
  BY DEF Show
<1>3. TableTyped /\ page[c] \in PageState /\ page[c].view \in View
  BY PageShape DEF TableInv
<1>4. /\ a \in Answer /\ ListFits(a.rows)
      /\ \A i \in DOMAIN a.rows : a.rows[i].id \in since[c] \/ AsStored(stored, a.rows[i])
      /\ since[c] = {} => a = ListedIn(stored, page[c].view)
  BY <1>1 DEF TableInv, BrowserInv, ListsFit, AnswerKnown
<1> HIDE DEF a
<1>5. PagesTyped'
  <2>1. [page[c] EXCEPT !.fetch = "shown", !.answer = Nothing, !.rows = a.rows, !.pages = a.pages] \in PageState
    BY <1>3, <1>4 DEF PageState, Answer
  <2> QED BY <1>1, <1>3, <2>1 DEF TableTyped, PagesTyped
<1>6. NotesTyped'
  BY <1>1, <1>2, <1>3, UnderWayRows DEF TableTyped, NotesTyped
<1>7. TableTyped'
  BY <1>2, <1>3, <1>5, <1>6 DEF TableTyped, StoreTyped, RequestsTyped
<1>8. BrowserInv(c)'
  <2>1. /\ page'[c].fetch = "shown" /\ page'[c].rows = a.rows
        /\ page'[c].view = page[c].view /\ page'[c].selected = page[c].selected
    BY <1>1, <1>3 DEF TableTyped, PagesTyped, PageState
  <2>2. excused'[c] = since[c] \union UnderWay(c)
    BY <1>1, <1>3 DEF TableTyped, NotesTyped
  <2>3. SavesOf(c)' = SavesOf(c)
    BY <1>2 DEF SavesOf
  <2>4. FewerToMove(c)
    BY <1>2 DEF FewerToMove
  <2>5. MoveKnown(c)'
    BY <1>2, <2>4, MoveStays DEF TableInv, BrowserInv
  <2>6. ListsFit(c)'
    BY <1>4, <2>1 DEF ListsFit
  <2>7. AnswerKnown(c)'
    BY <2>1 DEF AnswerKnown
  <2>8. \A s \in SavesOf(c) : s.id \in excused'[c]
    BY <2>2 DEF UnderWay
  <2> HIDE DEF SavesOf, Own, Fresh
  <2>9. RowsTrue(c)'
    <3> SUFFICES ASSUME NEW i \in DOMAIN a.rows, a.rows[i].id \notin excused'[c] \union Own(c)'
                 PROVE  RowTrue(stored, SavesOf(c), a.rows[i])
      BY <1>2, <2>1, <2>3 DEF RowsTrue
    <3>1. AsStored(stored, a.rows[i])
      BY <1>4, <2>2
    <3>2. \A s \in SavesOf(c) : s.id # a.rows[i].id
      BY <2>8
    <3> QED BY <3>1, <3>2 DEF RowTrue, AsStored
  <2>10. SavesApart(c)'
    BY <2>3, <2>8 DEF SavesApart
  <2>11. IdsTrue(c)'
    <3> SUFFICES ASSUME excused'[c] = {}
                 PROVE  SameIds(a.rows, ListedIn(stored, page[c].view).rows)
      BY <1>2, <2>1 DEF IdsTrue
    <3>1. since[c] = {}
      BY <2>2
    <3> QED BY <1>4, <3>1 DEF SameIds
  <2>12. TicksTrue(c)'
    BY <1>1, <1>2, <2>1 DEF TicksTrue, TableInv, BrowserInv
  <2> QED BY <2>5, <2>6, <2>7, <2>9, <2>10, <2>11, <2>12 DEF BrowserInv
<1>9. ASSUME NEW b \in Browsers, b # c  PROVE BrowserInv(b)'
  <2>1. Quiet(b) /\ since'[b] = since[b] /\ excused'[b] = excused[b]
    BY <1>1, <1>2, <1>3, <1>9 DEF Quiet, SavesOf, PartsOf, TableTyped, PagesTyped, NotesTyped
  <2> QED BY <1>2, <2>1, QuietStays DEF TableInv
<1> QED BY <1>7, <1>8, <1>9 DEF TableInv

LEMMA ListFailsKeeps ==
  ASSUME TableAssumption, TableInv, NEW c \in Browsers, ListFails(c)
  PROVE  TableInv'
<1>1. /\ page[c].fetch \in {"asked", "read"} /\ Fault
      /\ page' = [page EXCEPT ![c].fetch = "shown", ![c].answer = Nothing, ![c].error = TRUE]
  BY DEF ListFails
<1>2. Unchanged /\ UNCHANGED <<stored, waiting, saves, parts, move, asks, early>>
  BY DEF ListFails
<1>3. TableTyped /\ page[c] \in PageState
  BY PageShape DEF TableInv
<1>4. PagesTyped'
  <2>1. [page[c] EXCEPT !.fetch = "shown", !.answer = Nothing, !.error = TRUE] \in PageState
    BY <1>3 DEF PageState
  <2> QED BY <1>1, <1>3, <2>1 DEF TableTyped, PagesTyped
<1>5. NotesTyped'
  <2>1. faults' \in 0..MaxFaults
    BY <1>1, <1>3, FaultTyped DEF TableTyped
  <2> QED BY <1>2, <1>3, <2>1 DEF TableTyped, NotesTyped, Unchanged
<1>6. TableTyped'
  BY <1>2, <1>3, <1>4, <1>5 DEF TableTyped, StoreTyped, RequestsTyped
<1>7. BrowserInv(c)'
  <2>1. /\ page'[c].fetch = "shown" /\ page'[c].error /\ page'[c].rows = page[c].rows
        /\ page'[c].selected = page[c].selected
    BY <1>1, <1>3 DEF TableTyped, PagesTyped, PageState
  <2>2. FewerToMove(c)
    BY <1>2 DEF FewerToMove
  <2>3. MoveKnown(c)'
    BY <1>2, <2>2, MoveStays DEF TableInv, BrowserInv, Unchanged
  <2>4. ListsFit(c)' /\ AnswerKnown(c)'
    BY <2>1 DEF ListsFit, AnswerKnown, TableInv, BrowserInv
  <2>5. ~Fresh(c)'
    BY <2>1 DEF Fresh
  <2>6. TicksTrue(c)'
    BY <1>1, <1>2, <2>1 DEF TicksTrue, TableInv, BrowserInv
  <2> QED BY <2>3, <2>4, <2>5, <2>6 DEF BrowserInv, RowsTrue, SavesApart, IdsTrue
<1>8. ASSUME NEW b \in Browsers, b # c  PROVE BrowserInv(b)'
  <2>1. Quiet(b)
    BY <1>1, <1>2, <1>3, <1>8 DEF Quiet, SavesOf, PartsOf, TableTyped, PagesTyped
  <2> QED BY <1>2, <2>1, QuietStays DEF TableInv, Unchanged
<1> QED BY <1>6, <1>7, <1>8 DEF TableInv

LEMMA TickKeeps ==
  ASSUME TableAssumption, TableInv, NEW c \in Browsers, Tick(c)
  PROVE  TableInv'
<1>1. PICK r \in Shown(c) :
        /\ page' = [page EXCEPT ![c].selected = @ \union {r}]
        /\ early' = [early EXCEPT ![c] = @ \/ page[c].fetch # "shown"]
  BY DEF Tick
<1>2. Unchanged /\ UNCHANGED <<stored, waiting, saves, parts, move, asks, faults>>
  BY DEF Tick
<1>3. TableTyped /\ page[c] \in PageState /\ r \in Rows
  BY PageShape DEF TableInv
<1>4. PagesTyped'
  <2>1. [page[c] EXCEPT !.selected = @ \union {r}] \in PageState
    BY <1>3 DEF PageState
  <2> QED BY <1>1, <1>3, <2>1 DEF TableTyped, PagesTyped
<1>5. NotesTyped'
  <2>1. early' \in [Browsers -> BOOLEAN]
    BY <1>1, <1>3 DEF TableTyped, NotesTyped
  <2> QED BY <1>2, <1>3, <2>1 DEF TableTyped, NotesTyped, Unchanged
<1>6. TableTyped'
  BY <1>2, <1>3, <1>4, <1>5 DEF TableTyped, StoreTyped, RequestsTyped
<1>7. BrowserInv(c)'
  <2>1. /\ page'[c] = [page[c] EXCEPT !.selected = @ \union {r}]
        /\ early'[c] = (early[c] \/ page[c].fetch # "shown")
    BY <1>1, <1>3 DEF TableTyped, PagesTyped, NotesTyped
  <2>2. SameScreen(c) /\ page'[c].selected = page[c].selected \union {r}
    BY <1>3, <2>1 DEF SameScreen, PageState
  <2>3. FewerToMove(c)
    BY <1>2 DEF FewerToMove
  <2>4. MoveKnown(c)'
    BY <1>2, <2>3, MoveStays DEF TableInv, BrowserInv, Unchanged
  <2>5. TicksTrue(c)'
    <3>1. Shown(c)' = Shown(c) /\ page'[c].fetch = page[c].fetch
      BY <2>2 DEF Shown, SameScreen
    <3> HIDE DEF Shown
    <3> QED BY <2>1, <2>2, <3>1 DEF TicksTrue, TableInv, BrowserInv
  <2>6. SavesOf(c)' = SavesOf(c) /\ Own(c)' = Own(c) /\ excused' = excused
    BY <1>2 DEF SavesOf, Own, PartsOf, Moved, Unchanged
  <2> QED BY <1>2, <2>2, <2>4, <2>5, <2>6, CalmStays DEF TableInv, Unchanged
<1>8. ASSUME NEW b \in Browsers, b # c  PROVE BrowserInv(b)'
  <2>1. Quiet(b)
    BY <1>1, <1>2, <1>3, <1>8 DEF Quiet, SavesOf, PartsOf, TableTyped, PagesTyped, NotesTyped
  <2> QED BY <1>2, <2>1, QuietStays DEF TableInv, Unchanged
<1> QED BY <1>6, <1>7, <1>8 DEF TableInv

-----------------------------------------------------------------------------
(* One field.                                                               *)

\* A field that is edited, and a value of it.
Fits(key, value) ==
  \/ key = "season" /\ value \in Seasons
  \/ key = "status" /\ value \in Statuses
  \/ key = "relationship" /\ value \in Kins

LEMMA SaveFields ==
  ASSUME NEW s \in SaveRequests
  PROVE  /\ s.by \in Browsers /\ s.id \in Rows /\ Fits(s.key, s.value) /\ Fits(s.key, s.prev)
         /\ s.filtered \in BOOLEAN /\ s.done \in BOOLEAN
         /\ [s EXCEPT !.done = TRUE] \in SaveRequests
<1>1. CASE s \in SaveOf("season", Seasons)
  BY <1>1 DEF SaveOf, SaveRequests, Fits
<1>2. CASE s \in SaveOf("status", Statuses)
  BY <1>2 DEF SaveOf, SaveRequests, Fits
<1>3. CASE s \in SaveOf("relationship", Kins)
  BY <1>3 DEF SaveOf, SaveRequests, Fits
<1> QED BY <1>1, <1>2, <1>3 DEF SaveRequests

\* A save that is stored is the same save.
LEMMA SaveDone ==
  ASSUME NEW s \in SaveRequests
  PROVE  LET t == [s EXCEPT !.done = TRUE] IN
         /\ t.by = s.by /\ t.id = s.id /\ t.key = s.key /\ t.value = s.value /\ t.prev = s.prev
         /\ t.filtered = s.filtered /\ t.done = TRUE
<1>1. \A k, V : s \in SaveOf(k, V) =>
        LET t == [s EXCEPT !.done = TRUE] IN
         /\ t.by = s.by /\ t.id = s.id /\ t.key = s.key /\ t.value = s.value /\ t.prev = s.prev
         /\ t.filtered = s.filtered /\ t.done = TRUE
  BY DEF SaveOf
<1> QED BY <1>1 DEF SaveRequests

LEMMA EditFits ==
  ASSUME NEW d \in Row, NEW e \in Edits(d), NEW b \in Browsers, NEW id \in Rows, NEW f \in BOOLEAN
  PROVE  /\ Fits(e[1], e[2])
         /\ [by |-> b, id |-> id, key |-> e[1], value |-> e[2], prev |-> d[e[1]], filtered |-> f,
             done |-> FALSE] \in SaveRequests
<1>1. \/ e[1] = "season" /\ e[2] \in Seasons
      \/ e[1] = "status" /\ e[2] \in Statuses
      \/ e[1] = "relationship" /\ e[2] \in Kins
  BY DEF Edits
<1>2. d["season"] \in Seasons /\ d["status"] \in Statuses /\ d["relationship"] \in Kins
  BY DEF Row
<1> QED BY <1>1, <1>2 DEF Fits, SaveRequests, SaveOf

\* A row with one field written.
LEMMA FieldWritten ==
  ASSUME NEW d \in Row, NEW key, NEW value,
         Fits(key, value) \/ (key = "relationshipOther" /\ value \in BOOLEAN)
  PROVE  /\ [d EXCEPT ![key] = value] \in Row /\ key \in DOMAIN d
         /\ [d EXCEPT ![key] = value][key] = value
BY DEF Fits, Row

LEMMA PatchedRows ==
  ASSUME NEW rs \in Seq(PageRow), NEW id, NEW key, NEW value,
         Fits(key, value) \/ (key = "relationshipOther" /\ value \in BOOLEAN)
  PROVE  LET ps == Patched(rs, id, key, value) IN
         /\ ps \in Seq(PageRow) /\ DOMAIN ps = DOMAIN rs /\ Len(ps) = Len(rs) /\ Ids(ps) = Ids(rs)
         /\ \A i \in DOMAIN rs :
              /\ ps[i].id = rs[i].id
              /\ ps[i].data = IF rs[i].id = id THEN [rs[i].data EXCEPT ![key] = value] ELSE rs[i].data
<1> DEFINE ps == Patched(rs, id, key, value)
<1>1. DOMAIN rs = 1..Len(rs) /\ Len(rs) \in Nat
  BY LenProperties
<1>2. DOMAIN ps = DOMAIN rs
  BY DEF Patched
<1>3. ASSUME NEW i \in DOMAIN rs
      PROVE  /\ ps[i] \in PageRow /\ ps[i].id = rs[i].id
             /\ ps[i].data = IF rs[i].id = id THEN [rs[i].data EXCEPT ![key] = value] ELSE rs[i].data
  <2>1. rs[i] \in PageRow
    BY <1>1, ElementOfSeq
  <2>2. rs[i].id \in Rows /\ rs[i].data \in Row
    BY <2>1 DEF PageRow
  <2>3. [rs[i].data EXCEPT ![key] = value] \in Row
    BY <2>2, FieldWritten
  <2>4. ps[i] = IF rs[i].id = id THEN [rs[i] EXCEPT !.data[key] = value] ELSE rs[i]
    BY DEF Patched
  <2>5. CASE rs[i].id = id
    <3>1. ps[i] = [rs[i] EXCEPT !.data = [rs[i].data EXCEPT ![key] = value]]
      BY <2>4, <2>5
    <3> HIDE DEF ps
    <3> QED BY <2>1, <2>2, <2>3, <2>5, <3>1 DEF PageRow
  <2>6. CASE rs[i].id # id
    BY <2>1, <2>4, <2>6
  <2> QED BY <2>5, <2>6
<1> HIDE DEF ps
<1>4. ps \in Seq(PageRow) /\ Len(ps) = Len(rs)
  <2>1. ps = [i \in 1..Len(rs) |-> ps[i]]
    BY <1>1, <1>2 DEF ps, Patched
  <2>2. ps \in [1..Len(rs) -> PageRow]
    BY <1>1, <1>2, <1>3, <2>1
  <2>3. ps \in Seq(PageRow)
    BY <1>1, <2>2, SeqDef
  <2> QED BY <1>1, <2>2, <2>3, LenProperties
<1>5. Ids(ps) = Ids(rs)
  BY <1>2, <1>3 DEF Ids
<1> QED BY <1>2, <1>3, <1>4, <1>5 DEF ps

\* A page whose rows but one are as they were.
Rewritten(b, id) ==
  /\ page'[b].view = page[b].view /\ page'[b].fetch = page[b].fetch
  /\ page'[b].answer = page[b].answer /\ page'[b].error = page[b].error
  /\ page'[b].selected = page[b].selected
  /\ DOMAIN page'[b].rows = DOMAIN page[b].rows /\ Len(page'[b].rows) = Len(page[b].rows)
  /\ \A i \in DOMAIN page[b].rows :
       /\ page'[b].rows[i].id = page[b].rows[i].id
       /\ page[b].rows[i].id # id => page'[b].rows[i].data = page[b].rows[i].data

\* A page with one field of a row written.
Patches(b, id, key, value) == page'[b] = [page[b] EXCEPT !.rows = Patched(@, id, key, value)]

LEMMA PatchRewrites ==
  ASSUME TableTyped, NEW b \in Browsers, NEW id, NEW key, NEW value,
         Fits(key, value) \/ (key = "relationshipOther" /\ value \in BOOLEAN),
         Patches(b, id, key, value)
  PROVE  /\ Rewritten(b, id) /\ page'[b] \in PageState
         /\ \A i \in DOMAIN page[b].rows : page[b].rows[i].id = id =>
              page'[b].rows[i].data = [page[b].rows[i].data EXCEPT ![key] = value]
<1> DEFINE rs == page[b].rows
           ps == Patched(rs, id, key, value)
<1>1. rs \in Seq(PageRow)
  BY PageShape
<1>2. /\ DOMAIN ps = DOMAIN rs /\ Len(ps) = Len(rs)
      /\ \A i \in DOMAIN rs :
           /\ ps[i].id = rs[i].id
           /\ ps[i].data = IF rs[i].id = id THEN [rs[i].data EXCEPT ![key] = value] ELSE rs[i].data
  <2> HIDE DEF rs
  <2> QED BY <1>1, PatchedRows
<1>3. /\ page'[b].view = page[b].view /\ page'[b].fetch = page[b].fetch
      /\ page'[b].answer = page[b].answer /\ page'[b].error = page[b].error
      /\ page'[b].selected = page[b].selected /\ page'[b].rows = ps /\ page'[b] \in PageState
  <2>1. ps \in Seq(PageRow)
    <3> HIDE DEF rs
    <3> QED BY <1>1, PatchedRows
  <2>2. page'[b] = [page[b] EXCEPT !.rows = ps] /\ page[b] \in PageState
    BY PageShape DEF Patches
  <2> HIDE DEF ps
  <2> QED BY <2>1, <2>2 DEF PageState
<1> HIDE DEF ps
<1> QED BY <1>2, <1>3 DEF Rewritten

\* What of a page stays when it rewrites a row: all but what it says of the row.
LEMMA RewrittenStays ==
  ASSUME NEW b \in Browsers, BrowserInv(b), NEW id, Rewritten(b, id),
         early'[b] = early[b], move' = move, stored' = stored, since' = since, raced' = raced
  PROVE  /\ ListsFit(b)' /\ AnswerKnown(b)' /\ TicksTrue(b)' /\ MoveKnown(b)'
         /\ Fresh(b)' = Fresh(b) /\ Shown(b)' = Shown(b)
         /\ \A ts : SameIds(page[b].rows, ts) => SameIds(page'[b].rows, ts)
<1>1. ListsFit(b)'
  BY DEF Rewritten, BrowserInv, ListsFit, ListFits
<1>2. AnswerKnown(b)'
  BY DEF Rewritten, BrowserInv, AnswerKnown
<1>3. Shown(b)' = Shown(b)
  BY DEF Rewritten, Shown, Ids
<1>4. TicksTrue(b)'
  <2> HIDE DEF Shown
  <2> QED BY <1>3 DEF Rewritten, BrowserInv, TicksTrue
<1>5. MoveKnown(b)'
  <2>1. FewerToMove(b)
    BY DEF FewerToMove
  <2> QED BY <2>1, MoveStays DEF BrowserInv
<1>6. Fresh(b)' = Fresh(b)
  BY DEF Rewritten, Fresh
<1>7. \A ts : SameIds(page[b].rows, ts) => SameIds(page'[b].rows, ts)
  BY DEF Rewritten, SameIds
<1> QED BY <1>1, <1>2, <1>3, <1>4, <1>5, <1>6, <1>7

LEMMA AskSaveKeeps ==
  ASSUME TableAssumption, TableInv, NEW c \in Browsers, AskSave(c)
  PROVE  TableInv'
<1>1. PICK k \in DOMAIN page[c].rows : \E e \in Edits(page[c].rows[k].data) :
        /\ Ask
        /\ saves' = saves \union {[by |-> c, id |-> page[c].rows[k].id, key |-> e[1], value |-> e[2],
                                   prev |-> page[c].rows[k].data[e[1]],
                                   filtered |-> Filtered(page[c].view), done |-> FALSE]}
        /\ page' = [page EXCEPT ![c].rows = Patched(@, page[c].rows[k].id, e[1], e[2])]
        /\ Excuse(c, {s.id : s \in {t \in SavesOf(c) : t.id = page[c].rows[k].id}})
  BY DEF AskSave
<1> DEFINE rs == page[c].rows
           r == rs[k]
<1>2. PICK e \in Edits(r.data) :
        /\ Ask
        /\ saves' = saves \union {[by |-> c, id |-> r.id, key |-> e[1], value |-> e[2], prev |-> r.data[e[1]],
                                   filtered |-> Filtered(page[c].view), done |-> FALSE]}
        /\ page' = [page EXCEPT ![c].rows = Patched(@, r.id, e[1], e[2])]
        /\ Excuse(c, {s.id : s \in {t \in SavesOf(c) : t.id = r.id}})
  BY <1>1
<1> DEFINE n == [by |-> c, id |-> r.id, key |-> e[1], value |-> e[2], prev |-> r.data[e[1]],
                 filtered |-> Filtered(page[c].view), done |-> FALSE]
           crossed == {s.id : s \in {t \in SavesOf(c) : t.id = r.id}}
           ps == Patched(rs, r.id, e[1], e[2])
<1>3. UNCHANGED <<stored, waiting, parts, move, faults, early>>
  BY DEF AskSave
<1>4. TableTyped /\ page[c] \in PageState /\ rs \in Seq(PageRow) /\ r.id \in Rows /\ r.data \in Row
  BY PageShape DEF TableInv
<1>5. Fits(e[1], e[2]) /\ n \in SaveRequests
  <2>1. Filtered(page[c].view) \in BOOLEAN
    BY <1>4, PageShape DEF Filtered, View
  <2> HIDE DEF rs, r
  <2> QED BY <1>4, <2>1, EditFits
<1>6. page'[c] = [page[c] EXCEPT !.rows = ps] /\ \A b \in Browsers \ {c} : page'[b] = page[b]
  BY <1>2, <1>4 DEF TableTyped, PagesTyped
<1>7. saves' = saves \union {n} /\ excused' = [excused EXCEPT ![c] = @ \union crossed]
      /\ UNCHANGED <<since, raced>>
  BY <1>2 DEF Excuse
<1>8. crossed \in SUBSET Rows
  BY <1>4
<1>9. excused'[c] = excused[c] \union crossed /\ \A b \in Browsers \ {c} : excused'[b] = excused[b]
  BY <1>4, <1>7 DEF TableTyped, NotesTyped
<1>10. n.by = c /\ n.id = r.id /\ n.key = e[1] /\ n.value = e[2] /\ n.prev = r.data[e[1]]
       /\ n.filtered = Filtered(page[c].view) /\ n.done = FALSE
  OBVIOUS
<1>11. /\ Rewritten(c, r.id) /\ page'[c] \in PageState
       /\ \A i \in DOMAIN rs : rs[i].id = r.id =>
            page'[c].rows[i].data = [rs[i].data EXCEPT ![e[1]] = e[2]]
  <2>0. PICK id, key, value : id = r.id /\ key = e[1] /\ value = e[2]
    OBVIOUS
  <2>1. Patches(c, id, key, value) /\ Fits(key, value)
    BY <1>5, <1>6, <2>0 DEF Patches
  <2> HIDE DEF rs, r, n, crossed, ps
  <2>2. /\ Rewritten(c, id) /\ page'[c] \in PageState
        /\ \A i \in DOMAIN page[c].rows : page[c].rows[i].id = id =>
             page'[c].rows[i].data = [page[c].rows[i].data EXCEPT ![key] = value]
    BY <1>4, <2>1, PatchRewrites
  <2> USE DEF rs, r
  <2> QED BY <2>0, <2>2
<1> DEFINE qs == page'[c].rows
<1> HIDE DEF n
<1>12. TableTyped'
  <2>1. PagesTyped'
    <3> DEFINE w == [page[c] EXCEPT !.rows = ps]
    <3>1. page' = [page EXCEPT ![c] = w] /\ w \in PageState
      BY <1>2, <1>6, <1>11
    <3> HIDE DEF w
    <3> QED BY <1>4, <3>1 DEF TableTyped, PagesTyped
  <2>2. RequestsTyped'
    BY <1>3, <1>4, <1>5, <1>7 DEF TableTyped, RequestsTyped
  <2>3. asks' \in 0..MaxAsks
    BY <1>2, <1>4, AskTyped DEF TableTyped
  <2> HIDE DEF crossed
  <2>4. NotesTyped'
    BY <1>3, <1>4, <1>7, <1>8, <2>3 DEF TableTyped, NotesTyped
  <2> QED BY <1>3, <1>4, <2>1, <2>2, <2>4 DEF TableTyped, StoreTyped
<1>13. BrowserInv(c)'
  <2>1. /\ ListsFit(c)' /\ AnswerKnown(c)' /\ TicksTrue(c)' /\ MoveKnown(c)'
        /\ Fresh(c)' = Fresh(c) /\ Shown(c)' = Shown(c)
        /\ \A ts : SameIds(rs, ts) => SameIds(qs, ts)
    <3> HIDE DEF r
    <3> QED BY <1>3, <1>7, <1>11, RewrittenStays DEF TableInv
  <2>0. /\ DOMAIN qs = DOMAIN rs /\ page'[c].view = page[c].view
        /\ \A i \in DOMAIN rs :
             /\ qs[i].id = rs[i].id
             /\ rs[i].id # r.id => qs[i].data = rs[i].data
             /\ rs[i].id = r.id => qs[i].data = [rs[i].data EXCEPT ![e[1]] = e[2]]
    BY <1>11 DEF Rewritten
  <2>2. SavesOf(c)' = SavesOf(c) \union {n} /\ Own(c)' = Own(c)
    BY <1>3, <1>7, <1>10 DEF SavesOf, Own, Moved, PartsOf
  <2>3. r.id \in Shown(c)
    BY DEF Shown, Ids
  <2>4. \A s \in SavesOf(c) : s.id = r.id => r.id \in crossed
    OBVIOUS
  <2> HIDE DEF crossed, qs
  <2>5. RowsTrue(c)'
    <3> HIDE DEF Own, Fresh
    <3> SUFFICES ASSUME Fresh(c), NEW i \in DOMAIN rs, qs[i].id \notin excused'[c] \union Own(c)
                 PROVE  RowTrue(stored, SavesOf(c) \union {n}, qs[i])
      BY <1>3, <2>0, <2>1, <2>2 DEF RowsTrue, qs
    <3>1. rs[i].id = qs[i].id /\ rs[i].id \notin excused[c] \union Own(c)
      BY <1>9, <2>0
    <3>2. RowTrue(stored, SavesOf(c), rs[i])
      BY <3>1 DEF TableInv, BrowserInv, RowsTrue
    <3>3. CASE rs[i].id # r.id
      <4>1. qs[i].data = rs[i].data
        BY <2>0, <3>3
      <4> QED BY <1>10, <3>1, <3>2, <3>3, <4>1 DEF RowTrue, Ahead
    <3>4. CASE rs[i].id = r.id
      <4>1. \A s \in SavesOf(c) : s.id # r.id
        BY <1>9, <2>4, <3>1, <3>4
      <4>2. stored[r.id] = r.data /\ r.id \in DOMAIN stored /\ i = k
        <5>1. i = k
          BY <3>4 DEF TableInv, BrowserInv, ListsFit, ListFits
        <5> QED BY <3>2, <3>4, <4>1, <5>1 DEF RowTrue
      <4>3. qs[i].data = [r.data EXCEPT ![e[1]] = e[2]]
        BY <2>0, <3>4, <4>2
      <4> HIDE DEF r
      <4>4. Ahead(stored, qs[i], n)
        BY <1>10, <3>1, <3>4, <4>2, <4>3 DEF Ahead
      <4> QED BY <1>10, <3>1, <3>4, <4>1, <4>2, <4>4 DEF RowTrue
    <3> QED BY <3>3, <3>4
  <2>6. SavesApart(c)'
    <3> HIDE DEF SavesOf, Shown, Fresh, r
    <3> SUFFICES ASSUME Fresh(c), NEW s \in SavesOf(c) \union {n}, s.id \notin excused'[c]
                 PROVE  /\ s.id \in Shown(c) /\ s.filtered = Filtered(page[c].view)
                        /\ \A t \in SavesOf(c) \union {n} : t.id = s.id => t = s
      BY <2>0, <2>1, <2>2 DEF SavesApart
    <3>1. CASE s = n
      BY <1>9, <1>10, <2>3, <2>4, <3>1
    <3>2. CASE s # n
      <4>1. s \in SavesOf(c) /\ s.id # r.id
        BY <1>9, <2>4, <3>2
      <4> QED BY <1>9, <1>10, <4>1 DEF TableInv, BrowserInv, SavesApart
    <3> QED BY <3>1, <3>2
  <2>7. IdsTrue(c)'
    <3> HIDE DEF SavesOf, Own, Fresh, r
    <3> SUFFICES ASSUME Fresh(c), excused'[c] = {}, Own(c) = {},
                        \A s \in SavesOf(c) \union {n} : ~(s.done /\ Rereads(s))
                 PROVE  SameIds(qs, ListedIn(stored, page[c].view).rows)
      BY <1>3, <2>0, <2>1, <2>2 DEF IdsTrue, qs
    <3>1. excused[c] = {}
      BY <1>9
    <3>2. SameIds(rs, ListedIn(stored, page[c].view).rows)
      BY <3>1 DEF TableInv, BrowserInv, IdsTrue
    <3> QED BY <2>1, <3>2
  <2> QED BY <2>1, <2>5, <2>6, <2>7 DEF BrowserInv
<1>14. ASSUME NEW b \in Browsers, b # c  PROVE BrowserInv(b)'
  <2>1. Quiet(b)
    BY <1>3, <1>6, <1>7, <1>10, <1>14 DEF Quiet, SavesOf, PartsOf
  <2> QED BY <1>3, <1>7, <1>9, <1>14, <2>1, QuietStays DEF TableInv
<1> QED BY <1>12, <1>13, <1>14 DEF TableInv

\* A save taken from those under way, or replaced: only its browser's change.
LEMMA OthersSaves ==
  ASSUME NEW s \in saves, NEW T, \A t \in T : t.by = s.by, saves' = (saves \ {s}) \union T
  PROVE  /\ \A b \in Browsers \ {s.by} : SavesOf(b)' = SavesOf(b)
         /\ SavesOf(s.by)' = (SavesOf(s.by) \ {s}) \union T
BY DEF SavesOf

LEMMA SaveStoredKeeps ==
  ASSUME TableAssumption, TableInv, SaveStored
  PROVE  TableInv'
<1>1. PICK s \in saves :
        /\ ~s.done /\ s.id \in DOMAIN stored
        /\ stored' = [stored EXCEPT ![s.id] = Edited(@, s.key, s.value)]
        /\ saves' = (saves \ {s}) \union {[s EXCEPT !.done = TRUE]}
        /\ Changed({s.id}, {s.by})
  BY DEF SaveStored
<1>2. UNCHANGED <<waiting, page, parts, move, asks, faults, early>>
  BY DEF SaveStored
<1> DEFINE c == s.by
           u == [s EXCEPT !.done = TRUE]
<1>3. TableTyped /\ s \in SaveRequests
  BY DEF TableInv, TableTyped, RequestsTyped
<1>4. /\ c \in Browsers /\ s.id \in Rows /\ Fits(s.key, s.value) /\ Fits(s.key, s.prev) /\ u \in SaveRequests
      /\ u.by = c /\ u.id = s.id /\ u.key = s.key /\ u.value = s.value /\ u.prev = s.prev
      /\ u.filtered = s.filtered /\ u.done = TRUE
  BY <1>3, SaveFields, SaveDone
<1> HIDE DEF u
<1> DEFINE d == stored[s.id]
           f == [d EXCEPT ![s.key] = s.value]
           g == [f EXCEPT !.relationshipOther = @ /\ ~Cleared(s)]
<1>5. d \in Row
  BY <1>1, <1>3 DEF TableTyped, StoreTyped
<1>6. Edited(d, s.key, s.value) = g /\ g \in Row
  <2>1. s.key # "relationshipOther" /\ d.relationshipOther \in BOOLEAN /\ Cleared(s) \in BOOLEAN
    BY <1>4, <1>5 DEF Fits, Row, Cleared
  <2>2. f \in Row /\ f.relationshipOther = d.relationshipOther
    BY <1>4, <1>5, <2>1 DEF Fits, Row
  <2>3. Edited(d, s.key, s.value) = [d EXCEPT ![s.key] = s.value,
                                             !.relationshipOther = d.relationshipOther /\ ~Cleared(s)]
    BY DEF Edited, Cleared
  <2> HIDE DEF d
  <2>4. [d EXCEPT ![s.key] = s.value, !.relationshipOther = d.relationshipOther /\ ~Cleared(s)] = g
    BY <2>2
  <2>5. g \in Row
    <3> HIDE DEF f
    <3> QED BY <2>1, <2>2 DEF Row
  <2> QED BY <2>3, <2>4, <2>5
<1> HIDE DEF g
<1>7. /\ DOMAIN stored' = DOMAIN stored /\ stored'[s.id] = g
      /\ \A r \in DOMAIN stored : r # s.id => stored'[r] = stored[r]
  <2>1. stored' = [stored EXCEPT ![s.id] = g]
    BY <1>1, <1>6
  <2> QED BY <1>1, <2>1
<1>8. StoreTyped'
  BY <1>1, <1>2, <1>3, <1>6, <1>7 DEF TableTyped, StoreTyped
<1>9. NotesTyped'
  BY <1>1, <1>2, <1>3, <1>4, ChangedTyped DEF TableTyped
<1>10. RequestsTyped'
  BY <1>1, <1>2, <1>3, <1>4 DEF TableTyped, RequestsTyped, u
<1>11. TableTyped'
  BY <1>2, <1>3, <1>8, <1>9, <1>10 DEF TableTyped, PagesTyped
<1>12. Touched({s.id})
  BY <1>7 DEF Touched
<1>13. /\ \A b \in Browsers \ {c} : SavesOf(b)' = SavesOf(b)
       /\ SavesOf(c)' = (SavesOf(c) \ {s}) \union {u}
  <2>1. saves' = (saves \ {s}) \union {u}
    BY <1>1 DEF u
  <2> QED BY <1>4, <2>1, OthersSaves
<1>14. ASSUME NEW b \in Browsers, b # c  PROVE BrowserInv(b)'
  <2>1. Quiet(b)
    BY <1>2, <1>13, <1>14 DEF Quiet, PartsOf
  <2>2. Noted(b, {s.id}) /\ excused'[b] = excused[b] \union {s.id}
    BY <1>1, <1>14, ChangedNotes
  <2> QED BY <1>3, <1>4, <1>12, <2>1, <2>2, QuietTouched DEF TableInv
<1>15. BrowserInv(c)'
  <2>1. Noted(c, {s.id}) /\ excused'[c] = excused[c]
    BY <1>1, <1>4, ChangedNotes
  <2>2. SameScreen(c) /\ SameTicks(c) /\ FewerToMove(c)
    BY <1>2 DEF SameScreen, SameTicks, FewerToMove
  <2>3. ListsFit(c)' /\ TicksTrue(c)'
    BY <1>2, <1>4, <2>2, TicksStay DEF TableInv, BrowserInv, ListsFit
  <2>4. AnswerKnown(c)' /\ MoveKnown(c)'
    BY <1>3, <1>4, <1>12, <2>1, <2>2, AnswerTouched, MoveTouched DEF TableInv
  <2>5. Own(c)' = Own(c) /\ Fresh(c)' = Fresh(c) /\ Shown(c)' = Shown(c)
    BY <1>2 DEF Own, Moved, PartsOf, Fresh, Shown
  <2>6. s \in SavesOf(c)
    BY DEF SavesOf
  <2> HIDE DEF c, Own, Fresh, Shown
  <2>7. Fresh(c) /\ s.id \notin excused[c] =>
          /\ s.id \in Shown(c) /\ s.filtered = Filtered(page[c].view)
          /\ \A t \in SavesOf(c) : t.id = s.id => t = s
    BY <1>4, <2>6 DEF TableInv, BrowserInv, SavesApart
  <2> HIDE DEF SavesOf
  <2>8. RowsTrue(c)'
    <3> SUFFICES ASSUME Fresh(c), NEW i \in DOMAIN page[c].rows,
                        page[c].rows[i].id \notin excused[c] \union Own(c)
                 PROVE  RowTrue(stored', SavesOf(c)', page[c].rows[i])
      BY <1>2, <2>1, <2>5 DEF RowsTrue
    <3> DEFINE r == page[c].rows[i]
    <3>1. RowTrue(stored, SavesOf(c), r)
      BY <1>4 DEF TableInv, BrowserInv, RowsTrue
    <3>2. r.id \in Rows /\ r.id \notin excused[c]
      BY <1>3, <1>4, PageShape
    <3> HIDE DEF r
    <3>3. CASE r.id # s.id
      <4>1. stored'[r.id] = stored[r.id]
        BY <1>7, <3>1, <3>3 DEF RowTrue
      <4>2. \A t \in SavesOf(c)' : t.id = r.id => t \in SavesOf(c)
        BY <1>4, <1>13, <3>3
      <4>3. \A t \in SavesOf(c) : t.id = r.id => t \in SavesOf(c)'
        BY <1>4, <1>13, <3>3
      <4> QED BY <1>7, <3>1, <4>1, <4>2, <4>3 DEF RowTrue, Ahead, r
    <3>4. CASE r.id = s.id
      <4>1. Ahead(stored, r, s)
        BY <2>6, <3>1, <3>4 DEF RowTrue
      <4>2. r.data = f
        BY <1>1, <3>4, <4>1 DEF Ahead
      <4>3. Ahead(stored', r, u)
        <5>1. stored'[r.id] = [r.data EXCEPT !.relationshipOther = @ /\ ~Cleared(s)]
          BY <1>7, <3>4, <4>2 DEF g
        <5>2. Cleared(u) = Cleared(s)
          BY <1>4 DEF Cleared
        <5> QED BY <1>4, <5>1, <5>2 DEF Ahead
      <4>4. \A t \in SavesOf(c)' : t.id = r.id => t = u
        BY <1>13, <2>7, <3>2, <3>4
      <4>5. u \in SavesOf(c)' /\ u.id = r.id
        BY <1>4, <1>13, <3>4
      <4> QED BY <1>7, <3>1, <4>3, <4>4, <4>5 DEF RowTrue, r
    <3> QED BY <3>3, <3>4
  <2>9. SavesApart(c)'
    <3> SUFFICES ASSUME Fresh(c), NEW t \in SavesOf(c)', t.id \notin excused[c]
                 PROVE  /\ t.id \in Shown(c) /\ t.filtered = Filtered(page[c].view)
                        /\ \A t2 \in SavesOf(c)' : t2.id = t.id => t2 = t
      BY <1>2, <2>1, <2>5 DEF SavesApart
    <3>1. CASE t.id = s.id
      BY <1>4, <1>13, <2>7, <3>1
    <3>2. CASE t.id # s.id
      <4>1. t \in SavesOf(c)
        BY <1>4, <1>13, <3>2
      <4> QED BY <1>4, <1>13, <3>2, <4>1 DEF TableInv, BrowserInv, SavesApart
    <3> QED BY <3>1, <3>2
  <2>10. IdsTrue(c)'
    <3> SUFFICES ASSUME Fresh(c), excused[c] = {}, Own(c) = {},
                        \A t \in SavesOf(c)' : ~(t.done /\ Rereads(t))
                 PROVE  SameIds(page[c].rows, ListedIn(stored', page[c].view).rows)
      BY <1>2, <2>1, <2>5 DEF IdsTrue
    <3>1. ~Rereads(s)
      BY <1>4, <1>13 DEF Rereads
    <3>2. \A t \in SavesOf(c) : ~(t.done /\ Rereads(t))
      BY <1>1, <1>13, <3>1
    <3>3. SameIds(page[c].rows, ListedIn(stored, page[c].view).rows)
      BY <1>4, <3>2 DEF TableInv, BrowserInv, IdsTrue
    <3>4. s.filtered = Filtered(page[c].view)
      BY <2>7
    <3> DEFINE v == page[c].view
    <3>5. v \in View
      BY <1>3, <1>4, PageShape
    <3>6. Matches(v, g) = Matches(v, d)
      <4>1. f \in Row /\ f["season"] = f.season /\ f["status"] = f.status
        BY <1>4, <1>5, FieldWritten DEF Row
      <4>2. g.season = f.season /\ g.archived = f.archived /\ g.status = f.status
        <5> HIDE DEF f
        <5> QED BY <4>1 DEF g, Row
      <4>3. CASE s.key = "relationship"
        <5>1. f.season = d.season /\ f.archived = d.archived /\ f.status = d.status
          BY <1>5, <4>3 DEF Row
        <5> QED BY <4>2, <5>1 DEF Matches
      <4>4. CASE s.key = "status" /\ ~s.filtered
        <5>1. f.season = d.season /\ f.archived = d.archived
          BY <1>5, <4>4 DEF Row
        <5>2. v.status = Nothing
          BY <3>4, <4>4 DEF Filtered
        <5> QED BY <4>2, <5>1, <5>2 DEF Matches
      <4> QED BY <1>4, <3>1, <4>3, <4>4 DEF Fits, Rereads
    <3>7. FoundIn(stored', v) = FoundIn(stored, v)
      <4>1. \A i \in DOMAIN Newest : Newest[i] \in Rows
        BY NewestIs
      <4> HIDE DEF v, f
      <4>2. ASSUME NEW i \in DOMAIN Newest, Newest[i] \in DOMAIN stored
            PROVE  Matches(v, stored'[Newest[i]]) = Matches(v, stored[Newest[i]])
        BY <1>7, <3>6, <4>1, <4>2
      <4> QED BY <1>7, <4>2 DEF FoundIn
    <3> HIDE DEF v
    <3>8. SameIds(ListedIn(stored, v).rows, ListedIn(stored', v).rows)
      BY <3>7, ListedIds
    <3> QED BY <3>3, <3>8 DEF SameIds, v
  <2> QED BY <2>3, <2>4, <2>8, <2>9, <2>10 DEF BrowserInv
<1> QED BY <1>11, <1>14, <1>15, <1>4 DEF TableInv

\* A page whose save of a row has ended, and that shows the row as it is stored.
LEMMA SaveEnds ==
  ASSUME TableTyped, NEW s \in saves, s.by \in Browsers, BrowserInv(s.by),
         saves' = saves \ {s}, UNCHANGED <<stored, parts, move, since, raced>>,
         Rewritten(s.by, s.id), early'[s.by] = early[s.by], excused[s.by] \subseteq excused'[s.by],
         s.done /\ Rereads(s) => s.id \in excused'[s.by],
         \A i \in DOMAIN page[s.by].rows :
           /\ page[s.by].rows[i].id = s.id /\ s.id \notin excused'[s.by]
           /\ s.id \in DOMAIN stored /\ Ahead(stored, page[s.by].rows[i], s)
           => page'[s.by].rows[i].data = stored[s.id]
  PROVE  BrowserInv(s.by)'
<1> DEFINE c == s.by
           rs == page[c].rows
           ps == page'[c].rows
<1>2. /\ DOMAIN ps = DOMAIN rs /\ page'[c].view = page[c].view
      /\ \A i \in DOMAIN rs :
           ps[i].id = rs[i].id /\ (rs[i].id # s.id => ps[i].data = rs[i].data)
  BY DEF Rewritten
<1>3. /\ ListsFit(c)' /\ AnswerKnown(c)' /\ TicksTrue(c)' /\ MoveKnown(c)'
      /\ Fresh(c)' = Fresh(c) /\ Shown(c)' = Shown(c)
      /\ \A ts : SameIds(rs, ts) => SameIds(ps, ts)
  BY RewrittenStays
<1>4. SavesOf(c)' = SavesOf(c) \ {s} /\ Own(c)' = Own(c) /\ s \in SavesOf(c)
  BY DEF SavesOf, Own, Moved, PartsOf
<1> HIDE DEF SavesOf, Own, Fresh, Shown, ps
<1>5. Fresh(c) /\ s.id \notin excused[c] => \A t \in SavesOf(c) : t.id = s.id => t = s
  BY <1>4 DEF BrowserInv, SavesApart
<1>6. RowsTrue(c)'
  <2> SUFFICES ASSUME Fresh(c), NEW i \in DOMAIN rs, ps[i].id \notin excused'[c] \union Own(c)
               PROVE  RowTrue(stored, SavesOf(c) \ {s}, ps[i])
    BY <1>2, <1>3, <1>4 DEF RowsTrue, ps
  <2>1. ps[i].id = rs[i].id /\ rs[i].id \notin excused[c] \union Own(c)
    BY <1>2
  <2>2. RowTrue(stored, SavesOf(c), rs[i])
    BY <2>1 DEF BrowserInv, RowsTrue
  <2>3. CASE rs[i].id # s.id
    <3>1. ps[i].data = rs[i].data
      BY <1>2, <2>3
    <3> QED BY <2>1, <2>2, <2>3, <3>1 DEF RowTrue, Ahead
  <2>4. CASE rs[i].id = s.id
    <3>1. Ahead(stored, rs[i], s) /\ rs[i].id \in DOMAIN stored
      BY <1>4, <2>2, <2>4 DEF RowTrue
    <3>2. ps[i].data = stored[s.id]
      BY <2>1, <2>4, <3>1 DEF ps
    <3>3. \A t \in SavesOf(c) \ {s} : t.id # s.id
      BY <1>5, <2>1, <2>4
    <3> QED BY <2>1, <2>4, <3>1, <3>2, <3>3 DEF RowTrue
  <2> QED BY <2>3, <2>4
<1>7. SavesApart(c)'
  <2> SUFFICES ASSUME Fresh(c), NEW t \in SavesOf(c) \ {s}, t.id \notin excused'[c]
               PROVE  /\ t.id \in Shown(c) /\ t.filtered = Filtered(page[c].view)
                      /\ \A u \in SavesOf(c) \ {s} : u.id = t.id => u = t
    BY <1>2, <1>3, <1>4 DEF SavesApart
  <2> QED BY DEF BrowserInv, SavesApart
<1>8. IdsTrue(c)'
  <2> SUFFICES ASSUME Fresh(c), excused'[c] = {}, Own(c) = {},
                      \A t \in SavesOf(c) \ {s} : ~(t.done /\ Rereads(t))
               PROVE  SameIds(ps, ListedIn(stored, page[c].view).rows)
    BY <1>2, <1>3, <1>4 DEF IdsTrue, ps
  <2>1. excused[c] = {} /\ ~(s.done /\ Rereads(s))
    OBVIOUS
  <2>2. SameIds(rs, ListedIn(stored, page[c].view).rows)
    BY <2>1 DEF BrowserInv, IdsTrue
  <2> QED BY <1>3, <2>2
<1> QED BY <1>3, <1>6, <1>7, <1>8 DEF BrowserInv

\* A page that has asked for its list again.
LEMMA RefetchStays ==
  ASSUME TableTyped, NEW b \in Browsers, BrowserInv(b), NEW p \in PageState, p.rows = page[b].rows,
         p.view \in View, page'[b] = Refetch(p), MoveKnown(b)'
  PROVE  BrowserInv(b)' /\ page'[b] \in PageState
<1>1. /\ page'[b] \in PageState /\ page'[b].fetch = "asked" /\ page'[b].rows = p.rows
      /\ page'[b].selected = {}
  BY AskedPage DEF Refetch
<1> QED BY <1>1, AskedStays

LEMMA SaveAnsweredKeeps ==
  ASSUME TableAssumption, TableInv, SaveAnswered
  PROVE  TableInv'
<1>1. PICK s \in saves :
        /\ s.done /\ saves' = saves \ {s}
        /\ page' = [page EXCEPT ![s.by] =
             IF Rereads(s) THEN Refetch(page[s.by])
             ELSE IF s.key = "relationship" /\ s.value # Alta
                  THEN [page[s.by] EXCEPT !.rows = Patched(@, s.id, "relationshipOther", FALSE)]
                  ELSE page[s.by]]
        /\ early' = [early EXCEPT ![s.by] = @ /\ ~Rereads(s)]
  BY DEF SaveAnswered
<1>2. Unchanged /\ UNCHANGED <<stored, waiting, parts, move, asks, faults>>
  BY DEF SaveAnswered
<1> DEFINE c == s.by
<1>3. TableTyped /\ s \in SaveRequests /\ c \in Browsers
  <2>1. TableTyped /\ s \in SaveRequests
    BY DEF TableInv, TableTyped, RequestsTyped
  <2> QED BY <2>1, SaveFields
<1>4. page[c] \in PageState /\ page[c].view \in View
  BY <1>3, PageShape
<1> HIDE DEF c
<1>5. PICK q : page' = [page EXCEPT ![c] = q]
        /\ q = IF Rereads(s) THEN Refetch(page[c])
               ELSE IF Cleared(s) THEN [page[c] EXCEPT !.rows = Patched(@, s.id, "relationshipOther", FALSE)]
                    ELSE page[c]
  BY <1>1 DEF c, Cleared
<1>6. page'[c] = q /\ \A b \in Browsers \ {c} : page'[b] = page[b]
  BY <1>3, <1>5 DEF TableTyped, PagesTyped
<1>7. /\ early'[c] = (early[c] /\ ~Rereads(s)) /\ early[c] \in BOOLEAN
      /\ early' \in [Browsers -> BOOLEAN] /\ \A b \in Browsers \ {c} : early'[b] = early[b]
  BY <1>1, <1>3 DEF TableTyped, NotesTyped, c
<1>8. MoveKnown(c)'
  <2>1. FewerToMove(c)
    BY <1>2 DEF FewerToMove
  <2> QED BY <1>2, <1>3, <2>1, MoveStays DEF TableInv, BrowserInv, Unchanged
<1>9. BrowserInv(c)' /\ q \in PageState
  <2>1. CASE Rereads(s)
    <3>1. page'[c] = Refetch(page[c])
      BY <1>5, <1>6, <2>1
    <3>2. BrowserInv(c)' /\ page'[c] \in PageState
      BY <1>3, <1>4, <1>8, <3>1, RefetchStays DEF TableInv
    <3> QED BY <1>6, <3>2
  <2>2. CASE ~Rereads(s)
    <3>1. early'[c] = early[c]
      BY <1>7, <2>2
    <3>2. ASSUME NEW i \in DOMAIN page[c].rows, page[c].rows[i].id = s.id,
                 Ahead(stored, page[c].rows[i], s)
          PROVE  stored[s.id] = [page[c].rows[i].data EXCEPT !.relationshipOther = @ /\ ~Cleared(s)]
      BY <1>1, <3>2 DEF Ahead
    <3>3. \A i \in DOMAIN page[c].rows : page[c].rows[i].data \in Row
      BY <1>3, PageShape
    <3>4. /\ Rewritten(c, s.id) /\ q \in PageState
          /\ \A i \in DOMAIN page[c].rows :
               page[c].rows[i].id = s.id /\ Ahead(stored, page[c].rows[i], s)
               => page'[c].rows[i].data = stored[s.id]
      <4>1. CASE Cleared(s)
        <5>1. Patches(c, s.id, "relationshipOther", FALSE)
          BY <1>5, <1>6, <2>2, <4>1 DEF Patches
        <5>2. PICK id, key, value : id = s.id /\ key = "relationshipOther" /\ value = FALSE
          OBVIOUS
        <5>0. Patches(c, id, key, value) /\ key = "relationshipOther" /\ value \in BOOLEAN
          BY <5>1, <5>2
        <5>3. /\ Rewritten(c, id) /\ page'[c] \in PageState
              /\ \A i \in DOMAIN page[c].rows : page[c].rows[i].id = id =>
                   page'[c].rows[i].data = [page[c].rows[i].data EXCEPT ![key] = value]
          BY <1>3, <5>0, PatchRewrites
        <5>4. ASSUME NEW i \in DOMAIN page[c].rows, page[c].rows[i].id = s.id,
                     Ahead(stored, page[c].rows[i], s)
              PROVE  page'[c].rows[i].data = stored[s.id]
          <6>1. page'[c].rows[i].data = [page[c].rows[i].data EXCEPT !.relationshipOther = FALSE]
            BY <5>2, <5>3, <5>4
          <6>2. page[c].rows[i].data \in Row
            BY <3>3
          <6>3. \A d \in Row : [d EXCEPT !.relationshipOther = @ /\ ~Cleared(s)]
                               = [d EXCEPT !.relationshipOther = FALSE]
            BY <4>1 DEF Row
          <6> QED BY <3>2, <5>4, <6>1, <6>2, <6>3
        <5> QED BY <1>6, <5>2, <5>3, <5>4
      <4>2. CASE ~Cleared(s)
        <5>1. page'[c] = page[c]
          BY <1>5, <1>6, <2>2, <4>2
        <5>2. Rewritten(c, s.id)
          BY <5>1 DEF Rewritten
        <5>3. \A d \in Row : [d EXCEPT !.relationshipOther = @ /\ ~Cleared(s)] = d
          BY <4>2 DEF Row
        <5>4. \A i \in DOMAIN page[c].rows :
               page[c].rows[i].id = s.id /\ Ahead(stored, page[c].rows[i], s)
               => page'[c].rows[i].data = stored[s.id]
          BY <3>2, <3>3, <5>1, <5>3
        <5> QED BY <1>4, <1>6, <5>1, <5>2, <5>4
      <4> QED BY <4>1, <4>2
    <3>5. UNCHANGED <<stored, parts, move, since, raced>> /\ excused' = excused /\ saves' = saves \ {s}
      BY <1>1, <1>2 DEF Unchanged
    <3>6. BrowserInv(s.by)'
      <4> USE DEF c
      <4>1. BrowserInv(s.by)
        BY <1>3 DEF TableInv
      <4> QED BY <1>3, <2>2, <3>1, <3>4, <3>5, <4>1, SaveEnds
    <3> QED BY <3>4, <3>6 DEF c
  <2> QED BY <2>1, <2>2
<1>10. TableTyped'
  <2>1. PagesTyped'
    BY <1>3, <1>5, <1>9 DEF TableTyped, PagesTyped
  <2>2. RequestsTyped'
    BY <1>1, <1>2, <1>3 DEF TableTyped, RequestsTyped
  <2>3. NotesTyped'
    BY <1>2, <1>3, <1>7 DEF TableTyped, NotesTyped, Unchanged
  <2> QED BY <1>2, <1>3, <2>1, <2>2, <2>3 DEF TableTyped, StoreTyped
<1>11. ASSUME NEW b \in Browsers, b # c  PROVE BrowserInv(b)'
  <2>1. Quiet(b)
    BY <1>1, <1>2, <1>6, <1>7, <1>11 DEF Quiet, SavesOf, PartsOf, c
  <2> QED BY <1>2, <2>1, QuietStays DEF TableInv, Unchanged
<1> QED BY <1>9, <1>10, <1>11 DEF TableInv

LEMMA SaveFailsKeeps ==
  ASSUME TableAssumption, TableInv, SaveFails
  PROVE  TableInv'
<1>1. PICK s \in saves :
        /\ IF ~s.done /\ s.id \notin DOMAIN stored THEN UNCHANGED faults ELSE Fault
        /\ saves' = saves \ {s}
        /\ page' = [page EXCEPT ![s.by].rows = Patched(@, s.id, s.key, s.prev)]
        /\ Excuse(s.by, IF s.done THEN {s.id} ELSE {})
  BY DEF SaveFails
<1>2. UNCHANGED <<stored, waiting, parts, move, asks, early>>
  BY DEF SaveFails
<1> DEFINE c == s.by
           lost == IF s.done THEN {s.id} ELSE {}
<1>3. /\ TableTyped /\ s \in SaveRequests /\ c \in Browsers /\ s.id \in Rows
      /\ Fits(s.key, s.value) /\ Fits(s.key, s.prev)
  <2>1. TableTyped /\ s \in SaveRequests
    BY DEF TableInv, TableTyped, RequestsTyped
  <2> QED BY <2>1, SaveFields
<1>4. page[c] \in PageState
  BY <1>3, PageShape
<1>5. excused' = [excused EXCEPT ![c] = @ \union lost] /\ UNCHANGED <<since, raced>>
  BY <1>1 DEF Excuse
<1>6. lost \in SUBSET Rows /\ (s.done => s.id \in lost)
  BY <1>3
<1> HIDE DEF lost
<1>7. excused'[c] = excused[c] \union lost /\ \A b \in Browsers \ {c} : excused'[b] = excused[b]
  BY <1>3, <1>5 DEF TableTyped, NotesTyped
<1>8. PICK q : page' = [page EXCEPT ![c] = q]
               /\ q = [page[c] EXCEPT !.rows = Patched(@, s.id, s.key, s.prev)]
  BY <1>1
<1>9. page'[c] = q /\ \A b \in Browsers \ {c} : page'[b] = page[b]
  BY <1>3, <1>8 DEF TableTyped, PagesTyped
<1>10. /\ Rewritten(c, s.id) /\ q \in PageState
       /\ \A i \in DOMAIN page[c].rows : page[c].rows[i].id = s.id =>
            page'[c].rows[i].data = [page[c].rows[i].data EXCEPT ![s.key] = s.prev]
  <2>1. PICK id, key, value : id = s.id /\ key = s.key /\ value = s.prev
    OBVIOUS
  <2>2. Patches(c, id, key, value) /\ Fits(key, value)
    BY <1>3, <1>8, <1>9, <2>1 DEF Patches
  <2> HIDE DEF c
  <2>3. /\ Rewritten(c, id) /\ page'[c] \in PageState
        /\ \A i \in DOMAIN page[c].rows : page[c].rows[i].id = id =>
             page'[c].rows[i].data = [page[c].rows[i].data EXCEPT ![key] = value]
    BY <1>3, <2>2, PatchRewrites
  <2> QED BY <1>9, <2>1, <2>3
<1>11. BrowserInv(c)'
  <2>1. ASSUME NEW i \in DOMAIN page[c].rows, page[c].rows[i].id = s.id, s.id \notin excused'[c],
               s.id \in DOMAIN stored, Ahead(stored, page[c].rows[i], s)
        PROVE  page'[c].rows[i].data = stored[s.id]
    <3>1. ~s.done
      BY <1>6, <1>7, <2>1
    <3> DEFINE d == stored[s.id]
    <3>2. page[c].rows[i].data = [d EXCEPT ![s.key] = s.value] /\ s.prev = d[s.key]
      BY <2>1, <3>1 DEF Ahead
    <3>3. d \in Row
      BY <1>3, <2>1 DEF TableTyped, StoreTyped
    <3>4. page'[c].rows[i].data = [page[c].rows[i].data EXCEPT ![s.key] = s.prev]
      BY <1>10, <2>1
    <3> HIDE DEF d, c
    <3>5. [[d EXCEPT ![s.key] = s.value] EXCEPT ![s.key] = d[s.key]] = d
      <4>1. CASE s.key = "season"
        BY <3>3, <4>1 DEF Row
      <4>2. CASE s.key = "status"
        BY <3>3, <4>2 DEF Row
      <4>3. CASE s.key = "relationship"
        BY <3>3, <4>3 DEF Row
      <4> QED BY <1>3, <4>1, <4>2, <4>3 DEF Fits
    <3> QED BY <3>2, <3>4, <3>5 DEF d
  <2>2. BrowserInv(s.by) /\ early'[s.by] = early[s.by] /\ excused[s.by] \subseteq excused'[s.by]
    BY <1>2, <1>3, <1>7 DEF TableInv
  <2>3. s.done => s.id \in excused'[s.by]
    BY <1>6, <1>7
  <2>4. UNCHANGED <<stored, parts, move, since, raced>> /\ saves' = saves \ {s}
    BY <1>1, <1>2, <1>5
  <2> QED BY <1>3, <1>10, <2>1, <2>2, <2>3, <2>4, SaveEnds
<1> HIDE DEF c
<1>12. TableTyped'
  <2>1. PagesTyped'
    BY <1>3, <1>8, <1>10 DEF TableTyped, PagesTyped
  <2>2. RequestsTyped'
    BY <1>1, <1>2, <1>3 DEF TableTyped, RequestsTyped
  <2>3. faults' \in 0..MaxFaults
    BY <1>1, <1>3, FaultTyped DEF TableTyped, NotesTyped
  <2>4. NotesTyped'
    BY <1>2, <1>3, <1>5, <1>6, <2>3 DEF TableTyped, NotesTyped
  <2> QED BY <1>2, <1>3, <2>1, <2>2, <2>4 DEF TableTyped, StoreTyped
<1>13. ASSUME NEW b \in Browsers, b # c  PROVE BrowserInv(b)'
  <2>1. Quiet(b)
    BY <1>1, <1>2, <1>9, <1>13 DEF Quiet, SavesOf, PartsOf, c
  <2> QED BY <1>2, <1>5, <1>7, <1>13, <2>1, QuietStays DEF TableInv
<1> QED BY <1>11, <1>12, <1>13 DEF TableInv

-----------------------------------------------------------------------------
(* Rows removed or archived.                                                *)

\* A page is left as it is, but for the button that works.
Pressed(c, w) ==
  /\ page' = [page EXCEPT ![c] = w]
  /\ w = page[c] \/ \E k \in {Nothing, "delete", "archive", "move"} : w = [page[c] EXCEPT !.busy = k]

LEMMA PressedPage ==
  ASSUME TableTyped, NEW c \in Browsers, NEW w, Pressed(c, w)
  PROVE  /\ PagesTyped' /\ w \in PageState /\ page'[c] = w /\ w.view = page[c].view /\ w.rows = page[c].rows
         /\ \A b \in Browsers : SameScreen(b) /\ page'[b].selected = page[b].selected
         /\ \A b \in Browsers \ {c} : page'[b] = page[b]
<1>1. page[c] \in PageState
  BY PageShape
<1>2. /\ w \in PageState /\ w.view = page[c].view /\ w.rows = page[c].rows /\ w.fetch = page[c].fetch
      /\ w.answer = page[c].answer /\ w.error = page[c].error /\ w.selected = page[c].selected
  BY <1>1 DEF Pressed, PageState
<1>3. page'[c] = w /\ \A b \in Browsers \ {c} : page'[b] = page[b]
  BY DEF Pressed, TableTyped, PagesTyped
<1>4. PagesTyped'
  BY <1>2 DEF Pressed, TableTyped, PagesTyped
<1>5. \A b \in Browsers : SameScreen(b) /\ page'[b].selected = page[b].selected
  <2> TAKE b \in Browsers
  <2>1. CASE b = c
    BY <1>2, <1>3, <2>1 DEF SameScreen
  <2>2. CASE b # c
    BY <1>3, <2>2 DEF SameScreen
  <2> QED BY <2>1, <2>2
<1> QED BY <1>2, <1>3, <1>4, <1>5

LEMMA Requested ==
  ASSUME TableTyped, NEW c \in Browsers, NEW kind \in {"remove", "delete", "archive"},
         NEW ids \in SUBSET Rows, parts' = parts \union Requests(c, kind, ids), move' = move
  PROVE  /\ parts' \subseteq PartRequests
         /\ \A b \in Browsers : Own(b)' = Own(b)
         /\ \A b \in Browsers \ {c} : PartsOf(b)' = PartsOf(b)
<1>1. \A t \in Requests(c, kind, ids) : t \in PartRequests /\ t.by = c /\ ~t.done
  <2>1. ASSUME NEW r \in ids
        PROVE  LET t == [by |-> c, kind |-> kind, id |-> r, live |-> TRUE, done |-> FALSE] IN
               t \in PartRequests /\ t.by = c /\ ~t.done
    BY DEF PartRequests
  <2> QED BY <2>1 DEF Requests
<1>2. \A b \in Browsers \ {c} : PartsOf(b)' = PartsOf(b)
  BY <1>1 DEF PartsOf
<1>3. \A b \in Browsers : Own(b)' = Own(b)
  BY <1>1 DEF Own, PartsOf, Moved
<1> QED BY <1>1, <1>2, <1>3 DEF TableTyped, RequestsTyped

\* Requests are sent; the page shows what it did.
LEMMA RequestedKeeps ==
  ASSUME TableAssumption, TableInv, NEW c \in Browsers, NEW kind \in {"remove", "delete", "archive"},
         NEW ids \in SUBSET Rows, parts' = parts \union Requests(c, kind, ids), NEW w, Pressed(c, w),
         Ask, Unchanged, UNCHANGED <<stored, waiting, saves, move, faults, early>>
  PROVE  TableInv'
<1>1. TableTyped
  BY DEF TableInv
<1>2. /\ parts' \subseteq PartRequests
      /\ \A b \in Browsers : Own(b)' = Own(b)
  BY <1>1, Requested
<1>3. PagesTyped' /\ \A b \in Browsers : SameScreen(b) /\ page'[b].selected = page[b].selected
  BY <1>1, PressedPage
<1>4. TableTyped'
  <2>1. asks' \in 0..MaxAsks
    BY <1>1, AskTyped DEF TableTyped
  <2>2. NotesTyped'
    BY <1>1, <2>1 DEF TableTyped, NotesTyped, Unchanged
  <2>3. RequestsTyped'
    BY <1>1, <1>2 DEF TableTyped, RequestsTyped
  <2> QED BY <1>1, <1>3, <2>2, <2>3 DEF TableTyped, StoreTyped
<1>5. ASSUME NEW b \in Browsers  PROVE BrowserInv(b)'
  <2>1. SameScreen(b) /\ SameTicks(b) /\ FewerToMove(b)
    BY <1>3 DEF SameTicks, FewerToMove
  <2>2. SavesOf(b)' = SavesOf(b) /\ Own(b)' = Own(b)
    BY <1>2 DEF SavesOf
  <2>3. MoveKnown(b)' /\ TicksTrue(b)'
    BY <2>1, MoveStays, TicksStay DEF TableInv, BrowserInv, Unchanged
  <2> HIDE DEF Own
  <2> QED BY <2>1, <2>2, <2>3, CalmStays DEF TableInv, Unchanged
<1> QED BY <1>4, <1>5 DEF TableInv

LEMMA RemoveRowKeeps ==
  ASSUME TableAssumption, TableInv, NEW c \in Browsers, RemoveRow(c)
  PROVE  TableInv'
<1>1. PICK r \in Shown(c) : Ask /\ parts' = parts \union Requests(c, "remove", {r})
  BY DEF RemoveRow
<1>2. Unchanged /\ UNCHANGED <<stored, waiting, page, saves, move, faults, early>>
  BY DEF RemoveRow
<1>3. {r} \in SUBSET Rows
  BY PageShape DEF TableInv
<1>4. Pressed(c, page[c])
  BY <1>2 DEF Pressed, TableInv, TableTyped, PagesTyped
<1>5. PICK w : w = page[c]
  OBVIOUS
<1>6. PICK ids : ids = {r}
  OBVIOUS
<1> QED BY <1>1, <1>2, <1>3, <1>4, <1>5, <1>6, RequestedKeeps

LEMMA GroupKeeps ==
  ASSUME TableAssumption, TableInv, NEW c \in Browsers, NEW kind \in {"delete", "archive"}, Group(c, kind)
  PROVE  TableInv'
<1>1. /\ Ask /\ parts' = parts \union Requests(c, kind, page[c].selected)
      /\ page' = [page EXCEPT ![c].busy = kind]
      /\ Unchanged /\ UNCHANGED <<stored, waiting, saves, move, faults, early>>
  BY DEF Group
<1>2. PICK w : w = [page[c] EXCEPT !.busy = kind]
  OBVIOUS
<1>3. Pressed(c, w)
  BY <1>1, <1>2 DEF Pressed
<1>4. PICK ids : ids = page[c].selected
  OBVIOUS
<1>5. ids \in SUBSET Rows
  BY <1>4, PageShape DEF TableInv
<1> QED BY <1>1, <1>3, <1>4, <1>5, RequestedKeeps

LEMMA PartFields ==
  ASSUME NEW q \in PartRequests
  PROVE  /\ q.by \in Browsers /\ q.kind \in {"remove", "delete", "archive"} /\ q.id \in Rows
         /\ q.live \in BOOLEAN /\ q.done \in BOOLEAN
         /\ LET u == [q EXCEPT !.done = TRUE] IN
            /\ u \in PartRequests /\ u.by = q.by /\ u.id = q.id /\ u.live = q.live /\ u.done = TRUE
         /\ LET u == [q EXCEPT !.live = FALSE] IN
            /\ u \in PartRequests /\ u.by = q.by /\ u.id = q.id /\ u.live = FALSE /\ u.done = q.done
BY DEF PartRequests

LEMMA PartDoneKeeps ==
  ASSUME TableAssumption, TableInv, PartDone
  PROVE  TableInv'
<1>1. PICK q \in parts :
        /\ ~q.done /\ (q.kind = "archive" => q.id \in DOMAIN stored)
        /\ stored' = IF q.kind = "archive" THEN [stored EXCEPT ![q.id].archived = TRUE]
                     ELSE [r \in DOMAIN stored \ {q.id} |-> stored[r]]
        /\ parts' = (parts \ {q}) \union (IF q.live THEN {[q EXCEPT !.done = TRUE]} ELSE {})
        /\ Changed({q.id}, IF q.live THEN {q.by} ELSE {})
  BY DEF PartDone
<1>2. UNCHANGED <<waiting, page, saves, move, asks, faults, early>>
  BY DEF PartDone
<1> DEFINE c == q.by
           u == [q EXCEPT !.done = TRUE]
           kept == IF q.live THEN {u} ELSE {}
<1>3. TableTyped /\ q \in PartRequests
  BY DEF TableInv, TableTyped, RequestsTyped
<1>4. /\ c \in Browsers /\ q.id \in Rows /\ u \in PartRequests
      /\ u.by = c /\ u.id = q.id /\ u.live = q.live /\ u.done = TRUE
  BY <1>3, PartFields
<1>5. parts' = (parts \ {q}) \union kept
  BY <1>1
<1> HIDE DEF u, c
<1>6. \A t \in kept : t = u /\ t.by = c /\ t \in PartRequests
  BY <1>4
<1>7. q.live => kept = {u}
  OBVIOUS
<1> HIDE DEF kept
<1>8. StoreTyped' /\ Touched({q.id})
  <2>1. CASE q.kind = "archive"
    <3>1. stored' = [stored EXCEPT ![q.id] = [stored[q.id] EXCEPT !.archived = TRUE]]
      BY <1>1, <2>1
    <3>2. stored[q.id] \in Row
      BY <1>1, <1>3, <2>1 DEF TableTyped, StoreTyped
    <3>3. [stored[q.id] EXCEPT !.archived = TRUE] \in Row
      BY <3>2 DEF Row
    <3> QED BY <1>2, <1>3, <3>1, <3>3 DEF TableTyped, StoreTyped, Touched
  <2>2. CASE q.kind # "archive"
    <3>1. stored' = [r \in DOMAIN stored \ {q.id} |-> stored[r]]
      BY <1>1, <2>2
    <3> QED BY <1>2, <1>3, <3>1 DEF TableTyped, StoreTyped, Touched
  <2> QED BY <2>1, <2>2
<1>9. TableTyped'
  <2>1. NotesTyped'
    <3> DEFINE knowing == IF q.live THEN {q.by} ELSE {}
    <3>1. Changed({q.id}, knowing)
      BY <1>1
    <3> HIDE DEF knowing
    <3> QED BY <1>2, <1>3, <1>4, <3>1, ChangedTyped DEF TableTyped
  <2>2. RequestsTyped'
    BY <1>2, <1>3, <1>5, <1>6 DEF TableTyped, RequestsTyped
  <2> QED BY <1>2, <1>3, <1>8, <2>1, <2>2 DEF TableTyped, PagesTyped
<1>10. ASSUME NEW b \in Browsers  PROVE Noted(b, {q.id})
  BY <1>1 DEF Changed, Noted
<1>11. ASSUME NEW b \in Browsers
       PROVE  excused'[b] = IF q.live /\ b = c THEN excused[b] ELSE excused[b] \union {q.id}
  BY <1>1 DEF Changed, c
<1>12. ASSUME NEW b \in Browsers, b # c  PROVE BrowserInv(b)'
  <2>1. Quiet(b)
    BY <1>2, <1>5, <1>6, <1>12 DEF Quiet, SavesOf, PartsOf, c
  <2>2. excused'[b] = excused[b] \union {q.id}
    BY <1>11, <1>12
  <2> QED BY <1>3, <1>4, <1>8, <1>10, <2>1, <2>2, QuietTouched DEF TableInv
<1>13. BrowserInv(c)'
  <2>1. SameScreen(c) /\ SameTicks(c) /\ FewerToMove(c) /\ SavesOf(c)' = SavesOf(c)
    BY <1>2 DEF SameScreen, SameTicks, FewerToMove, SavesOf
  <2>2. ASSUME NEW t \in PartsOf(c), t.live, t.done  PROVE t \in PartsOf(c)'
    BY <1>1, <1>5, <2>2 DEF PartsOf
  <2>3. q.live => u \in PartsOf(c)'
    BY <1>4, <1>5, <1>7 DEF PartsOf
  <2>4. Moved(c)' = Moved(c)
    BY <1>2 DEF Moved
  <2>5. Own(c) \subseteq Own(c)'
    <3> HIDE DEF PartsOf, Moved
    <3> QED BY <2>2, <2>4 DEF Own
  <2>6. q.live => q.id \in Own(c)'
    <3> HIDE DEF PartsOf, Moved
    <3> QED BY <1>4, <2>3 DEF Own
  <2>7. excused[c] \subseteq excused'[c] /\ (~q.live => q.id \in excused'[c])
    BY <1>4, <1>11
  <2> HIDE DEF Own
  <2>8. Own(c) \union {q.id} \subseteq excused'[c] \union Own(c)'
    BY <2>5, <2>6, <2>7
  <2> QED BY <1>3, <1>4, <1>8, <1>10, <2>1, <2>7, <2>8, TouchedStays DEF TableInv
<1> QED BY <1>4, <1>9, <1>12, <1>13 DEF TableInv

LEMMA EndedPage ==
  ASSUME NEW p \in PageState, NEW kind
  PROVE  /\ Ended(p, kind) = p \/ Ended(p, kind) = [p EXCEPT !.busy = Nothing]
         /\ Ended(p, kind) \in PageState /\ Ended(p, kind).rows = p.rows /\ Ended(p, kind).view = p.view
BY DEF Ended, PageState

LEMMA AllAnsweredKeeps ==
  ASSUME TableAssumption, TableInv, NEW c \in Browsers, AllAnswered(c)
  PROVE  TableInv'
<1>1. PICK q \in PartsOf(c) :
        /\ parts' = parts \ Together(q)
        /\ page' = [page EXCEPT ![c] = Refetch(Ended(page[c], q.kind))]
        /\ early' = [early EXCEPT ![c] = FALSE]
  BY DEF AllAnswered
<1>2. Unchanged /\ UNCHANGED <<stored, waiting, saves, move, asks, faults>>
  BY DEF AllAnswered
<1>3. TableTyped /\ page[c] \in PageState /\ page[c].view \in View
  BY PageShape DEF TableInv
<1>4. PICK p : p = Ended(page[c], q.kind)
  OBVIOUS
<1>5. p \in PageState /\ p.rows = page[c].rows /\ p.view \in View
  BY <1>3, <1>4, EndedPage
<1>6. page' = [page EXCEPT ![c] = Refetch(p)]
  BY <1>1, <1>4
<1>7. page'[c] = Refetch(p) /\ \A b \in Browsers \ {c} : page'[b] = page[b]
  BY <1>3, <1>6 DEF TableTyped, PagesTyped
<1>8. \A t \in Together(q) : t.by = c
  BY DEF Together, PartsOf
<1>9. MoveKnown(c)'
  <2>1. FewerToMove(c)
    BY <1>2 DEF FewerToMove
  <2> QED BY <1>2, <2>1, MoveStays DEF TableInv, BrowserInv, Unchanged
<1>10. BrowserInv(c)' /\ page'[c] \in PageState
  BY <1>3, <1>5, <1>7, <1>9, RefetchStays DEF TableInv
<1>11. TableTyped'
  <2>1. PagesTyped'
    BY <1>3, <1>6, <1>7, <1>10 DEF TableTyped, PagesTyped
  <2>2. RequestsTyped'
    BY <1>1, <1>2, <1>3 DEF TableTyped, RequestsTyped
  <2>3. NotesTyped'
    BY <1>1, <1>2, <1>3 DEF TableTyped, NotesTyped, Unchanged
  <2> QED BY <1>2, <1>3, <2>1, <2>2, <2>3 DEF TableTyped, StoreTyped
<1>12. ASSUME NEW b \in Browsers, b # c  PROVE BrowserInv(b)'
  <2>1. PartsOf(b)' = PartsOf(b)
    BY <1>1, <1>8, <1>12 DEF PartsOf
  <2>2. early'[b] = early[b]
    BY <1>1, <1>3, <1>12 DEF TableTyped, NotesTyped
  <2>3. Quiet(b)
    BY <1>2, <1>7, <1>12, <2>1, <2>2 DEF Quiet, SavesOf
  <2> QED BY <1>2, <2>3, QuietStays DEF TableInv, Unchanged
<1> QED BY <1>10, <1>11, <1>12 DEF TableInv

LEMMA PartFailsKeeps ==
  ASSUME TableAssumption, TableInv, PartFails
  PROVE  TableInv'
<1>1. PICK q \in parts :
        /\ IF q.kind = "archive" /\ ~q.done /\ q.id \notin DOMAIN stored THEN UNCHANGED faults ELSE Fault
        /\ parts' = (parts \ Together(q))
                      \union {[t EXCEPT !.live = FALSE] : t \in {u \in Together(q) \ {q} : ~u.done}}
        /\ page' = [page EXCEPT ![q.by] = Ended(page[q.by], q.kind)]
        /\ Excuse(q.by, {t.id : t \in {u \in Together(q) : u.done}})
  BY DEF PartFails
<1>2. UNCHANGED <<stored, waiting, saves, move, asks, early>>
  BY DEF PartFails
<1> DEFINE c == q.by
           all == Together(q)
           others == {[t EXCEPT !.live = FALSE] : t \in {u \in all \ {q} : ~u.done}}
           lost == {t.id : t \in {u \in all : u.done}}
<1>3. TableTyped /\ q \in PartRequests
  BY DEF TableInv, TableTyped, RequestsTyped
<1>4. c \in Browsers
  BY <1>3, PartFields
<1>5. page[c] \in PageState
  BY <1>3, <1>4, PageShape
<1>6. \A t \in all : t \in parts /\ t.by = c /\ t \in PartRequests
  BY <1>3 DEF Together, PartsOf, TableTyped, RequestsTyped
<1>7. parts' = (parts \ all) \union others /\ excused' = [excused EXCEPT ![c] = @ \union lost]
      /\ UNCHANGED <<since, raced>>
  BY <1>1 DEF Excuse
<1> HIDE DEF all
<1>8. \A t \in others : t \in PartRequests /\ t.by = c /\ ~t.live
  <2>1. ASSUME NEW t \in all
        PROVE  LET u == [t EXCEPT !.live = FALSE] IN u \in PartRequests /\ u.by = c /\ ~u.live
    <3>1. t \in PartRequests /\ t.by = c
      BY <1>6
    <3> QED BY <3>1 DEF PartRequests
  <2> TAKE u \in others
  <2>2. PICK t \in all : u = [t EXCEPT !.live = FALSE]
    OBVIOUS
  <2> HIDE DEF others, c
  <2> QED BY <2>1, <2>2
<1>9. lost \in SUBSET Rows /\ \A t \in all : t.done => t.id \in lost
  <2>1. \A t \in all : t.id \in Rows
    BY <1>6, PartFields
  <2> QED BY <2>1
<1> HIDE DEF others, lost
<1>10. PICK w : w = Ended(page[c], q.kind)
  OBVIOUS
<1>11. Pressed(c, w)
  BY <1>1, <1>5, <1>10, EndedPage DEF Pressed
<1> HIDE DEF c
<1>12. PagesTyped' /\ \A b \in Browsers : SameScreen(b) /\ page'[b].selected = page[b].selected
  BY <1>3, <1>4, <1>11, PressedPage
<1>13. /\ excused'[c] = excused[c] \union lost
       /\ \A b \in Browsers \ {c} : excused'[b] = excused[b]
  BY <1>3, <1>4, <1>7 DEF TableTyped, NotesTyped
<1>14. TableTyped'
  <2>1. RequestsTyped'
    BY <1>2, <1>3, <1>7, <1>8 DEF TableTyped, RequestsTyped
  <2>2. faults' \in 0..MaxFaults
    BY <1>1, <1>3, FaultTyped DEF TableTyped, NotesTyped
  <2>3. NotesTyped'
    BY <1>2, <1>3, <1>7, <1>9, <2>2 DEF TableTyped, NotesTyped
  <2> QED BY <1>2, <1>3, <1>12, <2>1, <2>3 DEF TableTyped, StoreTyped
<1>15. ASSUME NEW b \in Browsers  PROVE BrowserInv(b)'
  <2>1. SameScreen(b) /\ SameTicks(b) /\ FewerToMove(b)
    BY <1>2, <1>12 DEF SameTicks, FewerToMove
  <2>2. MoveKnown(b)' /\ TicksTrue(b)'
    BY <1>2, <1>7, <2>1, MoveStays, TicksStay DEF TableInv, BrowserInv
  <2>3. SavesOf(b)' = SavesOf(b) /\ Moved(b)' = Moved(b)
    BY <1>2 DEF SavesOf, Moved
  <2>4. ASSUME NEW t \in PartsOf(b), t.live, t.done  PROVE t \in PartsOf(b)' \/ t.id \in excused'[b]
    <3>1. CASE t \in all
      BY <1>6, <1>9, <1>13, <2>4, <3>1 DEF PartsOf
    <3>2. CASE t \notin all
      BY <1>7, <3>2 DEF PartsOf
    <3> QED BY <3>1, <3>2
  <2>5. Own(b) \subseteq excused'[b] \union Own(b)'
    <3> HIDE DEF PartsOf, Moved
    <3> QED BY <2>3, <2>4 DEF Own
  <2>6. excused[b] \subseteq excused'[b]
    BY <1>13
  <2> HIDE DEF Own
  <2> QED BY <1>2, <1>7, <2>1, <2>2, <2>3, <2>5, <2>6, CalmStays DEF TableInv
<1> QED BY <1>14, <1>15 DEF TableInv

-----------------------------------------------------------------------------
(* Seasons moved.                                                           *)

Moves == PickedMoves \union WholeMoves

LEMMA MoveFields ==
  ASSUME TableTyped, NEW b \in Browsers
  PROVE  /\ move[b] = NoMove => move[b].left = {} /\ ~move[b].live
         /\ move[b] # NoMove =>
              /\ move[b] \in Moves /\ move[b].left \subseteq move[b].ids /\ move[b].ids \subseteq Rows
              /\ move[b].to \in Seasons /\ move[b].live \in BOOLEAN
<1>1. move[b] = NoMove \/ move[b] \in PickedMoves \/ move[b] \in WholeMoves
  BY DEF TableTyped, RequestsTyped
<1>2. NoMove.left = {} /\ ~NoMove.live
  BY DEF NoMove
<1>3. \A m \in PickedMoves : m.ids \subseteq Rows /\ m.to \in Seasons /\ m.live \in BOOLEAN
  BY DEF PickedMoves
<1>4. \A m \in WholeMoves : m.ids \subseteq Rows /\ m.to \in Seasons /\ m.live \in BOOLEAN
  BY DEF WholeMoves
<1> QED BY <1>1, <1>2, <1>3, <1>4 DEF Moves, TableTyped, RequestsTyped

\* A move that has gone on, or that nobody waits for any more.
SameMove(n, m) ==
  /\ n.ids = m.ids /\ n.to = m.to /\ n.whole = m.whole
  /\ m.whole => n.from = m.from /\ n.only = m.only

LEMMA MoveLeft ==
  ASSUME NEW m \in Moves, NEW L \in SUBSET Rows, NEW n, n = [m EXCEPT !.left = L]
  PROVE  n \in Moves /\ n.left = L /\ n.live = m.live /\ SameMove(n, m)
<1>1. CASE m \in PickedMoves
  BY <1>1 DEF PickedMoves, Moves, SameMove
<1>2. CASE m \in WholeMoves
  BY <1>2 DEF WholeMoves, Moves, SameMove
<1> QED BY <1>1, <1>2 DEF Moves

LEMMA MoveDropped ==
  ASSUME NEW m \in Moves, NEW n, n = [m EXCEPT !.live = FALSE]
  PROVE  n \in Moves /\ n.left = m.left /\ n.live = FALSE /\ SameMove(n, m)
<1>1. CASE m \in PickedMoves
  BY <1>1 DEF PickedMoves, Moves, SameMove
<1>2. CASE m \in WholeMoves
  BY <1>2 DEF WholeMoves, Moves, SameMove
<1> QED BY <1>1, <1>2 DEF Moves

LEMMA MovePut ==
  ASSUME TableTyped, NEW c \in Browsers, NEW n, move' = [move EXCEPT ![c] = n],
         n = NoMove \/ (n \in Moves /\ n.left \subseteq n.ids), UNCHANGED <<saves, parts>>
  PROVE  /\ RequestsTyped' /\ move'[c] = n /\ \A b \in Browsers \ {c} : move'[b] = move[b]
         /\ \A b \in Browsers : SavesOf(b)' = SavesOf(b) /\ PartsOf(b)' = PartsOf(b)
<1>1. move'[c] = n /\ \A b \in Browsers \ {c} : move'[b] = move[b]
  BY DEF TableTyped, RequestsTyped
<1>2. move' \in [Browsers -> {NoMove} \union PickedMoves \union WholeMoves]
  BY DEF TableTyped, RequestsTyped, Moves
<1>3. \A b \in Browsers : move'[b] # NoMove => move'[b].left \subseteq move'[b].ids
  BY <1>1 DEF TableTyped, RequestsTyped
<1>4. \A b \in Browsers : SavesOf(b)' = SavesOf(b) /\ PartsOf(b)' = PartsOf(b)
  BY DEF SavesOf, PartsOf
<1> QED BY <1>1, <1>2, <1>3, <1>4 DEF TableTyped, RequestsTyped

\* A move begins, of ticked rows or of a season's.
LEMMA MoveStarts ==
  ASSUME TableAssumption, TableInv, NEW c \in Browsers, NEW n \in Moves, n.left = n.ids,
         move[c] = NoMove, move' = [move EXCEPT ![c] = n], NEW w, Pressed(c, w),
         raced' = [raced EXCEPT ![c] = {}], Ask,
         UNCHANGED <<stored, waiting, saves, parts, faults, excused, since, early>>,
         n.whole => \A r \in n.left : /\ r \in DOMAIN stored /\ stored[r].season = n.from
                                      /\ n.only => stored[r].archived
  PROVE  TableInv'
<1>1. TableTyped
  BY DEF TableInv
<1>2. /\ RequestsTyped' /\ move'[c] = n /\ \A b \in Browsers \ {c} : move'[b] = move[b]
      /\ \A b \in Browsers : SavesOf(b)' = SavesOf(b) /\ PartsOf(b)' = PartsOf(b)
  BY <1>1, MovePut
<1>3. /\ PagesTyped' /\ \A b \in Browsers \ {c} : page'[b] = page[b]
      /\ \A b \in Browsers : SameScreen(b) /\ page'[b].selected = page[b].selected
  BY <1>1, PressedPage
<1>4. TableTyped'
  <2>1. asks' \in 0..MaxAsks
    BY <1>1, AskTyped DEF TableTyped
  <2>2. NotesTyped'
    BY <1>1, <2>1 DEF TableTyped, NotesTyped
  <2> QED BY <1>1, <1>2, <1>3, <2>2 DEF TableTyped, StoreTyped
<1>5. BrowserInv(c)'
  <2>1. MoveKnown(c)'
    BY <1>2 DEF MoveKnown
  <2>2. SameScreen(c) /\ TicksTrue(c)'
    BY <1>3, TicksStay DEF SameTicks, TableInv, BrowserInv
  <2>3. Moved(c) = {} /\ PartsOf(c)' = PartsOf(c)
    BY <1>1, <1>2, MoveFields DEF Moved
  <2>4. Own(c) \subseteq Own(c)'
    <3> HIDE DEF PartsOf, Moved
    <3> QED BY <2>3 DEF Own
  <2> HIDE DEF Own
  <2> QED BY <1>2, <2>1, <2>2, <2>4, CalmStays DEF TableInv
<1>6. ASSUME NEW b \in Browsers, b # c  PROVE BrowserInv(b)'
  <2>1. Quiet(b) /\ raced'[b] = raced[b]
    BY <1>1, <1>2, <1>3, <1>6 DEF Quiet, TableTyped, NotesTyped
  <2> QED BY <2>1, QuietStays DEF TableInv
<1> QED BY <1>4, <1>5, <1>6 DEF TableInv

LEMMA MoveKeeps ==
  ASSUME TableAssumption, TableInv, NEW c \in Browsers, Move(c)
  PROVE  TableInv'
<1>1. PICK to \in Seasons :
        move' = [move EXCEPT ![c] = [left |-> page[c].selected, ids |-> page[c].selected, to |-> to,
                                     whole |-> FALSE, live |-> TRUE]]
  BY DEF Move
<1>2. /\ move[c] = NoMove /\ Ask /\ page' = [page EXCEPT ![c].busy = "move"]
      /\ raced' = [raced EXCEPT ![c] = {}]
      /\ UNCHANGED <<stored, waiting, saves, parts, faults, excused, since, early>>
  BY DEF Move
<1>3. PICK n : n = [left |-> page[c].selected, ids |-> page[c].selected, to |-> to,
                    whole |-> FALSE, live |-> TRUE]
  OBVIOUS
<1>4. n \in Moves /\ n.left = n.ids /\ ~n.whole
  <2>1. page[c].selected \subseteq Rows
    BY PageShape DEF TableInv
  <2> QED BY <1>3, <2>1 DEF Moves, PickedMoves
<1>5. PICK w : w = [page[c] EXCEPT !.busy = "move"]
  OBVIOUS
<1>6. Pressed(c, w)
  BY <1>2, <1>5 DEF Pressed
<1>7. move' = [move EXCEPT ![c] = n]
  BY <1>1, <1>3
<1> QED BY <1>2, <1>4, <1>6, <1>7, MoveStarts

LEMMA MoveSeasonKeeps ==
  ASSUME TableAssumption, TableInv, NEW c \in Browsers, MoveSeason(c)
  PROVE  TableInv'
<1> DEFINE from == page[c].view.season
           taken(to, only) == IF from = to THEN {} ELSE InSeason(from, only)
<1>1. PICK to \in Seasons, only \in BOOLEAN :
        move' = [move EXCEPT ![c] = [left |-> taken(to, only), ids |-> taken(to, only), to |-> to,
                                     whole |-> TRUE, live |-> TRUE, from |-> from, only |-> only]]
  BY DEF MoveSeason
<1>2. /\ move[c] = NoMove /\ Ask /\ page' = [page EXCEPT ![c].busy = "move"]
      /\ raced' = [raced EXCEPT ![c] = {}]
      /\ UNCHANGED <<stored, waiting, saves, parts, faults, excused, since, early>>
  BY DEF MoveSeason
<1>3. PICK ids : ids = taken(to, only)
  OBVIOUS
<1>4. ids \subseteq Rows /\ \A r \in ids : /\ r \in DOMAIN stored /\ stored[r].season = from
                                           /\ only => stored[r].archived
  BY <1>3 DEF InSeason, TableInv, TableTyped, StoreTyped
<1>5. from \in Seasons
  BY PageShape, ViewFields DEF TableInv
<1>6. PICK n : n = [left |-> ids, ids |-> ids, to |-> to, whole |-> TRUE, live |-> TRUE, from |-> from,
                    only |-> only]
  OBVIOUS
<1>7. move' = [move EXCEPT ![c] = n]
  BY <1>1, <1>3, <1>6
<1> HIDE DEF from, taken
<1>8. n \in Moves /\ n.left = n.ids /\ n.left = ids /\ n.from = from /\ n.only = only
  BY <1>4, <1>5, <1>6 DEF Moves, WholeMoves
<1>9. n.whole => \A r \in n.left : /\ r \in DOMAIN stored /\ stored[r].season = n.from
                                   /\ n.only => stored[r].archived
  BY <1>4, <1>8
<1>10. PICK w : w = [page[c] EXCEPT !.busy = "move"]
  OBVIOUS
<1>11. Pressed(c, w)
  BY <1>2, <1>10 DEF Pressed
<1> QED BY <1>2, <1>7, <1>8, <1>9, <1>11, MoveStarts

LEMMA MoveNextKeeps ==
  ASSUME TableAssumption, TableInv, NEW c \in Browsers, MoveNext(c)
  PROVE  TableInv'
<1>1. PICK r \in move[c].left :
        /\ move' = [move EXCEPT ![c].left = @ \ {r}]
        /\ \/ /\ r \in DOMAIN stored
              /\ stored' = [stored EXCEPT ![r].season = move[c].to]
              /\ Changed({r}, IF move[c].live THEN {c} ELSE {})
              /\ UNCHANGED faults
           \/ Unchanged /\ UNCHANGED <<stored, faults>>
           \/ Fault /\ Unchanged /\ UNCHANGED stored
  BY DEF MoveNext
<1>2. UNCHANGED <<waiting, page, saves, parts, asks, early>>
  BY DEF MoveNext
<1>3. TableTyped
  BY DEF TableInv
<1>4. /\ move[c] # NoMove /\ move[c] \in Moves /\ move[c].left \subseteq move[c].ids
      /\ move[c].ids \subseteq Rows /\ move[c].to \in Seasons /\ r \in Rows
  BY <1>3, MoveFields
<1>5. PICK L : L = move[c].left \ {r}
  OBVIOUS
<1>6. PICK n : n = [move[c] EXCEPT !.left = L]
  OBVIOUS
<1>7. n \in Moves /\ n.left = L /\ n.live = move[c].live /\ SameMove(n, move[c]) /\ L \subseteq n.ids
  <2>1. L \in SUBSET Rows
    BY <1>4, <1>5
  <2>2. PICK m : m = move[c]
    OBVIOUS
  <2>3. n \in Moves /\ n.left = L /\ n.live = m.live /\ SameMove(n, m)
    BY <1>4, <1>6, <2>1, <2>2, MoveLeft
  <2> QED BY <1>4, <1>5, <2>2, <2>3 DEF SameMove
<1>8. /\ RequestsTyped' /\ move'[c] = n /\ \A b \in Browsers \ {c} : move'[b] = move[b]
      /\ \A b \in Browsers : SavesOf(b)' = SavesOf(b) /\ PartsOf(b)' = PartsOf(b)
  <2>1. move' = [move EXCEPT ![c] = n]
    BY <1>1, <1>5, <1>6
  <2> QED BY <1>2, <1>3, <1>7, <2>1, MovePut
<1>9. ASSUME NEW b \in Browsers
      PROVE  /\ SameScreen(b) /\ SameTicks(b) /\ FewerToMove(b) /\ Own(b) \subseteq Own(b)'
             /\ b # c => Quiet(b)
  <2>1. SameScreen(b) /\ SameTicks(b) /\ (b # c => Quiet(b))
    BY <1>2, <1>8 DEF SameScreen, SameTicks, Quiet
  <2>2. FewerToMove(b)
    BY <1>5, <1>7, <1>8 DEF FewerToMove, SameMove
  <2>3. Moved(b) \subseteq Moved(b)'
    BY <1>5, <1>7, <1>8 DEF Moved, SameMove
  <2>4. PartsOf(b)' = PartsOf(b)
    BY <1>8
  <2>5. Own(b) \subseteq Own(b)'
    <3> HIDE DEF PartsOf, Moved
    <3> QED BY <2>3, <2>4 DEF Own
  <2> QED BY <2>1, <2>2, <2>5
<1>10. move[c].live => r \in Own(c)'
  <2>1. move[c].live => r \in Moved(c)'
    BY <1>4, <1>5, <1>7, <1>8 DEF Moved, SameMove
  <2> HIDE DEF PartsOf, Moved
  <2> QED BY <2>1 DEF Own
<1> HIDE DEF Own
<1>11. CASE /\ r \in DOMAIN stored
            /\ stored' = [stored EXCEPT ![r].season = move[c].to]
            /\ Changed({r}, IF move[c].live THEN {c} ELSE {})
            /\ UNCHANGED faults
  <2> DEFINE knowing == IF move[c].live THEN {c} ELSE {}
  <2>1. StoreTyped' /\ Touched({r})
    <3>1. stored' = [stored EXCEPT ![r] = [stored[r] EXCEPT !.season = move[c].to]]
      BY <1>11
    <3>2. stored[r] \in Row
      BY <1>3, <1>11 DEF TableTyped, StoreTyped
    <3>3. [stored[r] EXCEPT !.season = move[c].to] \in Row
      BY <1>4, <3>2 DEF Row
    <3> QED BY <1>2, <1>3, <3>1, <3>3 DEF TableTyped, StoreTyped, Touched
  <2>2. Changed({r}, knowing)
    BY <1>11
  <2>3. ASSUME NEW b \in Browsers
        PROVE  /\ Noted(b, {r})
               /\ excused'[b] = IF b \in knowing THEN excused[b] ELSE excused[b] \union {r}
    BY <2>2 DEF Changed, Noted
  <2> HIDE DEF knowing
  <2>4. TableTyped'
    <3>1. NotesTyped'
      BY <1>2, <1>3, <1>4, <1>11, <2>2, ChangedTyped DEF TableTyped
    <3> QED BY <1>2, <1>3, <1>8, <2>1, <3>1 DEF TableTyped, PagesTyped
  <2>5. ASSUME NEW b \in Browsers  PROVE BrowserInv(b)'
    <3>1. excused[b] \subseteq excused'[b]
      BY <2>3
    <3>2. r \in excused'[b] \union Own(b)'
      <4>1. CASE b \in knowing
        BY <1>10, <4>1 DEF knowing
      <4>2. CASE b \notin knowing
        BY <2>3, <4>2
      <4> QED BY <4>1, <4>2
    <3>3. Own(b) \union {r} \subseteq excused'[b] \union Own(b)'
      BY <1>9, <3>2
    <3> QED BY <1>3, <1>4, <1>8, <1>9, <2>1, <2>3, <3>1, <3>3, TouchedStays DEF TableInv
  <2> QED BY <2>4, <2>5 DEF TableInv
<1>12. CASE Unchanged /\ UNCHANGED stored /\ (UNCHANGED faults \/ Fault)
  <2>1. TableTyped'
    <3>1. faults' \in 0..MaxFaults
      BY <1>3, <1>12, FaultTyped DEF TableTyped, NotesTyped
    <3>2. NotesTyped'
      BY <1>2, <1>3, <1>12, <3>1 DEF TableTyped, NotesTyped, Unchanged
    <3> QED BY <1>2, <1>3, <1>8, <1>12, <3>2 DEF TableTyped, StoreTyped, PagesTyped
  <2>2. ASSUME NEW b \in Browsers  PROVE BrowserInv(b)'
    <3>1. MoveKnown(b)' /\ TicksTrue(b)'
      BY <1>9, <1>12, MoveStays, TicksStay DEF TableInv, BrowserInv, Unchanged
    <3> QED BY <1>8, <1>9, <1>12, <3>1, CalmStays DEF TableInv, Unchanged
  <2> QED BY <2>1, <2>2 DEF TableInv
<1> QED BY <1>1, <1>11, <1>12

LEMMA MoveAnsweredKeeps ==
  ASSUME TableAssumption, TableInv, NEW c \in Browsers, MoveAnswered(c)
  PROVE  TableInv'
<1>1. /\ move[c] # NoMove /\ move[c].left = {}
      /\ move' = [move EXCEPT ![c] = NoMove]
      /\ page' = IF move[c].live THEN [page EXCEPT ![c] = Refetch([@ EXCEPT !.busy = Nothing])] ELSE page
      /\ early' = [early EXCEPT ![c] = @ /\ ~move[c].live]
      /\ Unchanged /\ UNCHANGED <<stored, waiting, saves, parts, asks, faults>>
  BY DEF MoveAnswered
<1>2. TableTyped /\ page[c] \in PageState /\ page[c].view \in View
  BY PageShape DEF TableInv
<1>3. /\ RequestsTyped' /\ move'[c] = NoMove /\ \A b \in Browsers \ {c} : move'[b] = move[b]
      /\ \A b \in Browsers : SavesOf(b)' = SavesOf(b) /\ PartsOf(b)' = PartsOf(b)
  <2>1. PICK n : n = NoMove
    OBVIOUS
  <2> QED BY <1>1, <1>2, <2>1, MovePut
<1>4. MoveKnown(c)'
  BY <1>3, NothingToMove DEF NoMove
<1>5. /\ early' \in [Browsers -> BOOLEAN] /\ early'[c] = (early[c] /\ ~move[c].live)
      /\ early[c] \in BOOLEAN /\ \A b \in Browsers \ {c} : early'[b] = early[b]
  BY <1>1, <1>2 DEF TableTyped, NotesTyped
<1>6. BrowserInv(c)' /\ PagesTyped' /\ \A b \in Browsers \ {c} : page'[b] = page[b]
  <2>1. CASE move[c].live
    <3>1. PICK p : p = [page[c] EXCEPT !.busy = Nothing]
      OBVIOUS
    <3>2. p \in PageState /\ p.rows = page[c].rows /\ p.view \in View
      BY <1>2, <3>1 DEF PageState
    <3>3. page' = [page EXCEPT ![c] = Refetch(p)]
      BY <1>1, <2>1, <3>1
    <3>4. page'[c] = Refetch(p) /\ \A b \in Browsers \ {c} : page'[b] = page[b]
      BY <1>2, <3>3 DEF TableTyped, PagesTyped
    <3>5. BrowserInv(c)' /\ page'[c] \in PageState
      BY <1>2, <1>4, <3>2, <3>4, RefetchStays DEF TableInv
    <3> QED BY <1>2, <3>3, <3>4, <3>5 DEF TableTyped, PagesTyped
  <2>2. CASE ~move[c].live
    <3>1. page' = page
      BY <1>1, <2>2
    <3>2. SameScreen(c) /\ SameTicks(c)
      BY <1>5, <2>2, <3>1 DEF SameScreen, SameTicks
    <3>3. TicksTrue(c)'
      BY <3>2, TicksStay DEF TableInv, BrowserInv
    <3>4. Moved(c) = {} /\ PartsOf(c)' = PartsOf(c)
      BY <1>3, <2>2 DEF Moved
    <3>5. Own(c) \subseteq Own(c)'
      <4> HIDE DEF PartsOf, Moved
      <4> QED BY <3>4 DEF Own
    <3> HIDE DEF Own
    <3>6. BrowserInv(c)'
      BY <1>1, <1>3, <1>4, <3>2, <3>3, <3>5, CalmStays DEF TableInv, Unchanged
    <3> QED BY <1>2, <3>1, <3>6 DEF TableTyped, PagesTyped
  <2> QED BY <2>1, <2>2
<1>7. TableTyped'
  <2>1. NotesTyped'
    BY <1>1, <1>2, <1>5 DEF TableTyped, NotesTyped, Unchanged
  <2> QED BY <1>1, <1>2, <1>3, <1>6, <2>1 DEF TableTyped, StoreTyped
<1>8. ASSUME NEW b \in Browsers, b # c  PROVE BrowserInv(b)'
  <2>1. Quiet(b)
    BY <1>3, <1>5, <1>6, <1>8 DEF Quiet
  <2> QED BY <1>1, <2>1, QuietStays DEF TableInv, Unchanged
<1> QED BY <1>6, <1>7, <1>8 DEF TableInv

LEMMA MoveLostKeeps ==
  ASSUME TableAssumption, TableInv, NEW c \in Browsers, MoveLost(c)
  PROVE  TableInv'
<1> DEFINE lost == move[c].ids \ move[c].left
<1>1. /\ move[c].live /\ Fault
      /\ move' = [move EXCEPT ![c].live = FALSE]
      /\ page' = [page EXCEPT ![c].busy = Nothing]
      /\ excused' = [excused EXCEPT ![c] = @ \union lost] /\ UNCHANGED <<since, raced>>
      /\ UNCHANGED <<stored, waiting, saves, parts, asks, early>>
  BY DEF MoveLost, Excuse
<1>2. TableTyped
  BY DEF TableInv
<1>3. /\ move[c] # NoMove /\ move[c] \in Moves /\ move[c].left \subseteq move[c].ids
      /\ move[c].ids \subseteq Rows
  BY <1>1, <1>2, MoveFields
<1>4. lost \in SUBSET Rows
  BY <1>3
<1>5. PICK n : n = [move[c] EXCEPT !.live = FALSE]
  OBVIOUS
<1>6. n \in Moves /\ n.left = move[c].left /\ n.live = FALSE /\ SameMove(n, move[c])
      /\ n.left \subseteq n.ids
  <2>1. PICK m : m = move[c]
    OBVIOUS
  <2>2. n \in Moves /\ n.left = m.left /\ n.live = FALSE /\ SameMove(n, m)
    BY <1>3, <1>5, <2>1, MoveDropped
  <2> QED BY <1>3, <2>1, <2>2 DEF SameMove
<1>7. /\ RequestsTyped' /\ move'[c] = n /\ \A b \in Browsers \ {c} : move'[b] = move[b]
      /\ \A b \in Browsers : SavesOf(b)' = SavesOf(b) /\ PartsOf(b)' = PartsOf(b)
  <2>1. move' = [move EXCEPT ![c] = n]
    BY <1>1, <1>5
  <2> QED BY <1>1, <1>2, <1>6, <2>1, MovePut
<1>8. PICK w : w = [page[c] EXCEPT !.busy = Nothing]
  OBVIOUS
<1>9. Pressed(c, w)
  BY <1>1, <1>8 DEF Pressed
<1>10. PagesTyped' /\ \A b \in Browsers : SameScreen(b) /\ page'[b].selected = page[b].selected
  BY <1>2, <1>9, PressedPage
<1>11. excused'[c] = excused[c] \union lost /\ \A b \in Browsers \ {c} : excused'[b] = excused[b]
  BY <1>1, <1>2 DEF TableTyped, NotesTyped
<1>12. TableTyped'
  <2>1. faults' \in 0..MaxFaults
    BY <1>1, <1>2, FaultTyped DEF TableTyped
  <2>2. NotesTyped'
    BY <1>1, <1>2, <1>4, <2>1 DEF TableTyped, NotesTyped
  <2> QED BY <1>1, <1>2, <1>7, <1>10, <2>2 DEF TableTyped, StoreTyped
<1>13. ASSUME NEW b \in Browsers  PROVE BrowserInv(b)'
  <2>1. SameScreen(b) /\ SameTicks(b)
    BY <1>1, <1>10 DEF SameTicks
  <2>2. FewerToMove(b)
    BY <1>6, <1>7 DEF FewerToMove, SameMove
  <2>3. MoveKnown(b)' /\ TicksTrue(b)'
    BY <1>1, <2>1, <2>2, MoveStays, TicksStay DEF TableInv, BrowserInv
  <2>4. excused[b] \subseteq excused'[b] /\ Moved(b) \subseteq excused'[b] \union Moved(b)'
    <3>1. CASE b = c
      BY <1>11, <3>1 DEF Moved
    <3>2. CASE b # c
      BY <1>7, <1>11, <3>2 DEF Moved
    <3> QED BY <3>1, <3>2
  <2>5. PartsOf(b)' = PartsOf(b) /\ SavesOf(b)' = SavesOf(b)
    BY <1>7
  <2>6. Own(b) \subseteq excused'[b] \union Own(b)'
    <3> HIDE DEF PartsOf, Moved
    <3> QED BY <2>4, <2>5 DEF Own
  <2> HIDE DEF Own
  <2> QED BY <1>1, <2>1, <2>3, <2>4, <2>5, <2>6, CalmStays DEF TableInv
<1> QED BY <1>12, <1>13 DEF TableInv

-----------------------------------------------------------------------------
(* All of it.                                                               *)

LEMMA TableStutters ==
  ASSUME TableInv, UNCHANGED tableVars
  PROVE  TableInv'
<1>1. UNCHANGED <<stored, waiting, page, saves, parts, move, asks, faults, excused, since, early, raced>>
  BY DEF tableVars
<1>2. TableTyped'
  BY <1>1 DEF TableInv, TableTyped, StoreTyped, PagesTyped, RequestsTyped, NotesTyped
<1>3. ASSUME NEW b \in Browsers  PROVE BrowserInv(b)'
  <2>1. Quiet(b)
    BY <1>1 DEF Quiet, SavesOf, PartsOf
  <2> QED BY <1>1, <2>1, QuietStays DEF TableInv
<1> QED BY <1>2, <1>3 DEF TableInv

LEMMA TableSteps ==
  ASSUME TableAssumption, TableInv, [Next]_tableVars
  PROVE  TableInv'
<1>1. CASE Arrive
  BY <1>1, ArriveKeeps
<1>2. CASE ArchiveSeason
  BY <1>2, ArchiveSeasonKeeps
<1>3. CASE SaveStored
  BY <1>3, SaveStoredKeeps
<1>4. CASE SaveAnswered
  BY <1>4, SaveAnsweredKeeps
<1>5. CASE SaveFails
  BY <1>5, SaveFailsKeeps
<1>6. CASE PartDone
  BY <1>6, PartDoneKeeps
<1>7. CASE PartFails
  BY <1>7, PartFailsKeeps
<1>8. ASSUME NEW b \in Browsers, Step(b)  PROVE TableInv'
  <2>1. CASE ChangeView(b)
    BY <2>1, ChangeViewKeeps
  <2>2. CASE Read(b)
    BY <2>2, ReadKeeps
  <2>3. CASE Show(b)
    BY <2>3, ShowKeeps
  <2>4. CASE ListFails(b)
    BY <2>4, ListFailsKeeps
  <2>5. CASE Tick(b)
    BY <2>5, TickKeeps
  <2>6. CASE AskSave(b)
    BY <2>6, AskSaveKeeps
  <2>7. CASE RemoveRow(b)
    BY <2>7, RemoveRowKeeps
  <2>8. CASE Delete(b) \/ Archive(b)
    <3>1. \E kind \in {"delete", "archive"} : Group(b, kind)
      BY <2>8 DEF Delete, Archive
    <3> QED BY <3>1, GroupKeeps
  <2>9. CASE AllAnswered(b)
    BY <2>9, AllAnsweredKeeps
  <2>10. CASE Move(b)
    BY <2>10, MoveKeeps
  <2>11. CASE MoveSeason(b)
    BY <2>11, MoveSeasonKeeps
  <2>12. CASE MoveNext(b)
    BY <2>12, MoveNextKeeps
  <2>13. CASE MoveAnswered(b)
    BY <2>13, MoveAnsweredKeeps
  <2>14. CASE MoveLost(b)
    BY <2>14, MoveLostKeeps
  <2> QED BY <1>8, <2>1, <2>2, <2>3, <2>4, <2>5, <2>6, <2>7, <2>8, <2>9, <2>10, <2>11, <2>12, <2>13,
             <2>14 DEF Step
<1>9. CASE UNCHANGED tableVars
  BY <1>9, TableStutters
<1> QED BY <1>1, <1>2, <1>3, <1>4, <1>5, <1>6, <1>7, <1>8, <1>9 DEF Next

\* A list without a repeated row has as many rows as places.
LEMMA AsManyRows ==
  ASSUME NEW rs \in Seq(PageRow), \A i, j \in DOMAIN rs : rs[i].id = rs[j].id => i = j
  PROVE  Cardinality(Ids(rs)) = Len(rs)
<1>1. DOMAIN rs = 1..Len(rs) /\ Len(rs) \in Nat
  BY LenProperties
<1> DEFINE f == [i \in 1..Len(rs) |-> rs[i].id]
           T == Ids(rs)
<1>2. f \in Bijection(1..Len(rs), T)
  BY <1>1 DEF Bijection, Injection, Surjection, IsInjective, Ids
<1> HIDE DEF T, f
<1>3. Cardinality(T) = Len(rs)
  BY <1>1, <1>2, FS_CountingElements DEF ExistsBijection
<1> QED BY <1>3 DEF T

LEMMA TableTypedShape ==
  ASSUME TableInv
  PROVE  TypeOK
<1>1. TableTyped
  BY DEF TableInv
<1>2. /\ DOMAIN stored \subseteq Rows /\ waiting \subseteq Rows
      /\ \A r \in DOMAIN stored : stored[r] \in Row
      /\ asks \in 0..MaxAsks /\ faults \in 0..MaxFaults
  BY <1>1 DEF TableTyped, StoreTyped, NotesTyped
<1>3. /\ \A s \in saves : s.by \in Browsers /\ s.id \in Rows
      /\ \A q \in parts : q.by \in Browsers /\ q.id \in Rows
  BY <1>1, SaveFields, PartFields DEF TableTyped, RequestsTyped
<1>4. ASSUME NEW b \in Browsers
      PROVE  /\ page[b].view \in View /\ page[b].fetch \in {"asked", "read", "shown"}
             /\ Range(page[b].rows) \subseteq [id : Rows, data : Row]
             /\ Cardinality(Shown(b)) = Len(page[b].rows) /\ Len(page[b].rows) <= Max(Sizes)
             /\ move[b].left \subseteq Rows
  <2>1. page[b] \in PageState /\ page[b].view \in View /\ page[b].rows \in Seq(PageRow)
    BY <1>1, PageShape
  <2>2. page[b].fetch \in {"asked", "read", "shown"}
    BY <2>1 DEF PageState
  <2>3. Range(page[b].rows) \subseteq [id : Rows, data : Row]
    BY <1>1, PageShape DEF Range, PageRow
  <2>4. ListFits(page[b].rows)
    BY DEF TableInv, BrowserInv, ListsFit
  <2> DEFINE rs == page[b].rows
  <2>5. Cardinality(Ids(rs)) = Len(rs)
    <3> HIDE DEF rs
    <3>1. rs \in Seq(PageRow) /\ \A i, j \in DOMAIN rs : rs[i].id = rs[j].id => i = j
      BY <2>1, <2>4 DEF ListFits, rs
    <3> QED BY <3>1, AsManyRows
  <2>6. move[b].left \subseteq Rows
    BY <1>1, UnderWayRows DEF UnderWay
  <2> QED BY <2>1, <2>2, <2>3, <2>4, <2>5, <2>6 DEF ListFits, Shown
<1> QED BY <1>2, <1>3, <1>4 DEF TypeOK

LEMMA RestIsTrue ==
  ASSUME TableAssumption, TableInv
  PROVE  TableTrue
<1> SUFFICES ASSUME NEW b \in Browsers, AtRest(b)
             PROVE  /\ excused[b] = {} => page[b].rows = Listed(page[b].view).rows
                    /\ \A i \in DOMAIN page[b].rows :
                         \/ page[b].rows[i].id \in excused[b]
                         \/ /\ page[b].rows[i].id \in DOMAIN stored
                            /\ page[b].rows[i].data = stored[page[b].rows[i].id]
  BY DEF TableTrue
<1>1. TableTyped /\ Fresh(b) /\ SavesOf(b) = {}
  BY DEF TableInv, AtRest, Fresh
<1>2. Own(b) = {}
  <2>1. Moved(b) = {} /\ PartsOf(b) = {}
    BY <1>1, MoveFields DEF AtRest, Moved
  <2> HIDE DEF Moved, PartsOf
  <2> QED BY <2>1 DEF Own
<1> HIDE DEF Own, SavesOf, Fresh
<1>3. ASSUME NEW i \in DOMAIN page[b].rows, page[b].rows[i].id \notin excused[b]
      PROVE  AsStored(stored, page[b].rows[i])
  <2>1. RowTrue(stored, SavesOf(b), page[b].rows[i])
    BY <1>1, <1>2, <1>3 DEF TableInv, BrowserInv, RowsTrue
  <2> QED BY <1>1, <2>1 DEF RowTrue, AsStored
<1>4. ASSUME excused[b] = {}  PROVE page[b].rows = Listed(page[b].view).rows
  <2> DEFINE rs == page[b].rows
             ts == ListedIn(stored, page[b].view).rows
  <2>1. SameIds(rs, ts)
    BY <1>1, <1>2, <1>4 DEF TableInv, BrowserInv, IdsTrue
  <2>2. /\ rs \in Seq(PageRow) /\ page[b].view \in View
        /\ stored \in [DOMAIN stored -> Row] /\ DOMAIN stored \in SUBSET Rows
    BY <1>1, PageShape DEF TableTyped, StoreTyped
  <2>3. ts \in Seq(PageRow) /\ \A i \in DOMAIN ts : AsStored(stored, ts[i])
    BY <2>2, ListedShape DEF Answer
  <2>4. \A i \in DOMAIN rs : AsStored(stored, rs[i])
    BY <1>3, <1>4
  <2> HIDE DEF rs, ts
  <2>5. DOMAIN rs = DOMAIN ts /\ \A i \in DOMAIN rs : rs[i] = ts[i]
    <3>1. DOMAIN rs = DOMAIN ts /\ \A i \in DOMAIN rs : rs[i].id = ts[i].id
      BY <2>1 DEF SameIds
    <3>2. ASSUME NEW i \in DOMAIN rs  PROVE rs[i] = ts[i]
      <4>1. rs[i] \in PageRow /\ ts[i] \in PageRow
        BY <2>2, <2>3, <3>1, LenProperties, ElementOfSeq
      <4>2. rs[i].data = ts[i].data /\ rs[i].id = ts[i].id
        BY <2>3, <2>4, <3>1 DEF AsStored
      <4> QED BY <4>1, <4>2 DEF PageRow
    <3> QED BY <3>1, <3>2
  <2>6. rs = ts
    <3>1. rs \in [1..Len(rs) -> PageRow] /\ ts \in [1..Len(ts) -> PageRow]
      BY <2>2, <2>3, LenProperties
    <3>2. DOMAIN rs = 1..Len(rs) /\ DOMAIN ts = 1..Len(ts)
      BY <3>1
    <3>3. rs = [i \in DOMAIN rs |-> rs[i]] /\ ts = [i \in DOMAIN ts |-> ts[i]]
      BY <3>1, <3>2
    <3> QED BY <2>5, <3>3
  <2> QED BY <2>6, ListedNow DEF rs, ts
<1> QED BY <1>3, <1>4 DEF AsStored

LEMMA TicksAreShown ==
  ASSUME TableInv
  PROVE  SelectionShown
BY DEF TableInv, BrowserInv, TicksTrue, SelectionShown

LEMMA InvAlways ==
  ASSUME TableAssumption
  PROVE  Spec => []TableInv
<1>1. Init => TableInv
  BY TableStarts
<1>2. TableInv /\ [Next]_tableVars => TableInv'
  BY TableSteps
<1> QED BY <1>1, <1>2, PTL DEF Spec

\* The shape of the table's state.
THEOREM TableAlwaysTyped ==
  ASSUME TableAssumption
  PROVE  Spec => []TypeOK
<1>1. Spec => []TableInv
  BY InvAlways
<1>2. TableInv => TypeOK
  BY TableTypedShape
<1> QED BY <1>1, <1>2, PTL

\* A page that waits for nothing shows its view's rows as they are stored
\* (SubmissionTable.tsx fetchData, saveField, and the group actions).
THEOREM TableAlwaysTrue ==
  ASSUME TableAssumption
  PROVE  Spec => []TableTrue
<1>1. Spec => []TableInv
  BY InvAlways
<1>2. TableInv => TableTrue
  BY RestIsTrue
<1> QED BY <1>1, <1>2, PTL

\* What a group request takes is on the screen (SubmissionTable.tsx: the
\* selection is per fetched page).
THEOREM SelectionAlwaysShown ==
  ASSUME TableAssumption
  PROVE  Spec => []SelectionShown
<1>1. Spec => []TableInv
  BY InvAlways
<1>2. TableInv => SelectionShown
  BY TicksAreShown
<1> QED BY <1>1, <1>2, PTL

\* A season's move takes only its rows, but for those changed while it runs
\* (SubmissionTable.tsx moveWholeSeason).
THEOREM MovesOnlyItsSeasonAlways ==
  ASSUME TableAssumption
  PROVE  Spec => MovesOnlyItsSeason
<1> DEFINE Takes == \A b \in Browsers, r \in Rows :
       r \in move[b].left /\ r \notin move'[b].left /\ move[b].whole /\ r \notin raced[b] /\ stored' # stored
       => stored[r].season = move[b].from /\ (move[b].only => stored[r].archived)
<1>1. Spec => []TableInv
  BY InvAlways
<1>2. TableInv => Takes
  BY DEF TableInv, BrowserInv, MoveKnown
<1>3. MovesOnlyItsSeason <=> [][Takes]_tableVars
  BY DEF MovesOnlyItsSeason
<1> HIDE DEF Takes
<1> QED BY <1>1, <1>2, <1>3, PTL
=============================================================================
