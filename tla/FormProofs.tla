----------------------------- MODULE FormProofs -----------------------------
(***************************************************************************)
(* Proofs about FormConfig, for any editors, registry, texts and overlay   *)
(* stored at first.                                                        *)
(*                                                                         *)
(* Lists come first: what is left of one when some of its places are       *)
(* kept, and how many there are.  With them, what the merges show of a     *)
(* stored overlay, and what the overlay built from a page holds: a page    *)
(* is asked of visitors as it was seen, and question by question as its    *)
(* built-in, added and new questions read.  Then the edits, one by one: an *)
(* edit leaves a page fit to be saved and shows every other question       *)
(* alike.                                                                  *)
(*                                                                         *)
(* FormInv says what the calls in flight may count on: a page that is not  *)
(* blind shows what is stored but for what was touched, and so does the    *)
(* copy it is saving; the keys a save has drawn are nobody else's until it *)
(* is stored.                                                              *)
(***************************************************************************)
EXTENDS FormConfig, FiniteSetTheorems, SequenceTheorems, WellFoundedInduction, TLAPS

-----------------------------------------------------------------------------
(* Some elements of a list, in order.                                      *)

\* A set of numbers that is not empty has a least one.
LEMMA LeastNumber ==
  ASSUME NEW S \in SUBSET Nat, S # {}
  PROVE  \E n \in S : \A m \in S : n <= m
<1> DEFINE R == OpToRel(<, Nat)
<1>1. IsWellFoundedOn(R, Nat)
  BY NatLessThanWellFounded
<1>2. \A x, y \in Nat : x < y => <<x, y>> \in R
  BY DEF OpToRel
<1> HIDE DEF R
<1>3. PICK n \in S : \A m \in S : ~(<<m, n>> \in R)
  BY <1>1, WFMin
<1>4. ASSUME NEW m \in S  PROVE n <= m
  <2>1. n \in Nat /\ m \in Nat
    OBVIOUS
  <2>2. ~(m < n)
    BY <1>2, <1>3, <2>1
  <2> QED BY <2>1, <2>2
<1> QED BY <1>4

LEMMA ListOf ==
  ASSUME NEW S, NEW n \in Nat, NEW f \in [1..n -> S]
  PROVE  f \in Seq(S) /\ Len(f) = n /\ DOMAIN f = 1..n
<1>1. f \in Seq(S) /\ DOMAIN f = 1..n
  BY IsASeq
<1> QED BY <1>1, LenProperties

LEMMA ListFacts ==
  ASSUME NEW S, NEW s \in Seq(S)
  PROVE  /\ Len(s) \in Nat /\ DOMAIN s = 1..Len(s) /\ s \in [1..Len(s) -> S]
         /\ \A i \in DOMAIN s : s[i] \in S /\ i \in Nat
BY LenProperties

\* The place with n kept ones up to it is the n-th.
LEMMA NthIs ==
  ASSUME NEW n \in Nat, NEW at \in SUBSET (1..n), NEW i \in at
  PROVE  /\ Cardinality({j \in at : j <= i}) \in 1..Cardinality(at)
         /\ Nth(at, Cardinality({j \in at : j <= i})) = i
<1> DEFINE Upto(r) == {j \in at : j <= r}
<1>1. IsFiniteSet(at) /\ \A r \in at : r \in Nat
  <2>1. IsFiniteSet(1..n)
    BY FS_Interval
  <2>2. IsFiniteSet(at)
    BY <2>1, FS_Subset
  <2> QED BY <2>2
<1>2. \A r \in at : IsFiniteSet(Upto(r)) /\ Cardinality(Upto(r)) \in Nat
        /\ Cardinality(Upto(r)) <= Cardinality(at)
  BY <1>1, FS_Subset, FS_CardinalityType
<1>3. ASSUME NEW r \in at, NEW s \in at, r < s
      PROVE  Cardinality(Upto(r)) < Cardinality(Upto(s))
  <2>1. Upto(r) \in SUBSET Upto(s) /\ s \in Upto(s) /\ s \notin Upto(r)
    <3>1. r \in Nat /\ s \in Nat
      BY <1>1
    <3>2. \A t \in at : t <= r => t <= s
      BY <1>1, <1>3, <3>1
    <3>3. ~(s <= r) /\ s <= s
      BY <1>3, <3>1
    <3> QED BY <3>2, <3>3
  <2> HIDE DEF Upto
  <2>2. Cardinality(Upto(r)) <= Cardinality(Upto(s)) /\ Cardinality(Upto(r)) # Cardinality(Upto(s))
    BY <1>2, <2>1, FS_Subset
  <2> QED BY <1>2, <2>2
<1>4. Cardinality(Upto(i)) # 0
  <2>1. i \in Upto(i)
    BY <1>1
  <2> HIDE DEF Upto
  <2> QED BY <1>2, <2>1, FS_EmptySet
<1>5. \A r \in at : Cardinality(Upto(r)) = Cardinality(Upto(i)) => r = i
  <2> HIDE DEF Upto
  <2> TAKE r \in at
  <2>1. r = i \/ r < i \/ i < r
    BY <1>1
  <2> QED BY <1>2, <1>3, <2>1
<1>6. Nth(at, Cardinality(Upto(i))) = i
  BY <1>5 DEF Nth
<1>7. Cardinality(Upto(i)) \in 1..Cardinality(at)
  <2> HIDE DEF Upto
  <2>1. Cardinality(at) \in Nat
    BY <1>1, FS_CardinalityType
  <2> QED BY <1>2, <1>4, <2>1
<1> QED BY <1>6, <1>7

LEMMA NthCounts ==
  ASSUME NEW n \in Nat, NEW at \in SUBSET (1..n)
  PROVE  /\ IsFiniteSet(at) /\ Cardinality(at) \in Nat
         /\ \A k \in 1..Cardinality(at) : Nth(at, k) \in at
              /\ Cardinality({j \in at : j <= Nth(at, k)}) = k
<1> DEFINE N == Cardinality(at)
           Rank1 == [r \in at |-> Cardinality({j \in at : j <= r})]
<1>1. IsFiniteSet(at) /\ N \in Nat
  <2>1. IsFiniteSet(1..n)
    BY FS_Interval
  <2> QED BY <2>1, FS_Subset, FS_CardinalityType
<1>2. \A r \in at : Rank1[r] \in 1..N /\ Nth(at, Rank1[r]) = r
  BY NthIs
<1>3. \A k \in 1..N : \E r \in at : Rank1[r] = k
  <2> HIDE DEF Rank1
  <2>1. Rank1 \in Injection(at, 1..N)
    <3>1. \A r, s \in at : Rank1[r] = Rank1[s] => r = s
      BY <1>2
    <3>2. Rank1 \in [at -> 1..N]
      BY <1>2 DEF Rank1
    <3> QED BY <3>1, <3>2 DEF Injection, IsInjective
  <2>2. IsFiniteSet(1..N) /\ Cardinality(1..N) = N
    BY <1>1, FS_Interval
  <2>3. Rank1 \in Surjection(at, 1..N)
    BY <1>1, <2>1, <2>2, FS_Injection
  <2> QED BY <2>3 DEF Surjection
<1>4. ASSUME NEW k \in 1..N
      PROVE  Nth(at, k) \in at /\ Cardinality({j \in at : j <= Nth(at, k)}) = k
  <2>1. PICK r \in at : Rank1[r] = k
    BY <1>3
  <2>2. Nth(at, k) = r
    BY <1>2, <2>1
  <2> QED BY <2>1, <2>2
<1> QED BY <1>1, <1>4

\* What is kept is there, once, and nothing else.
LEMMA OnlyIs ==
  ASSUME NEW S, NEW seq \in Seq(S), NEW at \in SUBSET DOMAIN seq
  PROVE  /\ Cardinality(at) \in Nat
         /\ Only(seq, at) \in Seq(S) /\ DOMAIN Only(seq, at) = 1..Cardinality(at)
         /\ Len(Only(seq, at)) = Cardinality(at)
         /\ \A n \in DOMAIN Only(seq, at) : Nth(at, n) \in at /\ Only(seq, at)[n] = seq[Nth(at, n)]
         /\ \A n, k \in DOMAIN Only(seq, at) : Nth(at, n) = Nth(at, k) => n = k
         /\ \A i \in at : \E n \in DOMAIN Only(seq, at) : Nth(at, n) = i
<1>1. Len(seq) \in Nat /\ DOMAIN seq = 1..Len(seq) /\ \A i \in DOMAIN seq : seq[i] \in S
  BY ListFacts
<1>2. /\ Cardinality(at) \in Nat
      /\ \A k \in 1..Cardinality(at) : Nth(at, k) \in at
           /\ Cardinality({j \in at : j <= Nth(at, k)}) = k
  BY <1>1, NthCounts
<1>3. \A i \in at : Cardinality({j \in at : j <= i}) \in 1..Cardinality(at)
                    /\ Nth(at, Cardinality({j \in at : j <= i})) = i
  BY <1>1, NthIs
<1>4. Only(seq, at) \in [1..Cardinality(at) -> S]
  BY <1>1, <1>2 DEF Only
<1>5. Only(seq, at) \in Seq(S) /\ DOMAIN Only(seq, at) = 1..Cardinality(at)
        /\ Len(Only(seq, at)) = Cardinality(at)
  BY <1>2, <1>4, ListOf
<1>6. \A n \in DOMAIN Only(seq, at) : Nth(at, n) \in at /\ Only(seq, at)[n] = seq[Nth(at, n)]
  BY <1>2, <1>5 DEF Only
<1>7. ASSUME NEW n \in 1..Cardinality(at), NEW k \in 1..Cardinality(at), Nth(at, n) = Nth(at, k)
      PROVE  n = k
  BY <1>2, <1>7
<1> QED BY <1>2, <1>3, <1>5, <1>6, <1>7

LEMMA OnlyRange ==
  ASSUME NEW S, NEW seq \in Seq(S), NEW at \in SUBSET DOMAIN seq
  PROVE  Range(Only(seq, at)) = {seq[i] : i \in at}
<1>0. /\ \A n \in DOMAIN Only(seq, at) : Nth(at, n) \in at /\ Only(seq, at)[n] = seq[Nth(at, n)]
      /\ \A i \in at : \E n \in DOMAIN Only(seq, at) : Nth(at, n) = i
  BY OnlyIs
<1>1. \A x \in Range(Only(seq, at)) : x \in {seq[i] : i \in at}
  BY <1>0 DEF Range
<1>2. ASSUME NEW i \in at PROVE seq[i] \in Range(Only(seq, at))
  <2>1. PICK n \in DOMAIN Only(seq, at) : Nth(at, n) = i
    BY <1>0
  <2> QED BY <1>0, <2>1 DEF Range
<1> QED BY <1>1, <1>2

LEMMA OnlyNone ==
  ASSUME NEW seq
  PROVE  Only(seq, {}) = <<>>
<1>1. Cardinality({}) = 0
  BY FS_EmptySet
<1> QED BY <1>1 DEF Only

LEMMA OnlyAll ==
  ASSUME NEW S, NEW seq \in Seq(S)
  PROVE  Only(seq, DOMAIN seq) = seq
<1> DEFINE at == DOMAIN seq
           new == Only(seq, at)
<1>1. Len(seq) \in Nat /\ at = 1..Len(seq) /\ seq \in [1..Len(seq) -> S]
  BY ListFacts
<1>2. Cardinality(at) = Len(seq)
  BY <1>1, FS_Interval
<1>3. ASSUME NEW i \in at PROVE Nth(at, i) = i
  <2>1. {j \in at : j <= i} = 1..i
    BY <1>1
  <2>2. Cardinality(1..i) = i
    BY <1>1, FS_Interval
  <2>3. Nth(at, Cardinality({j \in at : j <= i})) = i
    BY <1>1, NthIs
  <2> QED BY <2>1, <2>2, <2>3
<1>4. \A i \in at : new[i] = seq[i]
  BY <1>1, <1>2, <1>3 DEF Only
<1>5. new \in Seq(S) /\ Len(new) = Len(seq)
  BY <1>2, OnlyIs
<1> HIDE DEF new
<1>6. new = seq
  BY <1>1, <1>4, <1>5, SeqEqual
<1> QED BY <1>6 DEF new

LEMMA OnlyInjective ==
  ASSUME NEW S, NEW seq \in Seq(S), NEW at \in SUBSET DOMAIN seq,
         \A i, j \in at : seq[i] = seq[j] => i = j
  PROVE  IsInjective(Only(seq, at))
<1>0. /\ \A n \in DOMAIN Only(seq, at) : Nth(at, n) \in at /\ Only(seq, at)[n] = seq[Nth(at, n)]
      /\ \A n, k \in DOMAIN Only(seq, at) : Nth(at, n) = Nth(at, k) => n = k
  BY OnlyIs
<1> QED BY <1>0 DEF IsInjective

LEMMA RangeOf ==
  ASSUME NEW S, NEW seq \in Seq(S)
  PROVE  Range(seq) \in SUBSET S
BY ListFacts DEF Range

LEMMA ConcatFacts ==
  ASSUME NEW S, NEW a \in Seq(S), NEW b \in Seq(S)
  PROVE  /\ a \o b \in Seq(S) /\ Len(a \o b) = Len(a) + Len(b)
              /\ DOMAIN (a \o b) = 1..(Len(a) + Len(b))
         /\ \A i \in DOMAIN a : i \in DOMAIN (a \o b) /\ (a \o b)[i] = a[i]
         /\ \A i \in DOMAIN b : Len(a) + i \in DOMAIN (a \o b) /\ (a \o b)[Len(a) + i] = b[i]
         /\ \A i \in DOMAIN (a \o b) :
              i \in DOMAIN a \/ (i - Len(a) \in DOMAIN b /\ i = Len(a) + (i - Len(a)))
<1> DEFINE c == a \o b
<1>1. /\ c \in Seq(S) /\ Len(c) = Len(a) + Len(b)
      /\ \A i \in 1..(Len(a) + Len(b)) : c[i] = IF i <= Len(a) THEN a[i] ELSE b[i - Len(a)]
  BY ConcatProperties
<1>2. /\ Len(a) \in Nat /\ DOMAIN a = 1..Len(a) /\ Len(b) \in Nat /\ DOMAIN b = 1..Len(b)
  BY LenProperties
<1>3. DOMAIN c = 1..(Len(a) + Len(b))
  BY <1>1, LenProperties
<1> HIDE DEF c
<1>4. ASSUME NEW i \in DOMAIN a PROVE i \in DOMAIN c /\ c[i] = a[i]
  BY <1>1, <1>2, <1>3
<1>5. ASSUME NEW i \in DOMAIN b PROVE Len(a) + i \in DOMAIN c /\ c[Len(a) + i] = b[i]
  <2>1. Len(a) + i \in 1..(Len(a) + Len(b)) /\ ~(Len(a) + i <= Len(a)) /\ (Len(a) + i) - Len(a) = i
    BY <1>2
  <2> QED BY <1>1, <1>3, <2>1
<1>6. ASSUME NEW i \in DOMAIN c
      PROVE  i \in DOMAIN a \/ (i - Len(a) \in DOMAIN b /\ i = Len(a) + (i - Len(a)))
  BY <1>2, <1>3
<1> QED BY <1>1, <1>3, <1>4, <1>5, <1>6 DEF c

LEMMA ConcatRange ==
  ASSUME NEW S, NEW a \in Seq(S), NEW b \in Seq(S)
  PROVE  Range(a \o b) = Range(a) \union Range(b)
<1> DEFINE c == a \o b
<1>0. /\ \A i \in DOMAIN a : i \in DOMAIN c /\ c[i] = a[i]
      /\ \A i \in DOMAIN b : Len(a) + i \in DOMAIN c /\ c[Len(a) + i] = b[i]
      /\ \A i \in DOMAIN c : i \in DOMAIN a
           \/ (i - Len(a) \in DOMAIN b /\ i = Len(a) + (i - Len(a)))
  BY ConcatFacts
<1> HIDE DEF c
<1>1. \A x \in Range(a) \union Range(b) : x \in Range(c)
  BY <1>0 DEF Range
<1>2. ASSUME NEW i \in DOMAIN c PROVE c[i] \in Range(a) \union Range(b)
  <2>1. CASE i \in DOMAIN a
    BY <1>0, <2>1 DEF Range
  <2>2. CASE i - Len(a) \in DOMAIN b /\ i = Len(a) + (i - Len(a))
    <3>1. c[i] = b[i - Len(a)]
      BY <1>0, <2>2
    <3> QED BY <2>2, <3>1 DEF Range
  <2> QED BY <1>0, <2>1, <2>2
<1>3. \A x \in Range(c) : x \in Range(a) \union Range(b)
  BY <1>2 DEF Range
<1> QED BY <1>1, <1>3 DEF c

LEMMA ConcatInjective ==
  ASSUME NEW S, NEW a \in Seq(S), NEW b \in Seq(S), IsInjective(a), IsInjective(b),
         Range(a) \intersect Range(b) = {}
  PROVE  IsInjective(a \o b)
<1> DEFINE c == a \o b
<1>0. /\ \A i \in DOMAIN a : i \in DOMAIN c /\ c[i] = a[i]
      /\ \A i \in DOMAIN b : Len(a) + i \in DOMAIN c /\ c[Len(a) + i] = b[i]
      /\ \A i \in DOMAIN c : i \in DOMAIN a
           \/ (i - Len(a) \in DOMAIN b /\ i = Len(a) + (i - Len(a)))
  BY ConcatFacts
<1> HIDE DEF c
<1>1. ASSUME NEW i \in DOMAIN c, NEW j \in DOMAIN c, c[i] = c[j]  PROVE i = j
  <2>1. CASE i \in DOMAIN a /\ j \in DOMAIN a
    BY <1>0, <1>1, <2>1 DEF IsInjective
  <2>2. CASE i \in DOMAIN a /\ j \notin DOMAIN a
    <3>1. c[i] \in Range(a) /\ c[j] \in Range(b)
      BY <1>0, <2>2 DEF Range
    <3> QED BY <1>1, <3>1
  <2>3. CASE i \notin DOMAIN a /\ j \in DOMAIN a
    <3>1. c[j] \in Range(a) /\ c[i] \in Range(b)
      BY <1>0, <2>3 DEF Range
    <3> QED BY <1>1, <3>1
  <2>4. CASE i \notin DOMAIN a /\ j \notin DOMAIN a
    <3>1. c[i] = b[i - Len(a)] /\ c[j] = b[j - Len(a)] /\ i - Len(a) \in DOMAIN b
            /\ j - Len(a) \in DOMAIN b
      BY <1>0, <2>4
    <3>2. i - Len(a) = j - Len(a)
      BY <1>1, <3>1 DEF IsInjective
    <3> QED BY <1>0, <2>4, <3>2
  <2> QED BY <2>1, <2>2, <2>3, <2>4
<1> QED BY <1>1 DEF c, IsInjective

\* Some of a list, and all of another after it.
LEMMA OnlyConcat ==
  ASSUME NEW S, NEW a \in Seq(S), NEW b \in Seq(S), NEW at \in SUBSET DOMAIN a
  PROVE  Only(a \o b, at \union (Len(a) + 1 .. Len(a) + Len(b))) = Only(a, at) \o b
<1> DEFINE c == a \o b
           N == Cardinality(at)
           bt == Len(a) + 1 .. Len(a) + Len(b)
           ct == at \union bt
           new == Only(a, at) \o b
<1>1. /\ Len(a) \in Nat /\ DOMAIN a = 1..Len(a) /\ Len(b) \in Nat /\ DOMAIN b = 1..Len(b)
      /\ \A i \in DOMAIN a : i \in Nat
  BY ListFacts
<1>2. /\ c \in Seq(S) /\ DOMAIN c = 1..(Len(a) + Len(b))
      /\ \A i \in DOMAIN a : c[i] = a[i]
      /\ \A i \in DOMAIN b : c[Len(a) + i] = b[i]
  BY ConcatFacts
<1>3. /\ N \in Nat /\ Only(a, at) \in Seq(S) /\ Len(Only(a, at)) = N /\ DOMAIN Only(a, at) = 1..N
      /\ \A n \in 1..N : Nth(at, n) \in at /\ Only(a, at)[n] = a[Nth(at, n)]
  BY OnlyIs
<1>4. /\ IsFiniteSet(at)
      /\ \A k \in 1..N : Nth(at, k) \in at /\ Cardinality({j \in at : j <= Nth(at, k)}) = k
  BY <1>1, NthCounts
<1>5. ct \in SUBSET (1..(Len(a) + Len(b))) /\ at \intersect bt = {}
  BY <1>1
<1>6. ASSUME NEW k \in Nat, k <= Len(b)
      PROVE  IsFiniteSet(Len(a) + 1 .. Len(a) + k) /\ Cardinality(Len(a) + 1 .. Len(a) + k) = k
  <2> DEFINE lo == Len(a) + 1
             hi == Len(a) + k
  <2>1. lo \in Int /\ hi \in Int /\ (lo > hi => k = 0) /\ (~(lo > hi) => hi - lo + 1 = k)
    BY <1>1
  <2> HIDE DEF lo, hi
  <2>2. IsFiniteSet(lo..hi) /\ Cardinality(lo..hi) = IF lo > hi THEN 0 ELSE hi - lo + 1
    BY <2>1, FS_Interval
  <2>3. IsFiniteSet(lo..hi) /\ Cardinality(lo..hi) = k
    BY <2>1, <2>2
  <2> QED BY <2>3 DEF lo, hi
<1>8. ASSUME NEW k \in Nat, k <= Len(b)
      PROVE  Cardinality(at \union (Len(a) + 1 .. Len(a) + k)) = N + k
  <2> DEFINE part == Len(a) + 1 .. Len(a) + k
  <2>1. at \intersect part = {}
    BY <1>1
  <2>4. IsFiniteSet(part) /\ Cardinality(part) = k
    BY <1>6, <1>8
  <2> HIDE DEF part, N
  <2>2. Cardinality(at \union part)
          = Cardinality(at) + Cardinality(part) - Cardinality(at \intersect part)
    BY <1>4, <2>4, FS_Union
  <2>3. Cardinality(at \intersect part) = 0
    BY <2>1, FS_EmptySet
  <2> USE DEF N
  <2> HIDE DEF part
  <2>5. Cardinality(at \union part) = N + k
    BY <1>3, <2>2, <2>3, <2>4
  <2> QED BY <2>5 DEF part
<1>9. Cardinality(ct) = N + Len(b)
  BY <1>1, <1>8
<1>10. ASSUME NEW i \in ct PROVE Nth(ct, Cardinality({j \in ct : j <= i})) = i
  <2>1. Len(a) + Len(b) \in Nat /\ ct \in SUBSET (1..(Len(a) + Len(b)))
    BY <1>1, <1>5
  <2> HIDE DEF ct
  <2> QED BY <2>1, NthIs
<1>11. ASSUME NEW n \in 1..N PROVE Nth(ct, n) = Nth(at, n)
  <2> DEFINE i == Nth(at, n)
  <2>0. i \in at
    BY <1>4
  <2>1. i \in at /\ i \in ct /\ i <= Len(a) /\ i \in Nat
    <3> HIDE DEF i
    <3> QED BY <1>1, <2>0
  <2>2. {j \in ct : j <= i} = {j \in at : j <= i}
    <3> HIDE DEF i
    <3> QED BY <1>1, <2>1
  <2> QED BY <1>4, <1>10, <2>1, <2>2
<1>12. ASSUME NEW k \in 1..Len(b) PROVE Nth(ct, N + k) = Len(a) + k
  <2>1. Len(a) + k \in ct /\ \A j \in at : j <= Len(a) + k
    BY <1>1
  <2>2. {j \in ct : j <= Len(a) + k} = at \union (Len(a) + 1 .. Len(a) + k)
    <3>1. \A j : j \in bt /\ j <= Len(a) + k <=> j \in Len(a) + 1 .. Len(a) + k
      BY <1>1
    <3> HIDE DEF bt
    <3> QED BY <2>1, <3>1
  <2>3. Cardinality({j \in ct : j <= Len(a) + k}) = N + k
    <3>1. k \in Nat /\ k <= Len(b)
      BY <1>1
    <3> HIDE DEF N, ct
    <3>2. Cardinality(at \union (Len(a) + 1 .. Len(a) + k)) = N + k
      BY <1>8, <3>1
    <3> QED BY <2>2, <3>2
  <2>4. Nth(ct, Cardinality({j \in ct : j <= Len(a) + k})) = Len(a) + k
    BY <1>10, <2>1
  <2> QED BY <2>3, <2>4
<1>13. /\ new \in Seq(S) /\ Len(new) = N + Len(b)
       /\ \A n \in 1..N : new[n] = Only(a, at)[n]
       /\ \A k \in DOMAIN b : new[N + k] = b[k]
  <2> DEFINE few == Only(a, at)
  <2>0. few \in Seq(S) /\ Len(few) = N /\ DOMAIN few = 1..N
    BY <1>3
  <2> HIDE DEF few
  <2>1. /\ few \o b \in Seq(S) /\ Len(few \o b) = Len(few) + Len(b)
        /\ \A n \in DOMAIN few : (few \o b)[n] = few[n]
        /\ \A k \in DOMAIN b : (few \o b)[Len(few) + k] = b[k]
    <3>1. \A f, g \in Seq(S) :
            /\ f \o g \in Seq(S) /\ Len(f \o g) = Len(f) + Len(g)
            /\ \A n \in DOMAIN f : (f \o g)[n] = f[n]
            /\ \A k \in DOMAIN g : (f \o g)[Len(f) + k] = g[k]
      BY ConcatFacts
    <3> HIDE DEF N, new
    <3> QED BY <2>0, <3>1
  <2> QED BY <2>0, <2>1 DEF few
<1>14. ct \in SUBSET DOMAIN c
  BY <1>2, <1>5
<1>15. /\ Only(c, ct) \in Seq(S) /\ Len(Only(c, ct)) = N + Len(b)
       /\ \A n \in 1..(N + Len(b)) : Only(c, ct)[n] = c[Nth(ct, n)]
  <2>1. /\ Only(c, ct) \in Seq(S) /\ Len(Only(c, ct)) = Cardinality(ct)
             /\ DOMAIN Only(c, ct) = 1..Cardinality(ct)
        /\ \A n \in DOMAIN Only(c, ct) : Only(c, ct)[n] = c[Nth(ct, n)]
    <3> HIDE DEF c, ct
    <3> QED BY <1>2, <1>14, OnlyIs
  <2> QED BY <1>9, <2>1
<1> HIDE DEF new, c, ct, bt, N
<1>16. ASSUME NEW n \in 1..(N + Len(b)) PROVE Only(c, ct)[n] = new[n]
  <2>1. CASE n \in 1..N
    <3>1. Nth(at, n) \in at /\ Nth(at, n) \in DOMAIN a
      BY <1>3, <2>1
    <3>2. n \in 1..(N + Len(b))
      BY <1>1, <1>3, <2>1
    <3>3. Only(c, ct)[n] = c[Nth(at, n)] /\ c[Nth(at, n)] = a[Nth(at, n)]
      BY <1>2, <1>11, <1>15, <2>1, <3>1, <3>2
    <3> QED BY <1>3, <1>13, <2>1, <3>3
  <2>2. CASE n \notin 1..N
    <3> DEFINE k == n - N
    <3>1. k \in 1..Len(b) /\ k \in DOMAIN b /\ n = N + k
      BY <1>1, <1>3, <2>2
    <3> HIDE DEF k
    <3>2. Only(c, ct)[n] = c[Len(a) + k] /\ new[n] = b[k]
      BY <1>12, <1>13, <1>15, <3>1
    <3> QED BY <1>2, <3>1, <3>2
  <2> QED BY <2>1, <2>2
<1>17. Only(c, ct) = new
  BY <1>13, <1>15, <1>16, SeqEqual
<1> QED BY <1>17 DEF new, c, ct, bt

\* Lists put one after the other.
LEMMA FlattenIs ==
  ASSUME NEW S, NEW lists \in Seq(Seq(S))
  PROVE  /\ FlattenSeq(lists) \in Seq(S)
         /\ Range(FlattenSeq(lists)) = UNION {Range(lists[i]) : i \in DOMAIN lists}
<1> DEFINE N == Len(lists)
           Fits(f, n) == f = [i \in 1..n |-> IF i = 1 THEN lists[i] ELSE f[i - 1] \o lists[i]]
           Bad == {n \in 0..N : ~ \E f : Fits(f, n)}
<1>0. N \in Nat /\ DOMAIN lists = 1..N /\ \A i \in 1..N : lists[i] \in Seq(S)
  BY ListFacts
<1>1. \E f : Fits(f, 0)
  <2>1. Fits([i \in 1..0 |-> 0], 0)
    OBVIOUS
  <2> QED BY <2>1
<1>2. ASSUME NEW n \in 0..N, n # 0, NEW f, Fits(f, n - 1)
      PROVE  \E g : Fits(g, n)
  <2> DEFINE g == [i \in 1..n |-> IF i < n THEN f[i] ELSE IF n = 1 THEN lists[n]
               ELSE f[n - 1] \o lists[n]]
             h == [i \in 1..n |-> IF i = 1 THEN lists[i] ELSE g[i - 1] \o lists[i]]
  <2>1. ASSUME NEW i \in 1..n  PROVE g[i] = h[i]
    <3>1. CASE i < n
      <4>1. i \in 1..(n - 1) /\ g[i] = f[i] /\ (i # 1 => g[i - 1] = f[i - 1])
        BY <1>0, <1>2, <3>1
      <4>2. f[i] = IF i = 1 THEN lists[i] ELSE f[i - 1] \o lists[i]
        BY <1>2, <4>1
      <4> QED BY <4>1, <4>2
    <3>2. CASE i = n
      <4>1. n # 1 => g[n - 1] = f[n - 1]
        BY <1>0, <1>2
      <4> QED BY <1>0, <1>2, <3>2, <4>1
    <3> QED BY <1>0, <1>2, <3>1, <3>2
  <2>2. g = h
    BY <2>1
  <2> QED BY <2>2
<1> HIDE DEF Fits
<1>3. Bad = {}
  <2>0. SUFFICES ASSUME Bad # {}  PROVE FALSE
    OBVIOUS
  <2>1. Bad \in SUBSET Nat
    <3> HIDE DEF N
    <3> QED BY <1>0
  <2> HIDE DEF Bad
  <2>2. PICK n \in Bad : \A k \in Bad : n <= k
    BY <2>0, <2>1, LeastNumber
  <2> USE DEF Bad
  <2>3. n \in 0..N /\ n # 0 /\ ~ \E f : Fits(f, n)
    BY <2>2, <1>1
  <2>4. n - 1 \in 0..N /\ ~(n <= n - 1)
    BY <1>0, <2>3
  <2>5. PICK f : Fits(f, n - 1)
    BY <2>2, <2>4
  <2> QED BY <1>2, <2>3, <2>5
<1> HIDE DEF Bad
<1>4. \E f : Fits(f, N)
  <2>1. N \in 0..N /\ N \notin Bad
    <3> HIDE DEF N
    <3> QED BY <1>0, <1>3
  <2> QED BY <2>1 DEF Bad
<1> DEFINE flat == CHOOSE f : Fits(f, N)
<1>5. Fits(flat, N)
  BY <1>4
<1>6. FlattenSeq(lists) = IF N = 0 THEN lists ELSE flat[N]
  BY DEF FlattenSeq, Fits
<1> HIDE DEF flat
<1>7. \A i \in 1..N : flat[i] = IF i = 1 THEN lists[i] ELSE flat[i - 1] \o lists[i]
  BY <1>5 DEF Fits
<1> DEFINE Right(i) == flat[i] \in Seq(S) /\ Range(flat[i]) = UNION {Range(lists[j]) : j \in 1..i}
           Wrong == {i \in 1..N : ~Right(i)}
<1>8. Wrong = {}
  <2>0. SUFFICES ASSUME Wrong # {}  PROVE FALSE
    OBVIOUS
  <2>1. Wrong \in SUBSET Nat
    BY <1>0
  <2> HIDE DEF Wrong
  <2>2. PICK n \in Wrong : \A k \in Wrong : n <= k
    BY <2>0, <2>1, LeastNumber
  <2>3. n \in 1..N /\ n \in Nat /\ ~Right(n)
    BY <1>0, <2>2 DEF Wrong
  <2>4. CASE n = 1
    <3>1. flat[1] = lists[1]
      BY <1>7, <2>3, <2>4
    <3>2. \A j : j \in 1..1 <=> j = 1
      OBVIOUS
    <3>3. UNION {Range(lists[j]) : j \in 1..1} = Range(lists[1])
      BY <3>2
    <3> QED BY <1>0, <2>3, <2>4, <3>1, <3>3
  <2>5. CASE n # 1
    <3>1. n - 1 \in 1..N /\ ~(n <= n - 1)
      BY <1>0, <2>3, <2>5
    <3>2. Right(n - 1)
      BY <2>2, <3>1 DEF Wrong
    <3>3. flat[n] = flat[n - 1] \o lists[n] /\ lists[n] \in Seq(S)
      BY <1>0, <1>7, <2>3, <2>5
    <3>4. \A j : j \in 1..n <=> j \in 1..(n - 1) \/ j = n
      BY <2>3
    <3>5. UNION {Range(lists[j]) : j \in 1..n}
          = (UNION {Range(lists[j]) : j \in 1..(n - 1)}) \union Range(lists[n])
      BY <3>4
    <3>6. \A a, b \in Seq(S) : a \o b \in Seq(S) /\ Range(a \o b) = Range(a) \union Range(b)
      BY ConcatFacts, ConcatRange
    <3>7. flat[n] \in Seq(S) /\ Range(flat[n]) = Range(flat[n - 1]) \union Range(lists[n])
      BY <3>2, <3>3, <3>6
    <3> QED BY <2>3, <3>2, <3>5, <3>7
  <2> QED BY <2>4, <2>5
<1>9. CASE N = 0
  <2>1. lists = <<>>
    BY <1>9, EmptySeq
  <2>2. DOMAIN lists = {}
    BY <1>0, <1>9
  <2>3. FlattenSeq(lists) = <<>> /\ lists = <<>>
    BY <1>6, <1>9, <2>1
  <2>4. <<>> \in Seq(S) /\ Range(lists) = {}
    BY <2>2 DEF Range
  <2> QED BY <2>2, <2>3, <2>4
<1>10. CASE N # 0
  <2>1. N \in 1..N /\ N \notin Wrong
    <3> HIDE DEF N, Wrong
    <3> QED BY <1>0, <1>8, <1>10
  <2>2. Right(N)
    BY <2>1
  <2> QED BY <1>0, <1>6, <1>10, <2>2
<1> QED BY <1>9, <1>10

-----------------------------------------------------------------------------
(* Counting.                                                               *)

\* A set that holds another and something more has more members.
LEMMA StrictlyMore ==
  ASSUME NEW T, IsFiniteSet(T), NEW S \in SUBSET T, NEW x \in T, x \notin S
  PROVE  /\ IsFiniteSet(S) /\ Cardinality(S) \in Nat /\ Cardinality(T) \in Nat
         /\ Cardinality(S) < Cardinality(T)
<1>1. IsFiniteSet(S) /\ Cardinality(S) <= Cardinality(T) /\ Cardinality(S) # Cardinality(T)
  BY FS_Subset
<1>2. Cardinality(S) \in Nat /\ Cardinality(T) \in Nat
  BY <1>1, FS_CardinalityType
<1> QED BY <1>1, <1>2

\* The places of a form are finitely many.
LEMMA FewPlaces ==
  ASSUME NEW n \in Nat, NEW D, \A t \in 1..n : IsFiniteSet(D[t])
  PROVE  IsFiniteSet(UNION {{t} \X D[t] : t \in 1..n})
<1> DEFINE P == {{t} \X D[t] : t \in 1..n}
           f == [t \in 1..n |-> {t} \X D[t]]
<1>1. IsFiniteSet(P)
  <2>1. f \in Surjection(1..n, P)
    BY DEF Surjection
  <2> HIDE DEF f, P
  <2>0. 1 \in Int /\ n \in Int
    OBVIOUS
  <2>2. IsFiniteSet(1..n)
    BY <2>0, FS_Interval
  <2> QED BY <2>1, <2>2, FS_Surjection
<1>2. ASSUME NEW t \in 1..n PROVE IsFiniteSet({t} \X D[t])
  <2>1. IsFiniteSet({t}) /\ IsFiniteSet(D[t])
    BY FS_Singleton
  <2> QED BY <2>1, FS_Product
<1>3. \A T \in P : IsFiniteSet(T)
  BY <1>2
<1> QED BY <1>1, <1>3, FS_UNION

-----------------------------------------------------------------------------
(* The registry, and the form stored over it.                              *)

LEMMA RegistryFacts ==
  ASSUME FormAssumption
  PROVE  /\ Len(Registry) \in Nat /\ Steps = 1..Len(Registry)
         /\ \A s \in Steps : /\ Registry[s] \in Seq(Builtins) /\ Registry[s] \in Seq(Keys)
                             /\ IsInjective(Registry[s]) /\ Range(Registry[s]) \subseteq Builtins
         /\ \A k \in Builtins : \E s \in Steps : k \in Range(Registry[s])
         /\ \A s, t \in Steps : \A k : k \in Range(Registry[s]) /\ k \in Range(Registry[t]) => s = t
         /\ \A k \in Range(CustomKeys) : k \notin Builtins /\ k # Fresh
         /\ Fresh \notin Builtins
<1>1. /\ Len(Registry) \in Nat /\ Steps = 1..Len(Registry)
      /\ \A s \in Steps : Registry[s] \in Seq(Builtins)
  BY LenProperties DEF FormAssumption, Steps
<1>2. \A s \in Steps : Range(Registry[s]) \subseteq Builtins
  BY DEF Builtins
<1>3. \A s \in Steps : Registry[s] \in Seq(Keys)
  BY <1>1, SeqMonotonic DEF Keys
<1>4. \A s, t \in Steps : \A i \in DOMAIN Registry[s], j \in DOMAIN Registry[t] :
        Registry[s][i] = Registry[t][j] => s = t /\ i = j
  BY DEF FormAssumption
<1>5. \A s \in Steps : IsInjective(Registry[s])
  BY <1>4 DEF IsInjective
<1>6. \A k \in Builtins : \E s \in Steps : k \in Range(Registry[s])
  BY DEF Builtins
<1>7. \A s, t \in Steps : \A k : k \in Range(Registry[s]) /\ k \in Range(Registry[t]) => s = t
  BY <1>4 DEF Range
<1>8. \A k \in Range(CustomKeys) : k \notin Builtins /\ k # Fresh
  BY DEF FormAssumption
<1>9. Fresh \notin Builtins
  BY DEF FormAssumption
<1> QED BY <1>1, <1>2, <1>3, <1>5, <1>6, <1>7, <1>8, <1>9

LEMMA KeysOfIs ==
  ASSUME NEW S, NEW T, \A x \in S : x.key \in T, NEW seq \in Seq(S)
  PROVE  /\ KeysOf(seq) \in Seq(T) /\ Len(KeysOf(seq)) = Len(seq) /\ DOMAIN KeysOf(seq) = DOMAIN seq
         /\ \A i \in DOMAIN seq : KeysOf(seq)[i] = seq[i].key
         /\ Range(KeysOf(seq)) = {x.key : x \in Range(seq)}
<1>1. Len(seq) \in Nat /\ DOMAIN seq = 1..Len(seq) /\ \A i \in DOMAIN seq : seq[i] \in S
  BY ListFacts
<1>2. KeysOf(seq) \in [1..Len(seq) -> T]
  BY <1>1 DEF KeysOf
<1>3. KeysOf(seq) \in Seq(T) /\ Len(KeysOf(seq)) = Len(seq) /\ DOMAIN KeysOf(seq) = 1..Len(seq)
  BY <1>1, <1>2, ListOf
<1>4. \A i \in DOMAIN seq : KeysOf(seq)[i] = seq[i].key
  BY DEF KeysOf
<1>5. Range(KeysOf(seq)) = {x.key : x \in Range(seq)}
  BY <1>1, <1>3, <1>4 DEF Range
<1> QED BY <1>1, <1>3, <1>4, <1>5

\* The questions that stand in a step.
Placed(s, o) == {k \in Range(Registry[s]) : k \notin o.removed}
                  \union {k \in Range(CustomKeys) : \E c \in Range(o.custom) : c.key = k
                    /\ c.step = s}

LEMMA StoredFacts ==
  ASSUME NEW o, WellStored(o)
  PROVE  /\ DOMAIN o.q \subseteq Builtins /\ \A k \in DOMAIN o.q : o.q[k] \in StoredQuestion
         /\ \A s \in Steps : o.order[s] \in Seq(Keys) /\ IsInjective(o.order[s])
         /\ o.removed \subseteq Builtins
         /\ o.custom \in Seq(AddedQuestion)
         /\ \A c \in Range(o.custom) : /\ c \in AddedQuestion /\ c.key \in Range(CustomKeys)
                                       /\ c.step \in Steps
                                       /\ c.type \in Types /\ c.label \in Texts
                                            /\ c.required \in BOOLEAN
                                       /\ c.key \in Range(o.order[c.step])
         /\ \A c, d \in Range(o.custom) : c.key = d.key => c = d
<1>1. o.custom \in Seq(AddedQuestion) /\ Range(o.custom) \in SUBSET AddedQuestion
  BY RangeOf DEF WellStored
<1>2. \A c \in Range(o.custom) : /\ c \in AddedQuestion /\ c.key \in Range(CustomKeys)
                                 /\ c.step \in Steps
                                 /\ c.type \in Types /\ c.label \in Texts /\ c.required \in BOOLEAN
  BY <1>1 DEF AddedQuestion
<1> QED BY <1>1, <1>2 DEF WellStored

\* The built-in part and the added part of stepEntries' "valid" list.
LEMMA ValidIs ==
  ASSUME FormAssumption, NEW o, WellStored(o), NEW s \in Steps
  PROVE  /\ Valid(s, o) \in Seq(Keys) /\ Range(Valid(s, o)) = Placed(s, o)
         /\ \A i, j \in DOMAIN Valid(s, o) : Valid(s, o)[i] = Valid(s, o)[j]
              /\ Valid(s, o)[i] \in Builtins => i = j
<1> DEFINE kept == {i \in DOMAIN Registry[s] : Registry[s][i] \notin o.removed}
           mine == {i \in DOMAIN o.custom : o.custom[i].step = s}
           a == Only(Registry[s], kept)
           b == KeysOf(Only(o.custom, mine))
           B == {c.key : c \in {d \in Range(o.custom) : d.step = s}}
<1>1. /\ Registry[s] \in Seq(Keys) /\ IsInjective(Registry[s])
           /\ Range(Registry[s]) \subseteq Builtins
      /\ \A k \in Range(CustomKeys) : k \notin Builtins
  BY RegistryFacts
<1>2. o.custom \in Seq(AddedQuestion) /\ \A c \in Range(o.custom) : c.key \in Range(CustomKeys)
  BY StoredFacts
<1>3. kept \in SUBSET DOMAIN Registry[s] /\ mine \in SUBSET DOMAIN o.custom
  OBVIOUS
<1>4. a \in Seq(Keys) /\ Range(a) = {Registry[s][i] : i \in kept}
  BY <1>1, <1>3, OnlyIs, OnlyRange
<1>5. Range(a) = {k \in Range(Registry[s]) : k \notin o.removed}
  BY <1>4 DEF Range
<1>6. IsInjective(a)
  <2>1. \A i, j \in kept : Registry[s][i] = Registry[s][j] => i = j
    BY <1>1 DEF IsInjective
  <2> QED BY <1>1, <1>3, <2>1, OnlyInjective
<1>7. Only(o.custom, mine) \in Seq(AddedQuestion)
        /\ Range(Only(o.custom, mine)) = {o.custom[i] : i \in mine}
  BY <1>2, <1>3, OnlyIs, OnlyRange
<1>8. b \in Seq(Keys) /\ Range(b) = {c.key : c \in Range(Only(o.custom, mine))}
  <2>1. \A c \in AddedQuestion : c.key \in Keys
    BY DEF AddedQuestion, Keys
  <2> HIDE DEF mine
  <2> QED BY <1>7, <2>1, KeysOfIs
<1>9. Range(b) = B
  <2>1. {o.custom[i] : i \in mine} = {d \in Range(o.custom) : d.step = s}
    BY DEF Range
  <2> QED BY <1>7, <1>8, <2>1
<1>10. B = {k \in Range(CustomKeys) : \E c \in Range(o.custom) : c.key = k /\ c.step = s}
  BY <1>2
<1>11. Valid(s, o) = a \o b
  BY DEF Valid
<1> HIDE DEF kept, mine, a, b
<1>12. /\ a \o b \in Seq(Keys)
       /\ \A i \in DOMAIN a : (a \o b)[i] = a[i]
       /\ \A i \in DOMAIN b : (a \o b)[Len(a) + i] = b[i]
       /\ \A i \in DOMAIN (a \o b) : i \in DOMAIN a
            \/ (i - Len(a) \in DOMAIN b /\ i = Len(a) + (i - Len(a)))
  BY <1>4, <1>8, ConcatFacts
<1>13. Range(a \o b) = Placed(s, o)
  BY <1>4, <1>5, <1>8, <1>9, <1>10, ConcatRange DEF Placed
<1>14. ASSUME NEW i \in DOMAIN (a \o b), (a \o b)[i] \in Builtins
       PROVE  i \in DOMAIN a /\ (a \o b)[i] = a[i]
  <2>1. CASE i \notin DOMAIN a
    <3>1. i - Len(a) \in DOMAIN b /\ (a \o b)[i] = b[i - Len(a)]
      BY <1>12, <2>1
    <3>2. b[i - Len(a)] \in B
      BY <1>9, <3>1 DEF Range
    <3> QED BY <1>1, <1>10, <1>14, <3>1, <3>2
  <2> QED BY <1>12, <2>1
<1>15. ASSUME NEW i \in DOMAIN (a \o b), NEW j \in DOMAIN (a \o b),
              (a \o b)[i] = (a \o b)[j], (a \o b)[i] \in Builtins
       PROVE  i = j
  BY <1>6, <1>14, <1>15 DEF IsInjective
<1> QED BY <1>11, <1>12, <1>13, <1>15

\* Every question of a step stands in it, and once.
LEMMA StepKeysIs ==
  ASSUME FormAssumption, NEW o, WellStored(o), NEW s \in Steps
  PROVE  /\ StepKeys(s, o) \in Seq(Keys) /\ Range(StepKeys(s, o)) = Placed(s, o)
         /\ IsInjective(StepKeys(s, o))
<1> DEFINE all == Valid(s, o)
           named == {i \in DOMAIN o.order[s] : o.order[s][i] \in Range(all)}
           known == Only(o.order[s], named)
           more == {i \in DOMAIN all : all[i] \notin Range(known)}
           rest == Only(all, more)
<1>1. /\ all \in Seq(Keys) /\ Range(all) = Placed(s, o)
      /\ \A i, j \in DOMAIN all : all[i] = all[j] /\ all[i] \in Builtins => i = j
  BY ValidIs
<1>2. o.order[s] \in Seq(Keys) /\ IsInjective(o.order[s])
  BY StoredFacts
<1>3. StepKeys(s, o) = known \o rest
  BY DEF StepKeys
<1> HIDE DEF all
<1>4. named \in SUBSET DOMAIN o.order[s] /\ more \in SUBSET DOMAIN all
  OBVIOUS
<1>5. known \in Seq(Keys) /\ Range(known) = {o.order[s][i] : i \in named}
  BY <1>2, <1>4, OnlyIs, OnlyRange
<1>6. Range(known) = Range(o.order[s]) \intersect Range(all)
  BY <1>5 DEF Range
<1>7. IsInjective(known)
  <2>1. \A i, j \in named : o.order[s][i] = o.order[s][j] => i = j
    BY <1>2 DEF IsInjective
  <2> QED BY <1>2, <1>4, <2>1, OnlyInjective
<1> HIDE DEF known
<1>8. rest \in Seq(Keys) /\ Range(rest) = {all[i] : i \in more}
  BY <1>1, <1>4, OnlyIs, OnlyRange
<1>9. Range(rest) = Range(all) \ Range(known)
  BY <1>8 DEF Range
<1>10. ASSUME NEW i \in more PROVE all[i] \in Builtins
  <2>1. all[i] \in Placed(s, o) /\ all[i] \notin Range(o.order[s])
    BY <1>1, <1>6 DEF Range
  <2>2. \A c \in Range(o.custom) : c.key \in Range(o.order[c.step])
    BY StoredFacts
  <2>3. Range(Registry[s]) \subseteq Builtins
    BY RegistryFacts
  <2> QED BY <2>1, <2>2, <2>3 DEF Placed
<1>11. IsInjective(rest)
  <2>1. \A i, j \in more : all[i] = all[j] => i = j
    BY <1>1, <1>10
  <2> QED BY <1>1, <1>4, <2>1, OnlyInjective
<1> HIDE DEF rest
<1>12. known \o rest \in Seq(Keys) /\ Range(known \o rest) = Range(known) \union Range(rest)
  BY <1>5, <1>8, ConcatFacts, ConcatRange
<1>13. IsInjective(known \o rest)
  <2>1. Range(known) \intersect Range(rest) = {}
    BY <1>9
  <2> QED BY <1>5, <1>7, <1>8, <1>11, <2>1, ConcatInjective
<1>14. Range(known) \union Range(rest) = Placed(s, o)
  BY <1>1, <1>6, <1>9
<1> QED BY <1>3, <1>12, <1>13, <1>14

-----------------------------------------------------------------------------
(* What the site asks.                                                     *)

\* The questions that stand in the form, and those of them the site shows.
Standing(o) == (Builtins \ o.removed) \union {c.key : c \in Range(o.custom)}
Visible(o) == {k \in Standing(o) : k \in Builtins => ~builtinHidden(k, o)}

LEMMA PlacedOnce ==
  ASSUME FormAssumption, NEW o, WellStored(o)
  PROVE  /\ Standing(o) = UNION {Placed(s, o) : s \in Steps} /\ Standing(o) \subseteq Keys
         /\ \A s, t \in Steps : \A k : k \in Placed(s, o) /\ k \in Placed(t, o) => s = t
<1>1. /\ \A s \in Steps : Range(Registry[s]) \subseteq Builtins
      /\ \A k \in Builtins : \E s \in Steps : k \in Range(Registry[s])
      /\ \A s, t \in Steps : \A k : k \in Range(Registry[s]) /\ k \in Range(Registry[t]) => s = t
      /\ \A k \in Range(CustomKeys) : k \notin Builtins
  BY RegistryFacts
<1>2. /\ \A c \in Range(o.custom) : c.key \in Range(CustomKeys) /\ c.step \in Steps
      /\ \A c, d \in Range(o.custom) : c.key = d.key => c = d
  BY StoredFacts
<1>3. ASSUME NEW s \in Steps, NEW t \in Steps, NEW k, k \in Placed(s, o), k \in Placed(t, o)
      PROVE  s = t
  <2>1. CASE k \in Builtins
    <3>1. k \in Range(Registry[s]) /\ k \in Range(Registry[t])
      BY <1>1, <1>3, <2>1 DEF Placed
    <3> QED BY <1>1, <3>1
  <2>2. CASE k \notin Builtins
    <3>1. PICK c \in Range(o.custom) : c.key = k /\ c.step = s
      BY <1>1, <1>3, <2>2 DEF Placed
    <3>2. PICK d \in Range(o.custom) : d.key = k /\ d.step = t
      BY <1>1, <1>3, <2>2 DEF Placed
    <3> QED BY <1>2, <3>1, <3>2
  <2> QED BY <2>1, <2>2
<1>4. ASSUME NEW k \in Standing(o) PROVE k \in Keys /\ \E s \in Steps : k \in Placed(s, o)
  <2>1. CASE k \in Builtins \ o.removed
    BY <1>1, <2>1 DEF Placed, Keys
  <2>2. CASE k \notin Builtins \ o.removed
    <3>1. PICK c \in Range(o.custom) : c.key = k
      BY <2>2 DEF Standing
    <3>2. c.step \in Steps /\ k \in Placed(c.step, o)
      BY <1>2, <3>1 DEF Placed
    <3> QED BY <1>2, <3>1, <3>2 DEF Keys
  <2> QED BY <2>1, <2>2
<1>5. ASSUME NEW s \in Steps, NEW k \in Placed(s, o) PROVE k \in Standing(o)
  BY <1>1 DEF Standing, Placed
<1>6. Standing(o) = UNION {Placed(s, o) : s \in Steps}
  BY <1>4, <1>5, Zenon
<1>7. Standing(o) \subseteq Keys
  BY <1>4, Zenon
<1> QED BY <1>3, <1>6, <1>7

LEMMA PublicKey ==
  ASSUME NEW k, NEW o
  PROVE  publicQuestion(k, o).key = k
BY DEF publicQuestion

LEMMA PublicIs ==
  ASSUME FormAssumption, NEW o, WellStored(o), NEW s \in Steps
  PROVE  Range(mergePublicModel(o)[s])
           = {publicQuestion(k, o) : k
               \in {h \in Placed(s, o) : h \in Builtins => ~builtinHidden(h, o)}}
<1> DEFINE all == StepKeys(s, o)
           at == {i \in DOMAIN all : all[i] \in Builtins => ~builtinHidden(all[i], o)}
           keys == Only(all, at)
           asked == [i \in DOMAIN keys |-> publicQuestion(keys[i], o)]
           seen == {h \in Placed(s, o) : h \in Builtins => ~builtinHidden(h, o)}
<1>1. mergePublicModel(o)[s] = asked
  BY DEF mergePublicModel
<1>2. all \in Seq(Keys) /\ Range(all) = Placed(s, o)
  BY StepKeysIs
<1> HIDE DEF all
<1>3. Range(keys) = {all[i] : i \in at}
  BY <1>2, OnlyRange
<1>4. Range(keys) = seen
  BY <1>2, <1>3 DEF Range
<1> HIDE DEF keys, seen
<1>5. Range(asked) = {publicQuestion(k, o) : k \in Range(keys)}
  BY DEF Range
<1> QED BY <1>1, <1>4, <1>5 DEF seen

\* A question is asked when it stands in the form and is not hidden, and once.
LEMMA AskedIs ==
  ASSUME FormAssumption, NEW o, WellStored(o)
  PROVE  /\ UNION {Range(mergePublicModel(o)[s]) : s \in Steps}
              = {publicQuestion(k, o) : k \in Visible(o)}
         /\ \A k : Asked(k, o) = IF k \in Visible(o) THEN {publicQuestion(k, o)} ELSE {}
<1> DEFINE M == UNION {Range(mergePublicModel(o)[s]) : s \in Steps}
           P == {publicQuestion(k, o) : k \in Visible(o)}
<1>1. \A s \in Steps :
        Range(mergePublicModel(o)[s])
          = {publicQuestion(k, o) : k
              \in {h \in Placed(s, o) : h \in Builtins => ~builtinHidden(h, o)}}
  BY PublicIs
<1>2. \A k : k \in Standing(o) <=> \E s \in Steps : k \in Placed(s, o)
  BY PlacedOnce
<1>3. \A x \in M : x \in P
  BY <1>1, <1>2 DEF Visible
<1>4. ASSUME NEW k \in Visible(o) PROVE publicQuestion(k, o) \in M
  <2>1. PICK s \in Steps : k \in Placed(s, o)
    BY <1>2 DEF Visible
  <2>2. publicQuestion(k, o) \in Range(mergePublicModel(o)[s])
    BY <1>1, <2>1 DEF Visible
  <2> QED BY <2>2
<1>5. M = P
  BY <1>3, <1>4
<1>6. ASSUME NEW k PROVE Asked(k, o) = IF k \in Visible(o) THEN {publicQuestion(k, o)} ELSE {}
  <2>1. Asked(k, o) = {q \in P : q.key = k}
    BY <1>5 DEF Asked
  <2>2. \A h : publicQuestion(h, o).key = h
    BY PublicKey
  <2> QED BY <2>1, <2>2
<1> QED BY <1>5, <1>6

\* The three merges agree: what a form must answer is what it shows as required.
LEMMA RequiredOfStored ==
  ASSUME FormAssumption, NEW o, WellStored(o)
  PROVE  effectiveRequired(o) \union validateExtra(o)
         = {q.key : q \in {p \in UNION {Range(mergePublicModel(o)[s]) : s \in Steps} : p.required}}
<1> DEFINE R == {q.key : q \in {p \in {publicQuestion(k, o) : k \in Visible(o)} : p.required}}
           L == effectiveRequired(o) \union validateExtra(o)
<1>1. UNION {Range(mergePublicModel(o)[s]) : s \in Steps}
        = {publicQuestion(k, o) : k \in Visible(o)}
  BY AskedIs
<1>2. \A k : publicQuestion(k, o).key = k
  BY PublicKey
<1>3. \A k : k \in R <=> k \in Visible(o) /\ publicQuestion(k, o).required
  BY <1>2
<1>4. /\ \A k \in Range(CustomKeys) : k \notin Builtins
      /\ \A c \in Range(o.custom) : c.key \in Range(CustomKeys)
      /\ \A c, d \in Range(o.custom) : c.key = d.key => c = d
  BY RegistryFacts, StoredFacts
<1>5. ASSUME NEW k \in Builtins
      PROVE  k \in L <=> k \in Visible(o) /\ publicQuestion(k, o).required
  <2>1. k \in L <=> k \notin o.removed /\ builtinRequired(k, o)
    BY <1>4 DEF effectiveRequired, validateExtra
  <2>2. publicQuestion(k, o).required = builtinRequired(k, o)
    BY DEF publicQuestion
  <2>3. k \in Visible(o) <=> k \notin o.removed /\ ~builtinHidden(k, o)
    BY <1>4 DEF Visible, Standing
  <2>4. builtinRequired(k, o) => ~builtinHidden(k, o)
    BY DEF builtinRequired, builtinHidden, FormAssumption
  <2> QED BY <2>1, <2>2, <2>3, <2>4
<1>6. ASSUME NEW k, k \notin Builtins
      PROVE  k \in L <=> k \in Visible(o) /\ publicQuestion(k, o).required
  <2>1. k \in L <=> \E c \in Range(o.custom) : c.required /\ c.key = k
    BY <1>6 DEF effectiveRequired, validateExtra
  <2>2. k \in Visible(o) <=> \E c \in Range(o.custom) : c.key = k
    BY <1>6 DEF Visible, Standing
  <2>3. ASSUME NEW c \in Range(o.custom), c.key = k
        PROVE  CustomOf(k, o) = c /\ publicQuestion(k, o).required = c.required
    <3>1. CustomOf(k, o) = c
      BY <1>4, <2>3 DEF CustomOf
    <3> QED BY <1>6, <3>1 DEF publicQuestion
  <2> QED BY <1>4, <2>1, <2>2, <2>3
<1>7. \A k : k \in L <=> k \in R
  BY <1>3, <1>5, <1>6
<1>8. L = R
  BY <1>7
<1> QED BY <1>1, <1>8

-----------------------------------------------------------------------------
(* A form as a page edits it.                                              *)

Models == [steps : [Steps -> Seq(Question)], removed : SUBSET Builtins]
QuestionsOf(m) == UNION {Range(m.steps[s]) : s \in Steps}

\* A built-in question stands in its own step as the code lets it be edited, an
\* added one has a type; none is also taken out.
Editable(q, s, m) ==
  /\ q.key \notin m.removed
  /\ q.key \in Builtins => /\ q.key \in Range(Registry[s]) /\ q.type = Default
                           /\ q.key \in Locked => q.required
                           /\ q.hidden => q.key \in CanHide
  /\ q.key \notin Builtins => ~q.hidden /\ q.type \in Types

\* No question that has a key stands in a page twice.
Once(m) == \A s, t \in Steps : \A i \in DOMAIN m.steps[s], j \in DOMAIN m.steps[t] :
             m.steps[s][i].key = m.steps[t][j].key /\ m.steps[s][i].key # Fresh => s = t /\ i = j

PageFit(m) ==
  /\ m \in Models
  /\ \A s \in Steps : \A q \in Range(m.steps[s]) : Editable(q, s, m)
  /\ Once(m)

\* A question of a page as the site will ask it, and one that comes back.
PublicOf(q) == [key |-> q.key, type |-> q.type,
                label |-> IF q.label = Blank THEN Default ELSE q.label, required |-> q.required]
Stock(k) == [key |-> k, type |-> Default, label |-> Default, required |-> TRUE]

Gone(k, m) == k \in m.removed \/ \E q \in QuestionsOf(m) : q.key = k
Shown(k, m) == {PublicOf(q) : q \in {r \in QuestionsOf(m) : r.key = k /\ ~r.hidden}}
                 \union {Stock(h) : h \in {b \in {k} \intersect Builtins : ~Gone(b, m)}}

\* The added questions of a page, and of what is stored, with their types.
AddedOf(m) == {<<q.key, q.type>> : q \in {r \in QuestionsOf(m) : r.key \in Range(CustomKeys)}}
StoredOf(o) == {<<c.key, c.type>> : c \in Range(o.custom)}

LEMMA PageFacts ==
  ASSUME NEW m, m \in Models
  PROVE  /\ \A s \in Steps : m.steps[s] \in Seq(Question)
         /\ \A s \in Steps : Range(m.steps[s]) \subseteq Question
         /\ \A s \in Steps : \A i \in DOMAIN m.steps[s] : m.steps[s][i] \in Question
         /\ QuestionsOf(m) \subseteq Question /\ m.removed \subseteq Builtins
<1>1. (\A s \in Steps : m.steps[s] \in Seq(Question)) /\ m.removed \subseteq Builtins
  BY DEF Models
<1>2. \A s \in Steps : Range(m.steps[s]) \subseteq Question
  BY <1>1, RangeOf
<1>3. \A s \in Steps : \A i \in DOMAIN m.steps[s] : m.steps[s][i] \in Question
  BY <1>1, ListFacts
<1>4. QuestionsOf(m) \subseteq Question
  BY <1>2 DEF QuestionsOf
<1> QED BY <1>1, <1>2, <1>3, <1>4

LEMMA EmptyStored ==
  ASSUME FormAssumption
  PROVE  WellStored(EmptyOverlay) /\ StoredOf(EmptyOverlay) = {}
<1>1. Range(<<>>) = {} /\ DOMAIN <<>> = {} /\ IsInjective(<<>>)
  BY DEF Range, IsInjective
<1>2. <<>> \in Seq(Keys) /\ <<>> \in Seq(AddedQuestion)
  OBVIOUS
<1>3. EmptyOverlay.order \in [Steps -> Seq(Keys)]
        /\ \A s \in Steps : IsInjective(EmptyOverlay.order[s])
  BY <1>1, <1>2 DEF EmptyOverlay
<1> QED BY <1>1, <1>2, <1>3 DEF EmptyOverlay, WellStored, StoredOf

LEMMA EditedAs ==
  ASSUME FormAssumption, NEW o, WellStored(o), NEW s \in Steps, NEW k \in Placed(s, o)
  PROVE  /\ editQuestion(k, o).key = k /\ editQuestion(k, o) \in Question
         /\ Editable(editQuestion(k, o), s, mergeEditModel(o))
         /\ editQuestion(k, o).hidden <=> (k \in Builtins /\ builtinHidden(k, o))
         /\ PublicOf(editQuestion(k, o)) = publicQuestion(k, o)
         /\ k \in Range(CustomKeys)
              => k \notin Builtins /\ <<k, editQuestion(k, o).type>> \in StoredOf(o)
<1> DEFINE q == editQuestion(k, o)
<1>0. /\ \A h \in DOMAIN o.q : o.q[h] \in StoredQuestion
      /\ \A c \in Range(o.custom) : /\ c.key \in Range(CustomKeys) /\ c.type \in Types
                                    /\ c.label \in Texts
                                    /\ c.required \in BOOLEAN
      /\ \A c, d \in Range(o.custom) : c.key = d.key => c = d
      /\ o.removed \subseteq Builtins
  BY StoredFacts
<1>1. /\ Range(Registry[s]) \subseteq Builtins
      /\ \A h \in Range(CustomKeys) : h \notin Builtins /\ h # Fresh
  BY RegistryFacts
<1>2. Default \in Texts /\ Blank \notin Texts /\ Locked \subseteq Builtins
        /\ CanHide \subseteq Builtins \ Locked
  BY DEF FormAssumption
<1>3. mergeEditModel(o).removed = o.removed
  BY <1>0 DEF mergeEditModel
<1>4. CASE k \in Builtins
  <2>0. /\ k \in Range(Registry[s]) /\ k \notin o.removed
        /\ k \notin Range(CustomKeys)
    BY <1>1, <1>4 DEF Placed
  <2>1. /\ q.key = k /\ q.type = Default /\ q.label = Label(k, o)
        /\ q.required = builtinRequired(k, o) /\ q.hidden = builtinHidden(k, o)
    BY <1>4 DEF editQuestion
  <2>2. Label(k, o) \in Texts
    BY <1>0, <1>2 DEF Label, StoredQuestion
  <2>3. builtinHidden(k, o) \in BOOLEAN /\ builtinRequired(k, o) \in BOOLEAN
    BY <1>0 DEF builtinHidden, builtinRequired, StoredQuestion
  <2>4. q \in Question
    BY <1>4, <2>2, <2>3 DEF Question, Keys, editQuestion
  <2>5. Editable(q, s, mergeEditModel(o))
    <3>1. q.key \in Locked => q.required
      BY <2>1 DEF builtinRequired
    <3>2. q.hidden => q.key \in CanHide
      BY <2>1 DEF builtinHidden
    <3> QED BY <1>3, <1>4, <2>0, <2>1, <3>1, <3>2 DEF Editable
  <2>6. PublicOf(q) = publicQuestion(k, o)
    BY <1>2, <1>4, <2>1, <2>2 DEF PublicOf, publicQuestion
  <2> QED BY <1>4, <2>0, <2>1, <2>4, <2>5, <2>6
<1>5. CASE k \notin Builtins
  <2>1. PICK c \in Range(o.custom) : c.key = k
    BY <1>1, <1>5 DEF Placed
  <2>2. CustomOf(k, o) = c
    BY <1>0, <2>1 DEF CustomOf
  <2>3. q = [key |-> k, type |-> c.type, label |-> c.label, required |-> c.required,
          hidden |-> FALSE]
    BY <1>5, <2>2 DEF editQuestion
  <2>4. q \in Question
    BY <1>0, <2>1, <2>3 DEF Question, Keys
  <2>5. Editable(q, s, mergeEditModel(o))
    BY <1>0, <1>3, <1>5, <2>3 DEF Editable
  <2>6. PublicOf(q) = publicQuestion(k, o)
    BY <1>0, <1>2, <1>5, <2>2, <2>3 DEF PublicOf, publicQuestion
  <2>7. <<k, q.type>> \in StoredOf(o)
    BY <2>1, <2>3 DEF StoredOf
  <2> QED BY <1>5, <2>3, <2>4, <2>5, <2>6, <2>7
<1> QED BY <1>4, <1>5

\* The page shows what the site asks.
LEMMA MergeFits ==
  ASSUME FormAssumption, NEW o, WellStored(o)
  PROVE  /\ PageFit(mergeEditModel(o))
         /\ AddedOf(mergeEditModel(o)) \subseteq StoredOf(o)
         /\ \A k \in Keys : Shown(k, mergeEditModel(o)) = Asked(k, o)
<1> DEFINE m == mergeEditModel(o)
<1>1. /\ \A s \in Steps : /\ StepKeys(s, o) \in Seq(Keys) /\ Range(StepKeys(s, o)) = Placed(s, o)
                          /\ IsInjective(StepKeys(s, o))
      /\ Standing(o) = UNION {Placed(s, o) : s \in Steps}
      /\ \A s, t \in Steps : \A k : k \in Placed(s, o) /\ k \in Placed(t, o) => s = t
      /\ o.removed \subseteq Builtins
  BY StepKeysIs, PlacedOnce, StoredFacts
<1>2. \A s \in Steps : \A k \in Placed(s, o) :
        /\ editQuestion(k, o).key = k /\ editQuestion(k, o) \in Question
        /\ Editable(editQuestion(k, o), s, m)
        /\ editQuestion(k, o).hidden <=> (k \in Builtins /\ builtinHidden(k, o))
        /\ PublicOf(editQuestion(k, o)) = publicQuestion(k, o)
        /\ k \in Range(CustomKeys)
             => k \notin Builtins /\ <<k, editQuestion(k, o).type>> \in StoredOf(o)
  BY EditedAs
<1>3. /\ m.steps = [s \in Steps |-> [i
           \in DOMAIN StepKeys(s, o) |-> editQuestion(StepKeys(s, o)[i], o)]]
      /\ m.removed = o.removed /\ m = [steps |-> m.steps, removed |-> m.removed]
  BY <1>1 DEF mergeEditModel
<1> HIDE DEF m
<1>4. ASSUME NEW s \in Steps
      PROVE  /\ m.steps[s] \in Seq(Question) /\ DOMAIN m.steps[s] = DOMAIN StepKeys(s, o)
             /\ \A i \in DOMAIN m.steps[s] : /\ StepKeys(s, o)[i] \in Placed(s, o)
                                             /\ m.steps[s][i] = editQuestion(StepKeys(s, o)[i], o)
                                             /\ m.steps[s][i].key = StepKeys(s, o)[i]
  <2> DEFINE keys == StepKeys(s, o)
  <2>1. /\ Len(keys) \in Nat /\ DOMAIN keys = 1..Len(keys)
        /\ \A i \in DOMAIN keys : keys[i] \in Placed(s, o)
    BY <1>1, ListFacts DEF Range
  <2>2. m.steps[s] = [i \in DOMAIN keys |-> editQuestion(keys[i], o)]
    BY <1>3
  <2> HIDE DEF keys
  <2>7. \A i \in 1..Len(keys) : editQuestion(keys[i], o) \in Question
    BY <1>2, <2>1
  <2>3. m.steps[s] \in [1..Len(keys) -> Question]
    BY <2>1, <2>2, <2>7
  <2>4. m.steps[s] \in Seq(Question)
    BY <2>1, <2>3, ListOf
  <2>5. DOMAIN m.steps[s] = DOMAIN keys
          /\ \A i \in DOMAIN keys : m.steps[s][i] = editQuestion(keys[i], o)
    BY <2>2
  <2>6. \A i \in DOMAIN keys : editQuestion(keys[i], o).key = keys[i]
    BY <1>2, <2>1
  <2> QED BY <2>1, <2>4, <2>5, <2>6 DEF keys
<1>5. ASSUME NEW s \in Steps PROVE Range(m.steps[s]) = {editQuestion(k, o) : k \in Placed(s, o)}
  <2>1. Range(StepKeys(s, o)) = Placed(s, o)
    BY <1>1
  <2> QED BY <1>4, <2>1 DEF Range
<1>6. m \in Models
  <2>1. m.steps \in [Steps -> Seq(Question)]
    BY <1>3, <1>4
  <2> QED BY <1>1, <1>3, <2>1 DEF Models
<1>7. ASSUME NEW s \in Steps, NEW q \in Range(m.steps[s]) PROVE Editable(q, s, m)
  <2>1. PICK k \in Placed(s, o) : q = editQuestion(k, o)
    BY <1>5
  <2> QED BY <1>2, <2>1
<1>8. Once(m)
  <2> SUFFICES ASSUME NEW s \in Steps, NEW t \in Steps, NEW i \in DOMAIN m.steps[s],
                      NEW j \in DOMAIN m.steps[t],
                      m.steps[s][i].key = m.steps[t][j].key
               PROVE  s = t /\ i = j
    BY DEF Once
  <2>1. StepKeys(s, o)[i] = StepKeys(t, o)[j] /\ StepKeys(s, o)[i] \in Placed(s, o)
          /\ StepKeys(t, o)[j] \in Placed(t, o)
    BY <1>4
  <2>2. s = t
    BY <1>1, <2>1
  <2>3. i \in DOMAIN StepKeys(s, o) /\ j \in DOMAIN StepKeys(s, o) /\ IsInjective(StepKeys(s, o))
    BY <1>1, <1>4, <2>2
  <2> QED BY <2>1, <2>2, <2>3 DEF IsInjective
<1>9. QuestionsOf(m) = {editQuestion(k, o) : k \in Standing(o)}
  <2>1. ASSUME NEW x \in QuestionsOf(m) PROVE x \in {editQuestion(k, o) : k \in Standing(o)}
    <3>1. PICK s \in Steps : x \in Range(m.steps[s])
      BY DEF QuestionsOf
    <3>2. PICK k \in Placed(s, o) : x = editQuestion(k, o)
      BY <1>5, <3>1
    <3> QED BY <1>1, <3>2
  <2>2. ASSUME NEW k \in Standing(o) PROVE editQuestion(k, o) \in QuestionsOf(m)
    <3>1. PICK s \in Steps : k \in Placed(s, o)
      BY <1>1
    <3>2. editQuestion(k, o) \in Range(m.steps[s])
      BY <1>5, <3>1
    <3> QED BY <3>2 DEF QuestionsOf
  <2> QED BY <2>1, <2>2
<1>10. \A k \in Standing(o) :
        /\ editQuestion(k, o).key = k
        /\ editQuestion(k, o).hidden <=> (k \in Builtins /\ builtinHidden(k, o))
        /\ PublicOf(editQuestion(k, o)) = publicQuestion(k, o)
        /\ k \in Range(CustomKeys) => <<k, editQuestion(k, o).type>> \in StoredOf(o)
  BY <1>1, <1>2
<1>11. AddedOf(m) \subseteq StoredOf(o)
  BY <1>9, <1>10 DEF AddedOf
<1>12. ASSUME NEW k \in Keys PROVE Shown(k, m) = Asked(k, o)
  <2> DEFINE P == {PublicOf(q) : q \in {r \in QuestionsOf(m) : r.key = k /\ ~r.hidden}}
             D == {Stock(h) : h \in {b \in {k} \intersect Builtins : ~Gone(b, m)}}
  <2>1. D = {}
    <3>1. k \in Builtins /\ k \notin m.removed => k \in Standing(o)
      BY <1>3 DEF Standing
    <3>2. k \in Standing(o) => \E q \in QuestionsOf(m) : q.key = k
      BY <1>9, <1>10
    <3> QED BY <3>1, <3>2 DEF Gone
  <2>2. P = IF k \in Visible(o) THEN {publicQuestion(k, o)} ELSE {}
    <3>1. CASE k \in Visible(o)
      <4>1. k \in Standing(o) /\ ~editQuestion(k, o).hidden
        BY <1>10, <3>1 DEF Visible
      <4>2. {r \in QuestionsOf(m) : r.key = k /\ ~r.hidden} = {editQuestion(k, o)}
        BY <1>9, <1>10, <4>1
      <4> QED BY <1>10, <3>1, <4>1, <4>2
    <3>2. CASE k \notin Visible(o)
      <4>1. {r \in QuestionsOf(m) : r.key = k /\ ~r.hidden} = {}
        BY <1>9, <1>10, <3>2 DEF Visible
      <4> QED BY <3>2, <4>1
    <3> QED BY <3>1, <3>2
  <2>3. Asked(k, o) = IF k \in Visible(o) THEN {publicQuestion(k, o)} ELSE {}
    BY AskedIs
  <2>4. Shown(k, m) = P \union D
    BY DEF Shown
  <2> QED BY <2>1, <2>2, <2>3, <2>4
<1> QED BY <1>6, <1>7, <1>8, <1>11, <1>12 DEF PageFit, m

-----------------------------------------------------------------------------
(* Keys for new questions.                                                 *)

Places(m) == UNION {{t} \X DOMAIN m.steps[t] : t \in Steps}
IsNew(m, p) == m.steps[p[1]][p[2]].key = Fresh
Before(p, s, i) == p[1] < s \/ (p[1] = s /\ p[2] < i)

\* New questions are counted off one after the other.
LEMMA NewCounts ==
  ASSUME FormAssumption, NEW m, m \in Models
  PROVE  /\ NewIn(m) \in Nat
         /\ \A s \in Steps : \A i \in DOMAIN m.steps[s] : m.steps[s][i].key = Fresh =>
              NewBefore(m, s, i) \in Nat /\ NewBefore(m, s, i) < NewIn(m)
         /\ \A s, t \in Steps : \A i \in DOMAIN m.steps[s], j \in DOMAIN m.steps[t] :
              /\ m.steps[s][i].key = Fresh /\ m.steps[t][j].key = Fresh
              /\ NewBefore(m, s, i) = NewBefore(m, t, j)
              => s = t /\ i = j
<1> DEFINE P == Places(m)
           New(s, i) == {p \in P : Before(p, s, i) /\ IsNew(m, p)}
           L == Len(Registry)
<1>1. /\ L \in Nat /\ Steps = 1..L
      /\ \A s \in Steps : m.steps[s] \in Seq(Question)
  BY RegistryFacts, PageFacts
<1>2. \A s \in Steps : /\ DOMAIN m.steps[s] = 1..Len(m.steps[s]) /\ Len(m.steps[s]) \in Nat
                       /\ IsFiniteSet(DOMAIN m.steps[s])
  <2> TAKE s \in Steps
  <2>1. DOMAIN m.steps[s] = 1..Len(m.steps[s]) /\ Len(m.steps[s]) \in Nat
    BY <1>1, ListFacts
  <2>2. IsFiniteSet(1..Len(m.steps[s]))
    BY <2>1, FS_Interval
  <2> QED BY <2>1, <2>2
<1>3. IsFiniteSet(P)
  <2> DEFINE D == [t \in 1..L |-> DOMAIN m.steps[t]]
  <2>1. \A t \in 1..L : IsFiniteSet(D[t])
    BY <1>1, <1>2
  <2>2. P = UNION {{t} \X D[t] : t \in 1..L}
    BY <1>1 DEF Places
  <2> HIDE DEF D, P
  <2>3. IsFiniteSet(UNION {{t} \X D[t] : t \in 1..L})
    BY <1>1, <2>1, FewPlaces
  <2> QED BY <2>2, <2>3
<1>4. \A p \in P : p[1] \in Nat /\ p[2] \in Nat /\ p[1] \in Steps /\ p = <<p[1], p[2]>>
  BY <1>1, <1>2 DEF Places
<1>5. \A s \in Steps : \A i \in DOMAIN m.steps[s] : <<s, i>> \in P
  BY DEF Places
<1>6. \A s, i : NewBefore(m, s, i) = Cardinality(New(s, i))
  BY DEF NewBefore, Before, IsNew, Places
<1>7. NewIn(m) = Cardinality(New(L + 1, 1))
  BY <1>6 DEF NewIn
<1> HIDE DEF P
<1>8. \A s, i : New(s, i) \in SUBSET P
  OBVIOUS
<1>9. \A s, i : IsFiniteSet(New(s, i))
  BY <1>3, <1>8, FS_Subset
<1>10. ASSUME NEW s \in Nat, NEW i \in Nat, NEW t \in Nat, NEW j \in Nat, <<s, i>> \in P,
              IsNew(m, <<s, i>>),
              s < t \/ (s = t /\ i < j)
       PROVE  /\ NewBefore(m, s, i) \in Nat /\ NewBefore(m, t, j) \in Nat
              /\ NewBefore(m, s, i) < NewBefore(m, t, j)
  <2>1. ASSUME NEW p \in P, Before(p, s, i) PROVE Before(p, t, j)
    BY <1>4, <1>10, <2>1 DEF Before
  <2>2. New(s, i) \in SUBSET New(t, j)
    BY <2>1
  <2>3. <<s, i>> \in New(t, j) /\ <<s, i>> \notin New(s, i)
    BY <1>10 DEF Before
  <2> HIDE DEF New
  <2>4. /\ Cardinality(New(s, i)) \in Nat /\ Cardinality(New(t, j)) \in Nat
        /\ Cardinality(New(s, i)) < Cardinality(New(t, j))
    BY <1>9, <2>2, <2>3, StrictlyMore
  <2> QED BY <1>6, <2>4
<1>11. NewIn(m) \in Nat
  <2> HIDE DEF New
  <2> QED BY <1>7, <1>9, FS_CardinalityType
<1>12. ASSUME NEW s \in Steps, NEW i \in DOMAIN m.steps[s], m.steps[s][i].key = Fresh
       PROVE  NewBefore(m, s, i) \in Nat /\ NewBefore(m, s, i) < NewIn(m)
  <2>1. s \in Nat /\ i \in Nat /\ L + 1 \in Nat /\ s < L + 1 /\ <<s, i>> \in P
    BY <1>1, <1>2, <1>5
  <2>2. IsNew(m, <<s, i>>)
    BY <1>12 DEF IsNew
  <2> QED BY <1>10, <2>1, <2>2 DEF NewIn
<1>13. ASSUME NEW s \in Steps, NEW t \in Steps, NEW i \in DOMAIN m.steps[s],
              NEW j \in DOMAIN m.steps[t],
              m.steps[s][i].key = Fresh, m.steps[t][j].key = Fresh,
              NewBefore(m, s, i) = NewBefore(m, t, j)
       PROVE  s = t /\ i = j
  <2>1. s \in Nat /\ i \in Nat /\ t \in Nat /\ j \in Nat /\ <<s, i>> \in P /\ <<t, j>> \in P
    BY <1>1, <1>2, <1>5
  <2>2. IsNew(m, <<s, i>>) /\ IsNew(m, <<t, j>>)
    BY <1>13 DEF IsNew
  <2>3. ~(s < t \/ (s = t /\ i < j))
    BY <1>10, <1>13, <2>1, <2>2
  <2>4. ~(t < s \/ (t = s /\ j < i))
    BY <1>10, <1>13, <2>1, <2>2
  <2> QED BY <2>1, <2>3, <2>4
<1> QED BY <1>11, <1>12, <1>13

\* The first n keys drawn.
Drawn(n) == {CustomKeys[i] : i \in {j \in DOMAIN CustomKeys : j <= n}}

LEMMA DrawnFacts ==
  ASSUME FormAssumption
  PROVE  /\ Len(CustomKeys) \in Nat /\ DOMAIN CustomKeys = 1..Len(CustomKeys)
         /\ \A n \in Nat : Drawn(n) \subseteq Range(CustomKeys)
         /\ \A n, k \in Nat : n <= k => Drawn(n) \subseteq Drawn(k)
         /\ \A n \in Nat : \A i \in DOMAIN CustomKeys : CustomKeys[i] \in Drawn(n) <=> i <= n
         /\ \A i, j \in DOMAIN CustomKeys : CustomKeys[i] = CustomKeys[j] => i = j
<1>1. CustomKeys \in Seq(Range(CustomKeys)) /\ \A i,
      j \in DOMAIN CustomKeys : CustomKeys[i] = CustomKeys[j] => i = j
  BY DEF FormAssumption, IsInjective
<1>2. Len(CustomKeys) \in Nat /\ DOMAIN CustomKeys = 1..Len(CustomKeys)
  BY <1>1, LenProperties
<1>3. \A n \in Nat : Drawn(n) \subseteq Range(CustomKeys)
  BY DEF Drawn, Range
<1>4. \A n, k \in Nat : n <= k => Drawn(n) \subseteq Drawn(k)
  BY <1>2 DEF Drawn
<1>5. \A n \in Nat : \A i \in DOMAIN CustomKeys : CustomKeys[i] \in Drawn(n) <=> i <= n
  BY <1>1 DEF Drawn
<1> QED BY <1>1, <1>2, <1>3, <1>4, <1>5

\* What a page must be for a save to be built from it: its added questions have
\* labels, their keys were drawn before, and there are keys for the new ones.
Buildable(m) ==
  /\ PageFit(m) /\ minted \in Nat /\ minted + NewIn(m) <= Len(CustomKeys)
  /\ \A q \in QuestionsOf(m) : q.key \notin Builtins => q.label # Blank
  /\ \A q \in QuestionsOf(m) : q.key \in Range(CustomKeys) => q.key \in Drawn(minted)

\* The keys a save draws.
NewKeys(m) == {KeyOf(m, p[1], p[2]) : p \in {r \in Places(m) : IsNew(m, r)}}

LEMMA KeysDrawn ==
  ASSUME FormAssumption, NEW m, Buildable(m)
  PROVE  /\ minted + NewIn(m) \in Nat
         /\ NewKeys(m) \subseteq Drawn(minted + NewIn(m))
              /\ NewKeys(m) \intersect Drawn(minted) = {}
         /\ \A s \in Steps : \A i \in DOMAIN m.steps[s] :
              /\ KeyOf(m, s, i) \in Keys
              /\ m.steps[s][i].key = Fresh => KeyOf(m, s, i) \in NewKeys(m)
              /\ m.steps[s][i].key # Fresh
                   => KeyOf(m, s, i) = m.steps[s][i].key /\ KeyOf(m, s, i) \notin NewKeys(m)
         /\ \A s, t \in Steps : \A i \in DOMAIN m.steps[s], j \in DOMAIN m.steps[t] :
              KeyOf(m, s, i) = KeyOf(m, t, j) => s = t /\ i = j
<1> DEFINE Num(s, i) == minted + 1 + NewBefore(m, s, i)
<1>1. /\ m \in Models /\ Once(m) /\ minted \in Nat /\ minted + NewIn(m) <= Len(CustomKeys)
      /\ \A q \in QuestionsOf(m) : q.key \in Range(CustomKeys) => q.key \in Drawn(minted)
  BY DEF Buildable, PageFit
<1>2. /\ NewIn(m) \in Nat
      /\ \A s \in Steps : \A i \in DOMAIN m.steps[s] : m.steps[s][i].key = Fresh =>
           NewBefore(m, s, i) \in Nat /\ NewBefore(m, s, i) < NewIn(m)
      /\ \A s, t \in Steps : \A i \in DOMAIN m.steps[s], j \in DOMAIN m.steps[t] :
           /\ m.steps[s][i].key = Fresh /\ m.steps[t][j].key = Fresh
           /\ NewBefore(m, s, i) = NewBefore(m, t, j)
           => s = t /\ i = j
  BY <1>1, NewCounts
<1>3. /\ Len(CustomKeys) \in Nat /\ DOMAIN CustomKeys = 1..Len(CustomKeys)
      /\ \A n \in Nat : \A i \in DOMAIN CustomKeys : CustomKeys[i] \in Drawn(n) <=> i <= n
      /\ \A i, j \in DOMAIN CustomKeys : CustomKeys[i] = CustomKeys[j] => i = j
  BY DrawnFacts
<1>4. minted + NewIn(m) \in Nat
  BY <1>1, <1>2
<1>5. ASSUME NEW s \in Steps, NEW i \in DOMAIN m.steps[s], m.steps[s][i].key = Fresh
      PROVE  /\ Num(s, i) \in DOMAIN CustomKeys /\ KeyOf(m, s, i) = CustomKeys[Num(s, i)]
             /\ KeyOf(m, s, i) \in Drawn(minted + NewIn(m)) /\ KeyOf(m, s, i) \notin Drawn(minted)
  <2>1. NewBefore(m, s, i) \in Nat /\ NewBefore(m, s, i) < NewIn(m)
    BY <1>2, <1>5
  <2>2. KeyOf(m, s, i) = CustomKeys[Num(s, i)]
    BY <1>5 DEF KeyOf
  <2>3. /\ Num(s, i) \in DOMAIN CustomKeys /\ Num(s, i) <= minted + NewIn(m)
             /\ ~(Num(s, i) <= minted)
    <3> HIDE DEF Drawn
    <3> QED BY <1>1, <1>2, <1>3, <2>1
  <2> HIDE DEF Num
  <2> QED BY <1>1, <1>3, <1>4, <2>2, <2>3
<1>6. ASSUME NEW s \in Steps, NEW i \in DOMAIN m.steps[s]
      PROVE  /\ m.steps[s][i] \in QuestionsOf(m) /\ m.steps[s][i].key \in Keys \union {Fresh}
             /\ <<s, i>> \in Places(m)
  <2>1. m.steps[s][i] \in Question
    BY <1>1, PageFacts
  <2> QED BY <2>1 DEF QuestionsOf, Range, Question, Places
<1>7. ASSUME NEW p \in {r \in Places(m) : IsNew(m, r)}
      PROVE  KeyOf(m, p[1], p[2]) \in Drawn(minted + NewIn(m))
               /\ KeyOf(m, p[1], p[2]) \notin Drawn(minted)
  <2>1. p[1] \in Steps /\ p[2] \in DOMAIN m.steps[p[1]] /\ m.steps[p[1]][p[2]].key = Fresh
    BY DEF Places, IsNew
  <2> QED BY <1>5, <2>1
<1>8. NewKeys(m) \subseteq Drawn(minted + NewIn(m)) /\ NewKeys(m) \intersect Drawn(minted) = {}
  BY <1>7 DEF NewKeys
<1>9. ASSUME NEW s \in Steps, NEW i \in DOMAIN m.steps[s], m.steps[s][i].key = Fresh
      PROVE  KeyOf(m, s, i) \in NewKeys(m) /\ KeyOf(m, s, i) \in Keys
  <2>1. <<s, i>> \in {r \in Places(m) : IsNew(m, r)}
    BY <1>6, <1>9 DEF IsNew
  <2>2. KeyOf(m, <<s, i>>[1], <<s, i>>[2]) \in NewKeys(m)
    BY <2>1 DEF NewKeys
  <2>3. KeyOf(m, s, i) \in Range(CustomKeys)
    BY <1>5, <1>9 DEF Range
  <2> QED BY <2>2, <2>3 DEF Keys
<1>10. ASSUME NEW s \in Steps, NEW i \in DOMAIN m.steps[s], m.steps[s][i].key # Fresh
       PROVE  /\ KeyOf(m, s, i) = m.steps[s][i].key /\ KeyOf(m, s, i) \in Keys
              /\ KeyOf(m, s, i) \in Builtins \union Drawn(minted)
                   /\ KeyOf(m, s, i) \notin NewKeys(m)
  <2>1. KeyOf(m, s, i) = m.steps[s][i].key
    BY <1>10 DEF KeyOf
  <2>2. KeyOf(m, s, i) \in Keys /\ KeyOf(m, s, i) \in Builtins \union Drawn(minted)
    BY <1>1, <1>6, <1>10, <2>1 DEF Keys
  <2>3. NewKeys(m) \intersect Builtins = {}
    <3>1. Drawn(minted + NewIn(m)) \subseteq Range(CustomKeys)
      BY <1>4, DrawnFacts
    <3>2. \A k \in Range(CustomKeys) : k \notin Builtins
      BY RegistryFacts
    <3> QED BY <1>8, <3>1, <3>2
  <2> QED BY <1>8, <2>1, <2>2, <2>3
<1>11. ASSUME NEW s \in Steps, NEW t \in Steps, NEW i \in DOMAIN m.steps[s],
              NEW j \in DOMAIN m.steps[t],
              KeyOf(m, s, i) = KeyOf(m, t, j)
       PROVE  s = t /\ i = j
  <2>1. CASE m.steps[s][i].key = Fresh /\ m.steps[t][j].key = Fresh
    <3>1. Num(s, i) = Num(t, j)
      <4> HIDE DEF Num
      <4> QED BY <1>3, <1>5, <1>11, <2>1
    <3>2. NewBefore(m, s, i) \in Nat /\ NewBefore(m, t, j) \in Nat
      BY <1>2, <2>1
    <3>3. NewBefore(m, s, i) = NewBefore(m, t, j)
      BY <1>1, <3>1, <3>2
    <3> QED BY <1>2, <2>1, <3>3
  <2>2. CASE m.steps[s][i].key # Fresh /\ m.steps[t][j].key # Fresh
    BY <1>1, <1>10, <1>11, <2>2 DEF Once
  <2>3. CASE m.steps[s][i].key # Fresh /\ m.steps[t][j].key = Fresh
    BY <1>9, <1>10, <1>11, <2>3
  <2>4. CASE m.steps[s][i].key = Fresh /\ m.steps[t][j].key # Fresh
    BY <1>9, <1>10, <1>11, <2>4
  <2> QED BY <2>1, <2>2, <2>3, <2>4
<1> QED BY <1>4, <1>8, <1>9, <1>10, <1>11

-----------------------------------------------------------------------------
(* The overlay built from a page.                                          *)

Named == {q \in Question : q.key \in Keys}

\* The page's question at a place, once it has its key.
KeyedAs(m, s, i) ==
  LET q == Keyed(m)[s][i]
      p == m.steps[s][i]
  IN  /\ q \in Named /\ q.key = KeyOf(m, s, i)
      /\ q.type = p.type /\ q.label = p.label /\ q.required = p.required /\ q.hidden = p.hidden
      /\ q.key \in Builtins => /\ p.key = q.key /\ q.key \in Range(Registry[s])
                               /\ q.key \notin m.removed
                               /\ q.type = Default /\ (q.key \in Locked => q.required)
                               /\ (q.hidden => q.key \in CanHide)
      /\ q.key \notin Builtins => /\ p.key \notin Builtins /\ q.key \in Range(CustomKeys)
                                  /\ ~q.hidden /\ q.type \in Types /\ q.label \in Texts

LEMMA KeyedIs ==
  ASSUME FormAssumption, NEW m, Buildable(m)
  PROVE  /\ \A s \in Steps : Keyed(m)[s] \in Seq(Named) /\ DOMAIN Keyed(m)[s] = DOMAIN m.steps[s]
         /\ \A s \in Steps : \A i \in DOMAIN m.steps[s] : KeyedAs(m, s, i)
         /\ \A s, t \in Steps : \A i \in DOMAIN m.steps[s], j \in DOMAIN m.steps[t] :
              Keyed(m)[s][i].key = Keyed(m)[t][j].key => s = t /\ i = j
<1>1. /\ m \in Models /\ \A s \in Steps : \A q \in Range(m.steps[s]) : Editable(q, s, m)
      /\ \A q \in QuestionsOf(m) : q.key \notin Builtins => q.label # Blank
  BY DEF Buildable, PageFit
<1>2. /\ \A s \in Steps : m.steps[s] \in Seq(Question)
      /\ \A s \in Steps : \A i \in DOMAIN m.steps[s] : m.steps[s][i] \in Question
      /\ m.removed \subseteq Builtins
  BY <1>1, PageFacts
<1>3. /\ \A s \in Steps : \A i \in DOMAIN m.steps[s] :
           /\ KeyOf(m, s, i) \in Keys
           /\ m.steps[s][i].key = Fresh => KeyOf(m, s, i) \in NewKeys(m)
           /\ m.steps[s][i].key # Fresh => KeyOf(m, s, i) = m.steps[s][i].key
      /\ \A s, t \in Steps : \A i \in DOMAIN m.steps[s], j \in DOMAIN m.steps[t] :
           KeyOf(m, s, i) = KeyOf(m, t, j) => s = t /\ i = j
      /\ NewKeys(m) \subseteq Range(CustomKeys)
  <2>1. /\ minted + NewIn(m) \in Nat /\ NewKeys(m) \subseteq Drawn(minted + NewIn(m))
    BY KeysDrawn
  <2>2. Drawn(minted + NewIn(m)) \subseteq Range(CustomKeys)
    BY <2>1, DrawnFacts
  <2>3. /\ \A s \in Steps : \A i \in DOMAIN m.steps[s] :
             /\ KeyOf(m, s, i) \in Keys
             /\ m.steps[s][i].key = Fresh => KeyOf(m, s, i) \in NewKeys(m)
             /\ m.steps[s][i].key # Fresh => KeyOf(m, s, i) = m.steps[s][i].key
        /\ \A s, t \in Steps : \A i \in DOMAIN m.steps[s], j \in DOMAIN m.steps[t] :
             KeyOf(m, s, i) = KeyOf(m, t, j) => s = t /\ i = j
    BY KeysDrawn
  <2> QED BY <2>1, <2>2, <2>3
<1>4. /\ \A k \in Range(CustomKeys) : k \notin Builtins /\ k # Fresh
      /\ Fresh \notin Builtins
  BY RegistryFacts
<1>5. ASSUME NEW s \in Steps, NEW i \in DOMAIN m.steps[s]
      PROVE  KeyedAs(m, s, i) /\ Keyed(m)[s][i].key = KeyOf(m, s, i)
  <2> DEFINE p == m.steps[s][i]
             q == Keyed(m)[s][i]
             k == KeyOf(m, s, i)
  <2>1. q = [p EXCEPT !.key = k]
    BY DEF Keyed
  <2>2. p \in Question /\ p \in Range(m.steps[s]) /\ p \in QuestionsOf(m)
    BY <1>2 DEF QuestionsOf, Range
  <2>3. k \in Keys /\ (p.key = Fresh => k \in Range(CustomKeys)) /\ (p.key # Fresh => k = p.key)
    BY <1>3
  <2>4. Editable(p, s, m) /\ (p.key \notin Builtins => p.label # Blank)
    BY <1>1, <2>2
  <2> HIDE DEF p, q, k
  <2>5. /\ q.key = k /\ q.type = p.type /\ q.label = p.label /\ q.required = p.required
        /\ q.hidden = p.hidden /\ q \in Question
    BY <2>1, <2>2, <2>3 DEF Question
  <2>6. q \in Named
    BY <2>3, <2>5 DEF Named
  <2>7. q.key \in Builtins => /\ p.key = q.key /\ q.key \in Range(Registry[s])
                              /\ q.key \notin m.removed
                              /\ q.type = Default /\ (q.key \in Locked => q.required)
                              /\ (q.hidden => q.key \in CanHide)
    <3>1. SUFFICES ASSUME q.key \in Builtins PROVE p.key = q.key
      BY <2>4, <2>5 DEF Editable
    <3> QED BY <1>4, <2>3, <2>5, <3>1
  <2>8. q.key \notin Builtins => /\ p.key \notin Builtins /\ q.key \in Range(CustomKeys)
                                 /\ ~q.hidden /\ q.type \in Types /\ q.label \in Texts
    <3> SUFFICES ASSUME q.key \notin Builtins
                 PROVE  /\ p.key \notin Builtins /\ q.key \in Range(CustomKeys)
                        /\ ~q.hidden /\ q.type \in Types /\ q.label \in Texts
      OBVIOUS
    <3>1. p.key \notin Builtins
      BY <1>4, <2>3, <2>5
    <3>2. q.key \in Range(CustomKeys)
      BY <2>3, <2>5 DEF Keys
    <3>3. p.label \in Texts
      BY <2>2, <2>4, <3>1 DEF Question
    <3> QED BY <2>4, <2>5, <3>1, <3>2, <3>3 DEF Editable
  <2> QED BY <2>5, <2>6, <2>7, <2>8 DEF KeyedAs, p, q, k
<1>6. ASSUME NEW s \in Steps
      PROVE  Keyed(m)[s] \in Seq(Named) /\ DOMAIN Keyed(m)[s] = DOMAIN m.steps[s]
  <2>1. Len(m.steps[s]) \in Nat /\ DOMAIN m.steps[s] = 1..Len(m.steps[s])
    BY <1>2, ListFacts
  <2>2. Keyed(m)[s] = [i \in DOMAIN m.steps[s] |-> [m.steps[s][i] EXCEPT !.key = KeyOf(m, s, i)]]
    BY DEF Keyed
  <2>3. \A i \in DOMAIN m.steps[s] : Keyed(m)[s][i] \in Named
    BY <1>5 DEF KeyedAs
  <2> DEFINE f == Keyed(m)[s]
  <2>4. DOMAIN f = 1..Len(m.steps[s]) /\ f = [i \in DOMAIN f |-> f[i]]
    BY <2>1, <2>2
  <2>5. \A i \in 1..Len(m.steps[s]) : f[i] \in Named
    BY <2>1, <2>3
  <2> HIDE DEF f
  <2>6. f \in [1..Len(m.steps[s]) -> Named]
    BY <2>4, <2>5
  <2>7. f \in Seq(Named)
    BY <2>1, <2>6, ListOf
  <2> QED BY <2>1, <2>4, <2>7 DEF f
<1>7. ASSUME NEW s \in Steps, NEW t \in Steps, NEW i \in DOMAIN m.steps[s],
             NEW j \in DOMAIN m.steps[t],
             Keyed(m)[s][i].key = Keyed(m)[t][j].key
      PROVE  s = t /\ i = j
  BY <1>3, <1>5, <1>7
<1> QED BY <1>5, <1>6, <1>7

Present(m) == UNION {Range(KeysOf(Keyed(m)[s])) : s \in Steps}
Back(m, s) == Only(Registry[s],
  {i \in DOMAIN Registry[s] : Registry[s][i] \notin Present(m) \union m.removed})

\* The questions of a save and their keys.
LEMMA PresentIs ==
  ASSUME FormAssumption, NEW m, Buildable(m)
  PROVE  /\ \A s \in Steps : /\ KeysOf(Keyed(m)[s]) \in Seq(Keys)
                             /\ IsInjective(KeysOf(Keyed(m)[s]))
                             /\ DOMAIN KeysOf(Keyed(m)[s]) = DOMAIN m.steps[s]
                             /\ \A i \in DOMAIN m.steps[s] : KeysOf(Keyed(m)[s])[i]
                                  = Keyed(m)[s][i].key
         /\ \A k : k \in Present(m)
              <=> \E s \in Steps : \E i \in DOMAIN m.steps[s] : Keyed(m)[s][i].key = k
         /\ \A k \in Present(m) : k \in Keys /\ k \notin m.removed
         /\ \A s \in Steps : /\ Back(m, s) \in Seq(Keys) /\ IsInjective(Back(m, s))
                             /\ Range(Back(m, s))
                                  = {k \in Range(Registry[s]) : k \notin Present(m) \union m.removed}
<1>1. /\ \A s \in Steps : Keyed(m)[s] \in Seq(Named) /\ DOMAIN Keyed(m)[s] = DOMAIN m.steps[s]
      /\ \A s \in Steps : \A i \in DOMAIN m.steps[s] : KeyedAs(m, s, i)
      /\ \A s, t \in Steps : \A i \in DOMAIN m.steps[s], j \in DOMAIN m.steps[t] :
           Keyed(m)[s][i].key = Keyed(m)[t][j].key => s = t /\ i = j
  BY KeyedIs
<1>2. ASSUME NEW s \in Steps
      PROVE  /\ KeysOf(Keyed(m)[s]) \in Seq(Keys) /\ DOMAIN KeysOf(Keyed(m)[s]) = DOMAIN m.steps[s]
             /\ \A i \in DOMAIN m.steps[s] : KeysOf(Keyed(m)[s])[i] = Keyed(m)[s][i].key
  <2>1. \A q \in Named : q.key \in Keys
    BY DEF Named
  <2>2. Keyed(m)[s] \in Seq(Named) /\ DOMAIN Keyed(m)[s] = DOMAIN m.steps[s]
    BY <1>1
  <2>3. /\ KeysOf(Keyed(m)[s]) \in Seq(Keys) /\ DOMAIN KeysOf(Keyed(m)[s]) = DOMAIN Keyed(m)[s]
        /\ \A i \in DOMAIN Keyed(m)[s] : KeysOf(Keyed(m)[s])[i] = Keyed(m)[s][i].key
    BY <2>1, <2>2, KeysOfIs
  <2> QED BY <2>2, <2>3
<1>3. \A s \in Steps : IsInjective(KeysOf(Keyed(m)[s]))
  BY <1>1, <1>2 DEF IsInjective
<1>4. \A k : k \in Present(m)
        <=> \E s \in Steps : \E i \in DOMAIN m.steps[s] : Keyed(m)[s][i].key = k
  <2>1. \A s \in Steps : \A k : k \in Range(KeysOf(Keyed(m)[s]))
          <=> \E i \in DOMAIN m.steps[s] : Keyed(m)[s][i].key = k
    BY <1>2 DEF Range
  <2> QED BY <2>1 DEF Present
<1>5. ASSUME NEW k \in Present(m) PROVE k \in Keys /\ k \notin m.removed
  <2>1. PICK s \in Steps : \E i \in DOMAIN m.steps[s] : Keyed(m)[s][i].key = k
    BY <1>4
  <2>4. PICK i \in DOMAIN m.steps[s] : Keyed(m)[s][i].key = k
    BY <2>1
  <2>2. KeyedAs(m, s, i)
    BY <1>1
  <2>3. m.removed \subseteq Builtins
    BY PageFacts DEF Buildable, PageFit
  <2> QED BY <2>4, <2>2, <2>3 DEF KeyedAs, Named
<1>6. ASSUME NEW s \in Steps
      PROVE  /\ Back(m, s) \in Seq(Keys) /\ IsInjective(Back(m, s))
             /\ Range(Back(m, s))
                  = {k \in Range(Registry[s]) : k \notin Present(m) \union m.removed}
  <2> DEFINE at == {i \in DOMAIN Registry[s] : Registry[s][i] \notin Present(m) \union m.removed}
  <2>1. Registry[s] \in Seq(Keys) /\ IsInjective(Registry[s]) /\ at \in SUBSET DOMAIN Registry[s]
    BY RegistryFacts
  <2>2. Only(Registry[s], at) \in Seq(Keys)
          /\ Range(Only(Registry[s], at)) = {Registry[s][i] : i \in at}
    BY <2>1, OnlyIs, OnlyRange
  <2>3. \A i, j \in at : Registry[s][i] = Registry[s][j] => i = j
    BY <2>1 DEF IsInjective
  <2>4. IsInjective(Only(Registry[s], at))
    BY <2>1, <2>3, OnlyInjective
  <2>5. {Registry[s][i] : i \in at}
          = {k \in Range(Registry[s]) : k \notin Present(m) \union m.removed}
    BY DEF Range
  <2> QED BY <2>2, <2>4, <2>5 DEF Back
<1> QED BY <1>2, <1>3, <1>4, <1>5, <1>6

\* The parts of the overlay.
LEMMA BuiltIs ==
  ASSUME FormAssumption, NEW m, Buildable(m)
  PROVE  /\ buildOverlay(m).removed = m.removed /\ m.removed \subseteq Builtins
         /\ DOMAIN buildOverlay(m).q = Present(m) \intersect Builtins
         /\ \A s \in Steps : \A i \in DOMAIN m.steps[s] : Keyed(m)[s][i].key \in Builtins =>
              buildOverlay(m).q[Keyed(m)[s][i].key] = buildBuiltinOverlay(Keyed(m)[s][i])
         /\ DOMAIN buildOverlay(m).order = Steps
         /\ \A s \in Steps : buildOverlay(m).order[s] = KeysOf(Keyed(m)[s]) \o Back(m, s)
         /\ buildOverlay(m).custom \in Seq(AddedQuestion)
         /\ \A s \in Steps : \A i \in DOMAIN m.steps[s] : Keyed(m)[s][i].key \notin Builtins =>
              buildCustomQuestion(Keyed(m)[s][i], s) \in Range(buildOverlay(m).custom)
         /\ \A c \in Range(buildOverlay(m).custom) : \E s \in Steps : \E i \in DOMAIN m.steps[s] :
              Keyed(m)[s][i].key \notin Builtins /\ c = buildCustomQuestion(Keyed(m)[s][i], s)
<1> DEFINE a == Keyed(m)
           Q == UNION {Range(a[s]) : s \in Steps}
           question(k) == CHOOSE q \in Q : q.key = k
           others(s) == {i \in DOMAIN a[s] : a[s][i].key \notin Builtins}
           added(s) == Only(a[s], others(s))
           built(s) == [i \in DOMAIN added(s) |-> buildCustomQuestion(added(s)[i], s)]
           lists == [s \in Steps |-> built(s)]
           b == buildOverlay(m)
<1>1. /\ \A s \in Steps : a[s] \in Seq(Named) /\ DOMAIN a[s] = DOMAIN m.steps[s]
      /\ \A s \in Steps : \A i \in DOMAIN m.steps[s] : KeyedAs(m, s, i)
      /\ \A s, t \in Steps : \A i \in DOMAIN m.steps[s], j \in DOMAIN m.steps[t] :
           a[s][i].key = a[t][j].key => s = t /\ i = j
  BY KeyedIs
<1>2. /\ \A k : k \in Present(m) <=> \E s \in Steps : \E i \in DOMAIN m.steps[s] : a[s][i].key = k
      /\ \A k \in Present(m) : k \in Keys /\ k \notin m.removed
  BY PresentIs
<1>3. m.removed \ Present(m) = m.removed /\ m.removed \subseteq Builtins
  <2>1. m.removed \subseteq Builtins
    BY PageFacts DEF Buildable, PageFit
  <2> QED BY <1>2, <2>1
<1>4. /\ b.removed = m.removed
      /\ b.q = [k \in Present(m) \intersect Builtins |-> buildBuiltinOverlay(question(k))]
      /\ b.order = [s \in Steps |-> KeysOf(a[s]) \o Back(m, s)]
      /\ b.custom = FlattenSeq(lists)
  <2>1. b = [q |-> [k \in Present(m) \intersect Builtins |-> buildBuiltinOverlay(question(k))],
             order |-> [s \in Steps |-> KeysOf(a[s]) \o
                          Only(Registry[s], {i \in DOMAIN Registry[s] :
                                   Registry[s][i] \notin Present(m) \union (m.removed \ Present(m))})],
             removed |-> m.removed \ Present(m),
             custom |-> FlattenSeq(lists)]
    BY DEF buildOverlay, Present
  <2> DEFINE R == m.removed \ Present(m)
             back(s, r) == Only(Registry[s],
               {i \in DOMAIN Registry[s] : Registry[s][i] \notin Present(m) \union r})
  <2>0. R = m.removed /\ \A s : Back(m, s) = back(s, m.removed)
    BY <1>3 DEF Back
  <2>4. b.order = [s \in Steps |-> KeysOf(a[s]) \o back(s, R)]
    BY <2>1
  <2> HIDE DEF R, back, b
  <2>5. b.order = [s \in Steps |-> KeysOf(a[s]) \o back(s, m.removed)]
    BY <2>0, <2>4
  <2>2. b.order = [s \in Steps |-> KeysOf(a[s]) \o Back(m, s)]
    BY <2>0, <2>5
  <2>3. /\ b.removed = m.removed /\ b.custom = FlattenSeq(lists)
        /\ b.q = [k \in Present(m) \intersect Builtins |-> buildBuiltinOverlay(question(k))]
    BY <1>3, <2>1 DEF R
  <2> QED BY <2>2, <2>3
<1> HIDE DEF b
<1>5. ASSUME NEW s \in Steps, NEW i \in DOMAIN m.steps[s] PROVE question(a[s][i].key) = a[s][i]
  <2>1. a[s][i] \in Q
    BY <1>1 DEF Range
  <2>2. ASSUME NEW q \in Q, q.key = a[s][i].key PROVE q = a[s][i]
    <3>1. PICK t \in Steps : q \in Range(a[t])
      OBVIOUS
    <3>2. PICK j \in DOMAIN m.steps[t] : q = a[t][j]
      BY <1>1, <3>1 DEF Range
    <3> QED BY <1>1, <2>2, <3>2
  <2> HIDE DEF Q
  <2> QED BY <2>1, <2>2
<1>6. ASSUME NEW s \in Steps, NEW i \in DOMAIN m.steps[s], a[s][i].key \in Builtins
      PROVE  b.q[a[s][i].key] = buildBuiltinOverlay(a[s][i])
  <2>1. a[s][i].key \in Present(m) \intersect Builtins
    BY <1>2, <1>6
  <2>2. question(a[s][i].key) = a[s][i]
    BY <1>5
  <2> HIDE DEF question
  <2>3. b.q[a[s][i].key] = buildBuiltinOverlay(question(a[s][i].key))
    BY <1>4, <2>1
  <2> QED BY <2>2, <2>3
<1>7. ASSUME NEW s \in Steps, NEW i \in DOMAIN m.steps[s], a[s][i].key \notin Builtins
      PROVE  buildCustomQuestion(a[s][i], s) \in AddedQuestion
  <2> DEFINE q == a[s][i]
  <2>1. /\ q.key \in Range(CustomKeys) /\ q.type \in Types /\ q.label \in Texts /\ q \in Question
    BY <1>1, <1>7 DEF KeyedAs, Named
  <2> HIDE DEF q
  <2>2. q.required \in BOOLEAN
    BY <2>1 DEF Question
  <2> QED BY <2>1, <2>2 DEF buildCustomQuestion, AddedQuestion, q
<1>8. ASSUME NEW s \in Steps
      PROVE  /\ built(s) \in Seq(AddedQuestion)
             /\ Range(built(s)) = {buildCustomQuestion(a[s][i], s) : i \in others(s)}
  <2>1. a[s] \in Seq(Named) /\ DOMAIN a[s] = DOMAIN m.steps[s] /\ others(s) \in SUBSET DOMAIN a[s]
    BY <1>1
  <2>2. \A i \in others(s) : buildCustomQuestion(a[s][i], s) \in AddedQuestion
    BY <1>7, <2>1
  <2> DEFINE few == added(s)
             f == built(s)
             B(q) == buildCustomQuestion(q, s)
  <2>0. f = [i \in DOMAIN few |-> B(few[i])]
    OBVIOUS
  <2> HIDE DEF others, a
  <2>3. /\ few \in Seq(Named) /\ DOMAIN few = 1..Cardinality(others(s))
             /\ Cardinality(others(s)) \in Nat
        /\ Range(few) = {a[s][i] : i \in others(s)}
    BY <2>1, OnlyIs, OnlyRange
  <2> HIDE DEF few, f, B
  <2>4. \A q \in Range(few) : B(q) \in AddedQuestion
    BY <2>2, <2>3 DEF B
  <2>5. f \in [1..Cardinality(others(s)) -> AddedQuestion] /\ Range(f) = {B(q) : q \in Range(few)}
    <3>1. \A i \in DOMAIN few : B(few[i]) \in AddedQuestion
      BY <2>4 DEF Range
    <3>2. f \in [1..Cardinality(others(s)) -> AddedQuestion]
      BY <2>0, <2>3, <3>1
    <3>3. Range(f) = {B(q) : q \in Range(few)}
      BY <2>0 DEF Range
    <3> QED BY <3>2, <3>3
  <2>6. f \in Seq(AddedQuestion)
    BY <2>3, <2>5, ListOf
  <2>7. Range(f) = {B(a[s][i]) : i \in others(s)}
    BY <2>3, <2>5
  <2>8. f = built(s) /\ \A i : B(a[s][i]) = buildCustomQuestion(a[s][i], s)
    BY DEF f, few, B
  <2> QED BY <2>6, <2>7, <2>8
<1> HIDE DEF built
<1>9. /\ FlattenSeq(lists) \in Seq(AddedQuestion)
      /\ Range(FlattenSeq(lists)) = UNION {Range(built(s)) : s \in Steps}
  <2>1. Len(Registry) \in Nat /\ Steps = 1..Len(Registry)
    BY RegistryFacts
  <2>2. lists \in [1..Len(Registry) -> Seq(AddedQuestion)]
    BY <1>8, <2>1
  <2>3. \A s \in Steps : lists[s] = built(s)
    OBVIOUS
  <2> HIDE DEF lists
  <2>4. lists \in Seq(Seq(AddedQuestion)) /\ DOMAIN lists = Steps
    BY <2>1, <2>2, ListOf
  <2>5. /\ FlattenSeq(lists) \in Seq(AddedQuestion)
        /\ Range(FlattenSeq(lists)) = UNION {Range(lists[s]) : s \in DOMAIN lists}
    BY <2>4, FlattenIs
  <2> QED BY <2>3, <2>4, <2>5
<1> HIDE DEF lists
<1>10. ASSUME NEW s \in Steps, NEW i \in DOMAIN m.steps[s], a[s][i].key \notin Builtins
       PROVE  buildCustomQuestion(a[s][i], s) \in Range(b.custom)
  <2>1. i \in others(s)
    BY <1>1, <1>10
  <2>2. buildCustomQuestion(a[s][i], s) \in Range(built(s))
    BY <1>8, <2>1
  <2> QED BY <1>4, <1>9, <2>2
<1>11. ASSUME NEW c \in Range(b.custom)
       PROVE  \E s \in Steps : \E i \in DOMAIN m.steps[s] :
                a[s][i].key \notin Builtins /\ c = buildCustomQuestion(a[s][i], s)
  <2>1. PICK s \in Steps : c \in Range(built(s))
    BY <1>4, <1>9
  <2>2. PICK i \in others(s) : c = buildCustomQuestion(a[s][i], s)
    BY <1>8, <2>1
  <2>3. i \in DOMAIN m.steps[s] /\ a[s][i].key \notin Builtins
    BY <1>1
  <2> QED BY <2>2, <2>3
<1>12. DOMAIN b.q = Present(m) \intersect Builtins
  BY <1>4
<1>13. DOMAIN b.order = Steps /\ \A s \in Steps : b.order[s] = KeysOf(a[s]) \o Back(m, s)
  BY <1>4
<1> QED BY <1>3, <1>4, <1>6, <1>9, <1>10, <1>11, <1>12, <1>13 DEF b

\* What is built can be stored, and its order is the form's.
LEMMA BuiltStored ==
  ASSUME FormAssumption, NEW m, Buildable(m)
  PROVE  /\ WellStored(buildOverlay(m))
         /\ \A s \in Steps : StepKeys(s, buildOverlay(m)) = KeysOf(Keyed(m)[s]) \o Back(m, s)
<1> DEFINE b == buildOverlay(m)
           a == Keyed(m)
           order(s) == KeysOf(a[s]) \o Back(m, s)
<1>1. /\ b.removed = m.removed /\ m.removed \subseteq Builtins
      /\ DOMAIN b.q = Present(m) \intersect Builtins
      /\ \A s \in Steps : \A i \in DOMAIN m.steps[s] : a[s][i].key \in Builtins =>
           b.q[a[s][i].key] = buildBuiltinOverlay(a[s][i])
      /\ DOMAIN b.order = Steps /\ \A s \in Steps : b.order[s] = order(s)
      /\ b.custom \in Seq(AddedQuestion)
      /\ \A s \in Steps : \A i \in DOMAIN m.steps[s] : a[s][i].key \notin Builtins =>
           buildCustomQuestion(a[s][i], s) \in Range(b.custom)
      /\ \A c \in Range(b.custom) : \E s \in Steps : \E i \in DOMAIN m.steps[s] :
           a[s][i].key \notin Builtins /\ c = buildCustomQuestion(a[s][i], s)
  BY BuiltIs
<1>2. /\ \A s \in Steps : a[s] \in Seq(Named) /\ DOMAIN a[s] = DOMAIN m.steps[s]
      /\ \A s \in Steps : \A i \in DOMAIN m.steps[s] : KeyedAs(m, s, i)
      /\ \A s, t \in Steps : \A i \in DOMAIN m.steps[s], j \in DOMAIN m.steps[t] :
           a[s][i].key = a[t][j].key => s = t /\ i = j
  BY KeyedIs
<1>3. /\ \A s \in Steps : /\ KeysOf(a[s]) \in Seq(Keys) /\ IsInjective(KeysOf(a[s]))
                          /\ DOMAIN KeysOf(a[s]) = DOMAIN m.steps[s]
                          /\ \A i \in DOMAIN m.steps[s] : KeysOf(a[s])[i] = a[s][i].key
      /\ \A k : k \in Present(m) <=> \E s \in Steps : \E i \in DOMAIN m.steps[s] : a[s][i].key = k
      /\ \A k \in Present(m) : k \in Keys /\ k \notin m.removed
      /\ \A s \in Steps : /\ Back(m, s) \in Seq(Keys) /\ IsInjective(Back(m, s))
                          /\ Range(Back(m, s))
                               = {k \in Range(Registry[s]) : k \notin Present(m) \union m.removed}
  BY PresentIs
<1>4. \A s \in Steps : \A k : k \in Range(KeysOf(a[s]))
        <=> \E i \in DOMAIN m.steps[s] : a[s][i].key = k
  BY <1>3 DEF Range
<1> HIDE DEF b, a
<1>5. ASSUME NEW s \in Steps
      PROVE  /\ order(s) \in Seq(Keys) /\ IsInjective(order(s))
             /\ Range(order(s)) = Range(KeysOf(a[s])) \union Range(Back(m, s))
  <2>1. Range(KeysOf(a[s])) \intersect Range(Back(m, s)) = {}
    BY <1>3, <1>4
  <2> QED BY <1>3, <2>1, ConcatFacts, ConcatRange, ConcatInjective
<1> HIDE DEF order
<1>6. ASSUME NEW k \in DOMAIN b.q PROVE b.q[k] \in StoredQuestion
  <2>1. PICK s \in Steps : \E i \in DOMAIN m.steps[s] : a[s][i].key = k
    BY <1>1, <1>3
  <2>2. PICK i \in DOMAIN m.steps[s] : a[s][i].key = k
    BY <2>1
  <2> DEFINE q == a[s][i]
  <2>3. q \in Question
    BY <1>2 DEF KeyedAs, Named, a
  <2>4. b.q[k] = buildBuiltinOverlay(q)
    BY <1>1, <2>2
  <2> HIDE DEF q
  <2> QED BY <2>3, <2>4 DEF buildBuiltinOverlay, Question, StoredQuestion
<1>7. ASSUME NEW c \in Range(b.custom) PROVE c.key \in Range(b.order[c.step])
  <2>1. PICK s \in Steps : \E i \in DOMAIN m.steps[s] : a[s][i].key \notin Builtins
          /\ c = buildCustomQuestion(a[s][i], s)
    BY <1>1
  <2>2. PICK i \in DOMAIN m.steps[s] : a[s][i].key \notin Builtins
          /\ c = buildCustomQuestion(a[s][i], s)
    BY <2>1
  <2>3. c.key = a[s][i].key /\ c.step = s
    BY <2>2 DEF buildCustomQuestion
  <2>4. c.key \in Range(KeysOf(a[s]))
    BY <1>4, <2>3
  <2> QED BY <1>1, <1>5, <2>3, <2>4
<1>8. ASSUME NEW c \in Range(b.custom), NEW d \in Range(b.custom), c.key = d.key PROVE c = d
  <2>1. PICK s \in Steps : \E i \in DOMAIN m.steps[s] : c = buildCustomQuestion(a[s][i], s)
    BY <1>1
  <2>2. PICK i \in DOMAIN m.steps[s] : c = buildCustomQuestion(a[s][i], s)
    BY <2>1
  <2>3. PICK t \in Steps : \E j \in DOMAIN m.steps[t] : d = buildCustomQuestion(a[t][j], t)
    BY <1>1
  <2>4. PICK j \in DOMAIN m.steps[t] : d = buildCustomQuestion(a[t][j], t)
    BY <2>3
  <2>5. a[s][i].key = a[t][j].key
    BY <1>8, <2>2, <2>4 DEF buildCustomQuestion
  <2> QED BY <1>2, <2>2, <2>4, <2>5
<1>9. WellStored(b)
  <2>1. b.order \in [Steps -> Seq(Keys)] /\ \A s \in Steps : IsInjective(b.order[s])
    <3>1. \A s \in Steps : b.order[s] \in Seq(Keys) /\ IsInjective(b.order[s])
      BY <1>1, <1>5
    <3>2. b.order = [s \in Steps |-> b.order[s]]
      <4>1. b.order = [s \in Steps |-> KeysOf(a[s]) \o
                          Only(Registry[s], {i \in DOMAIN Registry[s] :
                                   Registry[s][i] \notin Present(m) \union (m.removed \ Present(m))})]
        BY DEF buildOverlay, Present, a, b
      <4> QED BY <4>1
    <3> QED BY <3>1, <3>2
  <2>2. DOMAIN b.q \subseteq Builtins
    BY <1>1
  <2> QED BY <1>1, <1>6, <1>7, <1>8, <2>1, <2>2 DEF WellStored
<1>10. ASSUME NEW s \in Steps PROVE Placed(s, b) = Range(order(s))
  <2>0. /\ Range(Registry[s]) \subseteq Builtins /\ \A k \in Range(CustomKeys) : k \notin Builtins
        /\ \A t \in Steps : \A k : k \in Range(Registry[s]) /\ k \in Range(Registry[t]) => s = t
    BY RegistryFacts
  <2>1. ASSUME NEW k \in Placed(s, b) PROVE k \in Range(order(s))
    <3>1. CASE k \in Range(Registry[s]) /\ k \notin m.removed /\ k \notin Present(m)
      BY <1>3, <1>5, <3>1
    <3>2. CASE k \in Range(Registry[s]) /\ k \in Present(m)
      <4>1. PICK t \in Steps : \E i \in DOMAIN m.steps[t] : a[t][i].key = k
        BY <1>3, <3>2
      <4>2. PICK i \in DOMAIN m.steps[t] : a[t][i].key = k
        BY <4>1
      <4>3. k \in Range(Registry[t])
        BY <1>2, <2>0, <3>2, <4>2 DEF KeyedAs, a
      <4>4. s = t
        BY <2>0, <3>2, <4>3
      <4> QED BY <1>4, <1>5, <4>2, <4>4
    <3>3. CASE \E c \in Range(b.custom) : c.key = k /\ c.step = s
      BY <1>1, <1>7, <3>3
    <3> QED BY <1>1, <3>1, <3>2, <3>3 DEF Placed
  <2>2. ASSUME NEW k \in Range(KeysOf(a[s])) PROVE k \in Placed(s, b)
    <3>1. PICK i \in DOMAIN m.steps[s] : a[s][i].key = k
      BY <1>4
    <3>2. KeyedAs(m, s, i)
      BY <1>2
    <3>3. CASE k \in Builtins
      BY <1>1, <3>1, <3>2, <3>3 DEF KeyedAs, Placed, a
    <3>4. CASE k \notin Builtins
      <4>1. buildCustomQuestion(a[s][i], s) \in Range(b.custom)
        BY <1>1, <3>1, <3>4
      <4>2. buildCustomQuestion(a[s][i], s).key = k /\ buildCustomQuestion(a[s][i], s).step = s
        BY <3>1 DEF buildCustomQuestion
      <4>3. k \in Range(CustomKeys)
        BY <3>1, <3>2, <3>4 DEF KeyedAs, a
      <4> QED BY <4>1, <4>2, <4>3 DEF Placed
    <3> QED BY <3>3, <3>4
  <2>3. ASSUME NEW k \in Range(Back(m, s)) PROVE k \in Placed(s, b)
    BY <1>1, <1>3 DEF Placed
  <2> QED BY <1>5, <2>1, <2>2, <2>3
<1>11. ASSUME NEW s \in Steps PROVE StepKeys(s, b) = order(s)
  <2> DEFINE all == Valid(s, b)
             named == {i \in DOMAIN b.order[s] : b.order[s][i] \in Range(all)}
             known == Only(b.order[s], named)
             more == {i \in DOMAIN all : all[i] \notin Range(known)}
  <2>1. all \in Seq(Keys) /\ Range(all) = Range(order(s))
    BY <1>9, <1>10, ValidIs
  <2>2. StepKeys(s, b) = known \o Only(all, more)
    BY DEF StepKeys
  <2> HIDE DEF all
  <2>3. named = DOMAIN order(s)
    BY <1>1, <2>1 DEF Range
  <2>4. known = order(s)
    BY <1>1, <1>5, <2>3, OnlyAll
  <2> HIDE DEF known, named
  <2>5. more = {}
    BY <2>1, <2>4 DEF Range
  <2>6. Only(all, more) = <<>>
    BY <2>5, OnlyNone
  <2>7. order(s) \o <<>> = order(s)
    BY <1>5, ConcatEmptySeq
  <2> QED BY <2>2, <2>4, <2>6, <2>7
<1> QED BY <1>9, <1>11 DEF order, a, b

\* A question kept is asked as the page had it, one that comes back as the code has it.
LEMMA BuiltQuestion ==
  ASSUME FormAssumption, NEW m, Buildable(m)
  PROVE  /\ \A s \in Steps : \A i \in DOMAIN m.steps[s] :
              /\ ~Keyed(m)[s][i].hidden =>
                   publicQuestion(Keyed(m)[s][i].key, buildOverlay(m)) = PublicOf(Keyed(m)[s][i])
              /\ Keyed(m)[s][i].key \in Builtins =>
                   (builtinHidden(Keyed(m)[s][i].key, buildOverlay(m)) <=> Keyed(m)[s][i].hidden)
         /\ \A k \in Builtins : k \notin Present(m) =>
              publicQuestion(k, buildOverlay(m)) = Stock(k) /\ ~builtinHidden(k, buildOverlay(m))
<1> DEFINE b == buildOverlay(m)
           a == Keyed(m)
<1>1. /\ DOMAIN b.q = Present(m) \intersect Builtins
      /\ \A s \in Steps : \A i \in DOMAIN m.steps[s] : a[s][i].key \in Builtins =>
           b.q[a[s][i].key] = buildBuiltinOverlay(a[s][i])
      /\ \A s \in Steps : \A i \in DOMAIN m.steps[s] : a[s][i].key \notin Builtins =>
           buildCustomQuestion(a[s][i], s) \in Range(b.custom)
  BY BuiltIs
<1>2. \A s \in Steps : \A i \in DOMAIN m.steps[s] : KeyedAs(m, s, i)
  BY KeyedIs
<1>3. \A k : k \in Present(m) <=> \E s \in Steps : \E i \in DOMAIN m.steps[s] : a[s][i].key = k
  BY PresentIs
<1>4. \A c, d \in Range(b.custom) : c.key = d.key => c = d
  BY BuiltStored, StoredFacts
<1>5. CanHide \subseteq Builtins \ Locked /\ Blank \notin Texts /\ Default \in Texts
  BY DEF FormAssumption
<1> HIDE DEF b
<1>6. ASSUME NEW s \in Steps, NEW i \in DOMAIN m.steps[s]
      PROVE  /\ ~a[s][i].hidden => publicQuestion(a[s][i].key, b) = PublicOf(a[s][i])
             /\ a[s][i].key \in Builtins => (builtinHidden(a[s][i].key, b) <=> a[s][i].hidden)
  <2> DEFINE q == a[s][i]
             k == q.key
  <2>0. q \in Question
    BY <1>2 DEF KeyedAs, Named
  <2>1. CASE k \in Builtins
    <3>1. k \in DOMAIN b.q /\ b.q[k] = buildBuiltinOverlay(q)
      BY <1>1, <1>3, <2>1
    <3>2. q.type = Default /\ (k \in Locked => q.required) /\ (q.hidden => k \in CanHide)
      BY <1>2, <2>1 DEF KeyedAs
    <3> HIDE DEF q
    <3>3. b.q[k].label = q.label /\ b.q[k].required = q.required /\ b.q[k].hidden = q.hidden
      BY <3>1 DEF buildBuiltinOverlay
    <3>4. builtinHidden(k, b) <=> q.hidden
      BY <3>1, <3>2, <3>3 DEF builtinHidden
    <3>5. ASSUME ~q.hidden PROVE publicQuestion(k, b) = PublicOf(q)
      <4>1. builtinRequired(k, b) = q.required
        <5>1. builtinRequired(k, b) <=> q.required
          BY <3>1, <3>2, <3>3, <3>4, <3>5 DEF builtinRequired
        <5>2. builtinRequired(k, b) \in BOOLEAN /\ q.required \in BOOLEAN
          BY <2>0, <3>3 DEF builtinRequired, Question
        <5> QED BY <5>1, <5>2
      <4>2. Label(k, b) = IF q.label = Blank THEN Default ELSE q.label
        BY <3>1, <3>3 DEF Label
      <4> QED BY <2>1, <3>2, <4>1, <4>2 DEF publicQuestion, PublicOf
    <3> QED BY <3>4, <3>5 DEF q
  <2>2. CASE k \notin Builtins
    <3>1. buildCustomQuestion(q, s) \in Range(b.custom)
      BY <1>1, <2>2
    <3>2. q.label \in Texts
      BY <1>2, <2>2 DEF KeyedAs
    <3> DEFINE c == buildCustomQuestion(q, s)
    <3> HIDE DEF q
    <3>3. c.key = k /\ c.type = q.type /\ c.label = q.label /\ c.required = q.required
      BY DEF buildCustomQuestion
    <3> HIDE DEF c
    <3>4. CustomOf(k, b) = c
      BY <1>4, <3>1, <3>3 DEF CustomOf, c
    <3>5. publicQuestion(k, b) = PublicOf(q)
      BY <1>5, <2>2, <3>2, <3>3, <3>4 DEF publicQuestion, PublicOf
    <3> QED BY <2>2, <3>5 DEF q
  <2> QED BY <2>1, <2>2
<1>7. ASSUME NEW k \in Builtins, k \notin Present(m)
      PROVE  publicQuestion(k, b) = Stock(k) /\ ~builtinHidden(k, b)
  <2>1. k \notin DOMAIN b.q
    BY <1>1, <1>7
  <2>2. ~builtinHidden(k, b) /\ builtinRequired(k, b) = TRUE /\ Label(k, b) = Default
    BY <2>1 DEF builtinHidden, builtinRequired, Label
  <2> QED BY <2>2 DEF publicQuestion, Stock
<1> QED BY <1>6, <1>7 DEF b

\* What the site asks after a save, question by question.
LEMMA BuiltShows ==
  ASSUME FormAssumption, NEW m, Buildable(m), NEW k \in Keys, k \notin NewKeys(m)
  PROVE  Asked(k, buildOverlay(m)) = Shown(k, m)
<1> DEFINE b == buildOverlay(m)
           a == Keyed(m)
           A == {r \in QuestionsOf(m) : r.key = k /\ ~r.hidden}
           D == {h \in {k} \intersect Builtins : ~Gone(h, m)}
<1>1. /\ b.removed = m.removed
      /\ \A s \in Steps : \A i \in DOMAIN m.steps[s] : a[s][i].key \notin Builtins =>
           buildCustomQuestion(a[s][i], s) \in Range(b.custom)
      /\ \A c \in Range(b.custom) : \E s \in Steps : \E i \in DOMAIN m.steps[s] :
           a[s][i].key \notin Builtins /\ c = buildCustomQuestion(a[s][i], s)
  BY BuiltIs
<1>2. /\ \A s \in Steps : \A i \in DOMAIN m.steps[s] : KeyedAs(m, s, i)
      /\ \A s, t \in Steps : \A i \in DOMAIN m.steps[s], j \in DOMAIN m.steps[t] :
           a[s][i].key = a[t][j].key => s = t /\ i = j
  BY KeyedIs
<1>3. \A h : h \in Present(m) <=> \E s \in Steps : \E i \in DOMAIN m.steps[s] : a[s][i].key = h
  BY PresentIs
<1>4. /\ \A s \in Steps : \A i \in DOMAIN m.steps[s] :
           /\ ~a[s][i].hidden => publicQuestion(a[s][i].key, b) = PublicOf(a[s][i])
           /\ a[s][i].key \in Builtins => (builtinHidden(a[s][i].key, b) <=> a[s][i].hidden)
      /\ \A h \in Builtins : h \notin Present(m) =>
           publicQuestion(h, b) = Stock(h) /\ ~builtinHidden(h, b)
  BY BuiltQuestion
<1>5. \A s \in Steps : \A i \in DOMAIN m.steps[s] :
        /\ m.steps[s][i].key = Fresh => KeyOf(m, s, i) \in NewKeys(m)
        /\ m.steps[s][i].key # Fresh => KeyOf(m, s, i) = m.steps[s][i].key
  BY KeysDrawn
<1>6. WellStored(b) /\ \A h \in Range(CustomKeys) : h \notin Builtins /\ h # Fresh
  BY BuiltStored, RegistryFacts
<1>7. k # Fresh
  BY <1>6, RegistryFacts DEF Keys
<1> HIDE DEF b, a
<1>8. Asked(k, b) = IF k \in Visible(b) THEN {publicQuestion(k, b)} ELSE {}
  BY <1>6, AskedIs
<1>9. Shown(k, m) = {PublicOf(q) : q \in A} \union {Stock(h) : h \in D}
  BY DEF Shown
<1>10. ASSUME NEW q \in QuestionsOf(m), q.key = k
       PROVE  \E s \in Steps : \E i \in DOMAIN m.steps[s] : q = m.steps[s][i] /\ a[s][i].key = k
  <2>1. PICK s \in Steps : q \in Range(m.steps[s])
    BY DEF QuestionsOf
  <2>2. PICK i \in DOMAIN m.steps[s] : q = m.steps[s][i]
    BY <2>1 DEF Range
  <2>3. a[s][i].key = KeyOf(m, s, i)
    BY <1>2 DEF KeyedAs, a
  <2> QED BY <1>5, <1>7, <1>10, <2>2, <2>3
<1>11. CASE k \in Present(m)
  <2>1. PICK s \in Steps : \E i \in DOMAIN m.steps[s] : a[s][i].key = k
    BY <1>3, <1>11
  <2>2. PICK i \in DOMAIN m.steps[s] : a[s][i].key = k
    BY <2>1
  <2> DEFINE q == a[s][i]
             p == m.steps[s][i]
  <2>3. KeyedAs(m, s, i)
    BY <1>2
  <2>4. p.key = k
    BY <1>5, <2>2, <2>3 DEF KeyedAs, a
  <2>5. /\ q.key = k /\ q.type = p.type /\ q.label = p.label /\ q.required = p.required
        /\ q.hidden = p.hidden /\ (k \in Builtins => k \notin m.removed)
        /\ (k \notin Builtins => ~q.hidden)
    BY <2>2, <2>3 DEF KeyedAs, a
  <2>6. PublicOf(p) = PublicOf(q)
    BY <2>4, <2>5 DEF PublicOf
  <2>7. p \in QuestionsOf(m)
    BY DEF QuestionsOf, Range
  <2>8. \A r \in QuestionsOf(m) : r.key = k => r = p
    BY <1>2, <1>10, <2>2 DEF a
  <2>9. D = {}
    BY <2>4, <2>7 DEF Gone
  <2>10. k \in Standing(b)
    <3>1. CASE k \in Builtins
      BY <1>1, <2>5, <3>1 DEF Standing
    <3>2. CASE k \notin Builtins
      <4>1. buildCustomQuestion(q, s) \in Range(b.custom)
        BY <1>1, <2>2, <3>2
      <4>2. buildCustomQuestion(q, s).key = k
        BY <2>2 DEF buildCustomQuestion
      <4> QED BY <4>1, <4>2 DEF Standing
    <3> QED BY <3>1, <3>2
  <2>11. k \in Visible(b) <=> ~p.hidden
    BY <1>4, <2>2, <2>5, <2>10 DEF Visible
  <2>12. CASE p.hidden
    <3>1. A = {}
      BY <2>8, <2>12
    <3> QED BY <1>8, <1>9, <2>9, <2>11, <2>12, <3>1 DEF b
  <2>13. CASE ~p.hidden
    <3>1. A = {p}
      BY <2>4, <2>7, <2>8, <2>13
    <3>2. publicQuestion(k, b) = PublicOf(p)
      BY <1>4, <2>2, <2>5, <2>6, <2>13
    <3> QED BY <1>8, <1>9, <2>9, <2>11, <2>13, <3>1, <3>2 DEF b
  <2> QED BY <2>12, <2>13
<1>12. CASE k \notin Present(m)
  <2>1. \A q \in QuestionsOf(m) : q.key # k
    BY <1>3, <1>10, <1>12
  <2>2. A = {}
    BY <2>1
  <2>3. \A c \in Range(b.custom) : c.key # k
    BY <1>1, <1>3, <1>12 DEF buildCustomQuestion
  <2>4. k \in Standing(b) <=> k \in Builtins /\ k \notin m.removed
    BY <1>1, <2>3 DEF Standing
  <2>5. k \in Visible(b) <=> k \in Builtins /\ k \notin m.removed
    BY <1>4, <1>12, <2>4 DEF Visible
  <2>6. Gone(k, m) <=> k \in m.removed
    BY <2>1 DEF Gone
  <2>7. CASE k \in Builtins /\ k \notin m.removed
    <3>1. D = {k}
      BY <2>6, <2>7
    <3>2. publicQuestion(k, b) = Stock(k)
      BY <1>4, <1>12, <2>7
    <3> QED BY <1>8, <1>9, <2>2, <2>5, <2>7, <3>1, <3>2 DEF b
  <2>8. CASE ~(k \in Builtins /\ k \notin m.removed)
    <3>1. D = {}
      BY <2>6, <2>8
    <3> QED BY <1>8, <1>9, <2>2, <2>5, <2>8, <3>1 DEF b
  <2> QED BY <2>7, <2>8
<1> QED BY <1>11, <1>12

\* The added questions a save stores: those of the page, and new ones.
LEMMA BuiltAdded ==
  ASSUME FormAssumption, NEW m, Buildable(m)
  PROVE  /\ \A p \in StoredOf(buildOverlay(m)) : p \in AddedOf(m) \/ p[1] \in NewKeys(m)
         /\ \A p \in StoredOf(buildOverlay(m)) :
                 p = <<p[1], p[2]>> /\ p[1] \in Range(CustomKeys) /\ p[2] \in Types
         /\ \A p, r \in StoredOf(buildOverlay(m)) : p[1] = r[1] => p = r
<1> DEFINE b == buildOverlay(m)
           a == Keyed(m)
<1>1. \A c \in Range(b.custom) : \E s \in Steps : \E i \in DOMAIN m.steps[s] :
        a[s][i].key \notin Builtins /\ c = buildCustomQuestion(a[s][i], s)
  BY BuiltIs
<1>2. \A s \in Steps : \A i \in DOMAIN m.steps[s] : KeyedAs(m, s, i)
  BY KeyedIs
<1>3. \A s \in Steps : \A i \in DOMAIN m.steps[s] :
        /\ m.steps[s][i].key = Fresh => KeyOf(m, s, i) \in NewKeys(m)
        /\ m.steps[s][i].key # Fresh => KeyOf(m, s, i) = m.steps[s][i].key
  BY KeysDrawn
<1>4. /\ \A c \in Range(b.custom) : c.key \in Range(CustomKeys) /\ c.type \in Types
      /\ \A c, d \in Range(b.custom) : c.key = d.key => c = d
  BY BuiltStored, StoredFacts
<1> HIDE DEF b, a
<1>5. ASSUME NEW c \in Range(b.custom)
      PROVE  <<c.key, c.type>> \in AddedOf(m) \/ c.key \in NewKeys(m)
  <2>1. PICK s \in Steps : \E i \in DOMAIN m.steps[s] : c = buildCustomQuestion(a[s][i], s)
    BY <1>1
  <2>2. PICK i \in DOMAIN m.steps[s] : c = buildCustomQuestion(a[s][i], s)
    BY <2>1
  <2> DEFINE p == m.steps[s][i]
  <2>3. c.key = KeyOf(m, s, i) /\ c.type = p.type
    BY <1>2, <2>2 DEF KeyedAs, buildCustomQuestion, a
  <2>4. p \in QuestionsOf(m)
    BY DEF QuestionsOf, Range
  <2>5. CASE p.key = Fresh
    BY <1>3, <2>3, <2>5
  <2>6. CASE p.key # Fresh
    <3>1. p.key = c.key /\ p.key \in Range(CustomKeys)
      BY <1>3, <1>4, <2>3, <2>6
    <3> HIDE DEF p
    <3> QED BY <2>3, <2>4, <3>1 DEF AddedOf
  <2> QED BY <2>5, <2>6
<1>6. \A p \in StoredOf(b) : p \in AddedOf(m) \/ p[1] \in NewKeys(m)
  BY <1>5 DEF StoredOf
<1>7. \A p \in StoredOf(b) : p = <<p[1], p[2]>> /\ p[1] \in Range(CustomKeys) /\ p[2] \in Types
  BY <1>4 DEF StoredOf
<1>8. \A p, r \in StoredOf(b) : p[1] = r[1] => p = r
  BY <1>4 DEF StoredOf
<1> QED BY <1>6, <1>7, <1>8 DEF b

\* A step as visitors are asked it, new questions without the keys they were given.
AskedAs(o, s) ==
  LET asked == mergePublicModel(o)[s]
  IN  [i \in DOMAIN asked |-> IF asked[i].key \in Builtins THEN asked[i]
                              ELSE [asked[i] EXCEPT !.key = Fresh]]

SeenAs(key, type, label, required) ==
  [key |-> IF key \in Builtins THEN key ELSE Fresh, type |-> type,
   label |-> IF label = Blank THEN Default ELSE label, required |-> required]

LEMMA BuiltSeen ==
  ASSUME FormAssumption, NEW m, Buildable(m), NEW s \in Steps
  PROVE  AskedAs(buildOverlay(m), s) = Seen(m, s)
<1> DEFINE b == buildOverlay(m)
           a == Keyed(m)
           keys == KeysOf(a[s])
           back == Back(m, s)
           at == {i \in DOMAIN m.steps[s] : ~m.steps[s][i].hidden}
           N == Cardinality(at)
           B == Len(back)
           all == StepKeys(s, b)
           vis == {i \in DOMAIN all : all[i] \in Builtins => ~builtinHidden(all[i], b)}
           shown == Only(m.steps[s], at)
           asked == Only(all, vis)
<1>1. /\ a[s] \in Seq(Named) /\ DOMAIN a[s] = DOMAIN m.steps[s]
      /\ \A i \in DOMAIN m.steps[s] : KeyedAs(m, s, i)
  BY KeyedIs
<1>2. /\ keys \in Seq(Keys) /\ DOMAIN keys = DOMAIN m.steps[s]
      /\ \A i \in DOMAIN m.steps[s] : keys[i] = a[s][i].key
      /\ back \in Seq(Keys) /\ Range(back)
           = {k \in Range(Registry[s]) : k \notin Present(m) \union m.removed}
      /\ \A k : k \in Present(m) <=> \E t \in Steps : \E i \in DOMAIN m.steps[t] : a[t][i].key = k
  BY PresentIs
<1>3. all = keys \o back
  BY BuiltStored
<1>4. /\ \A i \in DOMAIN m.steps[s] :
           /\ ~a[s][i].hidden => publicQuestion(a[s][i].key, b) = PublicOf(a[s][i])
           /\ a[s][i].key \in Builtins => (builtinHidden(a[s][i].key, b) <=> a[s][i].hidden)
      /\ \A h \in Builtins : h \notin Present(m) =>
           publicQuestion(h, b) = Stock(h) /\ ~builtinHidden(h, b)
  BY BuiltQuestion
<1>5. m.steps[s] \in Seq(Question)
  BY PageFacts DEF Buildable, PageFit
<1>6. Range(Registry[s]) \subseteq Builtins
  BY RegistryFacts
<1>7. mergePublicModel(b)[s] = [i \in DOMAIN asked |-> publicQuestion(asked[i], b)]
  BY DEF mergePublicModel
<1> HIDE DEF b, a, back, keys, all
<1>8. /\ Len(keys) \in Nat /\ DOMAIN keys = 1..Len(keys)
      /\ B \in Nat /\ DOMAIN back = 1..B /\ \A i \in DOMAIN back : back[i] \in Range(back)
  BY <1>2, ListFacts DEF Range
<1>9. \A i \in DOMAIN back : /\ back[i] \in Builtins /\ back[i] \notin Present(m)
                             /\ publicQuestion(back[i], b) = Stock(back[i])
                                  /\ ~builtinHidden(back[i], b)
  BY <1>2, <1>4, <1>6, <1>8
<1>10. /\ DOMAIN all = 1..(Len(keys) + B) /\ all \in Seq(Keys)
       /\ \A i \in DOMAIN keys : i \in DOMAIN all /\ all[i] = keys[i]
       /\ \A i \in DOMAIN back : Len(keys) + i \in DOMAIN all /\ all[Len(keys) + i] = back[i]
       /\ \A i \in DOMAIN all : i \in DOMAIN keys
            \/ (i - Len(keys) \in DOMAIN back /\ i = Len(keys) + (i - Len(keys)))
  BY <1>2, <1>3, ConcatFacts
<1>11. \A i \in DOMAIN keys : (keys[i] \in Builtins => ~builtinHidden(keys[i], b))
         <=> ~m.steps[s][i].hidden
  BY <1>1, <1>2, <1>4 DEF KeyedAs, a
<1>12. vis = at \union (Len(keys) + 1 .. Len(keys) + B)
  <2>1. ASSUME NEW i \in vis PROVE i \in at \union (Len(keys) + 1 .. Len(keys) + B)
    <3>1. CASE i \in DOMAIN keys
      BY <1>2, <1>10, <1>11, <3>1
    <3>2. CASE i \notin DOMAIN keys
      BY <1>8, <1>10, <3>2
    <3> QED BY <3>1, <3>2
  <2>2. ASSUME NEW i \in at PROVE i \in vis
    BY <1>2, <1>10, <1>11
  <2>3. ASSUME NEW i \in Len(keys) + 1 .. Len(keys) + B PROVE i \in vis
    <3>1. i - Len(keys) \in DOMAIN back /\ i = Len(keys) + (i - Len(keys))
      BY <1>8
    <3>2. i \in DOMAIN all /\ all[i] = back[i - Len(keys)]
      BY <1>10, <3>1
    <3> QED BY <1>9, <3>1, <3>2
  <2> QED BY <2>1, <2>2, <2>3
<1>13. at \in SUBSET DOMAIN keys /\ at \in SUBSET DOMAIN m.steps[s]
  BY <1>2
<1> HIDE DEF at, vis
<1>14. asked = Only(keys, at) \o back
  <2>1. Only(keys \o back, at \union (Len(keys) + 1 .. Len(keys) + Len(back)))
          = Only(keys, at) \o back
    <3>1. \A f, g \in Seq(Keys) : \A ft \in SUBSET DOMAIN f :
            Only(f \o g, ft \union (Len(f) + 1 .. Len(f) + Len(g))) = Only(f, ft) \o g
      BY OnlyConcat
    <3> QED BY <1>2, <1>13, <3>1
  <2> QED BY <1>3, <1>12, <2>1
<1>15. /\ N \in Nat /\ shown \in Seq(Question) /\ DOMAIN shown = 1..N
       /\ \A n \in 1..N : Nth(at, n) \in at /\ shown[n] = m.steps[s][Nth(at, n)]
  BY <1>5, <1>13, OnlyIs
<1>16. /\ Only(keys, at) \in Seq(Keys) /\ DOMAIN Only(keys, at) = 1..N /\ Len(Only(keys, at)) = N
       /\ \A n \in 1..N : Only(keys, at)[n] = keys[Nth(at, n)]
  BY <1>2, <1>13, OnlyIs
<1> HIDE DEF asked, shown, N
<1>17. /\ DOMAIN asked = 1..(N + B)
       /\ \A n \in 1..N : asked[n] = keys[Nth(at, n)]
       /\ \A n \in 1..B : asked[N + n] = back[n]
  <2> DEFINE few == Only(keys, at)
  <2> HIDE DEF few
  <2>0. few \in Seq(Keys) /\ DOMAIN few = 1..N /\ Len(few) = N /\ back \in Seq(Keys)
        /\ \A n \in 1..N : few[n] = keys[Nth(at, n)]
    BY <1>2, <1>16 DEF few
  <2>1. \A f, g \in Seq(Keys) : /\ DOMAIN (f \o g) = 1..(Len(f) + Len(g))
                                /\ \A n \in DOMAIN f : (f \o g)[n] = f[n]
                                /\ \A n \in DOMAIN g : (f \o g)[Len(f) + n] = g[n]
    BY ConcatFacts
  <2>2. asked = few \o back
    BY <1>14 DEF few
  <2> QED BY <1>8, <2>0, <2>1, <2>2
<1> DEFINE left == [i \in DOMAIN shown |-> SeenAs(shown[i].key, shown[i].type, shown[i].label,
             shown[i].required)]
           right == [i \in DOMAIN back |-> SeenAs(back[i], Default, Blank, TRUE)]
           X == AskedAs(b, s)
<1>18. Seen(m, s) = left \o right
  <2>1. \A i \in DOMAIN Registry[s] :
          Registry[s][i] \in Range(KeysOf(m.steps[s])) <=> Registry[s][i] \in Present(m)
    <3> TAKE i \in DOMAIN Registry[s]
    <3>1. Registry[s][i] \in Builtins /\ Registry[s][i] \in Range(Registry[s])
      BY <1>6 DEF Range
    <3>2. \A k : k \in Range(KeysOf(m.steps[s]))
            <=> \E j \in DOMAIN m.steps[s] : m.steps[s][j].key = k
      BY DEF KeysOf, Range
    <3>3. \A j \in DOMAIN m.steps[s] : \A k \in Builtins : m.steps[s][j].key = k <=> a[s][j].key = k
      BY <1>1 DEF KeyedAs, a
    <3>4. ASSUME NEW t \in Steps, NEW j \in DOMAIN m.steps[t], a[t][j].key = Registry[s][i]
          PROVE  t = s
      <4>1. KeyedAs(m, t, j)
        BY KeyedIs
      <4>2. Registry[s][i] \in Range(Registry[t])
        BY <3>1, <3>4, <4>1 DEF KeyedAs, a
      <4> QED BY <3>1, <4>2, RegistryFacts
    <3> QED BY <1>2, <3>1, <3>2, <3>3, <3>4
  <2>2. {i \in DOMAIN Registry[s] :
            Registry[s][i] \notin Range(KeysOf(m.steps[s])) \union m.removed}
        = {i \in DOMAIN Registry[s] : Registry[s][i] \notin Present(m) \union m.removed}
    BY <2>1
  <2>3. back = Only(Registry[s],
          {i \in DOMAIN Registry[s] :
              Registry[s][i] \notin Range(KeysOf(m.steps[s])) \union m.removed})
    BY <2>2 DEF back, Back
  <2> QED BY <2>3 DEF Seen, SeenAs, shown, at
<1>19. DOMAIN X = 1..(N + B) /\ \A n \in 1..(N + B) :
         LET q == publicQuestion(asked[n], b)
         IN  X[n] = IF q.key \in Builtins THEN q ELSE [q EXCEPT !.key = Fresh]
  BY <1>7, <1>17 DEF AskedAs
<1>20. ASSUME NEW n \in 1..N PROVE n \in 1..(N + B) /\ X[n] = left[n]
  <2> DEFINE i == Nth(at, n)
             p == m.steps[s][i]
             q == a[s][i]
  <2>1. n \in 1..(N + B)
    BY <1>8, <1>15
  <2>2. i \in at /\ i \in DOMAIN m.steps[s] /\ i \in DOMAIN keys /\ n \in DOMAIN shown
          /\ shown[n] = p
    BY <1>13, <1>15
  <2>3. asked[n] = q.key
    BY <1>2, <1>17, <2>2
  <2>4. KeyedAs(m, s, i) /\ ~p.hidden
    BY <1>1, <2>2 DEF at
  <2>5. /\ q.type = p.type /\ q.label = p.label /\ q.required = p.required /\ ~q.hidden
        /\ q.key \in Builtins => p.key = q.key
        /\ q.key \notin Builtins => p.key \notin Builtins
    BY <2>4 DEF KeyedAs, a
  <2>6. publicQuestion(q.key, b) = PublicOf(q)
    BY <1>4, <2>2, <2>5
  <2>7. left[n] = SeenAs(p.key, p.type, p.label, p.required)
    BY <2>2
  <2>8. X[n] = IF PublicOf(q).key \in Builtins THEN PublicOf(q)
          ELSE [PublicOf(q) EXCEPT !.key = Fresh]
    BY <1>19, <2>1, <2>3, <2>6
  <2> HIDE DEF p, q, X, left
  <2>9. X[n] = SeenAs(p.key, p.type, p.label, p.required)
    BY <2>5, <2>8 DEF PublicOf, SeenAs
  <2> QED BY <2>1, <2>7, <2>9
<1>21. ASSUME NEW n \in 1..B PROVE N + n \in 1..(N + B) /\ X[N + n] = right[n]
  <2>1. N + n \in 1..(N + B)
    BY <1>8, <1>15
  <2>2. n \in DOMAIN back /\ asked[N + n] = back[n] /\ back[n] \in Builtins
        /\ publicQuestion(back[n], b) = Stock(back[n])
    BY <1>8, <1>9, <1>17
  <2>3. X[N + n] = IF Stock(back[n]).key \in Builtins THEN Stock(back[n])
          ELSE [Stock(back[n]) EXCEPT !.key = Fresh]
    BY <1>19, <2>1, <2>2
  <2>4. right[n] = SeenAs(back[n], Default, Blank, TRUE)
    BY <2>2
  <2> HIDE DEF X, right
  <2> QED BY <2>1, <2>2, <2>3, <2>4 DEF Stock, SeenAs
<1>22. DOMAIN left = 1..N /\ DOMAIN right = 1..B /\ left = [i \in 1..N |-> left[i]]
         /\ right = [i \in 1..B |-> right[i]]
  BY <1>8, <1>15
<1>23. X = [i \in 1..(N + B) |-> X[i]]
  BY <1>7, <1>17 DEF AskedAs
<1> DEFINE T == Range(left) \union Range(right)
<1> HIDE DEF left, right, X
<1>24. left \in Seq(T) /\ Len(left) = N /\ right \in Seq(T) /\ Len(right) = B
  <2>1. left \in [1..N -> T] /\ right \in [1..B -> T]
    BY <1>22 DEF Range
  <2> HIDE DEF T
  <2> QED BY <1>8, <1>15, <2>1, ListOf
<1> HIDE DEF T
<1> DEFINE Y == left \o right
<1>25. /\ Y \in Seq(T) /\ Len(Y) = N + B
       /\ \A n \in 1..N : Y[n] = left[n]
       /\ \A n \in 1..B : Y[N + n] = right[n]
  <2>1. \A f, g \in Seq(T) : /\ f \o g \in Seq(T) /\ Len(f \o g) = Len(f) + Len(g)
                             /\ \A n \in DOMAIN f : (f \o g)[n] = f[n]
                             /\ \A n \in DOMAIN g : (f \o g)[Len(f) + n] = g[n]
    BY ConcatFacts
  <2> QED BY <1>22, <1>24, <2>1
<1> HIDE DEF Y
<1>26. ASSUME NEW n \in 1..(N + B) PROVE X[n] = Y[n]
  <2>1. CASE n \in 1..N
    BY <1>20, <1>25, <2>1
  <2>2. CASE n \notin 1..N
    <3>1. n - N \in 1..B /\ n = N + (n - N)
      BY <1>8, <1>15, <2>2
    <3> QED BY <1>21, <1>25, <3>1
  <2> QED BY <2>1, <2>2
<1>27. X \in Seq(T) /\ Len(X) = N + B
  <2>1. N + B \in Nat
    BY <1>8, <1>15
  <2>2. \A n \in 1..(N + B) : Y[n] \in T
    BY <1>25, ElementOfSeq
  <2>3. X \in [1..(N + B) -> T]
    BY <1>23, <1>26, <2>2
  <2> QED BY <2>1, <2>3, ListOf
<1>28. X = Y
  BY <1>25, <1>26, <1>27, SeqEqual
<1> QED BY <1>18, <1>28 DEF X, Y, b

-----------------------------------------------------------------------------
(* The inductive invariant.                                                *)

\* Added questions a save stores that its page did not send: those it named.
OwnKeys(v) == {p[1] : p \in StoredOf(v.next) \ AddedOf(v.sent)}

\* An overlay and the page it was built from.
Built(v) ==
  /\ WellStored(v.next)
  /\ \A s \in Steps : AskedAs(v.next, s) = Seen(v.sent, s)
  /\ \A k \in Keys \ OwnKeys(v) : Asked(k, v.next) = Shown(k, v.sent)

Counters ==
  /\ minted \in 0..Len(CustomKeys) /\ edits \in 0..MaxEdits /\ faults \in 0..MaxFaults
  /\ blind \in [Editors -> BOOLEAN]
  /\ model = [e \in Editors |-> model[e]] /\ baseline = [e \in Editors |-> baseline[e]]
  /\ saving = [e \in Editors |-> saving[e]] /\ touched = [e \in Editors |-> touched[e]]

StoredFit == WellStored(overlay) /\ StoredOf(overlay) \subseteq meant
MeantDrawn == \A p \in meant : p[1] \in Drawn(minted)

PagesFit(e) ==
  /\ PageFit(model[e]) /\ AddedOf(model[e]) \subseteq meant
  /\ PageFit(baseline[e]) /\ AddedOf(baseline[e]) \subseteq meant

SaveFit(e) ==
  /\ saving[e].at \in {"no", "build", "write", "answer"}
  /\ ~At(e, "no") => PageFit(saving[e].sent) /\ AddedOf(saving[e].sent) \subseteq meant
  /\ At(e, "write") \/ At(e, "answer") =>
       /\ saving[e] = [at |-> saving[e].at, sent |-> saving[e].sent, next |-> saving[e].next]
       /\ Built(saving[e])
  /\ At(e, "answer") => StoredOf(saving[e].next) \subseteq meant

\* Keys on their way into the store are nobody else's.
NewAlone(e) ==
  At(e, "write") =>
    /\ OwnKeys(saving[e]) \subseteq Drawn(minted)
    /\ \A p \in meant : p[1] \notin OwnKeys(saving[e])
    /\ \A f \in Editors \ {e} : At(f, "write")
         => OwnKeys(saving[e]) \intersect OwnKeys(saving[f]) = {}

\* A page that is not blind shows what is stored, but for what was touched.
ShowsStored(e) ==
  ~blind[e] =>
    /\ ~At(e, "answer") =>
         \A k \in Keys : /\ Shown(k, baseline[e]) = Asked(k, overlay)
                         /\ k \notin touched[e] => Shown(k, model[e]) = Asked(k, overlay)
    /\ At(e, "build") \/ At(e, "write") =>
         \A k \in Keys \ touched[e] : Shown(k, saving[e].sent) = Asked(k, overlay)
    /\ At(e, "answer") => overlay = saving[e].next

FormInv ==
  /\ Counters /\ StoredFit /\ MeantDrawn /\ KeyMeansOne
  /\ \A e \in Editors : PagesFit(e) /\ SaveFit(e) /\ NewAlone(e) /\ ShowsStored(e)

\* What an edit of one question may do to a page.
Edited(m, n, key) ==
  /\ PageFit(n) /\ AddedOf(n) \subseteq AddedOf(m)
  /\ \A k \in Keys \ {key} : Shown(k, n) = Shown(k, m)

-----------------------------------------------------------------------------
(* Edits of a page.                                                        *)

LEMMA QuestionsAt ==
  ASSUME NEW m
  PROVE  \A q : q \in QuestionsOf(m)
           <=> \E s \in Steps : \E i \in DOMAIN m.steps[s] : q = m.steps[s][i]
BY DEF QuestionsOf, Range

LEMMA AddedIs ==
  ASSUME NEW m
  PROVE  /\ \A q \in QuestionsOf(m) : q.key \in Range(CustomKeys)
              => <<q.key, q.type>> \in AddedOf(m)
         /\ \A p \in AddedOf(m) : \E q \in QuestionsOf(m) : q.key \in Range(CustomKeys)
              /\ p = <<q.key, q.type>>
BY DEF AddedOf

\* A question is shown alike by two pages that have it alike.
LEMMA ShownSame ==
  ASSUME NEW m, NEW n, NEW k, k \in m.removed <=> k \in n.removed,
         \A q \in QuestionsOf(m) : q.key = k => q \in QuestionsOf(n),
         \A q \in QuestionsOf(n) : q.key = k => q \in QuestionsOf(m)
  PROVE  Shown(k, n) = Shown(k, m)
<1>1. {r \in QuestionsOf(n) : r.key = k /\ ~r.hidden}
        = {r \in QuestionsOf(m) : r.key = k /\ ~r.hidden}
  OBVIOUS
<1>2. Gone(k, n) <=> Gone(k, m)
  BY DEF Gone
<1>3. {b \in {k} \intersect Builtins : ~Gone(b, n)} = {b \in {k} \intersect Builtins : ~Gone(b, m)}
  BY <1>2
<1> QED BY <1>1, <1>3 DEF Shown

\* One question is given other texts, or made required or not.
LEMMA ChangedOne ==
  ASSUME FormAssumption, NEW m, PageFit(m), NEW n, n \in Models, n.removed = m.removed,
         \A t \in Steps : DOMAIN n.steps[t] = DOMAIN m.steps[t],
         NEW s \in Steps, NEW i \in DOMAIN m.steps[s],
         n.steps[s][i].key = m.steps[s][i].key, n.steps[s][i].type = m.steps[s][i].type,
         n.steps[s][i].hidden = m.steps[s][i].hidden,
         n.steps[s][i].key \in Locked => n.steps[s][i].required,
         \A t \in Steps : \A j \in DOMAIN m.steps[t] : t # s \/ j # i
           => n.steps[t][j] = m.steps[t][j]
  PROVE  Edited(m, n, m.steps[s][i].key)
<1> DEFINE key == m.steps[s][i].key
<1>1. m \in Models /\ Once(m) /\ \A t \in Steps : \A q \in Range(m.steps[t]) : Editable(q, t, m)
  BY DEF PageFit
<1>2. \A t \in Steps : \A j \in DOMAIN m.steps[t] :
        /\ n.steps[t][j].key = m.steps[t][j].key /\ n.steps[t][j].type = m.steps[t][j].type
        /\ n.steps[t][j].hidden = m.steps[t][j].hidden
        /\ n.steps[t][j].key # key => n.steps[t][j] = m.steps[t][j]
  OBVIOUS
<1>3. Once(n)
  BY <1>1, <1>2 DEF Once
<1>4. ASSUME NEW t \in Steps, NEW q \in Range(n.steps[t]) PROVE Editable(q, t, n)
  <2>1. PICK j \in DOMAIN m.steps[t] : q = n.steps[t][j]
    BY DEF Range
  <2>2. Editable(m.steps[t][j], t, m)
    BY <1>1 DEF Range
  <2>3. q.key \in Locked /\ q.key \in Builtins => q.required
    BY <2>1, <2>2 DEF Editable
  <2> QED BY <1>2, <2>1, <2>2, <2>3 DEF Editable
<1>5. \A q : q \in QuestionsOf(n)
        <=> \E t \in Steps : \E j \in DOMAIN m.steps[t] : q = n.steps[t][j]
  BY QuestionsAt
<1>6. \A q : q \in QuestionsOf(m)
        <=> \E t \in Steps : \E j \in DOMAIN m.steps[t] : q = m.steps[t][j]
  BY QuestionsAt
<1>7. ASSUME NEW p \in AddedOf(n) PROVE p \in AddedOf(m)
  <2>1. PICK q \in QuestionsOf(n) : q.key \in Range(CustomKeys) /\ p = <<q.key, q.type>>
    BY AddedIs
  <2>2. PICK t \in Steps : \E j \in DOMAIN m.steps[t] : q = n.steps[t][j]
    BY <1>5
  <2>3. PICK j \in DOMAIN m.steps[t] : q = n.steps[t][j]
    BY <2>2
  <2>4. m.steps[t][j] \in QuestionsOf(m)
    BY <1>6
  <2>5. m.steps[t][j].key = q.key /\ m.steps[t][j].type = q.type
    BY <1>2, <2>3
  <2> QED BY <2>1, <2>4, <2>5, AddedIs
<1>8. ASSUME NEW k \in Keys \ {key} PROVE Shown(k, n) = Shown(k, m)
  <2>1. \A q \in QuestionsOf(m) : q.key = k => q \in QuestionsOf(n)
    BY <1>2, <1>5, <1>6
  <2>2. \A q \in QuestionsOf(n) : q.key = k => q \in QuestionsOf(m)
    BY <1>2, <1>5, <1>6
  <2> QED BY <2>1, <2>2, ShownSame
<1> QED BY <1>3, <1>4, <1>7, <1>8 DEF Edited, PageFit

\* Questions keep their step and their texts: they change places, or some leave.
LEMMA Rearranged ==
  ASSUME FormAssumption, NEW m, PageFit(m), NEW n, n \in Models, NEW pi,
         \A t \in Steps : /\ \A j \in DOMAIN n.steps[t] :
                               pi[t][j] \in DOMAIN m.steps[t]
                                 /\ n.steps[t][j] = m.steps[t][pi[t][j]]
                          /\ \A j, h \in DOMAIN n.steps[t] : pi[t][j] = pi[t][h] => j = h
  PROVE  /\ Once(n) /\ AddedOf(n) \subseteq AddedOf(m)
         /\ \A q \in QuestionsOf(n) : q \in QuestionsOf(m)
         /\ \A t \in Steps : Range(n.steps[t]) \subseteq Range(m.steps[t])
<1>1. Once(m)
  BY DEF PageFit
<1>2. Once(n)
  BY <1>1 DEF Once
<1>3. \A t \in Steps : Range(n.steps[t]) \subseteq Range(m.steps[t])
  BY DEF Range
<1>4. \A q \in QuestionsOf(n) : q \in QuestionsOf(m)
  BY <1>3 DEF QuestionsOf
<1>5. AddedOf(n) \subseteq AddedOf(m)
  BY <1>4 DEF AddedOf
<1> QED BY <1>2, <1>3, <1>4, <1>5

LEMMA StepReplaced ==
  ASSUME NEW m, m \in Models, NEW s \in Steps, NEW seq \in Seq(Question),
         NEW gone \in SUBSET Builtins
  PROVE  LET n == [steps |-> [m.steps EXCEPT ![s] = seq], removed |-> gone]
         IN  /\ n \in Models /\ n.removed = gone /\ n.steps[s] = seq
             /\ \A t \in Steps : t # s => n.steps[t] = m.steps[t]
<1>1. m.steps \in [Steps -> Seq(Question)]
  BY DEF Models
<1> QED BY <1>1 DEF Models

LEMMA RecordOfPage ==
  ASSUME NEW m, m \in Models
  PROVE  m = [steps |-> m.steps, removed |-> m.removed]
BY DEF Models

LEMMA LabelEdited ==
  ASSUME FormAssumption, NEW m, PageFit(m), NEW s \in Steps, NEW i \in DOMAIN m.steps[s],
         NEW l \in Texts \union {Blank}
  PROVE  Edited(m, [m EXCEPT !.steps[s][i].label = l], m.steps[s][i].key)
<1> DEFINE q == m.steps[s][i]
           r == [q EXCEPT !.label = l]
           seq == [m.steps[s] EXCEPT ![i] = r]
           n == [steps |-> [m.steps EXCEPT ![s] = seq], removed |-> m.removed]
<1>1. m \in Models /\ Editable(q, s, m)
  BY DEF PageFit, Range
<1>2. m.steps[s] \in Seq(Question) /\ q \in Question /\ m.removed \subseteq Builtins
  BY <1>1, PageFacts
<1>3. [m EXCEPT !.steps[s][i].label = l] = n
  BY <1>1, RecordOfPage
<1>4. /\ r \in Question /\ r.key = q.key /\ r.type = q.type /\ r.hidden = q.hidden
           /\ r.required = q.required
  <2> HIDE DEF q
  <2> QED BY <1>2 DEF Question
<1> HIDE DEF r, q
<1>5. seq \in Seq(Question) /\ DOMAIN seq = DOMAIN m.steps[s] /\ seq[i] = r
      /\ \A j \in DOMAIN m.steps[s] : j # i => seq[j] = m.steps[s][j]
  BY <1>2, <1>4, ExceptSeq, LenProperties
<1> HIDE DEF seq
<1>6. /\ n \in Models /\ n.removed = m.removed /\ n.steps[s] = seq
      /\ \A t \in Steps : t # s => n.steps[t] = m.steps[t]
  BY <1>1, <1>2, <1>5, StepReplaced
<1> HIDE DEF n
<1>7. /\ \A t \in Steps : DOMAIN n.steps[t] = DOMAIN m.steps[t]
      /\ \A t \in Steps : \A j \in DOMAIN m.steps[t] : t # s \/ j # i
           => n.steps[t][j] = m.steps[t][j]
  BY <1>5, <1>6
<1>8. n.steps[s][i].key \in Locked => n.steps[s][i].required
  <2>1. Locked \subseteq Builtins
    BY DEF FormAssumption
  <2> QED BY <1>1, <1>4, <1>5, <1>6, <2>1 DEF Editable
<1>9. Edited(m, n, m.steps[s][i].key)
  BY <1>4, <1>5, <1>6, <1>7, <1>8, ChangedOne DEF q
<1> QED BY <1>3, <1>9

LEMMA RequiredEdited ==
  ASSUME FormAssumption, NEW m, PageFit(m), NEW s \in Steps, NEW i \in DOMAIN m.steps[s],
         m.steps[s][i].key \notin Locked
  PROVE  Edited(m, [m EXCEPT !.steps[s][i].required = ~@], m.steps[s][i].key)
<1> DEFINE q == m.steps[s][i]
           r == [q EXCEPT !.required = ~@]
           seq == [m.steps[s] EXCEPT ![i] = r]
           n == [steps |-> [m.steps EXCEPT ![s] = seq], removed |-> m.removed]
<1>1. m \in Models
  BY DEF PageFit
<1>2. m.steps[s] \in Seq(Question) /\ q \in Question /\ m.removed \subseteq Builtins
  BY <1>1, PageFacts
<1>3. [m EXCEPT !.steps[s][i].required = ~@] = n
  BY <1>1, RecordOfPage
<1>4. /\ r \in Question /\ r.key = q.key /\ r.type = q.type /\ r.hidden = q.hidden
  <2> HIDE DEF q
  <2> QED BY <1>2 DEF Question
<1> HIDE DEF r, q
<1>5. seq \in Seq(Question) /\ DOMAIN seq = DOMAIN m.steps[s] /\ seq[i] = r
      /\ \A j \in DOMAIN m.steps[s] : j # i => seq[j] = m.steps[s][j]
  BY <1>2, <1>4, ExceptSeq, LenProperties
<1> HIDE DEF seq
<1>6. /\ n \in Models /\ n.removed = m.removed /\ n.steps[s] = seq
      /\ \A t \in Steps : t # s => n.steps[t] = m.steps[t]
  BY <1>1, <1>2, <1>5, StepReplaced
<1> HIDE DEF n
<1>7. /\ \A t \in Steps : DOMAIN n.steps[t] = DOMAIN m.steps[t]
      /\ \A t \in Steps : \A j \in DOMAIN m.steps[t] : t # s \/ j # i
           => n.steps[t][j] = m.steps[t][j]
  BY <1>5, <1>6
<1>8. n.steps[s][i].key \in Locked => n.steps[s][i].required
  BY <1>4, <1>5, <1>6 DEF q
<1>9. Edited(m, n, m.steps[s][i].key)
  BY <1>4, <1>5, <1>6, <1>7, <1>8, ChangedOne DEF q
<1> QED BY <1>3, <1>9

LEMMA Moved ==
  ASSUME FormAssumption, NEW m, PageFit(m), NEW s \in Steps, NEW i \in DOMAIN m.steps[s] \ {1}
  PROVE  Edited(m, [m EXCEPT !.steps[s][i] = m.steps[s][i - 1], !.steps[s][i - 1] = m.steps[s][i]],
           Fresh)
<1> DEFINE old == m.steps[s]
           one == [old EXCEPT ![i] = old[i - 1]]
           seq == [one EXCEPT ![i - 1] = old[i]]
           n == [steps |-> [m.steps EXCEPT ![s] = seq], removed |-> m.removed]
           pi == [t \in Steps |-> [j \in DOMAIN m.steps[t] |->
                    IF t = s /\ j = i THEN i - 1 ELSE IF t = s /\ j = i - 1 THEN i ELSE j]]
<1>1. m \in Models /\ \A t \in Steps : \A q \in Range(m.steps[t]) : Editable(q, t, m)
  BY DEF PageFit
<1>2. old \in Seq(Question) /\ m.removed \subseteq Builtins
  BY <1>1, PageFacts
<1>3. [m EXCEPT !.steps[s][i] = m.steps[s][i - 1], !.steps[s][i - 1] = m.steps[s][i]] = n
  <2>1. m = [steps |-> m.steps, removed |-> m.removed] /\ m.steps = [t \in Steps |-> m.steps[t]]
    BY <1>1, RecordOfPage DEF Models
  <2> DEFINE X == m.steps[s][i - 1]
             Y == m.steps[s][i]
             mid == [steps |-> [m.steps EXCEPT ![s] = one], removed |-> m.removed]
  <2>2. [m EXCEPT !.steps[s][i] = X] = mid
    BY <2>1
  <2>3. [mid EXCEPT !.steps[s][i - 1] = Y] = n
    <3>1. [m.steps EXCEPT ![s] = one][s] = one
      BY <2>1
    <3>2. [[m.steps EXCEPT ![s] = one] EXCEPT ![s] = seq] = [m.steps EXCEPT ![s] = seq]
      <4> HIDE DEF one, seq
      <4> QED BY <2>1
    <3> HIDE DEF one
    <3> QED BY <3>1, <3>2
  <2>4. [m EXCEPT !.steps[s][i] = X, !.steps[s][i - 1] = Y]
          = [[m EXCEPT !.steps[s][i] = X] EXCEPT !.steps[s][i - 1] = Y]
    OBVIOUS
  <2>5. [m EXCEPT !.steps[s][i] = X, !.steps[s][i - 1] = Y] = n
    <3> HIDE DEF X, Y, mid, n
    <3> QED BY <2>2, <2>3, <2>4
  <2> QED BY <2>5
<1>4. /\ i \in 1..Len(old) /\ i - 1 \in 1..Len(old) /\ i # i - 1 /\ DOMAIN old = 1..Len(old)
      /\ old[i] \in Question /\ old[i - 1] \in Question
  <2>1. Len(old) \in Nat /\ DOMAIN old = 1..Len(old) /\ \A j \in DOMAIN old : old[j] \in Question
    BY <1>2, ListFacts
  <2> HIDE DEF old
  <2>2. i \in DOMAIN old /\ i # 1
    BY DEF old
  <2> QED BY <2>1, <2>2
<1> HIDE DEF old
<1>5. one \in Seq(Question) /\ Len(one) = Len(old) /\ one[i] = old[i - 1]
      /\ \A j \in 1..Len(old) : j # i => one[j] = old[j]
  BY <1>2, <1>4, ExceptSeq
<1> HIDE DEF one
<1>6. seq \in Seq(Question) /\ Len(seq) = Len(old) /\ DOMAIN seq = 1..Len(old)
        /\ seq[i - 1] = old[i] /\ seq[i] = old[i - 1]
      /\ \A j \in 1..Len(old) : j # i /\ j # i - 1 => seq[j] = old[j]
  BY <1>4, <1>5, ExceptSeq, LenProperties
<1> HIDE DEF seq
<1>7. /\ n \in Models /\ n.removed = m.removed /\ n.steps[s] = seq
      /\ \A t \in Steps : t # s => n.steps[t] = m.steps[t]
  BY <1>1, <1>2, <1>6, StepReplaced
<1> HIDE DEF n
<1>8. ASSUME NEW t \in Steps
      PROVE  /\ DOMAIN n.steps[t] = DOMAIN m.steps[t]
             /\ \A j \in DOMAIN n.steps[t] :
                  pi[t][j] \in DOMAIN m.steps[t] /\ n.steps[t][j] = m.steps[t][pi[t][j]]
             /\ \A j, h \in DOMAIN n.steps[t] : pi[t][j] = pi[t][h] => j = h
             /\ \A j \in DOMAIN m.steps[t] : m.steps[t][j] = n.steps[t][pi[t][j]]
                  /\ pi[t][j] \in DOMAIN n.steps[t]
  <2>1. CASE t = s
    <3>1. n.steps[t] = seq /\ m.steps[t] = old /\ DOMAIN n.steps[t] = 1..Len(old)
            /\ DOMAIN m.steps[t] = 1..Len(old)
      BY <1>4, <1>6, <1>7, <2>1 DEF old
    <3>2. pi[t] = [j \in 1..Len(old) |-> IF j = i THEN i - 1 ELSE IF j = i - 1 THEN i ELSE j]
      BY <2>1, <3>1
    <3> HIDE DEF pi
    <3> QED BY <1>4, <1>6, <3>1, <3>2
  <2>2. CASE t # s
    <3>1. n.steps[t] = m.steps[t]
      BY <1>7, <2>2
    <3>2. pi[t] = [j \in DOMAIN m.steps[t] |-> j]
      BY <2>2
    <3> HIDE DEF pi
    <3> QED BY <3>1, <3>2
  <2> QED BY <2>1, <2>2
<1> HIDE DEF pi
<1>9. /\ Once(n) /\ AddedOf(n) \subseteq AddedOf(m)
      /\ \A q \in QuestionsOf(n) : q \in QuestionsOf(m)
      /\ \A t \in Steps : Range(n.steps[t]) \subseteq Range(m.steps[t])
  <2>1. \A t \in Steps : /\ \A j \in DOMAIN n.steps[t] :
                              pi[t][j] \in DOMAIN m.steps[t] /\ n.steps[t][j] = m.steps[t][pi[t][j]]
                         /\ \A j, h \in DOMAIN n.steps[t] : pi[t][j] = pi[t][h] => j = h
    BY <1>8
  <2>2. n \in Models
    BY <1>7
  <2> QED BY <2>1, <2>2, Rearranged
<1>10. \A q \in QuestionsOf(m) : q \in QuestionsOf(n)
  <2>1. \A t \in Steps : Range(m.steps[t]) \subseteq Range(n.steps[t])
    BY <1>8 DEF Range
  <2> QED BY <2>1 DEF QuestionsOf
<1>11. \A t \in Steps : \A q \in Range(n.steps[t]) : Editable(q, t, n)
  BY <1>1, <1>7, <1>9 DEF Editable
<1>12. \A k \in Keys : Shown(k, n) = Shown(k, m)
  BY <1>7, <1>9, <1>10, ShownSame
<1>13. Edited(m, n, Fresh)
  BY <1>7, <1>9, <1>11, <1>12 DEF Edited, PageFit
<1> QED BY <1>3, <1>13

LEMMA RemovedAt ==
  ASSUME NEW S, NEW seq \in Seq(S), NEW i \in 1..Len(seq)
  PROVE  /\ RemoveAt(seq, i) \in Seq(S) /\ DOMAIN RemoveAt(seq, i) = 1..(Len(seq) - 1)
         /\ \A j \in 1..(Len(seq) - 1) : RemoveAt(seq, i)[j] = IF j < i THEN seq[j] ELSE seq[j + 1]
<1> DEFINE a == SubSeq(seq, 1, i - 1)
           b == SubSeq(seq, i + 1, Len(seq))
           L == Len(seq)
<1>1. L \in Nat /\ i \in Nat /\ i >= 1 /\ i <= L /\ \A j \in 1..L : seq[j] \in S
  BY ListFacts
<1>2. a \in Seq(S) /\ Len(a) = i - 1 /\ \A j \in 1..(i - 1) : a[j] = seq[j]
  <2>1. 1 \in Int /\ i - 1 \in Int /\ \A j \in 1..(i - 1) : seq[j] \in S
    BY <1>1
  <2>2. /\ a \in Seq(S) /\ Len(a) = IF 1 <= i - 1 THEN (i - 1) - 1 + 1 ELSE 0
        /\ \A j \in 1..((i - 1) - 1 + 1) : a[j] = seq[1 + j - 1]
    BY <2>1, SubSeqProperties
  <2> HIDE DEF a
  <2> QED BY <1>1, <2>2
<1>3. b \in Seq(S) /\ Len(b) = L - i /\ \A j \in 1..(L - i) : b[j] = seq[i + j]
  <2>1. i + 1 \in Int /\ L \in Int /\ \A j \in (i + 1)..L : seq[j] \in S
    BY <1>1
  <2>2. /\ b \in Seq(S) /\ Len(b) = IF i + 1 <= L THEN L - (i + 1) + 1 ELSE 0
        /\ \A j \in 1..(L - (i + 1) + 1) : b[j] = seq[(i + 1) + j - 1]
    BY <2>1, SubSeqProperties
  <2> HIDE DEF b, L
  <2> QED BY <1>1, <2>2
<1>4. RemoveAt(seq, i) = a \o b
  BY DEF RemoveAt
<1> HIDE DEF a, b, L
<1>5. /\ a \o b \in Seq(S) /\ Len(a \o b) = Len(a) + Len(b)
      /\ \A j \in 1..(Len(a) + Len(b)) : (a \o b)[j] = IF j <= Len(a) THEN a[j] ELSE b[j - Len(a)]
  BY <1>2, <1>3, ConcatProperties
<1>6. DOMAIN (a \o b) = 1..(L - 1)
  BY <1>1, <1>2, <1>3, <1>5, LenProperties
<1>7. ASSUME NEW j \in 1..(L - 1) PROVE (a \o b)[j] = IF j < i THEN seq[j] ELSE seq[j + 1]
  <2>1. (a \o b)[j] = IF j <= i - 1 THEN a[j] ELSE b[j - (i - 1)]
    BY <1>1, <1>2, <1>3, <1>5
  <2>2. CASE j < i
    BY <1>1, <1>2, <2>1, <2>2
  <2>3. CASE ~(j < i)
    <3>1. j - (i - 1) \in 1..(L - i) /\ i + (j - (i - 1)) = j + 1
      BY <1>1, <2>3
    <3>2. b[j - (i - 1)] = seq[j + 1]
      BY <1>3, <3>1
    <3> QED BY <1>1, <2>1, <2>3, <3>2
  <2> QED BY <2>2, <2>3
<1> QED BY <1>4, <1>5, <1>6, <1>7 DEF L

LEMMA Deleted ==
  ASSUME FormAssumption, NEW m, PageFit(m), NEW s \in Steps, NEW i \in DOMAIN m.steps[s]
  PROVE  Edited(m, [m EXCEPT !.steps[s] = RemoveAt(@, i),
                             !.removed = @ \union ({m.steps[s][i].key} \intersect Builtins)],
                               m.steps[s][i].key)
<1> DEFINE old == m.steps[s]
           key == old[i].key
           seq == RemoveAt(old, i)
           gone == m.removed \union ({key} \intersect Builtins)
           n == [steps |-> [m.steps EXCEPT ![s] = seq], removed |-> gone]
           pi == [t \in Steps |-> [j \in Nat |-> IF t = s /\ ~(j < i) THEN j + 1 ELSE j]]
<1>1. m \in Models /\ Once(m) /\ \A t \in Steps : \A q \in Range(m.steps[t]) : Editable(q, t, m)
  BY DEF PageFit
<1>2. old \in Seq(Question) /\ m.removed \subseteq Builtins
        /\ \A t \in Steps : m.steps[t] \in Seq(Question)
  BY <1>1, PageFacts
<1>3. [m EXCEPT !.steps[s] = RemoveAt(@, i),
        !.removed = @ \union ({m.steps[s][i].key} \intersect Builtins)] = n
  <2>1. m = [steps |-> m.steps, removed |-> m.removed] /\ m.steps = [t \in Steps |-> m.steps[t]]
    BY <1>1, RecordOfPage DEF Models
  <2> DEFINE mid == [steps |-> [m.steps EXCEPT ![s] = seq], removed |-> m.removed]
             X == {m.steps[s][i].key} \intersect Builtins
  <2>2. [m EXCEPT !.steps[s] = RemoveAt(@, i)] = mid
    BY <2>1
  <2>3. [mid EXCEPT !.removed = @ \union X] = n
    <3> DEFINE A == [m.steps EXCEPT ![s] = seq]
    <3>1. gone = m.removed \union X
      OBVIOUS
    <3> HIDE DEF A, X, gone
    <3>2. [[steps |-> A, removed |-> m.removed] EXCEPT !.removed = @ \union X]
            = [steps |-> A, removed |-> gone]
      BY <3>1
    <3> QED BY <3>2 DEF A
  <2>4. [m EXCEPT !.steps[s] = RemoveAt(@, i), !.removed = @ \union X]
        = [[m EXCEPT !.steps[s] = RemoveAt(@, i)] EXCEPT !.removed = @ \union X]
    OBVIOUS
  <2>5. [m EXCEPT !.steps[s] = RemoveAt(@, i), !.removed = @ \union X] = n
    <3> HIDE DEF X, mid, n
    <3> QED BY <2>2, <2>3, <2>4
  <2> QED BY <2>5
<1>4. Len(old) \in Nat /\ DOMAIN old = 1..Len(old) /\ i \in 1..Len(old)
  <2>1. Len(old) \in Nat /\ DOMAIN old = 1..Len(old)
    BY <1>2, ListFacts
  <2> QED BY <2>1
<1>5. /\ seq \in Seq(Question) /\ DOMAIN seq = 1..(Len(old) - 1)
      /\ \A j \in 1..(Len(old) - 1) : seq[j] = IF j < i THEN old[j] ELSE old[j + 1]
  <2> HIDE DEF old
  <2> QED BY <1>2, <1>4, RemovedAt
<1>6. gone \subseteq Builtins
  BY <1>2
<1> HIDE DEF seq, gone
<1>7. /\ n \in Models /\ n.removed = gone /\ n.steps[s] = seq
      /\ \A t \in Steps : t # s => n.steps[t] = m.steps[t]
  BY <1>1, <1>5, <1>6, StepReplaced
<1> HIDE DEF n
<1>8. ASSUME NEW t \in Steps
      PROVE  /\ \A j \in DOMAIN n.steps[t] :
                  /\ pi[t][j] \in DOMAIN m.steps[t] /\ n.steps[t][j] = m.steps[t][pi[t][j]]
                  /\ t # s \/ pi[t][j] # i
             /\ \A j, h \in DOMAIN n.steps[t] : pi[t][j] = pi[t][h] => j = h
             /\ \A j \in DOMAIN m.steps[t] : t # s \/ j # i
                  => \E h \in DOMAIN n.steps[t] : n.steps[t][h] = m.steps[t][j]
  <2>1. CASE t = s
    <3>1. n.steps[t] = seq /\ m.steps[t] = old /\ DOMAIN n.steps[t] = 1..(Len(old) - 1)
            /\ DOMAIN m.steps[t] = 1..Len(old)
      BY <1>4, <1>5, <1>7, <2>1
    <3>2. pi[t] = [j \in Nat |-> IF ~(j < i) THEN j + 1 ELSE j]
      BY <2>1
    <3> HIDE DEF pi, old
    <3>3. ASSUME NEW j \in 1..(Len(old) - 1)
          PROVE  pi[t][j] \in 1..Len(old) /\ seq[j] = old[pi[t][j]] /\ pi[t][j] # i
      BY <1>4, <1>5, <3>2
    <3>6. \A j \in 1..(Len(old) - 1) : j \in Nat /\ pi[t][j] = IF ~(j < i) THEN j + 1 ELSE j
      BY <1>4, <3>2
    <3>4. ASSUME NEW j \in 1..(Len(old) - 1), NEW h \in 1..(Len(old) - 1), pi[t][j] = pi[t][h]
          PROVE  j = h
      <4>1. i \in Nat /\ j \in Nat /\ h \in Nat
        BY <1>4, <3>6
      <4>2. (IF ~(j < i) THEN j + 1 ELSE j) = (IF ~(h < i) THEN h + 1 ELSE h)
        BY <3>4, <3>6
      <4> QED BY <4>1, <4>2
    <3>5. ASSUME NEW j \in 1..Len(old), j # i PROVE \E h \in 1..(Len(old) - 1) : seq[h] = old[j]
      <4>1. CASE j < i
        <5>1. j \in 1..(Len(old) - 1)
          BY <1>4, <4>1
        <5> QED BY <1>5, <4>1, <5>1
      <4>2. CASE ~(j < i)
        <5>1. j - 1 \in 1..(Len(old) - 1) /\ ~(j - 1 < i) /\ (j - 1) + 1 = j
          BY <1>4, <3>5, <4>2
        <5> QED BY <1>5, <5>1
      <4> QED BY <4>1, <4>2
    <3>7. \A j \in DOMAIN n.steps[t] :
            /\ pi[t][j] \in DOMAIN m.steps[t] /\ n.steps[t][j] = m.steps[t][pi[t][j]]
            /\ t # s \/ pi[t][j] # i
      BY <3>1, <3>3
    <3>8. \A j, h \in DOMAIN n.steps[t] : pi[t][j] = pi[t][h] => j = h
      BY <3>1, <3>4
    <3>9. \A j \in DOMAIN m.steps[t] : t # s \/ j # i
            => \E h \in DOMAIN n.steps[t] : n.steps[t][h] = m.steps[t][j]
      BY <2>1, <3>1, <3>5
    <3> QED BY <3>7, <3>8, <3>9
  <2>2. CASE t # s
    <3>1. n.steps[t] = m.steps[t] /\ DOMAIN n.steps[t] \subseteq Nat
      <4>1. n.steps[t] = m.steps[t]
        BY <1>7, <2>2
      <4>2. \A j \in DOMAIN m.steps[t] : j \in Nat
        BY <1>2, ListFacts
      <4> QED BY <4>1, <4>2
    <3>2. \A j \in Nat : pi[t][j] = j
      BY <2>2
    <3> HIDE DEF pi
    <3> QED BY <2>2, <3>1, <3>2
  <2> QED BY <2>1, <2>2
<1> HIDE DEF pi
<1>9. /\ Once(n) /\ AddedOf(n) \subseteq AddedOf(m)
      /\ \A q \in QuestionsOf(n) : q \in QuestionsOf(m)
      /\ \A t \in Steps : Range(n.steps[t]) \subseteq Range(m.steps[t])
  <2>1. \A t \in Steps : /\ \A j \in DOMAIN n.steps[t] :
                              pi[t][j] \in DOMAIN m.steps[t] /\ n.steps[t][j] = m.steps[t][pi[t][j]]
                         /\ \A j, h \in DOMAIN n.steps[t] : pi[t][j] = pi[t][h] => j = h
    BY <1>8
  <2>2. n \in Models
    BY <1>7
  <2> QED BY <2>1, <2>2, Rearranged
<1>10. ASSUME NEW q \in QuestionsOf(m), q.key # key PROVE q \in QuestionsOf(n)
  <2>1. PICK t \in Steps : \E j \in DOMAIN m.steps[t] : q = m.steps[t][j]
    BY QuestionsAt
  <2>2. PICK j \in DOMAIN m.steps[t] : q = m.steps[t][j]
    BY <2>1
  <2>3. t # s \/ j # i
    BY <1>10, <2>2
  <2>4. \E h \in DOMAIN n.steps[t] : n.steps[t][h] = q
    BY <1>8, <2>2, <2>3
  <2> QED BY <2>4, QuestionsAt
<1>11. ASSUME NEW t \in Steps, NEW q \in Range(n.steps[t]) PROVE Editable(q, t, n)
  <2>1. Editable(q, t, m)
    BY <1>1, <1>9
  <2>2. ASSUME key \in Builtins PROVE q.key # key
    <3>1. PICK j \in DOMAIN n.steps[t] : q = n.steps[t][j]
      BY DEF Range
    <3>2. pi[t][j] \in DOMAIN m.steps[t] /\ q = m.steps[t][pi[t][j]] /\ (t # s \/ pi[t][j] # i)
      BY <1>8, <3>1
    <3>3. key # Fresh
      BY <2>2, RegistryFacts
    <3> QED BY <1>1, <3>2, <3>3 DEF Once
  <2>3. q.key \notin n.removed
    BY <1>7, <2>1, <2>2 DEF Editable, gone
  <2> QED BY <2>1, <2>3 DEF Editable
<1>12. ASSUME NEW k \in Keys, k # key PROVE Shown(k, n) = Shown(k, m)
  <2>1. k \in m.removed <=> k \in n.removed
    BY <1>7, <1>12 DEF gone
  <2>2. \A q \in QuestionsOf(m) : q.key = k => q \in QuestionsOf(n)
    BY <1>10, <1>12
  <2>3. \A q \in QuestionsOf(n) : q.key = k => q \in QuestionsOf(m)
    BY <1>9
  <2> QED BY <2>1, <2>2, <2>3, ShownSame
<1>13. Edited(m, n, key)
  BY <1>7, <1>9, <1>11, <1>12 DEF Edited, PageFit
<1> QED BY <1>3, <1>13

LEMMA Restored ==
  ASSUME FormAssumption, NEW m, PageFit(m), NEW k
  PROVE  Edited(m, [m EXCEPT !.removed = @ \ {k}], k)
<1> DEFINE n == [m EXCEPT !.removed = @ \ {k}]
<1>1. m \in Models /\ Once(m) /\ \A t \in Steps : \A q \in Range(m.steps[t]) : Editable(q, t, m)
  BY DEF PageFit
<1>2. n \in Models /\ n.steps = m.steps /\ n.removed = m.removed \ {k}
  BY <1>1 DEF Models
<1> HIDE DEF n
<1>3. Once(n) /\ QuestionsOf(n) = QuestionsOf(m)
  BY <1>1, <1>2 DEF Once, QuestionsOf
<1>4. AddedOf(n) = AddedOf(m)
  BY <1>3 DEF AddedOf
<1>5. \A t \in Steps : \A q \in Range(n.steps[t]) : Editable(q, t, n)
  BY <1>1, <1>2 DEF Editable
<1>6. \A h \in Keys \ {k} : Shown(h, n) = Shown(h, m)
  BY <1>2, <1>3, ShownSame
<1> QED BY <1>2, <1>3, <1>4, <1>5, <1>6 DEF Edited, PageFit, n

LEMMA Added ==
  ASSUME FormAssumption, NEW m, PageFit(m), NEW s \in Steps, NEW t \in Types, NEW l \in Texts,
         NEW r \in BOOLEAN
  PROVE  Edited(m, [m EXCEPT !.steps[s] = Append(@,
                      [key |-> Fresh, type |-> t, label |-> l, required |-> r, hidden |-> FALSE])],
                        Fresh)
<1> DEFINE q == [key |-> Fresh, type |-> t, label |-> l, required |-> r, hidden |-> FALSE]
           old == m.steps[s]
           seq == Append(old, q)
           n == [steps |-> [m.steps EXCEPT ![s] = seq], removed |-> m.removed]
<1>1. m \in Models /\ Once(m) /\ \A u \in Steps : \A p \in Range(m.steps[u]) : Editable(p, u, m)
  BY DEF PageFit
<1>2. old \in Seq(Question) /\ m.removed \subseteq Builtins /\ q \in Question
  BY <1>1, PageFacts DEF Question
<1>3. [m EXCEPT !.steps[s] = Append(@, q)] = n
  <2>1. m = [steps |-> m.steps, removed |-> m.removed]
    BY <1>1, RecordOfPage
  <2> HIDE DEF q
  <2> QED BY <2>1
<1>4. q.key = Fresh /\ ~q.hidden /\ q.type = t
  OBVIOUS
<1> HIDE DEF q
<1>5. Len(old) \in Nat /\ DOMAIN old = 1..Len(old)
  BY <1>2, ListFacts
<1>6. /\ seq \in Seq(Question) /\ DOMAIN seq = 1..(Len(old) + 1)
      /\ \A j \in 1..Len(old) : seq[j] = old[j]
      /\ seq[Len(old) + 1] = q
  <2>1. /\ seq \in Seq(Question) /\ Len(seq) = Len(old) + 1
        /\ \A j \in 1..Len(old) : seq[j] = old[j]
        /\ seq[Len(old) + 1] = q
    BY <1>2, AppendProperties
  <2> HIDE DEF seq
  <2>2. DOMAIN seq = 1..Len(seq)
    BY <2>1, LenProperties
  <2> QED BY <2>1, <2>2
<1> HIDE DEF seq
<1>7. /\ n \in Models /\ n.removed = m.removed /\ n.steps[s] = seq
      /\ \A u \in Steps : u # s => n.steps[u] = m.steps[u]
  BY <1>1, <1>2, <1>6, StepReplaced
<1> HIDE DEF n
<1>8. ASSUME NEW u \in Steps, NEW j \in DOMAIN n.steps[u]
      PROVE  (j \in DOMAIN m.steps[u] /\ n.steps[u][j] = m.steps[u][j])
               \/ (u = s /\ n.steps[u][j] = q)
  <2>1. CASE u = s
    <3>1. j \in 1..(Len(old) + 1) /\ m.steps[u] = old
      BY <1>6, <1>7, <2>1
    <3> HIDE DEF old
    <3>2. j \in 1..Len(old) \/ j = Len(old) + 1
      BY <1>5, <3>1
    <3> QED BY <1>5, <1>6, <1>7, <2>1, <3>1, <3>2
  <2>2. CASE u # s
    BY <1>7, <2>2
  <2> QED BY <2>1, <2>2
<1>9. ASSUME NEW u \in Steps, NEW j \in DOMAIN m.steps[u]
      PROVE  j \in DOMAIN n.steps[u] /\ n.steps[u][j] = m.steps[u][j]
  <2>1. CASE u = s
    BY <1>5, <1>6, <1>7, <2>1
  <2>2. CASE u # s
    BY <1>7, <2>2
  <2> QED BY <2>1, <2>2
<1>10. Once(n)
  <2> SUFFICES ASSUME NEW u \in Steps, NEW v \in Steps, NEW i \in DOMAIN n.steps[u],
                      NEW j \in DOMAIN n.steps[v],
                      n.steps[u][i].key = n.steps[v][j].key, n.steps[u][i].key # Fresh
               PROVE  u = v /\ i = j
    BY DEF Once
  <2>1. i \in DOMAIN m.steps[u] /\ n.steps[u][i] = m.steps[u][i]
    BY <1>4, <1>8
  <2>2. j \in DOMAIN m.steps[v] /\ n.steps[v][j] = m.steps[v][j]
    BY <1>4, <1>8
  <2> QED BY <1>1, <2>1, <2>2 DEF Once
<1>11. \A p \in QuestionsOf(n) : p \in QuestionsOf(m) \/ p = q
  BY <1>8, QuestionsAt
<1>12. \A p \in QuestionsOf(m) : p \in QuestionsOf(n)
  BY <1>9, QuestionsAt
<1>13. Fresh \notin Builtins /\ Fresh \notin Range(CustomKeys) /\ Fresh \notin Keys
  BY RegistryFacts DEF Keys
<1>14. AddedOf(n) \subseteq AddedOf(m)
  BY <1>4, <1>11, <1>13 DEF AddedOf
<1>15. ASSUME NEW u \in Steps, NEW p \in Range(n.steps[u]) PROVE Editable(p, u, n)
  <2>1. PICK j \in DOMAIN n.steps[u] : p = n.steps[u][j]
    BY DEF Range
  <2>2. CASE p = q
    BY <1>2, <1>4, <1>7, <1>13, <2>2 DEF Editable
  <2>3. CASE p # q
    <3>1. p \in Range(m.steps[u])
      BY <1>8, <2>1, <2>3 DEF Range
    <3> QED BY <1>1, <1>7, <3>1 DEF Editable
  <2> QED BY <2>2, <2>3
<1>16. \A k \in Keys : Shown(k, n) = Shown(k, m)
  BY <1>4, <1>7, <1>11, <1>12, <1>13, ShownSame
<1>17. Edited(m, n, Fresh)
  BY <1>7, <1>10, <1>14, <1>15, <1>16 DEF Edited, PageFit
<1> QED BY <1>3, <1>17 DEF q

-----------------------------------------------------------------------------
(* What every step keeps.                                                  *)

LEMMA FormInvInit ==
  ASSUME FormAssumption, Init
  PROVE  FormInv
<1> DEFINE o == FirstOverlay
<1>1. WellStored(o) /\ Len(o.custom) <= Len(CustomKeys) /\ MaxEdits \in Nat /\ MaxFaults \in Nat
      /\ \A c \in Range(o.custom) : \E i \in 1..Len(o.custom) : c.key = CustomKeys[i]
  BY DEF FormAssumption
<1>2. /\ overlay = o /\ model = [e \in Editors |-> mergeEditModel(o)] /\ baseline = model
      /\ saving = [e \in Editors |-> Rest] /\ minted = Len(o.custom) /\ edits = 0 /\ faults = 0
      /\ touched = [e \in Editors |-> {}] /\ blind = [e \in Editors |-> FALSE]
      /\ meant = StoredOf(o)
  BY DEF Init, StoredOf
<1>3. Len(o.custom) \in Nat /\ Len(CustomKeys) \in Nat /\ DOMAIN CustomKeys = 1..Len(CustomKeys)
  BY <1>1, StoredFacts, LenProperties, DrawnFacts
<1>4. /\ PageFit(mergeEditModel(o)) /\ AddedOf(mergeEditModel(o)) \subseteq StoredOf(o)
      /\ \A k \in Keys : Shown(k, mergeEditModel(o)) = Asked(k, o)
  BY <1>1, MergeFits
<1>5. Counters
  BY <1>1, <1>2, <1>3 DEF Counters
<1>6. StoredFit
  BY <1>1, <1>2 DEF StoredFit
<1>7. MeantDrawn
  <2> SUFFICES ASSUME NEW c \in Range(o.custom) PROVE c.key \in Drawn(minted)
    BY <1>2 DEF MeantDrawn, StoredOf
  <2>1. PICK i \in 1..Len(o.custom) : c.key = CustomKeys[i]
    BY <1>1
  <2>2. i \in DOMAIN CustomKeys /\ i <= minted
    BY <1>1, <1>2, <1>3
  <2> QED BY <2>1, <2>2 DEF Drawn
<1>8. KeyMeansOne
  <2>1. \A c, d \in Range(o.custom) : c.key = d.key => c = d
    BY <1>1, StoredFacts
  <2> QED BY <1>2, <2>1 DEF KeyMeansOne, StoredOf
<1>9. ASSUME NEW e \in Editors PROVE PagesFit(e) /\ SaveFit(e) /\ NewAlone(e) /\ ShowsStored(e)
  <2>1. model[e] = mergeEditModel(o) /\ baseline[e] = mergeEditModel(o) /\ saving[e].at = "no"
    BY <1>2 DEF Rest
  <2> HIDE DEF o
  <2>2. PagesFit(e)
    BY <1>2, <1>4, <2>1 DEF PagesFit
  <2>3. SaveFit(e) /\ NewAlone(e)
    BY <2>1 DEF SaveFit, NewAlone, At
  <2>4. ShowsStored(e)
    BY <1>2, <1>4, <2>1 DEF ShowsStored, At
  <2> QED BY <2>2, <2>3, <2>4
<1> QED BY <1>5, <1>6, <1>7, <1>8, <1>9 DEF FormInv

\* A step of an editor that stores nothing and starts no write changes nothing
\* of the others.
OnlyAt(e) ==
  /\ UNCHANGED <<overlay, minted, meant>>
  /\ \A f \in Editors \ {e} : /\ model'[f] = model[f] /\ baseline'[f] = baseline[f]
                              /\ saving'[f] = saving[f]
                              /\ touched'[f] = touched[f] /\ blind'[f] = blind[f]
  /\ saving'[e].at = "write" => saving'[e] = saving[e]

LEMMA OthersKept ==
  ASSUME FormInv, NEW e \in Editors, OnlyAt(e), Counters',
         PagesFit(e)', SaveFit(e)', ShowsStored(e)'
  PROVE  FormInv'
<1>1. StoredFit' /\ MeantDrawn' /\ KeyMeansOne'
  BY DEF FormInv, OnlyAt, StoredFit, MeantDrawn, KeyMeansOne
<1>2. ASSUME NEW f \in Editors \ {e} PROVE PagesFit(f)' /\ SaveFit(f)' /\ ShowsStored(f)'
  <2>1. PagesFit(f) /\ SaveFit(f) /\ ShowsStored(f)
    BY DEF FormInv
  <2>2. PagesFit(f)'
    BY <2>1 DEF PagesFit, OnlyAt
  <2>3. SaveFit(f)'
    BY <2>1 DEF SaveFit, OnlyAt, At
  <2>4. ShowsStored(f)'
    BY <2>1 DEF ShowsStored, OnlyAt, At
  <2> QED BY <2>2, <2>3, <2>4
<1>3. \A f \in Editors : saving'[f].at = "write" => saving'[f] = saving[f] /\ saving[f].at = "write"
  BY DEF OnlyAt
<1>4. ASSUME NEW f \in Editors PROVE NewAlone(f)'
  <2>1. NewAlone(f)
    BY DEF FormInv
  <2>2. minted' = minted /\ meant' = meant
    BY DEF OnlyAt
  <2> QED BY <1>3, <2>1, <2>2 DEF NewAlone, At
<1> QED BY <1>1, <1>2, <1>4 DEF FormInv

LEMMA InvFacts ==
  ASSUME FormInv, NEW e \in Editors
  PROVE  /\ WellStored(overlay) /\ StoredOf(overlay) \subseteq meant
         /\ minted \in Nat /\ minted <= Len(CustomKeys) /\ edits \in Nat /\ edits <= MaxEdits
         /\ faults \in Nat /\ faults <= MaxFaults /\ blind \in [Editors -> BOOLEAN]
         /\ PagesFit(e) /\ SaveFit(e) /\ NewAlone(e) /\ ShowsStored(e)
BY DEF FormInv, StoredFit, Counters

LEMMA MutateKeeps ==
  ASSUME FormAssumption, FormInv, NEW e \in Editors, NEW n, NEW key, Edited(model[e], n, key),
         Mutate(e, n, key)
  PROVE  FormInv'
<1>1. /\ edits < MaxEdits /\ edits' = edits + 1 /\ model' = [model EXCEPT ![e] = n]
      /\ touched' = [touched EXCEPT ![e] = @ \union {key}]
      /\ UNCHANGED <<overlay, baseline, saving, minted, faults, blind, meant>>
  BY DEF Mutate
<1>2. Counters
  BY DEF FormInv
<1>3. Counters'
  <2>1. edits' \in 0..MaxEdits
    BY <1>1, <1>2 DEF Counters, FormAssumption
  <2> QED BY <1>1, <1>2, <2>1 DEF Counters
<1>4. /\ model'[e] = n /\ touched'[e] = touched[e] \union {key}
      /\ \A f \in Editors \ {e} : model'[f] = model[f] /\ touched'[f] = touched[f]
  BY <1>1, <1>2 DEF Counters
<1>5. OnlyAt(e)
  BY <1>1, <1>4 DEF OnlyAt
<1>6. PagesFit(e) /\ SaveFit(e) /\ ShowsStored(e)
  BY DEF FormInv
<1>7. PagesFit(e)'
  BY <1>1, <1>4, <1>6 DEF PagesFit, Edited
<1>8. SaveFit(e)'
  BY <1>1, <1>6 DEF SaveFit, At
<1>9. ShowsStored(e)'
  <2>1. \A k \in Keys \ {key} : Shown(k, n) = Shown(k, model[e])
    BY DEF Edited
  <2> QED BY <1>1, <1>4, <1>6, <2>1 DEF ShowsStored, At
<1> QED BY <1>3, <1>5, <1>7, <1>8, <1>9, OthersKept

\* The page takes a form over that is stored, or one read as empty.
LEMMA AdoptKeeps ==
  ASSUME FormAssumption, FormInv, NEW e \in Editors, NEW o, WellStored(o),
         StoredOf(o) \subseteq meant,
         adopt(e, mergeEditModel(o)), UNCHANGED <<overlay, minted, edits, meant>>,
         faults' \in 0..MaxFaults, NEW b \in BOOLEAN, blind' = [blind EXCEPT ![e] = b],
         ~b => o = overlay, saving' = saving \/ saving' = [saving EXCEPT ![e] = Rest],
         saving'[e].at = "no"
  PROVE  FormInv'
<1> DEFINE m == mergeEditModel(o)
<1>1. /\ model' = [model EXCEPT ![e] = m] /\ baseline' = [baseline EXCEPT ![e] = m]
      /\ touched' = [touched EXCEPT ![e] = {}]
  BY DEF adopt
<1>2. Counters
  BY DEF FormInv
<1>3. /\ PageFit(m) /\ AddedOf(m) \subseteq StoredOf(o)
      /\ \A k \in Keys : Shown(k, m) = Asked(k, o)
  BY MergeFits
<1> HIDE DEF m
<1>4. /\ model'[e] = m /\ baseline'[e] = m /\ touched'[e] = {} /\ blind'[e] = b
      /\ \A f \in Editors \ {e} : /\ model'[f] = model[f] /\ baseline'[f] = baseline[f]
                                  /\ saving'[f] = saving[f]
                                  /\ touched'[f] = touched[f] /\ blind'[f] = blind[f]
  BY <1>1, <1>2 DEF Counters
<1>5. saving' = [f \in Editors |-> saving'[f]]
  BY <1>2 DEF Counters
<1>6. Counters'
  BY <1>1, <1>2, <1>5 DEF Counters
<1>7. OnlyAt(e)
  BY <1>4 DEF OnlyAt
<1>8. PagesFit(e)'
  BY <1>3, <1>4 DEF PagesFit
<1>9. SaveFit(e)'
  BY DEF SaveFit, At
<1>10. ShowsStored(e)'
  BY <1>3, <1>4 DEF ShowsStored, At
<1> QED BY <1>6, <1>7, <1>8, <1>9, <1>10, OthersKept

LEMMA LoadKeeps ==
  ASSUME FormAssumption, FormInv, NEW e \in Editors, Load(e)
  PROVE  FormInv'
<1>1. /\ saving[e].at = "no" /\ adopt(e, mergeEditModel(overlay))
           /\ blind' = [blind EXCEPT ![e] = FALSE]
      /\ UNCHANGED <<overlay, saving, minted, edits, faults, meant>>
  BY DEF Load, At
<1>2. WellStored(overlay) /\ StoredOf(overlay) \subseteq meant /\ faults \in 0..MaxFaults
  BY DEF FormInv, StoredFit, Counters
<1> QED BY <1>1, <1>2, AdoptKeeps

LEMMA LoadFailsKeeps ==
  ASSUME FormAssumption, FormInv, NEW e \in Editors, LoadFails(e)
  PROVE  FormInv'
<1>1. /\ saving[e].at = "no" /\ adopt(e, mergeEditModel(EmptyOverlay))
           /\ blind' = [blind EXCEPT ![e] = TRUE]
      /\ faults < MaxFaults /\ faults' = faults + 1
      /\ UNCHANGED <<overlay, saving, minted, edits, meant>>
  BY DEF LoadFails, At, Fault
<1>2. faults' \in 0..MaxFaults
  BY <1>1 DEF FormInv, Counters, FormAssumption
<1>3. WellStored(EmptyOverlay) /\ StoredOf(EmptyOverlay) \subseteq meant
  BY EmptyStored
<1> QED BY <1>1, <1>2, <1>3, AdoptKeeps

LEMMA AnswerKeeps ==
  ASSUME FormAssumption, FormInv, NEW e \in Editors, Answer(e)
  PROVE  FormInv'
<1> DEFINE o == saving[e].next
<1>1. /\ saving[e].at = "answer" /\ adopt(e, mergeEditModel(o))
      /\ saving' = [saving EXCEPT ![e] = Rest]
      /\ UNCHANGED <<overlay, minted, edits, faults, blind, meant>>
  BY DEF Answer, At
<1>2. SaveFit(e) /\ ShowsStored(e) /\ Counters
  BY DEF FormInv
<1>3. WellStored(o) /\ StoredOf(o) \subseteq meant
  BY <1>1, <1>2 DEF SaveFit, At, Built
<1>4. ~blind[e] => o = overlay
  BY <1>1, <1>2 DEF ShowsStored, At
<1>5. faults' \in 0..MaxFaults /\ blind[e] \in BOOLEAN /\ blind' = [blind EXCEPT ![e] = blind[e]]
  BY <1>1, <1>2 DEF Counters
<1>6. saving'[e].at = "no"
  BY <1>1, <1>2 DEF Counters, Rest
<1> HIDE DEF o
<1> QED BY <1>1, <1>3, <1>4, <1>5, <1>6, AdoptKeeps

LEMMA EditKeeps ==
  ASSUME FormAssumption, FormInv, NEW e \in Editors,
         setLabel(e) \/ setRequired(e) \/ moveQuestion(e) \/ deleteQuestion(e)
           \/ restoreQuestion(e) \/ commitAdd(e)
  PROVE  FormInv'
<1> DEFINE m == model[e]
<1>1. PageFit(m)
  BY DEF FormInv, PagesFit
<1>2. \A n, key : Edited(m, n, key) /\ Mutate(e, n, key) => FormInv'
  BY MutateKeeps
<1>3. CASE setLabel(e)
  <2>1. PICK s \in Steps : \E i \in DOMAIN m.steps[s], l \in Texts \union {Blank} :
          Mutate(e, [m EXCEPT !.steps[s][i].label = l], m.steps[s][i].key)
    BY <1>3 DEF setLabel
  <2>2. PICK i \in DOMAIN m.steps[s], l \in Texts \union {Blank} :
          Mutate(e, [m EXCEPT !.steps[s][i].label = l], m.steps[s][i].key)
    BY <2>1
  <2> HIDE DEF m
  <2>3. Edited(m, [m EXCEPT !.steps[s][i].label = l], m.steps[s][i].key)
    BY <1>1, LabelEdited
  <2> QED BY <1>2, <2>2, <2>3
<1>4. CASE setRequired(e)
  <2>1. PICK s \in Steps : \E i \in DOMAIN m.steps[s] :
          /\ m.steps[s][i].key \notin Locked
          /\ Mutate(e, [m EXCEPT !.steps[s][i].required = ~@], m.steps[s][i].key)
    BY <1>4 DEF setRequired
  <2>2. PICK i \in DOMAIN m.steps[s] :
          /\ m.steps[s][i].key \notin Locked
          /\ Mutate(e, [m EXCEPT !.steps[s][i].required = ~@], m.steps[s][i].key)
    BY <2>1
  <2> HIDE DEF m
  <2>3. Edited(m, [m EXCEPT !.steps[s][i].required = ~@], m.steps[s][i].key)
    BY <1>1, <2>2, RequiredEdited
  <2> QED BY <1>2, <2>2, <2>3
<1>5. CASE moveQuestion(e)
  <2>1. PICK s \in Steps : \E i \in DOMAIN m.steps[s] \ {1} :
          Mutate(e, [m EXCEPT !.steps[s][i] = m.steps[s][i - 1], !.steps[s][i - 1] = m.steps[s][i]],
            Fresh)
    BY <1>5 DEF moveQuestion
  <2>2. PICK i \in DOMAIN m.steps[s] \ {1} :
          Mutate(e, [m EXCEPT !.steps[s][i] = m.steps[s][i - 1], !.steps[s][i - 1] = m.steps[s][i]],
            Fresh)
    BY <2>1
  <2> HIDE DEF m
  <2>3. Edited(m, [m EXCEPT !.steps[s][i] = m.steps[s][i - 1], !.steps[s][i - 1] = m.steps[s][i]],
          Fresh)
    BY <1>1, Moved
  <2> QED BY <1>2, <2>2, <2>3
<1>6. CASE deleteQuestion(e)
  <2>1. PICK s \in Steps : \E i \in DOMAIN m.steps[s] :
          Mutate(e, [m EXCEPT !.steps[s] = RemoveAt(@, i),
                              !.removed = @ \union ({m.steps[s][i].key} \intersect Builtins)],
                                m.steps[s][i].key)
    BY <1>6 DEF deleteQuestion
  <2>2. PICK i \in DOMAIN m.steps[s] :
          Mutate(e, [m EXCEPT !.steps[s] = RemoveAt(@, i),
                              !.removed = @ \union ({m.steps[s][i].key} \intersect Builtins)],
                                m.steps[s][i].key)
    BY <2>1
  <2> HIDE DEF m
  <2>3. Edited(m, [m EXCEPT !.steps[s] = RemoveAt(@, i),
                            !.removed = @ \union ({m.steps[s][i].key} \intersect Builtins)],
                              m.steps[s][i].key)
    BY <1>1, Deleted
  <2> QED BY <1>2, <2>2, <2>3
<1>7. CASE restoreQuestion(e)
  <2>1. PICK k \in m.removed : Mutate(e, [m EXCEPT !.removed = @ \ {k}], k)
    BY <1>7 DEF restoreQuestion
  <2> HIDE DEF m
  <2>2. Edited(m, [m EXCEPT !.removed = @ \ {k}], k)
    BY <1>1, Restored
  <2> QED BY <1>2, <2>1, <2>2
<1>8. CASE commitAdd(e)
  <2>1. PICK s \in Steps : \E t \in Types, l \in Texts \ {Default}, r \in BOOLEAN :
          Mutate(e, [m EXCEPT !.steps[s] = Append(@,
                       [key |-> Fresh, type |-> t, label |-> l, required |-> r, hidden |-> FALSE])],
                         Fresh)
    BY <1>8 DEF commitAdd
  <2>2. PICK t \in Types, l \in Texts \ {Default}, r \in BOOLEAN :
          Mutate(e, [m EXCEPT !.steps[s] = Append(@,
                       [key |-> Fresh, type |-> t, label |-> l, required |-> r, hidden |-> FALSE])],
                         Fresh)
    BY <2>1
  <2> HIDE DEF m
  <2>3. Edited(m, [m EXCEPT !.steps[s] = Append(@,
                     [key |-> Fresh, type |-> t, label |-> l, required |-> r, hidden |-> FALSE])],
                       Fresh)
    BY <1>1, Added
  <2> QED BY <1>2, <2>2, <2>3
<1> QED BY <1>3, <1>4, <1>5, <1>6, <1>7, <1>8

LEMMA DiscardKeeps ==
  ASSUME FormInv, NEW e \in Editors, discard(e)
  PROVE  FormInv'
<1>1. /\ At(e, "no") /\ model' = [model EXCEPT ![e] = baseline[e]]
           /\ touched' = [touched EXCEPT ![e] = {}]
      /\ UNCHANGED <<overlay, baseline, saving, minted, edits, faults, blind, meant>>
  BY DEF discard
<1>2. Counters /\ PagesFit(e) /\ SaveFit(e) /\ ShowsStored(e)
  BY DEF FormInv
<1>3. Counters'
  BY <1>1, <1>2 DEF Counters
<1>4. /\ model'[e] = baseline[e] /\ touched'[e] = {}
      /\ \A f \in Editors \ {e} : model'[f] = model[f] /\ touched'[f] = touched[f]
  BY <1>1, <1>2 DEF Counters
<1>5. OnlyAt(e)
  BY <1>1, <1>4 DEF OnlyAt
<1>6. PagesFit(e)'
  BY <1>1, <1>2, <1>4 DEF PagesFit
<1>7. SaveFit(e)'
  BY <1>1, <1>2 DEF SaveFit, At
<1>8. ShowsStored(e)'
  BY <1>1, <1>2, <1>4 DEF ShowsStored, At
<1> QED BY <1>3, <1>5, <1>6, <1>7, <1>8, OthersKept

LEMMA OnSaveKeeps ==
  ASSUME FormInv, NEW e \in Editors, onSave(e)
  PROVE  FormInv'
<1>1. /\ At(e, "no") /\ saving' = [saving EXCEPT ![e] = [at |-> "build", sent |-> model[e]]]
      /\ UNCHANGED <<overlay, model, baseline, minted, edits, faults, touched, blind, meant>>
  BY DEF onSave
<1>2. Counters /\ PagesFit(e) /\ SaveFit(e) /\ ShowsStored(e)
  BY DEF FormInv
<1>3. Counters'
  BY <1>1, <1>2 DEF Counters
<1>4. /\ saving'[e].at = "build" /\ saving'[e].sent = model[e]
      /\ \A f \in Editors \ {e} : saving'[f] = saving[f]
  BY <1>1, <1>2 DEF Counters
<1>5. OnlyAt(e)
  BY <1>1, <1>4 DEF OnlyAt
<1>6. PagesFit(e)'
  BY <1>1, <1>2 DEF PagesFit
<1>7. SaveFit(e)'
  BY <1>1, <1>2, <1>4 DEF SaveFit, PagesFit, At
<1>8. ShowsStored(e)'
  BY <1>1, <1>2, <1>4 DEF ShowsStored, At
<1> QED BY <1>3, <1>5, <1>6, <1>7, <1>8, OthersKept

LEMMA SaveFailsKeeps ==
  ASSUME FormAssumption, FormInv, NEW e \in Editors, SaveFails(e)
  PROVE  FormInv'
<1>1. /\ faults < MaxFaults /\ faults' = faults + 1 /\ saving' = [saving EXCEPT ![e] = Rest]
      /\ blind' = [blind EXCEPT ![e] = @ \/ At(e, "answer")]
      /\ UNCHANGED <<overlay, model, baseline, minted, edits, touched, meant>>
  BY DEF SaveFails, Fault
<1>2. Counters /\ PagesFit(e) /\ SaveFit(e) /\ ShowsStored(e)
  BY DEF FormInv
<1>3. /\ saving'[e].at = "no" /\ \A f \in Editors \ {e} : saving'[f] = saving[f]
           /\ blind'[f] = blind[f]
      /\ saving' = [f \in Editors |-> saving'[f]]
  BY <1>1, <1>2 DEF Counters, Rest
<1>4. blind[e] \/ At(e, "answer") => blind'[e]
  BY <1>1, <1>2 DEF Counters
<1>5. blind' \in [Editors -> BOOLEAN]
  <2>1. (blind[e] \/ At(e, "answer")) \in BOOLEAN
    BY <1>2 DEF Counters, At
  <2> QED BY <1>1, <1>2, <2>1 DEF Counters
<1>6. faults' \in 0..MaxFaults
  BY <1>1, <1>2 DEF Counters, FormAssumption
<1>7. Counters'
  BY <1>1, <1>2, <1>3, <1>5, <1>6 DEF Counters
<1>8. OnlyAt(e)
  BY <1>1, <1>3 DEF OnlyAt
<1>9. PagesFit(e)'
  BY <1>1, <1>2 DEF PagesFit
<1>10. SaveFit(e)'
  BY <1>3 DEF SaveFit, At
<1>11. ShowsStored(e)'
  BY <1>1, <1>2, <1>3, <1>4 DEF ShowsStored, At
<1> QED BY <1>7, <1>8, <1>9, <1>10, <1>11, OthersKept

\* The added questions a save stores and its page did not send have the keys it drew.
LEMMA BuiltOwn ==
  ASSUME FormAssumption, NEW m, Buildable(m)
  PROVE  {p[1] : p \in StoredOf(buildOverlay(m)) \ AddedOf(m)} = NewKeys(m)
<1> DEFINE b == buildOverlay(m)
           a == Keyed(m)
<1>1. \A p \in StoredOf(b) : p \in AddedOf(m) \/ p[1] \in NewKeys(m)
  BY BuiltAdded
<1>2. /\ \A s \in Steps : \A i \in DOMAIN m.steps[s] : KeyedAs(m, s, i)
      /\ \A s \in Steps : \A i \in DOMAIN m.steps[s] : a[s][i].key \notin Builtins =>
           buildCustomQuestion(a[s][i], s) \in Range(b.custom)
  BY KeyedIs, BuiltIs
<1>3. /\ minted + NewIn(m) \in Nat
      /\ NewKeys(m) \subseteq Drawn(minted + NewIn(m)) /\ NewKeys(m) \intersect Drawn(minted) = {}
  BY KeysDrawn
<1>4. \A k \in NewKeys(m) : k \in Range(CustomKeys) /\ k \notin Builtins
  <2>1. Drawn(minted + NewIn(m)) \subseteq Range(CustomKeys)
    BY <1>3, DrawnFacts
  <2>2. \A k \in Range(CustomKeys) : k \notin Builtins
    BY RegistryFacts
  <2> QED BY <1>3, <2>1, <2>2
<1>5. ASSUME NEW p \in AddedOf(m) PROVE p[1] \notin NewKeys(m)
  <2>1. PICK q \in QuestionsOf(m) : q.key \in Range(CustomKeys) /\ p = <<q.key, q.type>>
    BY DEF AddedOf
  <2>2. q.key \in Drawn(minted)
    BY <2>1 DEF Buildable
  <2> QED BY <1>3, <2>1, <2>2
<1> HIDE DEF b
<1>6. ASSUME NEW k \in NewKeys(m) PROVE \E p \in StoredOf(b) : p[1] = k
  <2>1. PICK r \in {x \in Places(m) : IsNew(m, x)} : k = KeyOf(m, r[1], r[2])
    BY DEF NewKeys
  <2>2. r[1] \in Steps /\ r[2] \in DOMAIN m.steps[r[1]]
    BY DEF Places
  <2> DEFINE c == buildCustomQuestion(a[r[1]][r[2]], r[1])
  <2>3. a[r[1]][r[2]].key = k
    BY <1>2, <2>1, <2>2 DEF KeyedAs, a
  <2>4. c \in Range(b.custom)
    BY <1>2, <1>4, <2>2, <2>3
  <2>5. c.key = k
    BY <2>3 DEF buildCustomQuestion
  <2> HIDE DEF c
  <2>6. <<c.key, c.type>> \in StoredOf(b)
    BY <2>4 DEF StoredOf
  <2>7. <<c.key, c.type>>[1] = k
    BY <2>5
  <2> QED BY <2>6, <2>7
<1> QED BY <1>1, <1>5, <1>6 DEF b

\* A page whose save was not refused can be built from.
LEMMA NotRefused ==
  ASSUME FormInv, NEW e \in Editors, ~At(e, "no"), NEW prev, ~Refused(saving[e].sent, prev),
         minted + NewIn(saving[e].sent) <= Len(CustomKeys)
  PROVE  Buildable(saving[e].sent)
<1> DEFINE m == saving[e].sent
<1>1. PageFit(m) /\ AddedOf(m) \subseteq meant /\ minted \in Nat /\ MeantDrawn
  BY DEF FormInv, SaveFit, Counters
<1> HIDE DEF m
<1>2. ~Refused(m, prev) /\ minted + NewIn(m) <= Len(CustomKeys)
  BY DEF m
<1>3. \A q \in QuestionsOf(m) : q.key \notin Builtins => q.label # Blank
  BY <1>2 DEF Refused, QuestionsOf
<1>4. \A q \in QuestionsOf(m) : q.key \in Range(CustomKeys) => q.key \in Drawn(minted)
  <2> TAKE q \in QuestionsOf(m)
  <2> HAVE q.key \in Range(CustomKeys)
  <2>1. <<q.key, q.type>> \in meant
    BY <1>1 DEF AddedOf
  <2>2. <<q.key, q.type>>[1] \in Drawn(minted)
    BY <1>1, <2>1 DEF MeantDrawn
  <2> QED BY <2>2
<1>5. Buildable(m)
  BY <1>1, <1>2, <1>3, <1>4 DEF Buildable
<1> QED BY <1>5 DEF m

LEMMA BuiltFits ==
  ASSUME FormAssumption, NEW m, Buildable(m)
  PROVE  LET v == [at |-> "write", sent |-> m, next |-> buildOverlay(m)]
         IN  Built(v) /\ OwnKeys(v) = NewKeys(m)
<1> DEFINE b == buildOverlay(m)
           v == [at |-> "write", sent |-> m, next |-> b]
<1>1. WellStored(b) /\ \A s \in Steps : AskedAs(b, s) = Seen(m, s)
  BY BuiltStored, BuiltSeen
<1>2. {p[1] : p \in StoredOf(b) \ AddedOf(m)} = NewKeys(m)
  BY BuiltOwn
<1>3. \A k \in Keys \ NewKeys(m) : Asked(k, b) = Shown(k, m)
  BY BuiltShows
<1> HIDE DEF b
<1>4. v.sent = m /\ v.next = b
  OBVIOUS
<1> HIDE DEF v
<1>5. OwnKeys(v) = NewKeys(m)
  BY <1>2, <1>4 DEF OwnKeys
<1> QED BY <1>1, <1>3, <1>4, <1>5 DEF Built, v, b

LEMMA BuildKeeps ==
  ASSUME FormAssumption, FormInv, NEW e \in Editors, NEW prev, Build(e, prev),
         faults' \in 0..MaxFaults
  PROVE  FormInv'
<1> DEFINE m == saving[e].sent
           v == [at |-> "write", sent |-> m, next |-> buildOverlay(m)]
<1>1. /\ At(e, "build") /\ minted + NewIn(m) <= Len(CustomKeys)
      /\ IF Refused(m, prev) THEN saving' = [saving EXCEPT ![e] = Rest] /\ UNCHANGED minted
                             ELSE saving' = [saving EXCEPT ![e] = v] /\ minted' = minted + NewIn(m)
      /\ UNCHANGED <<overlay, model, baseline, edits, touched, blind, meant>>
  BY DEF Build
<1>2. Counters /\ StoredFit /\ MeantDrawn /\ KeyMeansOne
  BY DEF FormInv
<1>3. \A f \in Editors : PagesFit(f) /\ SaveFit(f) /\ NewAlone(f) /\ ShowsStored(f)
  BY DEF FormInv
<1>4. CASE Refused(m, prev)
  <2>1. /\ saving'[e].at = "no" /\ \A f \in Editors \ {e} : saving'[f] = saving[f]
        /\ saving' = [f \in Editors |-> saving'[f]] /\ minted' = minted
    BY <1>1, <1>2, <1>4 DEF Counters, Rest
  <2>2. Counters'
    BY <1>1, <1>2, <2>1 DEF Counters
  <2>3. OnlyAt(e)
    BY <1>1, <2>1 DEF OnlyAt
  <2>4. PagesFit(e)'
    BY <1>1, <1>3 DEF PagesFit
  <2>5. SaveFit(e)'
    BY <2>1 DEF SaveFit, At
  <2>6. ShowsStored(e)'
    BY <1>1, <1>3, <2>1 DEF ShowsStored, At
  <2> QED BY <2>2, <2>3, <2>4, <2>5, <2>6, OthersKept
<1>5. CASE ~Refused(m, prev)
  <2>1. Buildable(m)
    <3>1. ~At(e, "no")
      BY <1>1 DEF At
    <3> QED BY <1>1, <1>5, <3>1, NotRefused
  <2>2. Built(v) /\ OwnKeys(v) = NewKeys(m) /\ v = [at |-> v.at, sent |-> v.sent, next |-> v.next]
        /\ v.at = "write" /\ v.sent = m
    BY <2>1, BuiltFits
  <2>3. /\ NewIn(m) \in Nat /\ minted + NewIn(m) \in Nat
        /\ NewKeys(m) \subseteq Drawn(minted + NewIn(m)) /\ NewKeys(m) \intersect Drawn(minted) = {}
    BY <2>1, KeysDrawn, NewCounts DEF Buildable, PageFit
  <2>4. /\ PageFit(m) /\ AddedOf(m) \subseteq meant
        /\ ~blind[e] => \A k \in Keys \ touched[e] : Shown(k, m) = Asked(k, overlay)
    BY <1>1, <1>3 DEF SaveFit, ShowsStored, At
  <2>5. saving' = [saving EXCEPT ![e] = v] /\ minted' = minted + NewIn(m)
    BY <1>1, <1>5
  <2> HIDE DEF v
  <2>6. /\ saving'[e] = v /\ \A f \in Editors \ {e} : saving'[f] = saving[f]
        /\ saving' = [f \in Editors |-> saving'[f]]
    BY <1>2, <2>5 DEF Counters
  <2> HIDE DEF m
  <2>7. /\ minted \in Nat /\ minted' \in Nat /\ Drawn(minted) \subseteq Drawn(minted')
        /\ minted' \in 0..Len(CustomKeys)
    <3>1. minted \in Nat /\ minted' \in Nat /\ minted <= minted' /\ Len(CustomKeys) \in Nat
      BY <1>2, <2>3, <2>5, DrawnFacts DEF Counters
    <3>2. \A n, k \in Nat : n <= k => Drawn(n) \subseteq Drawn(k)
      BY DrawnFacts
    <3> QED BY <1>1, <2>5, <3>1, <3>2
  <2>8. Counters'
    BY <1>1, <1>2, <2>6, <2>7 DEF Counters
  <2>9. StoredFit' /\ KeyMeansOne'
    BY <1>1, <1>2 DEF StoredFit, KeyMeansOne
  <2>10. MeantDrawn'
    BY <1>1, <1>2, <2>7 DEF MeantDrawn
  <2>11. ASSUME NEW f \in Editors PROVE PagesFit(f)'
    BY <1>1, <1>3 DEF PagesFit
  <2>12. ASSUME NEW f \in Editors PROVE SaveFit(f)'
    <3>1. CASE f = e
      BY <1>1, <2>2, <2>4, <2>6, <3>1 DEF SaveFit, At
    <3>2. CASE f # e
      BY <1>1, <1>3, <2>6, <3>2 DEF SaveFit, At
    <3> QED BY <3>1, <3>2
  <2>13. ASSUME NEW f \in Editors PROVE ShowsStored(f)'
    <3>1. CASE f = e
      BY <1>1, <1>3, <2>2, <2>4, <2>6, <3>1 DEF ShowsStored, At
    <3>2. CASE f # e
      BY <1>1, <1>3, <2>6, <3>2 DEF ShowsStored, At
    <3> QED BY <3>1, <3>2
  <2>14. /\ OwnKeys(v) \subseteq Drawn(minted') /\ OwnKeys(v) \intersect Drawn(minted) = {}
    BY <2>2, <2>3, <2>5
  <2>15. ASSUME NEW f \in Editors \ {e}, At(f, "write")
         PROVE  /\ OwnKeys(saving[f]) \subseteq Drawn(minted)
                     /\ \A p \in meant : p[1] \notin OwnKeys(saving[f])
                /\ \A g \in Editors \ {f} : At(g, "write")
                     => OwnKeys(saving[f]) \intersect OwnKeys(saving[g]) = {}
    BY <1>3, <2>15 DEF NewAlone
  <2>16. ASSUME NEW f \in Editors PROVE NewAlone(f)'
    <3>1. CASE f = e
      <4>1. \A p \in meant : p[1] \notin OwnKeys(v)
        BY <1>2, <2>14 DEF MeantDrawn
      <4>2. \A g \in Editors \ {e} : saving[g].at = "write"
              => OwnKeys(v) \intersect OwnKeys(saving[g]) = {}
        BY <2>14, <2>15 DEF At
      <4> QED BY <1>1, <2>6, <2>14, <3>1, <4>1, <4>2 DEF NewAlone, At
    <3>2. CASE f # e
      <4> SUFFICES ASSUME saving[f].at = "write" PROVE NewAlone(f)'
        BY <2>6, <3>2 DEF NewAlone, At
      <4>1. /\ OwnKeys(saving[f]) \subseteq Drawn(minted)
                 /\ \A p \in meant : p[1] \notin OwnKeys(saving[f])
            /\ \A g \in Editors \ {f} : saving[g].at = "write"
                 => OwnKeys(saving[f]) \intersect OwnKeys(saving[g]) = {}
        BY <2>15, <3>2 DEF At
      <4>2. OwnKeys(saving[f]) \intersect OwnKeys(v) = {}
        BY <2>14, <4>1
      <4>3. \A g \in Editors \ {f} : saving'[g].at = "write"
              => OwnKeys(saving[f]) \intersect OwnKeys(saving'[g]) = {}
        BY <2>6, <4>1, <4>2
      <4>4. saving'[f] = saving[f] /\ meant' = meant
        BY <1>1, <2>6, <3>2
      <4> QED BY <2>7, <4>1, <4>3, <4>4 DEF NewAlone, At
    <3> QED BY <3>1, <3>2
  <2> QED BY <2>8, <2>9, <2>10, <2>11, <2>12, <2>13, <2>16 DEF FormInv
<1> QED BY <1>4, <1>5

LEMMA SaveOverlayKeeps ==
  ASSUME FormAssumption, FormInv, NEW e \in Editors, saveOverlay(e)
  PROVE  FormInv'
<1> DEFINE v == saving[e]
           o == v.next
<1>1. /\ v.at = "write" /\ overlay' = o /\ saving' = [saving EXCEPT ![e].at = "answer"]
      /\ blind' = [f \in Editors |-> blind[f] \/ f # e]
      /\ meant' = meant \union StoredOf(o)
      /\ UNCHANGED <<model, baseline, minted, edits, faults, touched>>
  BY DEF saveOverlay, At, StoredOf
<1>2. Counters /\ StoredFit /\ MeantDrawn /\ KeyMeansOne
  BY DEF FormInv
<1>3. \A f \in Editors : PagesFit(f) /\ SaveFit(f) /\ NewAlone(f) /\ ShowsStored(f)
  BY DEF FormInv
<1>4. /\ PageFit(v.sent) /\ AddedOf(v.sent) \subseteq meant /\ Built(v) /\ WellStored(o)
      /\ v = [at |-> v.at, sent |-> v.sent, next |-> v.next]
  BY <1>1, <1>3 DEF SaveFit, At, Built
<1>5. /\ OwnKeys(v) \subseteq Drawn(minted) /\ \A p \in meant : p[1] \notin OwnKeys(v)
      /\ \A f \in Editors \ {e} : saving[f].at = "write"
           => OwnKeys(v) \intersect OwnKeys(saving[f]) = {}
  BY <1>1, <1>3 DEF NewAlone, At
<1> DEFINE w == [at |-> "answer", sent |-> v.sent, next |-> v.next]
<1>6. /\ saving'[e] = w /\ \A f \in Editors \ {e} : saving'[f] = saving[f]
      /\ saving' = [f \in Editors |-> saving'[f]]
  <2>1. [v EXCEPT !.at = "answer"] = w
    BY <1>4
  <2>2. saving'[e] = [v EXCEPT !.at = "answer"]
    BY <1>1, <1>2 DEF Counters
  <2> QED BY <1>1, <1>2, <2>1, <2>2 DEF Counters
<1>7. Built(w)
  BY <1>4 DEF Built, OwnKeys
<1>8. w.at = "answer" /\ w.sent = v.sent /\ w.next = o
        /\ w = [at |-> w.at, sent |-> w.sent, next |-> w.next]
  OBVIOUS
<1>9. \A p \in StoredOf(o) : p \in meant \/ p[1] \in OwnKeys(v)
  BY <1>4 DEF OwnKeys
<1> HIDE DEF w, o, v
<1>10. Counters'
  <2>1. blind' \in [Editors -> BOOLEAN]
    BY <1>1, <1>2 DEF Counters
  <2> QED BY <1>1, <1>2, <1>6, <2>1 DEF Counters
<1>11. StoredFit'
  BY <1>1, <1>4 DEF StoredFit
<1>12. MeantDrawn'
  BY <1>1, <1>2, <1>5, <1>9 DEF MeantDrawn
<1>13. KeyMeansOne'
  <2>1. \A p, q \in StoredOf(o) : p[1] = q[1] => p = q
    BY <1>4, StoredFacts DEF StoredOf
  <2>2. ASSUME NEW p \in meant, NEW q \in StoredOf(o), p[1] = q[1] PROVE p = q
    <3>1. q \in meant
      BY <1>5, <1>9, <2>2
    <3> QED BY <1>2, <2>2, <3>1 DEF KeyMeansOne
  <2> SUFFICES ASSUME NEW p \in meant', NEW q \in meant', p[1] = q[1] PROVE p = q
    BY DEF KeyMeansOne
  <2>3. CASE p \in meant /\ q \in meant
    BY <1>2, <2>3 DEF KeyMeansOne
  <2>4. CASE p \in meant /\ q \in StoredOf(o)
    BY <2>2, <2>4
  <2>5. CASE p \in StoredOf(o) /\ q \in meant
    BY <2>2, <2>5
  <2>6. CASE p \in StoredOf(o) /\ q \in StoredOf(o)
    BY <2>1, <2>6
  <2> QED BY <1>1, <2>3, <2>4, <2>5, <2>6
<1>14. ASSUME NEW f \in Editors PROVE PagesFit(f)'
  BY <1>1, <1>3 DEF PagesFit
<1>15. ASSUME NEW f \in Editors PROVE SaveFit(f)'
  <2>1. CASE f = e
    <3>1. saving'[f] = w /\ meant \subseteq meant' /\ StoredOf(w.next) \subseteq meant'
      BY <1>1, <1>6, <1>8, <2>1
    <3> QED BY <1>4, <1>7, <1>8, <3>1 DEF SaveFit, At
  <2>2. CASE f # e
    BY <1>1, <1>3, <1>6, <2>2 DEF SaveFit, At
  <2> QED BY <2>1, <2>2
<1>16. ASSUME NEW f \in Editors PROVE NewAlone(f)'
  <2>1. CASE f = e
    BY <1>6, <1>8, <2>1 DEF NewAlone, At
  <2>2. CASE f # e
    <3> SUFFICES ASSUME saving[f].at = "write" PROVE NewAlone(f)'
      BY <1>6, <2>2 DEF NewAlone, At
    <3>1. /\ OwnKeys(saving[f]) \subseteq Drawn(minted)
               /\ \A p \in meant : p[1] \notin OwnKeys(saving[f])
          /\ \A g \in Editors \ {f} : saving[g].at = "write"
               => OwnKeys(saving[f]) \intersect OwnKeys(saving[g]) = {}
      BY <1>3 DEF NewAlone, At
    <3>2. \A p \in meant' : p[1] \notin OwnKeys(saving[f])
      BY <1>1, <1>5, <1>9, <2>2, <3>1
    <3>3. \A g \in Editors \ {f} : saving'[g].at = "write"
            => saving[g].at = "write" /\ saving'[g] = saving[g]
      BY <1>6, <1>8
    <3>4. saving'[f] = saving[f] /\ minted' = minted
      BY <1>1, <1>6, <2>2
    <3> QED BY <3>1, <3>2, <3>3, <3>4 DEF NewAlone, At
  <2> QED BY <2>1, <2>2
<1>17. ASSUME NEW f \in Editors PROVE ShowsStored(f)'
  <2>1. CASE f = e
    BY <1>1, <1>6, <1>8, <2>1 DEF ShowsStored, At
  <2>2. CASE f # e
    <3>1. blind'[f]
      BY <1>1, <2>2
    <3> QED BY <3>1 DEF ShowsStored
  <2> QED BY <2>1, <2>2
<1> QED BY <1>10, <1>11, <1>12, <1>13, <1>14, <1>15, <1>16, <1>17 DEF FormInv

LEMMA FormInvNext ==
  ASSUME FormAssumption, FormInv, [Next]_formVars
  PROVE  FormInv'
<1>1. CASE UNCHANGED formVars
  BY <1>1 DEF formVars, FormInv, Counters, StoredFit, MeantDrawn, KeyMeansOne, PagesFit, SaveFit,
              NewAlone, ShowsStored, At
<1>2. ASSUME NEW e \in Editors, Step(e) PROVE FormInv'
  <2>1. CASE \/ setLabel(e) \/ setRequired(e) \/ moveQuestion(e) \/ deleteQuestion(e)
             \/ restoreQuestion(e) \/ commitAdd(e)
    BY <2>1, EditKeeps
  <2>2. CASE Load(e)
    BY <2>2, LoadKeeps
  <2>3. CASE LoadFails(e)
    BY <2>3, LoadFailsKeeps
  <2>4. CASE discard(e)
    BY <2>4, DiscardKeeps
  <2>5. CASE onSave(e)
    BY <2>5, OnSaveKeeps
  <2>6. CASE BuildOnStored(e)
    <3>1. faults' \in 0..MaxFaults
      BY <2>6 DEF BuildOnStored, FormInv, Counters
    <3> QED BY <2>6, <3>1, BuildKeeps DEF BuildOnStored
  <2>7. CASE BuildUnread(e)
    <3>1. faults' \in 0..MaxFaults
      BY <2>7 DEF BuildUnread, Fault, FormInv, Counters, FormAssumption
    <3> QED BY <2>7, <3>1, BuildKeeps DEF BuildUnread
  <2>8. CASE saveOverlay(e)
    BY <2>8, SaveOverlayKeeps
  <2>9. CASE Answer(e)
    BY <2>9, AnswerKeeps
  <2>10. CASE SaveFails(e)
    BY <2>10, SaveFailsKeeps
  <2> QED BY <1>2, <2>1, <2>2, <2>3, <2>4, <2>5, <2>6, <2>7, <2>8, <2>9, <2>10 DEF Step
<1> QED BY <1>1, <1>2 DEF Next

LEMMA FormInvAlways == ASSUME FormAssumption PROVE Spec => []FormInv
<1>1. Init => FormInv
  BY FormInvInit
<1>2. FormInv /\ [Next]_formVars => FormInv'
  BY FormInvNext
<1> QED BY <1>1, <1>2, PTL DEF Spec

-----------------------------------------------------------------------------
(* What the invariant says of the form.                                    *)

LEMMA FormShape ==
  ASSUME FormAssumption, FormInv
  PROVE  TypeOK
<1>1. Counters /\ WellStored(overlay)
  BY DEF FormInv, StoredFit
<1>2. ASSUME NEW e \in Editors
      PROVE  /\ PageFit(model[e]) /\ saving[e].at \in {"no", "build", "write", "answer"}
             /\ \A s \in Steps : Range(model[e].steps[s]) \subseteq Question
  <2>1. PageFit(model[e]) /\ saving[e].at \in {"no", "build", "write", "answer"}
    BY DEF FormInv, PagesFit, SaveFit
  <2> QED BY <2>1, PageFacts DEF PageFit
<1>3. ASSUME NEW e \in Editors, NEW s \in Steps, NEW t \in Steps, NEW q \in Range(model[e].steps[s])
      PROVE  q.key \notin model[e].removed
               /\ (q.key # Fresh /\ q \in Range(model[e].steps[t]) => s = t)
  <2>1. Once(model[e]) /\ Editable(q, s, model[e])
    BY <1>2 DEF PageFit
  <2>2. ASSUME q.key # Fresh, q \in Range(model[e].steps[t]) PROVE s = t
    <3>1. PICK i \in DOMAIN model[e].steps[s] : q = model[e].steps[s][i]
      BY DEF Range
    <3>2. PICK j \in DOMAIN model[e].steps[t] : q = model[e].steps[t][j]
      BY <2>2 DEF Range
    <3> QED BY <2>1, <2>2, <3>1, <3>2 DEF Once
  <2> QED BY <2>1, <2>2 DEF Editable
<1>4. \A s \in Steps : IsInjective(overlay.order[s])
  BY <1>1, StoredFacts
<1>5. overlay.removed \subseteq Builtins /\ DOMAIN overlay.q \subseteq Builtins
  BY <1>1, StoredFacts
<1> QED BY <1>1, <1>2, <1>3, <1>4, <1>5 DEF TypeOK, Counters, At

\* A save is written by its own step.
LEMMA WriteStores ==
  ASSUME FormInv, [Next]_formVars, NEW e \in Editors, At(e, "write"), saving'[e].at = "answer"
  PROVE  overlay' = saving[e].next
<1>1. saving[e].at = "write" /\ Counters
  BY DEF At, FormInv
<1>2. ~UNCHANGED formVars
  BY <1>1 DEF formVars
<1>3. PICK f \in Editors : Step(f)
  BY <1>2 DEF Next
<1>4. \A v : saving' = [saving EXCEPT ![f] = v] => f = e /\ saving'[e] = v
  BY <1>1 DEF Counters
<1>5. saving' # saving
  BY <1>1
<1>6. saveOverlay(f)
  <2>1. ~Load(f) /\ ~LoadFails(f) /\ ~discard(f)
    BY <1>5 DEF Load, LoadFails, discard
  <2>2. ~setLabel(f) /\ ~setRequired(f) /\ ~moveQuestion(f) /\ ~deleteQuestion(f)
          /\ ~restoreQuestion(f)
        /\ ~commitAdd(f)
    <3>1. \A m, key : ~Mutate(f, m, key)
      BY <1>5 DEF Mutate
    <3> QED BY <3>1 DEF setLabel, setRequired, moveQuestion, deleteQuestion, restoreQuestion,
                    commitAdd
  <2>3. ~onSave(f)
    BY <1>1, <1>4 DEF onSave, At
  <2>4. \A prev : ~Build(f, prev)
    <3> SUFFICES ASSUME NEW prev, Build(f, prev) PROVE FALSE
      OBVIOUS
    <3>1. f = e
      BY <1>4 DEF Build
    <3> QED BY <1>1, <3>1 DEF Build, At
  <2>5. ~BuildOnStored(f) /\ ~BuildUnread(f)
    BY <2>4 DEF BuildOnStored, BuildUnread
  <2>6. ~Answer(f)
    BY <1>1, <1>4 DEF Answer, At, Rest
  <2>7. ~SaveFails(f)
    BY <1>1, <1>4 DEF SaveFails, Rest
  <2> QED BY <1>3, <2>1, <2>2, <2>3, <2>5, <2>6, <2>7 DEF Step
<1>7. f = e
  <2>1. f # e => saving'[e] = saving[e]
    BY <1>1, <1>6 DEF saveOverlay, Counters
  <2> QED BY <1>1, <2>1
<1> QED BY <1>6, <1>7 DEF saveOverlay

\* The bodies of the two action properties.
Untouched ==
  \A e \in Editors :
    At(e, "write") /\ saving'[e].at = "answer" /\ ~blind[e] =>
      \A k \in (Builtins \union {p[1] : p \in meant}) \ touched[e] : Asked(k, overlay')
        = Asked(k, overlay)

AsSeen ==
  \A e \in Editors :
    At(e, "write") /\ saving'[e].at = "answer" =>
      \A s \in Steps : AskedAs(overlay', s) = Seen(saving[e].sent, s)

LEMMA StepUntouched ==
  ASSUME FormAssumption, FormInv, [Next]_formVars
  PROVE  Untouched
<1> SUFFICES ASSUME NEW e \in Editors, At(e, "write"), saving'[e].at = "answer", ~blind[e],
                    NEW k \in (Builtins \union {p[1] : p \in meant}) \ touched[e]
             PROVE  Asked(k, overlay') = Asked(k, overlay)
  BY DEF Untouched
<1>1. overlay' = saving[e].next
  BY WriteStores
<1>2. Built(saving[e]) /\ OwnKeys(saving[e]) \subseteq Drawn(minted) /\ minted \in Nat
      /\ \A p \in meant : p[1] \notin OwnKeys(saving[e]) /\ p[1] \in Drawn(minted)
  BY DEF FormInv, SaveFit, NewAlone, MeantDrawn, Counters
<1>3. \A h \in Keys \ touched[e] : Shown(h, saving[e].sent) = Asked(h, overlay)
  BY DEF FormInv, ShowsStored
<1>4. Drawn(minted) \subseteq Range(CustomKeys) /\ \A h \in Range(CustomKeys) : h \notin Builtins
  BY <1>2, DrawnFacts, RegistryFacts
<1>5. k \in Keys \ touched[e] /\ k \notin OwnKeys(saving[e])
  <2>1. CASE k \in Builtins
    BY <1>2, <1>4, <2>1 DEF Keys
  <2>2. CASE k \in {p[1] : p \in meant}
    BY <1>2, <1>4, <2>2 DEF Keys
  <2> QED BY <2>1, <2>2
<1>6. Asked(k, saving[e].next) = Shown(k, saving[e].sent)
  BY <1>2, <1>5 DEF Built
<1> QED BY <1>1, <1>3, <1>5, <1>6

LEMMA StepAsSeen ==
  ASSUME FormInv, [Next]_formVars
  PROVE  AsSeen
<1> SUFFICES ASSUME NEW e \in Editors, At(e, "write"), saving'[e].at = "answer"
             PROVE  \A s \in Steps : AskedAs(overlay', s) = Seen(saving[e].sent, s)
  BY DEF AsSeen
<1>1. overlay' = saving[e].next
  BY WriteStores
<1>2. Built(saving[e])
  BY DEF FormInv, SaveFit
<1> QED BY <1>1, <1>2 DEF Built

-----------------------------------------------------------------------------
(* The theorems.                                                           *)

\* The shape of the form's state: a question stands in a page once, or is taken
\* out (form-config.ts stepEntries and buildOverlay, FormEditorPage.tsx).
THEOREM FormAlwaysTyped ==
  ASSUME FormAssumption
  PROVE  Spec => []TypeOK
<1>1. Spec => []FormInv
  BY FormInvAlways
<1>2. FormInv => TypeOK
  BY FormShape
<1> QED BY <1>1, <1>2, PTL

\* The submit checks demand an answer exactly to the questions the site shows as
\* required (form-config.ts effectiveRequired and validateExtra against
\* mergePublicModel).
THEOREM RequiredAlwaysShown ==
  ASSUME FormAssumption
  PROVE  Spec => []RequiredIsShown
<1>1. Spec => []FormInv
  BY FormInvAlways
<1>2. FormInv => RequiredIsShown
  BY RequiredOfStored DEF FormInv, StoredFit, RequiredIsShown
<1> QED BY <1>1, <1>2, PTL

\* The key of an added question keeps its type for ever (form-config.ts genId,
\* and saveConfig's check of types).
THEOREM KeyAlwaysMeansOne ==
  ASSUME FormAssumption
  PROVE  Spec => []KeyMeansOne
<1>1. Spec => []FormInv
  BY FormInvAlways
<1>2. FormInv => KeyMeansOne
  BY DEF FormInv
<1> QED BY <1>1, <1>2, PTL

\* A save from a page that shows what is stored changes, for visitors, only what
\* its editor touched (FormEditorPage.tsx onSave, form-config.ts buildOverlay).
THEOREM UntouchedAlwaysKept ==
  ASSUME FormAssumption
  PROVE  Spec => UntouchedKept
<1>1. Spec => []FormInv
  BY FormInvAlways
<1>2. FormInv /\ [Next]_formVars => Untouched
  BY StepUntouched
<1>3. UntouchedKept <=> [][Untouched]_formVars
  BY DEF UntouchedKept, Untouched
<1> QED BY <1>1, <1>2, <1>3, PTL DEF Spec

\* What a save stores is asked of visitors as its page showed it, in that order
\* (form-config.ts buildOverlay, then stepEntries and mergePublicModel).
THEOREM SavedAlwaysAsked ==
  ASSUME FormAssumption
  PROVE  Spec => SavedIsAsked
<1>1. Spec => []FormInv
  BY FormInvAlways
<1>2. FormInv /\ [Next]_formVars => AsSeen
  BY StepAsSeen
<1>3. SavedIsAsked <=> [][AsSeen]_formVars
  BY DEF SavedIsAsked, AsSeen, AskedAs
<1> QED BY <1>1, <1>2, <1>3, PTL DEF Spec

=============================================================================
