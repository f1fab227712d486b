--------------------------- MODULE SheetMirrorProofs ---------------------------
(*****************************************************************************)
(* Proofs about the write queue (WriteQueue) and about the mirror over it,   *)
(* for any documents, tabs, workers and failures: whatever the jobs do       *)
(* between two of their calls, they leave the queue to its own rules, and    *)
(* jobs, tabs and database keep the shapes TypeOK states. The last rests on  *)
(* the invariant SheetInv: a job only calls for tabs that exist, the places  *)
(* it found are rows of theirs, a header's label stands in row 1 alone, and  *)
(* no line is newer than the edits made.                                     *)
(*                                                                           *)
(* The second half is about the queue alone (Alone: no scheduled pass, no    *)
(* rewrite asked for, the link left on): whatever fails, whatever is edited  *)
(* meanwhile and wherever the process dies, the tabs stay aligned, drift is  *)
(* accounted for, and what is shown neither disappears nor gets older but by *)
(* a rewrite that has a tab cleared. It rests on the invariant AloneInv,     *)
(* which says of each phase of a flush what its job may rely on.             *)
(*****************************************************************************)
EXTENDS SheetMirror, FiniteSetTheorems, SequenceTheorems, WellFoundedInduction, NaturalsInduction,
        TLAPS

-------------------------------------------------------------------------------
(* The abstract queue, for any set of documents.                             *)

(* The sets hold ids of the form's documents and the flags are flags.        *)
THEOREM QueueTypes == QueueSpec => []QueueTypeOK
<1>1. ASSUME QueueInit PROVE QueueTypeOK
  BY <1>1 DEF QueueInit, QueueTypeOK, NoBatch
<1>2. QueueTypeOK /\ [QueueNext]_queueVars => QueueTypeOK'
  <2> SUFFICES ASSUME QueueTypeOK, [QueueNext]_queueVars PROVE QueueTypeOK'
    OBVIOUS
  <2> USE DEF QueueTypeOK
  <2>1. ASSUME NEW id \in Ids, QueueUpserts({id}) PROVE QueueTypeOK'
    BY <2>1 DEF QueueUpserts
  <2>2. ASSUME NEW id \in Ids, QueueDeletes({id}) PROVE QueueTypeOK'
    BY <2>2 DEF QueueDeletes
  <2>3. CASE FlushDefers
    BY <2>3 DEF FlushDefers
  <2>4. CASE FlushTakes
    BY <2>4 DEF FlushTakes
  <2>5. CASE FlushEnds
    BY <2>5 DEF FlushEnds, NoBatch
  <2>6. CASE QueueLost
    BY <2>6 DEF QueueLost, NoBatch
  <2>7. CASE UNCHANGED queueVars
    BY <2>7 DEF queueVars
  <2> QED
    BY <2>1, <2>2, <2>3, <2>4, <2>5, <2>6, <2>7 DEF QueueNext
<1> QED
  BY <1>1, <1>2, PTL DEF QueueSpec

(* The last thing asked for a document wins, in the queue and in the burst   *)
(* taken from it.                                                            *)
THEOREM OneIntentionAlways == QueueSpec => []OneIntention
<1>1. QueueInit => OneIntention
  BY DEF QueueInit, OneIntention, NoBatch
<1>2. OneIntention /\ [QueueNext]_queueVars => OneIntention'
  <2> SUFFICES ASSUME OneIntention, [QueueNext]_queueVars PROVE OneIntention'
    OBVIOUS
  <2> USE DEF OneIntention
  <2>1. ASSUME NEW id \in Ids, QueueUpserts({id}) PROVE OneIntention'
    BY <2>1 DEF QueueUpserts
  <2>2. ASSUME NEW id \in Ids, QueueDeletes({id}) PROVE OneIntention'
    BY <2>2 DEF QueueDeletes
  <2>3. CASE FlushDefers
    BY <2>3 DEF FlushDefers
  <2>4. CASE FlushTakes
    BY <2>4 DEF FlushTakes
  <2>5. CASE FlushEnds
    BY <2>5 DEF FlushEnds, NoBatch
  <2>6. CASE QueueLost
    BY <2>6 DEF QueueLost, NoBatch
  <2>7. CASE UNCHANGED queueVars
    BY <2>7 DEF queueVars
  <2> QED
    BY <2>1, <2>2, <2>3, <2>4, <2>5, <2>6, <2>7 DEF QueueNext
<1> QED
  BY <1>1, <1>2, PTL DEF QueueSpec

(* No burst is stranded: a timer is armed exactly while something waits.     *)
THEOREM PendingIsArmedAlways == QueueSpec => []PendingIsArmed
<1>1. QueueInit => PendingIsArmed
  BY DEF QueueInit, PendingIsArmed, Pending
<1>2. PendingIsArmed /\ [QueueNext]_queueVars => PendingIsArmed'
  <2> SUFFICES ASSUME PendingIsArmed, [QueueNext]_queueVars PROVE PendingIsArmed'
    OBVIOUS
  <2> USE DEF PendingIsArmed, Pending
  <2>1. ASSUME NEW id \in Ids, QueueUpserts({id}) PROVE PendingIsArmed'
    BY <2>1 DEF QueueUpserts
  <2>2. ASSUME NEW id \in Ids, QueueDeletes({id}) PROVE PendingIsArmed'
    BY <2>2 DEF QueueDeletes
  <2>3. CASE FlushDefers
    BY <2>3 DEF FlushDefers
  <2>4. CASE FlushTakes
    BY <2>4 DEF FlushTakes
  <2>5. CASE FlushEnds
    BY <2>5 DEF FlushEnds
  <2>6. CASE QueueLost
    BY <2>6 DEF QueueLost
  <2>7. CASE UNCHANGED queueVars
    BY <2>7 DEF queueVars
  <2> QED
    BY <2>1, <2>2, <2>3, <2>4, <2>5, <2>6, <2>7 DEF QueueNext
<1> QED
  BY <1>1, <1>2, PTL DEF QueueSpec

(* A flush in flight holds a burst, and only then is one held.               *)
THEOREM TakenIsInFlightAlways == QueueSpec => []TakenIsInFlight
<1>1. QueueInit => TakenIsInFlight
  BY DEF QueueInit, TakenIsInFlight, Taken, NoBatch
<1>2. TakenIsInFlight /\ [QueueNext]_queueVars => TakenIsInFlight'
  <2> SUFFICES ASSUME TakenIsInFlight, [QueueNext]_queueVars PROVE TakenIsInFlight'
    OBVIOUS
  <2> USE DEF TakenIsInFlight, Taken
  <2>1. ASSUME NEW id \in Ids, QueueUpserts({id}) PROVE TakenIsInFlight'
    BY <2>1 DEF QueueUpserts
  <2>2. ASSUME NEW id \in Ids, QueueDeletes({id}) PROVE TakenIsInFlight'
    BY <2>2 DEF QueueDeletes
  <2>3. CASE FlushDefers
    BY <2>3 DEF FlushDefers
  <2>4. CASE FlushTakes
    BY <2>4 DEF FlushTakes, Pending
  <2>5. CASE FlushEnds
    BY <2>5 DEF FlushEnds, NoBatch
  <2>6. CASE QueueLost
    BY <2>6 DEF QueueLost, NoBatch
  <2>7. CASE UNCHANGED queueVars
    BY <2>7 DEF queueVars
  <2> QED
    BY <2>1, <2>2, <2>3, <2>4, <2>5, <2>6, <2>7 DEF QueueNext
<1> QED
  BY <1>1, <1>2, PTL DEF QueueSpec

-------------------------------------------------------------------------------
(* The mirror over it.                                                       *)

(* Between its calls a job touches the queue only by ending a flush.         *)
LEMMA ProceedsOrEnds ==
    ASSUME NEW w, NEW j, Proceeds(w, j)
    PROVE  FlushEnds \/ UNCHANGED queueVars
BY DEF Proceeds, Continues, Ends

LEMMA JobStepQueue ==
    ASSUME NEW w, JobStep(w)
    PROVE  FlushEnds \/ UNCHANGED queueVars
<1>1. CASE Context(w)
  BY <1>1, ProceedsOrEnds DEF Context
<1>2. CASE Fetch(w)
  BY <1>2, ProceedsOrEnds DEF Fetch
<1>3. CASE CreateTab(w)
  BY <1>3, ProceedsOrEnds DEF CreateTab
<1>4. CASE WriteHeader(w)
  BY <1>4, ProceedsOrEnds DEF WriteHeader
<1>5. CASE CheckHeader(w)
  BY <1>5, ProceedsOrEnds DEF CheckHeader
<1>6. CASE Scan(w)
  BY <1>6, ProceedsOrEnds DEF Scan
<1>7. CASE Update(w)
  BY <1>7, ProceedsOrEnds DEF Update
<1>8. CASE AppendRows(w)
  BY <1>8, ProceedsOrEnds DEF AppendRows
<1>9. CASE Drop(w)
  BY <1>9, ProceedsOrEnds DEF Drop
<1>10. CASE Clear(w)
  BY <1>10, ProceedsOrEnds DEF Clear
<1>11. CASE Write(w)
  BY <1>11, ProceedsOrEnds DEF Write
<1> QED
  BY <1>1, <1>2, <1>3, <1>4, <1>5, <1>6, <1>7, <1>8, <1>9, <1>10, <1>11 DEF JobStep

(* A saved document queues exactly its own id.                               *)
LEMMA SaveQueues == SaveDocument => \E id \in Ids : QueueUpserts({id}) \/ QueueDeletes({id})
BY DEF SaveDocument, Delete, Submit, Edit

LEMMA StepIsQueueStep == [Next]_vars => [QueueNext]_queueVars
<1> SUFFICES ASSUME [Next]_vars PROVE QueueNext \/ UNCHANGED queueVars
  OBVIOUS
<1>1. ASSUME NEW w \in Workers, JobStep(w) PROVE QueueNext \/ UNCHANGED queueVars
  BY <1>1, JobStepQueue DEF QueueNext
<1>2. CASE StartBatch
  BY <1>2 DEF StartBatch, QueueNext
<1>3. CASE FlushDefers
  BY <1>3 DEF QueueNext
<1>4. CASE StartReconcile
  BY <1>4 DEF StartReconcile
<1>5. CASE StartResync
  BY <1>5 DEF StartResync
<1>6. CASE SaveDocument
  BY <1>6, SaveQueues DEF QueueNext
<1>7. ASSUME NEW t \in Seasons, DeleteSeason(t) PROVE UNCHANGED queueVars
  BY <1>7 DEF DeleteSeason
<1>8. CASE SetEnabled
  BY <1>8 DEF SetEnabled
<1>9. CASE Restart
  BY <1>9 DEF Restart, QueueNext
<1>10. CASE UNCHANGED vars
  BY <1>10 DEF vars
<1> QED
  BY <1>1, <1>2, <1>3, <1>4, <1>5, <1>6, <1>7, <1>8, <1>9, <1>10 DEF Next

(* The mirror implements the abstract queue: every hook, flush, failure and  *)
(* restart is a step of it or leaves it alone.                               *)
THEOREM MirrorKeepsQueue == Spec => QueueSpec
<1>1. Init => QueueInit
  BY DEF Init
<1> QED
  BY <1>1, StepIsQueueStep, PTL DEF Spec, QueueSpec

(* In the mirror too the last thing asked for a document wins.               *)
THEOREM MirrorOneIntention == Spec => []OneIntention
BY MirrorKeepsQueue, OneIntentionAlways, PTL

(* In the mirror too no burst is stranded, whatever a flush meets.           *)
THEOREM MirrorPendingIsArmed == Spec => []PendingIsArmed
BY MirrorKeepsQueue, PendingIsArmedAlways, PTL

-------------------------------------------------------------------------------
(* Numbers.                                                                  *)

LEMMA LeastOf ==
    ASSUME NEW S \in SUBSET Nat, S # {}
    PROVE  \E n \in S : \A m \in S : n <= m
<1> DEFINE R == OpToRel(<, Nat)
<1>1. IsWellFoundedOn(R, Nat)
  BY NatLessThanWellFounded
<1>2. \A x, y \in Nat : x < y => <<x, y>> \in R
  BY DEF OpToRel
<1> HIDE DEF R
<1>3. PICK n \in S : \A m \in S : ~(<<m, n>> \in R)
  BY <1>1, WFMin
<1>4. ASSUME NEW m \in S  PROVE n <= m
  <2>1. n \in Nat /\ m \in Nat
    OBVIOUS
  <2>2. ~(m < n)
    BY <1>2, <1>3, <2>1
  <2> QED
    BY <2>1, <2>2
<1> QED
  BY <1>4

(* A set of numbers below a bound has a greatest one.                        *)
LEMMA GreatestBelow ==
    ASSUME NEW S \in SUBSET Nat, S # {}, NEW b \in Nat, \A m \in S : m <= b
    PROVE  \E n \in S : \A m \in S : m <= n
<1> DEFINE T == {b - m : m \in S}
<1>1. T \in SUBSET Nat /\ T # {}
  <2>1. \A m \in S : m \in Nat /\ b - m \in Nat
    OBVIOUS
  <2> QED
    BY <2>1
<1>2. PICK t \in T : \A u \in T : t <= u
  BY <1>1, LeastOf
<1>3. PICK n \in S : t = b - n
  OBVIOUS
<1>4. ASSUME NEW m \in S  PROVE m <= n
  <2>1. n \in Nat /\ m \in Nat
    OBVIOUS
  <2>2. b - n <= b - m
    BY <1>2, <1>3
  <2> QED
    BY <2>1, <2>2
<1> QED
  BY <1>4

-------------------------------------------------------------------------------
(* Lines.                                                                    *)

LEMMA SequenceOf ==
    ASSUME NEW S, NEW n \in Nat, NEW f \in [1 .. n -> S]
    PROVE  f \in Seq(S) /\ Len(f) = n /\ DOMAIN f = 1 .. n
<1>1. f \in Seq(S) /\ DOMAIN f = 1 .. n
  BY IsASeq
<1>2. Len(f) \in Nat /\ DOMAIN f = 1 .. Len(f)
  BY <1>1, LenProperties
<1> QED
  BY <1>1, <1>2

(* The k-th of a set of numbers.                                             *)
Nth(kept, k) == CHOOSE r \in kept : Cardinality({s \in kept : s <= r}) = k

LEMMA NthCounts ==
    ASSUME NEW n \in Nat, NEW kept \in SUBSET (1 .. n)
    PROVE  /\ Cardinality(kept) \in Nat
           /\ \A k \in 1 .. Cardinality(kept) : Nth(kept, k) \in kept
           /\ \A i, j \in 1 .. Cardinality(kept) : i < j => Nth(kept, i) < Nth(kept, j)
           /\ \A r \in kept : \E k \in 1 .. Cardinality(kept) : Nth(kept, k) = r
<1> DEFINE N == Cardinality(kept)
           Upto(r) == {s \in kept : s <= r}
           Rank1 == [r \in kept |-> Cardinality(Upto(r))]
<1>1. IsFiniteSet(kept) /\ N \in Nat
  <2>1. IsFiniteSet(1 .. n)
    BY FS_Interval
  <2>2. IsFiniteSet(kept)
    BY <2>1, FS_Subset
  <2> QED
    BY <2>2, FS_CardinalityType
<1>2. \A r \in kept : r \in Nat
  OBVIOUS
<1>3. \A r \in kept : /\ IsFiniteSet(Upto(r)) /\ Cardinality(Upto(r)) \in Nat
                      /\ Cardinality(Upto(r)) <= N /\ Cardinality(Upto(r)) # 0
  <2> TAKE r \in kept
  <2>1. Upto(r) \in SUBSET kept /\ r \in Upto(r)
    BY <1>2
  <2>2. IsFiniteSet(Upto(r)) /\ Cardinality(Upto(r)) <= N /\ Cardinality(Upto(r)) \in Nat
    BY <1>1, <2>1, FS_Subset, FS_CardinalityType
  <2>3. Cardinality(Upto(r)) # 0
    BY <2>1, <2>2, FS_EmptySet
  <2> QED
    BY <2>2, <2>3
<1>4. ASSUME NEW r \in kept, NEW s \in kept, r < s
      PROVE  Cardinality(Upto(r)) < Cardinality(Upto(s))
  <2>1. Upto(r) \in SUBSET Upto(s) /\ s \in Upto(s) /\ s \notin Upto(r)
    <3>1. r \in Nat /\ s \in Nat
      BY <1>2
    <3>2. \A t \in kept : t <= r => t <= s
      BY <1>2, <1>4, <3>1
    <3>3. ~(s <= r) /\ s <= s
      BY <1>4, <3>1
    <3> QED
      BY <3>2, <3>3
  <2>2. Cardinality(Upto(r)) <= Cardinality(Upto(s)) /\ Cardinality(Upto(r)) # Cardinality(Upto(s))
    <3> HIDE DEF Upto
    <3> QED
      BY <1>3, <2>1, FS_Subset
  <2> QED
    BY <1>3, <2>2
<1> HIDE DEF Upto
<1>5. \A r \in kept : Rank1[r] \in 1 .. N
  BY <1>1, <1>3
<1>6. \A r, s \in kept : Rank1[r] = Rank1[s] => r = s
  <2> SUFFICES ASSUME NEW r \in kept, NEW s \in kept, r # s  PROVE Rank1[r] # Rank1[s]
    OBVIOUS
  <2>1. r < s \/ s < r
    BY <1>2
  <2>2. CASE r < s
    BY <1>3, <1>4, <2>2
  <2>3. CASE s < r
    BY <1>3, <1>4, <2>3
  <2> QED
    BY <2>1, <2>2, <2>3
<1>7. \A k \in 1 .. N : \E r \in kept : Cardinality(Upto(r)) = k
  <2>1. Rank1 \in Injection(kept, 1 .. N)
    BY <1>5, <1>6 DEF Injection, IsInjective
  <2>2. IsFiniteSet(1 .. N) /\ Cardinality(1 .. N) = N
    BY <1>1, FS_Interval
  <2>3. Rank1 \in Surjection(kept, 1 .. N)
    BY <2>1, <2>2, FS_Injection
  <2> QED
    BY <2>3 DEF Surjection
<1>8. \A k \in 1 .. N : Nth(kept, k) \in kept /\ Cardinality(Upto(Nth(kept, k))) = k
  BY <1>7 DEF Nth, Upto
<1>9. ASSUME NEW i \in 1 .. N, NEW j \in 1 .. N, i < j
      PROVE  Nth(kept, i) < Nth(kept, j)
  <2> DEFINE a == Nth(kept, i)
             b == Nth(kept, j)
  <2>1. a \in kept /\ b \in kept /\ Cardinality(Upto(a)) = i /\ Cardinality(Upto(b)) = j
    BY <1>8
  <2> HIDE DEF a, b
  <2>2. a # b
    BY <1>1, <1>9, <2>1
  <2>3. ~(b < a)
    <3> SUFFICES ASSUME b < a  PROVE FALSE
      OBVIOUS
    <3>1. j < i
      BY <1>4, <2>1
    <3> QED
      BY <1>1, <1>9, <3>1
  <2>4. a < b
    BY <1>2, <2>1, <2>2, <2>3
  <2> QED
    BY <2>4 DEF a, b
<1>10. ASSUME NEW r \in kept  PROVE \E k \in 1 .. N : Nth(kept, k) = r
  <2>1. PICK k \in 1 .. N : k = Cardinality(Upto(r))
    BY <1>5
  <2>2. Nth(kept, k) \in kept /\ Cardinality(Upto(Nth(kept, k))) = k
    BY <1>8
  <2>3. Rank1[Nth(kept, k)] = Rank1[r]
    BY <2>1, <2>2
  <2> QED
    BY <1>6, <2>2, <2>3
<1> QED
  BY <1>1, <1>8, <1>9, <1>10

(* The lines kept: each is there, and nothing else is.                       *)
LeftOver(new, lines, kept) ==
    /\ \A k \in DOMAIN new : \E r \in kept : r = Nth(kept, k) /\ new[k] = lines[r]
    /\ \A r \in kept : \E k \in DOMAIN new : r = Nth(kept, k) /\ new[k] = lines[r]

(* Rows deleted below the first: the others close up, the first one stays.   *)
LEMMA WithoutLines ==
    ASSUME NEW S, NEW lines \in Seq(S), NEW rows, NEW kept, kept = DOMAIN lines \ rows
    PROVE  /\ Without(lines, rows) \in Seq(S)
           /\ Len(Without(lines, rows)) = Cardinality(kept)
           /\ LeftOver(Without(lines, rows), lines, kept)
           /\ \A i, j \in DOMAIN Without(lines, rows) :
                i < j => Nth(kept, i) < Nth(kept, j)
<1> DEFINE N == Cardinality(kept)
           W == [k \in 1 .. N |-> lines[Nth(kept, k)]]
<1>1. Len(lines) \in Nat /\ DOMAIN lines = 1 .. Len(lines)
  BY LenProperties
<1>2. kept \in SUBSET (1 .. Len(lines))
  BY <1>1
<1>3. /\ N \in Nat
      /\ \A k \in 1 .. N : Nth(kept, k) \in kept
      /\ \A i, j \in 1 .. N : i < j => Nth(kept, i) < Nth(kept, j)
      /\ \A r \in kept : \E k \in 1 .. N : Nth(kept, k) = r
  BY <1>1, <1>2, NthCounts
<1>4. Without(lines, rows) = W
  BY DEF Without, Nth
<1>5. W \in [1 .. N -> S]
  <2>1. \A r \in kept : lines[r] \in S
    BY <1>1, ElementOfSeq
  <2> HIDE DEF N
  <2> QED
    BY <1>3, <2>1
<1>9. \A k \in 1 .. N : W[k] = lines[Nth(kept, k)]
  OBVIOUS
<1> HIDE DEF N
<1>6. W \in Seq(S) /\ Len(W) = N /\ DOMAIN W = 1 .. N
  <2> HIDE DEF W
  <2> QED
    BY <1>3, <1>5, SequenceOf
<1>7. \A k \in DOMAIN W : \E r \in kept : r = Nth(kept, k) /\ W[k] = lines[r]
  BY <1>3, <1>6, <1>9
<1>8. \A r \in kept : \E k \in DOMAIN W : Nth(kept, k) = r /\ W[k] = lines[r]
  BY <1>3, <1>6, <1>9
<1> HIDE DEF W
<1> QED
  BY <1>3, <1>4, <1>6, <1>7, <1>8 DEF N, LeftOver

(* Lines written from row 1 on.                                              *)
LEMMA OverlaidLines ==
    ASSUME NEW S, NEW lines \in Seq(S), NEW new \in Seq(S)
    PROVE  /\ Overlay(lines, 1, new) \in Seq(S)
           /\ Len(Overlay(lines, 1, new)) = IF Len(lines) < Len(new) THEN Len(new) ELSE Len(lines)
           /\ \A r \in DOMAIN Overlay(lines, 1, new) :
                Overlay(lines, 1, new)[r] = IF r <= Len(new) THEN new[r] ELSE lines[r]
<1> DEFINE n == IF Len(lines) < Len(new) THEN Len(new) ELSE Len(lines)
           F == [r \in 1 .. n |-> IF r <= Len(new) THEN new[r] ELSE lines[r]]
<1>1. Len(lines) \in Nat /\ Len(new) \in Nat
  BY LenProperties
<1>2. n \in Nat
  BY <1>1
<1>3. Overlay(lines, 1, new) = F
  <2> DEFINE m == IF Len(lines) < 1 + Len(new) - 1 THEN 1 + Len(new) - 1 ELSE Len(lines)
             G == [r \in 1 .. m |-> IF r \in 1 .. (1 + Len(new) - 1) THEN new[r - 1 + 1]
                                   ELSE IF r <= Len(lines) THEN lines[r] ELSE Blank]
  <2>1. Overlay(lines, 1, new) = G
    BY DEF Overlay
  <2>2. m = n
    BY <1>1
  <2>3. \A r \in 1 .. n : G[r] = F[r]
    <3> SUFFICES ASSUME NEW r \in 1 .. n  PROVE G[r] = F[r]
      OBVIOUS
    <3>1. r \in Nat /\ 1 <= r /\ r <= n /\ r - 1 + 1 = r
      BY <1>2
    <3>2. 1 + Len(new) - 1 = Len(new)
      BY <1>1
    <3>3. CASE r <= Len(new)
      <4>1. r \in 1 .. (1 + Len(new) - 1)
        BY <1>1, <3>1, <3>2, <3>3
      <4> QED
        BY <2>2, <3>1, <3>3, <4>1
    <3>4. CASE ~(r <= Len(new))
      <4>1. r \notin 1 .. (1 + Len(new) - 1) /\ r <= Len(lines)
        BY <1>1, <3>1, <3>2, <3>4
      <4> QED
        BY <2>2, <3>4, <4>1
    <3> QED
      BY <3>3, <3>4
  <2>4. DOMAIN G = DOMAIN F
    BY <2>2
  <2> QED
    BY <2>1, <2>2, <2>3, <2>4
<1>4. F \in [1 .. n -> S]
  <2> SUFFICES ASSUME NEW r \in 1 .. n
               PROVE  (IF r <= Len(new) THEN new[r] ELSE lines[r]) \in S
    OBVIOUS
  <2>1. r <= Len(new) => r \in 1 .. Len(new)
    BY <1>1, <1>2
  <2>2. ~(r <= Len(new)) => r \in 1 .. Len(lines)
    BY <1>1, <1>2
  <2> QED
    BY <2>1, <2>2, ElementOfSeq
<1>5. \A r \in 1 .. n : F[r] = IF r <= Len(new) THEN new[r] ELSE lines[r]
  OBVIOUS
<1> HIDE DEF F
<1>6. F \in Seq(S) /\ Len(F) = n /\ DOMAIN F = 1 .. n
  <2> HIDE DEF n
  <2> QED
    BY <1>2, <1>4, SequenceOf
<1> QED
  BY <1>3, <1>5, <1>6

(* Where values.append puts its rows: after the last line before a blank one. *)
TableEnd(lines) ==
    LET table == {r \in 0 .. Len(lines) : \A s \in 1 .. r : lines[s] # Blank}
    IN  CHOOSE r \in table : \A s \in table : s <= r

LEMMA TableEnds ==
    ASSUME NEW S, NEW lines \in Seq(S)
    PROVE  /\ TableEnd(lines) \in 0 .. Len(lines)
           /\ lines # <<>> /\ lines[1] # Blank => TableEnd(lines) >= 1
           /\ (\A s \in 1 .. Len(lines) : lines[s] # Blank) => TableEnd(lines) = Len(lines)
           /\ TableEnd(lines) = 0 => lines = <<>> \/ lines[1] = Blank
<1> DEFINE table == {r \in 0 .. Len(lines) : \A s \in 1 .. r : lines[s] # Blank}
<1>1. Len(lines) \in Nat
  BY LenProperties
<1>2. table \in SUBSET Nat /\ 0 \in table /\ \A m \in table : m <= Len(lines)
  <2>1. 0 \in 0 .. Len(lines) /\ 1 .. 0 = {}
    BY <1>1
  <2> QED
    BY <1>1, <2>1
<1>3. \E n \in table : \A m \in table : m <= n
  <2> HIDE DEF table
  <2> QED
    BY <1>1, <1>2, GreatestBelow
<1>4. /\ TableEnd(lines) \in table /\ \A s \in table : s <= TableEnd(lines)
  BY <1>3 DEF TableEnd
<1>5. lines # <<>> => Len(lines) >= 1
  BY <1>1, EmptySeq
<1>6. ASSUME lines # <<>>, lines[1] # Blank  PROVE TableEnd(lines) >= 1
  <2>1. 1 \in 0 .. Len(lines) /\ \A s \in 1 .. 1 : s = 1
    BY <1>1, <1>5, <1>6
  <2>2. 1 \in table
    BY <1>6, <2>1
  <2> QED
    BY <1>4, <2>2
<1>7. ASSUME \A s \in 1 .. Len(lines) : lines[s] # Blank  PROVE TableEnd(lines) = Len(lines)
  <2>1. Len(lines) \in table
    BY <1>1, <1>7
  <2>2. Len(lines) <= TableEnd(lines) /\ TableEnd(lines) \in 0 .. Len(lines)
    BY <1>4, <2>1
  <2> QED
    BY <1>1, <2>2
<1> QED
  BY <1>4, <1>6, <1>7

LEMMA AppendedLines ==
    ASSUME NEW S, NEW lines \in Seq(S), NEW new \in Seq(S)
    PROVE  /\ Appended(lines, new) \in Seq(S)
           /\ Len(Appended(lines, new)) = Len(lines) + Len(new)
           /\ \A r \in 1 .. (Len(lines) + Len(new)) :
                Appended(lines, new)[r] =
                  IF r <= TableEnd(lines) THEN lines[r]
                  ELSE IF r <= TableEnd(lines) + Len(new) THEN new[r - TableEnd(lines)]
                  ELSE lines[r - Len(new)]
<1> DEFINE e == TableEnd(lines)
           u == SubSeq(lines, 1, e)
           v == SubSeq(lines, e + 1, Len(lines))
           w == u \o new
<1>1. /\ Len(lines) \in Nat /\ Len(new) \in Nat
      /\ e \in 0 .. Len(lines)
  BY LenProperties, TableEnds
<1>2. Appended(lines, new) = w \o v
  BY DEF Appended, TableEnd
<1> HIDE DEF e
<1>3. /\ u \in Seq(S) /\ Len(u) = e
      /\ \A r \in 1 .. e : u[r] = lines[r]
  BY <1>1, SubSeqProperties
<1>4. /\ v \in Seq(S) /\ Len(v) = Len(lines) - e
      /\ \A r \in 1 .. (Len(lines) - e) : v[r] = lines[e + r]
  BY <1>1, SubSeqProperties
<1> HIDE DEF u, v
<1>5. /\ w \in Seq(S) /\ Len(w) = e + Len(new)
      /\ \A r \in 1 .. (e + Len(new)) : w[r] = IF r <= e THEN u[r] ELSE new[r - e]
  BY <1>3, ConcatProperties
<1> HIDE DEF w
<1>6. /\ w \o v \in Seq(S) /\ Len(w \o v) = Len(w) + Len(v)
      /\ \A r \in 1 .. (Len(w) + Len(v)) : (w \o v)[r] = IF r <= Len(w) THEN w[r] ELSE v[r - Len(w)]
  BY <1>4, <1>5, ConcatProperties
<1>7. Len(w) + Len(v) = Len(lines) + Len(new)
  BY <1>1, <1>4, <1>5
<1>8. ASSUME NEW r \in 1 .. (Len(lines) + Len(new))
      PROVE  (w \o v)[r] = IF r <= e THEN lines[r] ELSE IF r <= e + Len(new) THEN new[r - e]
                           ELSE lines[r - Len(new)]
  <2>1. (w \o v)[r] = IF r <= e + Len(new) THEN w[r] ELSE v[r - (e + Len(new))]
    BY <1>5, <1>6, <1>7
  <2>2. r \in Nat /\ 1 <= r /\ e \in Nat
    BY <1>1
  <2>3. CASE r <= e
    BY <1>1, <1>3, <1>5, <2>1, <2>2, <2>3
  <2>4. CASE ~(r <= e) /\ r <= e + Len(new)
    BY <1>1, <1>5, <2>1, <2>2, <2>4
  <2>5. CASE ~(r <= e) /\ ~(r <= e + Len(new))
    <3>1. r - (e + Len(new)) \in 1 .. (Len(lines) - e) /\ e + (r - (e + Len(new))) = r - Len(new)
      BY <1>1, <2>2, <2>5
    <3> QED
      BY <1>4, <2>1, <2>5, <3>1
  <2> QED
    BY <2>3, <2>4, <2>5
<1> QED
  BY <1>2, <1>6, <1>7, <1>8 DEF e

(* The rows of a set of documents: each once.                                *)
LEMMA RowsOnce ==
    ASSUME NEW j, NEW ids \in SUBSET Ids
    PROVE  /\ \A S : (\A id \in ids : RowOf(j, id) \in S) => RowsOf(j, ids) \in Seq(S)
           /\ Len(RowsOf(j, ids)) = Cardinality(ids)
           /\ DOMAIN RowsOf(j, ids) = 1 .. Cardinality(ids) /\ Cardinality(ids) \in Nat
           /\ \A k \in DOMAIN RowsOf(j, ids) : \E id \in ids : RowsOf(j, ids)[k] = RowOf(j, id)
           /\ \A id \in ids : \E k \in DOMAIN RowsOf(j, ids) : RowsOf(j, ids)[k] = RowOf(j, id)
           /\ \A k, m \in DOMAIN RowsOf(j, ids) :
                RowsOf(j, ids)[k].id = RowsOf(j, ids)[m].id => k = m
<1> DEFINE n == Cardinality(ids)
           s == SetToSeq(ids)
<1>1. IsFiniteSet(ids) /\ n \in Nat /\ ExistsBijection(1 .. n, ids)
  BY MirrorAssumption, FS_Subset, FS_CardinalityType
<1>2. \E f \in [1 .. n -> ids] : IsInjective(f)
  BY <1>1 DEF ExistsBijection, Bijection, Injection
<1>3. s \in [1 .. n -> ids] /\ IsInjective(s)
  <2>1. s = CHOOSE f \in [1 .. n -> ids] : IsInjective(f)
    BY DEF SetToSeq
  <2> HIDE DEF s, n
  <2> QED
    BY <1>2, <2>1
<1>4. \A id \in ids : \E k \in 1 .. n : s[k] = id
  <2>1. IsFiniteSet(1 .. n) /\ Cardinality(1 .. n) = n
    BY <1>1, FS_Interval
  <2> HIDE DEF s
  <2>2. s \in Injection(1 .. n, ids)
    BY <1>3 DEF Injection
  <2>3. s \in Surjection(1 .. n, ids)
    BY <1>1, <2>1, <2>2, FS_Injection
  <2> QED
    BY <2>3 DEF Surjection
<1>5. RowsOf(j, ids) = [k \in 1 .. n |-> RowOf(j, s[k])]
  <2>1. RowsOf(j, ids) = [k \in DOMAIN s |-> RowOf(j, s[k])]
    BY DEF RowsOf
  <2> HIDE DEF s
  <2> QED
    BY <1>3, <2>1
<1> HIDE DEF s, n
<1>6. \A S : (\A id \in ids : RowOf(j, id) \in S) => RowsOf(j, ids) \in [1 .. n -> S]
  BY <1>3, <1>5
<1>7. \A S : (\A id \in ids : RowOf(j, id) \in S) => RowsOf(j, ids) \in Seq(S)
  BY <1>1, <1>6, SequenceOf
<1>8. Len(RowsOf(j, ids)) = n
  <2>1. RowsOf(j, ids) \in [1 .. n -> {RowOf(j, id) : id \in ids}]
    BY <1>6
  <2> QED
    BY <1>1, <2>1, SequenceOf
<1>9. \A k \in 1 .. n : /\ s[k] \in ids
                        /\ RowsOf(j, ids)[k] = RowOf(j, s[k])
                        /\ RowsOf(j, ids)[k].id = s[k]
  BY <1>3, <1>5 DEF RowOf
<1>10. \A k, m \in 1 .. n : s[k] = s[m] => k = m
  BY <1>3 DEF IsInjective
<1> QED
  BY <1>1, <1>4, <1>5, <1>7, <1>8, <1>9, <1>10 DEF n

-------------------------------------------------------------------------------
(* Types.                                                                    *)

(* The calls jobs make: some to one tab, the others to the file.             *)
Calls ==
    [kind : {"context", "fetch", "update"}, tab : {NoTab}]
        \cup [kind : {"header", "check", "scan", "append", "write", "clear", "drop"}, tab : Tabs]

Places == [id : Ids, tab : Tabs, row : Nat, ver : 0 .. MaxEdits]
SeasonDocs == {d \in Docs : d.live => d.season \in Seasons}

(* Places down to some row.                                                  *)
Bounded(places) == \E n \in Nat : \A p \in places : p.row <= n

(* Jobs over a file with the tabs T after n events, B what a rewrite cut     *)
(* into. A job has read places of tabs that exist, and calls only "append",  *)
(* "check" and "clear" for tabs that may not.                                *)
JobsOver(T, n, B) ==
    {j \in [op : Ops, todo : SUBSET Calls, known : Seq(Tabs), plans : [Tabs -> Layouts],
            docs : [Ids -> SeasonDocs], dels : SUBSET Ids, found : SUBSET Places, ok : BOOLEAN,
            back : B, met : BOOLEAN, since : {<<>>} \cup [{1} -> 0 .. n]] :
        /\ ToSet(j.known) \subseteq T
        /\ Bounded(j.found)
        /\ \A p \in j.found : p.tab \in T /\ p.row >= 2
        /\ \A c \in j.todo : c.kind \in {"header", "scan", "write", "drop"} => c.tab \in T
        /\ \A c \in j.todo : c.kind = "check" => j.op = "batch"
        /\ j.op # "resync" => j.back = <<>>}

CutInto(T, n) == {<<>>} \cup [{1} -> {b \in JobsOver(T, n, {<<>>}) : b.op = "batch"}]
Jobs(T, n) == JobsOver(T, n, CutInto(T, n))

(* A tab's lines: below row 1 there is no header.                            *)
Sheets == {L \in Seq(LineSet) : \A r \in DOMAIN L : r >= 2 => L[r].id # Label}

SheetInv ==
    /\ db \in [Ids -> SeasonDocs] /\ \A id \in Ids : db[id].ver <= edits
    /\ enabled \in BOOLEAN
    /\ tabs \in Seq(Tabs) /\ IsInjective(tabs)
    /\ grid \in [Tabs -> Sheets] /\ \A t \in Tabs \ ToSet(tabs) : grid[t] = <<>>
    /\ suspect \in SUBSET Ids
    /\ job \in [Workers -> Jobs(ToSet(tabs), Events)]
    /\ edits \in 0 .. MaxEdits /\ toggles \in 0 .. MaxToggles /\ faults \in 0 .. MaxFaults

(* What the calls write stays such a tab.                                    *)
LEMMA SheetLines ==
    ASSUME NEW L \in Sheets
    PROVE  /\ L \in Seq(LineSet) /\ Len(L) \in Nat /\ DOMAIN L = 1 .. Len(L)
           /\ \A r \in 1 .. Len(L) : L[r] \in LineSet /\ (r >= 2 => L[r].id # Label)
<1>1. L \in Seq(LineSet) /\ \A r \in DOMAIN L : r >= 2 => L[r].id # Label
  BY DEF Sheets
<1>2. Len(L) \in Nat /\ DOMAIN L = 1 .. Len(L)
  BY <1>1, LenProperties
<1> QED
  BY <1>1, <1>2, ElementOfSeq

LEMMA SheetOf ==
    ASSUME NEW L \in Seq(LineSet), NEW n, n = Len(L),
           \A r \in 1 .. n : r >= 2 => L[r].id # Label
    PROVE  L \in Sheets
BY LenProperties DEF Sheets

LEMMA EmptySheet == <<>> \in Sheets
<1>1. <<>> \in Seq(LineSet) /\ Len(<<>>) = 0
  BY EmptySeq
<1>2. 1 .. 0 = {}
  OBVIOUS
<1> QED
  BY <1>1, <1>2, SheetOf

LEMMA BlankLine == Blank \in LineSet /\ Blank.id # Label
<1>1. MaxEdits \in Nat
  BY MirrorAssumption
<1>2. 0 \in 0 .. MaxEdits
  BY <1>1
<1> QED
  BY <1>2, MirrorAssumption DEF Blank, LineSet, NoId, Label, Layouts

LEMMA OverlaidSheet ==
    ASSUME NEW L \in Sheets, NEW new \in Sheets
    PROVE  Overlay(L, 1, new) \in Sheets
<1> DEFINE o == Overlay(L, 1, new)
<1>1. /\ o \in Seq(LineSet)
      /\ Len(o) = IF Len(L) < Len(new) THEN Len(new) ELSE Len(L)
      /\ \A r \in DOMAIN o : o[r] = IF r <= Len(new) THEN new[r] ELSE L[r]
  BY SheetLines, OverlaidLines
<1>2. DOMAIN o = 1 .. Len(o) /\ Len(o) \in Nat
  BY <1>1, LenProperties
<1>3. ASSUME NEW r \in 1 .. Len(o), r >= 2  PROVE o[r].id # Label
  <2>1. Len(L) \in Nat /\ Len(new) \in Nat /\ r \in Nat /\ r <= Len(o)
    BY <1>2, SheetLines
  <2>2. CASE r <= Len(new)
    <3>1. r \in 1 .. Len(new)
      BY <2>1, <2>2
    <3> QED
      BY <1>1, <1>2, <1>3, <2>2, <3>1, SheetLines
  <2>3. CASE ~(r <= Len(new))
    <3>1. r \in 1 .. Len(L)
      BY <1>1, <2>1, <2>3
    <3> QED
      BY <1>1, <1>2, <1>3, <2>3, <3>1, SheetLines
  <2> QED
    BY <2>2, <2>3
<1> QED
  BY <1>1, <1>3, SheetOf

LEMMA AppendedSheet ==
    ASSUME NEW L \in Sheets, NEW new \in Seq(LineSet),
           \A r \in DOMAIN new : new[r].id # Label
    PROVE  Appended(L, new) \in Sheets
<1> DEFINE a == Appended(L, new)
<1>1. /\ Len(L) \in Nat /\ Len(new) \in Nat /\ DOMAIN new = 1 .. Len(new)
      /\ L \in Seq(LineSet)
  BY SheetLines, LenProperties
<1>2. PICK e : e = TableEnd(L)
  OBVIOUS
<1>3. /\ e \in 0 .. Len(L)
      /\ e = 0 => L = <<>> \/ L[1] = Blank
  BY <1>1, <1>2, TableEnds
<1>4. /\ a \in Seq(LineSet)
      /\ Len(a) = Len(L) + Len(new)
      /\ \A r \in 1 .. (Len(L) + Len(new)) :
            a[r] = IF r <= e THEN L[r]
                   ELSE IF r <= e + Len(new) THEN new[r - e] ELSE L[r - Len(new)]
  BY <1>1, <1>2, AppendedLines
<1> HIDE DEF a
<1>5. ASSUME NEW r \in 1 .. (Len(L) + Len(new)), r >= 2  PROVE a[r].id # Label
  <2>1. CASE r <= e
    <3>1. r \in 1 .. Len(L)
      BY <1>1, <1>3, <2>1
    <3> QED
      BY <1>4, <1>5, <2>1, <3>1, SheetLines
  <2>2. CASE ~(r <= e) /\ r <= e + Len(new)
    <3>1. r - e \in 1 .. Len(new)
      BY <1>1, <1>3, <2>2
    <3> QED
      BY <1>1, <1>4, <2>2, <3>1
  <2>3. CASE ~(r <= e) /\ ~(r <= e + Len(new))
    <3>1. PICK q : q = r - Len(new)
      OBVIOUS
    <3>2. q \in 1 .. Len(L) /\ q > e /\ (q = 1 => e = 0)
      BY <1>1, <1>3, <2>3, <3>1
    <3>3. a[r] = L[q]
      BY <1>4, <2>3, <3>1
    <3>4. CASE q = 1
      <4>1. L # <<>>
        BY <1>1, <3>2, EmptySeq
      <4> QED
        BY <1>3, <3>2, <3>3, <3>4, <4>1, BlankLine
    <3>5. CASE q # 1
      <4>1. q >= 2
        BY <1>1, <3>2, <3>5
      <4> QED
        BY <3>2, <3>3, <4>1, SheetLines
    <3> QED
      BY <3>4, <3>5
  <2> QED
    BY <2>1, <2>2, <2>3
<1>6. PICK m : m = Len(L) + Len(new)
  OBVIOUS
<1>7. a \in Sheets
  BY <1>4, <1>5, <1>6, SheetOf
<1> QED
  BY <1>7 DEF a

LEMMA SheetWithout ==
    ASSUME NEW L \in Sheets, NEW rows
    PROVE  Without(L, rows) \in Sheets
<1>0. PICK a : a = Without(L, rows)
  OBVIOUS
<1>1. PICK kept : kept = DOMAIN L \ rows
  OBVIOUS
<1>2. L \in Seq(LineSet)
  BY SheetLines
<1>6. /\ a \in Seq(LineSet)
      /\ LeftOver(a, L, kept)
      /\ \A i, k \in DOMAIN a : i < k => Nth(kept, i) < Nth(kept, k)
  BY <1>0, <1>1, <1>2, WithoutLines
<1>7. \A k \in DOMAIN a : \E r \in kept : r = Nth(kept, k) /\ a[k] = L[r]
  BY <1>6 DEF LeftOver
<1>3. DOMAIN a = 1 .. Len(a) /\ Len(a) \in Nat
  BY <1>6, LenProperties
<1>4. ASSUME NEW k \in 1 .. Len(a), k >= 2  PROVE a[k].id # Label
  <2>1. 1 \in DOMAIN a /\ k \in DOMAIN a /\ 1 < k
    BY <1>3, <1>4
  <2>2. PICK x \in kept : x = Nth(kept, 1)
    BY <1>7, <2>1
  <2>7. PICK y \in kept : y = Nth(kept, k) /\ a[k] = L[y]
    BY <1>7, <2>1
  <2>3. x < y
    BY <1>6, <2>1, <2>2, <2>7
  <2>4. x \in 1 .. Len(L) /\ y \in 1 .. Len(L) /\ Len(L) \in Nat
    BY <1>1, SheetLines
  <2>5. y >= 2
    BY <2>3, <2>4
  <2> QED
    BY <2>7, <2>4, <2>5, SheetLines
<1>5. a \in Sheets
  BY <1>6, <1>4, SheetOf
<1> QED
  BY <1>0, <1>5

-------------------------------------------------------------------------------
(* Jobs.                                                                     *)

LEMMA JobParts ==
    ASSUME NEW T, NEW n, NEW B, NEW j \in JobsOver(T, n, B)
    PROVE  /\ j \in [op : Ops, todo : SUBSET Calls, known : Seq(Tabs), plans : [Tabs -> Layouts],
                     docs : [Ids -> SeasonDocs], dels : SUBSET Ids, found : SUBSET Places,
                     ok : BOOLEAN, back : B, met : BOOLEAN, since : {<<>>} \cup [{1} -> 0 .. n]]
           /\ j.op \in Ops /\ j.todo \in SUBSET Calls /\ j.known \in Seq(Tabs)
           /\ j.plans \in [Tabs -> Layouts] /\ j.docs \in [Ids -> SeasonDocs]
           /\ j.dels \in SUBSET Ids /\ j.found \in SUBSET Places /\ j.back \in B
           /\ j.since \in {<<>>} \cup [{1} -> 0 .. n]
           /\ ToSet(j.known) \subseteq T
           /\ Bounded(j.found)
           /\ \A p \in j.found : p.tab \in T /\ p.row >= 2
           /\ \A c \in j.todo : c.kind \in {"header", "scan", "write", "drop"} => c.tab \in T
           /\ \A c \in j.todo : c.kind = "check" => j.op = "batch"
           /\ j.op # "resync" => j.back = <<>>
BY DEF JobsOver

(* A job with other calls to make.                                           *)
LEMMA OtherCalls ==
    ASSUME NEW T, NEW n, NEW B, NEW j \in JobsOver(T, n, B), NEW X \in SUBSET Calls,
           \A c \in X : c.kind \in {"header", "scan", "write", "drop"} => c.tab \in T,
           \A c \in X : c.kind = "check" => j.op = "batch",
           NEW i, i = [j EXCEPT !.todo = X]
    PROVE  i \in JobsOver(T, n, B)
BY JobParts DEF JobsOver

LEMMA OtherOk ==
    ASSUME NEW T, NEW n, NEW B, NEW j \in JobsOver(T, n, B), NEW i, i = [j EXCEPT !.ok = FALSE]
    PROVE  i \in JobsOver(T, n, B)
BY JobParts DEF JobsOver

LEMMA OtherBack ==
    ASSUME NEW T, NEW n, NEW B, NEW C, NEW j \in JobsOver(T, n, B), NEW X \in C, 
           j.op # "resync" => X = <<>>, NEW i, i = [j EXCEPT !.back = X]
    PROVE  i \in JobsOver(T, n, C)
BY JobParts DEF JobsOver

LEMMA OtherFound ==
    ASSUME NEW T, NEW n, NEW B, NEW j \in JobsOver(T, n, B), NEW X \in SUBSET Places,
           Bounded(X), \A p \in X : p.tab \in T /\ p.row >= 2,
           NEW i, i = [j EXCEPT !.found = X]
    PROVE  i \in JobsOver(T, n, B)
BY JobParts DEF JobsOver

LEMMA OtherKnown ==
    ASSUME NEW T, NEW n, NEW B, NEW j \in JobsOver(T, n, B), NEW X \in Seq(Tabs),
           ToSet(X) \subseteq T, NEW i, i = [j EXCEPT !.known = X]
    PROVE  i \in JobsOver(T, n, B)
BY JobParts DEF JobsOver

LEMMA OtherPlans ==
    ASSUME NEW T, NEW n, NEW B, NEW j \in JobsOver(T, n, B), NEW X \in [Tabs -> Layouts],
           NEW i, i = [j EXCEPT !.plans = X]
    PROVE  i \in JobsOver(T, n, B)
BY JobParts DEF JobsOver

LEMMA OtherDocs ==
    ASSUME NEW T, NEW n, NEW B, NEW j \in JobsOver(T, n, B), NEW X \in [Ids -> SeasonDocs],
           NEW i, i = [j EXCEPT !.docs = X]
    PROVE  i \in JobsOver(T, n, B)
BY JobParts DEF JobsOver

LEMMA OtherMet ==
    ASSUME NEW T, NEW n, NEW B, NEW j \in JobsOver(T, n, B), NEW X \in BOOLEAN,
           NEW i, i = [j EXCEPT !.met = X]
    PROVE  i \in JobsOver(T, n, B)
BY JobParts DEF JobsOver

LEMMA OtherSince ==
    ASSUME NEW T, NEW n, NEW B, NEW j \in JobsOver(T, n, B), NEW X \in {<<>>} \cup [{1} -> 0 .. n],
           NEW i, i = [j EXCEPT !.since = X]
    PROVE  i \in JobsOver(T, n, B)
BY JobParts DEF JobsOver

LEMMA MadeJob ==
    ASSUME NEW T, NEW n, NEW B, NEW j \in JobsOver(T, n, B), NEW c
    PROVE  Made(j, c) \in JobsOver(T, n, B) /\ Made(j, c).op = j.op /\ Made(j, c).back = j.back
<1>2. PICK X : X = j.todo \ {c}
  OBVIOUS
<1>1. Made(j, c) = [j EXCEPT !.todo = X]
  BY <1>2 DEF Made
<1>3. /\ X \in SUBSET Calls
      /\ \A d \in X : d.kind \in {"header", "scan", "write", "drop"} => d.tab \in T
      /\ \A d \in X : d.kind = "check" => j.op = "batch"
  BY <1>2, JobParts
<1>4. PICK i : i = Made(j, c)
  OBVIOUS
<1>6. i = [j EXCEPT !.todo = X]
  BY <1>1, <1>4
<1>5. i \in JobsOver(T, n, B)
  BY <1>3, <1>6, OtherCalls
<1>7. i.op = j.op /\ i.back = j.back
  BY <1>6, JobParts
<1> QED
  BY <1>4, <1>5, <1>7

LEMMA FailedJob ==
    ASSUME NEW T, NEW n, NEW B, NEW j \in JobsOver(T, n, B)
    PROVE  Failed(j) \in JobsOver(T, n, B)
<1>1. PICK i : i = [j EXCEPT !.ok = FALSE]
  OBVIOUS
<1>2. i \in JobsOver(T, n, B)
  BY <1>1, OtherOk
<1>3. Failed(j) = [i EXCEPT !.todo = {}]
  BY <1>1, JobParts DEF Failed
<1> QED
  BY <1>2, <1>3, OtherCalls

LEMMA NotedJob ==
    ASSUME NEW T, NEW n, NEW B, NEW j \in JobsOver(T, n, B), NEW c
    PROVE  Noted(j, c) \in JobsOver(T, n, B)
<1>1. PICK i : i = [j EXCEPT !.ok = FALSE]
  OBVIOUS
<1>2. i \in JobsOver(T, n, B) /\ i.todo = j.todo /\ i.op = j.op
  BY <1>1, OtherOk, JobParts
<1>3. PICK X : X = {d \in j.todo \ {c} : d.kind # "drop"}
  OBVIOUS
<1>6. PICK m : m = Made(j, c)
  OBVIOUS
<1>7. m = [j EXCEPT !.todo = j.todo \ {c}]
  BY <1>6 DEF Made
<1>8. m.todo = j.todo \ {c}
  BY <1>7, JobParts
<1>9. Noted(j, c) = [m EXCEPT !.ok = FALSE, !.todo = {d \in m.todo : d.kind # "drop"}]
  BY <1>6 DEF Noted
<1>10. {d \in m.todo : d.kind # "drop"} = X
  BY <1>3, <1>8
<1>11. Noted(j, c) = [m EXCEPT !.ok = FALSE, !.todo = X]
  BY <1>9, <1>10
<1>4. Noted(j, c) = [i EXCEPT !.todo = X]
  BY <1>1, <1>7, <1>11, JobParts
<1>5. /\ X \in SUBSET Calls
      /\ \A d \in X : d.kind \in {"header", "scan", "write", "drop"} => d.tab \in T
      /\ \A d \in X : d.kind = "check" => i.op = "batch"
  BY <1>2, <1>3, JobParts
<1> QED
  BY <1>2, <1>4, <1>5, OtherCalls

LEMMA NewJobs ==
    ASSUME NEW T, NEW n, NEW op \in Ops, NEW dels \in SUBSET Ids
    PROVE  /\ NewJob(op, dels) \in JobsOver(T, n, {<<>>})
           /\ NewJob(op, dels) \in Jobs(T, n)
           /\ NoJob \in Jobs(T, n)
<1>11. MaxEdits \in Nat
  BY MirrorAssumption
<1>12. 0 \in 0 .. MaxEdits
  BY <1>11
<1>1. NoDoc \in SeasonDocs
  BY <1>12 DEF NoDoc, SeasonDocs, Docs
<1>2. [t \in Tabs |-> "legacy"] \in [Tabs -> Layouts]
  BY DEF Layouts
<1>3. [id \in Ids |-> NoDoc] \in [Ids -> SeasonDocs]
  BY <1>1
<1>4. {Call("context", NoTab)} \in SUBSET Calls
  BY DEF Call, Calls
<1>5. <<>> \in Seq(Tabs) /\ ToSet(<<>>) = {}
  BY EmptySeq DEF ToSet
<1>6. Bounded({})
  BY DEF Bounded
<1>7. ASSUME NEW o \in Ops, NEW d \in SUBSET Ids, NEW B, <<>> \in B
      PROVE  NewJob(o, d) \in JobsOver(T, n, B)
  <2>1. PICK j : j = NewJob(o, d)
    OBVIOUS
  <2>8. PICK e, x, y, z : e = <<>> /\ x = {Call("context", NoTab)} /\ y = [t \in Tabs |-> "legacy"]
                       /\ z = [id \in Ids |-> NoDoc]
    OBVIOUS
  <2>2. j = [op |-> o, todo |-> x, known |-> e, plans |-> y, docs |-> z,
             dels |-> d, found |-> {}, ok |-> TRUE, back |-> e, met |-> FALSE, since |-> e]
    BY <2>1, <2>8 DEF NewJob
  <2>3. /\ x \in SUBSET Calls
        /\ \A c \in x : c.kind \notin {"header", "scan", "write", "drop", "check"}
    BY <1>4, <2>8 DEF Call
  <2>4. /\ y \in [Tabs -> Layouts] /\ z \in [Ids -> SeasonDocs]
        /\ e \in Seq(Tabs) /\ e \in {<<>>} \cup [{1} -> 0 .. n] /\ e \in B
    BY <1>2, <1>3, <1>5, <1>7, <2>8
  <2>5. j \in [op : Ops, todo : SUBSET Calls, known : Seq(Tabs), plans : [Tabs -> Layouts],
               docs : [Ids -> SeasonDocs], dels : SUBSET Ids, found : SUBSET Places,
               ok : BOOLEAN, back : B, met : BOOLEAN, since : {<<>>} \cup [{1} -> 0 .. n]]
    BY <2>2, <2>3, <2>4
  <2>6. /\ j.known = <<>> /\ j.found = {} /\ j.back = <<>> /\ j.todo = x
    BY <2>2, <2>8
  <2>7. j \in JobsOver(T, n, B)
    BY <1>5, <1>6, <2>3, <2>5, <2>6 DEF JobsOver
  <2> QED
    BY <2>1, <2>7
<1>8. <<>> \in CutInto(T, n)
  BY DEF CutInto
<1>9. NewJob("batch", {}) \in Jobs(T, n)
  BY <1>7, <1>8 DEF Jobs, Ops
<1>10. NoJob \in Jobs(T, n)
  BY <1>9, OtherCalls DEF NoJob, Jobs
<1> QED
  BY <1>7, <1>8, <1>10 DEF Jobs

LEMMA JobsOverGrow ==
    ASSUME NEW T, NEW U, T \subseteq U, NEW n \in Nat, NEW m \in Nat, n <= m, NEW B, NEW C,
           B \subseteq C, NEW j \in JobsOver(T, n, B)
    PROVE  j \in JobsOver(U, m, C)
<1>1. 0 .. n \subseteq 0 .. m
  OBVIOUS
<1>2. [{1} -> 0 .. n] \subseteq [{1} -> 0 .. m]
  BY <1>1
<1> QED
  BY <1>2, JobParts DEF JobsOver

LEMMA JobsGrow ==
    ASSUME NEW T, NEW U, T \subseteq U, NEW n \in Nat, NEW m \in Nat, n <= m, NEW j \in Jobs(T, n)
    PROVE  j \in Jobs(U, m)
<1>1. \A b \in JobsOver(T, n, {<<>>}) : b \in JobsOver(U, m, {<<>>})
  BY JobsOverGrow
<1>2. CutInto(T, n) \subseteq CutInto(U, m)
  BY <1>1 DEF CutInto
<1>3. PICK B, C : B = CutInto(T, n) /\ C = CutInto(U, m)
  OBVIOUS
<1>4. j \in JobsOver(T, n, B) /\ B \subseteq C
  BY <1>2, <1>3 DEF Jobs
<1>5. j \in JobsOver(U, m, C)
  BY <1>4, JobsOverGrow
<1> QED
  BY <1>3, <1>5 DEF Jobs

(* The rows of the database a job holds, and the lines it makes of them.     *)
LEMMA GroupTabs ==
    ASSUME NEW j, j.docs \in [Ids -> SeasonDocs]
    PROVE  /\ Groups(j) \subseteq Seasons /\ Groups(j) \subseteq Tabs
           /\ \A id \in DocsOf(j) : id \in Ids /\ j.docs[id].season \in Groups(j)
BY DEF Groups, DocsOf, SeasonDocs, Tabs

LEMMA RowLines ==
    ASSUME NEW j, j.docs \in [Ids -> SeasonDocs], j.plans \in [Tabs -> Layouts],
           NEW id \in DocsOf(j)
    PROVE  RowOf(j, id) \in LineSet /\ RowOf(j, id).id = id /\ id \in Ids /\ id # Label
<1>1. id \in Ids /\ j.docs[id].season \in Tabs
  BY GroupTabs
<1>2. j.docs[id] \in Docs
  BY <1>1 DEF SeasonDocs
<1>3. j.docs[id].ver \in 0 .. MaxEdits
  BY <1>2 DEF Docs
<1>4. id # Label
  BY <1>1, MirrorAssumption DEF Label
<1> QED
  BY <1>1, <1>3, <1>4 DEF RowOf, LineSet

LEMMA HeaderLine ==
    ASSUME NEW j, j.plans \in [Tabs -> Layouts], NEW t \in Tabs
    PROVE  HeaderOf(j, t) \in LineSet /\ HeaderOf(j, t).id = Label
<1>1. MaxEdits \in Nat
  BY MirrorAssumption
<1>2. 0 \in 0 .. MaxEdits
  BY <1>1
<1> QED
  BY <1>2 DEF HeaderOf, LineSet

LEMMA PlannedTabs ==
    ASSUME NEW docs
    PROVE  PlansOver(docs) \in [Tabs -> Layouts]
BY DEF PlansOver, Layouts

(* What a scan of a tab finds.                                               *)
LEMMA FoundPlaces ==
    ASSUME NEW t \in Tabs, grid \in [Tabs -> Sheets]
    PROVE  /\ PlacesIn(t) \in SUBSET Places /\ Bounded(PlacesIn(t))
           /\ \A p \in PlacesIn(t) :
                /\ p.tab = t /\ p.row >= 2 /\ p.row \in DOMAIN grid[t]
                /\ grid[t][p.row].id = p.id /\ grid[t][p.row].ver = p.ver
<1> DEFINE f(r) == [id |-> grid[t][r].id, tab |-> t, row |-> r, ver |-> grid[t][r].ver]
<1>1. PICK R : R = {r \in 2 .. Len(grid[t]) :
                      /\ grid[t][r].id # NoId
                      /\ grid[t][r].layout = grid[t][1].layout}
  OBVIOUS
<1>2. grid[t] \in Sheets
  OBVIOUS
<1>3. /\ Len(grid[t]) \in Nat /\ DOMAIN grid[t] = 1 .. Len(grid[t])
      /\ \A r \in 1 .. Len(grid[t]) : grid[t][r] \in LineSet /\ (r >= 2 => grid[t][r].id # Label)
  BY <1>2, SheetLines
<1>4. PlacesIn(t) = {f(r) : r \in R}
  BY <1>1 DEF PlacesIn
<1>5. ASSUME NEW r \in R  PROVE /\ r \in Nat /\ r >= 2 /\ r \in 1 .. Len(grid[t])
                                /\ grid[t][r].id \in Ids /\ grid[t][r].ver \in 0 .. MaxEdits
  <2>1. r \in 2 .. Len(grid[t]) /\ grid[t][r].id # NoId
    BY <1>1
  <2>2. r \in Nat /\ r >= 2 /\ r \in 1 .. Len(grid[t])
    BY <1>3, <2>1
  <2>3. grid[t][r] \in LineSet /\ grid[t][r].id # Label
    BY <1>3, <2>2
  <2> QED
    BY <2>1, <2>2, <2>3 DEF LineSet
<1>6. \A r \in R : f(r) \in Places
  BY <1>5 DEF Places
<1>7. \A p \in {f(r) : r \in R} : p.row \in R
  OBVIOUS
<1>8. Bounded({f(r) : r \in R})
  <2> HIDE DEF f
  <2>1. \A r \in R : r <= Len(grid[t])
    BY <1>3, <1>5
  <2> QED
    BY <1>3, <1>7, <2>1 DEF Bounded
<1>9. \A r \in R : /\ f(r).tab = t /\ f(r).row = r /\ f(r).id = grid[t][r].id
                   /\ f(r).ver = grid[t][r].ver
  OBVIOUS
<1> HIDE DEF f
<1> QED
  BY <1>3, <1>4, <1>5, <1>6, <1>8, <1>9

LEMMA ReadJob ==
    ASSUME NEW T, NEW n, NEW B, NEW j \in JobsOver(T, n, B)
    PROVE  WhenRead(j) \in JobsOver(T, n, B) /\ WhenRead(j).op = j.op
<1>1. PICK X : X = Changes(j)
  OBVIOUS
<1>2. /\ Groups(j) \subseteq Tabs
      /\ ToDrop(j) \subseteq j.found
  <2>1. j.docs \in [Ids -> SeasonDocs] /\ j.op \in Ops
    BY JobParts
  <2>2. ToDrop(j) \subseteq j.found
    BY <2>1 DEF ToDrop, Ops
  <2> QED
    BY <2>1, <2>2, GroupTabs
<1>3. ASSUME NEW c \in X
      PROVE  \/ c = [kind |-> "clear", tab |-> c.tab] /\ c.tab \in Tabs
             \/ c = [kind |-> "append", tab |-> c.tab] /\ c.tab \in Tabs
             \/ c = [kind |-> "update", tab |-> NoTab]
             \/ c = [kind |-> "drop", tab |-> c.tab] /\ c.tab \in Tabs /\ c.tab \in T
  <2>1. \/ \E t \in Groups(j) : c = Call("clear", t) \/ c = Call("append", t)
        \/ c = Call("update", NoTab)
        \/ \E p \in ToDrop(j) : c = Call("drop", p.tab)
    BY <1>1 DEF Changes
  <2>2. CASE \E t \in Groups(j) : c = Call("clear", t) \/ c = Call("append", t)
    BY <1>2, <2>2 DEF Call
  <2>3. CASE c = Call("update", NoTab)
    BY <2>3 DEF Call
  <2>4. CASE \E p \in ToDrop(j) : c = Call("drop", p.tab)
    <3>1. PICK p \in j.found : c = Call("drop", p.tab)
      BY <1>2, <2>4
    <3>2. p.tab \in T /\ p \in Places
      BY JobParts
    <3> QED
      BY <3>1, <3>2 DEF Call, Places
  <2> QED
    BY <2>1, <2>2, <2>3, <2>4
<1>4. /\ X \in SUBSET Calls
      /\ \A c \in X : c.kind \in {"header", "scan", "write", "drop"} => c.tab \in T
      /\ \A c \in X : c.kind = "check" => j.op = "batch"
  <2>1. ASSUME NEW c \in X
        PROVE  /\ c \in Calls
               /\ c.kind \in {"header", "scan", "write", "drop"} => c.tab \in T
               /\ c.kind # "check"
    BY <1>3 DEF Calls
  <2> QED
    BY <2>1
<1>5. PICK i : i = [j EXCEPT !.todo = Changes(j)]
  OBVIOUS
<1>7. i = [j EXCEPT !.todo = X]
  BY <1>1, <1>5
<1>6. i \in JobsOver(T, n, B) /\ i.op = j.op
  <2>1. X \in SUBSET Calls
    BY <1>4
  <2>2. \A c \in X : c.kind \in {"header", "scan", "write", "drop"} => c.tab \in T
    BY <1>4
  <2>3. \A c \in X : c.kind = "check" => j.op = "batch"
    BY <1>4
  <2>4. i \in JobsOver(T, n, B)
    BY <1>7, <2>1, <2>2, <2>3, OtherCalls
  <2>5. i.op = j.op
    BY <1>7, JobParts
  <2> QED
    BY <2>4, <2>5
<1> QED
  BY <1>5, <1>6 DEF WhenRead

-------------------------------------------------------------------------------
(* What every call of a job keeps.                                           *)

LEMMA EventCounts ==
    ASSUME SheetInv
    PROVE  /\ edits \in Nat /\ toggles \in Nat /\ faults \in Nat /\ Events \in Nat
           /\ MaxEdits \in Nat /\ MaxToggles \in Nat /\ MaxFaults \in Nat
<1>1. MaxEdits \in Nat /\ MaxToggles \in Nat /\ MaxFaults \in Nat
  BY MirrorAssumption
<1> QED
  BY <1>1 DEF SheetInv, Events

LEMMA AnswerCounts ==
    ASSUME SheetInv, NEW kind, NEW answer \in Answers(kind), Count(answer)
    PROVE  faults' \in 0 .. MaxFaults /\ faults <= faults'
BY EventCounts DEF SheetInv, Answers, Count

LEMMA ResumedJob ==
    ASSUME NEW T, NEW n \in Nat, NEW j \in Jobs(T, n), j.back # <<>>
    PROVE  j.back[1] \in Jobs(T, n)
<1>1. j.back \in CutInto(T, n)
  BY JobParts DEF Jobs
<1>2. j.back[1] \in JobsOver(T, n, {<<>>})
  BY <1>1 DEF CutInto
<1>3. <<>> \in CutInto(T, n)
  BY DEF CutInto
<1> QED
  BY <1>2, <1>3, JobsOverGrow DEF Jobs

LEMMA SuspectIds ==
    ASSUME SheetInv, QueueTypeOK, NEW T, NEW n, NEW w, NEW j \in Jobs(T, n)
    PROVE  SuspectAfter(w, j) \in SUBSET Ids
<1>1. j.dels \in SUBSET Ids
  BY JobParts DEF Jobs
<1>2. suspect \in SUBSET Ids /\ batch.deletes \in SUBSET Ids /\ Taken \in SUBSET Ids
  BY DEF SheetInv, QueueTypeOK, Taken
<1>3. (suspect \ (j.dels \cup {id \in DocsOf(j) : j.docs[id] = db[id]})) \in SUBSET Ids
  BY <1>2
<1> QED
  BY <1>1, <1>2, <1>3 DEF SuspectAfter

(* A call that leaves a well-formed sheet and a well-formed job behind.      *)
LEMMA CallTypes ==
    ASSUME SheetInv, QueueTypeOK, NEW w \in Workers, NEW j, Proceeds(w, j),
           j \in Jobs(ToSet(tabs'), Events'),
           UNCHANGED <<db, enabled, edits, toggles>>,
           faults' \in 0 .. MaxFaults, faults <= faults',
           tabs' \in Seq(Tabs), IsInjective(tabs'), ToSet(tabs) \subseteq ToSet(tabs'),
           grid' \in [Tabs -> Sheets], \A t \in Tabs \ ToSet(tabs') : grid'[t] = <<>>
    PROVE  SheetInv'
<1>1. PICK T, U, n, m : T = ToSet(tabs) /\ U = ToSet(tabs') /\ n = Events /\ m = Events'
  OBVIOUS
<1>2. T \subseteq U /\ n \in Nat /\ m \in Nat /\ n <= m
  BY <1>1, EventCounts DEF Events
<1>3. job \in [Workers -> Jobs(U, m)]
  <2>1. job \in [Workers -> Jobs(T, n)]
    BY <1>1 DEF SheetInv
  <2>2. \A i \in Jobs(T, n) : i \in Jobs(U, m)
    BY <1>2, JobsGrow
  <2> QED
    BY <2>1, <2>2
<1>4. j \in Jobs(U, m)
  BY <1>1
<1>5. ASSUME NEW i \in Jobs(U, m), job' = [job EXCEPT ![w] = i]
      PROVE  job' \in [Workers -> Jobs(U, m)]
  BY <1>3, <1>5
<1>6. NoJob \in Jobs(U, m)
  BY NewJobs DEF Ops
<1>7. suspect \in SUBSET Ids
  BY DEF SheetInv
<1>8. job' \in [Workers -> Jobs(U, m)] /\ suspect' \in SUBSET Ids
  <2>1. CASE j.todo # {}
    BY <1>4, <1>5, <1>7, <2>1 DEF Proceeds, Continues
  <2>2. CASE Ends(w, j)
    BY <1>4, <1>5, <1>6, <2>2, SuspectIds DEF Ends
  <2>3. CASE j.todo = {} /\ j.back # <<>> /\ j.ok /\ DocsOf(j) = {}
    <3>1. j.back[1] \in Jobs(U, m)
      BY <1>2, <1>4, <2>3, ResumedJob
    <3>2. Continues(w, j.back[1])
      BY <2>3 DEF Proceeds
    <3> QED
      BY <1>5, <1>7, <3>1, <3>2 DEF Continues
  <2> QED
    BY <2>1, <2>2, <2>3 DEF Proceeds
<1> QED
  BY <1>1, <1>8 DEF SheetInv

(* A call that leaves the sheet alone.                                       *)
LEMMA ReadTypes ==
    ASSUME SheetInv, QueueTypeOK, NEW w \in Workers, NEW j, Proceeds(w, j),
           j \in Jobs(ToSet(tabs), Events),
           UNCHANGED <<db, enabled, sheetVars, edits, toggles>>,
           faults' \in 0 .. MaxFaults, faults <= faults'
    PROVE  SheetInv'
<1>1. PICK T, n, m : T = ToSet(tabs) /\ n = Events /\ m = Events'
  OBVIOUS
<1>2. n \in Nat /\ m \in Nat /\ n <= m
  BY <1>1, EventCounts DEF Events
<1>3. j \in Jobs(T, m)
  BY <1>1, <1>2, JobsGrow
<1>4. ToSet(tabs') = T /\ tabs' = tabs /\ grid' = grid
  BY <1>1 DEF sheetVars
<1> QED
  BY <1>1, <1>3, <1>4, CallTypes DEF SheetInv

(* A call that writes one tab that exists.                                   *)
LEMMA WriteTypes ==
    ASSUME SheetInv, QueueTypeOK, NEW w \in Workers, NEW j, Proceeds(w, j),
           j \in Jobs(ToSet(tabs), Events),
           UNCHANGED <<db, enabled, tabs, edits, toggles>>,
           faults' \in 0 .. MaxFaults, faults <= faults',
           NEW t \in Tabs, t \in ToSet(tabs), NEW L \in Sheets,
           UNCHANGED grid \/ Writes(t, L)
    PROVE  SheetInv'
<1>1. PICK T, n, m : T = ToSet(tabs) /\ n = Events /\ m = Events'
  OBVIOUS
<1>2. n \in Nat /\ m \in Nat /\ n <= m
  BY <1>1, EventCounts DEF Events
<1>3. j \in Jobs(T, m)
  BY <1>1, <1>2, JobsGrow
<1>4. ToSet(tabs') = T /\ tabs' = tabs
  BY <1>1
<1>5. /\ grid' \in [Tabs -> Sheets]
      /\ \A u \in Tabs \ T : grid'[u] = <<>>
  BY <1>1 DEF SheetInv, Writes
<1> QED
  BY <1>1, <1>3, <1>4, <1>5, CallTypes DEF SheetInv

LEMMA DueCalls ==
    ASSUME SheetInv, NEW w \in Workers, NEW c \in Due(job[w])
    PROVE  /\ job[w] \in Jobs(ToSet(tabs), Events)
           /\ c \in job[w].todo /\ c \in Calls
           /\ c.kind \in {"header", "scan", "write", "drop"} => c.tab \in Tabs /\ c.tab \in ToSet(tabs)
           /\ c.kind = "check" => job[w].op = "batch" /\ c.tab \in Tabs
           /\ c.kind \in {"append", "clear"} => c.tab \in Tabs
           /\ ToSet(job[w].known) \subseteq ToSet(tabs)
<1>1. job[w] \in Jobs(ToSet(tabs), Events)
  BY DEF SheetInv
<1>2. c \in job[w].todo
  BY DEF Due
<1>3. c \in Calls /\ (c.kind \in {"header", "scan", "write", "drop"} => c.tab \in ToSet(tabs))
      /\ (c.kind = "check" => job[w].op = "batch")
      /\ ToSet(job[w].known) \subseteq ToSet(tabs)
  BY <1>1, <1>2, JobParts DEF Jobs
<1> QED
  BY <1>1, <1>2, <1>3 DEF Calls

LEMMA ContextTypes ==
    ASSUME SheetInv, QueueTypeOK, NEW w \in Workers, Context(w)
    PROVE  SheetInv'
<1>1. Call("context", NoTab) \in Due(job[w])
  BY DEF Context
<1>2. PICK j, T, n, B : j = job[w] /\ T = ToSet(tabs) /\ n = Events /\ B = CutInto(T, n)
  OBVIOUS
<1>3. j \in JobsOver(T, n, B)
  BY <1>1, <1>2, DueCalls DEF Jobs
<1>4. UNCHANGED <<db, enabled, sheetVars, edits, toggles>>
  BY DEF Context
<1>5. Failed(j) \in JobsOver(T, n, B)
  BY <1>3, FailedJob
<1>6. CASE ~enabled
  <2>1. PICK i : i = (IF j.back # <<>> THEN [j EXCEPT !.todo = {}] ELSE Failed(j))
    OBVIOUS
  <2>2. Proceeds(w, i) /\ faults' = faults
    BY <1>2, <1>6, <2>1 DEF Context
  <2>3. [j EXCEPT !.todo = {}] \in JobsOver(T, n, B)
    BY <1>3, OtherCalls
  <2>4. i \in Jobs(ToSet(tabs), Events)
    BY <1>2, <1>5, <2>1, <2>3 DEF Jobs
  <2>5. faults' \in 0 .. MaxFaults /\ faults <= faults'
    BY <2>2, EventCounts DEF SheetInv
  <2> QED
    BY <1>4, <2>2, <2>4, <2>5, ReadTypes
<1>7. CASE enabled
  <2>1. PICK answer \in Answers("context") :
           /\ Count(answer)
           /\ Proceeds(w, IF answer = "done"
                THEN [j EXCEPT !.todo = {Call("fetch", NoTab)}, !.known = tabs, !.plans = PlansOver(db)]
                ELSE Failed(j))
    BY <1>2, <1>7 DEF Context
  <2>2. PICK x : x = [j EXCEPT !.todo = {Call("fetch", NoTab)}]
    OBVIOUS
  <2>3. x \in JobsOver(T, n, B)
    <3>1. PICK X : X = {Call("fetch", NoTab)}
      OBVIOUS
    <3>2. X \in SUBSET Calls /\ \A c \in X : c.kind = "fetch"
      BY <3>1 DEF Call, Calls
    <3>3. x = [j EXCEPT !.todo = X]
      BY <2>2, <3>1
    <3> QED
      BY <1>3, <3>2, <3>3, OtherCalls
  <2>4. PICK y : y = [x EXCEPT !.known = tabs]
    OBVIOUS
  <2>5. y \in JobsOver(T, n, B)
    BY <1>2, <2>3, <2>4, OtherKnown DEF SheetInv
  <2>6. PICK z : z = [y EXCEPT !.plans = PlansOver(db)]
    OBVIOUS
  <2>7. z \in JobsOver(T, n, B)
    BY <2>5, <2>6, OtherPlans, PlannedTabs
  <2>8. z = [j EXCEPT !.todo = {Call("fetch", NoTab)}, !.known = tabs, !.plans = PlansOver(db)]
    BY <1>3, <2>2, <2>4, <2>6, JobParts
  <2>9. PICK i : i = (IF answer = "done" THEN z ELSE Failed(j))
    OBVIOUS
  <2>10. Proceeds(w, i)
    BY <2>1, <2>8, <2>9
  <2>11. i \in Jobs(ToSet(tabs), Events)
    BY <1>2, <1>5, <2>7, <2>9 DEF Jobs
  <2> QED
    BY <1>4, <2>1, <2>10, <2>11, AnswerCounts, ReadTypes
<1> QED
  BY <1>6, <1>7

LEMMA FetchTypes ==
    ASSUME SheetInv, QueueTypeOK, NEW w \in Workers, Fetch(w)
    PROVE  SheetInv'
<1>1. Call("fetch", NoTab) \in Due(job[w])
  BY DEF Fetch
<1>2. PICK j, T, n, B : j = job[w] /\ T = ToSet(tabs) /\ n = Events /\ B = CutInto(T, n)
  OBVIOUS
<1>3. j \in JobsOver(T, n, B)
  BY <1>1, <1>2, DueCalls DEF Jobs
<1>4. UNCHANGED <<db, enabled, sheetVars, edits, toggles>> /\ faults' = faults
  BY DEF Fetch, envVars
<1>5. PICK read : read =
         IF j.op = "batch"
           THEN [j EXCEPT !.docs = [id \in Ids |-> IF id \in batch.upserts THEN db[id] ELSE NoDoc]]
           ELSE [j EXCEPT !.docs = db, !.plans = PlansOver(db)]
  OBVIOUS
<1>6. PICK X : X = {Call("scan", t) : t \in ToSet(j.known)}
                     \cup IF j.op = "batch" THEN {Call("check", t) : t \in Groups(read)} ELSE {}
  OBVIOUS
<1>7. Proceeds(w, WhenRead([read EXCEPT !.todo = X]))
  BY <1>2, <1>5, <1>6 DEF Fetch
<1>8. read \in JobsOver(T, n, B) /\ read.op = j.op
  <2>1. db \in [Ids -> SeasonDocs] /\ NoDoc \in SeasonDocs
    BY EventCounts DEF SheetInv, NoDoc, SeasonDocs, Docs
  <2>2. CASE j.op = "batch"
    <3>1. PICK d : d = [id \in Ids |-> IF id \in batch.upserts THEN db[id] ELSE NoDoc]
      OBVIOUS
    <3>2. d \in [Ids -> SeasonDocs]
      BY <2>1, <3>1
    <3>3. read = [j EXCEPT !.docs = d]
      BY <1>5, <2>2, <3>1
    <3>4. read \in JobsOver(T, n, B)
      BY <1>3, <3>2, <3>3, OtherDocs
    <3> QED
      BY <1>3, <3>3, <3>4, JobParts
  <2>3. CASE j.op # "batch"
    <3>1. PICK x : x = [j EXCEPT !.docs = db]
      OBVIOUS
    <3>2. x \in JobsOver(T, n, B)
      BY <1>3, <2>1, <3>1, OtherDocs
    <3>3. PICK y : y = [x EXCEPT !.plans = PlansOver(db)]
      OBVIOUS
    <3>4. y \in JobsOver(T, n, B)
      BY <3>2, <3>3, OtherPlans, PlannedTabs
    <3>5. read = y /\ y.op = j.op
      BY <1>3, <1>5, <2>3, <3>1, <3>3, JobParts
    <3> QED
      BY <3>4, <3>5
  <2> QED
    BY <2>2, <2>3
<1>9. /\ X \in SUBSET Calls
      /\ \A c \in X : c.kind \in {"header", "scan", "write", "drop"} => c.tab \in T
      /\ \A c \in X : c.kind = "check" => read.op = "batch"
  <2>1. Groups(read) \subseteq Tabs
    BY <1>8, JobParts, GroupTabs
  <2>2. ToSet(j.known) \subseteq T /\ ToSet(j.known) \subseteq Tabs
    <3>1. j.known \in Seq(Tabs) /\ ToSet(j.known) \subseteq T
      BY <1>3, JobParts
    <3>2. ToSet(j.known) \subseteq Tabs
      BY <3>1, LenProperties, ElementOfSeq DEF ToSet
    <3> QED
      BY <3>1, <3>2
  <2>3. ASSUME NEW c \in X
        PROVE  \/ c = [kind |-> "scan", tab |-> c.tab] /\ c.tab \in Tabs /\ c.tab \in T
               \/ c = [kind |-> "check", tab |-> c.tab] /\ c.tab \in Tabs /\ j.op = "batch"
    BY <1>6, <2>1, <2>2 DEF Call
  <2>4. ASSUME NEW c \in X
        PROVE  /\ c \in Calls
               /\ c.kind \in {"header", "scan", "write", "drop"} => c.tab \in T
               /\ c.kind = "check" => read.op = "batch"
    BY <1>8, <2>3 DEF Calls
  <2> QED
    BY <2>4
<1>10. PICK i : i = [read EXCEPT !.todo = X]
  OBVIOUS
<1>11. i \in JobsOver(T, n, B)
  BY <1>8, <1>9, <1>10, OtherCalls
<1>12. WhenRead(i) \in Jobs(ToSet(tabs), Events)
  BY <1>2, <1>11, ReadJob DEF Jobs
<1>13. Proceeds(w, WhenRead(i))
  BY <1>7, <1>10
<1>14. faults' \in 0 .. MaxFaults /\ faults <= faults'
  BY <1>4, EventCounts DEF SheetInv
<1> QED
  BY <1>4, <1>12, <1>13, <1>14, ReadTypes

LEMMA AppendedTabs ==
    ASSUME NEW s \in Seq(Tabs), IsInjective(s), NEW t \in Tabs
    PROVE  /\ Append(s, t) \in Seq(Tabs) /\ ToSet(Append(s, t)) = ToSet(s) \cup {t}
           /\ t \notin ToSet(s) => IsInjective(Append(s, t))
<1>1. PICK a : a = Append(s, t)
  OBVIOUS
<1>2. /\ a \in Seq(Tabs) /\ Len(a) = Len(s) + 1 /\ Len(s) \in Nat
      /\ \A i \in 1 .. Len(s) : a[i] = s[i]
      /\ a[Len(s) + 1] = t
  BY <1>1, AppendProperties, LenProperties
<1>3. DOMAIN a = 1 .. (Len(s) + 1) /\ DOMAIN s = 1 .. Len(s)
  BY <1>2, LenProperties
<1>4. ToSet(a) = ToSet(s) \cup {t}
  <2>1. 1 .. (Len(s) + 1) = (1 .. Len(s)) \cup {Len(s) + 1}
    BY <1>2
  <2> QED
    BY <1>2, <1>3, <2>1 DEF ToSet
<1>5. ASSUME t \notin ToSet(s)  PROVE IsInjective(a)
  <2>1. \A i \in 1 .. Len(s) : s[i] # t
    BY <1>3, <1>5 DEF ToSet
  <2>2. \A i, k \in 1 .. Len(s) : s[i] = s[k] => i = k
    BY <1>3 DEF IsInjective
  <2>3. ASSUME NEW i \in 1 .. (Len(s) + 1), NEW k \in 1 .. (Len(s) + 1), a[i] = a[k]
        PROVE  i = k
    <3>1. (i \in 1 .. Len(s) \/ i = Len(s) + 1) /\ (k \in 1 .. Len(s) \/ k = Len(s) + 1)
      BY <1>2
    <3> QED
      BY <1>2, <2>1, <2>2, <2>3, <3>1
  <2> QED
    BY <1>3, <2>3 DEF IsInjective
<1> QED
  BY <1>1, <1>2, <1>4, <1>5

LEMMA CreateTabTypes ==
    ASSUME SheetInv, QueueTypeOK, NEW w \in Workers, CreateTab(w)
    PROVE  SheetInv'
<1>1. PICK c \in Due(job[w]), answer \in Answers("create") :
         LET j == job[w]
             taken == c.tab \in ToSet(tabs)
             scan == IF c.kind = "check" THEN {Call("scan", c.tab)} ELSE {}
         IN  /\ c.kind \in {"check", "append", "clear"} /\ c.tab \notin ToSet(j.known)
             /\ Count(answer)
             /\ tabs' = IF answer = "refused" \/ taken THEN tabs ELSE Append(tabs, c.tab)
             /\ Proceeds(w, IF answer = "done" /\ ~taken
                   THEN [j EXCEPT !.known = Append(@, c.tab),
                                  !.todo = @ \cup scan \cup {Call("header", c.tab)}]
                   ELSE IF c.kind = "append" THEN Noted(j, c) ELSE Failed(j))
  BY Zenon DEF CreateTab
<1>2. PICK j, T, n, m : j = job[w] /\ T = ToSet(tabs) /\ n = Events /\ m = Events'
  OBVIOUS
<1>3. UNCHANGED <<db, enabled, grid, edits, toggles>>
  BY DEF CreateTab
<1>4. faults' \in 0 .. MaxFaults /\ faults <= faults'
  BY <1>1, AnswerCounts
<1>5. n \in Nat /\ m \in Nat /\ n <= m
  BY <1>2, <1>3, <1>4, EventCounts DEF Events
<1>6. /\ c.tab \in Tabs /\ c \in j.todo
      /\ (c.kind = "check" => j.op = "batch") /\ ToSet(j.known) \subseteq T
      /\ j \in Jobs(T, n)
  BY <1>1, <1>2, DueCalls
<1>7. PICK U : U = ToSet(tabs')
  OBVIOUS
<1>8. tabs \in Seq(Tabs) /\ IsInjective(tabs)
  BY DEF SheetInv
<1>9. /\ tabs' \in Seq(Tabs) /\ IsInjective(tabs') /\ T \subseteq U
      /\ U \subseteq T \cup {c.tab}
  <2>1. CASE tabs' = tabs
    BY <1>2, <1>7, <1>8, <2>1
  <2>2. CASE tabs' = Append(tabs, c.tab) /\ c.tab \notin T
    <3>1. PICK a : a = Append(tabs, c.tab)
      OBVIOUS
    <3>2. a \in Seq(Tabs) /\ ToSet(a) = T \cup {c.tab} /\ IsInjective(a)
      BY <1>2, <1>6, <1>8, <2>2, <3>1, AppendedTabs
    <3> QED
      BY <1>2, <1>7, <2>2, <3>1, <3>2
  <2> QED
    BY <1>1, <1>2, <2>1, <2>2
<1>10. j \in Jobs(U, m)
  BY <1>5, <1>6, <1>9, JobsGrow
<1>11. PICK B : B = CutInto(U, m)
  OBVIOUS
<1>12. j \in JobsOver(U, m, B)
  BY <1>10, <1>11 DEF Jobs
<1>13. /\ grid' \in [Tabs -> Sheets]
       /\ \A t \in Tabs \ U : grid'[t] = <<>>
  BY <1>2, <1>3, <1>9 DEF SheetInv
<1>14. CASE answer = "done" /\ c.tab \notin T
  <2>1. U = T \cup {c.tab}
    BY <1>1, <1>2, <1>6, <1>7, <1>8, <1>14, AppendedTabs
  <2>2. PICK k, X : /\ k = Append(j.known, c.tab)
                    /\ X = j.todo \cup (IF c.kind = "check" THEN {Call("scan", c.tab)} ELSE {})
                             \cup {Call("header", c.tab)}
    OBVIOUS
  <2>3. k \in Seq(Tabs) /\ ToSet(k) \subseteq U
    <3>1. j.known \in Seq(Tabs)
      BY <1>12, JobParts
    <3>2. /\ k \in Seq(Tabs) /\ Len(k) = Len(j.known) + 1 /\ Len(j.known) \in Nat
          /\ \A i \in 1 .. Len(j.known) : k[i] = (j.known)[i]
          /\ k[Len(j.known) + 1] = c.tab
      BY <1>6, <2>2, <3>1, AppendProperties, LenProperties
    <3>3. DOMAIN k = 1 .. (Len(j.known) + 1) /\ DOMAIN (j.known) = 1 .. Len(j.known)
      BY <3>1, <3>2, LenProperties
    <3>4. 1 .. (Len(j.known) + 1) = (1 .. Len(j.known)) \cup {Len(j.known) + 1}
      BY <3>2
    <3>5. ToSet(k) \subseteq ToSet(j.known) \cup {c.tab}
      BY <3>2, <3>3, <3>4 DEF ToSet
    <3> QED
      BY <1>6, <2>1, <3>2, <3>5
  <2>4. PICK x : x = [j EXCEPT !.known = k]
    OBVIOUS
  <2>5. x \in JobsOver(U, m, B) /\ x.op = j.op
    BY <1>12, <2>3, <2>4, OtherKnown, JobParts
  <2>6. /\ X \in SUBSET Calls
        /\ \A d \in X : d.kind \in {"header", "scan", "write", "drop"} => d.tab \in U
        /\ \A d \in X : d.kind = "check" => x.op = "batch"
    <3>1. /\ j.todo \in SUBSET Calls
          /\ \A d \in j.todo : d.kind \in {"header", "scan", "write", "drop"} => d.tab \in U
          /\ \A d \in j.todo : d.kind = "check" => j.op = "batch"
      BY <1>12, JobParts
    <3>2. Call("scan", c.tab) \in Calls /\ Call("header", c.tab) \in Calls
      BY <1>6 DEF Call, Calls
    <3> QED
      BY <2>1, <2>2, <2>5, <3>1, <3>2 DEF Call
  <2>7. PICK y : y = [x EXCEPT !.todo = X]
    OBVIOUS
  <2>8. y \in JobsOver(U, m, B)
    BY <2>5, <2>6, <2>7, OtherCalls
  <2>9. Proceeds(w, [j EXCEPT !.known = k, !.todo = X])
    BY <1>1, <1>2, <1>14, <2>2
  <2>10. y = [j EXCEPT !.known = k, !.todo = X]
    BY <1>12, <2>4, <2>7, JobParts
  <2>11. Proceeds(w, y) /\ y \in Jobs(U, m)
    BY <1>11, <2>8, <2>9, <2>10 DEF Jobs
  <2> QED
    BY <1>2, <1>3, <1>4, <1>7, <1>9, <1>13, <2>11, CallTypes
<1>15. CASE ~(answer = "done" /\ c.tab \notin T)
  <2>1. PICK y : y = IF c.kind = "append" THEN Noted(j, c) ELSE Failed(j)
    OBVIOUS
  <2>2. y \in Jobs(U, m)
    BY <1>11, <1>12, <2>1, NotedJob, FailedJob DEF Jobs
  <2>3. Proceeds(w, y)
    BY <1>1, <1>2, <1>15, <2>1
  <2> QED
    BY <1>2, <1>3, <1>4, <1>7, <1>9, <1>13, <2>2, <2>3, CallTypes
<1> QED
  BY <1>14, <1>15

LEMMA WriteHeaderTypes ==
    ASSUME SheetInv, QueueTypeOK, NEW w \in Workers, WriteHeader(w)
    PROVE  SheetInv'
<1>1. PICK c \in Due(job[w]), answer \in Answers("header") :
       LET j == Made(job[w], c) IN
           /\ c.kind = "header"
           /\ Count(answer)
           /\ IF answer = "refused" THEN UNCHANGED grid
              ELSE Writes(c.tab, Overlay(grid[c.tab], 1, <<HeaderOf(j, c.tab)>>))
           /\ Proceeds(w, IF answer = "done" THEN Made(j, Call("check", c.tab))
                 ELSE IF j.op = "reconcile" THEN Noted(j, Call("append", c.tab)) ELSE Failed(j))
  BY Zenon DEF WriteHeader
<1>2. PICK j, T, n, B : j = Made(job[w], c) /\ T = ToSet(tabs) /\ n = Events /\ B = CutInto(T, n)
  OBVIOUS
<1>3. c.tab \in Tabs /\ c.tab \in T /\ job[w] \in JobsOver(T, n, B)
  BY <1>1, <1>2, DueCalls DEF Jobs
<1>4. j \in JobsOver(T, n, B)
  BY <1>2, <1>3, MadeJob
<1>5. PICK i : i = IF answer = "done" THEN Made(j, Call("check", c.tab))
                   ELSE IF j.op = "reconcile" THEN Noted(j, Call("append", c.tab)) ELSE Failed(j)
  OBVIOUS
<1>6. i \in Jobs(ToSet(tabs), Events)
  BY <1>2, <1>4, <1>5, MadeJob, NotedJob, FailedJob DEF Jobs
<1>7. Proceeds(w, i)
  BY <1>1, <1>2, <1>5
<1>8. PICK L : L = Overlay(grid[c.tab], 1, <<HeaderOf(j, c.tab)>>)
  OBVIOUS
<1>9. L \in Sheets
  <2>1. HeaderOf(j, c.tab) \in LineSet
    BY <1>3, <1>4, JobParts, HeaderLine
  <2>2. PICK new : new = <<HeaderOf(j, c.tab)>>
    OBVIOUS
  <2>3. new \in Seq(LineSet) /\ Len(new) = 1
    BY <2>1, <2>2
  <2>4. \A r \in 1 .. 1 : ~(r >= 2)
    OBVIOUS
  <2>5. new \in Sheets
    BY <2>3, <2>4, SheetOf
  <2>6. grid[c.tab] \in Sheets
    BY <1>3 DEF SheetInv
  <2> QED
    BY <1>8, <2>2, <2>5, <2>6, OverlaidSheet
<1>10. UNCHANGED grid \/ Writes(c.tab, L)
  BY <1>1, <1>2, <1>8
<1>11. faults' \in 0 .. MaxFaults /\ faults <= faults'
  BY <1>1, AnswerCounts
<1>12. UNCHANGED <<db, enabled, tabs, edits, toggles>>
  BY DEF WriteHeader
<1> QED
  BY <1>2, <1>3, <1>6, <1>7, <1>9, <1>10, <1>11, <1>12, WriteTypes

LEMMA CheckHeaderTypes ==
    ASSUME SheetInv, QueueTypeOK, NEW w \in Workers, CheckHeader(w)
    PROVE  SheetInv'
<1>1. PICK c \in Due(job[w]), answer \in Answers("check") :
       LET j == job[w]
       IN  /\ c.kind = "check" /\ c.tab \in ToSet(j.known)
           /\ Count(answer)
           /\ Proceeds(w,
                 IF answer # "done" THEN Failed(j)
                 ELSE IF Row1(c.tab) = Blank THEN [j EXCEPT !.todo = @ \cup {Call("header", c.tab)}]
                 ELSE IF SameHeader(j, c.tab) THEN Made(j, c)
                 ELSE [NewJob("resync", {}) EXCEPT !.back = <<Made(j, c)>>])
  BY Zenon DEF CheckHeader
<1>2. PICK j, T, n, B : j = job[w] /\ T = ToSet(tabs) /\ n = Events /\ B = CutInto(T, n)
  OBVIOUS
<1>3. /\ c.tab \in Tabs /\ c \in j.todo /\ j.op = "batch" /\ j \in JobsOver(T, n, B)
      /\ c.tab \in T
  BY <1>1, <1>2, DueCalls DEF Jobs
<1>4. PICK x : x = [j EXCEPT !.todo = j.todo \cup {Call("header", c.tab)}]
  OBVIOUS
<1>5. x \in JobsOver(T, n, B)
  <2>1. PICK X : X = j.todo \cup {Call("header", c.tab)}
    OBVIOUS
  <2>2. Call("header", c.tab) \in Calls
    BY <1>3 DEF Call, Calls
  <2>3. /\ X \in SUBSET Calls
        /\ \A d \in X : d.kind \in {"header", "scan", "write", "drop"} => d.tab \in T
        /\ \A d \in X : d.kind = "check" => j.op = "batch"
    BY <1>3, <2>1, <2>2, JobParts DEF Call
  <2>4. x = [j EXCEPT !.todo = X]
    BY <1>4, <2>1
  <2> QED
    BY <1>3, <2>3, <2>4, OtherCalls
<1>6. PICK m : m = Made(j, c)
  OBVIOUS
<1>7. m \in JobsOver(T, n, B) /\ m.op = "batch"
  BY <1>3, <1>6, MadeJob
<1>8. PICK y : y = [NewJob("resync", {}) EXCEPT !.back = <<m>>]
  OBVIOUS
<1>9. y \in JobsOver(T, n, B)
  <2>1. m \in JobsOver(T, n, {<<>>})
    BY <1>7, JobParts DEF JobsOver
  <2>2. <<m>> \in CutInto(T, n)
    <3>1. PICK S : S = {b \in JobsOver(T, n, {<<>>}) : b.op = "batch"}
      OBVIOUS
    <3>2. <<m>> \in [{1} -> S]
      BY <1>7, <2>1, <3>1
    <3> QED
      BY <3>1, <3>2 DEF CutInto
  <2>3. NewJob("resync", {}) \in JobsOver(T, n, {<<>>})
    BY NewJobs DEF Ops
  <2>4. PICK b, z : b = <<m>> /\ z = NewJob("resync", {})
    OBVIOUS
  <2>5. z.op = "resync"
    BY <2>4 DEF NewJob
  <2>6. z \in JobsOver(T, n, {<<>>}) /\ b \in B /\ y = [z EXCEPT !.back = b]
    BY <1>2, <1>8, <2>2, <2>3, <2>4
  <2> QED
    BY <2>5, <2>6, OtherBack
<1>10. PICK i : i = IF answer # "done" THEN Failed(j)
                    ELSE IF Row1(c.tab) = Blank THEN x
                    ELSE IF SameHeader(j, c.tab) THEN m ELSE y
  OBVIOUS
<1>11. i \in Jobs(ToSet(tabs), Events)
  BY <1>2, <1>3, <1>5, <1>7, <1>9, <1>10, FailedJob DEF Jobs
<1>12. Proceeds(w, i)
  BY <1>1, <1>2, <1>4, <1>6, <1>8, <1>10
<1>13. faults' \in 0 .. MaxFaults /\ faults <= faults'
  BY <1>1, AnswerCounts
<1>14. UNCHANGED <<db, enabled, sheetVars, edits, toggles>>
  BY DEF CheckHeader
<1> QED
  BY <1>11, <1>12, <1>13, <1>14, ReadTypes

(* A job with the same rows, as it reads on.                                 *)
SameDocs(i, j) == i.op = j.op /\ i.docs = j.docs /\ i.dels = j.dels /\ i.back = j.back

(* A job that has the places a tab shows added to those it found.            *)
LEMMA ScannedJob ==
    ASSUME NEW T, NEW n, NEW B, NEW j \in JobsOver(T, n, B), NEW t \in Tabs, t \in T,
           grid \in [Tabs -> Sheets],
           NEW X, X = j.found \cup (IF Owned(t) THEN PlacesIn(t) ELSE {}),
           NEW x, x = [j EXCEPT !.found = X]
    PROVE  /\ x \in JobsOver(T, n, B) /\ SameDocs(x, j) /\ x.found = X
           /\ x.known = j.known /\ x.plans = j.plans /\ x.ok = j.ok /\ x.todo = j.todo
<1>1. /\ j.found \in SUBSET Places /\ Bounded(j.found)
      /\ \A p \in j.found : p.tab \in T /\ p.row >= 2
  BY JobParts
<1>2. /\ PlacesIn(t) \in SUBSET Places /\ Bounded(PlacesIn(t))
      /\ \A p \in PlacesIn(t) : p.tab \in T /\ p.row >= 2
  BY FoundPlaces
<1>3. PICK a \in Nat, b \in Nat : /\ (\A p \in j.found : p.row <= a)
                                 /\ (\A p \in PlacesIn(t) : p.row <= b)
  BY <1>1, <1>2 DEF Bounded
<1>4. \A p \in X : p.row \in Nat
  BY <1>1, <1>2 DEF Places
<1>5. a + b \in Nat /\ \A p \in X : p.row <= a + b
  BY <1>3, <1>4
<1>6. Bounded(X)
  BY <1>5 DEF Bounded
<1>7. X \in SUBSET Places /\ \A p \in X : p.tab \in T /\ p.row >= 2
  BY <1>1, <1>2
<1>8. x \in JobsOver(T, n, B)
  BY <1>6, <1>7, OtherFound
<1> QED
  BY <1>8, JobParts DEF SameDocs

LEMMA ScanTypes ==
    ASSUME SheetInv, QueueTypeOK, NEW w \in Workers, Scan(w)
    PROVE  SheetInv'
<1>1. PICK c \in Due(job[w]), answer \in Answers("scan") :
       LET j == Made(job[w], c)
           changed == /\ j.op = "reconcile" /\ Owned(c.tab) /\ c.tab \in Groups(j)
                      /\ grid[c.tab][1].layout # j.plans[c.tab]
       IN  /\ c.kind = "scan"
           /\ Count(answer)
           /\ Proceeds(w,
                 IF answer # "done" THEN Failed(j)
                 ELSE IF changed THEN NewJob("resync", {})
                 ELSE WhenRead([j EXCEPT !.found = @ \cup IF Owned(c.tab) THEN PlacesIn(c.tab) ELSE {}]))
  BY Zenon DEF Scan
<1>2. PICK j, T, n, B : j = Made(job[w], c) /\ T = ToSet(tabs) /\ n = Events /\ B = CutInto(T, n)
  OBVIOUS
<1>3. c.tab \in Tabs /\ c.tab \in T /\ job[w] \in JobsOver(T, n, B)
  BY <1>1, <1>2, DueCalls DEF Jobs
<1>4. j \in JobsOver(T, n, B)
  BY <1>2, <1>3, MadeJob
<1>5. PICK X : X = j.found \cup (IF Owned(c.tab) THEN PlacesIn(c.tab) ELSE {})
  OBVIOUS
<1>7. PICK x : x = [j EXCEPT !.found = X]
  OBVIOUS
<1>8. x \in JobsOver(T, n, B)
  BY <1>3, <1>4, <1>5, <1>7, ScannedJob DEF SheetInv
<1>9. WhenRead(x) \in JobsOver(T, n, B) /\ NewJob("resync", {}) \in Jobs(T, n)
  BY <1>8, ReadJob, NewJobs DEF Ops
<1>10. PICK i : i = IF answer # "done" THEN Failed(j)
                    ELSE IF /\ j.op = "reconcile" /\ Owned(c.tab) /\ c.tab \in Groups(j)
                            /\ grid[c.tab][1].layout # j.plans[c.tab]
                         THEN NewJob("resync", {}) ELSE WhenRead(x)
  OBVIOUS
<1>11. i \in Jobs(ToSet(tabs), Events)
  BY <1>2, <1>4, <1>9, <1>10, FailedJob DEF Jobs
<1>12. Proceeds(w, i)
  BY <1>1, <1>2, <1>5, <1>7, <1>10
<1>13. faults' \in 0 .. MaxFaults /\ faults <= faults'
  BY <1>1, AnswerCounts
<1>14. UNCHANGED <<db, enabled, sheetVars, edits, toggles>>
  BY DEF Scan
<1> QED
  BY <1>11, <1>12, <1>13, <1>14, ReadTypes

(* All updates in one write: every tab keeps its header on top.              *)
Updated(j, t) ==
    LET here(r) == {p \in ToUpdate(j) : p.tab = t /\ p.row = r}
        last == {p.row : p \in {p \in ToUpdate(j) : p.tab = t}} \cup {Len(grid[t])}
        size == CHOOSE n \in last : \A m \in last : m <= n
    IN  [r \in 1 .. size |->
            IF here(r) # {} THEN RowOf(j, (CHOOSE p \in here(r) : TRUE).id)
            ELSE IF r <= Len(grid[t]) THEN grid[t][r] ELSE Blank]

LEMMA UpdatedSize ==
    ASSUME NEW T, NEW n, NEW B, NEW j \in JobsOver(T, n, B), NEW t \in Tabs, grid \in [Tabs -> Sheets],
           NEW last, last = {p.row : p \in {p \in ToUpdate(j) : p.tab = t}} \cup {Len(grid[t])},
           NEW size, size = CHOOSE k \in last : \A m \in last : m <= k
    PROVE  /\ size \in last /\ size \in Nat /\ \A m \in last : m <= size
<1>1. ToUpdate(j) \subseteq j.found /\ \A p \in ToUpdate(j) : AtHome(j, p)
  BY DEF ToUpdate, FirstAtHome
<1>2. grid[t] \in Sheets
  OBVIOUS
<1>3. Len(grid[t]) \in Nat
  BY <1>2, SheetLines
<1>4. PICK b \in Nat : \A p \in j.found : p.row <= b
  BY JobParts DEF Bounded
<1>5. last \in SUBSET Nat /\ last # {}
  BY <1>1, <1>3, JobParts DEF Places
<1>6. \A m \in last : m <= b + Len(grid[t])
  <2>1. \A p \in j.found : p.row \in Nat
    BY JobParts DEF Places
  <2>2. \A p \in j.found : p.row <= b + Len(grid[t])
    BY <1>3, <1>4, <2>1
  <2>3. Len(grid[t]) <= b + Len(grid[t])
    BY <1>3
  <2> QED
    BY <1>1, <2>2, <2>3
<1>7. b + Len(grid[t]) \in Nat
  BY <1>3
<1>8. \E k \in last : \A m \in last : m <= k
  BY <1>5, <1>6, <1>7, GreatestBelow
<1>9. size \in last /\ \A m \in last : m <= size
  BY <1>8
<1> QED
  BY <1>5, <1>9

LEMMA UpdatedSheet ==
    ASSUME NEW T, NEW n, NEW B, NEW j \in JobsOver(T, n, B), NEW t \in Tabs, grid \in [Tabs -> Sheets]
    PROVE  /\ Updated(j, t) \in Sheets
           /\ t \notin T /\ grid[t] = <<>> => Updated(j, t) = <<>>
<1>1. PICK last : last = {p.row : p \in {p \in ToUpdate(j) : p.tab = t}} \cup {Len(grid[t])}
  OBVIOUS
<1>2. PICK size : size = CHOOSE k \in last : \A m \in last : m <= k
  OBVIOUS
<1>3. /\ size \in last /\ size \in Nat
      /\ ToUpdate(j) \subseteq j.found
      /\ \A p \in ToUpdate(j) : AtHome(j, p)
  <2>1. size \in last
    BY <1>1, <1>2, UpdatedSize
  <2>2. size \in Nat
    BY <1>1, <1>2, UpdatedSize
  <2>3. ToUpdate(j) \subseteq j.found /\ \A p \in ToUpdate(j) : AtHome(j, p)
    BY DEF ToUpdate, FirstAtHome
  <2> QED
    BY <2>1, <2>2, <2>3
<1> DEFINE here(r) == {p \in ToUpdate(j) : p.tab = t /\ p.row = r}
           line(r) == IF here(r) # {} THEN RowOf(j, (CHOOSE p \in here(r) : TRUE).id)
                      ELSE IF r <= Len(grid[t]) THEN grid[t][r] ELSE Blank
<1>4. Updated(j, t) = [r \in 1 .. size |-> line(r)]
  BY <1>1, <1>2 DEF Updated
<1>5. grid[t] \in Sheets
  OBVIOUS
<1>6. /\ Len(grid[t]) \in Nat
      /\ \A r \in 1 .. Len(grid[t]) : grid[t][r] \in LineSet /\ (r >= 2 => grid[t][r].id # Label)
  BY <1>5, SheetLines
<1>7. ASSUME NEW r \in 1 .. size  PROVE line(r) \in LineSet /\ (r >= 2 => line(r).id # Label)
  <2>1. CASE here(r) # {}
    <3>1. PICK p : p = CHOOSE q \in here(r) : TRUE
      OBVIOUS
    <3>2. p \in here(r)
      BY <2>1, <3>1
    <3>3. p.id \in DocsOf(j)
      BY <1>3, <3>2 DEF AtHome
    <3>4. RowOf(j, p.id) \in LineSet /\ RowOf(j, p.id).id # Label
      BY <3>3, JobParts, RowLines
    <3> QED
      BY <2>1, <3>1, <3>4
  <2>2. CASE here(r) = {} /\ r <= Len(grid[t])
    <3>1. r \in 1 .. Len(grid[t])
      BY <1>3, <1>6, <2>2
    <3>2. line(r) = grid[t][r]
      BY <2>2
    <3> QED
      BY <1>6, <3>1, <3>2
  <2>3. CASE here(r) = {} /\ ~(r <= Len(grid[t]))
    <3>1. line(r) = Blank
      BY <2>3
    <3> QED
      BY <3>1, BlankLine
  <2> QED
    BY <2>1, <2>2, <2>3
<1> HIDE DEF line, here
<1>8. PICK f : f = [r \in 1 .. size |-> line(r)]
  OBVIOUS
<1>9. f \in [1 .. size -> LineSet]
  BY <1>7, <1>8
<1>10. f \in Seq(LineSet) /\ Len(f) = size
  BY <1>3, <1>9, SequenceOf
<1>11. f \in Sheets
  BY <1>7, <1>8, <1>10, SheetOf
<1>12. ASSUME t \notin T, grid[t] = <<>>  PROVE f = <<>>
  <2>1. {p \in ToUpdate(j) : p.tab = t} = {}
    BY <1>3, <1>12, JobParts
  <2>2. last = {Len(grid[t])}
    BY <1>1, <2>1
  <2>3. Len(grid[t]) = 0
    BY <1>12, EmptySeq
  <2>4. size = 0
    BY <1>3, <2>2, <2>3
  <2> QED
    BY <1>10, <2>4, EmptySeq
<1> QED
  BY <1>4, <1>8, <1>11, <1>12

LEMMA UpdateTypes ==
    ASSUME SheetInv, QueueTypeOK, NEW w \in Workers, Update(w)
    PROVE  SheetInv'
<1>1. PICK c \in Due(job[w]), answer \in Answers("update") :
       /\ Count(answer)
       /\ grid' = IF answer = "refused" THEN grid ELSE [t \in Tabs |-> Updated(job[w], t)]
       /\ Proceeds(w, IF answer = "done" THEN Made(job[w], c) ELSE Noted(job[w], c))
  BY DEF Update, Updated
<1>2. PICK j, T, n, B : j = job[w] /\ T = ToSet(tabs) /\ n = Events /\ B = CutInto(T, n)
  OBVIOUS
<1>3. j \in JobsOver(T, n, B)
  BY <1>1, <1>2, DueCalls DEF Jobs
<1>4. PICK i : i = IF answer = "done" THEN Made(j, c) ELSE Noted(j, c)
  OBVIOUS
<1>5. i \in Jobs(T, n)
  BY <1>2, <1>3, <1>4, MadeJob, NotedJob DEF Jobs
<1>6. Proceeds(w, i)
  BY <1>1, <1>2, <1>4
<1>7. faults' \in 0 .. MaxFaults /\ faults <= faults'
  BY <1>1, AnswerCounts
<1>8. UNCHANGED <<db, enabled, tabs, edits, toggles>>
  BY DEF Update
<1>9. PICK m : m = Events'
  OBVIOUS
<1>10. n \in Nat /\ m \in Nat /\ n <= m
  BY <1>2, <1>7, <1>8, <1>9, EventCounts DEF Events
<1>11. i \in Jobs(T, m)
  BY <1>5, <1>10, JobsGrow
<1>12. \A t \in Tabs : Updated(j, t) \in Sheets
  BY <1>3, UpdatedSheet DEF SheetInv
<1>13. \A t \in Tabs \ T : Updated(j, t) = <<>>
  BY <1>2, <1>3, UpdatedSheet DEF SheetInv
<1>14. grid' \in [Tabs -> Sheets] /\ \A t \in Tabs \ T : grid'[t] = <<>>
  <2>1. CASE grid' = grid
    BY <1>2, <2>1 DEF SheetInv
  <2>2. CASE grid' = [t \in Tabs |-> Updated(j, t)]
    BY <1>12, <1>13, <2>2
  <2> QED
    BY <1>1, <1>2, <2>1, <2>2
<1> QED
  BY <1>2, <1>6, <1>7, <1>8, <1>9, <1>11, <1>14, CallTypes DEF SheetInv

LEMMA NewRows ==
    ASSUME NEW j, j.docs \in [Ids -> SeasonDocs], j.plans \in [Tabs -> Layouts],
           NEW ids \in SUBSET DocsOf(j), NEW new, new = RowsOf(j, ids)
    PROVE  new \in Seq(LineSet) /\ \A r \in DOMAIN new : new[r].id # Label
<1>1. ids \in SUBSET Ids
  BY DEF DocsOf
<1>2. \A id \in ids : RowOf(j, id) \in LineSet /\ RowOf(j, id).id # Label
  BY RowLines
<1>3. \A S : (\A id \in ids : RowOf(j, id) \in S) => RowsOf(j, ids) \in Seq(S)
  BY <1>1, RowsOnce
<1>4. \A k \in DOMAIN RowsOf(j, ids) : \E id \in ids : RowsOf(j, ids)[k] = RowOf(j, id)
  BY <1>1, RowsOnce
<1> QED
  BY <1>2, <1>3, <1>4

LEMMA AppendRowsTypes ==
    ASSUME SheetInv, QueueTypeOK, NEW w \in Workers, AppendRows(w)
    PROVE  SheetInv'
<1>1. PICK c \in Due(job[w]), answer \in Answers("append") :
       LET j == job[w] IN
           /\ c.kind = "append" /\ c.tab \in ToSet(j.known)
           /\ Count(answer)
           /\ IF answer = "refused" THEN UNCHANGED grid
              ELSE Writes(c.tab, Appended(grid[c.tab], RowsOf(j, ToAppend(j, c.tab))))
           /\ Proceeds(w, IF answer = "done" THEN Made(j, c) ELSE Noted(j, c))
  BY Zenon DEF AppendRows
<1>2. PICK j, T, n, B : j = job[w] /\ T = ToSet(tabs) /\ n = Events /\ B = CutInto(T, n)
  OBVIOUS
<1>3. c.tab \in Tabs /\ c.tab \in T /\ j \in JobsOver(T, n, B)
  BY <1>1, <1>2, DueCalls DEF Jobs
<1>4. PICK i : i = IF answer = "done" THEN Made(j, c) ELSE Noted(j, c)
  OBVIOUS
<1>5. i \in Jobs(ToSet(tabs), Events)
  BY <1>2, <1>3, <1>4, MadeJob, NotedJob DEF Jobs
<1>6. Proceeds(w, i)
  BY <1>1, <1>2, <1>4
<1>7. PICK new : new = RowsOf(j, ToAppend(j, c.tab))
  OBVIOUS
<1>8. new \in Seq(LineSet) /\ \A r \in DOMAIN new : new[r].id # Label
  <2>1. ToAppend(j, c.tab) \in SUBSET DocsOf(j)
    BY DEF ToAppend
  <2> QED
    BY <1>3, <1>7, <2>1, JobParts, NewRows
<1>9. grid[c.tab] \in Sheets
  BY <1>3 DEF SheetInv
<1>10. PICK L : L = Appended(grid[c.tab], new)
  OBVIOUS
<1>11. L \in Sheets
  BY <1>8, <1>9, <1>10, AppendedSheet
<1>12. UNCHANGED grid \/ Writes(c.tab, L)
  BY <1>1, <1>2, <1>7, <1>10
<1>13. faults' \in 0 .. MaxFaults /\ faults <= faults'
  BY <1>1, AnswerCounts
<1>14. UNCHANGED <<db, enabled, tabs, edits, toggles>>
  BY DEF AppendRows
<1> QED
  BY <1>2, <1>3, <1>5, <1>6, <1>11, <1>12, <1>13, <1>14, WriteTypes

LEMMA DropTypes ==
    ASSUME SheetInv, QueueTypeOK, NEW w \in Workers, Drop(w)
    PROVE  SheetInv'
<1>1. PICK c \in Due(job[w]), answer \in Answers("drop") :
       LET j == job[w]
           rows == {p.row : p \in {p \in ToDrop(j) : p.tab = c.tab}}
       IN  /\ c.kind = "drop"
           /\ Count(answer)
           /\ IF answer = "refused" THEN UNCHANGED grid
              ELSE Writes(c.tab, Without(grid[c.tab], rows))
           /\ Proceeds(w, IF answer = "done" THEN Made(j, c) ELSE Failed(j))
  BY Zenon DEF Drop
<1>2. PICK j, T, n, B : j = job[w] /\ T = ToSet(tabs) /\ n = Events /\ B = CutInto(T, n)
  OBVIOUS
<1>3. c.tab \in Tabs /\ c.tab \in T /\ j \in JobsOver(T, n, B)
  BY <1>1, <1>2, DueCalls DEF Jobs
<1>4. PICK i : i = IF answer = "done" THEN Made(j, c) ELSE Failed(j)
  OBVIOUS
<1>5. i \in Jobs(ToSet(tabs), Events)
  BY <1>2, <1>3, <1>4, MadeJob, FailedJob DEF Jobs
<1>6. Proceeds(w, i)
  BY <1>1, <1>2, <1>4
<1>7. PICK rows : rows = {p.row : p \in {p \in ToDrop(j) : p.tab = c.tab}}
  OBVIOUS
<1>8. grid[c.tab] \in Sheets
  BY <1>3 DEF SheetInv
<1>9. PICK L : L = Without(grid[c.tab], rows)
  OBVIOUS
<1>10. L \in Sheets
  BY <1>8, <1>9, SheetWithout
<1>11. UNCHANGED grid \/ Writes(c.tab, L)
  BY <1>1, <1>2, <1>7, <1>9
<1>12. faults' \in 0 .. MaxFaults /\ faults <= faults'
  BY <1>1, AnswerCounts
<1>13. UNCHANGED <<db, enabled, tabs, edits, toggles>>
  BY DEF Drop
<1> QED
  BY <1>2, <1>3, <1>5, <1>6, <1>10, <1>11, <1>12, <1>13, WriteTypes

LEMMA ClearTypes ==
    ASSUME SheetInv, QueueTypeOK, NEW w \in Workers, Clear(w)
    PROVE  SheetInv'
<1>1. PICK c \in Due(job[w]), answer \in Answers("clear") :
       LET j == job[w] IN
           /\ c.kind = "clear" /\ c.tab \in ToSet(j.known)
           /\ Count(answer)
           /\ IF answer = "refused" THEN UNCHANGED grid ELSE Writes(c.tab, <<>>)
           /\ Proceeds(w, IF answer = "done"
                 THEN [j EXCEPT !.todo = (@ \ {c}) \cup {Call("write", c.tab)}] ELSE Failed(j))
  BY Zenon DEF Clear
<1>2. PICK j, T, n, B : j = job[w] /\ T = ToSet(tabs) /\ n = Events /\ B = CutInto(T, n)
  OBVIOUS
<1>3. c.tab \in Tabs /\ c.tab \in T /\ j \in JobsOver(T, n, B)
  BY <1>1, <1>2, DueCalls DEF Jobs
<1>4. PICK X : X = (j.todo \ {c}) \cup {Call("write", c.tab)}
  OBVIOUS
<1>5. /\ X \in SUBSET Calls
      /\ \A d \in X : d.kind \in {"header", "scan", "write", "drop"} => d.tab \in T
      /\ \A d \in X : d.kind = "check" => j.op = "batch"
  <2>1. Call("write", c.tab) \in Calls
    BY <1>3 DEF Call, Calls
  <2> QED
    BY <1>3, <1>4, <2>1, JobParts DEF Call
<1>6. PICK x : x = [j EXCEPT !.todo = X]
  OBVIOUS
<1>7. x \in JobsOver(T, n, B)
  BY <1>3, <1>5, <1>6, OtherCalls
<1>8. PICK i : i = IF answer = "done" THEN x ELSE Failed(j)
  OBVIOUS
<1>9. i \in Jobs(ToSet(tabs), Events)
  BY <1>2, <1>3, <1>7, <1>8, FailedJob DEF Jobs
<1>10. Proceeds(w, i)
  BY <1>1, <1>2, <1>4, <1>6, <1>8
<1>11. UNCHANGED grid \/ Writes(c.tab, <<>>)
  BY <1>1
<1>12. faults' \in 0 .. MaxFaults /\ faults <= faults'
  BY <1>1, AnswerCounts
<1>13. UNCHANGED <<db, enabled, tabs, edits, toggles>>
  BY DEF Clear
<1> QED
  BY <1>2, <1>3, <1>9, <1>10, <1>11, <1>12, <1>13, EmptySheet, WriteTypes

LEMMA WriteRowsTypes ==
    ASSUME SheetInv, QueueTypeOK, NEW w \in Workers, Write(w)
    PROVE  SheetInv'
<1>1. PICK c \in Due(job[w]), answer \in Answers("write") :
       LET j == job[w]
           docs == {id \in DocsOf(j) : j.docs[id].season = c.tab}
       IN  /\ c.kind = "write"
           /\ Count(answer)
           /\ IF answer = "refused" THEN UNCHANGED grid
              ELSE Writes(c.tab, Overlay(grid[c.tab], 1, <<HeaderOf(j, c.tab)>> \o RowsOf(j, docs)))
           /\ Proceeds(w, IF answer = "done" THEN Made(j, c) ELSE Failed(j))
  BY Zenon DEF Write
<1>2. PICK j, T, n, B : j = job[w] /\ T = ToSet(tabs) /\ n = Events /\ B = CutInto(T, n)
  OBVIOUS
<1>3. c.tab \in Tabs /\ c.tab \in T /\ j \in JobsOver(T, n, B)
  BY <1>1, <1>2, DueCalls DEF Jobs
<1>4. PICK i : i = IF answer = "done" THEN Made(j, c) ELSE Failed(j)
  OBVIOUS
<1>5. i \in Jobs(ToSet(tabs), Events)
  BY <1>2, <1>3, <1>4, MadeJob, FailedJob DEF Jobs
<1>6. Proceeds(w, i)
  BY <1>1, <1>2, <1>4
<1>7. PICK docs : docs = {id \in DocsOf(j) : j.docs[id].season = c.tab}
  OBVIOUS
<1>8. PICK h, rows, new : /\ h = <<HeaderOf(j, c.tab)>> /\ rows = RowsOf(j, docs)
                          /\ new = h \o rows
  OBVIOUS
<1>9. new \in Sheets
  <2>1. HeaderOf(j, c.tab) \in LineSet
    BY <1>3, JobParts, HeaderLine
  <2>2. h \in Seq(LineSet) /\ Len(h) = 1
    BY <1>8, <2>1
  <2>3. docs \in SUBSET DocsOf(j)
    BY <1>7
  <2>4. rows \in Seq(LineSet) /\ \A r \in DOMAIN rows : rows[r].id # Label
    BY <1>3, <1>8, <2>3, JobParts, NewRows
  <2>5. Len(rows) \in Nat /\ DOMAIN rows = 1 .. Len(rows)
    BY <2>4, LenProperties
  <2>6. /\ new \in Seq(LineSet) /\ Len(new) = 1 + Len(rows)
        /\ \A r \in 1 .. (1 + Len(rows)) : new[r] = IF r <= 1 THEN h[r] ELSE rows[r - 1]
    BY <1>8, <2>2, <2>4, ConcatProperties
  <2>7. ASSUME NEW r \in 1 .. (1 + Len(rows)), r >= 2  PROVE new[r].id # Label
    <3>1. r - 1 \in 1 .. Len(rows) /\ ~(r <= 1)
      BY <2>5, <2>7
    <3> QED
      BY <2>4, <2>5, <2>6, <3>1
  <2>8. PICK k : k = 1 + Len(rows)
    OBVIOUS
  <2> QED
    BY <2>6, <2>7, <2>8, SheetOf
<1>10. grid[c.tab] \in Sheets
  BY <1>3 DEF SheetInv
<1>11. PICK L : L = Overlay(grid[c.tab], 1, new)
  OBVIOUS
<1>12. L \in Sheets
  BY <1>9, <1>10, <1>11, OverlaidSheet
<1>13. UNCHANGED grid \/ Writes(c.tab, L)
  BY <1>1, <1>2, <1>7, <1>8, <1>11
<1>14. faults' \in 0 .. MaxFaults /\ faults <= faults'
  BY <1>1, AnswerCounts
<1>15. UNCHANGED <<db, enabled, tabs, edits, toggles>>
  BY DEF Write
<1> QED
  BY <1>2, <1>3, <1>5, <1>6, <1>12, <1>13, <1>14, <1>15, WriteTypes

LEMMA JobStepTypes ==
    ASSUME SheetInv, QueueTypeOK, NEW w \in Workers, JobStep(w)
    PROVE  SheetInv'
BY ContextTypes, FetchTypes, CreateTabTypes, WriteHeaderTypes, CheckHeaderTypes, ScanTypes,
   UpdateTypes, AppendRowsTypes, DropTypes, ClearTypes, WriteRowsTypes DEF JobStep

(* A step that leaves the sheet alone and the jobs well-formed.              *)
LEMMA OutsideTypes ==
    ASSUME SheetInv, UNCHANGED sheetVars,
           job' \in [Workers -> Jobs(ToSet(tabs), Events)],
           db' \in [Ids -> SeasonDocs], \A id \in Ids : db'[id].ver <= edits',
           enabled' \in BOOLEAN, suspect' \in SUBSET Ids,
           edits' \in 0 .. MaxEdits, toggles' \in 0 .. MaxToggles, faults' \in 0 .. MaxFaults,
           edits <= edits', toggles <= toggles', faults <= faults'
    PROVE  SheetInv'
<1>1. PICK T, n, m : T = ToSet(tabs) /\ n = Events /\ m = Events'
  OBVIOUS
<1>2. n \in Nat /\ m \in Nat /\ n <= m
  <2>1. /\ edits \in Nat /\ toggles \in Nat /\ faults \in Nat
        /\ MaxEdits \in Nat /\ MaxToggles \in Nat /\ MaxFaults \in Nat
    BY EventCounts
  <2>2. edits' \in Nat /\ toggles' \in Nat /\ faults' \in Nat
    BY <2>1
  <2>3. n = edits + toggles + faults /\ m = edits' + toggles' + faults'
    BY <1>1 DEF Events
  <2>4. \A a, b, c, d, e, f \in Nat : a <= d /\ b <= e /\ c <= f => a + b + c <= d + e + f
    OBVIOUS
  <2>5. n <= m
    BY <2>1, <2>2, <2>3, <2>4
  <2>6. \A a, b, c \in Nat : a + b + c \in Nat
    OBVIOUS
  <2>7. n \in Nat
    BY <2>1, <2>3, <2>6
  <2>8. m \in Nat
    BY <2>2, <2>3, <2>6
  <2> QED
    BY <2>5, <2>7, <2>8
<1>3. \A i \in Jobs(T, n) : i \in Jobs(T, m)
  BY <1>2, JobsGrow
<1>4. job' \in [Workers -> Jobs(T, m)]
  BY <1>1, <1>3
<1>5. tabs' = tabs /\ grid' = grid /\ ToSet(tabs') = T
  BY <1>1 DEF sheetVars
<1> QED
  BY <1>1, <1>4, <1>5 DEF SheetInv

LEMMA StartTypes ==
    ASSUME SheetInv, QueueTypeOK, StartBatch \/ StartReconcile \/ StartResync
    PROVE  SheetInv'
<1>1. PICK T, n : T = ToSet(tabs) /\ n = Events
  OBVIOUS
<1>2. job \in [Workers -> Jobs(T, n)] /\ n \in Nat
  BY <1>1, EventCounts DEF SheetInv
<1>3. /\ db \in [Ids -> SeasonDocs] /\ \A id \in Ids : db[id].ver \in Nat /\ db[id].ver <= edits
      /\ enabled \in BOOLEAN /\ suspect \in SUBSET Ids
      /\ edits \in 0 .. MaxEdits /\ toggles \in 0 .. MaxToggles /\ faults \in 0 .. MaxFaults
      /\ edits <= edits /\ toggles <= toggles /\ faults <= faults
  BY EventCounts DEF SheetInv, SeasonDocs, Docs
<1>4. CASE StartBatch
  <2>1. deletes \in SUBSET Ids
    BY DEF QueueTypeOK
  <2>2. PICK i : i = NewJob("batch", deletes)
    OBVIOUS
  <2>3. i \in Jobs(T, n)
    BY <2>1, <2>2, NewJobs DEF Ops
  <2>4. job' \in [Workers -> Jobs(T, n)]
    BY <1>2, <1>4, <2>2, <2>3 DEF StartBatch
  <2>5. UNCHANGED <<db, enabled, sheetVars, suspect, edits, toggles, faults>>
    BY <1>4 DEF StartBatch, envVars
  <2> QED
    BY <1>1, <1>3, <2>4, <2>5, OutsideTypes
<1>5. CASE StartReconcile
  <2>1. PICK s : s = IF Resting THEN <<Events>> ELSE <<>>
    OBVIOUS
  <2>2. s \in {<<>>} \cup [{1} -> 0 .. n]
    <3>1. n \in 0 .. n
      BY <1>2
    <3>2. <<n>> \in [{1} -> 0 .. n]
      BY <3>1
    <3> QED
      BY <1>1, <2>1, <3>2
  <2>3. PICK B, z : B = CutInto(T, n) /\ z = NewJob("reconcile", {})
    OBVIOUS
  <2>4. z \in JobsOver(T, n, B)
    BY <2>3, NewJobs DEF Ops, Jobs
  <2>5. PICK y : y = [z EXCEPT !.since = s]
    OBVIOUS
  <2>6. y \in JobsOver(T, n, B)
    BY <2>2, <2>4, <2>5, OtherSince
  <2>7. ASSUME NEW w \in Workers  PROVE [job[w] EXCEPT !.met = ~Idle(w)] \in Jobs(T, n)
    <3>1. PICK x, i, b : x = ~Idle(w) /\ i = job[w] /\ b = [job[w] EXCEPT !.met = ~Idle(w)]
      OBVIOUS
    <3>2. x \in BOOLEAN /\ i \in JobsOver(T, n, B) /\ b = [i EXCEPT !.met = x]
      BY <1>2, <2>3, <3>1 DEF Jobs, Idle
    <3>3. b \in JobsOver(T, n, B)
      BY <3>2, OtherMet
    <3> QED
      BY <2>3, <3>1, <3>3 DEF Jobs
  <2>8. job' = [w \in Workers |-> IF w = "cron" THEN y ELSE [job[w] EXCEPT !.met = ~Idle(w)]]
    BY <1>5, <2>1, <2>3, <2>5 DEF StartReconcile
  <2>9. y \in Jobs(T, n)
    BY <2>3, <2>6 DEF Jobs
  <2>10. job' \in [Workers -> Jobs(T, n)]
    BY <2>7, <2>8, <2>9
  <2>11. UNCHANGED <<db, enabled, sheetVars, suspect, edits, toggles, faults>>
    BY <1>5 DEF StartReconcile, envVars
  <2> QED
    BY <1>1, <1>3, <2>10, <2>11, OutsideTypes
<1>6. CASE StartResync
  <2>1. PICK i : i = NewJob("resync", {})
    OBVIOUS
  <2>2. i \in Jobs(T, n)
    BY <2>1, NewJobs DEF Ops
  <2>3. job' \in [Workers -> Jobs(T, n)]
    BY <1>2, <1>6, <2>1, <2>2 DEF StartResync
  <2>4. UNCHANGED <<db, enabled, sheetVars, suspect, toggles, faults>>
    BY <1>6 DEF StartResync
  <2>5. edits' \in 0 .. MaxEdits /\ edits <= edits' /\ \A id \in Ids : db[id].ver <= edits'
    BY <1>3, <1>6, EventCounts DEF StartResync
  <2> QED
    BY <1>1, <1>3, <2>3, <2>4, <2>5, OutsideTypes
<1> QED
  BY <1>4, <1>5, <1>6

LEMMA SaveTypes ==
    ASSUME SheetInv, QueueTypeOK, SaveDocument \/ \E t \in Seasons : DeleteSeason(t)
    PROVE  SheetInv'
<1>1. PICK T, n : T = ToSet(tabs) /\ n = Events
  OBVIOUS
<1>2. job \in [Workers -> Jobs(T, n)]
  BY <1>1 DEF SheetInv
<1>3. /\ enabled \in BOOLEAN /\ suspect \in SUBSET Ids
      /\ edits \in 0 .. MaxEdits /\ toggles \in 0 .. MaxToggles /\ faults \in 0 .. MaxFaults
      /\ edits <= edits /\ toggles <= toggles /\ faults <= faults
      /\ MaxEdits \in Nat /\ edits \in Nat
  BY EventCounts DEF SheetInv
<1>4. edits' = edits + 1 /\ edits' \in 0 .. MaxEdits /\ edits <= edits'
  <2>1. edits < MaxEdits /\ edits' = edits + 1
    BY Zenon DEF SaveDocument, DeleteSeason
  <2> QED
    BY <1>3, <2>1
<1>5. UNCHANGED <<enabled, sheetVars, job, toggles, faults>>
  BY DEF SaveDocument, DeleteSeason
<1>6. db \in [Ids -> SeasonDocs]
  BY DEF SheetInv
<1>7. \A id \in Ids : db[id].ver \in Nat /\ db[id].ver <= edits
  BY <1>3, <1>6 DEF SheetInv, SeasonDocs, Docs
<1>8. suspect' \in SUBSET Ids
  BY <1>3 DEF SaveDocument, DeleteSeason
<1>9. ASSUME NEW id \in Ids, NEW d, d \in SeasonDocs, d.ver <= edits', db' = [db EXCEPT ![id] = d]
      PROVE  db' \in [Ids -> SeasonDocs] /\ \A i \in Ids : db'[i].ver <= edits'
  <2>1. db' \in [Ids -> SeasonDocs]
    BY <1>6, <1>9
  <2>2. ASSUME NEW i \in Ids  PROVE db'[i].ver <= edits'
    <3>1. db'[i] = IF i = id THEN d ELSE db[i]
      BY <1>6, <1>9
    <3>2. db[i].ver <= edits + 1
      BY <1>3, <1>7
    <3> QED
      BY <1>4, <1>9, <3>1, <3>2
  <2> QED
    BY <2>1, <2>2
<1>10. db' \in [Ids -> SeasonDocs] /\ \A i \in Ids : db'[i].ver <= edits'
  <2>1. ASSUME NEW id \in Ids, NEW t \in Seasons, Submit(id, t)
        PROVE  db' \in [Ids -> SeasonDocs] /\ \A i \in Ids : db'[i].ver <= edits'
    <3>1. PICK d : d = [live |-> TRUE, season |-> t, ver |-> 1]
      OBVIOUS
    <3>2. 1 \in 0 .. MaxEdits /\ 1 <= edits'
      BY <1>3, <1>4
    <3>3. d \in SeasonDocs /\ d.ver <= edits'
      BY <3>1, <3>2 DEF SeasonDocs, Docs
    <3> QED
      BY <1>9, <2>1, <3>1, <3>3 DEF Submit
  <2>2. ASSUME NEW id \in Ids, NEW t \in Seasons, Edit(id, t)
        PROVE  db' \in [Ids -> SeasonDocs] /\ \A i \in Ids : db'[i].ver <= edits'
    <3>1. PICK v, d : v = db[id].ver + 1 /\ d = [live |-> TRUE, season |-> t, ver |-> v]
      OBVIOUS
    <3>2. v \in 0 .. MaxEdits /\ v <= edits'
      BY <1>3, <1>4, <1>7, <3>1
    <3>3. d \in SeasonDocs /\ d.ver <= edits'
      BY <3>1, <3>2 DEF SeasonDocs, Docs
    <3>4. db' = [db EXCEPT ![id] = d]
      BY <1>6, <2>2, <3>1 DEF Edit
    <3> QED
      BY <1>9, <3>3, <3>4
  <2>3. ASSUME NEW id \in Ids, Delete(id)
        PROVE  db' \in [Ids -> SeasonDocs] /\ \A i \in Ids : db'[i].ver <= edits'
    <3>1. PICK d : d = [db[id] EXCEPT !.live = FALSE]
      OBVIOUS
    <3>2. db' = [db EXCEPT ![id] = d]
      BY <1>6, <2>3, <3>1 DEF Delete
    <3>3. db[id] \in Docs
      BY <1>6 DEF SeasonDocs
    <3>4. d \in SeasonDocs /\ d.ver = db[id].ver
      BY <3>1, <3>3 DEF SeasonDocs, Docs
    <3>5. d.ver <= edits'
      BY <1>3, <1>4, <1>7, <3>4
    <3> QED
      BY <1>9, <3>2, <3>4, <3>5
  <2>4. ASSUME NEW t \in Seasons, DeleteSeason(t)
        PROVE  db' \in [Ids -> SeasonDocs] /\ \A i \in Ids : db'[i].ver <= edits'
    <3>1. PICK gone :
            db' = [id \in Ids |-> IF id \in gone THEN [db[id] EXCEPT !.live = FALSE] ELSE db[id]]
      BY <2>4 DEF DeleteSeason
    <3>2. ASSUME NEW id \in Ids
          PROVE  /\ [db[id] EXCEPT !.live = FALSE] \in SeasonDocs
                 /\ [db[id] EXCEPT !.live = FALSE].ver = db[id].ver
      <4>1. db[id] \in Docs
        BY <1>6 DEF SeasonDocs
      <4> QED
        BY <4>1 DEF SeasonDocs, Docs
    <3>3. db' \in [Ids -> SeasonDocs]
      BY <1>6, <3>1, <3>2
    <3>4. \A id \in Ids : db'[id].ver = db[id].ver
      BY <3>1, <3>2
    <3> QED
      BY <1>3, <1>4, <1>7, <3>3, <3>4
  <2> QED
    BY <2>1, <2>2, <2>3, <2>4 DEF SaveDocument
<1>11. job' \in [Workers -> Jobs(T, n)]
  BY <1>2, <1>5
<1> QED
  BY <1>1, <1>3, <1>4, <1>5, <1>8, <1>10, <1>11, OutsideTypes

LEMMA RestartTypes ==
    ASSUME SheetInv, QueueTypeOK, Restart
    PROVE  SheetInv'
<1>1. PICK T, n : T = ToSet(tabs) /\ n = Events
  OBVIOUS
<1>2. NoJob \in Jobs(T, n)
  BY NewJobs DEF Ops
<1>3. job' \in [Workers -> Jobs(T, n)]
  BY <1>2 DEF Restart
<1>4. UNCHANGED <<db, enabled, sheetVars, edits, toggles>>
  BY DEF Restart
<1>5. suspect' \in SUBSET Ids
  BY DEF Restart, SheetInv, QueueTypeOK, Pending, Taken
<1>6. /\ faults' \in 0 .. MaxFaults /\ faults <= faults' /\ edits <= edits /\ toggles <= toggles
  BY EventCounts DEF SheetInv, Restart
<1> QED
  BY <1>1, <1>3, <1>4, <1>5, <1>6, OutsideTypes DEF SheetInv

LEMMA SheetStep == SheetInv /\ QueueTypeOK /\ [Next]_vars => SheetInv'
<1> SUFFICES ASSUME SheetInv, QueueTypeOK, [Next]_vars  PROVE SheetInv'
  OBVIOUS
<1>1. ASSUME NEW w \in Workers, JobStep(w)  PROVE SheetInv'
  BY <1>1, JobStepTypes
<1>2. CASE StartBatch \/ StartReconcile \/ StartResync
  BY <1>2, StartTypes
<1>3. CASE FlushDefers /\ UNCHANGED <<db, enabled, sheetVars, job, suspect, envVars>>
  BY <1>3 DEF SheetInv, sheetVars, envVars, Events
<1>4. CASE SaveDocument \/ \E t \in Seasons : DeleteSeason(t)
  BY <1>4, SaveTypes
<1>5. CASE SetEnabled
  <2>1. UNCHANGED <<db, sheetVars, job, suspect, edits, faults>> /\ enabled' \in BOOLEAN
    BY <1>5 DEF SetEnabled, SheetInv
  <2>2. /\ toggles' \in 0 .. MaxToggles /\ toggles <= toggles' /\ edits <= edits /\ faults <= faults
    BY <1>5, EventCounts DEF SetEnabled, SheetInv
  <2> QED
    BY <2>1, <2>2, OutsideTypes DEF SheetInv
<1>6. CASE Restart
  BY <1>6, RestartTypes
<1>7. CASE UNCHANGED vars
  BY <1>7 DEF vars, SheetInv, sheetVars, envVars, Events
<1> QED
  BY <1>1, <1>2, <1>3, <1>4, <1>5, <1>6, <1>7 DEF Next

LEMMA SheetInit == Init => SheetInv
<1> SUFFICES ASSUME Init  PROVE SheetInv
  OBVIOUS
<1>1. MaxEdits \in Nat /\ MaxToggles \in Nat /\ MaxFaults \in Nat
  BY MirrorAssumption
<1>2. 0 \in 0 .. MaxEdits /\ 0 \in 0 .. MaxToggles /\ 0 \in 0 .. MaxFaults
  BY <1>1
<1>3. NoDoc \in SeasonDocs /\ NoDoc.ver <= 0
  BY <1>2 DEF NoDoc, SeasonDocs, Docs
<1>4. db \in [Ids -> SeasonDocs] /\ \A id \in Ids : db[id].ver <= edits
  BY <1>3 DEF Init
<1>5. tabs \in Seq(Tabs) /\ IsInjective(tabs)
  BY DEF Init, Tabs, IsInjective
<1>6. grid \in [Tabs -> Sheets] /\ \A t \in Tabs \ ToSet(tabs) : grid[t] = <<>>
  BY EmptySheet DEF Init
<1>7. PICK T, n : T = ToSet(tabs) /\ n = Events
  OBVIOUS
<1>8. NoJob \in Jobs(T, n)
  BY NewJobs DEF Ops
<1>9. job \in [Workers -> Jobs(T, n)]
  BY <1>8 DEF Init
<1> QED
  BY <1>2, <1>4, <1>5, <1>6, <1>7, <1>9 DEF Init, SheetInv

LEMMA SheetAlways == Spec => []SheetInv
<1>1. Spec => []QueueTypeOK
  BY MirrorKeepsQueue, QueueTypes, PTL
<1> QED
  BY <1>1, SheetInit, SheetStep, PTL DEF Spec

(* What the mirror holds is of its type: the tabs that have lines exist, a   *)
(* job knows and has read only tabs that exist, and only a rewrite stands in *)
(* for another job.                                                          *)
THEOREM MirrorTypes == Spec => []TypeOK
<1>1. SheetInv /\ QueueTypeOK => TypeOK
  <2> SUFFICES ASSUME SheetInv, QueueTypeOK  PROVE TypeOK
    OBVIOUS
  <2>1. ToSet(tabs) \subseteq Tabs /\ IsInjective(tabs)
    <3>1. tabs \in Seq(Tabs) /\ IsInjective(tabs)
      BY DEF SheetInv
    <3> QED
      BY <3>1, LenProperties, ElementOfSeq DEF ToSet
  <2>2. /\ db \in [Ids -> Docs] /\ \A id \in Ids : db[id].live => db[id].season \in Seasons
        /\ enabled \in BOOLEAN /\ suspect \in SUBSET Ids
        /\ edits \in 0 .. MaxEdits /\ toggles \in 0 .. MaxToggles /\ faults \in 0 .. MaxFaults
    BY DEF SheetInv, SeasonDocs
  <2>3. grid \in [Tabs -> Seq(LineSet)] /\ \A t \in Tabs \ ToSet(tabs) : grid[t] = <<>>
    BY DEF SheetInv, Sheets
  <2>4. ASSUME NEW w \in Workers, NEW j, j = job[w]
        PROVE  /\ j.op \in Ops /\ (j.op # "resync" => j.back = <<>>)
               /\ j.docs \in [Ids -> Docs] /\ j.plans \in [Tabs -> Layouts]
               /\ ToSet(j.known) \subseteq ToSet(tabs) /\ j.dels \subseteq Ids
               /\ \A c \in j.todo : c.tab \in Tabs \cup {NoTab}
               /\ \A p \in j.found : p.id \in Ids /\ p.tab \in Tabs
               /\ ToSet(j.since) \subseteq 0 .. Events
    <3>1. PICK T, n, B : T = ToSet(tabs) /\ n = Events /\ B = CutInto(T, n)
      OBVIOUS
    <3>2. j \in JobsOver(T, n, B)
      BY <2>4, <3>1 DEF SheetInv, Jobs
    <3>3. /\ j.op \in Ops /\ (j.op # "resync" => j.back = <<>>)
          /\ j.plans \in [Tabs -> Layouts] /\ j.docs \in [Ids -> SeasonDocs]
          /\ ToSet(j.known) \subseteq T /\ j.dels \subseteq Ids
          /\ j.todo \in SUBSET Calls /\ j.found \in SUBSET Places
          /\ j.since \in {<<>>} \cup [{1} -> 0 .. n]
      BY <3>2, JobParts
    <3>4. j.docs \in [Ids -> Docs]
      BY <3>3 DEF SeasonDocs
    <3>5. \A c \in Calls : c.tab \in Tabs \cup {NoTab}
      BY DEF Calls
    <3>6. \A p \in Places : p.id \in Ids /\ p.tab \in Tabs
      BY DEF Places
    <3>7. ToSet(j.since) \subseteq 0 .. n
      <4>1. CASE j.since = <<>>
        BY <4>1 DEF ToSet
      <4>2. CASE j.since \in [{1} -> 0 .. n]
        BY <4>2 DEF ToSet
      <4> QED
        BY <3>3, <4>1, <4>2
    <3> QED
      BY <3>1, <3>3, <3>4, <3>5, <3>6, <3>7
  <2> QED
    BY <2>1, <2>2, <2>3, <2>4 DEF TypeOK
<1>2. Spec => []QueueTypeOK
  BY MirrorKeepsQueue, QueueTypes, PTL
<1> QED
  BY <1>1, <1>2, SheetAlways, PTL

-------------------------------------------------------------------------------
(* The queue alone: no scheduled pass, nobody asks for a rewrite, the link   *)
(* stays on and the form keeps a document once it has one. What follows is   *)
(* said of any tabs g and rows d of the database.                            *)
Alone == Workers = {"queue"} /\ MayEmpty = FALSE /\ MaxToggles = 0

Flush == job["queue"]
Body(L) == {L[r] : r \in 2 .. Len(L)}
Has(g, t, id) == \E l \in Body(g[t]) : l.id = id
Shows(g, t, id, v) == \E l \in Body(g[t]) : l.id = id /\ l.ver = v
ToDo(j, kind, t) == Call(kind, t) \in j.todo
HeadedBy(g, j, t) == g[t] # <<>> /\ g[t][1] = HeaderOf(j, t)

(* A tab in order: empty, or a header and under it documents, each once and  *)
(* in the header's columns.                                                  *)
Tidy(L) ==
    /\ L # <<>> => L[1].id = Label
    /\ \A r \in 2 .. Len(L) : L[r].id \in Ids /\ L[r].layout = L[1].layout
    /\ \A r, s \in 2 .. Len(L) : L[r].id = L[s].id => r = s

Standing(g, d, id) ==
    IF d[id].live
      THEN /\ Shows(g, d[id].season, id, d[id].ver)
           /\ \A t \in Tabs : t # d[id].season => ~Has(g, t, id)
      ELSE \A t \in Tabs : ~Has(g, t, id)

(* What a flush took, what waits again, what may still show a document that  *)
(* is gone, and everything there is left to do for.                          *)
Owed ==
    [ups |-> batch.upserts, dels |-> batch.deletes,
     again |-> Pending \cup suspect,
     lost |-> deletes \cup batch.deletes \cup suspect,
     open |-> Pending \cup Taken \cup suspect]

(* What waits and what was taken: a document to be removed is gone for good. *)
QueueInv ==
    /\ flushing <=> Flush.todo # {}
    /\ \A id \in deletes \cup batch.deletes : ~db[id].live /\ db[id] # NoDoc
    /\ batch.deletes \cap upserts = {}
    /\ \A id \in upserts : db[id].live \/ id \in suspect
    /\ \A id \in batch.upserts : db[id].live \/ id \in deletes \cup suspect

(* The tabs: in order, never ahead of the database, and a document that is   *)
(* gone is shown only while its removal is still to come.                    *)
TabsInv(g, d, lost) ==
    /\ \A t \in Tabs : Tidy(g[t])
    /\ \A t \in Tabs : \A l \in Body(g[t]) : l.ver <= d[l.id].ver
    /\ \A t \in Tabs : \A l \in Body(g[t]) : d[l.id].live \/ l.id \in lost

(* The rows a job read are those of the database, or they have changed since *)
(* and wait again.                                                           *)
RowsInv(d, j, q) ==
    /\ j.op = "batch" => DocsOf(j) \subseteq q.ups /\ j.dels = q.dels
    /\ j.op = "resync" => DocsOf(j) # {}
    /\ \A id \in Ids : j.op = "resync" \/ id \in q.ups => j.docs[id] = d[id] \/ id \in q.again
    /\ \A id \in DocsOf(j) : j.docs[id].ver <= d[id].ver

(* No line is newer than the row a job read.                                 *)
Fresh(g, j) ==
    \A t \in Tabs : \A l \in Body(g[t]) : l.id \in DocsOf(j) => l.ver <= j.docs[l.id].ver

(* T: the tabs the file has.                                                 *)
Starting(T, j) ==
    /\ j.ok /\ j.found = {}
    /\ \/ j.todo = {Call("context", NoTab)}
       \/ j.todo = {Call("fetch", NoTab)} /\ ToSet(j.known) = T

(* Where a tab in order shows which documents.                               *)
Scanned(L, t) ==
    {[id |-> L[r].id, tab |-> t, row |-> r, ver |-> L[r].ver] : r \in 2 .. Len(L)}

(* While tabs are checked and scanned, found is what the scanned ones show.  *)
Reading(g, T, j) ==
    /\ j.ok
    /\ \A c \in j.todo : c.kind \in {"header", "check", "scan"}
    /\ \E t \in T : ToDo(j, "scan", t)
    /\ \A c \in j.todo : c.kind # "scan" =>
          j.op = "batch" /\ c.tab \in Groups(j) /\ \A t \in T : ToDo(j, "scan", t)
    /\ \A t \in Tabs : ToDo(j, "header", t) => g[t] = <<>>
    /\ j.op = "batch" => \A t \in Groups(j) : ToDo(j, "check", t) \/ HeadedBy(g, j, t)
    /\ \A p \in j.found : p \in Scanned(g[p.tab], p.tab)
    /\ \A t \in T : ToDo(j, "scan", t) \/ Scanned(g[t], t) \subseteq j.found

Accurate(g, p) == p.row \in 2 .. Len(g[p.tab]) /\ g[p.tab][p.row].id = p.id

FoundAt(j, t, id) == \E p \in j.found : p.id = id /\ p.tab = t

(* Copies a batch has to remove.                                             *)
Unwanted(j, t, id) == id \in j.dels \/ (id \in DocsOf(j) /\ j.docs[id].season # t)

(* A batch that writes: its tabs have its columns, the places it found hold  *)
(* as long as it needs them, and what is not on its list is done.            *)
BatchWriting(g, j) ==
    /\ \A c \in j.todo : c.kind \in {"update", "append", "drop"}
    /\ \A t \in Tabs : ToDo(j, "append", t) => t \in Groups(j)
    /\ \A t \in Tabs : ToDo(j, "drop", t) => j.ok
    /\ \A t \in Groups(j) : HeadedBy(g, j, t)
    /\ \A p, q \in j.found : p.id = q.id /\ p.tab = q.tab => p = q
    /\ \A p \in j.found : ToDo(j, "update", NoTab) \/ ToDo(j, "drop", p.tab) => Accurate(g, p)
    /\ \A t \in Tabs : ToDo(j, "append", t) => \A id \in ToAppend(j, t) : ~Has(g, t, id)
    /\ j.ok => \A t \in Tabs, id \in Ids : Unwanted(j, t, id) /\ Has(g, t, id) =>
                  ToDo(j, "drop", t) /\ FoundAt(j, t, id)
    /\ j.ok => ToDo(j, "update", NoTab) \/
                  \A p \in j.found : AtHome(j, p) => Shows(g, p.tab, p.id, j.docs[p.id].ver)
    /\ j.ok => \A t \in Groups(j) : ToDo(j, "append", t) \/
                  \A id \in ToAppend(j, t) : Shows(g, t, id, j.docs[id].ver)

(* A tab that holds the rows of its season and nothing else.                 *)
Rewritten(g, j, t) ==
    /\ \A id \in Ids : Has(g, t, id) => id \in DocsOf(j) /\ j.docs[id].season = t
    /\ \A id \in DocsOf(j) : j.docs[id].season = t => Shows(g, t, id, j.docs[id].ver)

RewriteWriting(g, j) ==
    /\ j.ok
    /\ \A c \in j.todo : c.kind \in {"header", "clear", "write", "drop"}
    /\ \A c \in j.todo : c.kind # "drop" <=> c.tab \in Groups(j)
    /\ \A t \in Tabs : ToDo(j, "header", t) \/ ToDo(j, "write", t) => g[t] = <<>>
    /\ \A t, u \in Tabs : ToDo(j, "header", t) => ToDo(j, "clear", t) /\ ~ToDo(j, "write", u)
    /\ \A t \in Groups(j) : ToDo(j, "clear", t) \/ ToDo(j, "write", t) \/ Rewritten(g, j, t)
    /\ \A p \in j.found : ToDo(j, "drop", p.tab) => Accurate(g, p)
    /\ \A t \in Tabs \ Groups(j), id \in DocsOf(j) : Has(g, t, id) =>
          ToDo(j, "drop", t) /\ FoundAt(j, t, id)

Working(g, d, T, j, q) ==
    \/ Starting(T, j)
    \/ /\ ToSet(j.known) = T
       /\ RowsInv(d, j, q) /\ Fresh(g, j)
       /\ \/ Reading(g, T, j)
          \/ j.op = "batch" /\ BatchWriting(g, j)
          \/ j.op = "resync" /\ RewriteWriting(g, j)

(* A job as it stands between two calls, or once it has made its last one.   *)
Sound(g, d, T, j, q) ==
    /\ j.docs \in [Ids -> SeasonDocs] /\ j.op \in {"batch", "resync"}
    /\ j.op = "batch" => j.back = <<>> /\ j.dels = q.dels
    /\ j.op = "resync" \/ DocsOf(j) # {} => \E id \in Ids : d[id].live
    /\ TabsInv(g, d, q.lost)
    /\ j.op = "batch" => \A id \in Ids \ q.open : Standing(g, d, id)
    /\ (j.todo = {} /\ ~j.ok) \/ Working(g, d, T, j, q)

AloneInv ==
    /\ enabled
    /\ tabs # <<>>
    /\ QueueInv
    /\ IF Flush.todo = {}
         THEN TabsInv(grid, db, Owed.lost) /\ \A id \in Ids \ Owed.open : Standing(grid, db, id)
         ELSE Sound(grid, db, ToSet(tabs), Flush, Owed)

-------------------------------------------------------------------------------
(* What the calls do to a tab in order.                                      *)

LEMMA EmptyTidy == Tidy(<<>>) /\ Body(<<>>) = {}
<1>1. Len(<<>>) = 0 /\ 2 .. 0 = {}
  BY EmptySeq
<1> QED
  BY <1>1 DEF Tidy, Body

(* An empty tab holds exactly what is written from its first row on.         *)
LEMMA OverEmpty ==
    ASSUME NEW c \in Seq(LineSet)
    PROVE  Overlay(<<>>, 1, c) = c
<1>1. PICK a, N : a = <<>> /\ N = Overlay(a, 1, c)
  OBVIOUS
<1>2. a \in Seq(LineSet) /\ Len(a) = 0
  BY <1>1, EmptySeq
<1>a. a \in Seq(LineSet)
  BY <1>2
<1>b. /\ Overlay(a, 1, c) \in Seq(LineSet)
      /\ Len(Overlay(a, 1, c)) = IF Len(a) < Len(c) THEN Len(c) ELSE Len(a)
      /\ \A r \in DOMAIN Overlay(a, 1, c) :
           Overlay(a, 1, c)[r] = IF r <= Len(c) THEN c[r] ELSE a[r]
  BY <1>a, OverlaidLines
<1>3. N \in Seq(LineSet)
  BY <1>1, <1>b
<1>4. Len(N) = IF Len(a) < Len(c) THEN Len(c) ELSE Len(a)
  BY <1>1, <1>b
<1>5. \A r \in DOMAIN N : N[r] = IF r <= Len(c) THEN c[r] ELSE a[r]
  BY <1>1, <1>b
<1>6. Len(c) \in Nat /\ DOMAIN c = 1 .. Len(c) /\ DOMAIN N = 1 .. Len(N)
  BY <1>3, LenProperties
<1>7. Len(N) = Len(c)
  BY <1>2, <1>4, <1>6
<1>8. \A r \in 1 .. Len(c) : N[r] = c[r]
  BY <1>5, <1>6, <1>7
<1>9. N = c
  BY <1>3, <1>7, <1>8, SeqEqual
<1> QED
  BY <1>1, <1>9

LEMMA HeaderTidy ==
    ASSUME NEW h \in LineSet, h.id = Label, NEW N, N = Overlay(<<>>, 1, <<h>>)
    PROVE  Tidy(N) /\ Body(N) = {} /\ N # <<>> /\ N[1] = h
<1>1. PICK b : b = <<h>>
  OBVIOUS
<1>2. b \in Seq(LineSet) /\ Len(b) = 1 /\ b[1] = h /\ b # <<>>
  BY <1>1
<1>3. N = b
  BY <1>1, <1>2, OverEmpty
<1>4. 2 .. 1 = {}
  OBVIOUS
<1> QED
  BY <1>2, <1>3, <1>4 DEF Tidy, Body

(* The rows of documents a job read, one line each.                          *)
RowsFor(new, j, ids) ==
    /\ new \in Seq(LineSet) /\ Len(new) \in Nat /\ DOMAIN new = 1 .. Len(new)
    /\ \A k \in 1 .. Len(new) : \E id \in ids : new[k] = RowOf(j, id)
    /\ \A id \in ids : \E k \in 1 .. Len(new) : new[k] = RowOf(j, id)
    /\ \A k, m \in 1 .. Len(new) : new[k].id = new[m].id => k = m

LEMMA DocRows ==
    ASSUME NEW j, j.docs \in [Ids -> SeasonDocs], j.plans \in [Tabs -> Layouts],
           NEW ids \in SUBSET DocsOf(j), NEW new, new = RowsOf(j, ids)
    PROVE  RowsFor(new, j, ids)
<1>1. ids \in SUBSET Ids
  BY DEF DocsOf
<1>2. new \in Seq(LineSet)
  BY NewRows
<1>3. Len(new) \in Nat /\ DOMAIN new = 1 .. Len(new)
  BY <1>2, LenProperties
<1>4. /\ \A k \in DOMAIN RowsOf(j, ids) : \E id \in ids : RowsOf(j, ids)[k] = RowOf(j, id)
      /\ \A id \in ids : \E k \in DOMAIN RowsOf(j, ids) : RowsOf(j, ids)[k] = RowOf(j, id)
      /\ \A k, m \in DOMAIN RowsOf(j, ids) :
            RowsOf(j, ids)[k].id = RowsOf(j, ids)[m].id => k = m
  BY <1>1, RowsOnce
<1> QED
  BY <1>2, <1>3, <1>4 DEF RowsFor

(* A header and the rows of documents.                                       *)
OnlyRows(N, h, j, ids) ==
    /\ Tidy(N) /\ N # <<>> /\ N[1] = h
    /\ Body(N) = {RowOf(j, id) : id \in ids}

LEMMA WrittenTidy ==
    ASSUME NEW j, NEW ids \in SUBSET Ids, NEW new, RowsFor(new, j, ids),
           NEW h \in LineSet, h.id = Label, \A id \in ids : RowOf(j, id).layout = h.layout,
           NEW N, N = Overlay(<<>>, 1, <<h>> \o new)
    PROVE  OnlyRows(N, h, j, ids)
<1>1. PICK b, c : b = <<h>> /\ c = b \o new
  OBVIOUS
<1>2. b \in Seq(LineSet) /\ Len(b) = 1 /\ b[1] = h
  BY <1>1
<1>3. PICK m \in Nat : m = Len(new)
  BY DEF RowsFor
<1>4. /\ new \in Seq(LineSet)
      /\ \A k \in 1 .. m : \E id \in ids : new[k] = RowOf(j, id)
      /\ \A id \in ids : \E k \in 1 .. m : new[k] = RowOf(j, id)
      /\ \A k, i \in 1 .. m : new[k].id = new[i].id => k = i
  BY <1>3 DEF RowsFor
<1>5. /\ c \in Seq(LineSet) /\ Len(c) = 1 + m
      /\ \A r \in 1 .. (1 + m) : c[r] = IF r <= 1 THEN b[r] ELSE new[r - 1]
  BY <1>1, <1>2, <1>3, <1>4, ConcatProperties
<1>6. N = c
  BY <1>1, <1>5, OverEmpty
<1>8. N[1] = h
  <2>1. 1 \in 1 .. (1 + m)
    BY <1>3
  <2> QED
    BY <1>2, <1>5, <1>6, <2>1
<1>9. N # <<>>
  BY <1>3, <1>5, <1>6, EmptySeq
<1>10. ASSUME NEW r \in 2 .. (1 + m)  PROVE r - 1 \in 1 .. m /\ N[r] = new[r - 1]
  <2>1. r - 1 \in 1 .. m /\ r \in 1 .. (1 + m) /\ ~(r <= 1)
    BY <1>3
  <2> QED
    BY <1>5, <1>6, <2>1
<1>11. ASSUME NEW r \in 2 .. (1 + m)
       PROVE  \E id \in ids : N[r] = RowOf(j, id)
  <2>1. PICK k : k = r - 1
    OBVIOUS
  <2>2. k \in 1 .. m /\ N[r] = new[k]
    BY <1>10, <2>1
  <2>3. PICK id \in ids : new[k] = RowOf(j, id)
    BY <1>4, <2>2
  <2> QED
    BY <2>2, <2>3
<1>12. \A id \in ids : RowOf(j, id).id = id
  BY DEF RowOf
<1>13. \A r \in 2 .. (1 + m) : N[r].id \in Ids /\ N[r].layout = h.layout
  BY <1>11, <1>12
<1>14. ASSUME NEW r \in 2 .. (1 + m), NEW s \in 2 .. (1 + m), N[r].id = N[s].id
       PROVE  r = s
  <2>1. PICK x, y : x = r - 1 /\ y = s - 1
    OBVIOUS
  <2>2. x \in 1 .. m /\ y \in 1 .. m /\ new[x].id = new[y].id
    BY <1>10, <1>14, <2>1
  <2>3. x = y
    BY <1>4, <2>2
  <2> QED
    BY <1>3, <2>1, <2>3
<1>15. Tidy(N)
  <2>1. N # <<>> => N[1].id = Label
    BY <1>8
  <2>2. \A r \in 2 .. Len(N) : N[r].id \in Ids /\ N[r].layout = N[1].layout
    BY <1>5, <1>6, <1>8, <1>13
  <2>3. \A r, s \in 2 .. Len(N) : N[r].id = N[s].id => r = s
    BY <1>5, <1>6, <1>14
  <2> QED
    BY <2>1, <2>2, <2>3 DEF Tidy
<1>16. Body(N) = {RowOf(j, id) : id \in ids}
  <2>1. Body(N) = {N[r] : r \in 2 .. (1 + m)}
    BY <1>5, <1>6 DEF Body
  <2>2. \A r \in 2 .. (1 + m) : N[r] \in {RowOf(j, id) : id \in ids}
    BY <1>11
  <2>3. ASSUME NEW id \in ids  PROVE \E r \in 2 .. (1 + m) : N[r] = RowOf(j, id)
    <3>1. PICK k \in 1 .. m : new[k] = RowOf(j, id)
      BY <1>4
    <3>2. PICK r : r = k + 1
      OBVIOUS
    <3>3. r \in 2 .. (1 + m) /\ r - 1 = k
      BY <1>3, <3>2
    <3> QED
      BY <1>10, <3>1, <3>3
  <2> QED
    BY <2>1, <2>2, <2>3
<1> QED
  BY <1>8, <1>9, <1>15, <1>16 DEF OnlyRows

(* The lines of a tab stay, and under them are the rows of documents.        *)
Extended(L, N, j, ids) ==
    /\ Tidy(N) /\ N # <<>> /\ N[1] = L[1]
    /\ Body(N) = Body(L) \cup {RowOf(j, id) : id \in ids}
    /\ Len(L) \in Nat /\ Len(N) \in Nat /\ Len(L) <= Len(N)
    /\ \A r \in 1 .. Len(L) : N[r] = L[r]

(* Rows appended to a tab in order: nothing is blank, so they go to its end. *)
LEMMA AppendedTidy ==
    ASSUME NEW L \in Sheets, Tidy(L), L # <<>>,
           NEW j, NEW ids \in SUBSET Ids, NEW new, RowsFor(new, j, ids),
           \A id \in ids : RowOf(j, id).layout = L[1].layout,
           \A l \in Body(L) : l.id \notin ids,
           NEW N, N = Appended(L, new)
    PROVE  Extended(L, N, j, ids)
<1>1. PICK n \in Nat, m \in Nat : n = Len(L) /\ m = Len(new)
  BY SheetLines DEF RowsFor
<1>2. /\ L \in Seq(LineSet) /\ new \in Seq(LineSet) /\ n >= 1
      /\ \A r \in 1 .. n : L[r] \in LineSet
  <2>1. L \in Seq(LineSet) /\ \A r \in 1 .. n : L[r] \in LineSet
    BY <1>1, SheetLines
  <2>2. n # 0
    BY <1>1, <2>1, EmptySeq
  <2>3. new \in Seq(LineSet)
    BY DEF RowsFor
  <2> QED
    BY <1>1, <2>1, <2>2, <2>3
<1>3. /\ L[1].id = Label
      /\ \A r \in 2 .. n : L[r].id \in Ids /\ L[r].layout = L[1].layout
      /\ \A r, s \in 2 .. n : L[r].id = L[s].id => r = s
  BY <1>1 DEF Tidy
<1>4. \A r \in 1 .. n : L[r] # Blank
  <2>1. Label # NoId /\ NoId \notin Ids
    BY MirrorAssumption DEF Label, NoId
  <2>2. \A r \in 1 .. n : r = 1 \/ r \in 2 .. n
    BY <1>1
  <2>3. \A r \in 1 .. n : L[r].id # NoId
    BY <1>3, <2>1, <2>2
  <2> QED
    BY <2>3 DEF Blank
<1>5. TableEnd(L) = n
  BY <1>1, <1>2, <1>4, TableEnds
<1>a. PICK e : e = TableEnd(L)
  OBVIOUS
<1>6. /\ N \in Seq(LineSet) /\ Len(N) = n + m
      /\ \A r \in 1 .. (n + m) :
            N[r] = IF r <= e THEN L[r] ELSE IF r <= e + m THEN new[r - e] ELSE L[r - m]
  BY <1>1, <1>2, <1>a, AppendedLines
<1>7. \A r \in 1 .. n : r \in 1 .. (n + m) /\ N[r] = L[r]
  <2>1. \A r \in 1 .. n : r \in 1 .. (n + m) /\ r <= e
    BY <1>1, <1>5, <1>a
  <2> QED
    BY <1>6, <2>1
<1>8. \A k \in 1 .. m : N[n + k] = new[k]
  <2>1. ASSUME NEW k \in 1 .. m
        PROVE  n + k \in 1 .. (n + m) /\ ~(n + k <= e) /\ n + k <= e + m /\ (n + k) - e = k
    BY <1>1, <1>5, <1>a
  <2>2. ASSUME NEW k \in 1 .. m  PROVE N[n + k] = new[k]
    <3>1. PICK r : r = n + k
      OBVIOUS
    <3>2. r \in 1 .. (n + m) /\ ~(r <= e) /\ r <= e + m /\ r - e = k
      BY <2>1, <3>1
    <3>3. N[r] = new[r - e]
      BY <1>6, <3>2
    <3> QED
      BY <3>1, <3>2, <3>3
  <2> QED
    BY <2>2
<1>9. /\ \A k \in 1 .. m : \E id \in ids : new[k] = RowOf(j, id)
      /\ \A id \in ids : \E k \in 1 .. m : new[k] = RowOf(j, id)
      /\ \A k, i \in 1 .. m : new[k].id = new[i].id => k = i
  BY <1>1 DEF RowsFor
<1>10. \A id \in ids : RowOf(j, id).id = id
  BY DEF RowOf
<1>11. N[1] = L[1] /\ N # <<>>
  <2>1. 1 \in 1 .. n /\ n + m # 0
    BY <1>1, <1>2
  <2> QED
    BY <1>6, <1>7, <2>1, EmptySeq
(* Every row below the first is an old one or one of the new.                *)
<1>12. ASSUME NEW r \in 2 .. (n + m)
       PROVE  (r \in 2 .. n /\ N[r] = L[r]) \/ \E k \in 1 .. m : r = n + k /\ N[r] = new[k]
  <2>1. CASE r <= n
    <3>1. r \in 1 .. n /\ r \in 2 .. n
      BY <1>1, <2>1
    <3> QED
      BY <1>7, <3>1
  <2>2. CASE ~(r <= n)
    <3>1. PICK k : k = r - n
      OBVIOUS
    <3>2. k \in 1 .. m /\ r = n + k
      BY <1>1, <2>2, <3>1
    <3> QED
      BY <1>8, <3>2
  <2> QED
    BY <2>1, <2>2
<1>13. \A r \in 2 .. n : L[r].id \notin ids
  BY <1>1 DEF Body
<1>14. \A k \in 1 .. m : new[k].id \in ids /\ new[k].layout = L[1].layout
  BY <1>9, <1>10
<1>15. ASSUME NEW r \in 2 .. (n + m)
       PROVE  N[r].id \in Ids /\ N[r].layout = N[1].layout
  BY <1>3, <1>11, <1>12, <1>14
<1>16. ASSUME NEW r \in 2 .. (n + m), NEW s \in 2 .. (n + m), N[r].id = N[s].id
       PROVE  r = s
  <2>1. CASE r \in 2 .. n /\ N[r] = L[r] /\ s \in 2 .. n /\ N[s] = L[s]
    BY <1>3, <1>16, <2>1
  <2>2. CASE \E k, i \in 1 .. m : r = n + k /\ N[r] = new[k] /\ s = n + i /\ N[s] = new[i]
    BY <1>9, <1>16, <2>2
  <2>3. CASE r \in 2 .. n /\ N[r] = L[r] /\ \E i \in 1 .. m : N[s] = new[i]
    BY <1>13, <1>14, <1>16, <2>3
  <2>4. CASE s \in 2 .. n /\ N[s] = L[s] /\ \E i \in 1 .. m : N[r] = new[i]
    BY <1>13, <1>14, <1>16, <2>4
  <2> QED
    BY <1>12, <2>1, <2>2, <2>3, <2>4
<1>17. Tidy(N)
  <2>1. N # <<>> => N[1].id = Label
    BY <1>3, <1>11
  <2>2. \A r \in 2 .. Len(N) : N[r].id \in Ids /\ N[r].layout = N[1].layout
    BY <1>6, <1>15
  <2>3. \A r, s \in 2 .. Len(N) : N[r].id = N[s].id => r = s
    BY <1>6, <1>16
  <2> QED
    BY <2>1, <2>2, <2>3 DEF Tidy
<1>18. Body(N) = Body(L) \cup {RowOf(j, id) : id \in ids}
  <2>1. Body(N) = {N[r] : r \in 2 .. (n + m)} /\ Body(L) = {L[r] : r \in 2 .. n}
    BY <1>1, <1>6 DEF Body
  <2>2. \A r \in 2 .. (n + m) : N[r] \in {L[s] : s \in 2 .. n} \cup {RowOf(j, id) : id \in ids}
    BY <1>9, <1>12
  <2>3. ASSUME NEW s \in 2 .. n  PROVE L[s] \in {N[r] : r \in 2 .. (n + m)}
    <3>1. s \in 1 .. n /\ s \in 2 .. (n + m)
      BY <1>1
    <3> QED
      BY <1>7, <3>1
  <2>4. ASSUME NEW id \in ids  PROVE RowOf(j, id) \in {N[r] : r \in 2 .. (n + m)}
    <3>1. PICK k \in 1 .. m : new[k] = RowOf(j, id)
      BY <1>9
    <3>2. PICK r : r = n + k
      OBVIOUS
    <3>3. r \in 2 .. (n + m) /\ N[r] = new[k]
      BY <1>1, <1>2, <1>8, <3>2
    <3> QED
      BY <3>1, <3>3
  <2> QED
    BY <2>1, <2>2, <2>3, <2>4
<1>19. Len(L) \in Nat /\ Len(N) \in Nat /\ Len(L) <= Len(N)
  BY <1>1, <1>6
<1> QED
  BY <1>1, <1>7, <1>11, <1>17, <1>18, <1>19 DEF Extended

(* The header stays, and the lines of the other rows.                        *)
Reduced(L, N, rows) ==
    /\ Tidy(N) /\ (L # <<>> => N # <<>> /\ N[1] = L[1])
    /\ Body(N) = {L[r] : r \in (2 .. Len(L)) \ rows}

(* Rows removed below the first: the tab stays in order.                     *)
LEMMA DroppedTidy ==
    ASSUME NEW L \in Sheets, Tidy(L), NEW rows, 1 \notin rows,
           NEW N, N = Without(L, rows)
    PROVE  Reduced(L, N, rows)
<1>1. PICK n \in Nat : n = Len(L)
  BY SheetLines
<1>2. L \in Seq(LineSet) /\ DOMAIN L = 1 .. n
  BY <1>1, SheetLines
<1>3. PICK kept : kept = DOMAIN L \ rows
  OBVIOUS
<1>4. /\ N \in Seq(LineSet) /\ LeftOver(N, L, kept)
      /\ \A i, j \in DOMAIN N : i < j => Nth(kept, i) < Nth(kept, j)
  BY <1>2, <1>3, WithoutLines
<1>5. PICK m \in Nat : m = Len(N) /\ DOMAIN N = 1 .. m
  BY <1>4, LenProperties
<1>6. /\ \A k \in 1 .. m : \E r \in kept : r = Nth(kept, k) /\ N[k] = L[r]
      /\ \A r \in kept : \E k \in 1 .. m : r = Nth(kept, k) /\ N[k] = L[r]
      /\ \A i, j \in 1 .. m : i < j => Nth(kept, i) < Nth(kept, j)
  BY <1>4, <1>5 DEF LeftOver
<1>7. PICK at \in [1 .. m -> kept] : at = [k \in 1 .. m |-> Nth(kept, k)]
  BY <1>6
<1>8. /\ \A k \in 1 .. m : at[k] \in kept /\ N[k] = L[at[k]]
      /\ \A r \in kept : \E k \in 1 .. m : r = at[k]
      /\ \A i, j \in 1 .. m : i < j => at[i] < at[j]
  BY <1>6, <1>7
<1>9. \A r \in kept : r \in 1 .. n /\ r \in Nat /\ r \notin rows
  BY <1>1, <1>2, <1>3
<1>10. n >= 1 => m >= 1 /\ at[1] = 1
  <2>1. SUFFICES ASSUME n >= 1  PROVE m >= 1 /\ at[1] = 1
    OBVIOUS
  <2>2. 1 \in kept
    BY <1>1, <1>2, <1>3, <2>1
  <2>3. PICK k \in 1 .. m : at[k] = 1
    BY <1>8, <2>2
  <2>4. m >= 1 /\ 1 \in 1 .. m
    BY <1>5, <2>3
  <2>5. k = 1
    <3>1. ASSUME 1 < k  PROVE FALSE
      <4>1. at[1] < 1 /\ at[1] \in kept
        BY <1>8, <2>3, <2>4, <3>1
      <4> QED
        BY <1>1, <1>9, <4>1
    <3> QED
      BY <1>5, <3>1
  <2> QED
    BY <2>3, <2>4, <2>5
<1>11. ASSUME NEW k \in 2 .. m  PROVE at[k] \in (2 .. n) \ rows /\ N[k] = L[at[k]]
  <2>1. k \in 1 .. m /\ 1 \in 1 .. m /\ 1 < k
    BY <1>5
  <2>2. at[k] \in kept /\ N[k] = L[at[k]] /\ at[1] < at[k] /\ at[1] \in kept
    BY <1>8, <2>1
  <2> QED
    BY <1>1, <1>9, <2>2
<1>12. ASSUME NEW i \in 1 .. m, NEW k \in 1 .. m, at[i] = at[k]  PROVE i = k
  <2>1. i < k => at[i] < at[k]
    BY <1>8
  <2>2. k < i => at[k] < at[i]
    BY <1>8
  <2>3. at[i] \in Nat /\ at[k] \in Nat
    BY <1>8, <1>9
  <2> QED
    BY <1>5, <1>12, <2>1, <2>2, <2>3
<1>13. /\ L # <<>> => L[1].id = Label
       /\ \A r \in 2 .. n : L[r].id \in Ids /\ L[r].layout = L[1].layout
       /\ \A r, s \in 2 .. n : L[r].id = L[s].id => r = s
  BY <1>1 DEF Tidy
<1>14. L # <<>> => N # <<>> /\ N[1] = L[1] /\ n >= 1
  <2>1. SUFFICES ASSUME L # <<>>  PROVE N # <<>> /\ N[1] = L[1] /\ n >= 1
    OBVIOUS
  <2>2. n # 0
    BY <1>1, <1>2, <2>1, EmptySeq
  <2>3. n >= 1
    BY <1>1, <2>2
  <2>4. m >= 1 /\ at[1] = 1 /\ 1 \in 1 .. m
    BY <1>5, <1>10, <2>3
  <2>5. N[1] = L[1]
    BY <1>8, <2>4
  <2>6. N # <<>>
    BY <1>4, <1>5, <2>4, EmptySeq
  <2> QED
    BY <2>3, <2>5, <2>6
<1>15. ASSUME L = <<>>  PROVE m = 0
  <2>1. n = 0
    BY <1>1, <1>15, EmptySeq
  <2>2. kept = {}
    BY <1>1, <1>2, <1>3, <2>1
  <2>3. ~ (1 \in 1 .. m)
    BY <1>8, <2>2
  <2> QED
    BY <1>5, <2>3
<1>16. Tidy(N)
  <2>1. ASSUME N # <<>>  PROVE L # <<>>
    BY <1>4, <1>5, <1>15, <2>1, EmptySeq
  <2>2. N # <<>> => N[1].id = Label
    BY <1>13, <1>14, <2>1
  <2>3. \A k \in 2 .. m : N[k].id \in Ids
    BY <1>11, <1>13
  <2>4. ASSUME NEW k \in 2 .. m  PROVE N[k].layout = N[1].layout
    <3>1. m # 0
      BY <1>5
    <3>2. L # <<>>
      BY <1>15, <3>1
    <3>3. N[k].layout = L[1].layout
      BY <1>11, <1>13
    <3> QED
      BY <1>14, <3>2, <3>3
  <2>5. ASSUME NEW k \in 2 .. m, NEW i \in 2 .. m, N[k].id = N[i].id  PROVE k = i
    <3>1. at[k] = at[i]
      BY <1>11, <1>13, <2>5
    <3>2. k \in 1 .. m /\ i \in 1 .. m
      BY <1>5
    <3> QED
      BY <1>12, <3>1, <3>2
  <2> QED
    BY <1>5, <2>2, <2>3, <2>4, <2>5 DEF Tidy
<1>17. Body(N) = {L[r] : r \in (2 .. n) \ rows}
  <2>1. Body(N) = {N[k] : k \in 2 .. m}
    BY <1>5 DEF Body
  <2>2. \A k \in 2 .. m : N[k] \in {L[r] : r \in (2 .. n) \ rows}
    BY <1>11
  <2>3. ASSUME NEW r \in (2 .. n) \ rows  PROVE \E k \in 2 .. m : N[k] = L[r]
    <3>1. r \in kept /\ n >= 1
      BY <1>1, <1>2, <1>3
    <3>2. PICK k \in 1 .. m : r = at[k]
      BY <1>8, <3>1
    <3>3. k # 1
      BY <1>10, <3>1, <3>2
    <3>4. k \in 2 .. m
      BY <1>5, <3>3
    <3> QED
      BY <1>8, <3>2, <3>4
  <2>4. \A l \in Body(N) : l \in {L[r] : r \in (2 .. n) \ rows}
    BY <2>1, <2>2
  <2>5. \A l \in {L[r] : r \in (2 .. n) \ rows} : l \in Body(N)
    BY <2>1, <2>3
  <2> QED
    BY <2>4, <2>5
<1> QED
  BY <1>1, <1>14, <1>16, <1>17 DEF Reduced

(* Rows written over the places found: each keeps its document.              *)
LEMMA UpdatedTidy ==
    ASSUME NEW T, NEW x, NEW B, NEW j \in JobsOver(T, x, B), NEW t \in Tabs,
           grid \in [Tabs -> Sheets], NEW L, L = grid[t], Tidy(L),
           \A p \in ToUpdate(j) : p.tab = t =>
               Accurate(grid, p) /\ RowOf(j, p.id).layout = L[1].layout,
           NEW N, N = Updated(j, t)
    PROVE  /\ Tidy(N) /\ Len(N) = Len(L) /\ Len(L) \in Nat
           /\ L # <<>> => N # <<>> /\ N[1] = L[1]
           /\ \A r \in 2 .. Len(L) : N[r].id = L[r].id
           /\ \A r \in 2 .. Len(L) :
                N[r] = L[r] \/ (L[r].id \in DocsOf(j) /\ N[r] = RowOf(j, L[r].id))
           /\ \A p \in ToUpdate(j) : p.tab = t => N[p.row] = RowOf(j, p.id)
<1>1. L \in Sheets
  OBVIOUS
<1>2. PICK n \in Nat : n = Len(L)
  BY <1>1, SheetLines
<1>3. \A p \in ToUpdate(j) : p.tab = t =>
          /\ p.row \in 2 .. n /\ L[p.row].id = p.id /\ p.id \in DocsOf(j)
          /\ RowOf(j, p.id).layout = L[1].layout
  BY <1>2 DEF Accurate, ToUpdate, FirstAtHome, AtHome
<1>4. PICK last : last = {p.row : p \in {p \in ToUpdate(j) : p.tab = t}} \cup {Len(L)}
  OBVIOUS
<1>5. PICK size : size = CHOOSE k \in last : \A m \in last : m <= k
  OBVIOUS
<1>6. size \in last /\ \A m \in last : m <= size
  BY <1>4, <1>5, UpdatedSize
<1>7. size = n
  <2>1. \A m \in last : m \in Nat /\ m <= n
    BY <1>2, <1>3, <1>4
  <2>2. n \in last
    BY <1>2, <1>4
  <2> QED
    BY <1>2, <1>6, <2>1, <2>2
<1> DEFINE here(r) == {p \in ToUpdate(j) : p.tab = t /\ p.row = r}
           line(r) == IF here(r) # {} THEN RowOf(j, (CHOOSE p \in here(r) : TRUE).id)
                      ELSE IF r <= n THEN L[r] ELSE Blank
<1>8. N = [r \in 1 .. n |-> line(r)]
  <2>1. N = [r \in 1 .. size |-> IF here(r) # {} THEN RowOf(j, (CHOOSE p \in here(r) : TRUE).id)
                                  ELSE IF r <= Len(grid[t]) THEN grid[t][r] ELSE Blank]
    BY <1>4, <1>5 DEF Updated
  <2> QED
    BY <1>2, <1>7, <2>1
<1>9. ASSUME NEW r \in 1 .. n, here(r) = {}  PROVE line(r) = L[r]
  BY <1>2, <1>9
<1>10. ASSUME NEW r \in 1 .. n, here(r) # {}
       PROVE  /\ r \in 2 .. n /\ L[r].id \in DocsOf(j) /\ line(r) = RowOf(j, L[r].id)
              /\ RowOf(j, L[r].id).layout = L[1].layout
  <2>1. PICK p : p = CHOOSE q \in here(r) : TRUE
    OBVIOUS
  <2>2. p \in here(r)
    BY <1>10, <2>1
  <2>3. p \in ToUpdate(j) /\ p.tab = t /\ p.row = r
    BY <2>2
  <2>4. line(r) = RowOf(j, p.id)
    BY <1>10, <2>1
  <2> HIDE DEF line, here
  <2> QED
    BY <1>3, <2>3, <2>4
<1> HIDE DEF line
<1>11. \A r \in 1 .. n : N[r] = line(r)
  BY <1>8
<1>12. Len(N) = n /\ DOMAIN N = 1 .. n
  <2>1. \A r \in 1 .. n : line(r) \in LineSet
    <3>1. \A r \in 1 .. n : L[r] \in LineSet
      BY <1>1, <1>2, SheetLines
    <3>2. \A id \in DocsOf(j) : RowOf(j, id) \in LineSet
      BY JobParts, RowLines
    <3> HIDE DEF here
    <3> QED
      BY <1>9, <1>10, <3>1, <3>2
  <2>2. N \in [1 .. n -> LineSet]
    BY <1>8, <2>1
  <2> QED
    BY <2>2, SequenceOf
<1>13. \A id : RowOf(j, id).id = id
  BY DEF RowOf
<1>14. /\ L # <<>> => L[1].id = Label
       /\ \A r \in 2 .. n : L[r].id \in Ids /\ L[r].layout = L[1].layout
       /\ \A r, s \in 2 .. n : L[r].id = L[s].id => r = s
  BY <1>2 DEF Tidy
<1>15. ASSUME NEW r \in 2 .. n
       PROVE  /\ N[r] = L[r] \/ (L[r].id \in DocsOf(j) /\ N[r] = RowOf(j, L[r].id))
              /\ N[r].id = L[r].id /\ N[r].layout = L[1].layout
  <2>1. r \in 1 .. n /\ N[r] = line(r)
    BY <1>2, <1>11
  <2>2. CASE here(r) = {}
    <3>1. N[r] = L[r]
      BY <1>9, <2>1, <2>2
    <3> QED
      BY <1>14, <3>1
  <2>3. CASE here(r) # {}
    <3>1. /\ L[r].id \in DocsOf(j) /\ N[r] = RowOf(j, L[r].id)
          /\ RowOf(j, L[r].id).layout = L[1].layout
      BY <1>10, <2>1, <2>3
    <3> QED
      BY <1>13, <3>1
  <2> QED
    BY <2>2, <2>3
<1>16. L # <<>> => N # <<>> /\ N[1] = L[1]
  <2>1. SUFFICES ASSUME L # <<>>  PROVE N # <<>> /\ N[1] = L[1]
    OBVIOUS
  <2>2. n # 0
    BY <1>1, <1>2, <2>1, EmptySeq DEF Sheets
  <2>3. 1 \in 1 .. n /\ ~(1 \in 2 .. n)
    BY <1>2, <2>2
  <2>4. here(1) = {}
    BY <1>10, <2>3
  <2>5. N[1] = L[1]
    BY <1>9, <1>11, <2>3, <2>4
  <2>6. N # <<>>
    BY <1>12, <2>2, EmptySeq
  <2> QED
    BY <2>5, <2>6
<1>17. ASSUME NEW p \in ToUpdate(j), p.tab = t  PROVE N[p.row] = RowOf(j, p.id)
  <2>1. p.row \in 2 .. n /\ L[p.row].id = p.id
    BY <1>3, <1>17
  <2>2. p \in here(p.row) /\ p.row \in 1 .. n
    BY <1>2, <1>17, <2>1
  <2>3. here(p.row) # {}
    BY <2>2
  <2>4. line(p.row) = RowOf(j, L[p.row].id)
    <3> HIDE DEF here
    <3> QED
      BY <1>10, <2>2, <2>3
  <2> QED
    BY <1>11, <2>1, <2>2, <2>4
<1>18. Tidy(N)
  <2>1. ASSUME N # <<>>  PROVE L # <<>>
    <3>1. ASSUME L = <<>>  PROVE FALSE
      <4>1. n = 0
        BY <1>2, <3>1, EmptySeq
      <4>2. N = [r \in {} |-> line(r)] /\ 1 .. 0 = {}
        BY <1>8, <4>1
      <4>3. N \in [1 .. 0 -> LineSet]
        BY <4>2
      <4>4. N \in Seq(LineSet) /\ Len(N) = 0
        BY <4>3, SequenceOf
      <4> QED
        BY <2>1, <4>4, EmptySeq
    <3> QED
      BY <3>1
  <2>2. N # <<>> => N[1].id = Label
    BY <1>14, <1>16, <2>1
  <2>3. \A r \in 2 .. n : N[r].id \in Ids
    BY <1>14, <1>15
  <2>4. ASSUME NEW r \in 2 .. n  PROVE N[r].layout = N[1].layout
    <3>1. L # <<>>
      <4>1. n # 0
        BY <1>2
      <4> QED
        BY <1>2, <4>1, EmptySeq
    <3> QED
      BY <1>15, <1>16, <3>1
  <2>5. \A r, s \in 2 .. n : N[r].id = N[s].id => r = s
    BY <1>14, <1>15
  <2> QED
    BY <1>12, <2>2, <2>3, <2>4, <2>5 DEF Tidy
<1>19. Len(L) \in Nat /\ Len(N) = Len(L)
  BY <1>2, <1>12
<1> QED
  BY <1>2, <1>15, <1>16, <1>17, <1>18, <1>19

-------------------------------------------------------------------------------
(* How a job ends.                                                           *)

(* A rewrite that made its last call leaves every document standing, but for *)
(* those that wait again and those that are gone.                            *)
LEMMA RewriteDone ==
    ASSUME NEW j, j.docs \in [Ids -> SeasonDocs], j.op = "resync", j.todo = {},
           NEW g, NEW d, NEW q, RewriteWriting(g, j), RowsInv(d, j, q), TabsInv(g, d, q.lost),
           NEW id \in Ids, id \notin q.again \cup q.lost
    PROVE  Standing(g, d, id)
<1>1. j.docs[id] = d[id]
  BY DEF RowsInv
<1>2. \A kind, t : ~ToDo(j, kind, t)
  BY DEF ToDo
<1>3. CASE d[id].live
  <2>1. PICK t : t = d[id].season
    OBVIOUS
  <2>2. id \in DocsOf(j) /\ j.docs[id].season = t
    BY <1>1, <1>3, <2>1 DEF DocsOf
  <2>3. t \in Groups(j) /\ Groups(j) \subseteq Tabs
    BY <2>2, GroupTabs
  <2>4. Shows(g, t, id, d[id].ver)
    BY <1>1, <1>2, <2>2, <2>3 DEF RewriteWriting, Rewritten
  <2>5. ASSUME NEW u \in Tabs, u # t, Has(g, u, id)  PROVE FALSE
    <3>1. CASE u \in Groups(j)
      BY <1>2, <2>2, <2>5, <3>1 DEF RewriteWriting, Rewritten
    <3>2. CASE u \in Tabs \ Groups(j)
      BY <1>2, <2>2, <2>5, <3>2 DEF RewriteWriting
    <3> QED
      BY <2>5, <3>1, <3>2
  <2> QED
    BY <1>3, <2>1, <2>4, <2>5 DEF Standing
<1>4. CASE ~d[id].live
  <2>1. \A t \in Tabs : ~Has(g, t, id)
    BY <1>4 DEF TabsInv, Has
  <2> QED
    BY <1>4, <2>1 DEF Standing
<1> QED
  BY <1>3, <1>4

(* A batch in which nothing failed leaves its documents standing: those it   *)
(* was to remove, and those it wrote as they are now.                        *)
LEMMA BatchDone ==
    ASSUME NEW j, j.docs \in [Ids -> SeasonDocs], j.op = "batch", j.todo = {}, j.ok,
           NEW g, NEW d, BatchWriting(g, j), NEW id \in Ids,
           \/ id \in j.dels /\ ~d[id].live
           \/ id \in DocsOf(j) /\ j.docs[id] = d[id]
    PROVE  Standing(g, d, id)
<1>2. \A kind, t : ~ToDo(j, kind, t)
  BY DEF ToDo
<1>3. ASSUME NEW t \in Tabs, Unwanted(j, t, id)  PROVE ~Has(g, t, id)
  BY <1>2, <1>3 DEF BatchWriting
<1>4. CASE id \in j.dels /\ ~d[id].live
  <2>1. \A t \in Tabs : ~Has(g, t, id)
    BY <1>3, <1>4 DEF Unwanted
  <2> QED
    BY <1>4, <2>1 DEF Standing
<1>5. CASE id \in DocsOf(j) /\ j.docs[id] = d[id]
  <2>1. PICK t : t = d[id].season
    OBVIOUS
  <2>2. /\ d[id].live /\ j.docs[id].season = t
        /\ t \in Groups(j) /\ Groups(j) \subseteq Tabs
    BY <1>5, <2>1, GroupTabs DEF DocsOf
  <2>3. \A u \in Tabs : u # t => ~Has(g, u, id)
    BY <1>3, <1>5, <2>2 DEF Unwanted
  <2>4. Shows(g, t, id, d[id].ver)
    <3>1. CASE id \in ToAppend(j, t)
      BY <1>2, <1>5, <2>2, <3>1 DEF BatchWriting
    <3>2. CASE id \notin ToAppend(j, t)
      <4>1. PICK p \in j.found : p.id = id /\ p.tab = t
        BY <1>5, <2>2, <3>2 DEF ToAppend
      <4>2. AtHome(j, p)
        BY <1>5, <2>2, <4>1 DEF AtHome
      <4>3. Shows(g, p.tab, p.id, j.docs[p.id].ver)
        BY <1>2, <4>2 DEF BatchWriting
      <4> QED
        BY <1>5, <4>1, <4>3
    <3> QED
      BY <3>1, <3>2
  <2> QED
    BY <2>1, <2>2, <2>3, <2>4 DEF Standing
<1> QED
  BY <1>4, <1>5

(* Whatever ends or goes on in order leaves the invariant.                   *)
LEMMA SoundGoes ==
    ASSUME Alone, SheetInv, QueueTypeOK, OneIntention, AloneInv, Flush.todo # {},
           NEW j, Proceeds("queue", j), UNCHANGED <<db, enabled>>, tabs' # <<>>,
           NEW q, q = Owed, Sound(grid', db', ToSet(tabs'), j, q)
    PROVE  AloneInv'
<1>1. ASSUME NEW i, job' = [job EXCEPT !["queue"] = i]  PROVE Flush' = i
  BY <1>1 DEF SheetInv, Alone, Flush
<1>2. PICK g, d, T : g = grid' /\ d = db' /\ T = ToSet(tabs')
  OBVIOUS
<1>3. /\ db = d /\ Sound(g, d, T, j, q) /\ flushing
      /\ \A id \in deletes \cup batch.deletes : ~d[id].live /\ d[id] # NoDoc
      /\ batch.deletes \cap upserts = {}
      /\ \A id \in upserts : d[id].live \/ id \in suspect
      /\ \A id \in batch.upserts : d[id].live \/ id \in deletes \cup suspect
      /\ enabled' /\ tabs' # <<>>
  BY <1>2 DEF AloneInv, QueueInv
<1>4. /\ q.ups = batch.upserts /\ q.dels = batch.deletes
      /\ q.again = upserts \cup deletes \cup suspect
      /\ q.lost = deletes \cup batch.deletes \cup suspect
      /\ q.open = upserts \cup deletes \cup batch.upserts \cup batch.deletes \cup suspect
  BY DEF Owed, Pending, Taken
<1>5. /\ upserts \in SUBSET Ids /\ deletes \in SUBSET Ids /\ suspect \in SUBSET Ids
      /\ batch.upserts \in SUBSET Ids /\ batch.deletes \in SUBSET Ids
      /\ batch.upserts \cap batch.deletes = {} /\ upserts \cap deletes = {}
  BY DEF QueueTypeOK, SheetInv, OneIntention
<1>6. /\ j.docs \in [Ids -> SeasonDocs] /\ j.op \in {"batch", "resync"}
      /\ j.op = "batch" => j.back = <<>> /\ j.dels = q.dels
      /\ TabsInv(g, d, q.lost)
      /\ j.op = "batch" => \A id \in Ids \ q.open : Standing(g, d, id)
      /\ (j.todo = {} /\ ~j.ok) \/ Working(g, d, T, j, q)
  BY <1>3 DEF Sound
<1>7. \A lost : q.lost \subseteq lost => TabsInv(g, d, lost)
  BY <1>6 DEF TabsInv
<1>8. ASSUME j.todo = {}, j.ok
      PROVE  /\ RowsInv(d, j, q)
             /\ j.op = "batch" => BatchWriting(g, j)
             /\ j.op = "resync" => RewriteWriting(g, j)
  <2>1. ~Starting(T, j) /\ ~Reading(g, T, j)
    BY <1>8 DEF Starting, Reading, ToDo
  <2> QED
    BY <1>6, <1>8, <2>1 DEF Working
<1>9. CASE j.todo # {}
  <2>1. Continues("queue", j)
    BY <1>9 DEF Proceeds
  <2>2. Flush' = j /\ UNCHANGED <<queueVars, suspect>>
    BY <1>1, <2>1 DEF Continues
  <2>3. Owed' = q
    BY <2>2 DEF Owed, queueVars, Pending, Taken
  <2>4. QueueInv'
    BY <1>2, <1>3, <1>9, <2>2 DEF QueueInv, queueVars
  <2> QED
    BY <1>2, <1>3, <1>9, <2>2, <2>3, <2>4 DEF AloneInv
<1>10. CASE j.todo = {} /\ j.back # <<>> /\ j.ok /\ DocsOf(j) = {}
  BY <1>6, <1>8, <1>10 DEF RowsInv
<1>11. CASE Ends("queue", j) /\ j.todo = {}
  <2>1. /\ Flush' = NoJob /\ FlushEnds /\ suspect' = SuspectAfter("queue", j)
    BY <1>1, <1>11 DEF Ends
  <2>2. /\ Flush'.todo = {} /\ flushing' = FALSE
        /\ batch'.upserts = {} /\ batch'.deletes = {}
        /\ upserts' = upserts /\ deletes' = deletes
    BY <2>1 DEF NoJob, NewJob, FlushEnds, NoBatch
  <2>3. /\ Owed'.lost = deletes \cup suspect'
        /\ Owed'.open = upserts \cup deletes \cup suspect'
    BY <2>2 DEF Owed, Pending, Taken
  <2>4. ASSUME \A id \in suspect : d[id].live \/ id \in suspect' \/ id \in batch.deletes
        PROVE  QueueInv'
    BY <1>2, <1>3, <2>2, <2>4 DEF QueueInv
  <2>5. ASSUME \A id \in suspect : d[id].live \/ id \in suspect' \/ id \in batch.deletes,
               TabsInv(g, d, deletes \cup suspect'),
               \A id \in Ids : id \in upserts \cup deletes \cup suspect' \/ Standing(g, d, id)
        PROVE  AloneInv'
    BY <1>2, <1>3, <2>2, <2>3, <2>4, <2>5 DEF AloneInv
  <2>6. CASE j.op = "resync" /\ ~j.ok
    <3>1. suspect' = Ids
      BY <2>1, <2>6 DEF SuspectAfter
    <3> QED
      BY <1>4, <1>5, <1>7, <2>5, <3>1
  <2>7. CASE j.op = "batch" /\ ~j.ok
    <3>1. suspect' = suspect \cup batch.upserts \cup batch.deletes
      BY <2>1, <2>7 DEF SuspectAfter, Taken
    <3> QED
      BY <1>4, <1>6, <1>7, <2>5, <2>7, <3>1
  <2>8. CASE j.op = "resync" /\ j.ok
    <3>1. suspect' = suspect \cup batch.deletes
      BY <2>1, <2>8 DEF SuspectAfter
    <3>2. \A id \in Ids : id \notin q.again \cup q.lost => Standing(g, d, id)
      BY <1>6, <1>8, <1>11, <2>8, RewriteDone
    <3> QED
      BY <1>4, <1>7, <2>5, <3>1, <3>2
  <2>9. CASE j.op = "batch" /\ j.ok
    <3>1. PICK made : made = j.dels \cup {id \in DocsOf(j) : j.docs[id] = d[id]}
      OBVIOUS
    <3>2. suspect' = suspect \ made
      BY <1>3, <2>1, <2>9, <3>1 DEF SuspectAfter
    <3>3. j.dels = batch.deletes /\ DocsOf(j) \subseteq batch.upserts
      BY <1>4, <1>6, <1>8, <1>11, <2>9 DEF RowsInv
    <3>4. \A id \in made : Standing(g, d, id)
      <4>1. ASSUME NEW id \in made
            PROVE  /\ id \in Ids
                   /\ (id \in j.dels /\ ~d[id].live) \/ (id \in DocsOf(j) /\ j.docs[id] = d[id])
        BY <1>3, <1>5, <3>1, <3>3
      <4>2. BatchWriting(g, j)
        BY <1>8, <1>11, <2>9
      <4> QED
        BY <1>6, <1>11, <2>9, <4>1, <4>2, BatchDone
    <3>5. \A id \in made : d[id].live \/ id \in batch.deletes
      BY <3>1, <3>3 DEF DocsOf
    <3>6. TabsInv(g, d, deletes \cup suspect')
      <4>1. ASSUME NEW t \in Tabs, NEW l \in Body(g[t]), ~d[l.id].live
            PROVE  l.id \in deletes \cup suspect'
        <5>1. l.id \in q.lost
          BY <1>6, <4>1 DEF TabsInv
        <5>2. ASSUME l.id \in made  PROVE FALSE
          <6>1. ~Has(g, t, l.id)
            BY <3>4, <4>1, <5>2 DEF Standing
          <6> QED
            BY <6>1 DEF Has
        <5> QED
          BY <1>4, <3>1, <3>2, <3>3, <5>1, <5>2
      <4> QED
        BY <1>6, <4>1 DEF TabsInv
    <3>7. ASSUME NEW id \in Ids, id \notin upserts \cup deletes \cup suspect'
          PROVE  Standing(g, d, id)
      <4>1. CASE id \in made
        BY <3>4, <4>1
      <4>2. CASE id \notin made /\ id \in batch.upserts
        <5>1. id \notin suspect
          BY <3>2, <3>7, <4>2
        <5>2. d[id].live
          BY <1>3, <3>7, <4>2, <5>1
        <5>3. RowsInv(d, j, q)
          BY <1>8, <1>11, <2>9
        <5>4. j.docs[id] = d[id] \/ id \in q.again
          BY <1>4, <4>2, <5>3 DEF RowsInv
        <5>5. id \in DocsOf(j)
          BY <1>4, <3>7, <5>1, <5>2, <5>4 DEF DocsOf
        <5> QED
          BY <1>4, <3>1, <3>7, <4>2, <5>1, <5>4, <5>5
      <4>3. CASE id \notin made /\ id \notin batch.upserts
        <5>1. id \notin suspect /\ id \notin batch.deletes
          BY <3>1, <3>2, <3>3, <3>7, <4>3
        <5> QED
          BY <1>4, <1>6, <2>9, <3>7, <4>3, <5>1
      <4> QED
        BY <4>1, <4>2, <4>3
    <3> QED
      BY <2>5, <3>2, <3>5, <3>6, <3>7
  <2> QED
    BY <1>6, <2>6, <2>7, <2>8, <2>9
<1> QED
  BY <1>9, <1>10, <1>11 DEF Proceeds

-------------------------------------------------------------------------------
(* From reading to writing.                                                  *)

(* Jobs that differ only in what is left to call and in how it went.         *)
SameWork(i, j) ==
    /\ i.op = j.op /\ i.known = j.known /\ i.plans = j.plans /\ i.docs = j.docs
    /\ i.dels = j.dels /\ i.found = j.found /\ i.back = j.back

LEMMA SameRows ==
    ASSUME NEW i, NEW j, SameWork(i, j)
    PROVE  /\ DocsOf(i) = DocsOf(j) /\ Groups(i) = Groups(j)
           /\ \A id : RowOf(i, id) = RowOf(j, id)
           /\ \A t : HeaderOf(i, t) = HeaderOf(j, t) /\ ToAppend(i, t) = ToAppend(j, t)
           /\ \A g, t : HeadedBy(g, i, t) <=> HeadedBy(g, j, t)
           /\ \A p : AtHome(i, p) <=> AtHome(j, p)
           /\ ToUpdate(i) = ToUpdate(j) /\ ToDrop(i) = ToDrop(j)
           /\ \A t, id : (FoundAt(i, t, id) <=> FoundAt(j, t, id))
           /\ \A t, id : (Unwanted(i, t, id) <=> Unwanted(j, t, id))
           /\ \A g, t : Rewritten(g, i, t) <=> Rewritten(g, j, t)
           /\ \A g : Fresh(g, i) <=> Fresh(g, j)
           /\ \A d, q : RowsInv(d, i, q) <=> RowsInv(d, j, q)
<1>1. DocsOf(i) = DocsOf(j)
  BY DEF SameWork, DocsOf
<1>2. Groups(i) = Groups(j)
  BY <1>1 DEF SameWork, Groups
<1>3. \A id : RowOf(i, id) = RowOf(j, id)
  BY DEF SameWork, RowOf
<1>4. \A t : HeaderOf(i, t) = HeaderOf(j, t)
  BY DEF SameWork, HeaderOf
<1>5. \A t : ToAppend(i, t) = ToAppend(j, t)
  BY <1>1 DEF SameWork, ToAppend
<1>6. \A g, t : HeadedBy(g, i, t) <=> HeadedBy(g, j, t)
  BY <1>4 DEF HeadedBy
<1>7. \A p : AtHome(i, p) <=> AtHome(j, p)
  BY <1>1 DEF SameWork, AtHome
<1>8. \A p : FirstAtHome(i, p) <=> FirstAtHome(j, p)
  BY <1>7 DEF SameWork, FirstAtHome
<1>9. ToUpdate(i) = ToUpdate(j)
  BY <1>8 DEF SameWork, ToUpdate
<1>10. ToDrop(i) = ToDrop(j)
  BY <1>1, <1>2, <1>7, <1>8 DEF SameWork, ToDrop
<1>11. \A t, id : (FoundAt(i, t, id) <=> FoundAt(j, t, id))
  BY DEF SameWork, FoundAt
<1>12. \A t, id : (Unwanted(i, t, id) <=> Unwanted(j, t, id))
  BY <1>1 DEF SameWork, Unwanted
<1>13. \A g, t : Rewritten(g, i, t) <=> Rewritten(g, j, t)
  BY <1>1 DEF SameWork, Rewritten
<1>14. \A g : Fresh(g, i) <=> Fresh(g, j)
  BY <1>1 DEF SameWork, Fresh
<1>15. \A d, q : RowsInv(d, i, q) <=> RowsInv(d, j, q)
  BY <1>1 DEF SameWork, RowsInv
<1> QED
  BY <1>1, <1>2, <1>3, <1>4, <1>5, <1>6, <1>7, <1>9, <1>10, <1>11, <1>12, <1>13, <1>14, <1>15

(* What a scan of a tab in order finds.                                      *)
LEMMA ScannedPlaces ==
    ASSUME NEW L, NEW t, NEW g, g[t] = L, Tidy(L)
    PROVE  /\ \A p \in Scanned(L, t) : p.tab = t /\ Accurate(g, p)
           /\ \A p \in Scanned(L, t), r \in Scanned(L, t) : p.id = r.id => p = r
           /\ \A id : Has(g, t, id) <=> \E p \in Scanned(L, t) : p.id = id
<1>1. \A p \in Scanned(L, t) : \E r \in 2 .. Len(L) :
          p = [id |-> L[r].id, tab |-> t, row |-> r, ver |-> L[r].ver]
  BY DEF Scanned
<1>2. \A p \in Scanned(L, t) : /\ p.tab = t /\ p.row \in 2 .. Len(L) /\ L[p.row].id = p.id
                               /\ p = [id |-> L[p.row].id, tab |-> t, row |-> p.row, ver |-> L[p.row].ver]
  BY <1>1
<1>3. \A p \in Scanned(L, t) : p.tab = t /\ Accurate(g, p)
  BY <1>2 DEF Accurate
<1>4. ASSUME NEW p \in Scanned(L, t), NEW r \in Scanned(L, t), p.id = r.id  PROVE p = r
  <2>1. p.row = r.row
    BY <1>2, <1>4 DEF Tidy
  <2> QED
    BY <1>2, <2>1
<1>5. ASSUME NEW id, Has(g, t, id)  PROVE \E p \in Scanned(L, t) : p.id = id
  <2>1. PICK r \in 2 .. Len(L) : L[r].id = id
    BY <1>5 DEF Has, Body
  <2>2. PICK p : p = [id |-> L[r].id, tab |-> t, row |-> r, ver |-> L[r].ver]
    OBVIOUS
  <2>3. p \in Scanned(L, t) /\ p.id = id
    BY <2>1, <2>2 DEF Scanned
  <2> QED
    BY <2>3
<1>6. ASSUME NEW p \in Scanned(L, t)  PROVE Has(g, t, p.id)
  BY <1>2 DEF Has, Body
<1> QED
  BY <1>3, <1>4, <1>5, <1>6

LEMMA CallsDiffer ==
    /\ \A k, t, m, u : Call(k, t) = Call(m, u) <=> k = m /\ t = u
    /\ \A k, t : Call(k, t).kind = k /\ Call(k, t).tab = t
BY DEF Call

(* The last tab is scanned: the changes worked out are all there is to do.   *)
LEMMA ReadDone ==
    ASSUME NEW T, NEW n, NEW B, NEW j \in JobsOver(T, n, B), j.ok, j.op \in {"batch", "resync"},
           NEW g, \A t \in Tabs : Tidy(g[t]), \A t \in Tabs \ T : g[t] = <<>>,
           \A p \in j.found : p \in Scanned(g[p.tab], p.tab),
           \A t \in T : Scanned(g[t], t) \subseteq j.found,
           j.op = "batch" => \A t \in Groups(j) : HeadedBy(g, j, t),
           NEW i, SameWork(i, j), i.ok = j.ok, i.todo = Changes(j)
    PROVE  /\ j.op = "batch" => BatchWriting(g, i)
           /\ j.op = "resync" => RewriteWriting(g, i)
<1>1. /\ j.found \in SUBSET Places /\ Groups(j) \subseteq Tabs
      /\ \A p \in j.found : p.tab \in Tabs /\ p.row \in Nat /\ p.id \in Ids
  BY JobParts, GroupTabs DEF Places
<1>2. /\ \A p \in j.found : Accurate(g, p)
      /\ \A p, q \in j.found : p.id = q.id /\ p.tab = q.tab => p = q
  <2>1. \A p \in j.found : Tidy(g[p.tab]) /\ p \in Scanned(g[p.tab], p.tab)
    BY <1>1
  <2>2. \A p \in j.found : Accurate(g, p)
    BY <2>1, ScannedPlaces
  <2>3. ASSUME NEW p \in j.found, NEW q \in j.found, p.id = q.id, p.tab = q.tab  PROVE p = q
    <3>1. PICK t : t = p.tab
      OBVIOUS
    <3>2. Tidy(g[t]) /\ p \in Scanned(g[t], t) /\ q \in Scanned(g[t], t)
      BY <2>1, <2>3, <3>1
    <3> QED
      BY <2>3, <3>2, ScannedPlaces
  <2> QED
    BY <2>2, <2>3
<1>3. ASSUME NEW t \in Tabs, NEW id, Has(g, t, id)  PROVE FoundAt(j, t, id)
  <2>1. CASE t \in T
    <3>1. PICK p \in Scanned(g[t], t) : p.id = id
      BY <1>3, ScannedPlaces
    <3>2. p.tab = t
      BY ScannedPlaces
    <3> QED
      BY <2>1, <3>1, <3>2 DEF FoundAt
  <2>2. CASE t \notin T
    <3>1. g[t] = <<>>
      BY <2>2
    <3> QED
      BY <1>3, <3>1, EmptyTidy DEF Has
  <2> QED
    BY <2>1, <2>2
<1>4. /\ DocsOf(i) = DocsOf(j) /\ Groups(i) = Groups(j) /\ i.found = j.found /\ i.docs = j.docs
      /\ \A t : ToAppend(i, t) = ToAppend(j, t)
      /\ \A t : HeadedBy(g, i, t) <=> HeadedBy(g, j, t)
      /\ \A p : AtHome(i, p) <=> AtHome(j, p)
      /\ \A t, id : (FoundAt(i, t, id) <=> FoundAt(j, t, id))
      /\ \A t, id : (Unwanted(i, t, id) <=> Unwanted(j, t, id))
  BY SameRows DEF SameWork
<1>5. CASE j.op = "batch"
  <2>1. Changes(j) = {Call("update", NoTab) : p \in ToUpdate(j)}
                        \cup {Call("append", t) : t \in {t \in Groups(j) : ToAppend(j, t) # {}}}
                        \cup {Call("drop", p.tab) : p \in ToDrop(j)}
    BY <1>5 DEF Changes
  <2>2. /\ \A c \in i.todo : c.kind \in {"update", "append", "drop"}
        /\ \A t : ToDo(i, "append", t) <=> t \in Groups(j) /\ ToAppend(j, t) # {}
        /\ \A t : ToDo(i, "drop", t) <=> \E p \in ToDrop(j) : p.tab = t
        /\ ToUpdate(j) # {} => ToDo(i, "update", NoTab)
    BY <2>1, CallsDiffer DEF ToDo
  <2>3. \A t \in Tabs : ToDo(i, "append", t) => \A id \in ToAppend(i, t) : ~Has(g, t, id)
    BY <1>3, <1>4 DEF ToAppend, FoundAt
  <2>4. ASSUME NEW t \in Tabs, NEW id \in Ids, Unwanted(i, t, id), Has(g, t, id)
        PROVE  ToDo(i, "drop", t) /\ FoundAt(i, t, id)
    <3>1. FoundAt(j, t, id) /\ Unwanted(j, t, id)
      BY <1>3, <1>4, <2>4
    <3>2. PICK p \in j.found : p.id = id /\ p.tab = t
      BY <3>1 DEF FoundAt
    <3>3. p \in ToDrop(j)
      BY <1>5, <3>1, <3>2 DEF ToDrop, Unwanted, AtHome
    <3> QED
      BY <1>4, <2>2, <3>1, <3>2, <3>3
  <2>5. ASSUME ~ToDo(i, "update", NoTab), NEW p \in i.found, AtHome(i, p)  PROVE FALSE
    <3>1. p \in j.found /\ AtHome(j, p) /\ p.row <= p.row
      BY <1>1, <1>4, <2>5
    <3>2. FirstAtHome(j, p)
      BY <1>2, <3>1 DEF FirstAtHome
    <3>3. p \in ToUpdate(j)
      BY <1>5, <3>1, <3>2 DEF ToUpdate
    <3> QED
      BY <2>2, <2>5, <3>3
  <2>6. \A t \in Groups(i) : ToDo(i, "append", t) \/ ToAppend(i, t) = {}
    BY <1>4, <2>2
  <2>7. \A t \in Tabs : ToDo(i, "append", t) => t \in Groups(i)
    BY <1>4, <2>2
  <2>8. \A t \in Groups(i) : HeadedBy(g, i, t)
    BY <1>4, <1>5
  <2>9. BatchWriting(g, i)
    BY <1>2, <1>4, <2>2, <2>3, <2>4, <2>5, <2>6, <2>7, <2>8 DEF BatchWriting
  <2> QED
    BY <1>5, <2>9
<1>6. CASE j.op = "resync"
  <2>1. Changes(j) = {Call("clear", t) : t \in Groups(j)} \cup {Call("drop", p.tab) : p \in ToDrop(j)}
    BY <1>6 DEF Changes
  <2>2. ToDrop(j) = {p \in j.found : p.id \in DocsOf(j) /\ p.tab \notin Groups(j)}
    BY <1>6 DEF ToDrop
  <2>3. /\ \A c \in i.todo : c.kind \in {"clear", "drop"}
        /\ \A c \in i.todo : c.kind # "drop" <=> c.tab \in Groups(j)
        /\ \A t \in Groups(j) : ToDo(i, "clear", t)
        /\ \A p \in ToDrop(j) : ToDo(i, "drop", p.tab)
    BY <2>1, <2>2, CallsDiffer DEF ToDo
  <2>4. \A t : ~ToDo(i, "header", t) /\ ~ToDo(i, "write", t)
    BY <2>3, CallsDiffer DEF ToDo
  <2>5. ASSUME NEW t \in Tabs \ Groups(i), NEW id \in DocsOf(i), Has(g, t, id)
        PROVE  ToDo(i, "drop", t) /\ FoundAt(i, t, id)
    <3>1. PICK p \in j.found : p.id = id /\ p.tab = t
      BY <1>3, <2>5 DEF FoundAt
    <3>2. p \in ToDrop(j)
      BY <1>4, <2>2, <2>5, <3>1
    <3> QED
      BY <1>4, <2>3, <3>1, <3>2 DEF FoundAt
  <2>6. RewriteWriting(g, i)
    BY <1>2, <1>4, <2>3, <2>4, <2>5 DEF RewriteWriting
  <2> QED
    BY <1>6, <2>6
<1> QED
  BY <1>5, <1>6

-------------------------------------------------------------------------------
(* What every call of the queue's job starts from and has to show.           *)

LEMMA Ranks ==
    ASSUME NEW c, NEW e, Rank(c) <= Rank(e),
           c.kind \in {"header", "check", "scan", "update", "append", "write", "clear", "drop"},
           e.kind \in {"header", "check", "scan", "update", "append", "write", "clear", "drop"}
    PROVE  /\ c.kind = "scan" => e.kind \notin {"header", "check"}
           /\ c.kind = "clear" => e.kind \notin {"header", "write"}
           /\ c.kind = "drop" => e.kind = "drop"
<1>1. \A n \in 1 .. 10 : n = 1 \/ n = 2 \/ n = 3 \/ n = 4 \/ n = 5 \/ n = 6 \/ n = 7 \/ n = 8 \/ n = 9 \/ n = 10
  OBVIOUS
<1>2. /\ DOMAIN CallOrder = 1 .. 10
      /\ CallOrder[1] = "context" /\ CallOrder[2] = "fetch" /\ CallOrder[3] = "header"
      /\ CallOrder[4] = "check" /\ CallOrder[5] = "scan" /\ CallOrder[6] = "update"
      /\ CallOrder[7] = "append" /\ CallOrder[8] = "write" /\ CallOrder[9] = "clear"
      /\ CallOrder[10] = "drop"
  BY DEF CallOrder
<1>3. ASSUME NEW x, NEW n \in 1 .. 10, CallOrder[n] = x.kind  PROVE Rank(x) = n
  <2>1. \A m \in 1 .. 10 : CallOrder[m] = x.kind => m = n
    BY <1>1, <1>2, <1>3
  <2> QED
    BY <1>2, <1>3, <2>1 DEF Rank
<1>4. ASSUME NEW x, x.kind \in {"header", "check", "scan", "update", "append", "write", "clear", "drop"}
      PROVE  /\ x.kind = "header" => Rank(x) = 3
             /\ x.kind = "check" => Rank(x) = 4
             /\ x.kind = "scan" => Rank(x) = 5
             /\ x.kind = "update" => Rank(x) = 6
             /\ x.kind = "append" => Rank(x) = 7
             /\ x.kind = "write" => Rank(x) = 8
             /\ x.kind = "clear" => Rank(x) = 9
             /\ x.kind = "drop" => Rank(x) = 10
  <2>1. 3 \in 1 .. 10 /\ 4 \in 1 .. 10 /\ 5 \in 1 .. 10 /\ 6 \in 1 .. 10 /\ 7 \in 1 .. 10
        /\ 8 \in 1 .. 10 /\ 9 \in 1 .. 10 /\ 10 \in 1 .. 10
    OBVIOUS
  <2> QED
    BY <1>2, <1>3, <2>1
<1> QED
  BY <1>4

LEMMA Phases ==
    ASSUME NEW g, NEW d, NEW T, NEW j, NEW q, Sound(g, d, T, j, q), NEW c \in j.todo
    PROVE  /\ c.kind \in {"context", "fetch"} => Starting(T, j)
           /\ c.kind \notin {"context", "fetch"} =>
                  ToSet(j.known) = T /\ RowsInv(d, j, q) /\ Fresh(g, j)
           /\ c.kind \in {"check", "scan"} => Reading(g, T, j)
           /\ c.kind = "header" => Reading(g, T, j) \/ (j.op = "resync" /\ RewriteWriting(g, j))
           /\ c.kind \in {"update", "append"} => j.op = "batch" /\ BatchWriting(g, j)
           /\ c.kind \in {"clear", "write"} => j.op = "resync" /\ RewriteWriting(g, j)
           /\ c.kind = "drop" => \/ j.op = "batch" /\ BatchWriting(g, j)
                                 \/ j.op = "resync" /\ RewriteWriting(g, j)
           /\ c.kind \in {"context", "fetch", "header", "check", "scan", "update", "append",
                          "write", "clear", "drop"}
<1>1. Working(g, d, T, j, q)
  BY DEF Sound
<1>2. Starting(T, j) => c.kind \in {"context", "fetch"}
  BY CallsDiffer DEF Starting
<1>3. Reading(g, T, j) => c.kind \in {"header", "check", "scan"} /\ j.ok
  BY DEF Reading
<1>4. BatchWriting(g, j) => c.kind \in {"update", "append", "drop"}
  BY DEF BatchWriting
<1>5. RewriteWriting(g, j) => c.kind \in {"header", "clear", "write", "drop"} /\ j.ok
  BY DEF RewriteWriting
<1>6. CASE Starting(T, j)
  BY <1>2, <1>6
<1>7. CASE Reading(g, T, j) /\ ToSet(j.known) = T /\ RowsInv(d, j, q) /\ Fresh(g, j)
  BY <1>3, <1>7
<1>8. CASE j.op = "batch" /\ BatchWriting(g, j) /\ ToSet(j.known) = T /\ RowsInv(d, j, q) /\ Fresh(g, j)
  BY <1>4, <1>8
<1>9. CASE j.op = "resync" /\ RewriteWriting(g, j) /\ ToSet(j.known) = T /\ RowsInv(d, j, q) /\ Fresh(g, j)
  BY <1>5, <1>9
<1> QED
  BY <1>1, <1>6, <1>7, <1>8, <1>9 DEF Working

(* The calls of a job are among those it had.                                *)
LEMMA OtherTodo ==
    ASSUME NEW T, NEW n, NEW B, NEW j \in JobsOver(T, n, B), NEW X, NEW i, i = [j EXCEPT !.todo = X]
    PROVE  SameWork(i, j) /\ i.ok = j.ok /\ i.todo = X
BY JobParts DEF SameWork

LEMMA MadeAfter ==
    ASSUME NEW T, NEW n, NEW B, NEW j \in JobsOver(T, n, B), NEW c, NEW i, i = Made(j, c)
    PROVE  SameWork(i, j) /\ i.ok = j.ok /\ i.todo = j.todo \ {c}
<1>1. PICK X : X = j.todo \ {c}
  OBVIOUS
<1>2. i = [j EXCEPT !.todo = X]
  BY <1>1 DEF Made
<1> QED
  BY <1>1, <1>2, OtherTodo

LEMMA FailedAfter ==
    ASSUME NEW T, NEW n, NEW B, NEW j \in JobsOver(T, n, B), NEW i, i = Failed(j)
    PROVE  SameWork(i, j) /\ ~i.ok /\ i.todo = {}
<1>1. PICK f : f = [j EXCEPT !.ok = FALSE]
  OBVIOUS
<1>2. f \in JobsOver(T, n, B)
  BY <1>1, OtherOk
<1>3. SameWork(f, j) /\ ~f.ok
  BY <1>1, JobParts DEF SameWork
<1>4. i = [f EXCEPT !.todo = {}]
  BY <1>1, JobParts DEF Failed
<1> QED
  BY <1>2, <1>3, <1>4, OtherTodo DEF SameWork

LEMMA NotedAfter ==
    ASSUME NEW T, NEW n, NEW B, NEW j \in JobsOver(T, n, B), NEW c, NEW i, i = Noted(j, c)
    PROVE  SameWork(i, j) /\ ~i.ok /\ i.todo = {e \in j.todo \ {c} : e.kind # "drop"}
<1>1. PICK m : m = Made(j, c)
  OBVIOUS
<1>2. m \in JobsOver(T, n, B) /\ SameWork(m, j) /\ m.todo = j.todo \ {c}
  <2>1. m \in JobsOver(T, n, B)
    BY <1>1, MadeJob
  <2>2. SameWork(m, j) /\ m.ok = j.ok /\ m.todo = j.todo \ {c}
    BY <1>1, MadeAfter
  <2> QED
    BY <2>1, <2>2
<1>3. PICK f : f = [m EXCEPT !.ok = FALSE]
  OBVIOUS
<1>4. f \in JobsOver(T, n, B)
  BY <1>2, <1>3, OtherOk
<1>5. SameWork(f, m) /\ ~f.ok /\ f.todo = m.todo
  BY <1>2, <1>3, JobParts DEF SameWork
<1>6. PICK X : X = {e \in j.todo \ {c} : e.kind # "drop"}
  OBVIOUS
<1>7. i = [f EXCEPT !.todo = X]
  <2>1. i = [m EXCEPT !.ok = FALSE, !.todo = {e \in m.todo : e.kind # "drop"}]
    BY <1>1 DEF Noted
  <2>2. {e \in m.todo : e.kind # "drop"} = X
    BY <1>2, <1>6
  <2>3. i = [m EXCEPT !.ok = FALSE, !.todo = X]
    BY <2>1, <2>2
  <2> QED
    BY <1>2, <1>3, <2>3, JobParts
<1>8. SameWork(i, f) /\ i.ok = f.ok /\ i.todo = X
  BY <1>4, <1>7, OtherTodo
<1> QED
  BY <1>2, <1>5, <1>6, <1>8 DEF SameWork

(* The state the queue's job is in when it makes a call.                     *)
LEMMA AtWork ==
    ASSUME Alone, SheetInv, AloneInv, NEW c \in Due(job["queue"])
    PROVE  /\ "queue" \in Workers /\ Flush = job["queue"] /\ Flush.todo # {}
           /\ Flush \in Jobs(ToSet(tabs), Events)
           /\ c \in Flush.todo /\ \A e \in Flush.todo : Rank(c) <= Rank(e)
           /\ Sound(grid, db, ToSet(tabs), Flush, Owed)
<1>1. "queue" \in Workers
  BY DEF Alone
<1>2. c \in Flush.todo /\ \A e \in Flush.todo : Rank(c) <= Rank(e)
  BY DEF Flush, Due
<1>3. Flush \in Jobs(ToSet(tabs), Events)
  BY <1>1 DEF SheetInv, Flush
<1> QED
  BY <1>1, <1>2, <1>3 DEF AloneInv, Flush

(* Ids that wait again are in the database, or their removal is to come.     *)
LEMMA AgainLost ==
    ASSUME QueueInv, NEW q, q = Owed
    PROVE  /\ \A id \in q.again : db[id].live \/ id \in q.lost
           /\ q.ups \cup q.dels \subseteq q.open
           /\ \A id \in q.dels : ~db[id].live
BY DEF QueueInv, Owed, Pending, Taken

(* New lines a job writes are those of rows it read.                         *)
WrittenBy(j, g, h) ==
    \A t \in Tabs : \A l \in Body(h[t]) :
        l \in Body(g[t]) \/ \E id \in DocsOf(j) : l = RowOf(j, id)

LEMMA GridKept ==
    ASSUME NEW g, NEW h, NEW d, NEW j, NEW q, j.op \in {"batch", "resync"},
           TabsInv(g, d, q.lost), Fresh(g, j), RowsInv(d, j, q), j.docs \in [Ids -> SeasonDocs],
           d \in [Ids -> SeasonDocs],
           \A id \in q.again : d[id].live \/ id \in q.lost,
           \A t \in Tabs : Tidy(h[t]), WrittenBy(j, g, h)
    PROVE  TabsInv(h, d, q.lost) /\ Fresh(h, j)
<1>1. ASSUME NEW id \in DocsOf(j)
      PROVE  /\ RowOf(j, id).id = id /\ RowOf(j, id).ver = j.docs[id].ver
             /\ j.docs[id].ver <= d[id].ver /\ (d[id].live \/ id \in q.lost)
             /\ j.docs[id].ver <= j.docs[id].ver
  <2>1. RowOf(j, id).id = id /\ RowOf(j, id).ver = j.docs[id].ver
    BY DEF RowOf
  <2>2. j.docs[id].ver <= d[id].ver
    BY DEF RowsInv
  <2>3. id \in Ids /\ j.docs[id].live
    BY DEF DocsOf
  <2>4. j.docs[id] = d[id] \/ id \in q.again
    BY <2>3 DEF RowsInv
  <2>5. d[id].live \/ id \in q.lost
    BY <2>3, <2>4
  <2>6. j.docs[id].ver \in Nat
    <3>1. j.docs[id] \in Docs
      BY <2>3 DEF SeasonDocs
    <3>2. MaxEdits \in Nat
      BY MirrorAssumption
    <3> QED
      BY <3>1, <3>2 DEF Docs
  <2> QED
    BY <2>1, <2>2, <2>5, <2>6
<1>2. ASSUME NEW t \in Tabs, NEW l \in Body(h[t])
      PROVE  /\ l.ver <= d[l.id].ver
             /\ d[l.id].live \/ l.id \in q.lost
             /\ l.id \in DocsOf(j) => l.ver <= j.docs[l.id].ver
  <2>1. CASE l \in Body(g[t])
    BY <2>1 DEF TabsInv, Fresh
  <2>2. CASE \E id \in DocsOf(j) : l = RowOf(j, id)
    BY <1>1, <2>2
  <2> QED
    BY <2>1, <2>2 DEF WrittenBy
<1> QED
  BY <1>2 DEF TabsInv, Fresh

(* Tabs that show the same of all documents but those of a set.              *)
Alike(g, h, X) ==
    \A t \in Tabs : \A l : l.id \notin X => (l \in Body(h[t]) <=> l \in Body(g[t]))

LEMMA OthersStand ==
    ASSUME NEW g, NEW h, NEW X, Alike(g, h, X), NEW d, d \in [Ids -> SeasonDocs],
           NEW id \in Ids, id \notin X, Standing(g, d, id)
    PROVE  Standing(h, d, id)
<1>1. \A t \in Tabs : \A v : Shows(g, t, id, v) => Shows(h, t, id, v)
  BY DEF Shows, Alike
<1>2. \A t \in Tabs : Has(h, t, id) => Has(g, t, id)
  BY DEF Has, Alike
<1>3. d[id].live => d[id].season \in Tabs
  BY DEF SeasonDocs, Tabs
<1> QED
  BY <1>1, <1>2, <1>3 DEF Standing

(* A document in the database that is shown stays shown, no older.           *)
Covers(g, h, d) ==
    \A t \in Tabs : \A l \in Body(g[t]) : d[l.id].live =>
        \E u \in Tabs : \E m \in Body(h[u]) : m.id = l.id /\ m.ver >= l.ver

(* A job that goes on with the same rows over tabs it has kept in order.     *)
LEMMA SoundKept ==
    ASSUME NEW g, NEW h, NEW d, NEW T, NEW j, NEW q, Sound(g, d, T, j, q),
           d \in [Ids -> SeasonDocs],
           \A id \in q.again : d[id].live \/ id \in q.lost, q.ups \cup q.dels \subseteq q.open,
           ToSet(j.known) = T, RowsInv(d, j, q), Fresh(g, j),
           \A t \in Tabs : Tidy(h[t]), WrittenBy(j, g, h),
           Alike(g, h, DocsOf(j) \cup j.dels) \/ j.op = "resync",
           NEW i, SameWork(i, j),
           \/ i.todo = {} /\ ~i.ok
           \/ Reading(h, T, i)
           \/ i.op = "batch" /\ BatchWriting(h, i)
           \/ i.op = "resync" /\ RewriteWriting(h, i)
    PROVE  Sound(h, d, T, i, q)
<1>1. /\ j.docs \in [Ids -> SeasonDocs] /\ j.op \in {"batch", "resync"}
      /\ j.op = "batch" => j.back = <<>> /\ j.dels = q.dels
      /\ j.op = "resync" \/ DocsOf(j) # {} => \E id \in Ids : d[id].live
      /\ TabsInv(g, d, q.lost)
      /\ j.op = "batch" => \A id \in Ids \ q.open : Standing(g, d, id)
  BY DEF Sound
<1>2. TabsInv(h, d, q.lost) /\ Fresh(h, j)
  BY <1>1, GridKept
<1>3. /\ i.docs = j.docs /\ i.op = j.op /\ i.known = j.known /\ i.back = j.back /\ i.dels = j.dels
      /\ DocsOf(i) = DocsOf(j) /\ RowsInv(d, i, q) /\ Fresh(h, i)
  BY <1>2, SameRows DEF SameWork
<1>4. ASSUME j.op = "batch", NEW id \in Ids \ q.open  PROVE Standing(h, d, id)
  <2>1. PICK X : X = DocsOf(j) \cup j.dels
    OBVIOUS
  <2>2. id \notin X
    BY <1>1, <1>4, <2>1 DEF RowsInv
  <2>3. Standing(g, d, id) /\ Alike(g, h, X)
    BY <1>1, <1>4, <2>1
  <2> QED
    BY <2>2, <2>3, OthersStand
<1>5. (i.todo = {} /\ ~i.ok) \/ Working(h, d, T, i, q)
  BY <1>3 DEF Working
<1> QED
  BY <1>1, <1>2, <1>3, <1>4, <1>5 DEF Sound

(* A call that fails the job and changes no line.                            *)
LEMMA GivesUp ==
    ASSUME Alone, SheetInv, QueueTypeOK, OneIntention, AloneInv, NEW c \in Due(job["queue"]),
           NEW i, i.todo = {}, ~i.ok, SameWork(i, Flush), Proceeds("queue", i),
           UNCHANGED <<db, enabled, grid>>, tabs' # <<>>
    PROVE  AloneInv'
<1>1. PICK g, d, T, j, q : g = grid' /\ d = db' /\ T = ToSet(tabs') /\ j = Flush /\ q = Owed
  OBVIOUS
<1>2. Sound(g, d, ToSet(tabs), j, q) /\ Flush.todo # {}
  BY <1>1, AtWork
<1>3. SameWork(i, j) /\ DocsOf(i) = DocsOf(j)
  BY <1>1, SameRows
<1>4. Sound(g, d, T, i, q)
  BY <1>2, <1>3 DEF Sound, SameWork
<1>5. Sound(grid', db', ToSet(tabs'), i, q)
  BY <1>1, <1>4
<1> QED
  BY <1>1, <1>2, <1>5, SoundGoes

(* A call after which the job still has its rows and knows its tabs.         *)
LEMMA GoesOn ==
    ASSUME Alone, SheetInv, QueueTypeOK, OneIntention, AloneInv, NEW c \in Due(job["queue"]),
           c.kind \notin {"context", "fetch"},
           NEW i, SameWork(i, Flush), Proceeds("queue", i), UNCHANGED <<db, enabled, tabs>>,
           NEW g, g = grid, NEW h, h = grid', \A t \in Tabs : Tidy(h[t]), WrittenBy(Flush, g, h),
           Alike(g, h, DocsOf(Flush) \cup Flush.dels) \/ Flush.op = "resync",
           NEW T, T = ToSet(tabs),
           \/ i.todo = {} /\ ~i.ok
           \/ Reading(h, T, i)
           \/ i.op = "batch" /\ BatchWriting(h, i)
           \/ i.op = "resync" /\ RewriteWriting(h, i)
    PROVE  AloneInv'
<1>1. PICK d, j, q : d = db /\ j = Flush /\ q = Owed
  OBVIOUS
<1>2. /\ Sound(g, d, T, j, q) /\ Flush.todo # {} /\ c \in j.todo
  BY <1>1, AtWork
<1>3. /\ ToSet(j.known) = T /\ RowsInv(d, j, q) /\ Fresh(g, j)
  BY <1>2, Phases
<1>4. /\ d \in [Ids -> SeasonDocs]
      /\ \A id \in q.again : d[id].live \/ id \in q.lost
      /\ q.ups \cup q.dels \subseteq q.open
      /\ tabs # <<>>
  BY <1>1, AgainLost DEF SheetInv, AloneInv
<1>5. /\ WrittenBy(j, g, h) /\ (Alike(g, h, DocsOf(j) \cup j.dels) \/ j.op = "resync") /\ SameWork(i, j)
  BY <1>1
<1>6. Sound(h, d, T, i, q)
  BY <1>2, <1>3, <1>4, <1>5, SoundKept
<1>7. Sound(grid', db', ToSet(tabs'), i, q) /\ tabs' # <<>>
  BY <1>1, <1>4, <1>6
<1> QED
  BY <1>1, <1>2, <1>7, SoundGoes

(* What reading row 1 and scanning tell of a tab in order.                   *)
LEMMA TidyReads ==
    ASSUME NEW t \in Tabs, grid \in [Tabs -> Sheets], Tidy(grid[t])
    PROVE  /\ (IF Owned(t) THEN PlacesIn(t) ELSE {}) = Scanned(grid[t], t)
           /\ Row1(t) = Blank <=> grid[t] = <<>>
           /\ \A j : SameHeader(j, t) <=> HeadedBy(grid, j, t)
<1>1. PICK L : L = grid[t]
  OBVIOUS
<1>2. L # <<>> => L[1].id = Label
  BY <1>1 DEF Tidy
<1>3. Blank.id = NoId /\ NoId # Label /\ NoId \notin Ids
  BY MirrorAssumption DEF Blank, NoId, Label
<1>4. Owned(t) <=> L # <<>>
  BY <1>1, <1>2, <1>3 DEF Owned, Row1
<1>5. Row1(t) = Blank <=> L = <<>>
  BY <1>1, <1>2, <1>3 DEF Row1
<1>6. \A r \in 2 .. Len(L) : L[r].id # NoId /\ L[r].layout = L[1].layout
  BY <1>1, <1>3 DEF Tidy
<1>7. PICK R : R = {r \in 2 .. Len(L) : L[r].id # NoId /\ L[r].layout = L[1].layout}
  OBVIOUS
<1>8. R = 2 .. Len(L)
  BY <1>6, <1>7
<1>9. PlacesIn(t) = {[id |-> L[r].id, tab |-> t, row |-> r, ver |-> L[r].ver] : r \in R}
  BY <1>1, <1>7 DEF PlacesIn
<1>10. PlacesIn(t) = Scanned(L, t)
  BY <1>8, <1>9 DEF Scanned
<1>11. L = <<>> => Scanned(L, t) = {}
  <2>1. L = <<>> => 2 .. Len(L) = {}
    <3>1. Len(<<>>) = 0 /\ 2 .. 0 = {}
      BY EmptySeq
    <3> QED
      BY <3>1
  <2> QED
    BY <2>1 DEF Scanned
<1>12. \A j : HeaderOf(j, t) # Blank
  <2>1. \A j : HeaderOf(j, t).id = Label
    BY DEF HeaderOf
  <2> QED
    BY <1>3, <2>1
<1>13. ASSUME NEW j  PROVE SameHeader(j, t) <=> HeadedBy(grid, j, t)
  BY <1>1, <1>12 DEF SameHeader, HeadedBy, Row1
<1> QED
  BY <1>1, <1>4, <1>5, <1>10, <1>11, <1>13

LEMMA SoundReads ==
    ASSUME NEW g, NEW d, NEW S, NEW T, NEW j, NEW q, Sound(g, d, S, j, q),
           RowsInv(d, j, q), Fresh(g, j), NEW i, SameDocs(i, j), ToSet(i.known) = T,
           Reading(g, T, i) \/ (i.op = "batch" /\ BatchWriting(g, i))
                \/ (i.op = "resync" /\ RewriteWriting(g, i))
    PROVE  Sound(g, d, T, i, q)
<1>1. DocsOf(i) = DocsOf(j)
  BY DEF SameDocs, DocsOf
<1>2. RowsInv(d, i, q) /\ Fresh(g, i)
  BY <1>1 DEF SameDocs, RowsInv, Fresh
<1>3. Working(g, d, T, i, q)
  BY <1>2 DEF Working
<1> QED
  BY <1>1, <1>3 DEF Sound, SameDocs

LEMMA SameWorks ==
    ASSUME NEW i, NEW m, NEW j, SameWork(i, m), SameWork(m, j)
    PROVE  SameWork(i, j)
BY DEF SameWork

LEMMA ScanAlone ==
    ASSUME Alone, SheetInv, QueueTypeOK, OneIntention, AloneInv, Scan("queue")
    PROVE  AloneInv' /\ UNCHANGED grid
<1>1. PICK c \in Due(job["queue"]), answer \in Answers("scan") :
       LET j == Made(job["queue"], c)
           changed == /\ j.op = "reconcile" /\ Owned(c.tab) /\ c.tab \in Groups(j)
                      /\ grid[c.tab][1].layout # j.plans[c.tab]
       IN  /\ c.kind = "scan"
           /\ Count(answer)
           /\ Proceeds("queue",
                 IF answer # "done" THEN Failed(j)
                 ELSE IF changed THEN NewJob("resync", {})
                 ELSE WhenRead([j EXCEPT !.found = @ \cup IF Owned(c.tab) THEN PlacesIn(c.tab) ELSE {}]))
  BY Zenon DEF Scan
<1>2. PICK j, m, g, d, q, t, T, n, B :
         /\ j = Flush /\ m = Made(j, c) /\ g = grid /\ d = db /\ q = Owed /\ t = c.tab
         /\ T = ToSet(tabs) /\ n = Events /\ B = CutInto(T, n)
  OBVIOUS
<1>3. /\ "queue" \in Workers /\ job["queue"] = j /\ j.todo # {} /\ j \in JobsOver(T, n, B)
      /\ c \in j.todo /\ \A e \in j.todo : Rank(c) <= Rank(e)
      /\ Sound(g, d, T, j, q)
  BY <1>2, AtWork DEF Jobs
<1>4. c.kind = "scan" /\ UNCHANGED <<db, enabled, tabs, grid>> /\ tabs # <<>>
  BY <1>1 DEF Scan, sheetVars, AloneInv
<1>5. Reading(g, T, j) /\ ToSet(j.known) = T /\ RowsInv(d, j, q) /\ Fresh(g, j)
  BY <1>3, <1>4, Phases
<1>6. \A e \in j.todo : e.kind = "scan"
  BY <1>3, <1>4, <1>5, Ranks DEF Reading
<1>7. /\ m \in JobsOver(T, n, B) /\ SameWork(m, j) /\ m.ok = j.ok /\ m.todo = j.todo \ {c}
      /\ j.op \in {"batch", "resync"} /\ j.ok /\ m.op = j.op
  <2>1. m \in JobsOver(T, n, B)
    BY <1>2, <1>3, MadeJob
  <2>2. SameWork(m, j) /\ m.ok = j.ok /\ m.todo = j.todo \ {c}
    <3>1. j \in JobsOver(T, n, B) /\ m = Made(j, c)
      BY <1>2, <1>3
    <3> QED
      BY <3>1, MadeAfter
  <2>3. j.op \in {"batch", "resync"} /\ j.ok
    BY <1>3, <1>5 DEF Sound, Reading
  <2> QED
    BY <2>1, <2>2, <2>3 DEF SameWork
<1>8. c = Call("scan", t) /\ t \in Tabs /\ t \in T
  <2>1. c \in Calls /\ t \in T
    BY <1>2, <1>3, <1>4, JobParts
  <2> QED
    BY <1>2, <1>4, <2>1 DEF Calls, Call
<1>9. CASE answer # "done"
  <2>1. PICK i : i = Failed(m)
    OBVIOUS
  <2>2. i.todo = {} /\ ~i.ok /\ SameWork(i, j)
    BY <1>7, <2>1, FailedAfter, SameWorks
  <2>3. Proceeds("queue", i)
    BY <1>1, <1>2, <1>3, <1>9, <2>1
  <2> QED
    BY <1>2, <1>4, <2>2, <2>3, GivesUp
<1>10. CASE answer = "done"
  <2>1. PICK X : X = m.found \cup (IF Owned(t) THEN PlacesIn(t) ELSE {})
    OBVIOUS
  <2>2. PICK x : x = [m EXCEPT !.found = X]
    OBVIOUS
  <2>3. Proceeds("queue", WhenRead(x))
    <3>1. m.op # "reconcile"
      BY <1>7
    <3> QED
      BY <1>1, <1>2, <1>3, <1>10, <2>1, <2>2, <3>1
  <2>4. /\ x \in JobsOver(T, n, B) /\ SameDocs(x, j) /\ x.found = X
        /\ x.known = j.known /\ x.plans = j.plans /\ x.ok /\ x.todo = j.todo \ {c}
    <3>1. grid \in [Tabs -> Sheets]
      BY DEF SheetInv
    <3>2. /\ x \in JobsOver(T, n, B) /\ SameDocs(x, m) /\ x.found = X
          /\ x.known = m.known /\ x.plans = m.plans /\ x.ok = m.ok /\ x.todo = m.todo
      <4>1. m \in JobsOver(T, n, B) /\ t \in Tabs /\ t \in T
        BY <1>7, <1>8
      <4> QED
        BY <2>1, <2>2, <3>1, <4>1, ScannedJob
    <3> QED
      BY <1>7, <3>2 DEF SameDocs, SameWork
  <2>5. /\ \A u \in Tabs : Tidy(g[u])
        /\ X = j.found \cup Scanned(g[t], t)
    <3>1. \A u \in Tabs : Tidy(g[u])
      BY <1>3 DEF Sound, TabsInv
    <3>2. grid \in [Tabs -> Sheets] /\ Tidy(grid[t])
      BY <1>2, <1>8, <3>1 DEF SheetInv
    <3>3. (IF Owned(t) THEN PlacesIn(t) ELSE {}) = Scanned(g[t], t)
      BY <1>2, <1>8, <3>2, TidyReads
    <3> QED
      BY <1>7, <2>1, <3>1, <3>3 DEF SameWork
  <2>6. \A p \in x.found : p \in Scanned(g[p.tab], p.tab)
    <3>1. \A p \in Scanned(g[t], t) : p.tab = t
      BY <1>8, <2>5, ScannedPlaces
    <3> QED
      BY <1>5, <2>4, <2>5, <3>1 DEF Reading
  <2>7. \A u \in T : ToDo(x, "scan", u) \/ Scanned(g[u], u) \subseteq x.found
    BY <1>5, <1>8, <2>4, <2>5, CallsDiffer DEF Reading, ToDo
  <2>8. x.op = "batch" => \A u \in Groups(x) : HeadedBy(g, x, u)
    <3>1. DocsOf(x) = DocsOf(j)
      BY <2>4 DEF DocsOf, SameDocs
    <3>2. Groups(x) = Groups(j) /\ \A u : HeadedBy(g, x, u) <=> HeadedBy(g, j, u)
      BY <2>4, <3>1 DEF Groups, SameDocs, HeadedBy, HeaderOf
    <3>3. \A u : ~ToDo(j, "check", u)
      BY <1>6, CallsDiffer DEF ToDo
    <3> QED
      BY <1>5, <2>4, <3>2, <3>3 DEF Reading, SameDocs
  <2>9. CASE x.todo # {}
    <3>1. WhenRead(x) = x
      BY <2>9 DEF WhenRead
    <3>2. \A e \in x.todo : e.kind = "scan"
      BY <1>6, <2>4
    <3>3. \E u \in T : ToDo(x, "scan", u)
      <4>1. PICK e \in x.todo : TRUE
        BY <2>9
      <4>2. e \in Calls /\ e.kind = "scan" /\ e.tab \in T
        BY <2>4, <3>2, <4>1, JobParts
      <4>3. e = Call("scan", e.tab)
        BY <4>2 DEF Calls, Call
      <4> QED
        BY <4>1, <4>2, <4>3 DEF ToDo
    <3>4. \A u : ~ToDo(x, "header", u) /\ ~ToDo(x, "check", u)
      BY <3>2, CallsDiffer DEF ToDo
    <3>5. Reading(g, T, x)
      BY <2>4, <2>6, <2>7, <2>8, <3>2, <3>3, <3>4 DEF Reading
    <3>6. Sound(g, d, T, x, q)
      BY <1>3, <1>5, <2>4, <3>5, SoundReads
    <3>7. Sound(grid', db', ToSet(tabs'), x, q)
      BY <1>2, <1>4, <3>6
    <3> QED
      BY <1>2, <1>3, <1>4, <2>3, <3>1, <3>7, SoundGoes
  <2>10. CASE x.todo = {}
    <3>1. PICK i : i = [x EXCEPT !.todo = Changes(x)]
      OBVIOUS
    <3>2. WhenRead(x) = i
      BY <2>10, <3>1 DEF WhenRead
    <3>3. SameWork(i, x) /\ i.ok = x.ok /\ i.todo = Changes(x)
      <4>1. PICK C : C = Changes(x)
        OBVIOUS
      <4>2. i = [x EXCEPT !.todo = C]
        BY <3>1, <4>1
      <4>3. x \in JobsOver(T, n, B)
        BY <2>4
      <4> QED
        BY <4>1, <4>2, <4>3, OtherTodo
    <3>4. \A u \in T : Scanned(g[u], u) \subseteq x.found
      BY <2>7, <2>10 DEF ToDo
    <3>5. \A u \in Tabs \ T : g[u] = <<>>
      BY <1>2 DEF SheetInv
    <3>6. x.op \in {"batch", "resync"}
      BY <1>7, <2>4 DEF SameDocs
    <3>7. (x.op = "batch" => BatchWriting(g, i)) /\ (x.op = "resync" => RewriteWriting(g, i))
      BY <2>4, <2>5, <2>6, <2>8, <3>3, <3>4, <3>5, <3>6, ReadDone
    <3>8. SameDocs(i, j) /\ i.known = j.known
      BY <2>4, <3>3 DEF SameDocs, SameWork
    <3>9. Sound(g, d, T, i, q)
      BY <1>3, <1>5, <3>3, <3>6, <3>7, <3>8, SoundReads DEF SameWork
    <3>10. Sound(grid', db', ToSet(tabs'), i, q)
      BY <1>2, <1>4, <3>9
    <3> QED
      BY <1>2, <1>3, <1>4, <2>3, <3>2, <3>10, SoundGoes
  <2> QED
    BY <2>9, <2>10
<1> QED
  BY <1>9, <1>10

(* The tabs of the file are read: the job knows them all.                    *)
LEMMA ContextAlone ==
    ASSUME Alone, SheetInv, QueueTypeOK, OneIntention, AloneInv, Context("queue")
    PROVE  AloneInv' /\ UNCHANGED grid
<1>1. PICK c : c = Call("context", NoTab)
  OBVIOUS
<1>2. c \in Due(job["queue"]) /\ enabled /\ tabs # <<>>
  BY <1>1 DEF Context, AloneInv
<1>3. PICK j, g, d, q, T, n, B :
         /\ j = Flush /\ g = grid /\ d = db /\ q = Owed
         /\ T = ToSet(tabs) /\ n = Events /\ B = CutInto(T, n)
  OBVIOUS
<1>4. /\ job["queue"] = j /\ j.todo # {} /\ j \in JobsOver(T, n, B) /\ c \in j.todo
      /\ Sound(g, d, T, j, q)
  BY <1>2, <1>3, AtWork DEF Jobs
<1>5. UNCHANGED <<db, enabled, tabs, grid>>
  BY DEF Context, sheetVars
<1>6. Starting(T, j)
  BY <1>1, <1>4, Phases, CallsDiffer
<1>7. PICK answer \in Answers("context") :
         Proceeds("queue", IF answer = "done"
              THEN [j EXCEPT !.todo = {Call("fetch", NoTab)}, !.known = tabs, !.plans = PlansOver(db)]
              ELSE Failed(j))
  BY <1>2, <1>4 DEF Context
<1>8. CASE answer # "done"
  <2>1. PICK i : i = Failed(j)
    OBVIOUS
  <2>2. i.todo = {} /\ ~i.ok /\ SameWork(i, j)
    BY <1>4, <2>1, FailedAfter
  <2>3. Proceeds("queue", i) /\ tabs' # <<>>
    BY <1>2, <1>5, <1>7, <1>8, <2>1
  <2> QED
    BY <1>2, <1>3, <1>5, <2>2, <2>3, GivesUp
<1>9. CASE answer = "done"
  <2>1. PICK X, k, p : X = {Call("fetch", NoTab)} /\ k = tabs /\ p = PlansOver(db)
    OBVIOUS
  <2>2. PICK i : i = [j EXCEPT !.todo = X, !.known = k, !.plans = p]
    OBVIOUS
  <2>3. Proceeds("queue", i)
    BY <1>7, <1>9, <2>1, <2>2
  <2>4. /\ i.todo = X /\ i.known = k /\ i.ok = j.ok /\ i.found = j.found
        /\ i.op = j.op /\ i.docs = j.docs /\ i.dels = j.dels /\ i.back = j.back
    BY <1>4, <2>2, JobParts
  <2>5. Starting(T, i)
    BY <1>3, <1>6, <2>1, <2>4 DEF Starting
  <2>6. DocsOf(i) = DocsOf(j)
    BY <2>4 DEF DocsOf
  <2>7. Sound(g, d, T, i, q)
    BY <1>4, <2>4, <2>5, <2>6 DEF Sound, Working
  <2>8. Sound(grid', db', ToSet(tabs'), i, q) /\ tabs' # <<>>
    BY <1>2, <1>3, <1>5, <2>7
  <2> QED
    BY <1>3, <1>4, <1>5, <2>3, <2>8, SoundGoes
<1> QED
  BY <1>5, <1>8, <1>9

LEMMA SomeTab ==
    ASSUME NEW s \in Seq(Tabs), s # <<>>
    PROVE  \E t \in Tabs : t \in ToSet(s)
<1>1. Len(s) \in Nat /\ DOMAIN s = 1 .. Len(s) /\ Len(s) # 0
  BY LenProperties, EmptySeq
<1>2. 1 \in DOMAIN s
  BY <1>1
<1> QED
  BY <1>2, <1>1, ElementOfSeq DEF ToSet

(* The rows are read: a batch has those of its documents, a rewrite all.     *)
LEMMA FetchAlone ==
    ASSUME Alone, SheetInv, QueueTypeOK, OneIntention, AloneInv, Fetch("queue")
    PROVE  AloneInv' /\ UNCHANGED grid
<1>1. PICK c : c = Call("fetch", NoTab)
  OBVIOUS
<1>2. c \in Due(job["queue"]) /\ tabs # <<>>
  BY <1>1 DEF Fetch, AloneInv
<1>3. PICK j, g, d, q, T, n, B :
         /\ j = Flush /\ g = grid /\ d = db /\ q = Owed
         /\ T = ToSet(tabs) /\ n = Events /\ B = CutInto(T, n)
  OBVIOUS
<1>4. /\ job["queue"] = j /\ j.todo # {} /\ j \in JobsOver(T, n, B) /\ c \in j.todo
      /\ Sound(g, d, T, j, q)
  BY <1>2, <1>3, AtWork DEF Jobs
<1>5. UNCHANGED <<db, enabled, tabs, grid>>
  BY DEF Fetch, sheetVars
<1>6. Starting(T, j) /\ ToSet(j.known) = T
  <2>1. Starting(T, j)
    BY <1>1, <1>4, Phases, CallsDiffer
  <2> QED
    BY <1>1, <1>4, <2>1, CallsDiffer DEF Starting
<1>7. PICK read : read =
         IF j.op = "batch"
           THEN [j EXCEPT !.docs = [id \in Ids |-> IF id \in batch.upserts THEN db[id] ELSE NoDoc]]
           ELSE [j EXCEPT !.docs = db, !.plans = PlansOver(db)]
  OBVIOUS
<1>8. PICK X : X = {Call("scan", t) : t \in ToSet(j.known)}
                     \cup IF j.op = "batch" THEN {Call("check", t) : t \in Groups(read)} ELSE {}
  OBVIOUS
<1>9. PICK i : i = [read EXCEPT !.todo = X]
  OBVIOUS
<1>10. Proceeds("queue", WhenRead(i))
  BY <1>4, <1>7, <1>8, <1>9 DEF Fetch
<1>11. d \in [Ids -> SeasonDocs] /\ NoDoc \in SeasonDocs /\ q.ups = batch.upserts
  BY <1>3, EventCounts DEF SheetInv, NoDoc, SeasonDocs, Docs, Owed
<1>12. /\ DOMAIN read = DOMAIN j /\ read.op = j.op /\ read.known = j.known /\ read.ok = j.ok
       /\ read.found = j.found /\ read.dels = j.dels /\ read.back = j.back
       /\ read.docs \in [Ids -> SeasonDocs]
       /\ j.op = "batch" => \A id \in Ids : read.docs[id] = IF id \in q.ups THEN d[id] ELSE NoDoc
       /\ j.op # "batch" => read.docs = d
  <2>1. CASE j.op = "batch"
    <3>1. PICK D : D = [id \in Ids |-> IF id \in q.ups THEN d[id] ELSE NoDoc]
      OBVIOUS
    <3>2. read = [j EXCEPT !.docs = D]
      BY <1>3, <1>7, <1>11, <2>1, <3>1
    <3>3. D \in [Ids -> SeasonDocs] /\ \A id \in Ids : D[id] = IF id \in q.ups THEN d[id] ELSE NoDoc
      BY <1>11, <3>1
    <3>4. /\ DOMAIN read = DOMAIN j /\ read.op = j.op /\ read.known = j.known /\ read.ok = j.ok
          /\ read.found = j.found /\ read.dels = j.dels /\ read.back = j.back
          /\ read.docs = D
      BY <1>4, <3>2, JobParts
    <3> QED
      BY <2>1, <3>3, <3>4
  <2>2. CASE j.op # "batch"
    <3>1. PICK p : p = PlansOver(db)
      OBVIOUS
    <3>2. read = [j EXCEPT !.docs = d, !.plans = p]
      BY <1>3, <1>7, <2>2, <3>1
    <3>3. /\ DOMAIN read = DOMAIN j /\ read.op = j.op /\ read.known = j.known /\ read.ok = j.ok
          /\ read.found = j.found /\ read.dels = j.dels /\ read.back = j.back
          /\ read.docs = d
      BY <1>4, <3>2, JobParts
    <3> QED
      BY <1>11, <2>2, <3>3
  <2> QED
    BY <2>1, <2>2
<1>13. /\ i.op = j.op /\ i.known = j.known /\ i.ok = j.ok
       /\ i.found = j.found /\ i.dels = j.dels /\ i.back = j.back /\ i.docs = read.docs
       /\ i.todo = X
  BY <1>4, <1>9, <1>12, JobParts
<1>14. DocsOf(i) = DocsOf(read) /\ Groups(i) = Groups(read)
  <2>1. DocsOf(i) = DocsOf(read)
    BY <1>13 DEF DocsOf
  <2> QED
    BY <1>13, <2>1 DEF Groups
<1>15. \A t : ToDo(i, "scan", t) <=> t \in T
  BY <1>6, <1>8, <1>13, CallsDiffer DEF ToDo
<1>16. \A t : ToDo(i, "check", t) <=> j.op = "batch" /\ t \in Groups(i)
  BY <1>8, <1>13, <1>14, CallsDiffer DEF ToDo
<1>17. \A e \in X : e.kind = "scan" \/ (e.kind = "check" /\ j.op = "batch" /\ e.tab \in Groups(i))
  BY <1>8, <1>14, CallsDiffer
<1>18. \E t \in T : ToDo(i, "scan", t)
  <2>1. tabs \in Seq(Tabs) /\ tabs # <<>>
    BY <1>2 DEF SheetInv
  <2> QED
    BY <1>3, <1>15, <2>1, SomeTab
<1>19. WhenRead(i) = i
  BY <1>18 DEF WhenRead, ToDo
<1>20. Reading(g, T, i)
  <2>1. i.ok /\ i.found = {}
    BY <1>6, <1>13 DEF Starting
  <2>2. \A t : ~ToDo(i, "header", t)
    BY <1>13, <1>17, CallsDiffer DEF ToDo
  <2>3. \A e \in i.todo : e.kind \in {"header", "check", "scan"}
    BY <1>13, <1>17
  <2>4. \A e \in i.todo : e.kind # "scan" => 
          i.op = "batch" /\ e.tab \in Groups(i) /\ \A t \in T : ToDo(i, "scan", t)
    BY <1>13, <1>15, <1>17
  <2>5. i.op = "batch" => \A t \in Groups(i) : ToDo(i, "check", t) \/ HeadedBy(g, i, t)
    BY <1>13, <1>16
  <2> QED
    BY <1>15, <1>18, <2>1, <2>2, <2>3, <2>4, <2>5 DEF Reading
<1>21. /\ j.op \in {"batch", "resync"}
       /\ j.op = "batch" => j.back = <<>> /\ j.dels = q.dels
       /\ j.op = "resync" => \E id \in Ids : d[id].live
       /\ TabsInv(g, d, q.lost)
       /\ j.op = "batch" => \A id \in Ids \ q.open : Standing(g, d, id)
  BY <1>4 DEF Sound
<1>22. /\ \A id \in DocsOf(i) : id \in Ids /\ i.docs[id] = d[id] /\ d[id].live
       /\ j.op = "batch" => DocsOf(i) \subseteq q.ups
       /\ j.op = "resync" => \A id \in Ids : d[id].live => id \in DocsOf(i)
  <2>1. ~NoDoc.live
    BY DEF NoDoc
  <2> QED
    BY <1>12, <1>13, <1>21, <2>1 DEF DocsOf
<1>23. \A id \in Ids : d[id].ver <= d[id].ver
  <2>1. MaxEdits \in Nat
    BY MirrorAssumption
  <2>2. \A id \in Ids : d[id].ver \in 0 .. MaxEdits
    BY <1>11 DEF SeasonDocs, Docs
  <2> QED
    BY <2>1, <2>2
<1>24. RowsInv(d, i, q)
  <2>1. \A id \in Ids : i.op = "resync" \/ id \in q.ups => i.docs[id] = d[id]
    BY <1>12, <1>13, <1>21
  <2>2. \A id \in DocsOf(i) : i.docs[id].ver <= d[id].ver
    BY <1>22, <1>23
  <2>3. i.op = "resync" => DocsOf(i) # {}
    BY <1>13, <1>21, <1>22
  <2>4. i.op = "batch" => DocsOf(i) \subseteq q.ups /\ i.dels = q.dels
    BY <1>13, <1>21, <1>22
  <2> QED
    BY <2>1, <2>2, <2>3, <2>4 DEF RowsInv
<1>25. Fresh(g, i)
  BY <1>21, <1>22 DEF Fresh, TabsInv
<1>26. Sound(g, d, T, i, q)
  <2>1. Working(g, d, T, i, q)
    BY <1>6, <1>13, <1>20, <1>24, <1>25 DEF Working
  <2>2. i.op = "resync" \/ DocsOf(i) # {} => \E id \in Ids : d[id].live
    BY <1>13, <1>21, <1>22
  <2>3. i.docs \in [Ids -> SeasonDocs]
    BY <1>12, <1>13
  <2> QED
    BY <1>13, <1>21, <2>1, <2>2, <2>3 DEF Sound
<1>27. Sound(grid', db', ToSet(tabs'), i, q) /\ tabs' # <<>>
  BY <1>2, <1>3, <1>5, <1>26
<1> QED
  BY <1>3, <1>4, <1>5, <1>10, <1>19, <1>27, SoundGoes

(* A batch that still has its tabs to see to: what it may have left to do.   *)
LEMMA ReadingOn ==
    ASSUME NEW g, NEW T, NEW j, Reading(g, T, j), NEW e \in j.todo, e.kind # "scan",
           NEW h, NEW S, T \subseteq S,
           NEW i, i.op = j.op, i.ok, i.found = j.found, Groups(i) = Groups(j),
           \A c \in i.todo : c \in j.todo \/ c = Call("header", e.tab) \/ c = Call("scan", e.tab),
           \A t \in S : ToDo(i, "scan", t),
           \A t \in Tabs : ToDo(i, "header", t) => h[t] = <<>>,
           \A t \in Groups(j) : ToDo(i, "check", t) \/ HeadedBy(h, i, t),
           \A p \in j.found : h[p.tab] = g[p.tab]
    PROVE  Reading(h, S, i)
<1>1. /\ \A c \in j.todo : c.kind \in {"header", "check", "scan"}
      /\ j.op = "batch" /\ e.tab \in Groups(j)
      /\ \A c \in j.todo : c.kind # "scan" => c.tab \in Groups(j)
  BY DEF Reading
<1>2. \A c \in i.todo : /\ c.kind \in {"header", "check", "scan"}
                        /\ c.kind # "scan" => c.tab \in Groups(j)
  <2>1. ASSUME NEW c \in i.todo
        PROVE  /\ c.kind \in {"header", "check", "scan"}
               /\ c.kind # "scan" => c.tab \in Groups(j)
    <3>1. CASE c \in j.todo
      BY <1>1, <3>1
    <3>2. CASE c = Call("header", e.tab) \/ c = Call("scan", e.tab)
      BY <1>1, <3>2, CallsDiffer
    <3> QED
      BY <3>1, <3>2
  <2> QED
    BY <2>1
<1>3. \E t \in S : ToDo(i, "scan", t)
  BY DEF Reading
<1>4. \A p \in i.found : p \in Scanned(h[p.tab], p.tab)
  BY DEF Reading
<1> QED
  BY <1>1, <1>2, <1>3, <1>4 DEF Reading

(* A rewrite that turns to one of its tabs: the others are as they were.     *)
LEMMA RewriteOn ==
    ASSUME NEW g, NEW j, RewriteWriting(g, j), NEW t \in Groups(j), NEW h,
           \A u \in Tabs \ {t} : h[u] = g[u], Groups(j) \subseteq Tabs,
           \A p \in j.found : p.tab \in Tabs,
           NEW i, SameDocs(i, j), i.found = j.found, i.ok,
           \A c \in i.todo : c \in j.todo \/ (c.tab = t /\ c.kind \in {"header", "clear", "write"}),
           \A c \in j.todo : c.tab # t => c \in i.todo,
           ToDo(i, "header", t) \/ ToDo(i, "write", t) => h[t] = <<>>,
           ToDo(i, "header", t) => ToDo(i, "clear", t) /\ \A u \in Tabs : ~ToDo(i, "write", u),
           \A u \in Tabs : ToDo(i, "header", u) => ~ToDo(i, "write", t),
           ToDo(i, "clear", t) \/ ToDo(i, "write", t) \/ Rewritten(h, i, t)
    PROVE  RewriteWriting(h, i)
<1>1. DocsOf(i) = DocsOf(j)
  BY DEF SameDocs, DocsOf
<1>2. Groups(i) = Groups(j)
  BY <1>1 DEF SameDocs, Groups
<1>3. \A k : \A u : u # t => (ToDo(i, k, u) <=> ToDo(j, k, u))
  BY CallsDiffer DEF ToDo
<1>4. ~ToDo(i, "drop", t) /\ ~ToDo(j, "drop", t)
  <2>1. ~ToDo(j, "drop", t)
    BY CallsDiffer DEF RewriteWriting, ToDo
  <2> QED
    BY <2>1, CallsDiffer DEF ToDo
<1>5. \A c \in i.todo : /\ c.kind \in {"header", "clear", "write", "drop"}
                        /\ c.kind # "drop" <=> c.tab \in Groups(j)
  BY DEF RewriteWriting
<1>6. \A u \in Tabs : ToDo(i, "header", u) \/ ToDo(i, "write", u) => h[u] = <<>>
  <2>1. ASSUME NEW u \in Tabs, ToDo(i, "header", u) \/ ToDo(i, "write", u)  PROVE h[u] = <<>>
    <3>1. CASE u = t
      BY <2>1, <3>1
    <3>2. CASE u # t
      BY <1>3, <2>1, <3>2 DEF RewriteWriting
    <3> QED
      BY <3>1, <3>2
  <2> QED
    BY <2>1
<1>7. \A u, v \in Tabs : ToDo(i, "header", u) => ToDo(i, "clear", u) /\ ~ToDo(i, "write", v)
  <2>1. ASSUME NEW u \in Tabs, NEW v \in Tabs, ToDo(i, "header", u)
        PROVE  ToDo(i, "clear", u) /\ ~ToDo(i, "write", v)
    <3>1. CASE u = t
      BY <2>1, <3>1
    <3>2. CASE u # t /\ v # t
      BY <1>3, <2>1, <3>2 DEF RewriteWriting
    <3>3. CASE u # t /\ v = t
      BY <1>3, <2>1, <3>3 DEF RewriteWriting
    <3> QED
      BY <3>1, <3>2, <3>3
  <2> QED
    BY <2>1
<1>8. \A u \in Groups(j) : ToDo(i, "clear", u) \/ ToDo(i, "write", u) \/ Rewritten(h, i, u)
  <2>1. ASSUME NEW u \in Groups(j)
        PROVE  ToDo(i, "clear", u) \/ ToDo(i, "write", u) \/ Rewritten(h, i, u)
    <3>1. CASE u = t
      BY <3>1
    <3>2. CASE u # t
      <4>1. ToDo(j, "clear", u) \/ ToDo(j, "write", u) \/ Rewritten(g, j, u)
        BY DEF RewriteWriting
      <4>2. Rewritten(g, j, u) => Rewritten(h, i, u)
        <5>1. h[u] = g[u]
          BY <3>2
        <5> QED
          BY <1>1, <5>1 DEF Rewritten, Has, Shows, SameDocs
      <4> QED
        BY <1>3, <3>2, <4>1, <4>2
    <3> QED
      BY <3>1, <3>2
  <2> QED
    BY <2>1
<1>9. \A p \in i.found : ToDo(i, "drop", p.tab) => Accurate(h, p)
  <2>1. ASSUME NEW p \in j.found, ToDo(i, "drop", p.tab)  PROVE Accurate(h, p)
    <3>1. p.tab # t /\ p.tab \in Tabs
      BY <1>4, <2>1
    <3>2. Accurate(g, p) /\ h[p.tab] = g[p.tab]
      BY <1>3, <2>1, <3>1 DEF RewriteWriting
    <3> QED
      BY <3>2 DEF Accurate
  <2> QED
    BY <2>1
<1>10. \A u \in Tabs \ Groups(j), id \in DocsOf(j) : Has(h, u, id) =>
           ToDo(i, "drop", u) /\ FoundAt(i, u, id)
  <2>1. ASSUME NEW u \in Tabs \ Groups(j), NEW id \in DocsOf(j), Has(h, u, id)
        PROVE  ToDo(i, "drop", u) /\ FoundAt(i, u, id)
    <3>1. u # t /\ h[u] = g[u]
      OBVIOUS
    <3>2. Has(g, u, id)
      BY <2>1, <3>1 DEF Has
    <3>3. ToDo(j, "drop", u) /\ FoundAt(j, u, id)
      BY <3>2 DEF RewriteWriting
    <3> QED
      BY <1>3, <3>1, <3>3 DEF FoundAt
  <2> QED
    BY <2>1
<1> QED
  BY <1>1, <1>2, <1>5, <1>6, <1>7, <1>8, <1>9, <1>10 DEF RewriteWriting

LEMMA LineVersions ==
    ASSUME SheetInv
    PROVE  \A t \in Tabs : \A l \in Body(grid[t]) : l.ver \in Nat
<1>1. ASSUME NEW t \in Tabs, NEW l \in Body(grid[t])  PROVE l.ver \in Nat
  <2>1. PICK r \in 2 .. Len(grid[t]) : l = grid[t][r]
    BY DEF Body
  <2>2. grid[t] \in Sheets
    BY DEF SheetInv
  <2>3. Len(grid[t]) \in Nat /\ \A s \in 1 .. Len(grid[t]) : grid[t][s] \in LineSet
    BY <2>2, SheetLines
  <2>4. r \in 1 .. Len(grid[t])
    BY <2>3
  <2>5. l \in LineSet
    BY <2>1, <2>3, <2>4
  <2> QED
    BY <2>5, EventCounts DEF LineSet
<1> QED
  BY <1>1

(* Tabs that show the same documents as before.                              *)
LEMMA SameBodies ==
    ASSUME NEW g, NEW h, \A t \in Tabs : Body(h[t]) = Body(g[t]),
           \A t \in Tabs : \A l \in Body(g[t]) : l.ver \in Nat
    PROVE  /\ \A j : WrittenBy(j, g, h)
           /\ \A X : Alike(g, h, X)
           /\ \A d : Covers(g, h, d)
<1>1. \A j : WrittenBy(j, g, h)
  BY DEF WrittenBy
<1>2. \A X : Alike(g, h, X)
  BY DEF Alike
<1>3. ASSUME NEW d, NEW t \in Tabs, NEW l \in Body(g[t])
      PROVE  \E u \in Tabs : \E m \in Body(h[u]) : m.id = l.id /\ m.ver >= l.ver
  <2>1. l \in Body(h[t]) /\ l.ver >= l.ver
    BY <1>3
  <2> QED
    BY <2>1
<1> QED
  BY <1>1, <1>2, <1>3 DEF Covers

(* A tab is created before it is checked or cleared; those to which rows are *)
(* appended have their header and thus exist.                                *)
LEMMA CreateAlone ==
    ASSUME Alone, SheetInv, QueueTypeOK, OneIntention, AloneInv, CreateTab("queue")
    PROVE  AloneInv' /\ UNCHANGED grid
<1>1. PICK c \in Due(job["queue"]), answer \in Answers("create") :
         LET j == job["queue"]
             taken == c.tab \in ToSet(tabs)
             scan == IF c.kind = "check" THEN {Call("scan", c.tab)} ELSE {}
         IN  /\ c.kind \in {"check", "append", "clear"} /\ c.tab \notin ToSet(j.known)
             /\ Count(answer)
             /\ tabs' = IF answer = "refused" \/ taken THEN tabs ELSE Append(tabs, c.tab)
             /\ Proceeds("queue", IF answer = "done" /\ ~taken
                   THEN [j EXCEPT !.known = Append(@, c.tab),
                                  !.todo = @ \cup scan \cup {Call("header", c.tab)}]
                   ELSE IF c.kind = "append" THEN Noted(j, c) ELSE Failed(j))
  BY Zenon DEF CreateTab
<1>2. PICK j, g, d, q, t, T, n, B :
         /\ j = Flush /\ g = grid /\ d = db /\ q = Owed /\ t = c.tab
         /\ T = ToSet(tabs) /\ n = Events /\ B = CutInto(T, n)
  OBVIOUS
<1>3. /\ "queue" \in Workers /\ job["queue"] = j /\ j.todo # {} /\ j \in JobsOver(T, n, B)
      /\ c \in j.todo /\ \A e \in j.todo : Rank(c) <= Rank(e)
      /\ Sound(g, d, T, j, q)
  BY <1>2, AtWork DEF Jobs
<1>4. c.kind \in {"check", "append", "clear"} /\ UNCHANGED <<db, enabled, grid>> /\ tabs # <<>>
  BY <1>1 DEF CreateTab, AloneInv
<1>5. ToSet(j.known) = T /\ RowsInv(d, j, q) /\ Fresh(g, j)
  BY <1>3, <1>4, Phases
<1>6. t \notin T /\ t \in Tabs /\ c = Call(c.kind, t)
  <2>1. c \in Calls
    BY <1>3, JobParts
  <2> QED
    BY <1>1, <1>2, <1>3, <1>4, <1>5, <2>1 DEF Calls, Call
<1>7. g[t] = <<>>
  BY <1>2, <1>6 DEF SheetInv
<1>8. c.kind # "append"
  <2>1. ASSUME c.kind = "append"  PROVE FALSE
    <3>1. BatchWriting(g, j)
      BY <1>3, <2>1, Phases
    <3>2. ToDo(j, "append", t)
      BY <1>3, <1>6, <2>1 DEF ToDo
    <3>3. HeadedBy(g, j, t)
      BY <1>6, <3>1, <3>2 DEF BatchWriting
    <3> QED
      BY <1>7, <3>3 DEF HeadedBy
  <2> QED
    BY <2>1
<1>9. /\ tabs \in Seq(Tabs) /\ IsInjective(tabs)
      /\ Append(tabs, t) \in Seq(Tabs) /\ ToSet(Append(tabs, t)) = T \cup {t}
  <2>1. tabs \in Seq(Tabs) /\ IsInjective(tabs)
    BY DEF SheetInv
  <2> QED
    BY <1>2, <1>6, <2>1, AppendedTabs
<1>10. tabs' # <<>>
  <2>1. Append(tabs, t) # <<>>
    BY <1>9, <1>6, EmptySeq DEF ToSet
  <2> QED
    BY <1>1, <1>2, <1>4, <2>1
<1>11. CASE answer # "done"
  <2>1. PICK i : i = Failed(j)
    OBVIOUS
  <2>2. i.todo = {} /\ ~i.ok /\ SameWork(i, j)
    BY <1>3, <2>1, FailedAfter
  <2>3. Proceeds("queue", i)
    BY <1>1, <1>3, <1>8, <1>11, <2>1
  <2> QED
    BY <1>2, <1>4, <1>10, <2>2, <2>3, GivesUp
<1>12. CASE answer = "done"
  <2>1. PICK U, k, X : /\ U = T \cup {t}
                       /\ k = Append(j.known, t)
                       /\ X = j.todo \cup (IF c.kind = "check" THEN {Call("scan", t)} ELSE {})
                                \cup {Call("header", t)}
    OBVIOUS
  <2>2. PICK i : i = [j EXCEPT !.known = k, !.todo = X]
    OBVIOUS
  <2>3. Proceeds("queue", i) /\ tabs' = Append(tabs, t)
    BY <1>1, <1>2, <1>3, <1>6, <1>12, <2>1, <2>2
  <2>4. ToSet(tabs') = U
    BY <1>9, <2>1, <2>3
  <2>5. /\ i.known = k /\ i.todo = X /\ SameDocs(i, j) /\ i.ok = j.ok /\ i.found = j.found
        /\ i.plans = j.plans
    BY <1>3, <2>2, JobParts DEF SameDocs
  <2>6. ToSet(k) = U
    <3>1. j.known \in Seq(Tabs)
      BY <1>3, JobParts
    <3>2. /\ k \in Seq(Tabs) /\ Len(k) = Len(j.known) + 1 /\ Len(j.known) \in Nat
          /\ \A r \in 1 .. Len(j.known) : k[r] = (j.known)[r]
          /\ k[Len(j.known) + 1] = t
      BY <1>6, <2>1, <3>1, AppendProperties, LenProperties
    <3>3. DOMAIN k = 1 .. (Len(j.known) + 1) /\ DOMAIN (j.known) = 1 .. Len(j.known)
      BY <3>1, <3>2, LenProperties
    <3>4. 1 .. (Len(j.known) + 1) = (1 .. Len(j.known)) \cup {Len(j.known) + 1}
      BY <3>2
    <3>5. ToSet(k) = ToSet(j.known) \cup {t}
      BY <3>2, <3>3, <3>4 DEF ToSet
    <3> QED
      BY <1>5, <2>1, <3>5
  <2>7. DocsOf(i) = DocsOf(j) /\ Groups(i) = Groups(j) /\ Groups(j) \subseteq Tabs
    <3>1. DocsOf(i) = DocsOf(j)
      BY <2>5 DEF DocsOf, SameDocs
    <3>2. j.docs \in [Ids -> SeasonDocs]
      BY <1>3, JobParts
    <3> QED
      BY <2>5, <3>1, <3>2, GroupTabs DEF Groups, SameDocs
  <2>8. CASE c.kind = "check"
    <3>1. Reading(g, T, j)
      BY <1>3, <2>8, Phases
    <3>2. X = j.todo \cup {Call("scan", t), Call("header", t)}
      BY <2>1, <2>8
    <3>3. \A u \in U : ToDo(i, "scan", u)
      BY <1>3, <2>1, <2>5, <2>8, <3>1, <3>2 DEF Reading, ToDo
    <3>4. \A u \in Tabs : ToDo(i, "header", u) => g[u] = <<>>
      BY <1>7, <2>5, <3>1, <3>2, CallsDiffer DEF Reading, ToDo
    <3>5. \A u \in Groups(j) : ToDo(i, "check", u) \/ HeadedBy(g, i, u)
      <4>1. j.op = "batch"
        BY <1>3, <2>8, <3>1 DEF Reading
      <4>2. \A u : HeadedBy(g, j, u) => HeadedBy(g, i, u)
        BY <2>5 DEF HeadedBy, HeaderOf
      <4>3. \A u : ToDo(j, "check", u) => ToDo(i, "check", u)
        BY <2>5, <3>2 DEF ToDo
      <4> QED
        BY <3>1, <4>1, <4>2, <4>3 DEF Reading
    <3>6. i.ok /\ i.op = j.op /\ T \subseteq U
      BY <2>1, <2>5, <3>1 DEF Reading, SameDocs
    <3>7. \A e \in i.todo : e \in j.todo \/ e = Call("header", c.tab) \/ e = Call("scan", c.tab)
      BY <1>2, <2>5, <3>2
    <3>8. Reading(g, U, i)
      BY <1>3, <2>5, <2>7, <2>8, <3>1, <3>3, <3>4, <3>5, <3>6, <3>7, ReadingOn
    <3>9. Sound(g, d, U, i, q)
      BY <1>3, <1>5, <2>5, <2>6, <3>8, SoundReads
    <3>10. Sound(grid', db', ToSet(tabs'), i, q)
      BY <1>2, <1>4, <2>4, <3>9
    <3> QED
      BY <1>2, <1>3, <1>4, <1>10, <2>3, <3>10, SoundGoes
  <2>9. CASE c.kind = "clear"
    <3>1. j.op = "resync" /\ RewriteWriting(g, j)
      BY <1>3, <2>9, Phases
    <3>2. X = j.todo \cup {Call("header", t)} /\ t \in Groups(j) /\ ToDo(j, "clear", t)
      BY <1>2, <1>3, <1>6, <2>1, <2>9, <3>1 DEF RewriteWriting, ToDo
    <3>3. \A u : ~ToDo(i, "write", u)
      <4>1. \A e \in j.todo : e.kind # "write"
        BY <1>3, <2>9, <3>1, Ranks DEF RewriteWriting
      <4> QED
        BY <2>5, <3>2, <4>1, CallsDiffer DEF ToDo
    <3>4. ToDo(i, "clear", t) /\ i.ok
      BY <2>5, <3>1, <3>2 DEF ToDo, RewriteWriting
    <3>5. \A e \in i.todo : e \in j.todo \/ (e.tab = t /\ e.kind \in {"header", "clear", "write"})
      BY <2>5, <3>2, CallsDiffer
    <3>6. \A e \in j.todo : e.tab # t => e \in i.todo
      BY <2>5, <3>2
    <3>7. \A p \in j.found : p.tab \in Tabs
      BY <1>3, JobParts DEF Places
    <3>8. RewriteWriting(g, i)
      BY <1>7, <2>5, <2>7, <3>1, <3>2, <3>3, <3>4, <3>5, <3>6, <3>7, RewriteOn
    <3>9. Sound(g, d, U, i, q)
      BY <1>3, <1>5, <2>5, <2>6, <3>1, <3>8, SoundReads DEF SameDocs
    <3>10. Sound(grid', db', ToSet(tabs'), i, q)
      BY <1>2, <1>4, <2>4, <3>9
    <3> QED
      BY <1>2, <1>3, <1>4, <1>10, <2>3, <3>10, SoundGoes
  <2> QED
    BY <1>4, <1>8, <2>8, <2>9
<1> QED
  BY <1>4, <1>11, <1>12

(* The header goes into an empty tab: a new one, one a batch checked, or one *)
(* a rewrite is about to clear.                                              *)
LEMMA HeaderAlone ==
    ASSUME Alone, SheetInv, QueueTypeOK, OneIntention, AloneInv, WriteHeader("queue")
    PROVE  AloneInv' /\ Covers(grid, grid', db')
<1>1. PICK c \in Due(job["queue"]), answer \in Answers("header") :
       LET j == Made(job["queue"], c) IN
           /\ c.kind = "header"
           /\ Count(answer)
           /\ IF answer = "refused" THEN UNCHANGED grid
              ELSE Writes(c.tab, Overlay(grid[c.tab], 1, <<HeaderOf(j, c.tab)>>))
           /\ Proceeds("queue", IF answer = "done" THEN Made(j, Call("check", c.tab))
                 ELSE IF j.op = "reconcile" THEN Noted(j, Call("append", c.tab)) ELSE Failed(j))
  BY Zenon DEF WriteHeader
<1>2. PICK j, m, g, h, d, q, t, T, n, B :
         /\ j = Flush /\ m = Made(j, c) /\ g = grid /\ h = grid' /\ d = db /\ q = Owed /\ t = c.tab
         /\ T = ToSet(tabs) /\ n = Events /\ B = CutInto(T, n)
  OBVIOUS
<1>3. /\ "queue" \in Workers /\ job["queue"] = j /\ j.todo # {} /\ j \in JobsOver(T, n, B)
      /\ c \in j.todo /\ \A e \in j.todo : Rank(c) <= Rank(e)
      /\ Sound(g, d, T, j, q)
  BY <1>2, AtWork DEF Jobs
<1>4. c.kind = "header" /\ UNCHANGED <<db, enabled, tabs>> /\ tabs # <<>>
  BY <1>1 DEF WriteHeader, AloneInv
<1>5. /\ ToSet(j.known) = T /\ RowsInv(d, j, q) /\ Fresh(g, j)
      /\ (Reading(g, T, j) \/ (j.op = "resync" /\ RewriteWriting(g, j)))
      /\ j.op \in {"batch", "resync"} /\ \A u \in Tabs : Tidy(g[u])
  BY <1>3, <1>4, Phases DEF Sound, TabsInv
<1>6. t \in T /\ t \in Tabs /\ c = Call("header", t)
  <2>1. c \in Calls /\ t \in T
    BY <1>2, <1>3, <1>4, JobParts
  <2> QED
    BY <1>2, <1>4, <2>1 DEF Calls, Call
<1>7. ToDo(j, "header", t)
  BY <1>3, <1>6 DEF ToDo
<1>8. g[t] = <<>>
  BY <1>5, <1>6, <1>7 DEF Reading, RewriteWriting
<1>9. m \in JobsOver(T, n, B) /\ SameWork(m, j) /\ m.ok = j.ok /\ m.todo = j.todo \ {c}
  <2>1. m \in JobsOver(T, n, B)
    BY <1>2, <1>3, MadeJob
  <2>2. SameWork(m, j) /\ m.ok = j.ok /\ m.todo = j.todo \ {c}
    <3>1. j \in JobsOver(T, n, B) /\ m = Made(j, c)
      BY <1>2, <1>3
    <3> QED
      BY <3>1, MadeAfter
  <2> QED
    BY <2>1, <2>2
<1>10. PICK e, i : /\ e = Call("check", t)
                   /\ i = IF answer = "done" THEN Made(m, e) ELSE Failed(m)
  OBVIOUS
<1>11. Proceeds("queue", i)
  <2>1. m.op # "reconcile"
    BY <1>5, <1>9 DEF SameWork
  <2> QED
    BY <1>1, <1>2, <1>3, <1>10, <2>1
<1>12. /\ SameWork(i, j)
       /\ \/ i.todo = {} /\ ~i.ok
          \/ answer = "done" /\ i.ok = j.ok /\ i.todo = j.todo \ {c, e}
  <2>1. CASE answer = "done"
    <3>1. i = Made(m, e) /\ m \in JobsOver(T, n, B)
      BY <1>9, <1>10, <2>1
    <3>2. SameWork(i, m) /\ i.ok = m.ok /\ i.todo = m.todo \ {e}
      BY <3>1, MadeAfter
    <3>3. SameWork(i, j)
      BY <1>9, <3>2, SameWorks
    <3> QED
      BY <1>9, <2>1, <3>2, <3>3
  <2>2. CASE answer # "done"
    <3>1. i = Failed(m) /\ m \in JobsOver(T, n, B)
      BY <1>9, <1>10, <2>2
    <3>2. SameWork(i, m) /\ ~i.ok /\ i.todo = {}
      BY <3>1, FailedAfter
    <3> QED
      BY <1>9, <3>2, SameWorks
  <2> QED
    BY <2>1, <2>2
<1>13. PICK x, N : x = HeaderOf(j, t) /\ N = Overlay(<<>>, 1, <<x>>)
  OBVIOUS
<1>14. Tidy(N) /\ Body(N) = {} /\ N # <<>> /\ N[1] = x
  <2>1. x \in LineSet /\ x.id = Label
    BY <1>3, <1>6, <1>13, JobParts, HeaderLine
  <2> QED
    BY <1>13, <2>1, HeaderTidy
<1>15. h = g \/ h = [g EXCEPT ![t] = N]
  <2>1. HeaderOf(m, t) = x
    BY <1>9, <1>13 DEF HeaderOf, SameWork
  <2> QED
    BY <1>1, <1>2, <1>3, <1>8, <1>13, <2>1 DEF Writes
<1>16. DOMAIN g = Tabs
  BY <1>2 DEF SheetInv
<1>17. \A u \in Tabs \ {t} : h[u] = g[u]
  BY <1>15, <1>16
<1>18. h[t] = g[t] \/ h[t] = N
  BY <1>6, <1>15, <1>16
<1>19. /\ \A u \in Tabs : Tidy(h[u])
       /\ \A u \in Tabs : Body(h[u]) = Body(g[u])
  <2>1. Body(h[t]) = Body(g[t]) /\ Tidy(h[t])
    BY <1>5, <1>6, <1>8, <1>14, <1>18, EmptyTidy
  <2> QED
    BY <1>5, <1>6, <1>17, <2>1
<1>20. /\ WrittenBy(j, g, h) /\ Alike(g, h, DocsOf(j) \cup j.dels) /\ Covers(g, h, d)
  BY <1>2, <1>19, SameBodies, LineVersions
<1>21. ASSUME answer = "done"  PROVE h[t] = N
  <2>1. HeaderOf(m, t) = x
    BY <1>9, <1>13 DEF HeaderOf, SameWork
  <2> QED
    BY <1>1, <1>2, <1>3, <1>6, <1>8, <1>13, <1>16, <1>21, <2>1 DEF Writes
<1>22. /\ DocsOf(i) = DocsOf(j) /\ Groups(i) = Groups(j) /\ i.found = j.found /\ i.op = j.op
       /\ Groups(j) \subseteq Tabs /\ \A u : HeadedBy(h, i, u) <=> HeadedBy(h, j, u)
  <2>1. Groups(j) \subseteq Tabs
    BY <1>3, JobParts, GroupTabs
  <2> QED
    BY <1>12, <2>1, SameRows DEF SameWork
<1>23. CASE answer = "done" /\ i.ok = j.ok /\ i.todo = j.todo \ {c, e} /\ Reading(g, T, j)
  <2>1. \A u \in T : ToDo(i, "scan", u)
    <3>1. \A u \in T : ToDo(j, "scan", u)
      BY <1>3, <1>4, <1>23 DEF Reading
    <3> QED
      BY <1>6, <1>10, <1>23, <3>1, CallsDiffer DEF ToDo
  <2>2. \A u \in Tabs : ToDo(i, "header", u) => h[u] = <<>>
    <3>1. \A u : ToDo(i, "header", u) => u # t /\ ToDo(j, "header", u)
      BY <1>6, <1>23 DEF ToDo
    <3> QED
      BY <1>17, <1>23, <3>1 DEF Reading
  <2>3. \A u \in Groups(j) : ToDo(i, "check", u) \/ HeadedBy(h, i, u)
    <3>1. ASSUME NEW u \in Groups(j)  PROVE ToDo(i, "check", u) \/ HeadedBy(h, i, u)
      <4>1. CASE u = t
        BY <1>13, <1>14, <1>21, <1>22, <1>23, <4>1 DEF HeadedBy
      <4>2. CASE u # t
        <5>1. ToDo(j, "check", u) \/ HeadedBy(g, j, u)
          BY <1>3, <1>4, <1>23 DEF Reading
        <5>2. HeadedBy(g, j, u) => HeadedBy(h, j, u)
          BY <1>17, <1>22, <4>2 DEF HeadedBy
        <5>3. ToDo(j, "check", u) => ToDo(i, "check", u)
          BY <1>6, <1>10, <1>23, <4>2, CallsDiffer DEF ToDo
        <5> QED
          BY <1>22, <5>1, <5>2, <5>3
      <4> QED
        BY <4>1, <4>2
    <3> QED
      BY <3>1
  <2>4. \A p \in j.found : h[p.tab] = g[p.tab]
    <3>1. ASSUME NEW p \in j.found, p.tab = t  PROVE FALSE
      <4>1. p \in Scanned(g[t], t)
        BY <1>23, <3>1 DEF Reading
      <4>2. 2 .. Len(<<>>) = {}
        <5>1. Len(<<>>) = 0 /\ 2 .. 0 = {}
          BY EmptySeq
        <5> QED
          BY <5>1
      <4> QED
        BY <1>8, <4>1, <4>2 DEF Scanned
    <3>2. \A p \in j.found : p.tab \in Tabs
      BY <1>3, JobParts DEF Places
    <3> QED
      BY <1>17, <3>1, <3>2
  <2>5. i.ok /\ T \subseteq T /\ \A k \in i.todo : k \in j.todo
    BY <1>23 DEF Reading
  <2>6. Reading(h, T, i)
    BY <1>3, <1>4, <1>22, <1>23, <2>1, <2>2, <2>3, <2>4, <2>5, ReadingOn
  <2> QED
    BY <1>2, <1>4, <1>11, <1>12, <1>19, <1>20, <2>6, GoesOn
<1>24. CASE answer = "done" /\ i.ok = j.ok /\ i.todo = j.todo \ {c, e}
            /\ j.op = "resync" /\ RewriteWriting(g, j)
  <2>1. ToDo(j, "clear", t) /\ \A u \in Tabs : ~ToDo(j, "write", u)
    BY <1>6, <1>7, <1>24 DEF RewriteWriting
  <2>2. t \in Groups(j)
    BY <1>2, <1>3, <1>4, <1>24 DEF RewriteWriting
  <2>3. ToDo(i, "clear", t) /\ ~ToDo(i, "header", t) /\ \A u \in Tabs : ~ToDo(i, "write", u)
    BY <1>6, <1>10, <1>24, <2>1, CallsDiffer DEF ToDo
  <2>4. /\ \A k \in i.todo : k \in j.todo
        /\ \A k \in j.todo : k.tab # t => k \in i.todo
    BY <1>6, <1>10, <1>24, CallsDiffer
  <2>5. \A p \in j.found : p.tab \in Tabs
    BY <1>3, JobParts DEF Places
  <2>6. SameDocs(i, j) /\ i.ok
    BY <1>12, <1>24 DEF SameDocs, SameWork, RewriteWriting
  <2>7. RewriteWriting(h, i)
    BY <1>6, <1>17, <1>22, <1>24, <2>2, <2>3, <2>4, <2>5, <2>6, RewriteOn
  <2> QED
    BY <1>2, <1>4, <1>11, <1>12, <1>19, <1>20, <1>22, <1>24, <2>7, GoesOn
<1>25. CASE i.todo = {} /\ ~i.ok
  BY <1>2, <1>4, <1>11, <1>12, <1>19, <1>20, <1>25, GoesOn
<1>26. AloneInv'
  BY <1>5, <1>12, <1>23, <1>24, <1>25
<1> QED
  BY <1>2, <1>4, <1>20, <1>26

(* The headers of its tabs are read by a batch: an empty row 1 is filled,    *)
(* the right one is left, any other one starts a rewrite of every tab.       *)
LEMMA CheckAlone ==
    ASSUME Alone, SheetInv, QueueTypeOK, OneIntention, AloneInv, CheckHeader("queue")
    PROVE  AloneInv' /\ UNCHANGED grid
<1>1. PICK c \in Due(job["queue"]), answer \in Answers("check") :
       LET j == job["queue"]
       IN  /\ c.kind = "check" /\ c.tab \in ToSet(j.known)
           /\ Count(answer)
           /\ Proceeds("queue",
                 IF answer # "done" THEN Failed(j)
                 ELSE IF Row1(c.tab) = Blank THEN [j EXCEPT !.todo = @ \cup {Call("header", c.tab)}]
                 ELSE IF SameHeader(j, c.tab) THEN Made(j, c)
                 ELSE [NewJob("resync", {}) EXCEPT !.back = <<Made(j, c)>>])
  BY Zenon DEF CheckHeader
<1>2. PICK j, g, d, q, t, T, n, B :
         /\ j = Flush /\ g = grid /\ d = db /\ q = Owed /\ t = c.tab
         /\ T = ToSet(tabs) /\ n = Events /\ B = CutInto(T, n)
  OBVIOUS
<1>3. /\ "queue" \in Workers /\ job["queue"] = j /\ j.todo # {} /\ j \in JobsOver(T, n, B)
      /\ c \in j.todo /\ \A e \in j.todo : Rank(c) <= Rank(e)
      /\ Sound(g, d, T, j, q)
  BY <1>2, AtWork DEF Jobs
<1>4. c.kind = "check" /\ UNCHANGED <<db, enabled, tabs, grid>> /\ tabs # <<>>
  BY <1>1 DEF CheckHeader, sheetVars, AloneInv
<1>5. Reading(g, T, j) /\ ToSet(j.known) = T /\ RowsInv(d, j, q) /\ Fresh(g, j)
  BY <1>3, <1>4, Phases
<1>6. c = Call("check", t) /\ t \in Tabs /\ t \in T /\ j.op = "batch" /\ t \in Groups(j) /\ j.ok
  <2>1. c \in Calls
    BY <1>3, JobParts
  <2> QED
    BY <1>1, <1>2, <1>3, <1>4, <1>5, <2>1 DEF Calls, Call, Reading
<1>7. /\ Row1(t) = Blank <=> g[t] = <<>>
      /\ SameHeader(j, t) <=> HeadedBy(g, j, t)
  <2>1. grid \in [Tabs -> Sheets] /\ Tidy(grid[t])
    BY <1>2, <1>3, <1>6 DEF SheetInv, Sound, TabsInv
  <2>2. /\ Row1(t) = Blank <=> grid[t] = <<>>
        /\ \A i : SameHeader(i, t) <=> HeadedBy(grid, i, t)
    BY <1>6, <2>1, TidyReads
  <2> QED
    BY <1>2, <2>2
<1>8. CASE answer # "done"
  <2>1. PICK i : i = Failed(j)
    OBVIOUS
  <2>2. i.todo = {} /\ ~i.ok /\ SameWork(i, j)
    BY <1>3, <2>1, FailedAfter
  <2>3. Proceeds("queue", i)
    BY <1>1, <1>3, <1>8, <2>1
  <2> QED
    BY <1>2, <1>4, <2>2, <2>3, GivesUp
<1>9. \A u \in T : ToDo(j, "scan", u)
  BY <1>3, <1>4, <1>5 DEF Reading
<1>10. ASSUME NEW i, Proceeds("queue", i), SameWork(i, j), i.ok = j.ok,
              \/ i.todo = j.todo \cup {Call("header", t)} /\ g[t] = <<>>
              \/ i.todo = j.todo \ {c} /\ HeadedBy(g, j, t)
       PROVE  AloneInv'
  <2>1. /\ Groups(i) = Groups(j) /\ i.found = j.found /\ i.op = j.op
        /\ \A u : HeadedBy(g, i, u) <=> HeadedBy(g, j, u)
    BY <1>10, SameRows DEF SameWork
  <2>2. \A u \in T : ToDo(i, "scan", u)
    BY <1>6, <1>9, <1>10, CallsDiffer DEF ToDo
  <2>3. \A u \in Tabs : ToDo(i, "header", u) => g[u] = <<>>
    BY <1>5, <1>10, CallsDiffer DEF ToDo, Reading
  <2>4. \A u \in Groups(j) : ToDo(i, "check", u) \/ HeadedBy(g, i, u)
    <3>1. \A u : ToDo(j, "check", u) => ToDo(i, "check", u) \/ HeadedBy(g, j, u)
      BY <1>6, <1>10, CallsDiffer DEF ToDo
    <3> QED
      BY <1>5, <1>6, <2>1, <3>1 DEF Reading
  <2>5. \A e \in i.todo : e \in j.todo \/ e = Call("header", c.tab)
    BY <1>2, <1>10
  <2>6. i.ok /\ T \subseteq T
    BY <1>6, <1>10
  <2>7. Reading(g, T, i)
    BY <1>3, <1>4, <1>5, <2>1, <2>2, <2>3, <2>4, <2>5, <2>6, ReadingOn
  <2>8. SameDocs(i, j) /\ ToSet(i.known) = T
    BY <1>5, <1>10 DEF SameDocs, SameWork
  <2>9. Sound(g, d, T, i, q)
    BY <1>3, <1>5, <2>7, <2>8, SoundReads
  <2>10. Sound(grid', db', ToSet(tabs'), i, q)
    BY <1>2, <1>4, <2>9
  <2> QED
    BY <1>2, <1>3, <1>4, <1>10, <2>10, SoundGoes
<1>11. CASE answer = "done" /\ Row1(t) = Blank
  <2>1. PICK X : X = j.todo \cup {Call("header", t)}
    OBVIOUS
  <2>2. PICK i : i = [j EXCEPT !.todo = X]
    OBVIOUS
  <2>3. Proceeds("queue", i)
    BY <1>1, <1>2, <1>3, <1>11, <2>1, <2>2
  <2>4. SameWork(i, j) /\ i.ok = j.ok /\ i.todo = X
    BY <1>3, <2>2, OtherTodo
  <2>5. i.todo = j.todo \cup {Call("header", t)} /\ g[t] = <<>>
    BY <1>7, <1>11, <2>1, <2>4
  <2>6. AloneInv'
    BY <1>10, <2>3, <2>4, <2>5
  <2> QED
    BY <1>4, <2>6
<1>12. CASE answer = "done" /\ Row1(t) # Blank /\ SameHeader(j, t)
  <2>1. PICK i : i = Made(j, c)
    OBVIOUS
  <2>2. Proceeds("queue", i)
    BY <1>1, <1>2, <1>3, <1>12, <2>1
  <2>3. SameWork(i, j) /\ i.ok = j.ok /\ i.todo = j.todo \ {c}
    BY <1>3, <2>1, MadeAfter
  <2> QED
    BY <1>4, <1>7, <1>10, <1>12, <2>2, <2>3
<1>13. CASE answer = "done" /\ Row1(t) # Blank /\ ~SameHeader(j, t)
  <2>1. PICK k, b : k = NewJob("resync", {}) /\ b = <<Made(j, c)>>
    OBVIOUS
  <2>2. PICK i : i = [k EXCEPT !.back = b]
    OBVIOUS
  <2>3. Proceeds("queue", i)
    BY <1>1, <1>2, <1>3, <1>13, <2>1, <2>2
  <2>4. k \in JobsOver(T, n, {<<>>})
    BY <2>1, NewJobs DEF Ops
  <2>5. k.todo = {Call("context", NoTab)} /\ k.ok /\ k.found = {} /\ k.op = "resync"
    BY <2>1 DEF NewJob
  <2>6. /\ i.todo = {Call("context", NoTab)} /\ i.ok /\ i.found = {} /\ i.op = "resync"
        /\ i.docs \in [Ids -> SeasonDocs]
    BY <2>2, <2>4, <2>5, JobParts
  <2>7. \E id \in Ids : d[id].live
    <3>1. DocsOf(j) # {}
      BY <1>6 DEF Groups
    <3> QED
      BY <1>3, <3>1 DEF Sound
  <2>8. Sound(g, d, T, i, q)
    <3>1. TabsInv(g, d, q.lost)
      BY <1>3 DEF Sound
    <3> QED
      BY <2>6, <2>7, <3>1 DEF Sound, Working, Starting
  <2>9. Sound(grid', db', ToSet(tabs'), i, q)
    BY <1>2, <1>4, <2>8
  <2> QED
    BY <1>2, <1>3, <1>4, <2>3, <2>9, SoundGoes
<1> QED
  BY <1>4, <1>8, <1>11, <1>12, <1>13

(* A batch that made one of its writes, or noted that it failed.             *)
LEMMA BatchOn ==
    ASSUME NEW g, NEW j, BatchWriting(g, j), NEW c \in j.todo, NEW h,
           NEW i, SameWork(i, j),
           \/ i.ok = j.ok /\ i.todo = j.todo \ {c}
           \/ ~i.ok /\ i.todo = {e \in j.todo \ {c} : e.kind # "drop"},
           \A t \in Groups(j) : h[t] # <<>> /\ h[t][1] = g[t][1],
           \A p \in j.found : ToDo(i, "update", NoTab) \/ ToDo(i, "drop", p.tab) =>
               (Accurate(g, p) => Accurate(h, p)),
           \A t \in Tabs : ToDo(i, "append", t) =>
               \A id \in ToAppend(j, t) : Has(h, t, id) => Has(g, t, id),
           i.ok => \A t \in Tabs, id \in Ids : Unwanted(j, t, id) /\ Has(h, t, id) =>
               Has(g, t, id) /\ c # Call("drop", t),
           i.ok => \A p \in j.found : AtHome(j, p) =>
               \/ c # Call("update", NoTab) /\ (\A v : Shows(g, p.tab, p.id, v) => Shows(h, p.tab, p.id, v))
               \/ Shows(h, p.tab, p.id, j.docs[p.id].ver),
           i.ok => \A t \in Groups(j) : \A id \in ToAppend(j, t) :
               \/ c # Call("append", t) /\
                    (Shows(g, t, id, j.docs[id].ver) => Shows(h, t, id, j.docs[id].ver))
               \/ Shows(h, t, id, j.docs[id].ver)
    PROVE  BatchWriting(h, i)
<1>1. /\ DocsOf(i) = DocsOf(j) /\ Groups(i) = Groups(j) /\ i.found = j.found /\ i.docs = j.docs
      /\ \A t : ToAppend(i, t) = ToAppend(j, t)
      /\ \A t : HeadedBy(h, i, t) <=> HeadedBy(h, j, t)
      /\ \A p : AtHome(i, p) <=> AtHome(j, p)
      /\ \A t, id : (FoundAt(i, t, id) <=> FoundAt(j, t, id))
      /\ \A t, id : (Unwanted(i, t, id) <=> Unwanted(j, t, id))
  BY SameRows DEF SameWork
<1>2. /\ \A k, t : ToDo(i, k, t) => ToDo(j, k, t)
      /\ i.ok => j.ok /\ (\A k, t : ToDo(j, k, t) /\ c # Call(k, t) => ToDo(i, k, t))
      /\ \A t : ToDo(i, "drop", t) => i.ok = j.ok
  BY CallsDiffer DEF ToDo
<1>3. \A e \in i.todo : e.kind \in {"update", "append", "drop"}
  BY DEF BatchWriting
<1>4. \A t \in Tabs : ToDo(i, "append", t) => t \in Groups(i)
  BY <1>1, <1>2 DEF BatchWriting
<1>5. \A t \in Tabs : ToDo(i, "drop", t) => i.ok
  BY <1>2 DEF BatchWriting
<1>6. \A t \in Groups(i) : HeadedBy(h, i, t)
  BY <1>1 DEF BatchWriting, HeadedBy
<1>7. \A p \in i.found : ToDo(i, "update", NoTab) \/ ToDo(i, "drop", p.tab) => Accurate(h, p)
  BY <1>1, <1>2 DEF BatchWriting
<1>8. \A t \in Tabs : ToDo(i, "append", t) => \A id \in ToAppend(i, t) : ~Has(h, t, id)
  BY <1>1, <1>2 DEF BatchWriting
<1>9. ASSUME i.ok, NEW t \in Tabs, NEW id \in Ids, Unwanted(i, t, id), Has(h, t, id)
      PROVE  ToDo(i, "drop", t) /\ FoundAt(i, t, id)
  <2>1. Unwanted(j, t, id) /\ Has(g, t, id) /\ c # Call("drop", t) /\ j.ok
    BY <1>1, <1>2, <1>9
  <2>2. ToDo(j, "drop", t) /\ FoundAt(j, t, id)
    BY <2>1 DEF BatchWriting
  <2> QED
    BY <1>1, <1>2, <1>9, <2>1, <2>2
<1>10. ASSUME i.ok, ~ToDo(i, "update", NoTab), NEW p \in i.found, AtHome(i, p)
       PROVE  Shows(h, p.tab, p.id, i.docs[p.id].ver)
  <2>1. p \in j.found /\ AtHome(j, p) /\ j.ok
    BY <1>1, <1>2, <1>10
  <2>2. CASE c # Call("update", NoTab) /\ \A v : Shows(g, p.tab, p.id, v) => Shows(h, p.tab, p.id, v)
    <3>1. ~ToDo(j, "update", NoTab)
      BY <1>2, <1>10, <2>2
    <3>2. Shows(g, p.tab, p.id, j.docs[p.id].ver)
      BY <2>1, <3>1 DEF BatchWriting
    <3> QED
      BY <1>1, <2>2, <3>2
  <2>3. CASE Shows(h, p.tab, p.id, j.docs[p.id].ver)
    BY <1>1, <2>3
  <2> QED
    BY <1>10, <2>1, <2>2, <2>3
<1>11. ASSUME i.ok, NEW t \in Groups(i), ~ToDo(i, "append", t), NEW id \in ToAppend(i, t)
       PROVE  Shows(h, t, id, i.docs[id].ver)
  <2>1. t \in Groups(j) /\ id \in ToAppend(j, t) /\ j.ok
    BY <1>1, <1>2, <1>11
  <2>2. c # Call("append", t) => Shows(g, t, id, j.docs[id].ver)
    BY <1>2, <1>11, <2>1 DEF BatchWriting
  <2> QED
    BY <1>1, <1>11, <2>1, <2>2
<1>12. \A p, q \in i.found : p.id = q.id /\ p.tab = q.tab => p = q
  BY <1>1 DEF BatchWriting
<1> QED
  BY <1>3, <1>4, <1>5, <1>6, <1>7, <1>8, <1>9, <1>10, <1>11, <1>12 DEF BatchWriting

(* The rows of a batch are those of its documents, under its columns.        *)
LEMMA BatchRows ==
    ASSUME OneIntention, NEW d, NEW j, NEW q, q = Owed, RowsInv(d, j, q), j.op = "batch",
           NEW g, BatchWriting(g, j)
    PROVE  /\ \A id \in DocsOf(j) : id \notin j.dels
           /\ \A id \in DocsOf(j) : RowOf(j, id).id = id /\ RowOf(j, id).ver = j.docs[id].ver
                                    /\ j.docs[id].season \in Groups(j)
           /\ \A t \in Groups(j) : g[t] # <<>>
           /\ \A id \in DocsOf(j) : RowOf(j, id).layout = g[j.docs[id].season][1].layout
<1>1. DocsOf(j) \subseteq batch.upserts /\ j.dels = batch.deletes
  BY DEF RowsInv, Owed
<1>2. \A id \in DocsOf(j) : j.docs[id].season \in Groups(j)
  BY DEF Groups
<1>3. \A t \in Groups(j) : g[t] # <<>> /\ g[t][1] = HeaderOf(j, t)
  BY DEF BatchWriting, HeadedBy
<1>4. \A id \in DocsOf(j) : RowOf(j, id).layout = g[j.docs[id].season][1].layout
  <2>1. ASSUME NEW id \in DocsOf(j), NEW t, t = j.docs[id].season
        PROVE  RowOf(j, id).layout = g[t][1].layout
    <3>1. g[t][1] = HeaderOf(j, t)
      BY <1>2, <1>3, <2>1
    <3>2. RowOf(j, id).layout = j.plans[t]
      BY <2>1 DEF RowOf
    <3>3. HeaderOf(j, t).layout = j.plans[t]
      BY DEF HeaderOf
    <3> QED
      BY <3>1, <3>2, <3>3
  <2> QED
    BY <2>1
<1> QED
  BY <1>1, <1>2, <1>3, <1>4 DEF OneIntention, RowOf

(* A tab after its updates: row by row the same documents, those written as  *)
(* the job read them.                                                        *)
Rowwise(L, N, j) ==
    /\ Len(N) = Len(L) /\ (L # <<>> => N # <<>> /\ N[1] = L[1])
    /\ \A r \in 2 .. Len(L) : N[r].id = L[r].id
    /\ \A r \in 2 .. Len(L) : N[r] = L[r] \/ (L[r].id \in DocsOf(j) /\ N[r] = RowOf(j, L[r].id))

LEMMA RowwiseKept ==
    ASSUME NEW g, NEW h, NEW j, \A t \in Tabs : Rowwise(g[t], h[t], j), Fresh(g, j),
           \A id \in DocsOf(j) : RowOf(j, id).id = id /\ RowOf(j, id).ver = j.docs[id].ver,
           \A t \in Tabs : \A l \in Body(g[t]) : l.ver \in Nat
    PROVE  /\ WrittenBy(j, g, h)
           /\ \A X : DocsOf(j) \subseteq X => Alike(g, h, X)
           /\ \A d : Covers(g, h, d)
           /\ \A t \in Tabs : \A id : Has(h, t, id) => Has(g, t, id)
           /\ \A t \in Tabs : \A id \in DocsOf(j) :
                Shows(g, t, id, j.docs[id].ver) => Shows(h, t, id, j.docs[id].ver)
           /\ \A p : p.tab \in Tabs /\ Accurate(g, p) => Accurate(h, p)
<1>1. ASSUME NEW t \in Tabs
      PROVE  /\ Len(h[t]) = Len(g[t])
             /\ \A r \in 2 .. Len(g[t]) : h[t][r].id = g[t][r].id
             /\ \A r \in 2 .. Len(g[t]) :
                  h[t][r] = g[t][r] \/ (g[t][r].id \in DocsOf(j) /\ h[t][r] = RowOf(j, g[t][r].id))
  BY DEF Rowwise
<1>2. WrittenBy(j, g, h)
  BY <1>1 DEF WrittenBy, Body
<1>3. ASSUME NEW X, DocsOf(j) \subseteq X, NEW t \in Tabs, NEW l, l.id \notin X
      PROVE  l \in Body(h[t]) <=> l \in Body(g[t])
  BY <1>1, <1>3 DEF Body
<1>4. ASSUME NEW t \in Tabs, NEW l \in Body(g[t])
      PROVE  \E m \in Body(h[t]) : m.id = l.id /\ m.ver >= l.ver
  <2>1. PICK r \in 2 .. Len(g[t]) : l = g[t][r]
    BY DEF Body
  <2>2. h[t][r] \in Body(h[t]) /\ h[t][r].id = l.id
    BY <1>1, <2>1 DEF Body
  <2>3. h[t][r].ver >= l.ver
    <3>1. CASE h[t][r] = l
      BY <3>1
    <3>2. CASE l.id \in DocsOf(j) /\ h[t][r] = RowOf(j, l.id)
      <4>1. l.ver <= j.docs[l.id].ver
        BY <3>2 DEF Fresh
      <4> QED
        BY <3>2, <4>1
    <3> QED
      BY <1>1, <2>1, <3>1, <3>2
  <2> QED
    BY <2>2, <2>3
<1>5. \A d : Covers(g, h, d)
  BY <1>4 DEF Covers
<1>6. ASSUME NEW t \in Tabs, NEW id, Has(h, t, id)  PROVE Has(g, t, id)
  BY <1>1, <1>6 DEF Has, Body
<1>7. ASSUME NEW t \in Tabs, NEW id \in DocsOf(j), Shows(g, t, id, j.docs[id].ver)
      PROVE  Shows(h, t, id, j.docs[id].ver)
  <2>1. PICK r \in 2 .. Len(g[t]) : g[t][r].id = id /\ g[t][r].ver = j.docs[id].ver
    BY <1>7 DEF Shows, Body
  <2>2. h[t][r] \in Body(h[t]) /\ h[t][r].id = id /\ h[t][r].ver = j.docs[id].ver
    BY <1>1, <2>1 DEF Body
  <2> QED
    BY <2>2 DEF Shows
<1>8. ASSUME NEW p, p.tab \in Tabs, Accurate(g, p)  PROVE Accurate(h, p)
  BY <1>1, <1>8 DEF Accurate
<1> QED
  BY <1>2, <1>3, <1>5, <1>6, <1>7, <1>8 DEF Alike

LEMMA UpdateAlone ==
    ASSUME Alone, SheetInv, QueueTypeOK, OneIntention, AloneInv, Update("queue")
    PROVE  AloneInv' /\ Covers(grid, grid', db')
<1>1. PICK c \in Due(job["queue"]), answer \in Answers("update") :
       /\ c.kind = "update"
       /\ grid' = IF answer = "refused" THEN grid ELSE [t \in Tabs |-> Updated(job["queue"], t)]
       /\ Proceeds("queue", IF answer = "done" THEN Made(job["queue"], c) ELSE Noted(job["queue"], c))
  BY DEF Update, Updated
<1>2. PICK j, g, h, d, q, T, n, B :
         /\ j = Flush /\ g = grid /\ h = grid' /\ d = db /\ q = Owed
         /\ T = ToSet(tabs) /\ n = Events /\ B = CutInto(T, n)
  OBVIOUS
<1>3. /\ job["queue"] = j /\ j \in JobsOver(T, n, B) /\ c \in j.todo /\ Sound(g, d, T, j, q)
  BY <1>2, AtWork DEF Jobs
<1>4. c.kind = "update" /\ UNCHANGED <<db, enabled, tabs>> /\ c = Call("update", NoTab)
  <2>1. c \in Calls
    BY <1>3, JobParts
  <2> QED
    BY <1>1, <2>1 DEF Update, Calls, Call
<1>5. /\ RowsInv(d, j, q) /\ Fresh(g, j) /\ j.op = "batch" /\ BatchWriting(g, j)
  BY <1>3, <1>4, Phases
<1>6. \A t \in Tabs : Tidy(g[t])
  BY <1>3 DEF Sound, TabsInv
<1>7. PICK i : i = IF answer = "done" THEN Made(j, c) ELSE Noted(j, c)
  OBVIOUS
<1>8. Proceeds("queue", i)
  BY <1>1, <1>2, <1>3, <1>7
<1>9. /\ SameWork(i, j)
      /\ \/ answer = "done" /\ i.ok = j.ok /\ i.todo = j.todo \ {c}
         \/ answer # "done" /\ ~i.ok /\ i.todo = {e \in j.todo \ {c} : e.kind # "drop"}
  <2>1. CASE answer = "done"
    <3>1. i = Made(j, c)
      BY <1>7, <2>1
    <3>2. SameWork(i, j) /\ i.ok = j.ok /\ i.todo = j.todo \ {c}
      BY <1>3, <3>1, MadeAfter
    <3> QED
      BY <2>1, <3>2
  <2>2. CASE answer # "done"
    <3>1. i = Noted(j, c)
      BY <1>7, <2>2
    <3>2. SameWork(i, j) /\ ~i.ok /\ i.todo = {e \in j.todo \ {c} : e.kind # "drop"}
      BY <1>3, <3>1, NotedAfter
    <3> QED
      BY <2>2, <3>2
  <2> QED
    BY <2>1, <2>2
<1>10. ToDo(j, "update", NoTab)
  BY <1>3, <1>4 DEF ToDo
<1>11. /\ \A id \in DocsOf(j) : RowOf(j, id).id = id /\ RowOf(j, id).ver = j.docs[id].ver
                                /\ j.docs[id].season \in Groups(j)
       /\ \A id \in DocsOf(j) : RowOf(j, id).layout = g[j.docs[id].season][1].layout
       /\ \A t \in Groups(j) : g[t] # <<>>
  BY <1>2, <1>5, BatchRows
<1>12. \A p \in ToUpdate(j) : p \in j.found /\ AtHome(j, p)
  BY DEF ToUpdate, FirstAtHome
<1>13. ASSUME NEW t \in Tabs, NEW N, N = Updated(j, t)
       PROVE  /\ Tidy(N) /\ Rowwise(g[t], N, j)
              /\ \A p \in ToUpdate(j) : p.tab = t => N[p.row] = RowOf(j, p.id)
  <2>1. PICK L : L = grid[t]
    OBVIOUS
  <2>2. grid \in [Tabs -> Sheets] /\ Tidy(L)
    BY <1>2, <1>6, <2>1 DEF SheetInv
  <2>3. \A p \in ToUpdate(j) : p.tab = t =>
            Accurate(grid, p) /\ RowOf(j, p.id).layout = L[1].layout
    <3>1. ASSUME NEW p \in ToUpdate(j), p.tab = t
          PROVE  Accurate(grid, p) /\ RowOf(j, p.id).layout = L[1].layout
      <4>1. Accurate(g, p)
        BY <1>5, <1>10, <1>12 DEF BatchWriting
      <4>2. p.id \in DocsOf(j) /\ j.docs[p.id].season = t
        BY <1>12, <3>1 DEF AtHome
      <4> QED
        BY <1>2, <1>11, <2>1, <4>1, <4>2
    <3> QED
      BY <3>1
  <2>4. /\ Tidy(N) /\ Len(N) = Len(L) /\ Len(L) \in Nat
        /\ L # <<>> => N # <<>> /\ N[1] = L[1]
        /\ \A r \in 2 .. Len(L) : N[r].id = L[r].id
        /\ \A r \in 2 .. Len(L) :
             N[r] = L[r] \/ (L[r].id \in DocsOf(j) /\ N[r] = RowOf(j, L[r].id))
        /\ \A p \in ToUpdate(j) : p.tab = t => N[p.row] = RowOf(j, p.id)
    BY <1>3, <1>13, <2>1, <2>2, <2>3, UpdatedTidy
  <2> QED
    BY <1>2, <2>1, <2>4 DEF Rowwise
<1>14. (h = g /\ answer # "done") \/ (\A t \in Tabs : h[t] = Updated(j, t))
  BY <1>1, <1>2, <1>3
<1>15. \A t \in Tabs : Tidy(h[t]) /\ Rowwise(g[t], h[t], j)
  <2>1. ASSUME NEW t \in Tabs  PROVE Tidy(h[t]) /\ Rowwise(g[t], h[t], j)
    <3>1. CASE h[t] = g[t]
      BY <1>6, <3>1 DEF Rowwise
    <3>2. CASE h[t] = Updated(j, t)
      <4>1. PICK N : N = Updated(j, t)
        OBVIOUS
      <4> QED
        BY <1>13, <3>2, <4>1
    <3> QED
      BY <1>14, <3>1, <3>2
  <2> QED
    BY <2>1
<1>16. \A t \in Tabs : \A l \in Body(g[t]) : l.ver \in Nat
  BY <1>2, LineVersions
<1>17. /\ WrittenBy(j, g, h)
       /\ \A X : DocsOf(j) \subseteq X => Alike(g, h, X)
       /\ Covers(g, h, d)
       /\ \A t \in Tabs : \A id : Has(h, t, id) => Has(g, t, id)
       /\ \A t \in Tabs : \A id \in DocsOf(j) :
            Shows(g, t, id, j.docs[id].ver) => Shows(h, t, id, j.docs[id].ver)
       /\ \A p : p.tab \in Tabs /\ Accurate(g, p) => Accurate(h, p)
  BY <1>5, <1>11, <1>15, <1>16, RowwiseKept
<1>18. Groups(j) \subseteq Tabs /\ \A p \in j.found : p.tab \in Tabs /\ p.row \in Nat
  BY <1>3, JobParts, GroupTabs DEF Places
<1>19. ASSUME i.ok, NEW p \in j.found, AtHome(j, p)
       PROVE  Shows(h, p.tab, p.id, j.docs[p.id].ver)
  <2>1. p \in ToUpdate(j)
    <3>1. \A r \in j.found : r.id = p.id /\ r.tab = p.tab => p.row <= r.row
      <4>1. \A r \in j.found : r.id = p.id /\ r.tab = p.tab => r = p
        BY <1>5, <1>19 DEF BatchWriting
      <4> QED
        BY <1>18, <4>1
    <3> QED
      BY <1>5, <1>19, <3>1 DEF ToUpdate, FirstAtHome
  <2>2. Accurate(g, p) /\ p.tab \in Tabs
    BY <1>5, <1>10, <1>18 DEF BatchWriting
  <2>3. h[p.tab][p.row] = RowOf(j, p.id)
    <3>1. PICK t, N : t = p.tab /\ N = Updated(j, t)
      OBVIOUS
    <3>2. h[t] = N /\ t \in Tabs
      BY <1>9, <1>14, <1>19, <2>2, <3>1
    <3> QED
      BY <1>13, <2>1, <3>1, <3>2
  <2>4. p.row \in 2 .. Len(h[p.tab])
    BY <1>15, <2>2 DEF Rowwise, Accurate
  <2>5. p.id \in DocsOf(j)
    BY <1>19 DEF AtHome
  <2>6. h[p.tab][p.row] \in Body(h[p.tab])
    BY <2>4 DEF Body
  <2> QED
    BY <1>11, <2>3, <2>5, <2>6 DEF Shows
<1>20. BatchWriting(h, i)
  <2>1. \A t \in Groups(j) : h[t] # <<>> /\ h[t][1] = g[t][1]
    BY <1>11, <1>15, <1>18 DEF Rowwise
  <2>2. \A p \in j.found : Accurate(g, p) => Accurate(h, p)
    BY <1>17, <1>18
  <2>3. \A t \in Tabs, id \in Ids : Has(h, t, id) => Has(g, t, id) /\ c # Call("drop", t)
    BY <1>4, <1>17, CallsDiffer
  <2>4. \A t \in Groups(j) : \A id \in ToAppend(j, t) : c # Call("append", t) /\
          (Shows(g, t, id, j.docs[id].ver) => Shows(h, t, id, j.docs[id].ver))
    BY <1>4, <1>17, <1>18, CallsDiffer DEF ToAppend
  <2>5. \A t \in Tabs : \A id \in ToAppend(j, t) : Has(h, t, id) => Has(g, t, id)
    BY <1>17
  <2>6. \/ i.ok = j.ok /\ i.todo = j.todo \ {c}
        \/ ~i.ok /\ i.todo = {e \in j.todo \ {c} : e.kind # "drop"}
    BY <1>9
  <2> QED
    BY <1>3, <1>5, <1>9, <1>19, <2>1, <2>2, <2>3, <2>4, <2>5, <2>6, BatchOn
<1>21. PICK X : X = DocsOf(j) \cup j.dels
  OBVIOUS
<1>22. Alike(g, h, X)
  BY <1>17, <1>21
<1>23. AloneInv'
  <2>1. i.op = "batch" /\ c.kind \notin {"context", "fetch"}
    BY <1>4, <1>5, <1>9 DEF SameWork
  <2>2. WrittenBy(Flush, g, h) /\ Alike(g, h, DocsOf(Flush) \cup Flush.dels) /\ SameWork(i, Flush)
    BY <1>2, <1>9, <1>17, <1>21, <1>22
  <2>3. \A t \in Tabs : Tidy(h[t])
    BY <1>15
  <2> QED
    BY <1>2, <1>4, <1>8, <1>20, <2>1, <2>2, <2>3, GoesOn
<1> QED
  BY <1>2, <1>4, <1>17, <1>23

(* Rows go to the end of their tab, which does not show them yet.            *)
LEMMA AppendAlone ==
    ASSUME Alone, SheetInv, QueueTypeOK, OneIntention, AloneInv, AppendRows("queue")
    PROVE  AloneInv' /\ Covers(grid, grid', db')
<1>1. PICK c \in Due(job["queue"]), answer \in Answers("append") :
       LET j == job["queue"] IN
           /\ c.kind = "append" /\ c.tab \in ToSet(j.known)
           /\ Count(answer)
           /\ IF answer = "refused" THEN UNCHANGED grid
              ELSE Writes(c.tab, Appended(grid[c.tab], RowsOf(j, ToAppend(j, c.tab))))
           /\ Proceeds("queue", IF answer = "done" THEN Made(j, c) ELSE Noted(j, c))
  BY Zenon DEF AppendRows
<1>2. PICK j, g, h, d, q, t, T, n, B :
         /\ j = Flush /\ g = grid /\ h = grid' /\ d = db /\ q = Owed /\ t = c.tab
         /\ T = ToSet(tabs) /\ n = Events /\ B = CutInto(T, n)
  OBVIOUS
<1>3. /\ job["queue"] = j /\ j \in JobsOver(T, n, B) /\ c \in j.todo /\ Sound(g, d, T, j, q)
  BY <1>2, AtWork DEF Jobs
<1>4. c.kind = "append" /\ UNCHANGED <<db, enabled, tabs>> /\ t \in Tabs /\ c = Call("append", t)
  <2>1. c \in Calls
    BY <1>3, JobParts
  <2> QED
    BY <1>1, <1>2, <2>1 DEF AppendRows, Calls, Call
<1>5. /\ RowsInv(d, j, q) /\ Fresh(g, j) /\ j.op = "batch" /\ BatchWriting(g, j)
  BY <1>3, <1>4, Phases
<1>6. \A u \in Tabs : Tidy(g[u])
  BY <1>3 DEF Sound, TabsInv
<1>7. PICK i : i = IF answer = "done" THEN Made(j, c) ELSE Noted(j, c)
  OBVIOUS
<1>8. Proceeds("queue", i)
  BY <1>1, <1>3, <1>7
<1>9. /\ SameWork(i, j)
      /\ \/ answer = "done" /\ i.ok = j.ok /\ i.todo = j.todo \ {c}
         \/ answer # "done" /\ ~i.ok /\ i.todo = {e \in j.todo \ {c} : e.kind # "drop"}
  <2>1. CASE answer = "done"
    <3>1. i = Made(j, c)
      BY <1>7, <2>1
    <3>2. SameWork(i, j) /\ i.ok = j.ok /\ i.todo = j.todo \ {c}
      BY <1>3, <3>1, MadeAfter
    <3> QED
      BY <2>1, <3>2
  <2>2. CASE answer # "done"
    <3>1. i = Noted(j, c)
      BY <1>7, <2>2
    <3>2. SameWork(i, j) /\ ~i.ok /\ i.todo = {e \in j.todo \ {c} : e.kind # "drop"}
      BY <1>3, <3>1, NotedAfter
    <3> QED
      BY <2>2, <3>2
  <2> QED
    BY <2>1, <2>2
<1>10. ToDo(j, "append", t) /\ t \in Groups(j)
  BY <1>3, <1>4, <1>5 DEF ToDo, BatchWriting
<1>11. /\ \A id \in DocsOf(j) : id \notin j.dels
       /\ \A id \in DocsOf(j) : RowOf(j, id).id = id /\ RowOf(j, id).ver = j.docs[id].ver
                                /\ j.docs[id].season \in Groups(j)
       /\ \A id \in DocsOf(j) : RowOf(j, id).layout = g[j.docs[id].season][1].layout
       /\ \A u \in Groups(j) : g[u] # <<>>
  BY <1>2, <1>5, BatchRows
<1>12. PICK ids, L, new, N : /\ ids = ToAppend(j, t) /\ L = g[t] /\ new = RowsOf(j, ids)
                             /\ N = Appended(L, new)
  OBVIOUS
<1>13. /\ ids \in SUBSET DocsOf(j) /\ ids \in SUBSET Ids
       /\ \A id \in ids : j.docs[id].season = t
  BY <1>12 DEF ToAppend, DocsOf
<1>14. /\ Tidy(N) /\ N # <<>> /\ N[1] = L[1]
       /\ Body(N) = Body(L) \cup {RowOf(j, id) : id \in ids}
       /\ Len(L) \in Nat /\ Len(N) \in Nat /\ Len(L) <= Len(N)
       /\ \A r \in 1 .. Len(L) : N[r] = L[r]
  <2>1. L \in Sheets /\ Tidy(L) /\ L # <<>>
    BY <1>2, <1>4, <1>6, <1>10, <1>11, <1>12 DEF SheetInv
  <2>2. RowsFor(new, j, ids)
    BY <1>3, <1>12, <1>13, JobParts, DocRows
  <2>3. \A id \in ids : RowOf(j, id).layout = L[1].layout
    BY <1>11, <1>12, <1>13
  <2>4. \A l \in Body(L) : l.id \notin ids
    BY <1>4, <1>5, <1>10, <1>12 DEF BatchWriting, Has
  <2>5. ids \in SUBSET Ids /\ N = Appended(L, new)
    BY <1>12, <1>13
  <2>6. Extended(L, N, j, ids)
    BY <2>1, <2>2, <2>3, <2>4, <2>5, AppendedTidy
  <2> QED
    BY <2>6 DEF Extended
<1>15. (h = g /\ answer # "done") \/ h = [g EXCEPT ![t] = N]
  BY <1>1, <1>2, <1>3, <1>12 DEF Writes
<1>16. DOMAIN g = Tabs
  BY <1>2 DEF SheetInv
<1>17. /\ \A u \in Tabs : u # t => h[u] = g[u]
       /\ (h[t] = g[t] /\ answer # "done") \/ h[t] = N
  BY <1>4, <1>15, <1>16
<1>18. /\ \A u \in Tabs : Tidy(h[u])
       /\ \A u \in Tabs : Body(g[u]) \subseteq Body(h[u])
       /\ \A u \in Tabs : \A l \in Body(h[u]) :
            l \in Body(g[u]) \/ (u = t /\ \E id \in ids : l = RowOf(j, id))
  BY <1>6, <1>12, <1>14, <1>17
<1>19. \A u \in Tabs : \A l \in Body(g[u]) : l.ver \in Nat
  BY <1>2, LineVersions
<1>20. WrittenBy(j, g, h)
  BY <1>13, <1>18 DEF WrittenBy
<1>21. PICK X : X = DocsOf(j) \cup j.dels
  OBVIOUS
<1>22. Alike(g, h, X)
  BY <1>11, <1>13, <1>18, <1>21 DEF Alike
<1>23. Covers(g, h, d)
  <2>1. ASSUME NEW u \in Tabs, NEW l \in Body(g[u])
        PROVE  \E v \in Tabs : \E m \in Body(h[v]) : m.id = l.id /\ m.ver >= l.ver
    <3>1. l \in Body(h[u]) /\ l.ver >= l.ver
      BY <1>18, <1>19
    <3> QED
      BY <3>1
  <2> QED
    BY <2>1 DEF Covers
<1>24. \A u \in Tabs : \A id : Has(h, u, id) => Has(g, u, id) \/ (u = t /\ id \in ids)
  BY <1>11, <1>13, <1>18 DEF Has
<1>25. \A u \in Tabs : \A id, v : Shows(g, u, id, v) => Shows(h, u, id, v)
  BY <1>18 DEF Shows
<1>26. Groups(j) \subseteq Tabs /\ \A p \in j.found : p.tab \in Tabs
  BY <1>3, JobParts, GroupTabs DEF Places
<1>27. BatchWriting(h, i)
  <2>1. \A u \in Groups(j) : h[u] # <<>> /\ h[u][1] = g[u][1]
    BY <1>11, <1>12, <1>14, <1>17, <1>26
  <2>2. \A p \in j.found : Accurate(g, p) => Accurate(h, p)
    <3>1. ASSUME NEW p \in j.found, Accurate(g, p), p.tab = t, h[t] = N  PROVE Accurate(h, p)
      <4>1. p.row \in 2 .. Len(L) /\ L[p.row].id = p.id
        BY <1>12, <3>1 DEF Accurate
      <4>2. p.row \in 2 .. Len(N) /\ N[p.row] = L[p.row]
        BY <1>14, <4>1
      <4> QED
        BY <3>1, <4>1, <4>2 DEF Accurate
    <3>2. ASSUME NEW p \in j.found, Accurate(g, p), h[p.tab] = g[p.tab]  PROVE Accurate(h, p)
      BY <3>2 DEF Accurate
    <3> QED
      BY <1>17, <1>26, <3>1, <3>2
  <2>3. \A u \in Tabs, id \in Ids : Unwanted(j, u, id) /\ Has(h, u, id) =>
           Has(g, u, id) /\ c # Call("drop", u)
    BY <1>4, <1>11, <1>13, <1>24, CallsDiffer DEF Unwanted
  <2>4. \A u \in Tabs : ToDo(i, "append", u) =>
               \A id \in ToAppend(j, u) : Has(h, u, id) => Has(g, u, id)
    <3>1. ~ToDo(i, "append", t)
      BY <1>4, <1>9 DEF ToDo
    <3> QED
      BY <1>24, <3>1
  <2>5. i.ok => \A u \in Groups(j) : \A id \in ToAppend(j, u) :
               \/ c # Call("append", u) /\
                    (Shows(g, u, id, j.docs[id].ver) => Shows(h, u, id, j.docs[id].ver))
               \/ Shows(h, u, id, j.docs[id].ver)
    <3>1. ASSUME i.ok, NEW u \in Groups(j), NEW id \in ToAppend(j, u)
          PROVE  \/ c # Call("append", u) /\
                      (Shows(g, u, id, j.docs[id].ver) => Shows(h, u, id, j.docs[id].ver))
                 \/ Shows(h, u, id, j.docs[id].ver)
      <4>1. CASE u # t
        BY <1>4, <1>25, <1>26, <4>1, CallsDiffer
      <4>2. CASE u = t
        <5>1. id \in ids /\ h[t] = N
          BY <1>9, <1>12, <1>17, <3>1, <4>2
        <5>2. RowOf(j, id) \in Body(h[t])
          BY <1>14, <5>1
        <5>3. id \in DocsOf(j)
          BY <1>13, <5>1
        <5> QED
          BY <1>11, <4>2, <5>2, <5>3 DEF Shows
      <4> QED
        BY <4>1, <4>2
    <3> QED
      BY <3>1
  <2>6. \A p \in j.found : c # Call("update", NoTab) /\
          (\A v : Shows(g, p.tab, p.id, v) => Shows(h, p.tab, p.id, v))
    BY <1>4, <1>25, <1>26, CallsDiffer
  <2>7. \/ i.ok = j.ok /\ i.todo = j.todo \ {c}
        \/ ~i.ok /\ i.todo = {e \in j.todo \ {c} : e.kind # "drop"}
    BY <1>9
  <2> QED
    BY <1>3, <1>5, <1>9, <2>1, <2>2, <2>3, <2>4, <2>5, <2>6, <2>7, BatchOn
<1>28. AloneInv'
  <2>1. i.op = "batch" /\ c.kind \notin {"context", "fetch"}
    BY <1>4, <1>5, <1>9 DEF SameWork
  <2>2. WrittenBy(Flush, g, h) /\ Alike(g, h, DocsOf(Flush) \cup Flush.dels) /\ SameWork(i, Flush)
    BY <1>2, <1>9, <1>20, <1>21, <1>22
  <2>3. \A u \in Tabs : Tidy(h[u])
    BY <1>18
  <2> QED
    BY <1>2, <1>4, <1>8, <1>27, <2>1, <2>2, <2>3, GoesOn
<1> QED
  BY <1>2, <1>4, <1>23, <1>28

(* Rows removed from a tab: the documents whose places were to be removed    *)
(* are no longer there, and all others are.                                  *)
LEMMA Removed ==
    ASSUME NEW L, Tidy(L), NEW P, \A p \in P : p.row \in 2 .. Len(L) /\ L[p.row].id = p.id,
           NEW rows, \A p \in P : p.row \in rows, \A r \in rows : \E p \in P : p.row = r,
           NEW N, Reduced(L, N, rows)
    PROVE  /\ Body(N) \subseteq Body(L)
           /\ \A l \in Body(L) : l \in Body(N) \/ \E p \in P : p.id = l.id
           /\ \A p \in P : \A l \in Body(N) : l.id # p.id
           /\ Tidy(N) /\ (L # <<>> => N # <<>> /\ N[1] = L[1])
<1>1. Body(N) = {L[r] : r \in (2 .. Len(L)) \ rows} /\ Body(L) = {L[r] : r \in 2 .. Len(L)}
  BY DEF Reduced, Body
<1>2. Body(N) \subseteq Body(L)
  BY <1>1
<1>3. ASSUME NEW l \in Body(L), l \notin Body(N)  PROVE \E p \in P : p.id = l.id
  <2>1. PICK r \in 2 .. Len(L) : l = L[r]
    BY <1>1
  <2>2. r \in rows
    BY <1>1, <1>3, <2>1
  <2>3. PICK p \in P : p.row = r
    BY <2>2
  <2> QED
    BY <2>1, <2>3
<1>4. ASSUME NEW p \in P, NEW l \in Body(N), l.id = p.id  PROVE FALSE
  <2>1. PICK r \in (2 .. Len(L)) \ rows : l = L[r]
    BY <1>1
  <2>2. p.row \in 2 .. Len(L) /\ L[p.row].id = L[r].id
    BY <1>4, <2>1
  <2>3. p.row = r
    BY <2>1, <2>2 DEF Tidy
  <2>4. p.row \in rows
    OBVIOUS
  <2> QED
    BY <2>1, <2>3, <2>4
<1> QED
  BY <1>2, <1>3, <1>4 DEF Reduced

(* The last calls of a job take copies away that stand elsewhere as well, or *)
(* whose documents are gone.                                                 *)
LEMMA DropAlone ==
    ASSUME Alone, SheetInv, QueueTypeOK, OneIntention, AloneInv, Drop("queue")
    PROVE  AloneInv' /\ Covers(grid, grid', db')
<1>1. PICK c \in Due(job["queue"]), answer \in Answers("drop") :
       LET j == job["queue"]
           rows == {p.row : p \in {p \in ToDrop(j) : p.tab = c.tab}}
       IN  /\ c.kind = "drop"
           /\ Count(answer)
           /\ IF answer = "refused" THEN UNCHANGED grid
              ELSE Writes(c.tab, Without(grid[c.tab], rows))
           /\ Proceeds("queue", IF answer = "done" THEN Made(j, c) ELSE Failed(j))
  BY Zenon DEF Drop
<1>2. PICK j, g, h, d, q, t, T, n, B :
         /\ j = Flush /\ g = grid /\ h = grid' /\ d = db /\ q = Owed /\ t = c.tab
         /\ T = ToSet(tabs) /\ n = Events /\ B = CutInto(T, n)
  OBVIOUS
<1>3. /\ job["queue"] = j /\ j \in JobsOver(T, n, B) /\ c \in j.todo /\ Sound(g, d, T, j, q)
      /\ \A e \in j.todo : Rank(c) <= Rank(e)
  BY <1>2, AtWork DEF Jobs
<1>4. c.kind = "drop" /\ UNCHANGED <<db, enabled, tabs>> /\ t \in Tabs /\ c = Call("drop", t)
  <2>1. c \in Calls /\ t \in T
    BY <1>1, <1>2, <1>3, JobParts
  <2> QED
    BY <1>1, <1>2, <2>1 DEF Drop, Calls, Call
<1>5. /\ RowsInv(d, j, q) /\ Fresh(g, j)
      /\ \/ j.op = "batch" /\ BatchWriting(g, j)
         \/ j.op = "resync" /\ RewriteWriting(g, j)
  BY <1>3, <1>4, Phases
<1>6. \A u \in Tabs : Tidy(g[u])
  BY <1>3 DEF Sound, TabsInv
<1>7. ToDo(j, "drop", t) /\ j.ok
  BY <1>3, <1>4, <1>5 DEF ToDo, BatchWriting, RewriteWriting
<1>8. \A e \in j.todo : e.kind = "drop"
  <2>1. \A e \in j.todo : e.kind \in {"header", "check", "scan", "update", "append", "write", "clear", "drop"}
    BY <1>5 DEF BatchWriting, RewriteWriting
  <2> QED
    BY <1>3, <1>4, <2>1, Ranks
<1>9. PICK i : i = IF answer = "done" THEN Made(j, c) ELSE Failed(j)
  OBVIOUS
<1>10. Proceeds("queue", i)
  BY <1>1, <1>3, <1>9
<1>11. /\ SameWork(i, j)
       /\ \/ answer = "done" /\ i.ok = j.ok /\ i.todo = j.todo \ {c}
          \/ answer # "done" /\ ~i.ok /\ i.todo = {}
  <2>1. CASE answer = "done"
    <3>1. i = Made(j, c)
      BY <1>9, <2>1
    <3>2. SameWork(i, j) /\ i.ok = j.ok /\ i.todo = j.todo \ {c}
      BY <1>3, <3>1, MadeAfter
    <3> QED
      BY <2>1, <3>2
  <2>2. CASE answer # "done"
    <3>1. i = Failed(j)
      BY <1>9, <2>2
    <3>2. SameWork(i, j) /\ ~i.ok /\ i.todo = {}
      BY <1>3, <3>1, FailedAfter
    <3> QED
      BY <2>2, <3>2
  <2> QED
    BY <2>1, <2>2
<1>12. PICK P, rows, L, N : /\ P = {p \in ToDrop(j) : p.tab = t} /\ rows = {p.row : p \in P}
                            /\ L = g[t] /\ N = Without(L, rows)
  OBVIOUS
<1>13. /\ P \subseteq j.found /\ \A p \in P : p.tab = t
       /\ \A p \in P : p.row \in 2 .. Len(L) /\ L[p.row].id = p.id
  <2>1. P \subseteq j.found /\ \A p \in P : p.tab = t
    BY <1>5, <1>12 DEF ToDrop
  <2>2. \A p \in j.found : p.tab = t => Accurate(g, p)
    BY <1>5, <1>7 DEF BatchWriting, RewriteWriting
  <2> QED
    BY <1>12, <2>1, <2>2 DEF Accurate
<1>14. L \in Sheets /\ Tidy(L) /\ 1 \notin rows
  <2>1. 1 \notin rows
    BY <1>12, <1>13
  <2> QED
    BY <1>2, <1>4, <1>6, <1>12, <2>1 DEF SheetInv
<1>15. Reduced(L, N, rows)
  BY <1>12, <1>14, DroppedTidy
<1>a. (\A p \in P : p.row \in rows) /\ (\A r \in rows : \E p \in P : p.row = r)
  BY <1>12
<1>16. /\ Body(N) \subseteq Body(L)
       /\ \A l \in Body(L) : l \in Body(N) \/ \E p \in P : p.id = l.id
       /\ \A p \in P : \A l \in Body(N) : l.id # p.id
       /\ Tidy(N) /\ (L # <<>> => N # <<>> /\ N[1] = L[1])
  <2>1. Body(N) \subseteq Body(L)
    BY <1>13, <1>14, <1>15, <1>a, Removed
  <2>2. \A l \in Body(L) : l \in Body(N) \/ \E p \in P : p.id = l.id
    BY <1>13, <1>14, <1>15, <1>a, Removed
  <2>3. \A p \in P : \A l \in Body(N) : l.id # p.id
    BY <1>13, <1>14, <1>15, <1>a, Removed
  <2>4. Tidy(N) /\ (L # <<>> => N # <<>> /\ N[1] = L[1])
    BY <1>15 DEF Reduced
  <2> QED
    BY <2>1, <2>2, <2>3, <2>4
<1>17. (h = g /\ answer # "done") \/ h = [g EXCEPT ![t] = N]
  BY <1>1, <1>2, <1>3, <1>12 DEF Writes
<1>18. DOMAIN g = Tabs
  BY <1>2 DEF SheetInv
<1>19. /\ \A u \in Tabs : u # t => h[u] = g[u]
       /\ (h[t] = g[t] /\ answer # "done") \/ h[t] = N
  BY <1>4, <1>17, <1>18
<1>20. /\ \A u \in Tabs : Tidy(h[u])
       /\ \A u \in Tabs : Body(h[u]) \subseteq Body(g[u])
       /\ \A u \in Tabs : \A l \in Body(g[u]) :
            l \in Body(h[u]) \/ (u = t /\ \E p \in P : p.id = l.id)
  BY <1>6, <1>12, <1>16, <1>19
<1>21. WrittenBy(j, g, h)
  BY <1>20 DEF WrittenBy
<1>22. PICK X : X = DocsOf(j) \cup j.dels
  OBVIOUS
<1>23. \A p \in P : p.id \in X
  BY <1>5, <1>12, <1>22 DEF ToDrop
<1>24. Alike(g, h, X)
  BY <1>20, <1>23 DEF Alike
<1>25. \A u \in Tabs : \A l \in Body(g[u]) : l.ver \in Nat
  BY <1>2, LineVersions
<1>26. Groups(j) \subseteq Tabs /\ (\A p \in j.found : p.tab \in Tabs) /\ d \in [Ids -> SeasonDocs]
  <2>1. d \in [Ids -> SeasonDocs]
    BY <1>2 DEF SheetInv
  <2> QED
    BY <1>3, <2>1, JobParts, GroupTabs DEF Places
<1>27. \A id \in DocsOf(j) : j.docs[id].season \in Groups(j)
  BY DEF Groups
<1>28. ASSUME NEW p \in P, d[p.id].live
       PROVE  /\ p.id \in DocsOf(j) /\ j.docs[p.id].season # t /\ j.docs[p.id].season \in Tabs
              /\ Shows(g, j.docs[p.id].season, p.id, j.docs[p.id].ver)
  <2>1. PICK id, s : id = p.id /\ s = j.docs[id].season
    OBVIOUS
  <2>2. CASE j.op = "batch" /\ BatchWriting(g, j)
    <3>1. \A x \in j.dels : ~d[x].live
      BY <1>2, <1>5, <2>2, AgainLost DEF AloneInv, RowsInv
    <3>2. id \in DocsOf(j) /\ ~AtHome(j, p)
      BY <1>12, <1>28, <2>1, <2>2, <3>1 DEF ToDrop
    <3>3. s # t /\ s \in Groups(j) /\ s \in Tabs
      BY <1>13, <1>26, <1>27, <2>1, <3>2 DEF AtHome
    <3>4. ~ToDo(j, "update", NoTab) /\ ~ToDo(j, "append", s)
      BY <1>8, CallsDiffer DEF ToDo
    <3>5. CASE id \in ToAppend(j, s)
      BY <1>7, <2>1, <2>2, <3>2, <3>3, <3>4, <3>5 DEF BatchWriting
    <3>6. CASE id \notin ToAppend(j, s)
      <4>1. PICK r \in j.found : r.id = id /\ r.tab = s
        BY <2>1, <3>2, <3>6 DEF ToAppend
      <4>2. AtHome(j, r)
        BY <2>1, <3>2, <4>1 DEF AtHome
      <4>3. Shows(g, r.tab, r.id, j.docs[r.id].ver)
        BY <1>7, <2>2, <3>4, <4>2 DEF BatchWriting
      <4> QED
        BY <2>1, <3>2, <3>3, <4>1, <4>3
    <3> QED
      BY <2>1, <3>2, <3>3, <3>5, <3>6
  <2>3. CASE j.op = "resync" /\ RewriteWriting(g, j)
    <3>1. id \in DocsOf(j) /\ t \notin Groups(j)
      BY <1>12, <1>13, <2>1, <2>3 DEF ToDrop
    <3>2. s \in Groups(j) /\ s # t /\ s \in Tabs
      BY <1>26, <1>27, <2>1, <3>1
    <3>3. ~ToDo(j, "clear", s) /\ ~ToDo(j, "write", s)
      BY <1>8, CallsDiffer DEF ToDo
    <3>4. Rewritten(g, j, s)
      BY <2>3, <3>2, <3>3 DEF RewriteWriting
    <3> QED
      BY <2>1, <3>1, <3>2, <3>4 DEF Rewritten
  <2> QED
    BY <1>5, <2>2, <2>3
<1>29. Covers(g, h, d)
  <2>1. ASSUME NEW u \in Tabs, NEW l \in Body(g[u]), d[l.id].live
        PROVE  \E v \in Tabs : \E m \in Body(h[v]) : m.id = l.id /\ m.ver >= l.ver
    <3>1. CASE l \in Body(h[u])
      <4>1. l.ver >= l.ver
        BY <1>25
      <4> QED
        BY <3>1, <4>1
    <3>2. CASE \E p \in P : p.id = l.id
      <4>1. PICK p \in P : p.id = l.id
        BY <3>2
      <4>2. PICK id, s : id = p.id /\ s = j.docs[id].season
        OBVIOUS
      <4>3. id \in DocsOf(j) /\ s # t /\ s \in Tabs /\ Shows(g, s, id, j.docs[id].ver)
        BY <1>28, <2>1, <4>1, <4>2
      <4>4. l.ver <= j.docs[id].ver /\ l.ver \in Nat
        BY <1>5, <1>25, <4>1, <4>2, <4>3 DEF Fresh
      <4>5. PICK m \in Body(g[s]) : m.id = id /\ m.ver = j.docs[id].ver
        BY <4>3 DEF Shows
      <4>6. m \in Body(h[s]) /\ m.ver \in Nat
        BY <1>19, <1>25, <4>3, <4>5
      <4> QED
        BY <4>1, <4>2, <4>3, <4>4, <4>5, <4>6
    <3> QED
      BY <1>20, <3>1, <3>2
  <2> QED
    BY <2>1 DEF Covers
<1>30. CASE i.todo = {} /\ ~i.ok
  BY <1>2, <1>4, <1>10, <1>11, <1>20, <1>21, <1>22, <1>24, <1>29, <1>30, GoesOn
<1>31. CASE answer = "done" /\ i.ok = j.ok /\ i.todo = j.todo \ {c} /\ j.op = "batch" /\ BatchWriting(g, j)
  <2>1. /\ \A id \in DocsOf(j) : id \notin j.dels
        /\ \A u \in Groups(j) : g[u] # <<>>
    BY <1>2, <1>5, <1>31, BatchRows
  <2>2. \A u \in Groups(j) : h[u] # <<>> /\ h[u][1] = g[u][1]
    BY <1>12, <1>16, <1>19, <1>26, <2>1
  <2>3. \A u : ~ToDo(i, "update", u) /\ ~ToDo(i, "append", u) /\ ~ToDo(i, "drop", t)
    BY <1>4, <1>8, <1>31, CallsDiffer DEF ToDo
  <2>4. \A p \in j.found : ToDo(i, "update", NoTab) \/ ToDo(i, "drop", p.tab) =>
               (Accurate(g, p) => Accurate(h, p))
    <3>1. ASSUME NEW p \in j.found, p.tab # t, Accurate(g, p)  PROVE Accurate(h, p)
      BY <1>19, <1>26, <3>1 DEF Accurate
    <3> QED
      BY <2>3, <3>1
  <2>5. ASSUME NEW u \in Tabs, NEW id \in Ids, Unwanted(j, u, id), Has(h, u, id)
        PROVE  Has(g, u, id) /\ c # Call("drop", u)
    <3>1. Has(g, u, id)
      BY <1>20, <2>5 DEF Has
    <3>2. ASSUME u = t  PROVE FALSE
      <4>1. FoundAt(j, t, id)
        BY <1>7, <1>31, <2>5, <3>1, <3>2 DEF BatchWriting
      <4>2. PICK p \in j.found : p.id = id /\ p.tab = t
        BY <4>1 DEF FoundAt
      <4>3. p \in P
        BY <1>12, <1>31, <2>5, <3>2, <4>2 DEF ToDrop, Unwanted, AtHome
      <4>4. h[t] = N
        BY <1>19, <1>31
      <4> QED
        BY <1>16, <2>5, <3>2, <4>2, <4>3, <4>4 DEF Has
    <3> QED
      BY <1>4, <3>1, <3>2, CallsDiffer
  <2>6. ASSUME NEW id \in DocsOf(j), NEW v,
               Shows(g, j.docs[id].season, id, v)
        PROVE  Shows(h, j.docs[id].season, id, v)
    <3>1. PICK s : s = j.docs[id].season
      OBVIOUS
    <3>2. s \in Tabs
      BY <1>26, <1>27, <3>1
    <3>3. PICK l \in Body(g[s]) : l.id = id /\ l.ver = v
      BY <2>6, <3>1 DEF Shows
    <3>4. ASSUME NEW p \in P, p.id = id, s = t  PROVE FALSE
      BY <1>12, <1>13, <1>31, <2>1, <3>1, <3>4 DEF ToDrop, AtHome
    <3>5. l \in Body(h[s])
      BY <1>20, <3>2, <3>3, <3>4
    <3> QED
      BY <3>1, <3>3, <3>5 DEF Shows
  <2>7. \A p \in j.found : AtHome(j, p) =>
          /\ c # Call("update", NoTab)
          /\ \A v : Shows(g, p.tab, p.id, v) => Shows(h, p.tab, p.id, v)
    BY <1>4, <2>6, CallsDiffer DEF AtHome
  <2>8. \A u \in Groups(j) : \A id \in ToAppend(j, u) :
          /\ c # Call("append", u)
          /\ Shows(g, u, id, j.docs[id].ver) => Shows(h, u, id, j.docs[id].ver)
    BY <1>4, <2>6, CallsDiffer DEF ToAppend
  <2>9. BatchWriting(h, i)
    BY <1>3, <1>11, <1>31, <2>2, <2>3, <2>4, <2>5, <2>7, <2>8, BatchOn
  <2>10. i.op = "batch"
    BY <1>11, <1>31 DEF SameWork
  <2> QED
    BY <1>2, <1>4, <1>10, <1>11, <1>20, <1>21, <1>22, <1>24, <1>29, <2>9, <2>10, GoesOn
<1>32. CASE answer = "done" /\ i.ok = j.ok /\ i.todo = j.todo \ {c} /\ j.op = "resync" /\ RewriteWriting(g, j)
  <2>1. /\ DocsOf(i) = DocsOf(j) /\ Groups(i) = Groups(j) /\ i.found = j.found
        /\ i.docs = j.docs /\ i.op = "resync"
    BY <1>11, <1>32, SameRows DEF SameWork
  <2>2. \A u, k : ToDo(i, k, u) => k = "drop" /\ u # t /\ ToDo(j, k, u)
    BY <1>4, <1>8, <1>32, CallsDiffer DEF ToDo
  <2>3. t \notin Groups(j)
    BY <1>3, <1>4, <1>2, <1>32 DEF RewriteWriting
  <2>4. \A u \in Groups(j) : Rewritten(h, i, u)
    <3>1. ASSUME NEW u \in Groups(j)  PROVE Rewritten(h, i, u)
      <4>1. ~ToDo(j, "clear", u) /\ ~ToDo(j, "write", u)
        BY <1>8, CallsDiffer DEF ToDo
      <4>2. Rewritten(g, j, u)
        BY <1>32, <4>1 DEF RewriteWriting
      <4>3. h[u] = g[u]
        BY <1>19, <1>26, <2>3
      <4> QED
        BY <2>1, <4>2, <4>3 DEF Rewritten, Has, Shows
    <3> QED
      BY <3>1
  <2>5. \A p \in j.found : ToDo(i, "drop", p.tab) => Accurate(h, p)
    <3>1. ASSUME NEW p \in j.found, ToDo(i, "drop", p.tab)  PROVE Accurate(h, p)
      <4>1. p.tab # t /\ Accurate(g, p)
        BY <1>32, <2>2, <3>1 DEF RewriteWriting
      <4> QED
        BY <1>19, <1>26, <4>1 DEF Accurate
    <3> QED
      BY <3>1
  <2>6. ASSUME NEW u \in Tabs \ Groups(j), NEW id \in DocsOf(j), Has(h, u, id)
        PROVE  ToDo(i, "drop", u) /\ FoundAt(i, u, id)
    <3>1. Has(g, u, id)
      BY <1>20, <2>6 DEF Has
    <3>2. ToDo(j, "drop", u) /\ FoundAt(j, u, id)
      BY <1>32, <2>6, <3>1 DEF RewriteWriting
    <3>3. ASSUME u = t  PROVE FALSE
      <4>1. PICK p \in j.found : p.id = id /\ p.tab = t
        BY <3>2, <3>3 DEF FoundAt
      <4>2. p \in P
        BY <1>12, <1>32, <2>3, <2>6, <4>1 DEF ToDrop
      <4>3. h[t] = N
        BY <1>19, <1>32
      <4> QED
        BY <1>16, <2>6, <3>3, <4>1, <4>2, <4>3 DEF Has
    <3>4. ToDo(i, "drop", u)
      BY <1>4, <1>32, <3>2, <3>3, CallsDiffer DEF ToDo
    <3> QED
      BY <2>1, <3>2, <3>4 DEF FoundAt
  <2>7. \A e \in i.todo : e.kind = "drop" /\ e.tab \notin Groups(j)
    BY <1>8, <1>32 DEF RewriteWriting
  <2>8. RewriteWriting(h, i)
    <3>1. i.ok /\ \A e \in i.todo : e.kind \in {"header", "clear", "write", "drop"}
      BY <1>7, <1>32, <2>7
    <3>2. \A e \in i.todo : e.kind # "drop" <=> e.tab \in Groups(i)
      BY <2>1, <2>7
    <3>3. \A u \in Tabs : ~ToDo(i, "header", u) /\ ~ToDo(i, "write", u)
      BY <2>2
    <3> QED
      BY <2>1, <2>4, <2>5, <2>6, <3>1, <3>2, <3>3 DEF RewriteWriting
  <2> QED
    BY <1>2, <1>4, <1>10, <1>11, <1>20, <1>21, <2>1, <1>29, <1>32, <2>8, GoesOn
<1>33. AloneInv'
  BY <1>5, <1>11, <1>30, <1>31, <1>32
<1> QED
  BY <1>2, <1>4, <1>29, <1>33

(* A full rewrite clears a tab: the one step that takes away what is shown.  *)
LEMMA ClearAlone ==
    ASSUME Alone, SheetInv, QueueTypeOK, OneIntention, AloneInv, Clear("queue")
    PROVE  AloneInv' /\ (Clearing \/ UNCHANGED <<grid, db>>)
<1>1. PICK c \in Due(job["queue"]), answer \in Answers("clear") :
       LET j == job["queue"] IN
           /\ c.kind = "clear" /\ c.tab \in ToSet(j.known)
           /\ Count(answer)
           /\ IF answer = "refused" THEN UNCHANGED grid ELSE Writes(c.tab, <<>>)
           /\ Proceeds("queue", IF answer = "done"
                 THEN [j EXCEPT !.todo = (@ \ {c}) \cup {Call("write", c.tab)}] ELSE Failed(j))
  BY Zenon DEF Clear
<1>2. PICK j, g, h, d, q, t, T, n, B :
         /\ j = Flush /\ g = grid /\ h = grid' /\ d = db /\ q = Owed /\ t = c.tab
         /\ T = ToSet(tabs) /\ n = Events /\ B = CutInto(T, n)
  OBVIOUS
<1>3. /\ job["queue"] = j /\ j \in JobsOver(T, n, B) /\ c \in j.todo /\ Sound(g, d, T, j, q)
      /\ \A e \in j.todo : Rank(c) <= Rank(e)
  BY <1>2, AtWork DEF Jobs
<1>4. c.kind = "clear" /\ UNCHANGED <<db, enabled, tabs>> /\ t \in Tabs /\ c = Call("clear", t)
  <2>1. c \in Calls
    BY <1>3, JobParts
  <2> QED
    BY <1>1, <1>2, <2>1 DEF Clear, Calls, Call
<1>5. RowsInv(d, j, q) /\ Fresh(g, j) /\ j.op = "resync" /\ RewriteWriting(g, j) /\ t \in Groups(j)
  <2>1. RowsInv(d, j, q) /\ Fresh(g, j) /\ j.op = "resync" /\ RewriteWriting(g, j)
    BY <1>3, <1>4, Phases
  <2> QED
    BY <1>2, <1>3, <1>4, <2>1 DEF RewriteWriting
<1>6. \A u \in Tabs : Tidy(g[u])
  BY <1>3 DEF Sound, TabsInv
<1>7. \A e \in j.todo : e.kind \notin {"header", "write"}
  <2>1. \A e \in j.todo : e.kind \in {"header", "check", "scan", "update", "append", "write", "clear", "drop"}
    BY <1>5 DEF RewriteWriting
  <2> QED
    BY <1>3, <1>4, <2>1, Ranks
<1>8. PICK X : X = (j.todo \ {c}) \cup {Call("write", t)}
  OBVIOUS
<1>9. PICK x : x = [j EXCEPT !.todo = X]
  OBVIOUS
<1>10. PICK i : i = IF answer = "done" THEN x ELSE Failed(j)
  OBVIOUS
<1>11. Proceeds("queue", i)
  BY <1>1, <1>2, <1>3, <1>8, <1>9, <1>10
<1>12. /\ SameWork(i, j)
       /\ \/ answer = "done" /\ i.ok = j.ok /\ i.todo = X
          \/ answer # "done" /\ ~i.ok /\ i.todo = {}
  <2>1. CASE answer = "done"
    <3>1. i = x /\ SameWork(x, j) /\ x.ok = j.ok /\ x.todo = X
      BY <1>3, <1>9, <1>10, <2>1, OtherTodo
    <3> QED
      BY <2>1, <3>1
  <2>2. CASE answer # "done"
    <3>1. i = Failed(j)
      BY <1>10, <2>2
    <3>2. SameWork(i, j) /\ ~i.ok /\ i.todo = {}
      BY <1>3, <3>1, FailedAfter
    <3> QED
      BY <2>2, <3>2
  <2> QED
    BY <2>1, <2>2
<1>13. (h = g /\ answer # "done") \/ h = [g EXCEPT ![t] = <<>>]
  BY <1>1, <1>2, <1>3 DEF Writes
<1>14. DOMAIN g = Tabs
  BY <1>2 DEF SheetInv
<1>15. /\ \A u \in Tabs \ {t} : h[u] = g[u]
       /\ (h[t] = g[t] /\ answer # "done") \/ h[t] = <<>>
  BY <1>4, <1>13, <1>14
<1>16. /\ \A u \in Tabs : Tidy(h[u])
       /\ \A u \in Tabs : Body(h[u]) \subseteq Body(g[u])
  <2>1. Tidy(h[t]) /\ Body(h[t]) \subseteq Body(g[t])
    BY <1>4, <1>6, <1>15, EmptyTidy
  <2> QED
    BY <1>6, <1>15, <2>1
<1>17. WrittenBy(j, g, h)
  BY <1>16 DEF WrittenBy
<1>18. Clearing \/ UNCHANGED <<grid, db>>
  <2>1. CASE g[t] = <<>> \/ h = g
    <3>1. g[t] = <<>> /\ t \in DOMAIN g /\ h = [g EXCEPT ![t] = <<>>] => h = g
      <4>1. g \in [Tabs -> Sheets]
        BY <1>2 DEF SheetInv
      <4> QED
        BY <4>1
    <3>2. h = g
      BY <1>4, <1>13, <1>14, <2>1, <3>1
    <3> QED
      BY <1>2, <1>4, <3>2
  <2>2. CASE g[t] # <<>> /\ h # g
    <3>1. h[t] = <<>>
      BY <1>4, <1>13, <1>14, <2>2
    <3> QED
      BY <1>2, <1>4, <2>2, <3>1 DEF Clearing
  <2> QED
    BY <2>1, <2>2
<1>19. CASE answer # "done" /\ i.todo = {} /\ ~i.ok
  <2>1. AloneInv'
    BY <1>2, <1>4, <1>5, <1>11, <1>12, <1>16, <1>17, <1>19, GoesOn
  <2> QED
    BY <1>18, <2>1
<1>20. CASE answer = "done" /\ i.ok = j.ok /\ i.todo = X
  <2>1. i.found = j.found /\ SameDocs(i, j) /\ i.ok /\ i.op = "resync"
    BY <1>5, <1>12, <1>20 DEF SameWork, SameDocs, RewriteWriting
  <2>2. Groups(j) \subseteq Tabs /\ \A p \in j.found : p.tab \in Tabs
    BY <1>3, JobParts, GroupTabs DEF Places
  <2>3. h[t] = <<>>
    BY <1>15, <1>20
  <2>4. /\ \A e \in i.todo : e \in j.todo \/ (e.tab = t /\ e.kind \in {"header", "clear", "write"})
        /\ \A e \in j.todo : e.tab # t => e \in i.todo
    BY <1>2, <1>8, <1>20, CallsDiffer
  <2>5. ToDo(i, "write", t) /\ \A u : ~ToDo(i, "header", u)
    BY <1>7, <1>8, <1>20, CallsDiffer DEF ToDo
  <2>6. RewriteWriting(h, i)
    BY <1>5, <1>15, <2>1, <2>2, <2>3, <2>4, <2>5, RewriteOn
  <2>7. AloneInv'
    BY <1>2, <1>4, <1>5, <1>11, <1>12, <1>16, <1>17, <2>1, <2>6, GoesOn
  <2> QED
    BY <1>18, <2>7
<1> QED
  BY <1>12, <1>19, <1>20

(* The rows of its season go into a tab that was cleared.                    *)
LEMMA WriteAlone ==
    ASSUME Alone, SheetInv, QueueTypeOK, OneIntention, AloneInv, Write("queue")
    PROVE  AloneInv' /\ Covers(grid, grid', db')
<1>1. PICK c \in Due(job["queue"]), answer \in Answers("write") :
       LET j == job["queue"]
           docs == {id \in DocsOf(j) : j.docs[id].season = c.tab}
       IN  /\ c.kind = "write"
           /\ Count(answer)
           /\ IF answer = "refused" THEN UNCHANGED grid
              ELSE Writes(c.tab, Overlay(grid[c.tab], 1, <<HeaderOf(j, c.tab)>> \o RowsOf(j, docs)))
           /\ Proceeds("queue", IF answer = "done" THEN Made(j, c) ELSE Failed(j))
  BY Zenon DEF Write
<1>2. PICK j, g, h, d, q, t, T, n, B :
         /\ j = Flush /\ g = grid /\ h = grid' /\ d = db /\ q = Owed /\ t = c.tab
         /\ T = ToSet(tabs) /\ n = Events /\ B = CutInto(T, n)
  OBVIOUS
<1>3. job["queue"] = j /\ j \in JobsOver(T, n, B) /\ c \in j.todo /\ Sound(g, d, T, j, q)
  BY <1>2, AtWork DEF Jobs
<1>4. c.kind = "write" /\ UNCHANGED <<db, enabled, tabs>> /\ t \in Tabs /\ c = Call("write", t)
  <2>1. c \in Calls /\ t \in T
    BY <1>1, <1>2, <1>3, JobParts
  <2> QED
    BY <1>1, <1>2, <2>1 DEF Write, Calls, Call
<1>5. RowsInv(d, j, q) /\ Fresh(g, j) /\ j.op = "resync" /\ RewriteWriting(g, j) /\ t \in Groups(j)
  <2>1. RowsInv(d, j, q) /\ Fresh(g, j) /\ j.op = "resync" /\ RewriteWriting(g, j)
    BY <1>3, <1>4, Phases
  <2> QED
    BY <1>2, <1>3, <1>4, <2>1 DEF RewriteWriting
<1>6. \A u \in Tabs : Tidy(g[u])
  BY <1>3 DEF Sound, TabsInv
<1>7. ToDo(j, "write", t) /\ g[t] = <<>> /\ \A u \in Tabs : ~ToDo(j, "header", u)
  <2>1. ToDo(j, "write", t)
    BY <1>3, <1>4 DEF ToDo
  <2> QED
    BY <1>4, <1>5, <2>1 DEF RewriteWriting
<1>8. PICK i : i = IF answer = "done" THEN Made(j, c) ELSE Failed(j)
  OBVIOUS
<1>9. Proceeds("queue", i)
  BY <1>1, <1>3, <1>8
<1>10. /\ SameWork(i, j)
       /\ \/ answer = "done" /\ i.ok = j.ok /\ i.todo = j.todo \ {c}
          \/ answer # "done" /\ ~i.ok /\ i.todo = {}
  <2>1. CASE answer = "done"
    <3>1. i = Made(j, c)
      BY <1>8, <2>1
    <3>2. SameWork(i, j) /\ i.ok = j.ok /\ i.todo = j.todo \ {c}
      BY <1>3, <3>1, MadeAfter
    <3> QED
      BY <2>1, <3>2
  <2>2. CASE answer # "done"
    <3>1. i = Failed(j)
      BY <1>8, <2>2
    <3>2. SameWork(i, j) /\ ~i.ok /\ i.todo = {}
      BY <1>3, <3>1, FailedAfter
    <3> QED
      BY <2>2, <3>2
  <2> QED
    BY <2>1, <2>2
<1>11. PICK ids, new, x, N : /\ ids = {id \in DocsOf(j) : j.docs[id].season = t}
                             /\ new = RowsOf(j, ids) /\ x = HeaderOf(j, t)
                             /\ N = Overlay(<<>>, 1, <<x>> \o new)
  OBVIOUS
<1>12. ids \in SUBSET DocsOf(j) /\ ids \in SUBSET Ids
  BY <1>11 DEF DocsOf
<1>13. OnlyRows(N, x, j, ids)
  <2>1. x \in LineSet /\ x.id = Label
    BY <1>3, <1>4, <1>11, JobParts, HeaderLine
  <2>2. RowsFor(new, j, ids)
    BY <1>3, <1>11, <1>12, JobParts, DocRows
  <2>3. \A id \in ids : RowOf(j, id).layout = x.layout
    BY <1>11 DEF RowOf, HeaderOf
  <2>4. N = Overlay(<<>>, 1, <<x>> \o new)
    BY <1>11
  <2> QED
    BY <1>12, <2>1, <2>2, <2>3, <2>4, WrittenTidy
<1>14. /\ Tidy(N) /\ \A id \in ids : RowOf(j, id) \in Body(N)
       /\ \A l \in Body(N) : \E id \in ids : l = RowOf(j, id)
  BY <1>13 DEF OnlyRows
<1>15. (h = g /\ answer # "done") \/ h = [g EXCEPT ![t] = N]
  BY <1>1, <1>2, <1>3, <1>7, <1>11 DEF Writes
<1>16. DOMAIN g = Tabs
  BY <1>2 DEF SheetInv
<1>17. /\ \A u \in Tabs \ {t} : h[u] = g[u]
       /\ (h[t] = g[t] /\ answer # "done") \/ h[t] = N
  BY <1>4, <1>15, <1>16
<1>18. /\ \A u \in Tabs : Tidy(h[u])
       /\ \A u \in Tabs : Body(g[u]) \subseteq Body(h[u])
  <2>1. Body(g[t]) = {}
    BY <1>7, EmptyTidy
  <2> QED
    BY <1>6, <1>14, <1>17, <2>1
<1>19. WrittenBy(j, g, h)
  BY <1>12, <1>14, <1>17 DEF WrittenBy
<1>20. Covers(g, h, d)
  <2>1. \A u \in Tabs : \A l \in Body(g[u]) : l.ver \in Nat
    BY <1>2, LineVersions
  <2>2. ASSUME NEW u \in Tabs, NEW l \in Body(g[u])
        PROVE  \E v \in Tabs : \E m \in Body(h[v]) : m.id = l.id /\ m.ver >= l.ver
    <3>1. l \in Body(h[u]) /\ l.ver >= l.ver
      BY <1>18, <2>1
    <3> QED
      BY <3>1
  <2> QED
    BY <2>2 DEF Covers
<1>21. CASE answer # "done" /\ i.todo = {} /\ ~i.ok
  <2>1. AloneInv'
    BY <1>2, <1>4, <1>5, <1>9, <1>10, <1>18, <1>19, <1>21, GoesOn
  <2> QED
    BY <1>2, <1>4, <1>20, <2>1
<1>22. CASE answer = "done" /\ i.ok = j.ok /\ i.todo = j.todo \ {c}
  <2>1. /\ i.found = j.found /\ SameDocs(i, j) /\ i.ok /\ i.op = "resync"
        /\ i.docs = j.docs /\ DocsOf(i) = DocsOf(j)
    BY <1>5, <1>10, <1>22, SameRows DEF SameWork, SameDocs, RewriteWriting
  <2>2. Groups(j) \subseteq Tabs /\ \A p \in j.found : p.tab \in Tabs
    BY <1>3, JobParts, GroupTabs DEF Places
  <2>3. h[t] = N
    BY <1>17, <1>22
  <2>4. /\ \A e \in i.todo : e \in j.todo \/ (e.tab = t /\ e.kind \in {"header", "clear", "write"})
        /\ \A e \in j.todo : e.tab # t => e \in i.todo
    BY <1>2, <1>22
  <2>5. ~ToDo(i, "write", t) /\ \A u \in Tabs : ~ToDo(i, "header", u)
    BY <1>4, <1>7, <1>22 DEF ToDo
  <2>6. Rewritten(h, i, t)
    <3>1. ASSUME NEW id \in Ids, Has(h, t, id)  PROVE id \in DocsOf(j) /\ j.docs[id].season = t
      BY <1>11, <1>14, <2>3, <3>1 DEF Has, RowOf
    <3>2. ASSUME NEW id \in DocsOf(j), j.docs[id].season = t  PROVE Shows(h, t, id, j.docs[id].ver)
      <4>1. RowOf(j, id) \in Body(h[t])
        BY <1>11, <1>14, <2>3, <3>2
      <4>2. RowOf(j, id).id = id /\ RowOf(j, id).ver = j.docs[id].ver
        BY DEF RowOf
      <4> QED
        BY <4>1, <4>2 DEF Shows
    <3> QED
      BY <2>1, <3>1, <3>2 DEF Rewritten
  <2>7. RewriteWriting(h, i)
    BY <1>4, <1>5, <1>17, <2>1, <2>2, <2>4, <2>5, <2>6, RewriteOn
  <2>8. AloneInv'
    BY <1>2, <1>4, <1>5, <1>9, <1>10, <1>18, <1>19, <2>1, <2>7, GoesOn
  <2> QED
    BY <1>2, <1>4, <1>20, <2>8
<1> QED
  BY <1>10, <1>21, <1>22

-------------------------------------------------------------------------------
(* What happens outside the queue's job.                                     *)

(* A database that has moved on from d to e: what changed waits again, no    *)
(* row goes back, and the form does not run empty.                           *)
MovedOn(d, e, again, lost) ==
    /\ \A id \in Ids : e[id] = d[id] \/ (id \in again /\ (e[id].live \/ id \in lost))
    /\ \A id \in Ids : e[id].ver >= d[id].ver
    /\ (\E id \in Ids : d[id].live) => \E id \in Ids : e[id].live

LEMMA TabsStay ==
    ASSUME NEW g, NEW d, NEW e, NEW again, NEW lost, NEW gone, lost \subseteq gone,
           TabsInv(g, d, lost), MovedOn(d, e, again, gone),
           d \in [Ids -> SeasonDocs], e \in [Ids -> SeasonDocs],
           \A t \in Tabs : \A l \in Body(g[t]) : l.ver \in Nat
    PROVE  TabsInv(g, e, gone)
<1>1. ASSUME NEW t \in Tabs, NEW l \in Body(g[t])
      PROVE  l.ver <= e[l.id].ver /\ (e[l.id].live \/ l.id \in gone)
  <2>1. PICK id : id = l.id
    OBVIOUS
  <2>2. id \in Ids
    BY <1>1, <2>1 DEF TabsInv, Tidy, Body
  <2>3. l.ver <= d[id].ver /\ e[id].ver >= d[id].ver /\ l.ver \in Nat
    BY <1>1, <2>1, <2>2 DEF TabsInv, MovedOn
  <2>4. d[id].ver \in Nat /\ e[id].ver \in Nat
    <3>1. d[id] \in SeasonDocs /\ e[id] \in SeasonDocs
      BY <2>2
    <3>2. MaxEdits \in Nat
      BY MirrorAssumption
    <3> QED
      BY <3>1, <3>2 DEF SeasonDocs, Docs
  <2>5. l.ver <= e[id].ver
    BY <2>3, <2>4
  <2>6. e[id].live \/ id \in gone
    BY <1>1, <2>1, <2>2 DEF TabsInv, MovedOn
  <2> QED
    BY <2>1, <2>5, <2>6
<1>2. \A t \in Tabs : Tidy(g[t])
  BY DEF TabsInv
<1> QED
  BY <1>1, <1>2 DEF TabsInv

LEMMA SoundStays ==
    ASSUME NEW g, NEW d, NEW e, NEW T, NEW j, NEW q, NEW p, Sound(g, d, T, j, q),
           p.ups = q.ups, p.dels = q.dels, q.again \subseteq p.again,
           q.lost \subseteq p.lost, q.open \subseteq p.open, p.again \subseteq p.open,
           MovedOn(d, e, p.again, p.lost),
           d \in [Ids -> SeasonDocs], e \in [Ids -> SeasonDocs],
           \A t \in Tabs : \A l \in Body(g[t]) : l.ver \in Nat
    PROVE  Sound(g, e, T, j, p)
<1>1. /\ j.docs \in [Ids -> SeasonDocs] /\ j.op \in {"batch", "resync"}
      /\ j.op = "batch" => j.back = <<>> /\ j.dels = q.dels
      /\ j.op = "resync" \/ DocsOf(j) # {} => \E id \in Ids : d[id].live
      /\ TabsInv(g, d, q.lost)
      /\ j.op = "batch" => \A id \in Ids \ q.open : Standing(g, d, id)
      /\ (j.todo = {} /\ ~j.ok) \/ Working(g, d, T, j, q)
  BY DEF Sound
<1>2. TabsInv(g, e, p.lost)
  BY <1>1, TabsStay
<1>3. ASSUME j.op = "batch", NEW id \in Ids \ p.open  PROVE Standing(g, e, id)
  <2>1. e[id] = d[id] /\ id \notin q.open
    BY <1>3 DEF MovedOn
  <2>2. Standing(g, d, id)
    BY <1>1, <1>3, <2>1
  <2> QED
    BY <2>1, <2>2 DEF Standing
<1>4. ASSUME RowsInv(d, j, q)  PROVE RowsInv(e, j, p)
  <2>1. \A id \in Ids : j.op = "resync" \/ id \in p.ups => j.docs[id] = e[id] \/ id \in p.again
    BY <1>4 DEF RowsInv, MovedOn
  <2>2. ASSUME NEW id \in DocsOf(j)  PROVE j.docs[id].ver <= e[id].ver
    <3>1. id \in Ids
      BY DEF DocsOf
    <3>2. j.docs[id].ver <= d[id].ver /\ e[id].ver >= d[id].ver
      BY <1>4, <3>1 DEF RowsInv, MovedOn
    <3>3. j.docs[id] \in SeasonDocs /\ d[id] \in SeasonDocs /\ e[id] \in SeasonDocs
      BY <1>1, <3>1
    <3>4. MaxEdits \in Nat
      BY MirrorAssumption
    <3>5. j.docs[id].ver \in Nat /\ d[id].ver \in Nat /\ e[id].ver \in Nat
      BY <3>3, <3>4 DEF SeasonDocs, Docs
    <3> QED
      BY <3>2, <3>5
  <2> QED
    BY <1>4, <2>1, <2>2 DEF RowsInv
<1>5. Working(g, d, T, j, q) => Working(g, e, T, j, p)
  BY <1>4 DEF Working
<1>6. (\E id \in Ids : d[id].live) => \E id \in Ids : e[id].live
  BY DEF MovedOn
<1> QED
  BY <1>1, <1>2, <1>3, <1>5, <1>6 DEF Sound

(* The job and the tabs are left alone.                                      *)
LEMMA Elsewhere ==
    ASSUME SheetInv, SheetInv', AloneInv, QueueInv', UNCHANGED <<enabled, tabs, grid, job>>,
           NEW q, q = Owed, NEW p, p = Owed', NEW d, d = db, NEW e, e = db',
           p.ups = q.ups, p.dels = q.dels, q.again \subseteq p.again,
           q.lost \subseteq p.lost, q.open \subseteq p.open, p.again \subseteq p.open,
           MovedOn(d, e, p.again, p.lost)
    PROVE  AloneInv'
<1>1. PICK g, j, T : g = grid /\ j = Flush /\ T = ToSet(tabs)
  OBVIOUS
<1>2. grid' = g /\ Flush' = j /\ ToSet(tabs') = T /\ enabled' /\ tabs' # <<>>
  BY <1>1 DEF AloneInv, Flush
<1>3. /\ d \in [Ids -> SeasonDocs] /\ e \in [Ids -> SeasonDocs]
      /\ \A t \in Tabs : \A l \in Body(g[t]) : l.ver \in Nat
  <2>1. d \in [Ids -> SeasonDocs] /\ e \in [Ids -> SeasonDocs]
    BY DEF SheetInv
  <2> QED
    BY <1>1, <2>1, LineVersions
<1>4. CASE j.todo = {}
  <2>1. TabsInv(g, d, q.lost) /\ \A id \in Ids \ q.open : Standing(g, d, id)
    BY <1>1, <1>4 DEF AloneInv
  <2>2. TabsInv(g, e, p.lost)
    BY <1>3, <2>1, TabsStay
  <2>3. ASSUME NEW id \in Ids \ p.open  PROVE Standing(g, e, id)
    <3>1. e[id] = d[id] /\ id \notin q.open
      BY <2>3 DEF MovedOn
    <3> QED
      BY <2>1, <3>1 DEF Standing
  <2> QED
    BY <1>2, <1>4, <2>2, <2>3 DEF AloneInv
<1>5. CASE j.todo # {}
  <2>1. Sound(g, d, T, j, q)
    BY <1>1, <1>5 DEF AloneInv
  <2>2. Sound(g, e, T, j, p)
    BY <1>3, <2>1, SoundStays
  <2>3. Sound(grid', db', ToSet(tabs'), Flush', Owed')
    BY <1>2, <2>2
  <2> QED
    BY <1>2, <1>5, <2>3 DEF AloneInv
<1> QED
  BY <1>4, <1>5

(* A document is submitted or edited: it is to be written.                   *)
LEMMA UpsertAlone ==
    ASSUME SheetInv, SheetInv', QueueTypeOK, AloneInv, UNCHANGED <<enabled, tabs, grid, job, suspect>>,
           NEW id \in Ids, NEW t \in Seasons,
           db[id] = NoDoc \/ db[id].live, NEW v, v >= db[id].ver,
           db' = [db EXCEPT ![id] = [live |-> TRUE, season |-> t, ver |-> v]], QueueUpserts({id})
    PROVE  AloneInv'
<1>1. PICK q, p, d, e : q = Owed /\ p = Owed' /\ d = db /\ e = db'
  OBVIOUS
<1>2. /\ q.ups = batch.upserts /\ q.dels = batch.deletes
      /\ q.again = upserts \cup deletes \cup suspect
      /\ q.lost = deletes \cup batch.deletes \cup suspect
      /\ q.open = upserts \cup deletes \cup batch.upserts \cup batch.deletes \cup suspect
  BY <1>1 DEF Owed, Pending, Taken
<1>3. upserts' = upserts \cup {id} /\ deletes' = deletes \ {id} /\ UNCHANGED <<flushing, batch, suspect>>
  BY DEF QueueUpserts
<1>4. id \notin deletes \cup batch.deletes
  BY DEF AloneInv, QueueInv, NoDoc
<1>5. /\ p.ups = batch.upserts /\ p.dels = batch.deletes
      /\ p.again = upserts \cup {id} \cup deletes \cup suspect
      /\ p.lost = deletes \cup batch.deletes \cup suspect
      /\ p.open = upserts \cup {id} \cup deletes \cup batch.upserts \cup batch.deletes \cup suspect
  BY <1>1, <1>3, <1>4 DEF Owed, Pending, Taken
<1>6. d \in [Ids -> SeasonDocs] /\ \A x \in Ids : d[x].ver \in Nat
  <2>1. d \in [Ids -> SeasonDocs]
    BY <1>1 DEF SheetInv
  <2>2. MaxEdits \in Nat
    BY MirrorAssumption
  <2> QED
    BY <2>1, <2>2 DEF SeasonDocs, Docs
<1>7. /\ \A x \in Ids \ {id} : e[x] = d[x]
      /\ e[id].live /\ e[id].ver = v
  BY <1>1, <1>6
<1>8. MovedOn(d, e, p.again, p.lost)
  <2>1. ASSUME NEW x \in Ids  PROVE e[x].ver >= d[x].ver
    BY <1>1, <1>6, <1>7
  <2>2. ASSUME NEW x \in Ids  PROVE e[x] = d[x] \/ (x \in p.again /\ (e[x].live \/ x \in p.lost))
    BY <1>5, <1>7
  <2> QED
    BY <1>7, <2>1, <2>2 DEF MovedOn
<1>9. QueueInv'
  <2>1. /\ flushing <=> Flush.todo # {}
        /\ \A x \in deletes \cup batch.deletes : ~db[x].live /\ db[x] # NoDoc
        /\ batch.deletes \cap upserts = {}
        /\ \A x \in upserts : db[x].live \/ x \in suspect
        /\ \A x \in batch.upserts : db[x].live \/ x \in deletes \cup suspect
    BY DEF AloneInv, QueueInv
  <2>2. /\ upserts \in SUBSET Ids /\ deletes \in SUBSET Ids
        /\ batch.upserts \in SUBSET Ids /\ batch.deletes \in SUBSET Ids
    BY DEF QueueTypeOK
  <2>3. Flush' = Flush
    BY DEF Flush
  <2>4. /\ flushing' <=> Flush'.todo # {}
        /\ \A x \in deletes' \cup batch'.deletes : ~db'[x].live /\ db'[x] # NoDoc
        /\ batch'.deletes \cap upserts' = {}
        /\ \A x \in upserts' : db'[x].live \/ x \in suspect'
        /\ \A x \in batch'.upserts : db'[x].live \/ x \in deletes' \cup suspect'
    BY <1>1, <1>3, <1>4, <1>7, <2>1, <2>2, <2>3
  <2> QED
    BY <2>4 DEF QueueInv
<1> QED
  BY <1>1, <1>2, <1>5, <1>8, <1>9, Elsewhere

(* A document is deleted: its removal is to come.                            *)
LEMMA DeleteAlone ==
    ASSUME Alone, SheetInv, SheetInv', QueueTypeOK, AloneInv,
           UNCHANGED <<enabled, tabs, grid, job, suspect>>,
           NEW id \in Ids, Delete(id)
    PROVE  AloneInv'
<1>1. PICK q, p, d, e : q = Owed /\ p = Owed' /\ d = db /\ e = db'
  OBVIOUS
<1>2. /\ q.ups = batch.upserts /\ q.dels = batch.deletes
      /\ q.again = upserts \cup deletes \cup suspect
      /\ q.lost = deletes \cup batch.deletes \cup suspect
      /\ q.open = upserts \cup deletes \cup batch.upserts \cup batch.deletes \cup suspect
  BY <1>1 DEF Owed, Pending, Taken
<1>3. /\ db[id].live /\ db' = [db EXCEPT ![id].live = FALSE] /\ \E x \in Ids \ {id} : db[x].live
      /\ deletes' = deletes \cup {id} /\ upserts' = upserts \ {id} /\ UNCHANGED <<flushing, batch, suspect>>
  BY DEF Delete, MayDelete, QueueDeletes, Alone
<1>4. /\ p.ups = batch.upserts /\ p.dels = batch.deletes
      /\ p.again = upserts \cup {id} \cup deletes \cup suspect
      /\ p.lost = deletes \cup {id} \cup batch.deletes \cup suspect
      /\ p.open = upserts \cup {id} \cup deletes \cup batch.upserts \cup batch.deletes \cup suspect
  BY <1>1, <1>3 DEF Owed, Pending, Taken
<1>5. /\ d \in [Ids -> SeasonDocs] /\ \A x \in Ids : d[x].ver \in Nat
      /\ d[id].season \in Seasons
  <2>1. d \in [Ids -> SeasonDocs]
    BY <1>1 DEF SheetInv
  <2>2. MaxEdits \in Nat
    BY MirrorAssumption
  <2> QED
    BY <1>1, <1>3, <2>1, <2>2 DEF SeasonDocs, Docs
<1>6. /\ \A x \in Ids \ {id} : e[x] = d[x]
      /\ ~e[id].live /\ e[id].ver = d[id].ver /\ e[id].season = d[id].season
  <2>1. d[id] \in SeasonDocs /\ e = [d EXCEPT ![id] = [d[id] EXCEPT !.live = FALSE]]
    BY <1>1, <1>3, <1>5
  <2>2. e[id] = [d[id] EXCEPT !.live = FALSE] /\ \A x \in Ids \ {id} : e[x] = d[x]
    BY <1>5, <2>1
  <2> QED
    BY <2>1, <2>2 DEF SeasonDocs, Docs
<1>7. MovedOn(d, e, p.again, p.lost)
  <2>1. ASSUME NEW x \in Ids  PROVE e[x].ver >= d[x].ver
    BY <1>5, <1>6
  <2>2. ASSUME NEW x \in Ids  PROVE e[x] = d[x] \/ (x \in p.again /\ (e[x].live \/ x \in p.lost))
    BY <1>4, <1>6
  <2>3. \E x \in Ids : e[x].live
    BY <1>1, <1>3, <1>6
  <2> QED
    BY <2>1, <2>2, <2>3 DEF MovedOn
<1>8. QueueInv'
  <2>1. /\ flushing <=> Flush.todo # {}
        /\ \A x \in deletes \cup batch.deletes : ~db[x].live /\ db[x] # NoDoc
        /\ batch.deletes \cap upserts = {}
        /\ \A x \in upserts : db[x].live \/ x \in suspect
        /\ \A x \in batch.upserts : db[x].live \/ x \in deletes \cup suspect
    BY DEF AloneInv, QueueInv
  <2>2. /\ upserts \in SUBSET Ids /\ deletes \in SUBSET Ids
        /\ batch.upserts \in SUBSET Ids /\ batch.deletes \in SUBSET Ids
    BY DEF QueueTypeOK
  <2>3. Flush' = Flush
    BY DEF Flush
  <2>4. e[id] # NoDoc
    <3>1. NoTab \notin Seasons
      BY MirrorAssumption DEF NoTab
    <3>2. e[id].season # NoDoc.season
      BY <1>5, <1>6, <3>1 DEF NoDoc
    <3> QED
      BY <3>2
  <2>5. /\ flushing' <=> Flush'.todo # {}
        /\ \A x \in deletes' \cup batch'.deletes : ~db'[x].live /\ db'[x] # NoDoc
        /\ batch'.deletes \cap upserts' = {}
        /\ \A x \in upserts' : db'[x].live \/ x \in suspect'
        /\ \A x \in batch'.upserts : db'[x].live \/ x \in deletes' \cup suspect'
    BY <1>1, <1>3, <1>6, <2>1, <2>2, <2>3, <2>4
  <2> QED
    BY <2>5 DEF QueueInv
<1> QED
  BY <1>1, <1>2, <1>4, <1>7, <1>8, Elsewhere

LEMMA SaveAlone ==
    ASSUME Alone, SheetInv, SheetInv', QueueTypeOK, AloneInv, SaveDocument
    PROVE  AloneInv' /\ UNCHANGED grid
<1>1. UNCHANGED <<enabled, tabs, grid, job, suspect>>
  BY DEF SaveDocument, sheetVars
<1>2. PICK id \in Ids : Delete(id) \/ \E t \in Seasons : Submit(id, t) \/ Edit(id, t)
  BY Zenon DEF SaveDocument
<1>3. CASE Delete(id)
  BY <1>1, <1>3, DeleteAlone
<1>4. CASE \E t \in Seasons : Submit(id, t)
  <2>1. PICK t \in Seasons : Submit(id, t)
    BY <1>4
  <2>2. PICK v : v = 1
    OBVIOUS
  <2>3. /\ db[id] = NoDoc /\ v >= db[id].ver
        /\ db' = [db EXCEPT ![id] = [live |-> TRUE, season |-> t, ver |-> v]] /\ QueueUpserts({id})
    BY <2>1, <2>2 DEF Submit, NoDoc
  <2> QED
    BY <1>1, <2>3, UpsertAlone
<1>5. CASE \E t \in Seasons : Edit(id, t)
  <2>1. PICK t \in Seasons : Edit(id, t)
    BY <1>5
  <2>2. PICK v : v = db[id].ver + 1
    OBVIOUS
  <2>3. v >= db[id].ver
    <3>1. db[id] \in SeasonDocs /\ MaxEdits \in Nat
      BY MirrorAssumption DEF SheetInv
    <3>2. db[id].ver \in Nat
      BY <3>1 DEF SeasonDocs, Docs
    <3> QED
      BY <2>2, <3>2
  <2>4. /\ db[id].live /\ QueueUpserts({id})
        /\ db' = [db EXCEPT ![id] = [live |-> TRUE, season |-> t, ver |-> v]]
    BY <2>1, <2>2 DEF Edit
  <2> QED
    BY <1>1, <2>3, <2>4, UpsertAlone
<1> QED
  BY <1>1, <1>2, <1>3, <1>4, <1>5

(* A season is deleted, and no hook says so: its documents are suspect.      *)
LEMMA SeasonAlone ==
    ASSUME Alone, SheetInv, SheetInv', QueueTypeOK, AloneInv, NEW t \in Seasons, DeleteSeason(t)
    PROVE  AloneInv' /\ UNCHANGED grid
<1>1. PICK q, p, d, e, gone : /\ q = Owed /\ p = Owed' /\ d = db /\ e = db'
                              /\ gone = {id \in Ids : db[id].live /\ db[id].season = t}
  OBVIOUS
<1>2. /\ \E x \in Ids \ gone : d[x].live
      /\ e = [id \in Ids |-> IF id \in gone THEN [d[id] EXCEPT !.live = FALSE] ELSE d[id]]
      /\ suspect' = suspect \cup gone /\ UNCHANGED <<queueVars, enabled, tabs, grid, job>>
  BY <1>1 DEF DeleteSeason, MayDelete, Alone, sheetVars
<1>3. UNCHANGED <<upserts, deletes, flushing, batch>>
  BY <1>2 DEF queueVars
<1>4. /\ q.ups = batch.upserts /\ q.dels = batch.deletes
      /\ q.again = upserts \cup deletes \cup suspect
      /\ q.lost = deletes \cup batch.deletes \cup suspect
      /\ q.open = upserts \cup deletes \cup batch.upserts \cup batch.deletes \cup suspect
  BY <1>1 DEF Owed, Pending, Taken
<1>5. /\ p.ups = batch.upserts /\ p.dels = batch.deletes
      /\ p.again = upserts \cup deletes \cup suspect \cup gone
      /\ p.lost = deletes \cup batch.deletes \cup suspect \cup gone
      /\ p.open = upserts \cup deletes \cup batch.upserts \cup batch.deletes \cup suspect \cup gone
  BY <1>1, <1>2, <1>3 DEF Owed, Pending, Taken
<1>6. d \in [Ids -> SeasonDocs] /\ \A x \in Ids : d[x].ver \in Nat
  <2>1. d \in [Ids -> SeasonDocs]
    BY <1>1 DEF SheetInv
  <2>2. MaxEdits \in Nat
    BY MirrorAssumption
  <2> QED
    BY <2>1, <2>2 DEF SeasonDocs, Docs
<1>7. /\ \A x \in Ids \ gone : e[x] = d[x]
      /\ \A x \in Ids : e[x].ver = d[x].ver
      /\ gone \in SUBSET Ids /\ \A x \in gone : d[x].live
  <2>1. gone \in SUBSET Ids /\ \A x \in gone : d[x].live
    BY <1>1
  <2>2. \A x \in Ids \ gone : e[x] = d[x]
    BY <1>2
  <2>3. ASSUME NEW x \in gone  PROVE e[x].ver = d[x].ver
    <3>1. d[x] \in SeasonDocs /\ e[x] = [d[x] EXCEPT !.live = FALSE]
      BY <1>2, <1>6, <2>1
    <3> QED
      BY <3>1 DEF SeasonDocs, Docs
  <2> QED
    BY <2>1, <2>2, <2>3
<1>8. MovedOn(d, e, p.again, p.lost)
  <2>1. ASSUME NEW x \in Ids  PROVE e[x].ver >= d[x].ver
    BY <1>6, <1>7
  <2>2. ASSUME NEW x \in Ids  PROVE e[x] = d[x] \/ (x \in p.again /\ (e[x].live \/ x \in p.lost))
    BY <1>5, <1>7
  <2>3. \E x \in Ids : e[x].live
    BY <1>2, <1>7
  <2> QED
    BY <2>1, <2>2, <2>3 DEF MovedOn
<1>9. QueueInv'
  <2>1. /\ flushing <=> Flush.todo # {}
        /\ \A x \in deletes \cup batch.deletes : ~db[x].live /\ db[x] # NoDoc
        /\ batch.deletes \cap upserts = {}
        /\ \A x \in upserts : db[x].live \/ x \in suspect
        /\ \A x \in batch.upserts : db[x].live \/ x \in deletes \cup suspect
    BY DEF AloneInv, QueueInv
  <2>2. /\ upserts \in SUBSET Ids /\ deletes \in SUBSET Ids
        /\ batch.upserts \in SUBSET Ids /\ batch.deletes \in SUBSET Ids
    BY DEF QueueTypeOK
  <2>3. Flush' = Flush
    BY <1>2 DEF Flush
  <2>4. /\ flushing' <=> Flush'.todo # {}
        /\ \A x \in deletes' \cup batch'.deletes : ~db'[x].live /\ db'[x] # NoDoc
        /\ batch'.deletes \cap upserts' = {}
        /\ \A x \in upserts' : db'[x].live \/ x \in suspect'
        /\ \A x \in batch'.upserts : db'[x].live \/ x \in deletes' \cup suspect'
    BY <1>1, <1>2, <1>3, <1>7, <2>1, <2>2, <2>3
  <2> QED
    BY <2>4 DEF QueueInv
<1> QED
  BY <1>1, <1>2, <1>4, <1>5, <1>8, <1>9, Elsewhere

(* A flush takes what waits and begins; it has read nothing yet.             *)
LEMMA StartAlone ==
    ASSUME Alone, SheetInv, QueueTypeOK, PendingIsArmed, TakenIsInFlight, AloneInv, StartBatch
    PROVE  AloneInv' /\ UNCHANGED grid
<1>1. /\ timer /\ ~flushing /\ flushing' = (Pending # {}) /\ Pending # {}
      /\ batch' = [upserts |-> upserts, deletes |-> deletes] /\ upserts' = {} /\ deletes' = {}
      /\ job' = [job EXCEPT !["queue"] = NewJob("batch", deletes)]
      /\ UNCHANGED <<db, enabled, tabs, grid, suspect>>
  BY DEF StartBatch, FlushTakes, PendingIsArmed, sheetVars
<1>2. PICK k : k = NewJob("batch", deletes)
  OBVIOUS
<1>3. Flush' = k
  BY <1>1, <1>2 DEF SheetInv, Alone, Flush
<1>4. /\ k.op = "batch" /\ k.todo = {Call("context", NoTab)} /\ k.docs = [id \in Ids |-> NoDoc]
      /\ k.dels = deletes /\ k.found = {} /\ k.ok /\ k.back = <<>>
  BY <1>2 DEF NewJob
<1>5. k.todo # {} /\ DocsOf(k) = {} /\ k.docs \in [Ids -> SeasonDocs]
  <2>1. MaxEdits \in Nat
    BY MirrorAssumption
  <2>2. 0 \in 0 .. MaxEdits
    BY <2>1
  <2>3. NoDoc \in SeasonDocs /\ ~NoDoc.live
    BY <2>2 DEF NoDoc, SeasonDocs, Docs
  <2>4. \A id \in Ids : k.docs[id] = NoDoc
    BY <1>4
  <2> QED
    BY <1>4, <2>3, <2>4 DEF DocsOf
<1>6. PICK g, d, T, q, p : g = grid /\ d = db /\ T = ToSet(tabs) /\ q = Owed /\ p = Owed'
  OBVIOUS
<1>7. Flush.todo = {} /\ batch.upserts = {} /\ batch.deletes = {}
  BY <1>1 DEF AloneInv, QueueInv, TakenIsInFlight, Taken
<1>8. /\ TabsInv(g, d, q.lost) /\ \A id \in Ids \ q.open : Standing(g, d, id)
      /\ enabled /\ tabs # <<>>
  BY <1>6, <1>7 DEF AloneInv
<1>9. p.lost = q.lost /\ p.open = q.open /\ p.dels = deletes
  <2>1. batch'.upserts = upserts /\ batch'.deletes = deletes
    BY <1>1
  <2> QED
    BY <1>1, <1>6, <1>7, <2>1 DEF Owed, Pending, Taken
<1>10. Sound(g, d, T, k, p)
  BY <1>4, <1>5, <1>8, <1>9 DEF Sound, Working, Starting
<1>11. Sound(grid', db', ToSet(tabs'), Flush', Owed')
  BY <1>1, <1>3, <1>6, <1>10
<1>12. QueueInv'
  <2>1. /\ \A x \in deletes \cup batch.deletes : ~db[x].live /\ db[x] # NoDoc
        /\ \A x \in upserts : db[x].live \/ x \in suspect
    BY DEF AloneInv, QueueInv
  <2>2. batch'.upserts = upserts /\ batch'.deletes = deletes
    BY <1>1
  <2>3. flushing' <=> Flush'.todo # {}
    BY <1>1, <1>3, <1>5
  <2> QED
    BY <1>1, <2>1, <2>2, <2>3 DEF QueueInv
<1> QED
  BY <1>1, <1>3, <1>5, <1>8, <1>11, <1>12 DEF AloneInv

(* The process dies, at whatever call: what waited, what was taken, and all  *)
(* there is when a rewrite was under way, is suspect.                        *)
LEMMA RestartAlone ==
    ASSUME Alone, SheetInv, QueueTypeOK, AloneInv, Restart
    PROVE  AloneInv' /\ UNCHANGED grid
<1>1. /\ upserts' = {} /\ deletes' = {} /\ flushing' = FALSE /\ batch' = NoBatch
      /\ job' = [w \in Workers |-> NoJob]
      /\ suspect' = IF Rewriting THEN Ids ELSE suspect \cup Pending \cup Taken
      /\ UNCHANGED <<db, enabled, tabs, grid>>
  BY DEF Restart, QueueLost, sheetVars
<1>2. Flush' = NoJob /\ NoJob.todo = {}
  <2>1. NoJob.todo = {}
    BY DEF NoJob, NewJob
  <2> QED
    BY <1>1, <2>1 DEF Alone, Flush
<1>3. batch'.upserts = {} /\ batch'.deletes = {}
  BY <1>1 DEF NoBatch
<1>4. PICK g, d, T, j, q, p : /\ g = grid /\ d = db /\ T = ToSet(tabs) /\ j = Flush
                              /\ q = Owed /\ p = Owed'
  OBVIOUS
<1>5. p.lost = suspect' /\ p.open = suspect'
  BY <1>1, <1>3, <1>4 DEF Owed, Pending, Taken
<1>6. TabsInv(g, d, q.lost) /\ q.open = suspect \cup Pending \cup Taken /\ q.lost \subseteq q.open
  <2>1. TabsInv(g, d, q.lost)
    BY <1>4 DEF AloneInv, Sound
  <2>2. q.open = suspect \cup Pending \cup Taken /\ q.lost \subseteq q.open
    BY <1>4 DEF Owed, Pending, Taken
  <2> QED
    BY <2>1, <2>2
<1>7. CASE Rewriting
  <2>1. suspect' = Ids
    BY <1>1, <1>7
  <2>2. TabsInv(g, d, p.lost)
    <3>1. \A t \in Tabs : \A l \in Body(g[t]) : l.id \in Ids
      BY <1>6 DEF TabsInv, Tidy, Body
    <3> QED
      BY <1>5, <1>6, <2>1, <3>1 DEF TabsInv
  <2>3. \A id \in Ids \ p.open : Standing(g, d, id)
    BY <1>5, <2>1
  <2>4. QueueInv'
    BY <1>1, <1>2, <1>3 DEF QueueInv
  <2> QED
    BY <1>1, <1>2, <1>4, <2>2, <2>3, <2>4 DEF AloneInv
<1>8. CASE ~Rewriting
  <2>1. suspect' = q.open
    BY <1>1, <1>6, <1>8
  <2>2. TabsInv(g, d, p.lost)
    BY <1>5, <1>6, <2>1 DEF TabsInv
  <2>3. \A id \in Ids \ q.open : Standing(g, d, id)
    <3>1. CASE j.todo = {}
      BY <1>4, <3>1 DEF AloneInv
    <3>2. CASE j.todo # {}
      <4>1. j.op # "resync"
        BY <1>4, <1>8, <3>2 DEF Rewriting, Idle, Alone, Flush
      <4>2. Sound(g, d, T, j, q)
        BY <1>4, <3>2 DEF AloneInv
      <4> QED
        BY <4>1, <4>2 DEF Sound
    <3> QED
      BY <3>1, <3>2
  <2>4. \A id \in Ids \ p.open : Standing(g, d, id)
    BY <1>5, <2>1, <2>3
  <2>5. QueueInv'
    BY <1>1, <1>2, <1>3 DEF QueueInv
  <2> QED
    BY <1>1, <1>2, <1>4, <2>2, <2>4, <2>5 DEF AloneInv
<1> QED
  BY <1>1, <1>7, <1>8

LEMMA NothingMoves ==
    ASSUME AloneInv, UNCHANGED <<db, enabled, tabs, grid, job, suspect, upserts, deletes, flushing, batch>>
    PROVE  AloneInv'
<1>1. Flush' = Flush /\ Owed' = Owed
  BY DEF Flush, Owed, Pending, Taken
<1>2. QueueInv'
  BY <1>1 DEF AloneInv, QueueInv
<1> QED
  BY <1>1, <1>2 DEF AloneInv

LEMMA AloneStep ==
    ASSUME Alone, SheetInv, SheetInv', QueueTypeOK, OneIntention, PendingIsArmed, TakenIsInFlight,
           AloneInv, [Next]_vars
    PROVE  AloneInv' /\ (UNCHANGED grid \/ Clearing \/ Covers(grid, grid', db'))
<1>1. ASSUME NEW w \in Workers, JobStep(w)
      PROVE  AloneInv' /\ (UNCHANGED grid \/ Clearing \/ Covers(grid, grid', db'))
  <2>1. w = "queue"
    BY DEF Alone
  <2>2. CASE Context("queue") \/ Fetch("queue") \/ CreateTab("queue") \/ CheckHeader("queue") \/ Scan("queue")
    BY <2>2, ContextAlone, FetchAlone, CreateAlone, CheckAlone, ScanAlone
  <2>3. CASE WriteHeader("queue") \/ Update("queue") \/ AppendRows("queue") \/ Drop("queue") \/ Write("queue")
    BY <2>3, HeaderAlone, UpdateAlone, AppendAlone, DropAlone, WriteAlone
  <2>4. CASE Clear("queue")
    BY <2>4, ClearAlone
  <2> QED
    BY <1>1, <2>1, <2>2, <2>3, <2>4 DEF JobStep
<1>2. CASE StartBatch
  BY <1>2, StartAlone
<1>3. CASE FlushDefers /\ UNCHANGED <<db, enabled, sheetVars, job, suspect, envVars>>
  <2>1. UNCHANGED <<db, enabled, tabs, grid, job, suspect, upserts, deletes, flushing, batch>>
    BY <1>3 DEF FlushDefers, sheetVars
  <2> QED
    BY <2>1, NothingMoves
<1>4. CASE StartReconcile \/ StartResync
  BY <1>4 DEF StartReconcile, StartResync, Alone
<1>5. CASE SaveDocument
  BY <1>5, SaveAlone
<1>6. CASE \E t \in Seasons : DeleteSeason(t)
  BY <1>6, SeasonAlone
<1>7. CASE SetEnabled
  BY <1>7 DEF SetEnabled, SheetInv, Alone
<1>8. CASE Restart
  BY <1>8, RestartAlone
<1>9. CASE UNCHANGED vars
  <2>1. UNCHANGED <<db, enabled, tabs, grid, job, suspect, upserts, deletes, flushing, batch>>
    BY <1>9 DEF vars, sheetVars, queueVars
  <2> QED
    BY <2>1, NothingMoves
<1> QED
  BY <1>1, <1>2, <1>3, <1>4, <1>5, <1>6, <1>7, <1>8, <1>9 DEF Next

LEMMA AloneInit ==
    ASSUME Alone, Init
    PROVE  AloneInv
<1>1. Flush.todo = {}
  BY DEF Init, Alone, Flush, NoJob, NewJob
<1>2. enabled /\ tabs # <<>>
  BY DEF Init
<1>3. QueueInv
  BY <1>1 DEF Init, QueueInit, NoBatch, QueueInv
<1>4. \A t \in Tabs : grid[t] = <<>> /\ Tidy(grid[t]) /\ Body(grid[t]) = {}
  BY EmptyTidy DEF Init
<1>5. PICK g, d, q : g = grid /\ d = db /\ q = Owed
  OBVIOUS
<1>6. \A t \in Tabs : Tidy(g[t]) /\ Body(g[t]) = {}
  BY <1>4, <1>5
<1>7. TabsInv(g, d, q.lost)
  BY <1>6 DEF TabsInv
<1>8. \A id \in Ids : Standing(g, d, id)
  <2>1. \A id \in Ids : ~d[id].live
    BY <1>5 DEF Init, NoDoc
  <2> QED
    BY <1>6, <2>1 DEF Standing, Has
<1> QED
  BY <1>1, <1>2, <1>3, <1>5, <1>7, <1>8 DEF AloneInv

-------------------------------------------------------------------------------
(* What that means for what is shown.                                        *)

(* Where tabs g hold a line of a document, and its newest version there.     *)
LinesIn(g, id) == UNION {{<<t, r>> : r \in {r \in DOMAIN g[t] : g[t][r].id = id}} : t \in Tabs}
NewestIn(g, id) == LET vers == {g[p[1]][p[2]].ver : p \in LinesIn(g, id)}
                   IN  CHOOSE v \in vers : \A u \in vers : u <= v

LEMMA LinesBelow ==
    ASSUME NEW g \in [Tabs -> Sheets], \A t \in Tabs : Tidy(g[t]), NEW id \in Ids
    PROVE  \A p : p \in LinesIn(g, id) <=>
              \E t \in Tabs : \E r \in 2 .. Len(g[t]) : p = <<t, r>> /\ g[t][r].id = id
<1>1. ASSUME NEW t \in Tabs, NEW r, r \in DOMAIN g[t], g[t][r].id = id
      PROVE  r \in 2 .. Len(g[t])
  <2>1. PICK L : L = g[t]
    OBVIOUS
  <2>2. L \in Sheets /\ Tidy(L)
    BY <2>1
  <2>3. Len(L) \in Nat /\ DOMAIN L = 1 .. Len(L)
    BY <2>2, SheetLines
  <2>4. r # 1
    <3>1. ASSUME r = 1  PROVE FALSE
      <4>1. L # <<>>
        BY <1>1, <2>1, EmptySeq
      <4>2. L[1].id = Label
        BY <2>2, <4>1 DEF Tidy
      <4>3. Label \notin Ids
        BY MirrorAssumption DEF Label
      <4> QED
        BY <1>1, <2>1, <3>1, <4>2, <4>3
    <3> QED
      BY <3>1
  <2> QED
    BY <1>1, <2>1, <2>3, <2>4
<1>2. ASSUME NEW t \in Tabs, NEW r \in 2 .. Len(g[t])  PROVE r \in DOMAIN g[t]
  <2>1. g[t] \in Sheets
    OBVIOUS
  <2>2. Len(g[t]) \in Nat /\ DOMAIN g[t] = 1 .. Len(g[t])
    BY <2>1, SheetLines
  <2> QED
    BY <2>2
<1> QED
  BY <1>1, <1>2 DEF LinesIn

LEMMA LinesShown ==
    ASSUME NEW g \in [Tabs -> Sheets], \A t \in Tabs : Tidy(g[t]), NEW id \in Ids
    PROVE  LinesIn(g, id) # {} <=> \E t \in Tabs : Has(g, t, id)
<1>1. \A p : p \in LinesIn(g, id) <=>
         \E t \in Tabs : \E r \in 2 .. Len(g[t]) : p = <<t, r>> /\ g[t][r].id = id
  BY LinesBelow
<1>2. \A t : Has(g, t, id) <=> \E r \in 2 .. Len(g[t]) : g[t][r].id = id
  BY DEF Has, Body
<1>3. ASSUME LinesIn(g, id) # {}  PROVE \E t \in Tabs : Has(g, t, id)
  <2>1. PICK p : p \in LinesIn(g, id)
    BY <1>3
  <2> QED
    BY <1>1, <1>2, <2>1
<1>4. ASSUME NEW t \in Tabs, Has(g, t, id)  PROVE LinesIn(g, id) # {}
  <2>1. PICK r \in 2 .. Len(g[t]) : g[t][r].id = id
    BY <1>2, <1>4
  <2>2. <<t, r>> \in LinesIn(g, id)
    BY <1>1, <2>1
  <2> QED
    BY <2>2
<1> QED
  BY <1>3, <1>4

(* The newest version is one that is shown, and none that is shown is newer. *)
LEMMA NewestShown ==
    ASSUME NEW g \in [Tabs -> Sheets], \A t \in Tabs : Tidy(g[t]), NEW id \in Ids,
           LinesIn(g, id) # {}
    PROVE  /\ NewestIn(g, id) \in Nat
           /\ \E t \in Tabs : \E l \in Body(g[t]) : l.id = id /\ l.ver = NewestIn(g, id)
           /\ \A t \in Tabs : \A l \in Body(g[t]) : l.id = id => l.ver <= NewestIn(g, id)
<1>1. \A p : p \in LinesIn(g, id) <=>
         \E t \in Tabs : \E r \in 2 .. Len(g[t]) : p = <<t, r>> /\ g[t][r].id = id
  BY LinesBelow
<1>2. PICK vers : vers = {g[p[1]][p[2]].ver : p \in LinesIn(g, id)}
  OBVIOUS
<1>3. ASSUME NEW t \in Tabs, NEW r \in 2 .. Len(g[t]), g[t][r].id = id
      PROVE  g[t][r].ver \in vers
  <2>1. PICK p : p = <<t, r>>
    OBVIOUS
  <2>2. p \in LinesIn(g, id) /\ p[1] = t /\ p[2] = r
    BY <1>1, <1>3, <2>1
  <2> QED
    BY <1>2, <2>2
<1>4. ASSUME NEW v \in vers
      PROVE  \E t \in Tabs : \E r \in 2 .. Len(g[t]) : g[t][r].id = id /\ g[t][r].ver = v
  <2>1. PICK p \in LinesIn(g, id) : v = g[p[1]][p[2]].ver
    BY <1>2
  <2>a. PICK t \in Tabs : \E r \in 2 .. Len(g[t]) : p = <<t, r>> /\ g[t][r].id = id
    BY <1>1, <2>1
  <2>2. PICK r \in 2 .. Len(g[t]) : p = <<t, r>> /\ g[t][r].id = id
    BY <2>a
  <2>3. p[1] = t /\ p[2] = r
    BY <2>2
  <2> QED
    BY <2>1, <2>2, <2>3
<1>5. MaxEdits \in Nat /\ \A v \in vers : v \in Nat /\ v <= MaxEdits
  <2>1. MaxEdits \in Nat
    BY MirrorAssumption
  <2>2. ASSUME NEW v \in vers  PROVE v \in 0 .. MaxEdits
    <3>a. PICK t \in Tabs : \E r \in 2 .. Len(g[t]) : g[t][r].ver = v
      BY <1>4
    <3>1. PICK r \in 2 .. Len(g[t]) : g[t][r].ver = v
      BY <3>a
    <3>2. g[t] \in Sheets
      OBVIOUS
    <3>3. Len(g[t]) \in Nat /\ \A n \in 1 .. Len(g[t]) : g[t][n] \in LineSet
      BY <3>2, SheetLines
    <3>4. g[t][r] \in LineSet
      BY <3>3
    <3> QED
      BY <3>1, <3>4 DEF LineSet
  <2> QED
    BY <2>1, <2>2
<1>6. vers # {}
  BY <1>2
<1>7. \E v \in vers : \A u \in vers : u <= v
  BY <1>5, <1>6, GreatestBelow
<1>8. PICK v : v = CHOOSE x \in vers : \A u \in vers : u <= x
  OBVIOUS
<1>9. v \in vers /\ \A u \in vers : u <= v
  BY <1>7, <1>8
<1>10. NewestIn(g, id) = v
  BY <1>2, <1>8 DEF NewestIn
<1>11. \E t \in Tabs : \E l \in Body(g[t]) : l.id = id /\ l.ver = v
  <2>a. PICK t \in Tabs : \E r \in 2 .. Len(g[t]) : g[t][r].id = id /\ g[t][r].ver = v
    BY <1>4, <1>9
  <2>1. PICK r \in 2 .. Len(g[t]) : g[t][r].id = id /\ g[t][r].ver = v
    BY <2>a
  <2>2. g[t][r] \in Body(g[t])
    BY DEF Body
  <2> QED
    BY <2>1, <2>2
<1>12. ASSUME NEW t \in Tabs, NEW l \in Body(g[t]), l.id = id  PROVE l.ver <= v
  <2>1. PICK r \in 2 .. Len(g[t]) : l = g[t][r]
    BY DEF Body
  <2> QED
    BY <1>3, <1>9, <1>12, <2>1
<1> QED
  BY <1>5, <1>9, <1>10, <1>11, <1>12

LEMMA StandingInPlace ==
    ASSUME SheetInv, \A t \in Tabs : Tidy(grid[t]), NEW id \in Ids, Standing(grid, db, id)
    PROVE  InPlace(id)
<1>1. PICK g : g = grid
  OBVIOUS
<1>2. g \in [Tabs -> Sheets] /\ (\A t \in Tabs : Tidy(g[t])) /\ LinesIn(g, id) = LinesOf(id)
  BY <1>1 DEF SheetInv, LinesIn, LinesOf
<1>3. \A p : p \in LinesIn(g, id) <=>
         \E t \in Tabs : \E r \in 2 .. Len(g[t]) : p = <<t, r>> /\ g[t][r].id = id
  BY <1>2, LinesBelow
<1>4. CASE ~db[id].live
  <2>1. \A t \in Tabs : ~Has(g, t, id)
    BY <1>1, <1>4 DEF Standing
  <2>2. LinesIn(g, id) = {}
    BY <1>2, <2>1, LinesShown
  <2> QED
    BY <1>2, <1>4, <2>2 DEF InPlace
<1>5. CASE db[id].live
  <2>1. PICK s, L : s = db[id].season /\ L = g[s]
    OBVIOUS
  <2>2. s \in Tabs
    BY <1>5, <2>1 DEF SheetInv, SeasonDocs, Tabs
  <2>3. Shows(g, s, id, db[id].ver) /\ \A t \in Tabs : t # s => ~Has(g, t, id)
    BY <1>1, <1>5, <2>1 DEF Standing
  <2>4. PICK r \in 2 .. Len(L) : L[r].id = id /\ L[r].ver = db[id].ver
    BY <2>1, <2>3 DEF Shows, Body
  <2>5. ASSUME NEW p \in LinesIn(g, id)  PROVE p = <<s, r>>
    <3>1. PICK t \in Tabs : \E n \in 2 .. Len(g[t]) : p = <<t, n>> /\ g[t][n].id = id
      BY <1>3
    <3>2. PICK n \in 2 .. Len(g[t]) : p = <<t, n>> /\ g[t][n].id = id
      BY <3>1
    <3>3. Has(g, t, id)
      BY <3>2 DEF Has, Body
    <3>4. t = s
      BY <2>3, <3>3
    <3>5. n = r
      BY <1>2, <2>1, <2>2, <2>4, <3>2, <3>4 DEF Tidy
    <3> QED
      BY <3>2, <3>4, <3>5
  <2>6. <<s, r>> \in LinesIn(g, id)
    BY <1>3, <2>1, <2>2, <2>4
  <2>7. LinesOf(id) = {<<s, r>>}
    BY <1>2, <2>5, <2>6
  <2>8. Cardinality(LinesOf(id)) = 1
    BY <2>7, FS_Singleton, Zenon
  <2>9. L # <<>>
    <3>1. L \in Sheets
      BY <1>2, <2>1, <2>2
    <3>2. ASSUME L = <<>>  PROVE FALSE
      <4>1. Len(<<>>) = 0 /\ 2 .. 0 = {}
        BY EmptySeq
      <4> QED
        BY <2>4, <3>2, <4>1
    <3> QED
      BY <3>2
  <2>10. Owned(s)
    BY <1>1, <1>2, <2>1, <2>2, <2>9 DEF Owned, Row1, Tidy
  <2>11. PlacesIn(s) = Scanned(L, s)
    <3>1. grid \in [Tabs -> Sheets] /\ Tidy(grid[s])
      BY <1>1, <1>2, <2>2
    <3>2. (IF Owned(s) THEN PlacesIn(s) ELSE {}) = Scanned(grid[s], s)
      BY <2>2, <3>1, TidyReads
    <3> QED
      BY <1>1, <2>1, <2>10, <3>2
  <2>12. \E p \in PlacesIn(s) : p.id = id /\ p.ver = db[id].ver
    <3>1. [id |-> L[r].id, tab |-> s, row |-> r, ver |-> L[r].ver] \in PlacesIn(s)
      BY <2>11 DEF Scanned
    <3> QED
      BY <2>4, <3>1
  <2> QED
    BY <1>5, <2>1, <2>8, <2>10, <2>12 DEF InPlace
<1> QED
  BY <1>4, <1>5

LEMMA AloneTidy ==
    ASSUME AloneInv
    PROVE  \A t \in Tabs : Tidy(grid[t])
BY DEF AloneInv, Sound, TabsInv

LEMMA AloneAligned ==
    ASSUME SheetInv, AloneInv
    PROVE  Aligned
<1>1. ASSUME NEW t \in Tabs, NEW r \in DOMAIN grid[t]
      PROVE  grid[t][r].layout = grid[t][1].layout
  <2>1. PICK L : L = grid[t]
    OBVIOUS
  <2>2. L \in Sheets /\ Tidy(L)
    BY <2>1, AloneTidy DEF SheetInv
  <2>3. Len(L) \in Nat /\ DOMAIN L = 1 .. Len(L)
    BY <2>2, SheetLines
  <2>4. r = 1 \/ r \in 2 .. Len(L)
    BY <2>1, <2>3
  <2> QED
    BY <2>1, <2>2, <2>4 DEF Tidy
<1> QED
  BY <1>1 DEF Aligned

LEMMA AloneAccounted ==
    ASSUME Alone, SheetInv, AloneInv
    PROVE  DriftAccounted
<1>1. ASSUME NEW id \in Ids, id \notin Pending \cup Taken \cup suspect, ~Rewriting
      PROVE  InPlace(id)
  <2>1. id \in Ids \ Owed.open
    BY <1>1 DEF Owed
  <2>2. Standing(grid, db, id)
    <3>1. CASE Flush.todo = {}
      BY <2>1, <3>1 DEF AloneInv
    <3>2. CASE Flush.todo # {}
      <4>1. Flush.op # "resync"
        BY <1>1, <3>2 DEF Rewriting, Idle, Alone, Flush
      <4>2. Sound(grid, db, ToSet(tabs), Flush, Owed)
        BY <3>2 DEF AloneInv
      <4> QED
        BY <2>1, <4>1, <4>2 DEF Sound
    <3> QED
      BY <3>1, <3>2
  <2> QED
    BY <2>2, AloneTidy, StandingInPlace
<1> QED
  BY <1>1 DEF DriftAccounted

(* One step: what is shown of a document stays shown, no older.              *)
LEMMA ShownOn ==
    ASSUME NEW g \in [Tabs -> Sheets], \A t \in Tabs : Tidy(g[t]),
           NEW h \in [Tabs -> Sheets], \A t \in Tabs : Tidy(h[t]),
           NEW d, h = g \/ Covers(g, h, d), NEW id \in Ids, d[id].live, LinesIn(g, id) # {}
    PROVE  LinesIn(h, id) # {} /\ NewestIn(h, id) >= NewestIn(g, id)
<1>1. /\ NewestIn(g, id) \in Nat
      /\ \E t \in Tabs : \E l \in Body(g[t]) : l.id = id /\ l.ver = NewestIn(g, id)
  BY NewestShown
<1>2. CASE h = g
  BY <1>1, <1>2
<1>3. CASE Covers(g, h, d)
  <2>1. PICK t \in Tabs : \E l \in Body(g[t]) : l.id = id /\ l.ver = NewestIn(g, id)
    BY <1>1
  <2>2. PICK l \in Body(g[t]) : l.id = id /\ l.ver = NewestIn(g, id)
    BY <2>1
  <2>3. PICK u \in Tabs : \E m \in Body(h[u]) : m.id = l.id /\ m.ver >= l.ver
    BY <1>3, <2>2 DEF Covers
  <2>4. PICK m \in Body(h[u]) : m.id = id /\ m.ver >= l.ver
    BY <2>2, <2>3
  <2>5. LinesIn(h, id) # {}
    <3>1. Has(h, u, id)
      BY <2>4 DEF Has
    <3> QED
      BY <3>1, LinesShown
  <2>6. NewestIn(h, id) \in Nat /\ m.ver <= NewestIn(h, id)
    BY <2>4, <2>5, NewestShown
  <2>7. m.ver \in Nat
    <3>1. PICK L, r : L = h[u] /\ r \in 2 .. Len(L) /\ m = L[r]
      BY <2>4 DEF Body
    <3>2. L \in Sheets
      BY <3>1
    <3>3. Len(L) \in Nat /\ \A n \in 1 .. Len(L) : L[n] \in LineSet
      BY <3>2, SheetLines
    <3>a. r \in 1 .. Len(L)
      BY <3>1, <3>3
    <3>4. m \in LineSet /\ MaxEdits \in Nat
      BY <3>1, <3>3, <3>a, MirrorAssumption
    <3> QED
      BY <3>4 DEF LineSet
  <2> QED
    BY <1>1, <2>2, <2>4, <2>5, <2>6, <2>7
<1> QED
  BY <1>2, <1>3

LEMMA ShownStep ==
    ASSUME Alone, SheetInv, SheetInv', QueueTypeOK, OneIntention, PendingIsArmed, TakenIsInFlight,
           AloneInv, [Next]_vars, NEW id \in Ids, Shown(id), db'[id].live
    PROVE  Clearing \/ (Shown(id)' /\ Newest(id)' >= Newest(id))
<1>1. AloneInv' /\ (UNCHANGED grid \/ Clearing \/ Covers(grid, grid', db'))
  BY AloneStep
<1>2. PICK g, h, d : g = grid /\ h = grid' /\ d = db'
  OBVIOUS
<1>3. g \in [Tabs -> Sheets] /\ h \in [Tabs -> Sheets]
  BY <1>2 DEF SheetInv
<1>4. (\A t \in Tabs : Tidy(g[t])) /\ (\A t \in Tabs : Tidy(h[t]))
  <2>1. \A t \in Tabs : Tidy(g[t])
    BY <1>2, AloneTidy
  <2>2. \A t \in Tabs : Tidy(h[t])
    BY <1>1, <1>2 DEF AloneInv, Sound, TabsInv
  <2> QED
    BY <2>1, <2>2
<1>5. /\ LinesOf(id) = LinesIn(g, id) /\ LinesOf(id)' = LinesIn(h, id)
      /\ Newest(id) = NewestIn(g, id) /\ Newest(id)' = NewestIn(h, id)
  <2>1. LinesOf(id) = LinesIn(g, id) /\ LinesOf(id)' = LinesIn(h, id)
    BY <1>2 DEF LinesOf, LinesIn
  <2>2. Newest(id) = NewestIn(g, id)
    BY <1>2, <2>1 DEF Newest, NewestIn
  <2>3. Newest(id)' = NewestIn(h, id)
    BY <1>2, <2>1 DEF Newest, NewestIn
  <2> QED
    BY <2>1, <2>2, <2>3
<1>6. LinesIn(g, id) # {} /\ d[id].live
  BY <1>2, <1>5 DEF Shown
<1>7. CASE h = g \/ Covers(g, h, d)
  <2>1. LinesIn(h, id) # {} /\ NewestIn(h, id) >= NewestIn(g, id)
    BY <1>3, <1>4, <1>6, <1>7, ShownOn
  <2> QED
    BY <1>5, <2>1 DEF Shown
<1> QED
  BY <1>1, <1>2, <1>7

LEMMA QueueFacts ==
    Spec => [](QueueTypeOK /\ OneIntention /\ PendingIsArmed /\ TakenIsInFlight)
BY MirrorKeepsQueue, QueueTypes, OneIntentionAlways, PendingIsArmedAlways, TakenIsInFlightAlways, PTL

LEMMA AloneAlways ==
    ASSUME Alone
    PROVE  Spec => []AloneInv
<1>1. Init => AloneInv
  BY AloneInit
<1>2. SheetInv /\ SheetInv' /\ QueueTypeOK /\ OneIntention /\ PendingIsArmed /\ TakenIsInFlight
        /\ AloneInv /\ [Next]_vars => AloneInv'
  BY AloneStep
<1> QED
  BY <1>1, <1>2, QueueFacts, SheetAlways, PTL DEF Spec

(* While only the queue writes, the lines of a tab are in the header's       *)
(* columns, whatever fails and whenever the column set changes: a flush that *)
(* meets another header rewrites every tab (sheets-sync.ts).                 *)
THEOREM AloneKeepsAligned ==
    ASSUME Alone
    PROVE  Spec => []Aligned
<1>1. SheetInv /\ AloneInv => Aligned
  BY AloneAligned
<1> QED
  BY <1>1, AloneAlways, SheetAlways, PTL

(* While only the queue writes, a document that is out of place waits in the *)
(* queue, is in the flush in flight, or is one of which a failed flush, a    *)
(* restart or a bulk delete is known to have lost the work.                  *)
THEOREM AloneAccountsForDrift ==
    ASSUME Alone
    PROVE  Spec => []DriftAccounted
<1>1. SheetInv /\ AloneInv => DriftAccounted
  BY AloneAccounted
<1> QED
  BY <1>1, AloneAlways, SheetAlways, PTL

(* While only the queue writes, a document in the database never leaves the  *)
(* sheet, except while a full rewrite has a tab cleared: inserts come before *)
(* deletes, and a failed write takes the deletes off the list.               *)
THEOREM AloneNeverNowhere ==
    ASSUME Alone
    PROVE  Spec => NeverNowhere
<1>1. SheetInv /\ SheetInv' /\ QueueTypeOK /\ OneIntention /\ PendingIsArmed /\ TakenIsInFlight
        /\ AloneInv /\ [Next]_vars =>
          [\A id \in Ids : Shown(id) /\ db'[id].live => Shown(id)' \/ Clearing]_vars
  BY ShownStep
<1> QED
  BY <1>1, AloneAlways, QueueFacts, SheetAlways, PTL DEF Spec, NeverNowhere

(* While only the queue writes, the newest version shown of a document never *)
(* goes back, except while a full rewrite has a tab cleared: a job writes    *)
(* the rows it read, and no line is newer than those.                        *)
THEOREM AloneNeverGoesBack ==
    ASSUME Alone
    PROVE  Spec => NeverGoesBack
<1>1. SheetInv /\ SheetInv' /\ QueueTypeOK /\ OneIntention /\ PendingIsArmed /\ TakenIsInFlight
        /\ AloneInv /\ [Next]_vars =>
          [\A id \in Ids : Shown(id) /\ Shown(id)' /\ db'[id].live =>
             Newest(id)' >= Newest(id) \/ Clearing]_vars
  BY ShownStep
<1> QED
  BY <1>1, AloneAlways, QueueFacts, SheetAlways, PTL DEF Spec, NeverGoesBack
===============================================================================
