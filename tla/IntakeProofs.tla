------------------------------ MODULE IntakeProofs ------------------------------
(*****************************************************************************)
(* Proofs about the intake, for any number of submits, drafts, seasons,      *)
(* retries, changes of the settings and faults.                              *)
(*                                                                           *)
(* A candidate is free when it is worked out. It is taken later only because *)
(* another submit inserted it in between, and that insertion was counted:    *)
(* a submit holding a taken candidate was beaten once more than it retried.  *)
(*                                                                           *)
(* The cap is read before the job is stored. What bounds it is to count with *)
(* the jobs of a family those submits that have counted and not yet queued.  *)
(*****************************************************************************)
EXTENDS Intake, FiniteSetTheorems, SequenceTheorems, TLAPS

USE IntakeAssumption DEF NoKey, NoSeason, NoSlug

(* Where a request stands: nothing of it is stored before its insertion, and *)
(* it is answered only at its end.                                           *)
Phases ==
    /\ \A p \in rows : pc[p] \in {"count", "queue", "done"}
    /\ \A p, q \in Submits : p \in known[q] => pc[p] \in {"count", "queue", "done"}
    /\ \A p \in Submits : pc[p] # "done" => answer[p] = "none"
    /\ \A p \in Submits : pc[p] \in {"new", "repeat"} => retries[p] = 0

(* What a submit still allocating has lost so far.                           *)
Losses ==
    \A p \in Submits :
      /\ Allocating(p) => retries[p] <= MaxRetries /\ retries[p] <= beaten[p]
      /\ pc[p] = "insert" /\ seq[p] \in Numbers(year[p]) => retries[p] < beaten[p]

(* A candidate is above everything that was stored when its submit arrived.  *)
Above ==
    \A q \in Submits : pc[q] = "insert" =>
      \A p \in known[q] \cap rows : year[p] = year[q] => seq[p] < seq[q]

OutOfWindow(p) == \A n \in DOMAIN recent : recent[n] # p

(* A submit that is past the lookup would not have found its draft.          *)
NotFound ==
    \A q \in Submits : Allocating(q) =>
      \A p \in known[q] \cap rows :
         draft[p] = draft[q] => draft[q] = NoKey \/ q \in excused \/ OutOfWindow(p)

NoJobYet ==
    \A p \in Submits : pc[p] # "done" => jobs[p] = 0

IInv ==
    /\ TypeOK /\ Phases
    /\ Losses /\ ClashOnlyWhenBeaten
    /\ Above /\ LaterIsHigher
    /\ NotFound /\ RepeatStoredOnce
    /\ NoJobYet /\ OneJobEach

-------------------------------------------------------------------------------
LEMMA InitEstablishes == Init => IInv
<1> SUFFICES ASSUME Init PROVE IInv
  OBVIOUS
<1>1. (CHOOSE y \in Years : TRUE) \in Years
  OBVIOUS
<1>2. TypeOK
  BY <1>1 DEF Init, TypeOK, Answers
<1>3. Phases /\ Losses /\ Above /\ NotFound /\ NoJobYet
  BY DEF Init, Phases, Losses, Above, NotFound, NoJobYet, Allocating
<1>4. ClashOnlyWhenBeaten /\ LaterIsHigher /\ RepeatStoredOnce /\ OneJobEach
  BY DEF Init, ClashOnlyWhenBeaten, LaterIsHigher, RepeatStoredOnce, OneJobEach
<1> QED
  BY <1>2, <1>3, <1>4 DEF IInv

(* Reading the numbers either ends the submit or gives it a candidate.       *)
LEMMA ReadNumbersDoes ==
    ASSUME NEW p \in Submits, ReadNumbers(p)
    PROVE  \/ Answered(p, "range") /\ UNCHANGED seq
           \/ \E n \in 1 .. MaxSeq : /\ NextCandidate(p, n)
                                    /\ Goes(p, "insert")
                                    /\ seq' = [seq EXCEPT ![p] = n]
BY DEF ReadNumbers, OutOfRange

LEMMA TypeKept == TypeOK /\ Phases /\ Losses /\ [Next]_vars => TypeOK'
<1> SUFFICES ASSUME TypeOK, Phases, Losses, [Next]_vars PROVE TypeOK'
  OBVIOUS
<1> USE DEF TypeOK, Steps, Answers, Goes, Answered, Faults, request, history
<1>1. ASSUME NEW p \in Submits, Arrive(p) PROVE TypeOK'
  <2>1. \A slug \in Schools \cup {NoSlug} :
          ResolveContext(slug) \in {"ok", "closed", "unknown-school", "choose-school"}
    BY DEF ResolveContext, PickSchool
  <2>2. \A slug \in Schools \cup {NoSlug} : ResolveContext(slug) = "ok" => site.season \in Years
    BY DEF ResolveContext
  <2>3. CASE Answered(p, "invalid") /\ UNCHANGED year
    BY <1>1, <2>3 DEF Arrive
  <2>4. ASSUME NEW slug \in Schools \cup {NoSlug}, ResolveContext(slug) # "ok",
               Answered(p, ResolveContext(slug)), UNCHANGED year
        PROVE  TypeOK'
    BY <1>1, <2>1, <2>4 DEF Arrive
  <2>5. ASSUME NEW slug \in Schools \cup {NoSlug}, ResolveContext(slug) = "ok",
               year' = [year EXCEPT ![p] = site.season],
               Goes(p, IF draft[p] = NoKey THEN "read" ELSE "repeat")
        PROVE  TypeOK'
    BY <1>1, <2>2, <2>5 DEF Arrive
  <2> QED
    BY <1>1, <2>3, <2>4, <2>5 DEF Arrive
<1>2. ASSUME NEW p \in Submits, FindRepeat(p) \/ FindRepeatFails(p) \/ CallFails(p) PROVE TypeOK'
  <2>1. CASE FindRepeat(p)
    BY <2>1 DEF FindRepeat
  <2>2. CASE FindRepeatFails(p)
    BY <2>2 DEF FindRepeatFails
  <2>3. CASE CallFails(p)
    BY <2>3 DEF CallFails
  <2> QED
    BY <1>2, <2>1, <2>2, <2>3
<1>3. ASSUME NEW p \in Submits, ReadNumbers(p) PROVE TypeOK'
  <2>1. CASE Answered(p, "range") /\ UNCHANGED seq
    BY <1>3, <2>1 DEF ReadNumbers
  <2>2. ASSUME NEW n \in 1 .. MaxSeq, Goes(p, "insert"), seq' = [seq EXCEPT ![p] = n]
        PROVE  TypeOK'
    BY <1>3, <2>2 DEF ReadNumbers
  <2> QED
    BY <1>3, <2>1, <2>2, ReadNumbersDoes
<1>4. ASSUME NEW p \in Submits, Insert(p) PROVE TypeOK'
  <2>1. retries[p] <= MaxRetries
    BY <1>4 DEF Insert, Losses, Allocating
  <2>2. CASE Stores(p) /\ Goes(p, "count") /\ UNCHANGED retries
    BY <1>4, <2>2, AppendProperties DEF Insert, Stores
  <2>3. CASE Clashes(p) /\ UNCHANGED <<rows, recent, beaten>>
    <3>1. retries' \in [Submits -> 0 .. MaxRetries + 1]
      BY <2>1, <2>3 DEF Clashes
    <3>2. pc' \in [Submits -> Steps \cup {"new", "done"}] /\ answer' \in [Submits -> Answers]
      BY <2>3 DEF Clashes
    <3> QED
      BY <1>4, <2>3, <3>1, <3>2 DEF Insert
  <2> QED
    BY <1>4, <2>2, <2>3 DEF Insert
<1>5. ASSUME NEW p \in Submits, InsertUnanswered(p) PROVE TypeOK'
  BY <1>5, AppendProperties DEF InsertUnanswered, Stores
<1>6. ASSUME NEW p \in Submits, CountJobs(p) \/ QueueEmail(p) \/ QueueEmailFails(p) PROVE TypeOK'
  <2>1. CASE CountJobs(p)
    BY <2>1 DEF CountJobs
  <2>2. CASE QueueEmail(p)
    BY <2>2 DEF QueueEmail
  <2>3. CASE QueueEmailFails(p)
    BY <2>3 DEF QueueEmailFails
  <2> QED
    BY <1>6, <2>1, <2>2, <2>3
<1>7. ASSUME NEW p \in Submits, Delete(p) PROVE TypeOK'
  BY <1>7 DEF Delete
<1>8. CASE TimePasses
  BY <1>8, HeadTailProperties DEF TimePasses
<1>9. CASE ChangeSettings
  BY <1>9 DEF ChangeSettings
<1>10. CASE Restart
  BY <1>10 DEF Restart, UnderWay
<1>11. CASE UNCHANGED vars
  BY <1>11 DEF vars
<1> QED
  BY <1>1, <1>2, <1>3, <1>4, <1>5, <1>6, <1>7, <1>8, <1>9, <1>10, <1>11 DEF Next, Step

LEMMA PhasesKept == TypeOK /\ Phases /\ [Next]_vars => Phases'
<1> SUFFICES ASSUME TypeOK, Phases, [Next]_vars PROVE Phases'
  OBVIOUS
<1> USE DEF TypeOK, Phases, Goes, Answered, Faults, request, history
<1>1. ASSUME NEW p \in Submits, Arrive(p) PROVE Phases'
  <2>1. \A q \in Submits : q # p => pc'[q] = pc[q] /\ answer'[q] = answer[q] /\ known'[q] = known[q]
    BY <1>1 DEF Arrive
  <2>2. /\ known'[p] = rows /\ p \notin rows /\ \A q \in Submits : p \notin known[q]
        /\ UNCHANGED <<rows, retries>> /\ retries[p] = 0
    BY <1>1 DEF Arrive
  <2>3. pc'[p] \in {"read", "repeat", "done"} /\ (pc'[p] # "done" => answer'[p] = "none")
    <3>1. pc[p] # "done" /\ answer[p] = "none"
      BY <1>1 DEF Arrive
    <3> QED
      BY <1>1, <3>1 DEF Arrive
  <2>4. \A r \in rows' : pc'[r] \in {"count", "queue", "done"}
    BY <2>1, <2>2
  <2>5. \A r, q \in Submits : r \in known'[q] => pc'[r] \in {"count", "queue", "done"}
    <3>1. ASSUME NEW r \in Submits, NEW q \in Submits, r \in known'[q]
          PROVE  pc'[r] \in {"count", "queue", "done"}
      <4>1. CASE q = p
        <5>1. r \in rows /\ r # p
          BY <3>1, <4>1, <2>2
        <5> QED
          BY <5>1, <2>1, <2>2
      <4>2. CASE q # p
        <5>1. r \in known[q] /\ r # p
          BY <3>1, <4>2, <2>1, <2>2
        <5> QED
          BY <5>1, <2>1
      <4> QED
        BY <4>1, <4>2
    <3> QED
      BY <3>1
  <2>6. \A q \in Submits : /\ pc'[q] # "done" => answer'[q] = "none"
                           /\ pc'[q] \in {"new", "repeat"} => retries'[q] = 0
    BY <2>1, <2>2, <2>3
  <2> QED
    BY <2>4, <2>5, <2>6
<1>2. ASSUME NEW p \in Submits, FindRepeat(p) PROVE Phases'
  BY <1>2 DEF FindRepeat
<1>3. ASSUME NEW p \in Submits, FindRepeatFails(p) PROVE Phases'
  BY <1>3 DEF FindRepeatFails
<1>4. ASSUME NEW p \in Submits, CallFails(p) PROVE Phases'
  BY <1>4 DEF CallFails
<1>5. ASSUME NEW p \in Submits, ReadNumbers(p) PROVE Phases'
  <2>1. CASE Answered(p, "range") /\ UNCHANGED seq
    BY <1>5, <2>1 DEF ReadNumbers
  <2>2. CASE Goes(p, "insert")
    BY <1>5, <2>2 DEF ReadNumbers
  <2> QED
    BY <1>5, <2>1, <2>2, ReadNumbersDoes
<1>6. ASSUME NEW p \in Submits, Insert(p) PROVE Phases'
  <2>1. CASE Stores(p) /\ Goes(p, "count") /\ UNCHANGED retries
    BY <1>6, <2>1 DEF Insert, Stores
  <2>2. CASE Clashes(p) /\ UNCHANGED <<rows, recent, beaten>>
    BY <1>6, <2>2 DEF Insert, Clashes
  <2> QED
    BY <1>6, <2>1, <2>2 DEF Insert
<1>7. ASSUME NEW p \in Submits, InsertUnanswered(p) PROVE Phases'
  BY <1>7 DEF InsertUnanswered, Stores
<1>8. ASSUME NEW p \in Submits, CountJobs(p) PROVE Phases'
  BY <1>8 DEF CountJobs
<1>9. ASSUME NEW p \in Submits, QueueEmail(p) PROVE Phases'
  BY <1>9 DEF QueueEmail
<1>10. ASSUME NEW p \in Submits, QueueEmailFails(p) PROVE Phases'
  BY <1>10 DEF QueueEmailFails
<1>11. ASSUME NEW p \in Submits, Delete(p) PROVE Phases'
  BY <1>11 DEF Delete
<1>12. CASE TimePasses
  BY <1>12 DEF TimePasses
<1>13. CASE ChangeSettings
  BY <1>13 DEF ChangeSettings
<1>14. CASE Restart
  BY <1>14 DEF Restart, UnderWay, Steps
<1>15. CASE UNCHANGED vars
  BY <1>15 DEF vars
<1> QED
  BY <1>1, <1>2, <1>3, <1>4, <1>5, <1>6, <1>7, <1>8, <1>9, <1>10, <1>11, <1>12, <1>13, <1>14, <1>15 DEF Next, Step

-------------------------------------------------------------------------------
(* A candidate is above every number in use, so it is free when worked out.  *)
LEMMA CandidateAbove ==
    ASSUME TypeOK, NEW p \in Submits, NEW n, NextCandidate(p, n)
    PROVE  \A m \in Numbers(year[p]) : m < n
<1>1. PICK h \in 0 .. MaxSeq : /\ \A m \in Numbers(year[p]) : m <= h
                               /\ n = IF seq[p] > h THEN seq[p] + 1 ELSE h + 1
  BY DEF NextCandidate, IsHighest
<1>2. \A m \in Numbers(year[p]) : m \in Nat
  BY DEF Numbers, TypeOK
<1>3. seq[p] \in Nat
  BY DEF TypeOK
<1> QED
  BY <1>1, <1>2, <1>3

(* What does not insert a row leaves every submit's losses accounted for.    *)
LEMMA LossesFrame ==
    ASSUME TypeOK, Losses,
           rows' \subseteq rows,
           \A r \in rows' : seq'[r] = seq[r] /\ year'[r] = year[r],
           UNCHANGED <<retries, beaten>>,
           \A q \in Submits :
             \/ pc'[q] \notin {"read", "insert"}
             \/ pc'[q] = pc[q] /\ seq'[q] = seq[q] /\ year'[q] = year[q]
             \/ pc'[q] = "read" /\ retries[q] = 0
    PROVE  Losses'
<1> SUFFICES ASSUME NEW q \in Submits
             PROVE  /\ Allocating(q)' => retries'[q] <= MaxRetries /\ retries'[q] <= beaten'[q]
                    /\ pc'[q] = "insert" /\ seq'[q] \in Numbers(year[q])' => retries'[q] < beaten'[q]
  BY DEF Losses
<1>1. Numbers(year[q])' \subseteq Numbers(year'[q])
  BY DEF Numbers
<1>2. beaten[q] \in Nat
  BY DEF TypeOK
<1> QED
  BY <1>1, <1>2 DEF Losses, Allocating

(* A stored row may take the candidate of others: each of them is beaten.    *)
LEMMA LossesOfStore ==
    ASSUME TypeOK, Losses, NEW p \in Submits, Stores(p),
           UNCHANGED <<seq, year, retries>>,
           pc'[p] \notin {"read", "insert"},
           \A q \in Submits : q # p => pc'[q] = pc[q]
    PROVE  Losses'
<1> SUFFICES ASSUME NEW q \in Submits
             PROVE  /\ Allocating(q)' => retries'[q] <= MaxRetries /\ retries'[q] <= beaten'[q]
                    /\ pc'[q] = "insert" /\ seq'[q] \in Numbers(year[q])' => retries'[q] < beaten'[q]
  BY DEF Losses
<1>1. CASE q = p
  BY <1>1 DEF Allocating
<1>2. CASE q # p /\ Allocating(q)
  <2>1. retries[q] <= MaxRetries /\ retries[q] <= beaten[q] /\ pc'[q] = pc[q]
    BY <1>2 DEF Losses
  <2>2. beaten[q] \in Nat /\ retries[q] \in Nat
    BY DEF TypeOK
  <2>3. CASE year[q] = year[p]
    <3>1. beaten'[q] = beaten[q] + 1
      BY <1>2, <2>3 DEF Stores
    <3> QED
      BY <2>1, <2>2, <3>1
  <2>4. CASE year[q] # year[p]
    <3>1. beaten'[q] = beaten[q]
      BY <1>2, <2>4 DEF Stores
    <3>2. Numbers(year[q])' \subseteq Numbers(year[q])
      BY <2>4 DEF Numbers, Stores
    <3> QED
      BY <1>2, <2>1, <2>2, <3>1, <3>2 DEF Losses
  <2> QED
    BY <2>3, <2>4
<1>3. CASE q # p /\ ~Allocating(q)
  BY <1>3 DEF Allocating
<1> QED
  BY <1>1, <1>2, <1>3

LEMMA LossesKept == TypeOK /\ Phases /\ Losses /\ [Next]_vars => Losses'
<1> SUFFICES ASSUME TypeOK, Phases, Losses, [Next]_vars PROVE Losses'
  OBVIOUS
<1> USE DEF TypeOK, Goes, Answered, Faults, request, history
<1>1. ASSUME NEW p \in Submits, Arrive(p) PROVE Losses'
  <2>1. \A q \in Submits : q # p => pc'[q] = pc[q] /\ year'[q] = year[q]
    BY <1>1 DEF Arrive
  <2>2. p \notin rows /\ retries[p] = 0 /\ pc'[p] \in {"read", "repeat", "done"}
    BY <1>1 DEF Arrive, Phases
  <2>3. UNCHANGED <<rows, seq, retries, beaten>>
    BY <1>1 DEF Arrive
  <2>4. \A r \in rows : r # p
    BY <2>2
  <2>5. \A q \in Submits : \/ pc'[q] \notin {"read", "insert"}
                           \/ pc'[q] = pc[q] /\ seq'[q] = seq[q] /\ year'[q] = year[q]
                           \/ pc'[q] = "read" /\ retries[q] = 0
    BY <2>1, <2>2, <2>3
  <2> QED
    BY <2>1, <2>3, <2>4, <2>5, LossesFrame
<1>2. ASSUME NEW p \in Submits, FindRepeat(p) PROVE Losses'
  BY <1>2, LossesFrame DEF FindRepeat, Phases
<1>3. ASSUME NEW p \in Submits, FindRepeatFails(p) PROVE Losses'
  BY <1>3, LossesFrame DEF FindRepeatFails, Phases
<1>4. ASSUME NEW p \in Submits, CallFails(p) PROVE Losses'
  BY <1>4, LossesFrame DEF CallFails
<1>5. ASSUME NEW p \in Submits, CountJobs(p) \/ QueueEmail(p) \/ QueueEmailFails(p) PROVE Losses'
  BY <1>5, LossesFrame DEF CountJobs, QueueEmail, QueueEmailFails
<1>6. ASSUME NEW p \in Submits, Delete(p) PROVE Losses'
  BY <1>6, LossesFrame DEF Delete
<1>7. CASE TimePasses \/ ChangeSettings
  BY <1>7, LossesFrame DEF TimePasses, ChangeSettings
<1>8. CASE Restart
  BY <1>8, LossesFrame DEF Restart, UnderWay, Steps
<1>9. CASE UNCHANGED vars
  BY <1>9, LossesFrame DEF vars
<1>10. ASSUME NEW p \in Submits, ReadNumbers(p) PROVE Losses'
  <2>1. CASE Answered(p, "range") /\ UNCHANGED seq
    BY <1>10, <2>1, LossesFrame DEF ReadNumbers
  <2>2. ASSUME NEW n \in 1 .. MaxSeq, NextCandidate(p, n), Goes(p, "insert"), seq' = [seq EXCEPT ![p] = n]
        PROVE  Losses'
    <3>1. p \notin rows /\ pc[p] = "read"
      BY <1>10 DEF ReadNumbers, Phases
    <3>2. UNCHANGED <<rows, year, retries, beaten>>
      BY <1>10 DEF ReadNumbers
    <3>3. \A q \in Submits : Numbers(year[q])' \subseteq Numbers(year[q])
      <4>1. \A r \in rows' : seq'[r] = seq[r] /\ year'[r] = year[r]
        BY <2>2, <3>1, <3>2
      <4> QED
        BY <3>2, <4>1 DEF Numbers
    <3>4. ASSUME NEW q \in Submits
          PROVE  /\ Allocating(q)' => retries'[q] <= MaxRetries /\ retries'[q] <= beaten'[q]
                 /\ pc'[q] = "insert" /\ seq'[q] \in Numbers(year[q])' => retries'[q] < beaten'[q]
      <4>1. CASE q = p
        <5>1. seq'[p] \notin Numbers(year[p])
          <6>1. \A m \in Numbers(year[p]) : m < n
            BY <2>2, CandidateAbove
          <6> QED
            BY <2>2, <6>1
        <5>2. retries[p] <= MaxRetries /\ retries[p] <= beaten[p]
          BY <3>1 DEF Losses, Allocating
        <5>3. seq'[p] \notin Numbers(year[p])'
          BY <3>3, <5>1
        <5> QED
          BY <3>2, <4>1, <5>2, <5>3
      <4>2. CASE q # p
        BY <2>2, <3>2, <3>3, <4>2 DEF Losses, Allocating
      <4> QED
        BY <4>1, <4>2
    <3> QED
      BY <3>4 DEF Losses
  <2> QED
    BY <1>10, <2>1, <2>2, ReadNumbersDoes
<1>11. ASSUME NEW p \in Submits, Insert(p) PROVE Losses'
  <2>1. CASE Stores(p) /\ Goes(p, "count") /\ UNCHANGED retries
    BY <1>11, <2>1, LossesOfStore DEF Insert
  <2>2. CASE seq[p] \in Numbers(year[p]) /\ Clashes(p) /\ UNCHANGED <<rows, recent, beaten>>
    <3>1. UNCHANGED <<rows, seq, year, beaten>> /\ pc[p] = "insert"
      BY <1>11, <2>2 DEF Insert
    <3>2. retries[p] < beaten[p] /\ retries[p] <= MaxRetries
      BY <2>2, <3>1 DEF Losses, Allocating
    <3>3. retries'[p] = retries[p] + 1 /\ \A q \in Submits : q # p => retries'[q] = retries[q] /\ pc'[q] = pc[q]
      BY <2>2 DEF Clashes
    <3>4. pc'[p] \in {"read", "done"} /\ (pc'[p] = "read" => retries[p] # MaxRetries)
      BY <2>2 DEF Clashes
    <3>5. retries[p] \in Nat /\ beaten[p] \in Nat
      OBVIOUS
    <3>6. \A q \in Submits : Numbers(year[q])' = Numbers(year[q])
      BY <3>1 DEF Numbers
    <3>7. ASSUME NEW q \in Submits
          PROVE  /\ Allocating(q)' => retries'[q] <= MaxRetries /\ retries'[q] <= beaten'[q]
                 /\ pc'[q] = "insert" /\ seq'[q] \in Numbers(year[q])' => retries'[q] < beaten'[q]
      <4>1. CASE q = p
        BY <3>1, <3>2, <3>3, <3>4, <3>5, <4>1 DEF Allocating
      <4>2. CASE q # p
        BY <3>1, <3>3, <3>6, <4>2 DEF Losses, Allocating
      <4> QED
        BY <4>1, <4>2
    <3> QED
      BY <3>7 DEF Losses
  <2> QED
    BY <1>11, <2>1, <2>2 DEF Insert
<1>12. ASSUME NEW p \in Submits, InsertUnanswered(p) PROVE Losses'
  BY <1>12, LossesOfStore DEF InsertUnanswered
<1> QED
  BY <1>1, <1>2, <1>3, <1>4, <1>5, <1>6, <1>7, <1>8, <1>9, <1>10, <1>11, <1>12 DEF Next, Step

(* Giving up with a clash takes one loss more than retries are allowed.      *)
LEMMA ClashKept ==
    TypeOK /\ Phases /\ Losses /\ ClashOnlyWhenBeaten /\ [Next]_vars => ClashOnlyWhenBeaten'
<1> SUFFICES ASSUME TypeOK, Phases, Losses, ClashOnlyWhenBeaten, [Next]_vars,
                    NEW q \in Submits, answer'[q] = "clash"
             PROVE  beaten'[q] > MaxRetries
  BY DEF ClashOnlyWhenBeaten
<1>1. beaten[q] \in Nat /\ retries[q] \in Nat
  BY DEF TypeOK
<1>2. beaten'[q] \in Nat /\ beaten'[q] >= beaten[q]
  <2>1. \A p \in Submits : Stores(p) => beaten'[q] \in {beaten[q], beaten[q] + 1}
    BY DEF Stores
  <2>2. beaten'[q] = beaten[q] \/ \E p \in Submits : Stores(p)
    <3>1. ASSUME NEW p \in Submits, Arrive(p) PROVE beaten' = beaten
      BY <3>1 DEF Arrive
    <3>2. ASSUME NEW p \in Submits, Step(p) \/ Delete(p) PROVE beaten' = beaten \/ Stores(p)
      BY <3>2 DEF Step, FindRepeat, FindRepeatFails, CallFails, ReadNumbers, Insert, InsertUnanswered,
                  CountJobs, QueueEmail, QueueEmailFails, Delete, history
    <3>3. CASE TimePasses \/ ChangeSettings \/ Restart \/ UNCHANGED vars
      BY <3>3 DEF TimePasses, ChangeSettings, Restart, history, vars
    <3> QED
      BY <3>1, <3>2, <3>3 DEF Next
  <2> QED
    BY <1>1, <2>1, <2>2
<1>3. CASE answer[q] = "clash"
  BY <1>1, <1>2, <1>3 DEF ClashOnlyWhenBeaten
<1>4. CASE answer[q] # "clash"
  <2>1. Insert(q) /\ Clashes(q) /\ retries[q] = MaxRetries /\ seq[q] \in Numbers(year[q])
    <3> USE DEF Goes, Answered, TypeOK
    <3>1. ASSUME NEW p \in Submits, Arrive(p) PROVE FALSE
      <4>1. \A slug \in Schools \cup {NoSlug} :
              ResolveContext(slug) \in {"ok", "closed", "unknown-school", "choose-school"}
        BY DEF ResolveContext, PickSchool
      <4> QED
        BY <1>4, <3>1, <4>1 DEF Arrive
    <3>2. ASSUME NEW p \in Submits, FindRepeat(p) \/ FindRepeatFails(p) \/ CallFails(p) PROVE FALSE
      BY <1>4, <3>2 DEF FindRepeat, FindRepeatFails, CallFails
    <3>3. ASSUME NEW p \in Submits, ReadNumbers(p) PROVE FALSE
      BY <1>4, <3>3, ReadNumbersDoes
    <3>4. ASSUME NEW p \in Submits, InsertUnanswered(p) \/ CountJobs(p) \/ QueueEmail(p) \/ QueueEmailFails(p)
          PROVE  FALSE
      BY <1>4, <3>4 DEF InsertUnanswered, CountJobs, QueueEmail, QueueEmailFails
    <3>5. ASSUME NEW p \in Submits, Delete(p) PROVE FALSE
      BY <1>4, <3>5 DEF Delete
    <3>6. CASE TimePasses \/ ChangeSettings \/ Restart \/ UNCHANGED vars
      BY <1>4, <3>6 DEF TimePasses, ChangeSettings, Restart, vars
    <3>7. ASSUME NEW p \in Submits, Insert(p)
          PROVE  p = q /\ Clashes(p) /\ retries[p] = MaxRetries /\ seq[p] \in Numbers(year[p])
      BY <1>4, <3>7 DEF Insert, Clashes
    <3> QED
      BY <3>1, <3>2, <3>3, <3>4, <3>5, <3>6, <3>7 DEF Next, Step
  <2>2. retries[q] < beaten[q]
    BY <2>1 DEF Insert, Losses
  <2> QED
    BY <1>1, <1>2, <2>1, <2>2
<1> QED
  BY <1>3, <1>4

-------------------------------------------------------------------------------
Order == Above /\ LaterIsHigher

(* Deletions and steps away from inserting leave the order as it is.         *)
LEMMA OrderFrame ==
    ASSUME Order, TypeOK,
           rows' \subseteq rows,
           \A r \in rows : seq'[r] = seq[r] /\ year'[r] = year[r] /\ known'[r] = known[r],
           \A q \in Submits : pc'[q] = "insert" =>
              pc[q] = "insert" /\ seq'[q] = seq[q] /\ year'[q] = year[q] /\ known'[q] = known[q]
    PROVE  Order'
<1>1. Above'
  BY DEF Order, Above, TypeOK
<1>2. LaterIsHigher'
  BY DEF Order, LaterIsHigher, TypeOK
<1> QED
  BY <1>1, <1>2 DEF Order

(* The row stored is above all that its submit knew; nobody knew of it.      *)
LEMMA OrderOfStore ==
    ASSUME Order, TypeOK, Phases, NEW p \in Submits, pc[p] = "insert", Stores(p),
           UNCHANGED <<seq, year, known>>,
           pc'[p] # "insert",
           \A q \in Submits : q # p => pc'[q] = pc[q]
    PROVE  Order'
<1>1. rows' = rows \cup {p} /\ \A q \in Submits : p \notin known[q]
  BY DEF Stores, Phases
<1>2. Above'
  BY <1>1 DEF Order, Above
<1>3. LaterIsHigher'
  BY <1>1 DEF Order, Above, LaterIsHigher, TypeOK
<1> QED
  BY <1>2, <1>3 DEF Order

LEMMA OrderKept == TypeOK /\ Phases /\ Order /\ [Next]_vars => Order'
<1> SUFFICES ASSUME TypeOK, Phases, Order, [Next]_vars PROVE Order'
  OBVIOUS
<1> USE DEF TypeOK, Goes, Answered, Faults, request, history
<1>1. ASSUME NEW p \in Submits, Arrive(p) PROVE Order'
  <2>1. /\ UNCHANGED <<rows, seq>> /\ p \notin rows /\ pc'[p] # "insert"
        /\ \A q \in Submits : q # p => pc'[q] = pc[q] /\ year'[q] = year[q] /\ known'[q] = known[q]
    BY <1>1 DEF Arrive, Phases
  <2>2. \A r \in rows : r # p /\ r \in Submits
    BY <2>1
  <2> QED
    BY <2>1, <2>2, OrderFrame
<1>2. ASSUME NEW p \in Submits, FindRepeat(p) \/ FindRepeatFails(p) \/ CallFails(p) PROVE Order'
  BY <1>2, OrderFrame DEF FindRepeat, FindRepeatFails, CallFails
<1>3. ASSUME NEW p \in Submits, CountJobs(p) \/ QueueEmail(p) \/ QueueEmailFails(p) PROVE Order'
  BY <1>3, OrderFrame DEF CountJobs, QueueEmail, QueueEmailFails
<1>4. ASSUME NEW p \in Submits, Delete(p) PROVE Order'
  BY <1>4, OrderFrame DEF Delete
<1>5. CASE TimePasses \/ ChangeSettings
  BY <1>5, OrderFrame DEF TimePasses, ChangeSettings
<1>6. CASE Restart
  BY <1>6, OrderFrame DEF Restart, UnderWay, Steps
<1>7. CASE UNCHANGED vars
  BY <1>7, OrderFrame DEF vars
<1>8. ASSUME NEW p \in Submits, ReadNumbers(p) PROVE Order'
  <2>1. CASE Answered(p, "range") /\ UNCHANGED seq
    BY <1>8, <2>1, OrderFrame DEF ReadNumbers
  <2>2. ASSUME NEW n \in 1 .. MaxSeq, NextCandidate(p, n), Goes(p, "insert"), seq' = [seq EXCEPT ![p] = n]
        PROVE  Order'
    <3>1. p \notin rows /\ UNCHANGED <<rows, year, known>>
      BY <1>8 DEF ReadNumbers, Phases
    <3>2. \A r \in rows : year[r] = year[p] => seq[r] < n
      BY <2>2, CandidateAbove DEF Numbers
    <3>3. \A r \in rows : r # p /\ seq'[r] = seq[r]
      BY <2>2, <3>1
    <3>4. LaterIsHigher'
      BY <3>1, <3>3 DEF Order, LaterIsHigher
    <3>5. ASSUME NEW q \in Submits, pc'[q] = "insert", NEW r \in known[q] \cap rows, year[r] = year[q]
          PROVE  seq'[r] < seq'[q]
      <4>1. CASE q = p
        BY <2>2, <3>2, <3>3, <3>5, <4>1
      <4>2. CASE q # p
        BY <2>2, <3>3, <3>5, <4>2 DEF Order, Above
      <4> QED
        BY <4>1, <4>2
    <3>6. Above'
      BY <3>1, <3>5 DEF Above
    <3> QED
      BY <3>4, <3>6 DEF Order
  <2> QED
    BY <1>8, <2>1, <2>2, ReadNumbersDoes
<1>9. ASSUME NEW p \in Submits, Insert(p) PROVE Order'
  <2>1. CASE Stores(p) /\ Goes(p, "count")
    BY <1>9, <2>1, OrderOfStore DEF Insert
  <2>2. CASE Clashes(p) /\ UNCHANGED <<rows, recent, beaten>>
    BY <1>9, <2>2, OrderFrame DEF Insert, Clashes
  <2> QED
    BY <1>9, <2>1, <2>2 DEF Insert
<1>10. ASSUME NEW p \in Submits, InsertUnanswered(p) PROVE Order'
  BY <1>10, OrderOfStore DEF InsertUnanswered
<1> QED
  BY <1>1, <1>2, <1>3, <1>4, <1>5, <1>6, <1>7, <1>8, <1>9, <1>10 DEF Next, Step

-------------------------------------------------------------------------------
Repeats == NotFound /\ RepeatStoredOnce

(* What has left the window does not come back.                              *)
LEMMA WindowFrame ==
    ASSUME TypeOK, NEW p,
           recent' = recent \/ TimePasses \/ \E q \in Submits : q # p /\ recent' = Append(recent, q),
           OutOfWindow(p)
    PROVE  OutOfWindow(p)'
<1>1. recent \in Seq(Submits)
  BY DEF TypeOK
<1>2. CASE recent' = recent
  BY <1>2 DEF OutOfWindow
<1>3. CASE TimePasses
  <2>1. recent # <<>> /\ recent' = Tail(recent)
    BY <1>3 DEF TimePasses
  <2>2. \A n \in DOMAIN recent' : n + 1 \in DOMAIN recent /\ recent'[n] = recent[n + 1]
    BY <1>1, <2>1, HeadTailProperties, LenProperties
  <2> QED
    BY <2>2 DEF OutOfWindow
<1>4. ASSUME NEW q \in Submits, q # p, recent' = Append(recent, q) PROVE OutOfWindow(p)'
  <2>1. \A n \in DOMAIN recent' : recent'[n] = q \/ (n \in DOMAIN recent /\ recent'[n] = recent[n])
    BY <1>1, <1>4, AppendProperties, LenProperties
  <2> QED
    BY <1>4, <2>1 DEF OutOfWindow
<1> QED
  BY <1>2, <1>3, <1>4

(* Nothing is stored and nobody starts to allocate that could have found its *)
(* draft.                                                                    *)
LEMMA RepeatsFrame ==
    ASSUME TypeOK, Repeats,
           rows' \subseteq rows, UNCHANGED draft, excused \subseteq excused',
           recent' = recent \/ TimePasses,
           \A r \in rows : known'[r] = known[r],
           \A q \in Submits : pc'[q] \in {"read", "insert"} =>
              \/ Allocating(q) /\ known'[q] = known[q]
              \/ draft[q] = NoKey \/ q \in excused'
              \/ RecentOf(draft[q]) = {} /\ UNCHANGED recent
    PROVE  Repeats'
<1>1. \A p \in Submits : OutOfWindow(p) => OutOfWindow(p)'
  BY WindowFrame
<1>2. rows \subseteq Submits
  BY DEF TypeOK
<1>3. NotFound'
  <2> SUFFICES ASSUME NEW q \in Submits, Allocating(q)', NEW p \in known'[q] \cap rows', draft[p] = draft[q],
                      draft[q] # NoKey, q \notin excused'
               PROVE  OutOfWindow(p)'
    BY DEF NotFound
  <2>1. p \in rows /\ p \in Submits /\ pc'[q] \in {"read", "insert"}
    BY <1>2 DEF Allocating
  <2>2. CASE Allocating(q) /\ known'[q] = known[q]
    BY <1>1, <2>1, <2>2 DEF Repeats, NotFound
  <2>3. CASE RecentOf(draft[q]) = {} /\ UNCHANGED recent
    BY <2>1, <2>3 DEF RecentOf, OutOfWindow
  <2> QED
    BY <2>1, <2>2, <2>3
<1>4. RepeatStoredOnce'
  BY <1>1, <1>2 DEF Repeats, RepeatStoredOnce, OutOfWindow
<1> QED
  BY <1>3, <1>4 DEF Repeats

LEMMA RepeatsOfStore ==
    ASSUME Repeats, TypeOK, Phases, NEW p \in Submits, pc[p] = "insert", Stores(p),
           UNCHANGED <<draft, known>>, excused \subseteq excused',
           pc'[p] \notin {"read", "insert"},
           \A q \in Submits : q # p => pc'[q] = pc[q]
    PROVE  Repeats'
<1>1. rows' = rows \cup {p} /\ \A q \in Submits : p \notin known[q]
  BY DEF Stores, Phases
<1>2. \A r \in Submits : r # p /\ OutOfWindow(r) => OutOfWindow(r)'
  BY WindowFrame DEF Stores
<1>3. NotFound'
  BY <1>1, <1>2 DEF Repeats, NotFound, Allocating, TypeOK
<1>4. RepeatStoredOnce'
  <2> SUFFICES ASSUME NEW q \in rows', NEW r \in known[q] \cap rows', draft[r] = draft[q],
                      draft[q] # NoKey, q \notin excused'
               PROVE  OutOfWindow(r)'
    BY DEF RepeatStoredOnce, OutOfWindow
  <2>1. q \in Submits /\ r # p /\ r \in rows /\ r \in Submits
    BY <1>1 DEF TypeOK
  <2>2. CASE q = p
    BY <1>2, <2>1, <2>2 DEF Repeats, NotFound, Allocating
  <2>3. CASE q # p
    BY <1>1, <1>2, <2>1, <2>3 DEF Repeats, RepeatStoredOnce, OutOfWindow
  <2> QED
    BY <2>2, <2>3
<1> QED
  BY <1>3, <1>4 DEF Repeats

LEMMA RepeatsKept == TypeOK /\ Phases /\ Repeats /\ [Next]_vars => Repeats'
<1> SUFFICES ASSUME TypeOK, Phases, Repeats, [Next]_vars PROVE Repeats'
  OBVIOUS
<1> USE DEF TypeOK, Goes, Answered, Faults, request, history, Allocating
<1>1. ASSUME NEW p \in Submits, Arrive(p) PROVE Repeats'
  <2>1. /\ UNCHANGED <<rows, draft, excused, recent>> /\ p \notin rows
        /\ pc'[p] \in {"read", "insert"} => draft[p] = NoKey
        /\ \A q \in Submits : q # p => pc'[q] = pc[q] /\ known'[q] = known[q]
    BY <1>1 DEF Arrive, Phases
  <2>2. \A r \in rows : r # p /\ r \in Submits
    BY <2>1
  <2> QED
    BY <2>1, <2>2, RepeatsFrame
<1>2. ASSUME NEW p \in Submits, FindRepeat(p) \/ FindRepeatFails(p) \/ CallFails(p) PROVE Repeats'
  <2>1. CASE FindRepeat(p)
    BY <2>1, RepeatsFrame DEF FindRepeat
  <2>2. CASE FindRepeatFails(p)
    BY <2>2, RepeatsFrame DEF FindRepeatFails
  <2>3. CASE CallFails(p)
    BY <2>3, RepeatsFrame DEF CallFails
  <2> QED
    BY <1>2, <2>1, <2>2, <2>3
<1>3. ASSUME NEW p \in Submits, ReadNumbers(p) PROVE Repeats'
  BY <1>3, RepeatsFrame DEF ReadNumbers
<1>4. ASSUME NEW p \in Submits, Insert(p) PROVE Repeats'
  <2>1. CASE Stores(p) /\ Goes(p, "count")
    BY <1>4, <2>1, RepeatsOfStore DEF Insert
  <2>2. CASE Clashes(p) /\ UNCHANGED <<rows, recent, beaten>>
    BY <1>4, <2>2, RepeatsFrame DEF Insert, Clashes
  <2> QED
    BY <1>4, <2>1, <2>2 DEF Insert
<1>5. ASSUME NEW p \in Submits, InsertUnanswered(p) PROVE Repeats'
  BY <1>5, RepeatsOfStore DEF InsertUnanswered
<1>6. ASSUME NEW p \in Submits, CountJobs(p) \/ QueueEmail(p) \/ QueueEmailFails(p) PROVE Repeats'
  BY <1>6, RepeatsFrame DEF CountJobs, QueueEmail, QueueEmailFails
<1>7. ASSUME NEW p \in Submits, Delete(p) PROVE Repeats'
  BY <1>7, RepeatsFrame DEF Delete
<1>8. CASE TimePasses
  BY <1>8, RepeatsFrame DEF TimePasses
<1>9. CASE ChangeSettings
  BY <1>9, RepeatsFrame DEF ChangeSettings
<1>10. CASE Restart
  BY <1>10, RepeatsFrame DEF Restart, UnderWay, Steps
<1>11. CASE UNCHANGED vars
  BY <1>11, RepeatsFrame DEF vars
<1> QED
  BY <1>1, <1>2, <1>3, <1>4, <1>5, <1>6, <1>7, <1>8, <1>9, <1>10, <1>11 DEF Next, Step

-------------------------------------------------------------------------------
Mails == NoJobYet /\ OneJobEach

(* No job is stored, and no submit ends with a row and without an excuse.    *)
LEMMA MailsFrame ==
    ASSUME TypeOK, Mails,
           excused \subseteq excused',
           \A q \in Submits : jobs'[q] = jobs[q] \/ (jobs'[q] = 0 /\ q \notin rows'),
           \A q \in Submits : pc'[q] = "done" => pc[q] = "done" \/ q \notin rows' \/ q \in excused',
           \A q \in Submits : pc[q] = "done" => pc'[q] = "done",
           rows' \subseteq Submits,
           \A q \in rows' : q \in rows \/ pc[q] # "done"
    PROVE  Mails'
<1>1. NoJobYet'
  BY DEF Mails, NoJobYet
<1>2. OneJobEach'
  <2> SUFFICES ASSUME NEW q \in rows'
               PROVE  jobs'[q] <= 1 /\ (pc'[q] = "done" => jobs'[q] = 1 \/ q \in excused')
    BY DEF OneJobEach
  <2>1. CASE pc[q] # "done"
    BY <2>1 DEF Mails, NoJobYet
  <2>2. CASE pc[q] = "done"
    BY <2>2 DEF Mails, OneJobEach
  <2> QED
    BY <2>1, <2>2
<1> QED
  BY <1>1, <1>2 DEF Mails

LEMMA MailsKept == TypeOK /\ Phases /\ Mails /\ [Next]_vars => Mails'
<1> SUFFICES ASSUME TypeOK, Phases, Mails, [Next]_vars PROVE Mails'
  OBVIOUS
<1> USE DEF TypeOK, Goes, Answered, Faults, request, history
<1>1. ASSUME NEW p \in Submits, Arrive(p) PROVE Mails'
  <2>1. /\ UNCHANGED <<rows, jobs, excused>> /\ p \notin rows /\ pc[p] # "done"
        /\ \A q \in Submits : q # p => pc'[q] = pc[q]
    BY <1>1 DEF Arrive, Phases
  <2> QED
    BY <2>1, MailsFrame
<1>2. ASSUME NEW p \in Submits, FindRepeat(p) \/ FindRepeatFails(p) \/ CallFails(p) PROVE Mails'
  BY <1>2, MailsFrame DEF FindRepeat, FindRepeatFails, CallFails, Phases
<1>3. ASSUME NEW p \in Submits, ReadNumbers(p) PROVE Mails'
  BY <1>3, MailsFrame DEF ReadNumbers, Phases
<1>4. ASSUME NEW p \in Submits, Insert(p) PROVE Mails'
  <2>1. CASE Stores(p) /\ Goes(p, "count")
    BY <1>4, <2>1, MailsFrame DEF Insert, Stores
  <2>2. CASE Clashes(p) /\ UNCHANGED <<rows, recent, beaten>>
    BY <1>4, <2>2, MailsFrame DEF Insert, Clashes, Phases
  <2> QED
    BY <1>4, <2>1, <2>2 DEF Insert
<1>5. ASSUME NEW p \in Submits, InsertUnanswered(p) PROVE Mails'
  BY <1>5, MailsFrame DEF InsertUnanswered, Stores
<1>6. ASSUME NEW p \in Submits, CountJobs(p) \/ QueueEmailFails(p) PROVE Mails'
  BY <1>6, MailsFrame DEF CountJobs, QueueEmailFails
<1>7. ASSUME NEW p \in Submits, QueueEmail(p) PROVE Mails'
  <2>1. /\ jobs[p] = 0 /\ pc'[p] = "done" /\ UNCHANGED <<rows, excused>>
        /\ \A q \in Submits : q # p => pc'[q] = pc[q] /\ jobs'[q] = jobs[q]
    BY <1>7 DEF QueueEmail, Mails, NoJobYet
  <2>2. p \in rows => jobs'[p] = 1
    BY <1>7, <2>1 DEF QueueEmail
  <2>3. NoJobYet'
    BY <2>1 DEF Mails, NoJobYet
  <2>4. OneJobEach'
    <3> SUFFICES ASSUME NEW q \in rows'
                 PROVE  jobs'[q] <= 1 /\ (pc'[q] = "done" => jobs'[q] = 1 \/ q \in excused')
      BY DEF OneJobEach
    <3>1. CASE q = p
      BY <2>1, <2>2, <3>1
    <3>2. CASE q # p
      BY <2>1, <3>2 DEF Mails, OneJobEach
    <3> QED
      BY <3>1, <3>2
  <2> QED
    BY <2>3, <2>4 DEF Mails
<1>8. ASSUME NEW p \in Submits, Delete(p) PROVE Mails'
  BY <1>8, MailsFrame DEF Delete
<1>9. CASE TimePasses \/ ChangeSettings
  BY <1>9, MailsFrame DEF TimePasses, ChangeSettings
<1>10. CASE Restart
  BY <1>10, MailsFrame DEF Restart, UnderWay, Steps
<1>11. CASE UNCHANGED vars
  BY <1>11, MailsFrame DEF vars
<1> QED
  BY <1>1, <1>2, <1>3, <1>4, <1>5, <1>6, <1>7, <1>8, <1>9, <1>10, <1>11 DEF Next, Step

-------------------------------------------------------------------------------
LEMMA Inductive == Spec => []IInv
<1>1. Init => IInv
  BY InitEstablishes
<1>2. IInv /\ [Next]_vars => IInv'
  <2> SUFFICES ASSUME IInv, [Next]_vars PROVE IInv'
    OBVIOUS
  <2>1. TypeOK' /\ Phases'
    BY TypeKept, PhasesKept DEF IInv
  <2>2. Losses' /\ ClashOnlyWhenBeaten'
    BY LossesKept, ClashKept DEF IInv
  <2>3. Above' /\ LaterIsHigher'
    BY OrderKept DEF IInv, Order
  <2>4. NotFound' /\ RepeatStoredOnce'
    BY RepeatsKept DEF IInv, Repeats
  <2>5. NoJobYet' /\ OneJobEach'
    BY MailsKept DEF IInv, Mails
  <2> QED
    BY <2>1, <2>2, <2>3, <2>4, <2>5 DEF IInv
<1> QED
  BY <1>1, <1>2, PTL DEF Spec

(* Every variable of the intake keeps its type, the sequences within what a  *)
(* registration number can hold.                                             *)
THEOREM IntakeTyped == Spec => []TypeOK
<1>1. IInv => TypeOK
  BY DEF IInv
<1> QED
  BY <1>1, Inductive, PTL

(* allocateRegistrationNumber gives a submit up only after it was beaten     *)
(* more often than MaxRetries, however submits, deletions and restarts mix.  *)
THEOREM NoClashUnbeaten == Spec => []ClashOnlyWhenBeaten
<1>1. IInv => ClashOnlyWhenBeaten
  BY DEF IInv
<1> QED
  BY <1>1, Inductive, PTL

(* A registration has a higher number than every one of its start year that  *)
(* was stored when it arrived and still is.                                  *)
THEOREM NumbersInOrder == Spec => []LaterIsHigher
<1>1. IInv => LaterIsHigher
  BY DEF IInv
<1> QED
  BY <1>1, Inductive, PTL

(* A draft stored and still in the window is not stored again by a request   *)
(* that arrives later, unless the lookup failed.                             *)
THEOREM NoRepeatStored == Spec => []RepeatStoredOnce
<1>1. IInv => RepeatStoredOnce
  BY DEF IInv
<1> QED
  BY <1>1, Inductive, PTL

(* A registration gets one e-mail job however often its form is sent.        *)
THEOREM OneJobForEach == Spec => []OneJobEach
<1>1. IInv => OneJobEach
  BY DEF IInv
<1> QED
  BY <1>1, Inductive, PTL
-------------------------------------------------------------------------------
(* The jobs stored and the submits that have counted and not stored yet stay *)
(* together below the cap and the most that ever overlapped: who counts last *)
(* of those overlapping sees every job stored before.                        *)
Counted ==
    /\ IsFiniteSet(JobRows) /\ IsFiniteSet(Pending)
    /\ together \in Nat /\ Cardinality(Pending) <= together
    /\ (JobRows # {} \/ Pending # {}) => JobTotal + Cardinality(Pending) < Cap + together

(* How a cardinality changes when a set shrinks or takes one more element.   *)
LEMMA Sizes ==
    ASSUME NEW S, IsFiniteSet(S), NEW T
    PROVE  /\ Cardinality(S) \in Nat
           /\ T \subseteq S => IsFiniteSet(T) /\ Cardinality(T) \in Nat /\ Cardinality(T) <= Cardinality(S)
           /\ \A x \in S : T \subseteq S \ {x} =>
                IsFiniteSet(T) /\ Cardinality(T) \in Nat /\ Cardinality(T) + 1 <= Cardinality(S)
           /\ \A y : T \subseteq S \cup {y} =>
                IsFiniteSet(T) /\ Cardinality(T) \in Nat /\ Cardinality(T) <= Cardinality(S) + 1
<1>1. Cardinality(S) \in Nat
  BY FS_CardinalityType
<1>2. ASSUME NEW U, IsFiniteSet(U), T \subseteq U
      PROVE  IsFiniteSet(T) /\ Cardinality(T) \in Nat /\ Cardinality(T) <= Cardinality(U)
  BY <1>2, FS_Subset, FS_CardinalityType
<1>3. ASSUME NEW x \in S, T \subseteq S \ {x}
      PROVE  IsFiniteSet(T) /\ Cardinality(T) \in Nat /\ Cardinality(T) + 1 <= Cardinality(S)
  <2> DEFINE U == S \ {x}
  <2>1. IsFiniteSet(U) /\ Cardinality(U) = IF x \in S THEN Cardinality(S) - 1 ELSE Cardinality(S)
    BY FS_RemoveElement, Zenon
  <2>2. T \subseteq U
    BY <1>3
  <2> HIDE DEF U
  <2>3. IsFiniteSet(T) /\ Cardinality(T) \in Nat /\ Cardinality(T) <= Cardinality(U)
    BY <1>2, <2>1, <2>2
  <2> QED
    BY <1>1, <2>1, <2>3
<1>4. ASSUME NEW y, T \subseteq S \cup {y}
      PROVE  IsFiniteSet(T) /\ Cardinality(T) \in Nat /\ Cardinality(T) <= Cardinality(S) + 1
  <2> DEFINE U == S \cup {y}
  <2>1. IsFiniteSet(U) /\ Cardinality(U) = IF y \in S THEN Cardinality(S) ELSE Cardinality(S) + 1
    BY FS_AddElement, Zenon
  <2>2. T \subseteq U
    BY <1>4
  <2> HIDE DEF U
  <2>3. IsFiniteSet(T) /\ Cardinality(T) \in Nat /\ Cardinality(T) <= Cardinality(U)
    BY <1>2, <2>1, <2>2
  <2> QED
    BY <1>1, <2>1, <2>3
<1> QED
  BY <1>1, <1>2, <1>3, <1>4

(* No job is stored and nobody counts.                                       *)
LEMMA CountedFrame ==
    ASSUME Counted, JobRows' \subseteq JobRows, Pending' \subseteq Pending, UNCHANGED together
    PROVE  Counted'
<1>1. /\ IsFiniteSet(JobRows') /\ JobTotal' \in Nat /\ JobTotal \in Nat /\ JobTotal' <= JobTotal
  BY Sizes DEF Counted, JobTotal
<1>2. /\ IsFiniteSet(Pending') /\ Cardinality(Pending') \in Nat /\ Cardinality(Pending) \in Nat
      /\ Cardinality(Pending') <= Cardinality(Pending)
  BY Sizes DEF Counted
<1>3. JobRows' # {} \/ Pending' # {} => JobRows # {} \/ Pending # {}
  OBVIOUS
<1> QED
  BY <1>1, <1>2, <1>3 DEF Counted

(* Whoever counts sees fewer jobs than the cap allows.                       *)
LEMMA CountedOfCount ==
    ASSUME TypeOK, Counted, NEW p \in Submits, CountJobs(p)
    PROVE  Counted'
<1>1. JobRows' = JobRows /\ JobTotal' = JobTotal /\ IsFiniteSet(JobRows) /\ JobTotal \in Nat
  BY FS_CardinalityType DEF CountJobs, Counted, JobRows, JobTotal
<1>2. CASE UnderCap /\ Goes(p, "queue")
  <2>1. Pending' \subseteq Pending \cup {p}
    BY <1>2 DEF Pending, Goes, TypeOK
  <2>2. IsFiniteSet(Pending') /\ Cardinality(Pending') \in Nat
    BY <2>1, Sizes DEF Counted
  <2>3. together' \in Nat /\ Cardinality(Pending') <= together'
    BY <2>2 DEF CountJobs, Counted
  <2>4. JobTotal < Cap
    BY <1>2 DEF UnderCap
  <2> QED
    BY <1>1, <2>2, <2>3, <2>4 DEF Counted
<1>3. CASE Answered(p, "ok")
  <2>1. Pending' \subseteq Pending
    BY <1>3 DEF Pending, Answered, TypeOK
  <2>2. Cardinality(Pending') \in Nat /\ Cardinality(Pending') <= Cardinality(Pending)
        /\ Cardinality(Pending) \in Nat
    BY <2>1, Sizes DEF Counted
  <2>3. UNCHANGED together
    BY <2>2 DEF CountJobs, Counted
  <2> QED
    BY <1>1, <2>1, <2>3, CountedFrame
<1> QED
  BY <1>2, <1>3 DEF CountJobs

(* Storing a job takes its submit out of those that have only counted.       *)
LEMMA CountedOfQueue ==
    ASSUME TypeOK, NoJobYet, Counted, NEW p \in Submits, QueueEmail(p)
    PROVE  Counted'
<1>1. p \in Pending /\ Pending' \subseteq Pending \ {p} /\ UNCHANGED together
  BY DEF QueueEmail, Pending, Answered, TypeOK, history
<1>2. jobs[p] = 0
  BY DEF QueueEmail, NoJobYet
<1>3. JobRows' \subseteq JobRows \cup {<<p, 1>>}
  <2> SUFFICES ASSUME NEW q \in Submits, NEW n \in 1 .. jobs'[q]
               PROVE  <<q, n>> \in JobRows \cup {<<p, 1>>}
    BY DEF JobRows
  <2>1. jobs'[q] = jobs[q] \/ (q = p /\ jobs'[q] = 1)
    BY <1>2 DEF QueueEmail, TypeOK
  <2>2. CASE jobs'[q] = jobs[q]
    BY <2>2 DEF JobRows
  <2>3. CASE q = p /\ jobs'[q] = 1
    BY <2>3
  <2> QED
    BY <2>1, <2>2, <2>3
<1>4. /\ IsFiniteSet(JobRows') /\ JobTotal' \in Nat /\ JobTotal \in Nat /\ JobTotal' <= JobTotal + 1
  BY <1>3, Sizes DEF Counted, JobTotal
<1>5. /\ IsFiniteSet(Pending') /\ Cardinality(Pending') \in Nat /\ Cardinality(Pending) \in Nat
      /\ Cardinality(Pending') + 1 <= Cardinality(Pending)
  BY <1>1, Sizes DEF Counted
<1>6. JobTotal + Cardinality(Pending) < Cap + together
  BY <1>1 DEF Counted
<1> QED
  BY <1>1, <1>4, <1>5, <1>6 DEF Counted

LEMMA CountedInitially == Init => Counted
<1> SUFFICES ASSUME Init PROVE Counted
  OBVIOUS
<1>1. JobRows = {} /\ Pending = {}
  BY DEF Init, JobRows, Pending
<1> QED
  BY <1>1, FS_EmptySet DEF Init, Counted, JobTotal

LEMMA CountedKept == TypeOK /\ Phases /\ NoJobYet /\ Counted /\ [Next]_vars => Counted'
<1> SUFFICES ASSUME TypeOK, Phases, NoJobYet, Counted, [Next]_vars PROVE Counted'
  OBVIOUS
<1> USE DEF TypeOK, Goes, Answered, Faults, request, history, Pending
<1>1. UNCHANGED jobs => JobRows' \subseteq JobRows
  BY DEF JobRows
<1>2. ASSUME NEW p \in Submits, Arrive(p) PROVE Counted'
  BY <1>1, <1>2, CountedFrame DEF Arrive
<1>3. ASSUME NEW p \in Submits, FindRepeat(p) \/ FindRepeatFails(p) \/ CallFails(p) PROVE Counted'
  BY <1>1, <1>3, CountedFrame DEF FindRepeat, FindRepeatFails, CallFails
<1>4. ASSUME NEW p \in Submits, ReadNumbers(p) PROVE Counted'
  BY <1>1, <1>4, CountedFrame DEF ReadNumbers
<1>5. ASSUME NEW p \in Submits, Insert(p) \/ InsertUnanswered(p) PROVE Counted'
  BY <1>1, <1>5, CountedFrame DEF Insert, InsertUnanswered, Clashes
<1>6. ASSUME NEW p \in Submits, CountJobs(p) PROVE Counted'
  BY <1>6, CountedOfCount
<1>7. ASSUME NEW p \in Submits, QueueEmail(p) PROVE Counted'
  BY <1>7, CountedOfQueue
<1>8. ASSUME NEW p \in Submits, QueueEmailFails(p) PROVE Counted'
  BY <1>1, <1>8, CountedFrame DEF QueueEmailFails
<1>9. ASSUME NEW p \in Submits, Delete(p) PROVE Counted'
  <2>1. \A q \in Submits : 1 .. jobs'[q] \subseteq 1 .. jobs[q]
    BY <1>9 DEF Delete
  <2>2. JobRows' \subseteq JobRows
    BY <2>1 DEF JobRows
  <2> QED
    BY <1>9, <2>2, CountedFrame DEF Delete
<1>10. CASE TimePasses \/ ChangeSettings
  BY <1>1, <1>10, CountedFrame DEF TimePasses, ChangeSettings
<1>11. CASE Restart
  BY <1>1, <1>11, CountedFrame DEF Restart, UnderWay, Steps
<1>12. CASE UNCHANGED vars
  BY <1>1, <1>12, CountedFrame DEF vars
<1> QED
  BY <1>2, <1>3, <1>4, <1>5, <1>6, <1>7, <1>8, <1>9, <1>10, <1>11, <1>12 DEF Next, Step

(* recipientCapReached is read before the job is stored, so a family may get *)
(* more e-mails than the cap, but fewer beyond it than the submits that were *)
(* between the count and the job at the same time.                           *)
THEOREM CapPassedByFewerThanOverlap == Spec => []CapPassedByOverlapOnly
<1>1. Init => Counted
  BY CountedInitially
<1>2. IInv /\ Counted /\ [Next]_vars => Counted'
  BY CountedKept DEF IInv
<1>3. Counted => CapPassedByOverlapOnly
  <2> SUFFICES ASSUME Counted, JobTotal > 0 PROVE JobTotal < Cap + together
    BY DEF CapPassedByOverlapOnly
  <2>1. JobTotal \in Nat /\ Cardinality(Pending) \in Nat
    BY FS_CardinalityType DEF Counted, JobTotal
  <2>2. JobRows # {}
    BY FS_EmptySet DEF JobTotal
  <2> QED
    BY <2>1, <2>2 DEF Counted
<1> QED
  BY <1>1, <1>2, <1>3, Inductive, PTL DEF Spec
===============================================================================
