------------------------- MODULE DebouncedQueueProofs -------------------------
(*****************************************************************************)
(* Proofs about the clocked queue, for any documents, debounce and longest   *)
(* wait: its types, the cap on the delay, and that it implements WriteQueue. *)
(*****************************************************************************)
EXTENDS DebouncedQueue, TLAPS

(* What schedule() computes is a delay that stays within the longest wait.   *)
LEMMA DelayFits ==
    ASSUME waited \in 0 .. MaxWait
    PROVE  Delay \in 0 .. MaxWait /\ waited + Delay <= MaxWait
BY DebounceAssumption DEF Delay

(* The values the process starts and restarts with are of their types.       *)
LEMMA NothingFits ==
    /\ 0 \in 0 .. MaxWait
    /\ NoBatch \in [upserts : SUBSET Ids, deletes : SUBSET Ids]
<1>1. 0 \in 0 .. MaxWait
  BY DebounceAssumption
<1>2. NoBatch \in [upserts : SUBSET Ids, deletes : SUBSET Ids]
  BY DEF NoBatch
<1> QED
  BY <1>1, <1>2

(* The types and the cap are inductive together: only because no armed timer *)
(* outlives the cap does a tick keep waited within it.                       *)
CappedInv == TypeOK /\ DelayIsCapped

LEMMA CappedStep == CappedInv /\ [Next]_vars => CappedInv'
<1> SUFFICES ASSUME CappedInv, [Next]_vars PROVE CappedInv'
  OBVIOUS
<1> USE DebounceAssumption DEF CappedInv, TypeOK, DelayIsCapped, NoTimer
<1>0. Delay \in 0 .. MaxWait /\ waited + Delay <= MaxWait
  BY DelayFits
<1>1. ASSUME NEW id \in Ids, QueueUpsert(id) PROVE CappedInv'
  BY <1>0, <1>1 DEF QueueUpsert
<1>2. ASSUME NEW id \in Ids, QueueDelete(id) PROVE CappedInv'
  BY <1>0, <1>2 DEF QueueDelete
<1>3. CASE FlushDefers
  BY <1>0, <1>3 DEF FlushDefers
<1>4. CASE FlushTakes
  BY <1>4 DEF FlushTakes
<1>5. CASE FlushEnds
  BY <1>5 DEF FlushEnds, NoBatch
<1>6. CASE Restart
  BY <1>6, NothingFits DEF Restart
<1>7. CASE Tick
  <2>1. UNCHANGED <<upserts, deletes, flushing, batch>>
    BY <1>7 DEF Tick
  <2>2. CASE due > 0
    BY <1>7, <2>1, <2>2 DEF Tick
  <2>3. CASE due = 0
    BY <1>7, <2>1, <2>3 DEF Tick
  <2> QED
    BY <1>7, <2>2, <2>3 DEF Tick
<1>8. CASE UNCHANGED vars
  BY <1>8 DEF vars
<1> QED
  BY <1>1, <1>2, <1>3, <1>4, <1>5, <1>6, <1>7, <1>8 DEF Next

LEMMA CappedAlways == Spec => []CappedInv
<1>1. ASSUME Init PROVE CappedInv
  BY <1>1, NothingFits DEF Init, CappedInv, TypeOK, DelayIsCapped, NoTimer
<1> QED
  BY <1>1, CappedStep, PTL DEF Spec

(* The types, for every debounce and longest wait.                           *)
THEOREM QueueTyped == Spec => []TypeOK
<1>1. CappedInv => TypeOK
  BY DEF CappedInv
<1> QED
  BY <1>1, CappedAlways, PTL

(* However the edits come, an armed timer fires within the longest wait after *)
(* the first id of the burst.                                                 *)
THEOREM DelayCapped == Spec => []DelayIsCapped
<1>1. CappedInv => DelayIsCapped
  BY DEF CappedInv
<1> QED
  BY <1>1, CappedAlways, PTL

-------------------------------------------------------------------------------
(* Under the refinement mapping an armed timer is one that is due some time. *)

LEMMA InitImplements == Init => Queue!QueueInit
BY DEF Init, Queue!QueueInit, NoTimer, NoBatch, Queue!NoBatch

(* Every step is a step of the abstract queue, or is only a matter of time.  *)
LEMMA StepImplements == CappedInv /\ [Next]_vars => [Queue!QueueNext]_(Queue!queueVars)
<1> SUFFICES ASSUME CappedInv, [Next]_vars PROVE [Queue!QueueNext]_(Queue!queueVars)
  OBVIOUS
<1> USE DEF Pending, Queue!Pending, NoBatch, Queue!NoBatch, NoTimer
<1>0. Delay # -1
  BY DelayFits, DebounceAssumption DEF CappedInv, TypeOK
<1>1. ASSUME NEW id \in Ids, QueueUpsert(id) PROVE Queue!QueueUpserts({id})
  BY <1>0, <1>1 DEF QueueUpsert, Queue!QueueUpserts
<1>2. ASSUME NEW id \in Ids, QueueDelete(id) PROVE Queue!QueueDeletes({id})
  BY <1>0, <1>2 DEF QueueDelete, Queue!QueueDeletes
<1>3. ASSUME FlushDefers PROVE Queue!FlushDefers
  BY <1>0, <1>3 DEF FlushDefers, Queue!FlushDefers
<1>4. ASSUME FlushTakes PROVE Queue!FlushTakes
  BY <1>4 DEF FlushTakes, Queue!FlushTakes
<1>5. ASSUME FlushEnds PROVE Queue!FlushEnds
  BY <1>5 DEF FlushEnds, Queue!FlushEnds
<1>6. ASSUME Restart PROVE Queue!QueueLost
  BY <1>6 DEF Restart, Queue!QueueLost
<1>7. ASSUME Tick PROVE UNCHANGED Queue!queueVars
  <2>1. due \in 0 .. MaxWait /\ due' \in 0 .. MaxWait
    BY <1>7, DebounceAssumption DEF Tick, CappedInv, TypeOK
  <2>2. (due # -1) /\ (due' # -1)
    BY <2>1, DebounceAssumption
  <2> QED
    BY <1>7, <2>2 DEF Tick, Queue!queueVars
<1>8. ASSUME UNCHANGED vars PROVE UNCHANGED Queue!queueVars
  BY <1>8 DEF vars, Queue!queueVars
<1> QED
  BY <1>1, <1>2, <1>3, <1>4, <1>5, <1>6, <1>7, <1>8 DEF Next, Queue!QueueNext

(* The clocked queue implements the abstract one, whatever its two delays.   *)
THEOREM Implements == Spec => ImplementsQueue
BY InitImplements, StepImplements, CappedAlways, PTL DEF Spec, ImplementsQueue, Queue!QueueSpec

(* No burst is stranded, and an armed timer has something to flush.          *)
THEOREM ArmedWhilePending == Spec => []PendingIsArmed
<1>1. ASSUME Init PROVE PendingIsArmed
  BY <1>1 DEF Init, PendingIsArmed, Pending, NoTimer
<1>2. ASSUME CappedInv, PendingIsArmed, [Next]_vars PROVE PendingIsArmed'
  <2> USE DEF PendingIsArmed, Pending, NoTimer
  <2>0. Delay # -1
    BY <1>2, DelayFits, DebounceAssumption DEF CappedInv, TypeOK
  <2>1. ASSUME NEW id \in Ids, QueueUpsert(id) PROVE PendingIsArmed'
    BY <2>0, <2>1 DEF QueueUpsert
  <2>2. ASSUME NEW id \in Ids, QueueDelete(id) PROVE PendingIsArmed'
    BY <2>0, <2>2 DEF QueueDelete
  <2>3. CASE FlushDefers
    BY <2>0, <2>3 DEF FlushDefers
  <2>4. CASE FlushTakes
    BY <2>4 DEF FlushTakes
  <2>5. CASE FlushEnds
    BY <1>2, <2>5 DEF FlushEnds
  <2>6. CASE Restart
    BY <2>6 DEF Restart
  <2>7. CASE Tick
    <3>1. due \in 0 .. MaxWait /\ due' \in 0 .. MaxWait
      BY <1>2, <2>7, DebounceAssumption DEF Tick, CappedInv, TypeOK
    <3>2. due # -1 /\ due' # -1
      BY <3>1, DebounceAssumption
    <3> QED
      BY <1>2, <2>7, <3>2 DEF Tick
  <2>8. CASE UNCHANGED vars
    BY <1>2, <2>8 DEF vars
  <2> QED
    BY <1>2, <2>1, <2>2, <2>3, <2>4, <2>5, <2>6, <2>7, <2>8 DEF Next
<1> QED
  BY <1>1, <1>2, CappedAlways, PTL DEF Spec
===============================================================================
