---------------------------- MODULE DebouncedQueue ----------------------------
(*****************************************************************************)
(* The write queue with its clock (src/sheets/queue.ts): every enqueue       *)
(* re-arms the timer by the debounce, but never beyond the longest wait      *)
(* since the first id of the burst.                                          *)
(*                                                                           *)
(* Time passes in ticks. A due timer fires before the next tick: the event   *)
(* loop runs a callback as soon as it is due and free.                       *)
(*****************************************************************************)
EXTENDS Integers

CONSTANTS
    Ids,
    Debounce,  \* DEBOUNCE_MS, in ticks
    MaxWait    \* MAX_WAIT_MS, in ticks

ASSUME DebounceAssumption == Debounce \in Nat /\ MaxWait \in Nat

VARIABLES
    upserts, deletes, flushing, batch,  \* as in WriteQueue
    due,     \* ticks until the timer fires, or NoTimer
    waited   \* ticks since firstQueuedAt, counted up to MaxWait (0 when unset)

vars == <<upserts, deletes, flushing, batch, due, waited>>

NoTimer == -1
NoBatch == [upserts |-> {}, deletes |-> {}]
Pending == upserts \cup deletes

(* Mutant: every enqueue waits the whole debounce again.                     *)
Delay_Uncapped == Debounce

(* How long the timer may still run: schedule() takes the smaller of the     *)
(* debounce and what is left of the longest wait. Counting waited no further *)
(* than MaxWait changes nothing here: the rest is then 0 for ever.           *)
Delay == IF Debounce < MaxWait - waited THEN Debounce ELSE MaxWait - waited

TypeOK ==
    /\ upserts \in SUBSET Ids
    /\ deletes \in SUBSET Ids
    /\ flushing \in BOOLEAN
    /\ batch \in [upserts : SUBSET Ids, deletes : SUBSET Ids]
    /\ due \in {NoTimer} \cup 0 .. MaxWait
    /\ waited \in 0 .. MaxWait

Init ==
    /\ upserts = {}
    /\ deletes = {}
    /\ flushing = FALSE
    /\ batch = NoBatch
    /\ due = NoTimer
    /\ waited = 0

-------------------------------------------------------------------------------
QueueUpsert(id) ==
    /\ upserts' = upserts \cup {id}
    /\ deletes' = deletes \ {id}
    /\ due' = Delay
    /\ UNCHANGED <<flushing, batch, waited>>

QueueDelete(id) ==
    /\ deletes' = deletes \cup {id}
    /\ upserts' = upserts \ {id}
    /\ due' = Delay
    /\ UNCHANGED <<flushing, batch, waited>>

(* Mutant: the timer that fires during a flush is not armed again.           *)
FlushDefers_Unarmed ==
    /\ due = 0
    /\ flushing
    /\ due' = NoTimer
    /\ UNCHANGED <<upserts, deletes, flushing, batch, waited>>

(* flush() while another one is in flight: it only re-arms. Once the longest *)
(* wait is over the new delay is 0, so the timer fires again and again until *)
(* the flush in flight ends.                                                 *)
FlushDefers ==
    /\ due = 0
    /\ flushing
    /\ due' = IF Pending # {} THEN Delay ELSE NoTimer
    /\ UNCHANGED <<upserts, deletes, flushing, batch, waited>>

(* Mutant: the flag that a flush is in flight is not looked at.              *)
FlushTakes_Overlapping ==
    /\ due = 0
    /\ due' = NoTimer
    /\ waited' = 0
    /\ flushing' = (Pending # {})
    /\ batch' = [upserts |-> upserts, deletes |-> deletes]
    /\ upserts' = {}
    /\ deletes' = {}

FlushTakes ==
    /\ due = 0
    /\ ~flushing
    /\ due' = NoTimer
    /\ waited' = 0
    /\ flushing' = (Pending # {})
    /\ batch' = [upserts |-> upserts, deletes |-> deletes]
    /\ upserts' = {}
    /\ deletes' = {}

FlushEnds ==
    /\ flushing
    /\ flushing' = FALSE
    /\ batch' = NoBatch
    /\ UNCHANGED <<upserts, deletes, due, waited>>

Restart ==
    /\ upserts' = {}
    /\ deletes' = {}
    /\ flushing' = FALSE
    /\ batch' = NoBatch
    /\ due' = NoTimer
    /\ waited' = 0

(* Mutant: the wait goes on counting, and what is left of it turns negative. *)
Tick_Unbounded ==
    /\ due # NoTimer
    /\ due > 0 \/ flushing
    /\ due' = IF due > 0 THEN due - 1 ELSE 0
    /\ waited' = waited + 1
    /\ UNCHANGED <<upserts, deletes, flushing, batch>>

(* One tick. firstQueuedAt is set exactly while a timer is armed, so waited  *)
(* grows with it. While a flush is in flight an expired wait does not stop   *)
(* the clock: the timer that keeps firing only re-arms itself.               *)
Tick ==
    /\ due # NoTimer
    /\ due > 0 \/ flushing
    /\ due' = IF due > 0 THEN due - 1 ELSE 0
    /\ waited' = IF waited < MaxWait THEN waited + 1 ELSE MaxWait
    /\ UNCHANGED <<upserts, deletes, flushing, batch>>

Next ==
    \/ \E id \in Ids : QueueUpsert(id) \/ QueueDelete(id)
    \/ FlushDefers
    \/ FlushTakes
    \/ FlushEnds
    \/ Restart
    \/ Tick

(* The clock runs, a due timer's callback runs, and applyBatch settles: each *)
(* of its API calls returns or throws.                                       *)
Fairness ==
    /\ WF_vars(Tick)
    /\ WF_vars(FlushTakes)
    /\ WF_vars(FlushEnds)

Spec == Init /\ [][Next]_vars
FairSpec == Spec /\ Fairness

-------------------------------------------------------------------------------
(* An armed timer never fires later than the longest wait after the first    *)
(* id of the burst was queued.                                               *)
DelayIsCapped == due # NoTimer => waited + due <= MaxWait

(* A burst is stranded by nothing: see WriteQueue.                           *)
PendingIsArmed == due # NoTimer <=> Pending # {}

(* However busy the stream of edits, an id queued for writing is handed to   *)
(* applyBatch, or is overtaken by a delete of the same document, or the      *)
(* process restarts and forgets it.                                          *)
UpsertIsTaken ==
    \A id \in Ids : id \in upserts ~> id \notin upserts

Queue == INSTANCE WriteQueue WITH timer <- due # NoTimer

(* The clocked queue does nothing the abstract queue does not allow.         *)
ImplementsQueue == Queue!QueueSpec
===============================================================================
