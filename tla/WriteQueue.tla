------------------------------ MODULE WriteQueue ------------------------------
(*****************************************************************************)
(* What the in-process write queue of one form (src/sheets/queue.ts)         *)
(* promises: every queued documentId waits in exactly one of two sets until  *)
(* one flush takes the whole burst, and at most one flush is in flight.      *)
(*                                                                           *)
(* Time is left out: an armed timer may fire at any moment. DebouncedQueue   *)
(* adds the debounce and the cap on it and implements this module;           *)
(* SheetMirror extends it with what a flush does to the spreadsheet.         *)
(*****************************************************************************)

CONSTANT Ids  \* the documentIds of one form

VARIABLES
    upserts,   \* ids whose row must be written
    deletes,   \* ids whose row must be removed
    timer,     \* TRUE while a flush timer is armed
    flushing,  \* TRUE while a flush awaits applyBatch
    batch      \* what the flush in flight took from the two sets

queueVars == <<upserts, deletes, timer, flushing, batch>>

NoBatch == [upserts |-> {}, deletes |-> {}]
Pending == upserts \cup deletes
Taken == batch.upserts \cup batch.deletes

QueueTypeOK ==
    /\ upserts \in SUBSET Ids
    /\ deletes \in SUBSET Ids
    /\ timer \in BOOLEAN
    /\ flushing \in BOOLEAN
    /\ batch \in [upserts : SUBSET Ids, deletes : SUBSET Ids]

QueueInit ==
    /\ upserts = {}
    /\ deletes = {}
    /\ timer = FALSE
    /\ flushing = FALSE
    /\ batch = NoBatch

-------------------------------------------------------------------------------
(* A lifecycle hook queues ids: the newer intention replaces the older one,  *)
(* and the timer is (re-)armed.                                              *)
QueueUpserts(ids) ==
    /\ upserts' = upserts \cup ids
    /\ deletes' = deletes \ ids
    /\ timer' = TRUE
    /\ UNCHANGED <<flushing, batch>>

(* Mutant: an id that waits to be written is also queued for removal.        *)
QueueDeletes_KeepsUpserts(ids) ==
    /\ deletes' = deletes \cup ids
    /\ timer' = TRUE
    /\ UNCHANGED <<upserts, flushing, batch>>

QueueDeletes(ids) ==
    /\ deletes' = deletes \cup ids
    /\ upserts' = upserts \ ids
    /\ timer' = TRUE
    /\ UNCHANGED <<flushing, batch>>

(* Mutant: the timer that fires during a flush is not armed again.           *)
FlushDefers_Unarmed ==
    /\ timer
    /\ flushing
    /\ timer' = FALSE
    /\ UNCHANGED <<upserts, deletes, flushing, batch>>

(* The timer fires while another flush is in flight: the burst waits on.     *)
FlushDefers ==
    /\ timer
    /\ flushing
    /\ timer' = (Pending # {})
    /\ UNCHANGED <<upserts, deletes, flushing, batch>>

(* The timer fires and the flush takes everything that is pending.           *)
FlushTakes ==
    /\ timer
    /\ ~flushing
    /\ timer' = FALSE
    /\ flushing' = (Pending # {})
    /\ batch' = [upserts |-> upserts, deletes |-> deletes]
    /\ upserts' = {}
    /\ deletes' = {}

(* applyBatch returned or threw. Nothing is put back, whatever it said.      *)
FlushEnds ==
    /\ flushing
    /\ flushing' = FALSE
    /\ batch' = NoBatch
    /\ UNCHANGED <<upserts, deletes, timer>>

(* The process restarts: the queue lives in memory only.                     *)
QueueLost ==
    /\ upserts' = {}
    /\ deletes' = {}
    /\ timer' = FALSE
    /\ flushing' = FALSE
    /\ batch' = NoBatch

QueueNext ==
    \/ \E id \in Ids : QueueUpserts({id}) \/ QueueDeletes({id})
    \/ FlushDefers
    \/ FlushTakes
    \/ FlushEnds
    \/ QueueLost

QueueSpec == QueueInit /\ [][QueueNext]_queueVars

-------------------------------------------------------------------------------
(* The last thing asked for a document wins: no id is queued both to be      *)
(* written and to be removed, nor taken as both (applyBatch would insert a   *)
(* row and delete it, in an order the queue no longer knows).                *)
OneIntention ==
    /\ upserts \cap deletes = {}
    /\ batch.upserts \cap batch.deletes = {}

(* No burst is stranded: while anything is pending a timer is armed, also    *)
(* when the timer fired during a flush; and an armed timer has work to do.   *)
PendingIsArmed == timer <=> Pending # {}

(* What a flush took is held exactly as long as the flush is in flight.      *)
TakenIsInFlight == flushing <=> Taken # {}
===============================================================================
