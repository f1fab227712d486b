------------------------------ MODULE RateLimit -----------------------------
(***************************************************************************)
(* The submit limiter: createRateLimiter (src/src/utils/rate-limit.ts)     *)
(* behind the submit-rate-limit middleware, in front of the public         *)
(* registration route.  A fixed window per address opens at its first hit; *)
(* once every window length the map is pruned of the windows that closed.  *)
(* The map lives in the process: a restart forgets it.                     *)
(***************************************************************************)
EXTENDS Naturals, FiniteSets

CONSTANTS Keys,      \* client addresses
          Limit,     \* SUBMIT_LIMIT
          WindowMs,  \* SUBMIT_WINDOW_MS, in ticks
          MaxTime    \* bound: the clock

LimitAssumption ==
  Limit \in Nat \ {0} /\ WindowMs \in Nat \ {0} /\ MaxTime \in Nat

VARIABLES now,
          start, hits,  \* the window of every key of the map
          lastPrune,
          passed        \* ghost: the hits let through since the start, per key

limitVars == <<now, start, hits, lastPrune, passed>>

\* A hit let through: the window it fell in, its place there, and its tick.
Pass == [window : Nat, nth : 1..Limit, tick : Nat]

Listed == DOMAIN start
Open(k) == k \in Listed /\ now - start[k] < WindowMs

Init ==
  /\ now = 0 /\ lastPrune = 0
  /\ start = <<>> /\ hits = <<>>
  /\ passed = [k \in Keys |-> {}]

Tick ==
  /\ now < MaxTime /\ now' = now + 1
  /\ UNCHANGED <<start, hits, lastPrune, passed>>

\* prune: at most once per window, only what closed.
PruneDue == now - lastPrune >= WindowMs
Kept == IF PruneDue THEN {k \in Listed : now - start[k] < WindowMs} ELSE Listed

\* The window the hit falls in, with the hit counted.
FirstTick(k) == IF Open(k) THEN start[k] ELSE now
Counted(k) == IF Open(k) THEN hits[k] + 1 ELSE 1

\* Mutant: one hit over the limit passes.
Allowed_OneMore(k) == Counted(k) <= Limit + 1

Allowed(k) == Counted(k) <= Limit

Hit(k) ==
  /\ Counted(k) <= Limit + 2   \* bound: a third refusal of a window is like the second
  /\ start' = [j \in Kept \union {k} |-> IF j = k THEN FirstTick(k) ELSE start[j]]
  /\ hits' = [j \in Kept \union {k} |-> IF j = k THEN Counted(k) ELSE hits[j]]
  /\ lastPrune' = IF PruneDue THEN now ELSE lastPrune
  /\ passed' = IF Allowed(k)
               THEN [passed EXCEPT ![k] = @ \union
                       {[window |-> FirstTick(k), nth |-> Counted(k), tick |-> now]}]
               ELSE passed
  /\ UNCHANGED now

Restart ==
  /\ Listed # {}
  /\ start' = <<>> /\ hits' = <<>> /\ lastPrune' = now
  /\ passed' = [k \in Keys |-> {}]
  /\ UNCHANGED now

Next == Tick \/ Restart \/ \E k \in Keys : Hit(k)
Spec == Init /\ [][Next]_limitVars

-----------------------------------------------------------------------------
\* The shape of the state: the map never holds a window opened in the future.
TypeOK ==
  /\ now \in 0..MaxTime /\ lastPrune \in 0..now
  /\ Listed \subseteq Keys /\ DOMAIN hits = Listed
  /\ \A k \in Listed : start[k] \in 0..now /\ hits[k] \in Nat \ {0}
  /\ passed \in [Keys -> SUBSET Pass]

\* "At most SUBMIT_LIMIT submits per IP per SUBMIT_WINDOW_MS"
\* (submit-rate-limit.ts:9) as a fixed window can keep it: any stretch of one
\* window's length, wherever it starts, lets at most twice the limit through,
\* and the pruning of the map never forgets a window that is still open.
PassesBounded ==
  \A k \in Keys : \A t \in 0..now :
    Cardinality({p \in passed[k] : t <= p.tick /\ p.tick < t + WindowMs}) <= 2 * Limit
=============================================================================
