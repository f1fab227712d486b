------------------------------ MODULE RowOrder ------------------------------
(***************************************************************************)
(* Lists put in order by hand.  Two ways of storing a new order:           *)
(*                                                                         *)
(*   "puts"  sponsors and team members (src/src/admin/dashboard/           *)
(*           SponsoriPage.tsx, MembriEchipaPage.tsx): the page renumbers   *)
(*           its rows and writes every row whose number changed, WHOLE and *)
(*           all at once; at the first failure it reloads, with the other  *)
(*           writes still under way;                                       *)
(*   "loop"  announcements (AnunturiPage.tsx and src/src/api/announcement/ *)
(*           controllers/announcement.ts): the page sends the identities   *)
(*           in order, the server numbers them one update at a time and    *)
(*           answers with the list; at a failure the page puts its old     *)
(*           list back.                                                    *)
(*                                                                         *)
(* A name stands for all the other fields of a row.  Every call of a page  *)
(* may fail, and a write that failed for the page may have been stored.    *)
(***************************************************************************)
EXTENDS Naturals, Sequences, FiniteSets, SequencesExt

CONSTANTS Browsers, Rows, Names,
          FirstList,  \* the rows at first: a sequence of records
          MaxAsks, MaxFaults  \* bounds: requests; calls that fail or go unanswered

Record == [id : Rows, order : 1..Len(FirstList), name : Names]

OrderAssumption ==
  /\ FirstList \in Seq(Record) /\ Len(FirstList) = Cardinality(Rows)
  /\ \A i \in DOMAIN FirstList : FirstList[i].order = i
  /\ \A i, j \in DOMAIN FirstList : FirstList[i].id = FirstList[j].id => i = j
  /\ MaxAsks \in Nat /\ MaxFaults \in Nat

VARIABLES style,
          stored,  \* the rows: a set of records, one per identity
          list,    \* what every page shows: a sequence of records
          job,     \* every page's request
          stray,   \* writes of a page that no longer waits for them
          asks, faults,
          blind,   \* ghost: the page did not get to see the last change of a row
          crossed  \* ghost: so it did while this page's loop ran

orderVars == <<style, stored, list, job, stray, asks, faults, blind, crossed>>

Idle == [step |-> "idle"]
At(b, step) == job[b].step = step
Ids(rs) == {r.id : r \in rs}

\* order:ASC; rows of one number come in any order.
Sorted(rs) == {l \in SetToSeqs(rs) : \A i \in DOMAIN l \ {1} : l[i - 1].order <= l[i].order}

\* A whole row, or only its number, replaces the stored one; a deleted row stays so.
Put(rs, r) == IF r.id \in Ids(rs) THEN {s \in rs : s.id # r.id} \union {r} ELSE rs
PutOrder(rs, id, n) == {IF s.id = id THEN [s EXCEPT !.order = n] ELSE s : s \in rs}

Moved(l, i, j) == InsertAt(RemoveAt(l, i), j, l[i])
Renumbered(l) == [i \in DOMAIN l |-> [l[i] EXCEPT !.order = i]]

\* Mutant: the number now at a place is compared with the one before.
Changed_ByPlace(before, after) ==
  {after[i] : i \in {j \in DOMAIN after : before[j].order # after[j].order}}

Changed(before, after) == Range(after) \ Range(before)

-----------------------------------------------------------------------------
Init ==
  /\ style \in {"puts", "loop"}
  /\ stored = Range(FirstList)
  /\ list = [b \in Browsers |-> FirstList]
  /\ job = [b \in Browsers |-> Idle]
  /\ stray = [b \in Browsers |-> {}]
  /\ asks = 0 /\ faults = 0
  /\ blind = [b \in Browsers |-> FALSE] /\ crossed = [b \in Browsers |-> FALSE]

Ask(b) == At(b, "idle") /\ asks < MaxAsks /\ asks' = asks + 1
Fault == faults < MaxFaults /\ faults' = faults + 1

\* Every page but those that know misses the change, if the rows did change.
Unseen(knowing) ==
  LET missing == {b \in Browsers \ knowing : stored' # stored} IN
  /\ blind' = [b \in Browsers |-> blind[b] \/ b \in missing]
  /\ crossed' = [b \in Browsers |-> crossed[b] \/ (b \in missing /\ At(b, "loop"))]

Loads(b) == At(b, "reload") \/ (At(b, "idle") /\ blind[b])

Load(b) ==
  /\ Loads(b)
  /\ \E l \in Sorted(stored) : list' = [list EXCEPT ![b] = l]
  /\ job' = [job EXCEPT ![b] = Idle]
  /\ blind' = [blind EXCEPT ![b] = FALSE]
  /\ UNCHANGED <<style, stored, stray, asks, faults, crossed>>

\* A page that asks again keeps the rows it has; one opened anew has none.
LoadFails(b) ==
  /\ Loads(b) /\ Fault
  /\ list' = IF style = "puts" /\ At(b, "reload") THEN list ELSE [list EXCEPT ![b] = <<>>]
  /\ job' = [job EXCEPT ![b] = Idle]
  /\ blind' = [blind EXCEPT ![b] = TRUE]
  /\ UNCHANGED <<style, stored, stray, asks, crossed>>

\* saveDraft puts the whole row as the page has it; the form of an announcement
\* does not send its place.
Renamed(b) == {Put(stored, [r EXCEPT !.name = n]) :
                 n \in Names, r \in IF style = "puts"
                                    THEN {q \in Range(list[b]) : q.id \in Ids(stored)}
                                    ELSE {q \in stored : q.id \in Ids(Range(list[b]))}}

\* Then the list again.
Rename(b) ==
  /\ Ask(b) /\ stored' \in Renamed(b)
  /\ job' = [job EXCEPT ![b] = [step |-> "reload"]]
  /\ Unseen({b})
  /\ UNCHANGED <<style, list, stray, faults>>

\* An error instead, stored or not: the dialog stays open over the list, which is
\* not loaded again; an announcement is edited on a page of its own.
RenameFails(b) ==
  /\ Ask(b) /\ Fault
  /\ job' = IF style = "puts" THEN job ELSE [job EXCEPT ![b] = [step |-> "reload"]]
  /\ stored' \in Renamed(b) \union {stored} /\ Unseen({})
  /\ UNCHANGED <<style, list, stray>>

Without(b, i) == {s \in stored : s.id # list[b][i].id}

\* A sponsor deleted elsewhere is an error, an announcement is not.
Delete(b) == \E i \in DOMAIN list[b] :
  /\ Ask(b) /\ (style = "puts" => list[b][i].id \in Ids(stored))
  /\ stored' = Without(b, i)
  /\ list' = [list EXCEPT ![b] = RemoveAt(@, i)]
  /\ Unseen({b})
  /\ UNCHANGED <<style, job, stray, faults>>

\* The row stays on the page, stored or not.
DeleteFails(b) ==
  /\ Ask(b) /\ Fault
  /\ stored' \in {Without(b, i) : i \in DOMAIN list[b]} \union {stored} /\ Unseen({})
  /\ UNCHANGED <<style, list, job, stray>>

Move(b) == \E i, j \in DOMAIN list[b] :
  LET next == Renumbered(Moved(list[b], i, j)) IN
  /\ Ask(b) /\ i # j
  /\ list' = [list EXCEPT ![b] = next]
  /\ job' = [job EXCEPT ![b] =
       IF style = "puts" THEN [step |-> "puts", pending |-> Changed(list[b], next)]
       ELSE [step |-> "find", previous |-> list[b],
             order |-> [k \in DOMAIN next |-> next[k].id]]]
  /\ UNCHANGED <<style, stored, stray, faults, blind, crossed>>

-----------------------------------------------------------------------------
(* Writes all at once.                                                     *)

Land(b) == At(b, "puts") /\ \E r \in job[b].pending :
  /\ r.id \in Ids(stored)
  /\ stored' = Put(stored, r)
  /\ job' = [job EXCEPT ![b].pending = @ \ {r}]
  /\ Unseen({b})
  /\ UNCHANGED <<style, list, stray, asks, faults>>

AllLanded(b) ==
  /\ At(b, "puts") /\ job[b].pending = {}
  /\ job' = [job EXCEPT ![b] = Idle]
  /\ UNCHANGED <<style, stored, list, stray, asks, faults, blind, crossed>>

\* Promise.all rejects at the first failure, and the page reloads.  The write that
\* failed may yet be stored as well.
PutFails(b) == At(b, "puts") /\ \E r \in job[b].pending, lost \in BOOLEAN :
  /\ IF r.id \in Ids(stored) THEN Fault ELSE UNCHANGED faults
  /\ stray' = [stray EXCEPT ![b] = @ \union IF lost THEN job[b].pending \ {r} ELSE job[b].pending]
  /\ job' = [job EXCEPT ![b] = [step |-> "reload"]]
  /\ UNCHANGED <<style, stored, list, asks, blind, crossed>>

\* A write the page stopped waiting for arrives (or fails, unnoticed).
StrayLands(b) == \E r \in stray[b] :
  /\ stored' = Put(stored, r)
  /\ stray' = [stray EXCEPT ![b] = @ \ {r}]
  /\ Unseen({})
  /\ UNCHANGED <<style, list, job, asks, faults>>

-----------------------------------------------------------------------------
(* One update after the other.                                             *)

FindKnown(b) ==
  /\ At(b, "find")
  /\ job' = [job EXCEPT ![b] =
       [step |-> "loop", previous |-> job[b].previous, order |-> job[b].order,
        left |-> {k \in DOMAIN job[b].order : job[b].order[k] \in Ids(stored)}, priority |-> 1]]
  /\ crossed' = [crossed EXCEPT ![b] = FALSE]
  /\ UNCHANGED <<style, stored, list, stray, asks, faults, blind>>

\* Mutant: every row gets the first number.
UpdateNext_SameNumber(b) == At(b, "loop") /\ \E k \in job[b].left :
  /\ \A i \in job[b].left : k <= i
  /\ stored' = PutOrder(stored, job[b].order[k], job[b].priority)
  /\ job' = [job EXCEPT ![b].left = @ \ {k}]
  /\ Unseen({b})
  /\ UNCHANGED <<style, list, stray, asks, faults>>

\* left: the places of the identities found that still wait for their number.
UpdateNext(b) == At(b, "loop") /\ \E k \in job[b].left :
  /\ \A i \in job[b].left : k <= i
  /\ stored' = PutOrder(stored, job[b].order[k], job[b].priority)
  /\ job' = [job EXCEPT ![b].left = @ \ {k}, ![b].priority = @ + 1]
  /\ Unseen({b})
  /\ UNCHANGED <<style, list, stray, asks, faults>>

LoopAnswers(b) ==
  /\ At(b, "loop") /\ job[b].left = {}
  /\ \E l \in Sorted(stored) : list' = [list EXCEPT ![b] = l]
  /\ job' = [job EXCEPT ![b] = Idle]
  /\ blind' = [blind EXCEPT ![b] = FALSE]
  /\ UNCHANGED <<style, stored, stray, asks, faults, crossed>>

\* An update throws, or the answer is lost, by when the server is done with it: the
\* page shows its old list again.
LoopFails(b) ==
  /\ job[b].step \in {"find", "loop"} /\ Fault
  /\ list' = [list EXCEPT ![b] = job[b].previous]
  /\ job' = [job EXCEPT ![b] = Idle]
  /\ blind' = [blind EXCEPT ![b] = TRUE]
  /\ UNCHANGED <<style, stored, stray, asks, crossed>>

Step(b) == \/ Load(b) \/ LoadFails(b) \/ Rename(b) \/ RenameFails(b)
           \/ Delete(b) \/ DeleteFails(b) \/ Move(b)
           \/ Land(b) \/ AllLanded(b) \/ PutFails(b) \/ StrayLands(b)
           \/ FindKnown(b) \/ UpdateNext(b) \/ LoopAnswers(b) \/ LoopFails(b)

Next == \E b \in Browsers : Step(b)
Spec == Init /\ [][Next]_orderVars

-----------------------------------------------------------------------------
\* The shape of the state: one record per identity, in the store and on a page.
TypeOK ==
  /\ stored \subseteq Record /\ \A r, s \in stored : r.id = s.id => r = s
  /\ \A b \in Browsers : Range(list[b]) \subseteq Record /\ stray[b] \subseteq Record
  /\ \A b \in Browsers : Cardinality(Ids(Range(list[b]))) = Len(list[b])
  /\ \A b \in Browsers : job[b].step \in {"idle", "reload", "puts", "find", "loop"}
  /\ asks \in 0..MaxAsks /\ faults \in 0..MaxFaults
  /\ blind \in [Browsers -> BOOLEAN] /\ crossed \in [Browsers -> BOOLEAN]

\* "So the UI never claims an order the database does not hold"
\* (AnunturiPage.tsx:375): a page at rest shows the stored rows, in their order,
\* although it numbered them itself and wrote only what it took for changed.
\* A page is wrong, and its next writes undo others' work, only after something
\* it did not get to see: another page's change; a write of its own that landed
\* after the reload its failed neighbour caused; a loop that stopped half way; a
\* rename or a deletion stored without its answer; or a reload that failed, after
\* a rename or a failed move, which leaves the rows it was to replace on screen.
PageTrue ==
  \A b \in Browsers : At(b, "idle") /\ ~blind[b] => list[b] \in Sorted(stored)

\* However old the list it was dragged in, an announcement order that was
\* answered is the stored one, over the rows still there; deleted ones are
\* skipped.  Only another change during the loop may mix with it.
OrderAsAsked ==
  [][\A b \in Browsers :
       At(b, "loop") /\ job[b].left = {} /\ job'[b].step = "idle" /\ ~crossed[b] /\ faults' = faults
       => \A i, j \in DOMAIN job[b].order : \A r, s \in stored :
            i < j /\ r.id = job[b].order[i] /\ s.id = job[b].order[j] => r.order < s.order]_orderVars
=============================================================================
