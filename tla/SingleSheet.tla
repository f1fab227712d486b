----------------------------- MODULE SingleSheet ----------------------------
(***************************************************************************)
(* The Google Sheets mirror of a form with one tab (volunteers, partners,  *)
(* contact): applyBatch, reconcile and resyncForm in their single-tab form *)
(* (src/src/sheets/sync.ts), over the column plans of registry.ts and      *)
(* matrix.ts.  SheetMirror has the registrations, which have many tabs.    *)
(*                                                                         *)
(* The columns follow the data: a custom question has one before the ID,   *)
(* and keeps it, renamed, as long as a row has an answer to a question     *)
(* that is gone.  A plan is cached for 15 s, and unlike the registrations' *)
(* it is not dropped before a flush.  Of the columns the last two are      *)
(* kept: c1 holds the ID of a plan without the question, the answer of one *)
(* with it; c2 then holds the ID.  Every call to Google is one action.     *)
(***************************************************************************)
EXTENDS Naturals, Sequences, FiniteSets, SequencesExt, TLC

CONSTANTS Arrivals,  \* bound: the submissions, in the order they come
          RowLimit,  \* ROW_LIMIT
          FirstDocs, \* how many of them are there and mirrored at first
          Workers,   \* who runs jobs: "queue" and others
          Empty,     \* an empty cell
          MaxEdits, MaxToggles, MaxFaults  \* bounds

Ids == {Arrivals[i] : i \in DOMAIN Arrivals}

SheetAssumption ==
  /\ \A i, j \in DOMAIN Arrivals : Arrivals[i] = Arrivals[j] => i = j
  /\ RowLimit \in Nat \ {0} /\ FirstDocs \in 0..RowLimit
  /\ FirstDocs <= Len(Arrivals)
  /\ "queue" \in Workers
  /\ MaxEdits \in Nat /\ MaxToggles \in Nat /\ MaxFaults \in Nat

VARIABLES docs,      \* the stored submissions, by time of submit
          sent,      \* how many were ever submitted
          question,  \* the form has a custom question
          grid,      \* the lines of the tab, row 1 first
          queued,    \* the ids to write and to remove
          cached,    \* the cached plan, Empty when it has expired
          job,       \* what each worker does
          edits, toggles, faults,
          crossed,   \* ghost: two jobs have run at once
          emptied    \* ghost: a rewrite inside a flush found no rows

sheetVars == <<docs, sent, question, grid, queued, cached, job, edits, toggles,
               faults, crossed, emptied>>

-----------------------------------------------------------------------------
(* Columns and cells.                                                      *)

\* planFromMeta: the question's column, or the column of its old answers.
PlanOver(rows) ==
  IF question THEN "asked"
  ELSE IF \E i \in DOMAIN rows : rows[i].answered THEN "retired" ELSE "plain"

HeaderOf(plan) == IF plan = "plain" THEN [ver |-> 0, c1 |-> "ID"]
                  ELSE [ver |-> 0, c1 |-> plan, c2 |-> "ID"]
RowOf(doc, plan) ==
  IF plan = "plain" THEN [ver |-> doc.ver, c1 |-> doc.id]
  ELSE [ver |-> doc.ver, c1 |-> IF doc.answered THEN "answer" ELSE Empty, c2 |-> doc.id]

BlankLine == [ver |-> 0, c1 |-> Empty, c2 |-> Empty]
IdCell(line, plan) == IF plan = "plain" THEN line.c1 ELSE line.c2

\* A line that shows these cells, in the columns they have.
Shows(line, cells) == \A c \in DOMAIN cells : line[c] = cells[c]
Row1 == IF grid = <<>> THEN BlankLine ELSE grid[1]

\* Cells written over rows; the columns they do not have keep what they held.
Over(lines, put) ==
  LET last == Max({Len(lines)} \union {p.row : p \in put})
      Old(r) == IF r <= Len(lines) THEN lines[r] ELSE BlankLine
  IN [r \in 1..last |-> IF \E p \in put : p.row = r
                        THEN (CHOOSE p \in put : p.row = r).cells @@ Old(r) ELSE Old(r)]

\* values.append: rows inserted below the table that starts at A1.
Below(lines, new) ==
  LET table == Max({r \in 0..Len(lines) : \A s \in 1..r : lines[s] # BlankLine})
  IN SubSeq(lines, 1, table) \o [i \in DOMAIN new |-> new[i] @@ BlankLine]
     \o SubSeq(lines, table + 1, Len(lines))

\* readIdMap, byId: where each id stands; the last line of an id counts.
Places(lines, plan) ==
  LET rows == {r \in 2..Len(lines) : IdCell(lines[r], plan) # Empty}
  IN [id \in {IdCell(lines[r], plan) : r \in rows} |->
        Max({r \in rows : IdCell(lines[r], plan) = id})]

-----------------------------------------------------------------------------
NoJob == [kind |-> "none", step |-> "none", calm |-> FALSE, plan |-> "plain", rows |-> <<>>,
          ids |-> {}, dels |-> {}, put |-> {}, add |-> <<>>, cut |-> {}]
Idle(w) == job[w] = NoJob

\* Everyone else's job is no longer undisturbed.
Disturbed(w, j) == [v \in Workers |-> IF v = w THEN j ELSE
                      IF Idle(v) THEN NoJob ELSE [job[v] EXCEPT !.calm = FALSE]]
AllDisturbed == [v \in Workers |-> IF Idle(v) THEN NoJob ELSE [job[v] EXCEPT !.calm = FALSE]]

Stored == [i \in 1..FirstDocs |-> [id |-> Arrivals[i], ver |-> 1, answered |-> FALSE]]

Init ==
  /\ docs = Stored /\ sent = FirstDocs
  /\ question \in BOOLEAN
  /\ grid = Below(Over(<<>>, {[row |-> 1, cells |-> HeaderOf(PlanOver(Stored))]}),
                  [i \in 1..FirstDocs |-> RowOf(Stored[i], PlanOver(Stored))])
  /\ queued = [up |-> {}, del |-> {}]
  /\ cached = Empty
  /\ job = [w \in Workers |-> NoJob]
  /\ edits = 0 /\ toggles = 0 /\ faults = 0
  /\ crossed = FALSE /\ emptied = FALSE

-----------------------------------------------------------------------------
(* Visitors and administrators; each write ends with its lifecycle hook.   *)

Edit(newDocs, newQueued) ==
  /\ edits < MaxEdits /\ edits' = edits + 1
  /\ docs' = newDocs /\ queued' = newQueued /\ job' = AllDisturbed
  /\ UNCHANGED <<question, grid, cached, toggles, faults, crossed, emptied>>

ToWrite(id) == [up |-> queued.up \union {id}, del |-> queued.del \ {id}]
ToRemove(id) == [up |-> queued.up \ {id}, del |-> queued.del \union {id}]

Submit == \E answered \in {FALSE, question} :
  /\ sent < Len(Arrivals) /\ sent' = sent + 1
  /\ Edit(Append(docs, [id |-> Arrivals[sent'], ver |-> 1, answered |-> answered]), ToWrite(Arrivals[sent']))

Change == \E i \in DOMAIN docs :
  /\ Edit([docs EXCEPT ![i].ver = @ + 1], ToWrite(docs[i].id)) /\ UNCHANGED sent

Delete == \E i \in DOMAIN docs :
  /\ Edit(RemoveAt(docs, i), ToRemove(docs[i].id)) /\ UNCHANGED sent

\* The form editor adds or removes the custom question.
SetQuestion ==
  /\ toggles < MaxToggles /\ toggles' = toggles + 1
  /\ question' = ~question /\ job' = AllDisturbed
  /\ UNCHANGED <<docs, sent, grid, queued, cached, edits, faults, crossed, emptied>>

\* PLAN_TTL_MS go by.
PlanExpires ==
  /\ cached # Empty /\ cached' = Empty
  /\ UNCHANGED <<docs, sent, question, grid, queued, job, edits, toggles, faults, crossed, emptied>>

-----------------------------------------------------------------------------
(* The jobs.                                                               *)

NewJob(kind, step) == [NoJob EXCEPT !.kind = kind, !.step = step,
                                    !.calm = \A v \in Workers : Idle(v)]
Start(w, j) ==
  /\ Idle(w) /\ job' = Disturbed(w, j)
  \* bound: jobs meet once, before a fault or a change of the question
  /\ crossed \/ faults + toggles > 0 => \A v \in Workers : Idle(v)
  /\ crossed' = (crossed \/ \E v \in Workers : ~Idle(v))
  /\ UNCHANGED <<docs, sent, question, grid, cached, edits, toggles, faults, emptied>>

\* flush: takes what is queued.
StartBatch ==
  /\ queued # [up |-> {}, del |-> {}] /\ queued' = [up |-> {}, del |-> {}]
  /\ Start("queue", [NewJob("batch", "plan") EXCEPT !.ids = queued.up, !.dels = queued.del])

\* The cron task or "sync now"; both may begin at any time.
StartReconcile(w) == w # "queue" /\ Start(w, NewJob("reconcile", "fetch")) /\ UNCHANGED queued
StartResync(w) == w # "queue" /\ Start(w, NewJob("resync", "rewrite")) /\ UNCHANGED queued

\* A step of w that changes only its job, and perhaps the cached plan.
Reads(w, j) ==
  /\ job' = [job EXCEPT ![w] = j]
  /\ UNCHANGED <<docs, sent, question, grid, queued, edits, toggles, faults, crossed>>

\* context of a flush: the cached plan if there is one.
Plan(w) ==
  /\ job[w].step = "plan"
  /\ cached' = IF cached = Empty THEN PlanOver(docs) ELSE cached
  /\ Reads(w, [job[w] EXCEPT !.step = "fetch", !.plan = cached'])
  /\ UNCHANGED emptied

\* fetchAll: the oldest rows, up to the limit.
FetchAll == SubSeq(docs, 1, Min({RowLimit, Len(docs)}))

\* fetchByIds of a flush.
Fetch(w) ==
  /\ job[w].kind = "batch" /\ job[w].step = "fetch"
  /\ Reads(w, [job[w] EXCEPT !.step = "header",
                             !.rows = SelectSeq(docs, LAMBDA d : d.id \in job[w].ids)])
  /\ UNCHANGED <<cached, emptied>>

\* Mutant: a pass compares with the plan that is cached.
PassPlan_Cached == IF cached = Empty THEN PlanOver(FetchAll) ELSE cached

PassPlan == PlanOver(FetchAll)

\* fetchAll and resolvePlan of a pass.
FetchAllRows(w) ==
  /\ job[w].kind = "reconcile" /\ job[w].step = "fetch"
  /\ cached' = PassPlan
  /\ Reads(w, [job[w] EXCEPT !.step = "header", !.rows = FetchAll, !.plan = PassPlan])
  /\ UNCHANGED emptied

\* The same of a full rewrite, which keeps the rows of the flush it is part of.
FetchToRewrite(w) ==
  /\ job[w].step = "rewrite"
  /\ cached' = PlanOver(FetchAll)
  /\ Reads(w, [job[w] EXCEPT !.step = "clear", !.add =
       <<HeaderOf(PlanOver(FetchAll))>> \o [i \in DOMAIN FetchAll |-> RowOf(FetchAll[i], PlanOver(FetchAll))]])
  /\ UNCHANGED emptied

\* ensureHeaderIn of a flush, headerState of a pass: row 1 as wide as the plan.
ReadHeader(w) ==
  /\ job[w].step = "header"
  /\ Reads(w, [job[w] EXCEPT !.step =
       IF Shows(Row1, HeaderOf(job[w].plan)) THEN "read"
       ELSE IF job[w].kind = "batch" /\ Row1 = BlankLine THEN "title" ELSE "rewrite"])
  /\ UNCHANGED <<cached, emptied>>

\* The writes still to make, in their order: updates, new rows, removals.
NextWrite(j, done) ==
  IF j.put # {} /\ done = "read" THEN "put"
  ELSE IF j.add # <<>> /\ done \in {"read", "put"} THEN "add"
  ELSE IF j.cut # {} /\ done # "cut" THEN "cut" ELSE "none"
After(j, done) ==
  IF NextWrite(j, done) = "none" THEN NoJob ELSE [j EXCEPT !.step = NextWrite(j, done)]

\* What batchSingle and reconcileSingle work out: a flush rewrites the rows it
\* found, a pass those that differ; a flush removes what it was given, a pass
\* what the database does not have.
WithWrites(j) ==
  LET at == Places(grid, j.plan)
      Wanted(i) == RowOf(j.rows[i], j.plan)
      found == {i \in DOMAIN j.rows : j.rows[i].id \in DOMAIN at}
      changed == IF j.kind = "batch" THEN found
                 ELSE {i \in found : ~Shows(grid[at[j.rows[i].id]], Wanted(i))}
      gone == IF j.kind = "batch" THEN j.dels \intersect DOMAIN at
              ELSE {id \in DOMAIN at : \A i \in DOMAIN j.rows : j.rows[i].id # id}
      missing == SelectSeq(j.rows, LAMBDA d : d.id \notin DOMAIN at)
  IN [j EXCEPT !.put = {[row |-> at[j.rows[i].id], cells |-> Wanted(i)] : i \in changed},
               !.add = [i \in DOMAIN missing |-> RowOf(missing[i], j.plan)],
               !.cut = {at[id] : id \in gone}]

\* readIdMap of a flush, the whole tab of a pass.
Read(w) ==
  /\ job[w].step = "read"
  /\ Reads(w, After(WithWrites(job[w]), "read"))
  /\ UNCHANGED <<cached, emptied>>

\* The calls that write, and what each does to the tab.
Writing == {"title", "put", "add", "cut", "clear", "write"}
Effect(j) ==
  CASE j.step = "title" -> Over(grid, {[row |-> 1, cells |-> HeaderOf(j.plan)]})
    [] j.step = "put" -> Over(grid, j.put)
    [] j.step = "add" -> Below(grid, j.add)
    [] j.step = "cut" -> LET kept == SetToSortSeq(DOMAIN grid \ j.cut, <)
                         IN [i \in DOMAIN kept |-> grid[kept[i]]]
    [] j.step = "clear" -> <<>>
    [] j.step = "write" -> Over(grid, {[row |-> i, cells |-> j.add[i]] : i \in DOMAIN j.add})

\* A rewrite that wrote no row reports no count, and the flush it was part of
\* goes on with the columns it had.
Goes(j) == j.kind = "batch" /\ Len(j.add) = 1

Next1(j) ==
  CASE j.step = "title" -> [j EXCEPT !.step = "read"]
    [] j.step = "clear" -> [j EXCEPT !.step = "write"]
    [] j.step = "write" -> IF Goes(j) THEN [j EXCEPT !.step = "read", !.add = <<>>] ELSE NoJob
    [] OTHER -> After(j, j.step)

Write(w) ==
  /\ job[w].step \in Writing
  /\ grid' = Effect(job[w])
  /\ job' = Disturbed(w, Next1(job[w]))
  /\ emptied' = (emptied \/ (job[w].step = "write" /\ Goes(job[w])))
  /\ UNCHANGED <<docs, sent, question, queued, cached, edits, toggles, faults, crossed>>

\* A call fails, done or not: the job ends, but the writes of a flush or a pass
\* do not wait for one another.
Fails(w) == \E done \in BOOLEAN :
  /\ faults < MaxFaults /\ faults' = faults + 1
  /\ job[w].step \in {"header", "read"} \union Writing
  /\ done => job[w].step \in Writing
  /\ grid' = IF done THEN Effect(job[w]) ELSE grid
  /\ job' = [AllDisturbed EXCEPT ![w] =
       IF job[w].step \in {"put", "add"} THEN [After(job[w], job[w].step) EXCEPT !.calm = FALSE]
       ELSE NoJob]
  /\ UNCHANGED <<docs, sent, question, queued, cached, edits, toggles, crossed, emptied>>

\* The process stops; its queue, its cache and its jobs are gone.
Restart ==
  /\ faults < MaxFaults /\ faults' = faults + 1
  /\ queued' = [up |-> {}, del |-> {}] /\ cached' = Empty
  /\ job' = [w \in Workers |-> NoJob]
  /\ UNCHANGED <<docs, sent, question, grid, edits, toggles, crossed, emptied>>

JobStep(w) == \/ Plan(w) \/ Fetch(w) \/ FetchAllRows(w) \/ FetchToRewrite(w)
              \/ ReadHeader(w) \/ Read(w) \/ Write(w)

Next ==
  \/ Submit \/ Change \/ Delete \/ SetQuestion \/ PlanExpires
  \/ StartBatch
  \/ \E w \in Workers : StartReconcile(w) \/ StartResync(w) \/ JobStep(w) \/ Fails(w)
  \/ Restart

Spec == Init /\ [][Next]_sheetVars

-----------------------------------------------------------------------------
\* The shape of the state.
TypeOK ==
  /\ \A i \in DOMAIN docs : docs[i].id \in Ids /\ docs[i].ver \in Nat /\ docs[i].answered \in BOOLEAN
  /\ sent \in 0..Len(Arrivals) /\ question \in BOOLEAN
  /\ \A r \in DOMAIN grid : grid[r].c1 \in Ids \union {"ID", "asked", "retired", "answer", Empty}
                            /\ grid[r].c2 \in Ids \union {"ID", Empty}
  /\ queued.up \subseteq Ids /\ queued.del \subseteq Ids
  /\ cached \in {"plain", "asked", "retired", Empty}
  /\ \A w \in Workers : job[w].kind \in {"none", "batch", "reconcile", "resync"}
  /\ crossed \in BOOLEAN /\ emptied \in BOOLEAN

\* While jobs never met, and no rewrite inside a flush found the database
\* empty, every line below the header shows the id of one submission in the
\* header's own ID column, and no two show the same: whatever the plans cached,
\* the calls lost and the restarts, rows neither double nor stand under the
\* titles of other columns ("rewrite everything so no row can misalign",
\* sync.ts ensureHeaderIn).
RowsInPlace ==
  ~crossed /\ ~emptied /\ grid # <<>> =>
    LET plan == IF grid[1].c2 = "ID" THEN "asked" ELSE "plain"
        Id(r) == IdCell(grid[r], plan)
    IN /\ IdCell(grid[1], plan) = "ID"
       /\ \A r, s \in 2..Len(grid) : Id(r) \in Ids /\ (Id(r) = Id(s) => r = s)

\* The tab is exactly these rows, in these columns.
Mirrors(lines, rows, plan) ==
  /\ Len(lines) = Len(rows) + 1 /\ Shows(lines[1], HeaderOf(plan))
  /\ \A i \in DOMAIN rows : \E r \in 2..Len(lines) : Shows(lines[r], RowOf(rows[i], plan))

\* "It compares each connected form's database rows against its sheet and
\* repairs the difference" (cron-tasks.ts:5): a pass or a rewrite that nothing
\* disturbs leaves the tab an exact mirror of the oldest rows up to the limit,
\* whatever was lost before it.  A pass over a tab where jobs met may leave a
\* second line of an id or a line in other columns; even then the line that
\* later writers find for an id is right.
PassRepairs ==
  [][\A w \in Workers :
       /\ job[w].kind \in {"reconcile", "resync"} /\ job[w].calm
       /\ job'[w] = NoJob /\ faults' = faults
       => /\ job[w].kind = "resync" \/ (~crossed /\ ~emptied)
               => Mirrors(grid', FetchAll, PlanOver(FetchAll))
          /\ LET plan == PlanOver(FetchAll)
                 at == Places(grid', plan)
             IN \A i \in DOMAIN FetchAll :
                  /\ FetchAll[i].id \in DOMAIN at
                  /\ Shows(grid'[at[FetchAll[i].id]], RowOf(FetchAll[i], plan))]_sheetVars
=============================================================================
