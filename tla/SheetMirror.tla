------------------------------ MODULE SheetMirror ------------------------------
(*****************************************************************************)
(* The Google Sheets mirror of a partitioned form (src/sheets/sync.ts,       *)
(* lifecycle.ts, queue.ts and the hourly cron task): documents in the        *)
(* database, the queue their lifecycle hooks fill, and the jobs that bring   *)
(* the season tabs of one spreadsheet in line with the database:             *)
(*   batch      a flush of the queue (applyBatch),                           *)
(*   reconcile  the scheduled compare-and-repair pass,                       *)
(*   resync     the full rewrite, also started by a batch or a reconcile     *)
(*              that meets a tab with other columns.                         *)
(*                                                                           *)
(* Every call to Google is one action of its own, so anything may happen     *)
(* between two calls of a job, and a call may be refused, or done and its    *)
(* answer lost. A document's content is its version; the two column sets of  *)
(* the form are two layouts; formatting, links and the sync log are left     *)
(* out. A line read under a header of the other layout shows no id.          *)
(*****************************************************************************)
EXTENDS Naturals, FiniteSets, SequencesExt, WriteQueue

CONSTANTS
    ScriptForm,    \* the documents submitted through the new script form
    Seasons,       \* the tabs rows belong in
    Fallback,      \* the tab a freshly created spreadsheet has, still blank
    MayEmpty,      \* FALSE: the last document in the database is never deleted
    Workers,       \* who runs jobs: "queue", "cron", "admin"
    FailingCalls,  \* the calls that may fail, or during which the process dies
    MaxEdits,      \* bound on database edits and rewrites asked for
    MaxToggles,    \* bound on switching the link off and on
    MaxFaults      \* bound on failed calls and restarts

ASSUME MirrorAssumption ==
    /\ IsFiniteSet(Ids) /\ ScriptForm \subseteq Ids
    /\ {"ID", ""} \cap Ids = {}                   \* the header's label, an empty cell
    /\ "" \notin Seasons \cup {Fallback}
    /\ Workers \subseteq {"queue", "cron", "admin"}
    /\ MayEmpty \in BOOLEAN
    /\ MaxEdits \in Nat /\ MaxToggles \in Nat /\ MaxFaults \in Nat

VARIABLES
    db,       \* id -> [live, season, ver]; ver 0: not submitted yet
    enabled,  \* the link's switch in the admin
    tabs,     \* the tabs the spreadsheet has, in their order
    grid,     \* tab -> its lines, row 1 first
    job,      \* worker -> its job; nothing left to call: idle
    suspect,  \* ids whose queued work was dropped or cut short (history only)
    edits, toggles, faults

sheetVars == <<tabs, grid>>
envVars == <<edits, toggles, faults>>
vars == <<queueVars, db, enabled, sheetVars, job, suspect, envVars>>

Tabs == Seasons \cup {Fallback}
Layouts == {"legacy", "script"}
Label == "ID"
NoId == ""
NoTab == ""
NoDoc == [live |-> FALSE, season |-> NoTab, ver |-> 0]
Blank == [id |-> NoId, layout |-> "legacy", ver |-> 0]

-------------------------------------------------------------------------------
(* The spreadsheet: what reading and writing ranges of a tab does.           *)

Row1(t) == IF grid[t] = <<>> THEN Blank ELSE grid[t][1]
Owned(t) == Row1(t).id = Label

(* Where a tab of ours shows which documents, row 1 being the header.        *)
PlacesIn(t) ==
    {[id |-> grid[t][r].id, tab |-> t, row |-> r, ver |-> grid[t][r].ver] :
        r \in {r \in 2 .. Len(grid[t]) :
                  /\ grid[t][r].id # NoId
                  /\ grid[t][r].layout = grid[t][1].layout}}

(* Lines written over the rows from row `at` on; rows skipped stay blank.    *)
Overlay(lines, at, new) ==
    [r \in 1 .. (IF Len(lines) < at + Len(new) - 1 THEN at + Len(new) - 1 ELSE Len(lines)) |->
        IF r \in at .. at + Len(new) - 1 THEN new[r - at + 1]
        ELSE IF r <= Len(lines) THEN lines[r] ELSE Blank]

(* values.append: rows are inserted after the table that starts at A1.       *)
Appended(lines, new) ==
    LET table == {r \in 0 .. Len(lines) : \A s \in 1 .. r : lines[s] # Blank}
        last == CHOOSE r \in table : \A s \in table : s <= r
    IN  SubSeq(lines, 1, last) \o new \o SubSeq(lines, last + 1, Len(lines))

(* Rows are deleted: the k-th line left is the one that k of those kept reach. *)
Without(lines, rows) ==
    LET kept == DOMAIN lines \ rows
        nth(k) == CHOOSE r \in kept : Cardinality({s \in kept : s <= r}) = k
    IN  [k \in 1 .. Cardinality(kept) |-> lines[nth(k)]]

-------------------------------------------------------------------------------
(* A job: the calls it still has to make, and what it has read so far.       *)

Call(kind, tab) == [kind |-> kind, tab |-> tab]

NewJob(op, dels) ==
    [op |-> op,
     todo |-> {Call("context", NoTab)},
     known |-> <<>>,                              \* ctx.tabs
     plans |-> [t \in Tabs |-> "legacy"],         \* ctx.plans
     docs |-> [id \in Ids |-> NoDoc],             \* rows read from the database
     dels |-> dels,
     found |-> {},                                \* places read from the sheet
     ok |-> TRUE,
     back |-> <<>>,                               \* the batch a rewrite cut into
     met |-> FALSE,                               \* a scheduled pass began meanwhile
     since |-> <<>>]                              \* Events when a pass began (history only)

NoJob == [NewJob("batch", {}) EXCEPT !.todo = {}]
Idle(w) == job[w].todo = {}
Resting == Pending = {} /\ \A w \in Workers : Idle(w)
Events == edits + toggles + faults
Rewriting == \E w \in Workers : ~Idle(w) /\ job[w].op = "resync"

(* Mutant: a batch removes the old copies before it writes the new ones.     *)
CallOrder_DropFirst ==
    <<"context", "fetch", "header", "check", "scan", "drop", "update", "append", "write", "clear">>
CallOrder == <<"context", "fetch", "header", "check", "scan", "update", "append", "write", "clear", "drop">>
Rank(c) == CHOOSE n \in DOMAIN CallOrder : CallOrder[n] = c.kind

Before(known, t, u) == \E m, n \in DOMAIN known : known[m] = t /\ known[n] = u /\ m < n

(* The calls a job may make next. Tabs are scanned in the spreadsheet's      *)
(* order; other calls of one kind follow the rows, which come in any order.  *)
Due(j) == {c \in j.todo : \A d \in j.todo :
              /\ Rank(c) <= Rank(d)
              /\ c.kind = "scan" /\ d.kind = "scan" => ~Before(j.known, d.tab, c.tab)}

(* A tab's columns: the script form's when it holds a row of that form.      *)
PlansOver(docs) ==
    [t \in Tabs |->
        IF \E id \in ScriptForm : docs[id].live /\ docs[id].season = t THEN "script" ELSE "legacy"]

DocsOf(j) == {id \in Ids : j.docs[id].live}
Groups(j) == {j.docs[id].season : id \in DocsOf(j)}
HeaderOf(j, t) == [id |-> Label, layout |-> j.plans[t], ver |-> 0]

(* Mutant: any header of ours passes for the right one.                      *)
SameHeader_AnyOfOurs(j, t) == Owned(t)
SameHeader(j, t) == Row1(t) = HeaderOf(j, t)

RowOf(j, id) == [id |-> id, layout |-> j.plans[j.docs[id].season], ver |-> j.docs[id].ver]
RowsOf(j, ids) == LET s == SetToSeq(ids) IN [k \in DOMAIN s |-> RowOf(j, s[k])]

AtHome(j, p) == p.id \in DocsOf(j) /\ p.tab = j.docs[p.id].season
FirstAtHome(j, p) == AtHome(j, p) /\ \A q \in j.found : q.id = p.id /\ q.tab = p.tab => p.row <= q.row

(* Mutant: whatever is in its own tab is taken to be up to date.             *)
ToUpdate_BatchOnly(j) == {p \in j.found : FirstAtHome(j, p) /\ j.op = "batch"}

(* The first place in its own tab is updated: by a batch always, by a        *)
(* reconcile when it shows something else.                                   *)
ToUpdate(j) == {p \in j.found : FirstAtHome(j, p) /\ (j.op = "batch" \/ p.ver # j.docs[p.id].ver)}

ToAppend(j, t) == {id \in DocsOf(j) : j.docs[id].season = t /\ ~\E p \in j.found : p.id = id /\ p.tab = t}

(* Mutant: a batch forgets the copies a moved document has in other tabs, a  *)
(* reconcile looks for deleted documents only.                               *)
ToDrop_DeletedOnly(j) ==
    CASE j.op = "batch" -> {p \in j.found : p.id \in j.dels}
      [] j.op = "reconcile" -> {p \in j.found : p.id \notin DocsOf(j)}
      [] j.op = "resync" -> {}

(* What is removed once everything is written. A batch: the other copies of  *)
(* its documents and every copy of the deleted ones. A reconcile: whatever   *)
(* is not the first copy in the right tab. A rewrite: the copies that tabs   *)
(* without rows in the database hold of the rows just written elsewhere.     *)
ToDrop(j) ==
    CASE j.op = "batch" -> {p \in j.found : p.id \in j.dels \/ (p.id \in DocsOf(j) /\ ~AtHome(j, p))}
      [] j.op = "reconcile" -> {p \in j.found : ~FirstAtHome(j, p)}
      [] j.op = "resync" -> {p \in j.found : p.id \in DocsOf(j) /\ p.tab \notin Groups(j)}

Changes(j) ==
    (IF j.op = "resync"
        THEN {Call("clear", t) : t \in Groups(j)}
        ELSE {Call("update", NoTab) : p \in ToUpdate(j)}
                \cup {Call("append", t) : t \in {t \in Groups(j) : ToAppend(j, t) # {}}})
    \cup {Call("drop", p.tab) : p \in ToDrop(j)}

(* Everything is read: work out the changes.                                 *)
WhenRead(j) == IF j.todo = {} THEN [j EXCEPT !.todo = Changes(j)] ELSE j

Made(j, c) == [j EXCEPT !.todo = @ \ {c}]

(* Mutant: the removals go on too.                                           *)
Noted_DropsAnyway(j, c) == [Made(j, c) EXCEPT !.ok = FALSE]

(* A failed write is noted and the other writes go on; the removals wait for *)
(* another time.                                                             *)
Noted(j, c) == [Made(j, c) EXCEPT !.ok = FALSE, !.todo = {d \in @ : d.kind # "drop"}]
Failed(j) == [j EXCEPT !.ok = FALSE, !.todo = {}]

-------------------------------------------------------------------------------
(* How the calls of a job are answered, and how a job ends.                  *)

Answers(kind) ==
    {"done"} \cup IF faults < MaxFaults /\ kind \in FailingCalls THEN {"refused", "lost"} ELSE {}

Count(answer) == faults' = IF answer = "done" THEN faults ELSE faults + 1

(* The history of dropped work. A flush that failed leaves its ids behind; a *)
(* good one also makes up for earlier losses of what it read and wrote. A    *)
(* rewrite that stopped halfway may have cleared any row, and one that took  *)
(* the place of a batch did not look at the documents the batch was to       *)
(* remove.                                                                   *)
SuspectAfter(w, j) ==
    CASE j.op = "resync" /\ ~j.ok -> Ids
      [] j.op = "resync" /\ j.ok /\ w = "queue" -> suspect \cup batch.deletes
      [] j.op = "batch" /\ ~j.ok -> suspect \cup Taken
      [] j.op = "batch" /\ j.ok -> suspect \ (j.dels \cup {id \in DocsOf(j) : j.docs[id] = db[id]})
      [] OTHER -> suspect

Ends(w, j) ==
    /\ job' = [job EXCEPT ![w] = NoJob]
    /\ IF w = "queue" THEN FlushEnds ELSE UNCHANGED queueVars
    /\ suspect' = SuspectAfter(w, j)

Continues(w, j) ==
    /\ job' = [job EXCEPT ![w] = j]
    /\ UNCHANGED <<queueVars, suspect>>

(* A rewrite that wrote no row and removed none does not stand in for the    *)
(* batch that met the changed header: the batch goes on where it was.        *)
Proceeds(w, j) ==
    IF j.todo # {} THEN Continues(w, j)
    ELSE IF j.back # <<>> /\ j.ok /\ DocsOf(j) = {} THEN Continues(w, j.back[1])
    ELSE Ends(w, j)

Writes(t, lines) == grid' = [grid EXCEPT ![t] = lines]

-------------------------------------------------------------------------------
(* context: is the form mirrored at all, and which tabs does the file have?  *)
(* A batch plans the columns over the rows as they are now. While the link   *)
(* is off a job ends here; a rewrite inside a batch then reports that it did *)
(* nothing, and the batch goes on.                                           *)
Context(w) ==
    /\ Call("context", NoTab) \in Due(job[w])
    /\ LET j == job[w] IN
       IF ~enabled
         THEN /\ UNCHANGED faults
              /\ Proceeds(w, IF j.back # <<>> THEN [j EXCEPT !.todo = {}] ELSE Failed(j))
         ELSE \E answer \in Answers("context") :
              /\ Count(answer)
              /\ Proceeds(w, IF answer = "done"
                    THEN [j EXCEPT !.todo = {Call("fetch", NoTab)}, !.known = tabs, !.plans = PlansOver(db)]
                    ELSE Failed(j))
    /\ UNCHANGED <<db, enabled, sheetVars, edits, toggles>>

(* The rows, read before anything in the sheet is. A batch reads only the    *)
(* ids it took; the other two read them all and plan over exactly those.     *)
Fetch(w) ==
    /\ Call("fetch", NoTab) \in Due(job[w])
    /\ LET j == job[w]
           scans == {Call("scan", t) : t \in ToSet(j.known)}
           read == IF j.op = "batch"
                     THEN [j EXCEPT !.docs = [id \in Ids |-> IF id \in batch.upserts THEN db[id] ELSE NoDoc]]
                     ELSE [j EXCEPT !.docs = db, !.plans = PlansOver(db)]
       IN  Proceeds(w, WhenRead([read EXCEPT !.todo =
               scans \cup IF j.op = "batch" THEN {Call("check", t) : t \in Groups(read)} ELSE {}]))
    /\ UNCHANGED <<db, enabled, sheetVars, envVars>>

(* ensureTabIn, first half: a tab this job does not know is created. Google  *)
(* refuses a title that exists. A batch has yet to scan the new tab.         *)
CreateTab(w) ==
    /\ \E c \in Due(job[w]), answer \in Answers("create") :
       LET j == job[w]
           taken == c.tab \in ToSet(tabs)
           scan == IF c.kind = "check" THEN {Call("scan", c.tab)} ELSE {}
       IN  /\ c.kind \in {"check", "append", "clear"} /\ c.tab \notin ToSet(j.known)
           /\ Count(answer)
           /\ tabs' = IF answer = "refused" \/ taken THEN tabs ELSE Append(tabs, c.tab)
           /\ Proceeds(w, IF answer = "done" /\ ~taken
                 THEN [j EXCEPT !.known = Append(@, c.tab), !.todo = @ \cup scan \cup {Call("header", c.tab)}]
                 ELSE IF c.kind = "append" THEN Noted(j, c) ELSE Failed(j))
    /\ UNCHANGED <<db, enabled, grid, edits, toggles>>

(* The header goes into row 1 of a tab that is new or has an empty row 1. A  *)
(* tab that was to be checked is then current.                               *)
WriteHeader(w) ==
    /\ \E c \in Due(job[w]), answer \in Answers("header") :
       LET j == Made(job[w], c) IN
           /\ c.kind = "header"
           /\ Count(answer)
           /\ IF answer = "refused" THEN UNCHANGED grid
              ELSE Writes(c.tab, Overlay(grid[c.tab], 1, <<HeaderOf(j, c.tab)>>))
           /\ Proceeds(w, IF answer = "done" THEN Made(j, Call("check", c.tab))
                 ELSE IF j.op = "reconcile" THEN Noted(j, Call("append", c.tab)) ELSE Failed(j))
    /\ UNCHANGED <<db, enabled, tabs, edits, toggles>>

(* ensureHeaderIn on a tab that exists: an empty row 1 gets the header, the  *)
(* right one is left alone, any other one means a full rewrite.              *)
CheckHeader(w) ==
    /\ \E c \in Due(job[w]), answer \in Answers("check") :
       LET j == job[w]
       IN  /\ c.kind = "check" /\ c.tab \in ToSet(j.known)
           /\ Count(answer)
           /\ Proceeds(w,
                 IF answer # "done" THEN Failed(j)
                 ELSE IF Row1(c.tab) = Blank THEN [j EXCEPT !.todo = @ \cup {Call("header", c.tab)}]
                 ELSE IF SameHeader(j, c.tab) THEN Made(j, c)
                 ELSE [NewJob("resync", {}) EXCEPT !.back = <<Made(j, c)>>])
    /\ UNCHANGED <<db, enabled, sheetVars, edits, toggles>>

(* scanIds and readOwnTabs: the places of one tab. Tabs without our header   *)
(* are skipped. A reconcile that meets other columns in a tab with rows in   *)
(* the database rewrites the form instead.                                   *)
Scan(w) ==
    /\ \E c \in Due(job[w]), answer \in Answers("scan") :
       LET j == Made(job[w], c)
           changed == /\ j.op = "reconcile" /\ Owned(c.tab) /\ c.tab \in Groups(j)
                      /\ grid[c.tab][1].layout # j.plans[c.tab]
       IN  /\ c.kind = "scan"
           /\ Count(answer)
           /\ Proceeds(w,
                 IF answer # "done" THEN Failed(j)
                 ELSE IF changed THEN NewJob("resync", {})
                 ELSE WhenRead([j EXCEPT !.found = @ \cup IF Owned(c.tab) THEN PlacesIn(c.tab) ELSE {}]))
    /\ UNCHANGED <<db, enabled, sheetVars, edits, toggles>>

(* All updates go out in one call, which Google applies as a whole.          *)
Update(w) ==
    /\ \E c \in Due(job[w]), answer \in Answers("update") :
       LET j == job[w]
           here(t, r) == {p \in ToUpdate(j) : p.tab = t /\ p.row = r}
           last(t) == {p.row : p \in {p \in ToUpdate(j) : p.tab = t}} \cup {Len(grid[t])}
           size(t) == CHOOSE n \in last(t) : \A m \in last(t) : m <= n
       IN  /\ c.kind = "update"
           /\ Count(answer)
           /\ grid' = IF answer = "refused" THEN grid
                      ELSE [t \in Tabs |-> [r \in 1 .. size(t) |->
                               IF here(t, r) # {} THEN RowOf(j, (CHOOSE p \in here(t, r) : TRUE).id)
                               ELSE IF r <= Len(grid[t]) THEN grid[t][r] ELSE Blank]]
           /\ Proceeds(w, IF answer = "done" THEN Made(j, c) ELSE Noted(j, c))
    /\ UNCHANGED <<db, enabled, tabs, edits, toggles>>

AppendRows(w) ==
    /\ \E c \in Due(job[w]), answer \in Answers("append") :
       LET j == job[w] IN
           /\ c.kind = "append" /\ c.tab \in ToSet(j.known)
           /\ Count(answer)
           /\ IF answer = "refused" THEN UNCHANGED grid
              ELSE Writes(c.tab, Appended(grid[c.tab], RowsOf(j, ToAppend(j, c.tab))))
           /\ Proceeds(w, IF answer = "done" THEN Made(j, c) ELSE Noted(j, c))
    /\ UNCHANGED <<db, enabled, tabs, edits, toggles>>

(* The rows of one tab, by the row numbers the scan found.                   *)
Drop(w) ==
    /\ \E c \in Due(job[w]), answer \in Answers("drop") :
       LET j == job[w]
           rows == {p.row : p \in {p \in ToDrop(j) : p.tab = c.tab}}
       IN  /\ c.kind = "drop"
           /\ Count(answer)
           /\ IF answer = "refused" THEN UNCHANGED grid
              ELSE Writes(c.tab, Without(grid[c.tab], rows))
           /\ Proceeds(w, IF answer = "done" THEN Made(j, c) ELSE Failed(j))
    /\ UNCHANGED <<db, enabled, tabs, edits, toggles>>

(* rewriteTab: clear everything, then header and rows in one write.          *)
Clear(w) ==
    /\ \E c \in Due(job[w]), answer \in Answers("clear") :
       LET j == job[w] IN
           /\ c.kind = "clear" /\ c.tab \in ToSet(j.known)
           /\ Count(answer)
           /\ IF answer = "refused" THEN UNCHANGED grid ELSE Writes(c.tab, <<>>)
           /\ Proceeds(w, IF answer = "done"
                 THEN [j EXCEPT !.todo = (@ \ {c}) \cup {Call("write", c.tab)}] ELSE Failed(j))
    /\ UNCHANGED <<db, enabled, tabs, edits, toggles>>

Write(w) ==
    /\ \E c \in Due(job[w]), answer \in Answers("write") :
       LET j == job[w]
           docs == {id \in DocsOf(j) : j.docs[id].season = c.tab}
       IN  /\ c.kind = "write"
           /\ Count(answer)
           /\ IF answer = "refused" THEN UNCHANGED grid
              ELSE Writes(c.tab, Overlay(grid[c.tab], 1, <<HeaderOf(j, c.tab)>> \o RowsOf(j, docs)))
           /\ Proceeds(w, IF answer = "done" THEN Made(j, c) ELSE Failed(j))
    /\ UNCHANGED <<db, enabled, tabs, edits, toggles>>

JobStep(w) ==
    \/ Context(w) \/ Fetch(w) \/ CreateTab(w) \/ WriteHeader(w) \/ CheckHeader(w) \/ Scan(w)
    \/ Update(w) \/ AppendRows(w) \/ Drop(w) \/ Clear(w) \/ Write(w)

-------------------------------------------------------------------------------
(* The flush timer fires and nothing is in flight.                           *)
StartBatch ==
    /\ "queue" \in Workers
    /\ FlushTakes
    /\ job' = [job EXCEPT !["queue"] = NewJob("batch", deletes)]
    /\ UNCHANGED <<db, enabled, sheetVars, suspect, envVars>>

(* The scheduled pass of the form is due. It comes hours apart and a job     *)
(* takes seconds, so it begins at most once while another job runs (a bound  *)
(* of the model: without it passes could outrun a flush for ever).           *)
StartReconcile ==
    /\ "cron" \in Workers
    /\ Idle("cron")
    /\ enabled
    /\ \A w \in Workers : ~job[w].met
    /\ job' = [w \in Workers |->
                  IF w = "cron"
                    THEN [NewJob("reconcile", {}) EXCEPT !.since = IF Resting THEN <<Events>> ELSE <<>>]
                  ELSE [job[w] EXCEPT !.met = ~Idle(w)]]
    /\ UNCHANGED <<queueVars, db, enabled, sheetVars, suspect, envVars>>

(* "Sync now" in the admin.                                                  *)
StartResync ==
    /\ "admin" \in Workers
    /\ Idle("admin")
    /\ edits < MaxEdits
    /\ edits' = edits + 1
    /\ job' = [job EXCEPT !["admin"] = NewJob("resync", {})]
    /\ UNCHANGED <<queueVars, db, enabled, sheetVars, suspect, toggles, faults>>

MayDelete(ids) == MayEmpty \/ \E id \in Ids \ ids : db[id].live

(* A document is written and its lifecycle hook queues it. An edit may move  *)
(* it to another season. A deleted document never comes back.                *)
Submit(id, t) ==
    /\ db[id] = NoDoc
    /\ db' = [db EXCEPT ![id] = [live |-> TRUE, season |-> t, ver |-> 1]]
    /\ QueueUpserts({id})

(* Mutant: an edit that says nothing of the season loses it.                 *)
Edit_LosesSeason(id, t) ==
    /\ db[id].live
    /\ db' = [db EXCEPT ![id] = [live |-> TRUE, season |-> NoTab, ver |-> @.ver + 1]]
    /\ QueueUpserts({id})

Edit(id, t) ==
    /\ db[id].live
    /\ db' = [db EXCEPT ![id] = [live |-> TRUE, season |-> t, ver |-> @.ver + 1]]
    /\ QueueUpserts({id})

Delete(id) ==
    /\ db[id].live
    /\ MayDelete({id})
    /\ db' = [db EXCEPT ![id].live = FALSE]
    /\ QueueDeletes({id})

SaveDocument ==
    /\ edits < MaxEdits
    /\ edits' = edits + 1
    /\ \E id \in Ids : Delete(id) \/ \E t \in Seasons : Submit(id, t) \/ Edit(id, t)
    /\ UNCHANGED <<enabled, sheetVars, job, suspect, toggles, faults>>

(* deleteMany reports no ids, so no hook runs: only a reconcile will see it. *)
DeleteSeason(t) ==
    LET gone == {id \in Ids : db[id].live /\ db[id].season = t} IN
    /\ gone # {} /\ MayDelete(gone)
    /\ edits < MaxEdits
    /\ edits' = edits + 1
    /\ db' = [id \in Ids |-> IF id \in gone THEN [db[id] EXCEPT !.live = FALSE] ELSE db[id]]
    /\ suspect' = suspect \cup gone
    /\ UNCHANGED <<queueVars, enabled, sheetVars, job, toggles, faults>>

(* The switch only stores the setting: what was queued while it was off is   *)
(* not written when it is turned on again.                                   *)
SetEnabled ==
    /\ toggles < MaxToggles
    /\ toggles' = toggles + 1
    /\ enabled' = ~enabled
    /\ UNCHANGED <<queueVars, db, sheetVars, job, suspect, edits, faults>>

(* The server restarts: queue and jobs are gone, at whatever call they were. *)
Restart ==
    /\ faults < MaxFaults
    /\ faults' = faults + 1
    /\ \A w \in Workers : {c.kind : c \in Due(job[w])} \subseteq FailingCalls
    /\ QueueLost
    /\ job' = [w \in Workers |-> NoJob]
    /\ suspect' = IF Rewriting THEN Ids ELSE suspect \cup Pending \cup Taken
    /\ UNCHANGED <<db, enabled, sheetVars, edits, toggles>>

(* FlushDefers is the timer that fires during a flush.                       *)
Init ==
    /\ QueueInit
    /\ db = [id \in Ids |-> NoDoc]
    /\ enabled = TRUE
    /\ tabs = <<Fallback>>
    /\ grid = [t \in Tabs |-> <<>>]
    /\ job = [w \in Workers |-> NoJob]
    /\ suspect = {}
    /\ edits = 0 /\ toggles = 0 /\ faults = 0

Next ==
    \/ \E w \in Workers : JobStep(w)
    \/ StartBatch
    \/ FlushDefers /\ UNCHANGED <<db, enabled, sheetVars, job, suspect, envVars>>
    \/ StartReconcile
    \/ StartResync
    \/ SaveDocument
    \/ \E t \in Seasons : DeleteSeason(t)
    \/ SetEnabled
    \/ Restart

Spec == Init /\ [][Next]_vars

(* Every call to Google returns or throws, an armed timer fires, and the     *)
(* scheduled pass comes due again as long as its interval is not 0.          *)
Fairness ==
    /\ \A w \in Workers : WF_vars(JobStep(w))
    /\ WF_vars(StartBatch)
    /\ WF_vars(StartReconcile)

FairSpec == Spec /\ Fairness

-------------------------------------------------------------------------------
Docs == [live : BOOLEAN, season : Seasons \cup {NoTab}, ver : 0 .. MaxEdits]
LineSet == [id : Ids \cup {Label, NoId}, layout : Layouts, ver : 0 .. MaxEdits]
Ops == {"batch", "reconcile", "resync"}

TypeOK ==
    /\ QueueTypeOK
    /\ db \in [Ids -> Docs] /\ \A id \in Ids : db[id].live => db[id].season \in Seasons
    /\ enabled \in BOOLEAN
    /\ ToSet(tabs) \subseteq Tabs /\ IsInjective(tabs)
    /\ grid \in [Tabs -> Seq(LineSet)] /\ \A t \in Tabs \ ToSet(tabs) : grid[t] = <<>>
    /\ suspect \in SUBSET Ids
    /\ \A w \in Workers : LET j == job[w] IN
         /\ j.op \in Ops /\ (j.op # "resync" => j.back = <<>>)
         /\ j.docs \in [Ids -> Docs] /\ j.plans \in [Tabs -> Layouts]
         /\ ToSet(j.known) \subseteq ToSet(tabs) /\ j.dels \subseteq Ids
         /\ \A c \in j.todo : c.tab \in Tabs \cup {NoTab}
         /\ \A p \in j.found : p.id \in Ids /\ p.tab \in Tabs
         /\ ToSet(j.since) \subseteq 0 .. Events
    /\ edits \in 0 .. MaxEdits /\ toggles \in 0 .. MaxToggles /\ faults \in 0 .. MaxFaults

(* Where the spreadsheet holds a line of a document, in a tab of ours or not. *)
LinesOf(id) == UNION {{<<t, r>> : r \in {r \in DOMAIN grid[t] : grid[t][r].id = id}} : t \in Tabs}

InPlace(id) ==
    IF db[id].live
    THEN /\ Cardinality(LinesOf(id)) = 1
         /\ Owned(db[id].season)
         /\ \E p \in PlacesIn(db[id].season) : p.id = id /\ p.ver = db[id].ver
    ELSE LinesOf(id) = {}

-------------------------------------------------------------------------------
Shown(id) == LinesOf(id) # {}
Newest(id) == LET vers == {grid[p[1]][p[2]].ver : p \in LinesOf(id)}
              IN  CHOOSE v \in vers : \A u \in vers : u <= v

(* A full rewrite empties a tab before it fills it again.                    *)
Clearing == \E t \in Tabs : grid[t] # <<>> /\ grid'[t] = <<>>

(* The sheet differs from the database only where something is known to be   *)
(* left to do: the document waits in the queue, is in the flush in flight,   *)
(* its queued work was dropped or cut short, or a rewrite is running. In all *)
(* other states it stands in its own tab, once and up to date, and a deleted *)
(* document stands nowhere.                                                  *)
DriftAccounted ==
    \A id \in Ids : InPlace(id) \/ id \in Pending \cup Taken \cup suspect \/ Rewriting

(* Every line under a header of ours has that header's columns: a change of  *)
(* the column set never leaves rows under the wrong titles.                  *)
Aligned ==
    \A t \in Tabs : Owned(t) =>
        \A r \in DOMAIN grid[t] : grid[t][r].layout = grid[t][1].layout

(* The same, asked only of moments when nothing is queued and no job runs:   *)
(* what is misaligned then, no later flush is going to look at.              *)
AlignedAtRest == Resting => Aligned

(* Inserts before deletes: whatever fails, wherever the process dies, and    *)
(* whatever is edited meanwhile, a document in the database that is shown    *)
(* stays shown, except while a full rewrite has its tab cleared.             *)
NeverNowhere ==
    [][\A id \in Ids : Shown(id) /\ db'[id].live => Shown(id)' \/ Clearing]_vars

(* The newest version shown of a document never gets older, not even while   *)
(* it is moved between tabs or a lost answer is made up for.                 *)
NeverGoesBack ==
    [][\A id \in Ids : Shown(id) /\ Shown(id)' /\ db'[id].live =>
          Newest(id)' >= Newest(id) \/ Clearing]_vars

(* The work a flush took is done when it ends: a document it was to remove   *)
(* has no line left. (Stated for flushes in which no call fails.)            *)
DeletesApplied ==
    [][flushing /\ ~flushing' => \A id \in batch.deletes : LinesOf(id)' = {}]_vars

(* Whatever failed calls, lost answers, restarts, bulk deletes, pauses of    *)
(* the link and races between jobs left behind, one scheduled pass that      *)
(* began at rest and met no edit and no failure repairs it: every document   *)
(* stands in its own tab, once and up to date, and deleted ones nowhere. (A  *)
(* pass that met changed columns became a rewrite, and is not meant.)        *)
PassRepairs ==
    [][/\ "cron" \in Workers /\ ~Idle("cron") /\ Idle("cron")'
       /\ job["cron"].op = "reconcile" /\ job["cron"].since = <<Events>>
       /\ Events' = Events
       => \A id \in Ids : InPlace(id)']_vars

(* Once edits and failures stop and the link is on, the mirror comes in line *)
(* with the database for good: the queue's next flush or the scheduled pass  *)
(* repairs what failed calls, lost answers, restarts, bulk deletes and races *)
(* between the two left behind.                                              *)
Converges == <>[]enabled => <>[](\A id \in Ids : InPlace(id))
===============================================================================
