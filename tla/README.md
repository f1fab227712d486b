# EduSport backend: TLA+ models and proofs

Formal models of the parts of this repository whose correctness depends on the
order in which things happen: the intake of registrations with their numbers,
e-mails and PDFs, the mirror of form submissions in Google Sheets, the pages on
which administrators edit shared lists, and two algorithms with borders worth
checking (the calendar and the submit limiter). The modules follow the code
under `src/`; paths below are relative to `src/` unless they start with
`config/`.

TLC checks small instances of the models; TLAPS proves most of the properties of
the intake, the documents, the queue, the e-mail jobs, the prices, the seasons,
the calendar and the schedule of the passes for every value of the constants.

## 1. Inventory of the system

A Strapi 5 server for a skating school. Parents submit forms on a public web
site, administrators work on the submissions, Google Sheets mirrors them, and
parents receive e-mails with generated PDFs. One Node process runs all of it:
requests, timers and cron tasks interleave at every `await`.

| Component | State | Operations | How it meets the others |
|---|---|---|---|
| Sheets write queue (`sheets/queue.ts`) | per form, in memory: ids to write, ids to remove, a timer, the time of the first id, "flushing" | enqueue write, enqueue removal, flush | filled by the lifecycle hooks and by e-mail job writes; calls `applyBatch` |
| Sheets mirror (`sheets/sync.ts`, `client.ts`, `matrix.ts`, `registry.ts`) | the spreadsheet (outside the process), a 15 s cache of column plans | `applyBatch`, `reconcile`, `resyncForm` | reads the database, calls Google |
| Lifecycle hooks (`sheets/lifecycle.ts`) | none | after create, update, delete, bulk update | called by every database write of the four forms |
| Link settings (`sheets/store.ts`, `api/sheet-link`) | one row per form: file, tab, switch, interval, last pass; a history | create or choose a file, switch, interval, sync now, disconnect | read by every job of the mirror |
| Cron (`config/cron-tasks.ts`) | none | hourly: due reconciles, e-mail retries | calls the two above |
| E-mail jobs (`email/email-jobs.ts`, `strapi-email.ts`, `job-state.ts`) | one row per job: status, attempts | queue, attempt, retry, resend, delete | called by the submit, the cron, the admin, the deletion; calls Brevo; reads the PDFs |
| Registration intake (`club/registration-submit.ts`, `number-allocator.ts`) | registrations with unique numbers | submit with repeat lookup, number allocation with retries | writes the database, builds documents, queues the e-mail |
| Documents (`club/documents/`) | a folder of PDFs per registration; builds queued per registration | build, rebuild, list, delete, season move | called by the submit, edits, moves, the e-mail, the deletion |
| Seasons and prices (`club/season-admin*`, `club/price-admin*`) | seasons, price lists | create, edit, lock | read by the intake |
| Form configuration (`api/form-config`) | per form: an overlay over the built-in questions | load for editors and visitors, save, check of a submit | the form editor; its questions are columns of the one-tab sheets |
| Ordered lists, menu cards, single types (announcements, sponsors, team, `api/navigation`, `admin/lib`) | small documents | read, change, write back whole | admin pages |
| Table of registrations (`admin/dashboard/SubmissionTable.tsx`) | in each browser: the rows on the screen, ticks, requests under way | list, save a field, remove, archive, move to a season | calls the registration routes; the server moves a season row by row |
| Submit limiter (`utils/rate-limit.ts`) | per address: a window and a count, in memory | hit, prune | in front of the public submit |
| Calendar (`api/calendar-event/services`) | events with recurrences | expand, validate | pure |
| Dashboard, skate proxy, other forms, page controllers, admin screens, scripts | none of their own, or plain rows | reads and single writes | |

What is hard, and what each component must keep:

* **Queue.** An id queued while a flush awaits Google must not be lost or
  stranded; a steady stream of edits must not starve the flush; the last
  intention for a document wins.
* **Mirror.** No transaction spans the database and the sheet, nor two calls to
  Google. A job works for seconds from what it read at its beginning, while the
  database, the queue, another job and Google go on. A call may be refused, or
  be done and its answer lost; the process may stop between two calls. A
  document must not disappear from the sheet while it moves between season tabs,
  nor go back to an older version; what is lost must be found again; rows must
  not stand under the titles of other columns.
* **E-mail jobs.** Submit, cron and resend may attempt one job at once, each from
  the row it read; the process may stop between sending and writing that down. A
  job must be given up only after the promised attempts, a parent must not get
  the e-mail twice without a reason, and no job may wait for ever.
* **Intake.** Two submits of one draft, several submits racing for a number,
  several e-mails racing for the recipient cap: a child must not be registered
  twice, a number must not be given twice, a submit must not fail for nothing.
* **Documents.** A build racing a deletion, builds racing each other, a
  background rebuild lost in a restart: what is stored must be what the row
  says, and there must always be an Acord.
* **Administration.** Documents read, changed and written back whole, by pages
  that are minutes old; labels and names looked up before they are stored;
  orders stored one row at a time; saves of two calls of which the second fails.
* **Schedule.** Ticks that come late by varying amounts, stamps written minutes
  after the link was read, first rows looked for and then created.
* **Calendar.** Week parity and occurrences at the borders of a window, of a
  season and of the day.

`PROJECT.json` lists every component with its status, and every hazard at its
line with the properties that watch it.

## 2. Modules

```
WriteQueue            what the queue promises (no clock)
  ^ implemented by    DebouncedQueue      the queue with its debounce and cap
  ^ extended by       SheetMirror         queue + database + jobs + spreadsheet
                        ^ MCSheetMirror   sets of failing calls for TLC
EmailJobs             the registration e-mails
Intake                a submit from its arrival to its e-mail  (MCIntake)
Documents             the stored PDFs                          (MCDocuments)
PriceAdmin  SeasonAdmin  MenuCards  PageEditing  FormConfig  RowOrder
SubmissionTable  RateLimit  CalendarExpansion  PassSchedule  SingleSheet
                      components that keep to themselves       (Desk has them side by
                      side, MCDesk gives TLC what is stored at first)
*Proofs               theorems about the module of that name; DeskProofs has those
                      of Desk's components, but for FormProofs about FormConfig
                      and TableProofs about SubmissionTable
```

### WriteQueue and DebouncedQueue (`sheets/queue.ts`)

`upserts`, `deletes` and `flushing` are the fields of `Pending`; `batch` is what
`flush` took into its local variables. In `WriteQueue` a timer is only armed or
not; in `DebouncedQueue` it has the ticks left (`due`), and `waited` is the time
since `firstQueuedAt`. One action per operation: `QueueUpserts`/`QueueDeletes`
(`queueUpsert`, `queueDelete` and the `schedule` they end with), `FlushDefers`
(the timer fires during a flush and is re-armed), `FlushTakes` (the synchronous
part of `flush` up to its await), `FlushEnds` (the `finally`), and the restart.
A flush's log write before the `finally` is part of `FlushEnds`.

`DebouncedQueue` is shown to implement `WriteQueue` under the mapping that an
armed timer is `due # NoTimer`: `INSTANCE WriteQueue WITH timer <- due # NoTimer`.

### SheetMirror (`sheets/sync.ts` and what it calls)

The database maps an id to whether it is live, its season and its version. The
spreadsheet is a sequence of tabs and, per tab, a sequence of lines; a line has
an id, the column layout it was written in and a version, the header is a line
with the id `Label`. A line under a header of the other layout shows no id, as
the code finds an id by the position of its column.

A job (`job[w]`, one per worker: the queue's flush, the cron, the admin) holds
the calls to Google it has still to make (`todo`) and what it has read: the tabs
(`ctx.tabs`), the columns planned for each (`ctx.plans`), the rows, the places
found. **Each call is one action**, so anything may happen between two calls:

| Action | Code |
|---|---|
| `Context` | `context`: link, tab list, plans |
| `Fetch` | `fetchByIds` (batch), `fetchAll` (reconcile, rewrite) |
| `CreateTab`, `WriteHeader`, `CheckHeader` | `ensureTabIn`, `ensureHeaderIn` |
| `Scan` | `scanIds`; `readOwnTabs` with `layoutOf` |
| `Update`, `AppendRows`, `Drop` | `applyChanges`, `appendRows`, `deleteAfterInserts`, `dropRows` |
| `Clear`, `Write` | `rewriteTab` |
| `StartBatch`, `StartReconcile`, `StartResync` | `flush` → `applyBatch`; the cron task; "sync now" |
| `SaveDocument` (`Submit`, `Edit`, `Delete`) | a write and its lifecycle hook |
| `DeleteSeason` | `deleteArchivedSeason`: a bulk delete without hooks |
| `SetEnabled`, `Restart` | the switch of the link; the process stops |

The order of a job's calls is `CallOrder`: everything is read first, then
updates, appends, removals. `ToUpdate`, `ToAppend` and `ToDrop` are what
`batchChanges`, `reconcileChanges` and `movedAway` work out. A failed call ends
the job (`Failed`), except that `applyChanges` notes a failed write, goes on with
the other writes and leaves out the removals (`Noted`). A job that meets other
columns in a tab becomes a full rewrite (`NewJob("resync", ...)`); a rewrite that
reports no count returns to the batch that started it (`failedOrRewrote`).

`suspect` is a history variable: the ids whose queued work was dropped or cut
short. Nothing in the code corresponds to it and no guard reads it; it lets
`DriftAccounted` say that the sheet differs from the database only where
something is known to be left to do.

A job's `since` is history too: how often the environment had acted when a pass
began at rest. A pass that ends with the same count ran undisturbed.

### EmailJobs (`email/email-jobs.ts`)

`rows` are the stored jobs, `older` their order by `updatedAt` and `quiet` those
untouched for `QUIET_MS`. `work[w]` is what a submit request, a resend or the
cron is doing: an attempt holds a **snapshot** of the row it read, sends (`Send`:
`compose` and the call to Brevo) and then writes the outcome worked out from that
snapshot (`SaveOutcome`); anything may happen between. Any of its writes may fail
(`StoreFails`): a job whose outcome could not be written stays queued, also when
its e-mail was delivered. `SkipJob` is the attempt that sends nothing. `CountRecipient` and `CreateJob` are the two steps of
`queueRegistrationEmail`; `Resend` and `ReuseJob` those of `jobForResend`.
`DeleteJobs` and `DeleteRegistration` are the two steps of `deleteSubmission`.
`tried`, `delivered` and `excused` are history: attempts made, e-mails that
reached the parent, and reasons why one more may.

### SingleSheet (`sheets/sync.ts`, the forms with one tab)

The volunteers', partners' and contact forms have one tab each and their own
path through `sync.ts`: `batchSingle`, `reconcileSingle`, `resyncSingle`. As in
SheetMirror every call to Google is an action and a job keeps what it read. What
is different, and why it is a module of its own: the columns are those of the
form's custom questions, answered questions that are gone keep a column
(`customColumns`), the plan is cached for 15 s and shared by the jobs
(`resolvePlan`; a pass plans over the rows it read), `fetchAll` stops at
`ROW_LIMIT`, and a line is found by its last ID cell alone (`readIdMap`). Of the
columns two are kept: one that is the ID or an answer, by the plan, and the ID
behind it. `calm` marks a job nothing has disturbed since it began, `crossed`
and `emptied` what excuses misplaced lines.

### PassSchedule (`config/cron-tasks.ts`, `sheets/store.ts`)

When a form's pass runs: a tick per hour with its lateness, the forms one after
the other, the look at the link, the pass, the stamp; beside it the requests that
connect, disconnect, switch and time a form. Every write of a link is two steps,
`findFirst` and the update or create (`saveLink`). `Stored` is the second,
`With` its patch. `ran` remembers the hour whose tick last stamped a form.

### Intake (`club/registration-submit.ts` and what it calls)

One process per submit (`pc`): settings, season and school read on arrival
(`Arrive`), the repeat lookup (`FindRepeat`), the numbers in use (`ReadNumbers`),
the insert against the unique index with its retries (`Insert`), the job count
and the job (`CountJobs`, `QueueEmail`). `NextCandidate` is `nextCandidate`: one
past the number that clashed, or past the highest read. Documents are built
between insert and e-mail; that is the other module. Administrators delete
registrations and change season, switch and schools meanwhile; calls fail with
or without having been done (`InsertUnanswered`), the process restarts.

### Documents (`club/documents/`)

A row and its folder are two stores. Every process that builds (submit, edit,
download of a missing file, season move) waits for its turn in the
registration's `line` (`oneAtATime`), reads the row, and writes the files one at
a time before the old ones are removed (`replaceStored`). A PDF is its name and
the revision of the row it was rendered from. A deletion removes the row and
then the folder, waiting for no build.

### The administrators' pages

* **PriceAdmin**: read the list, apply the edit, look for the name elsewhere,
  write the list, record it, answer with the page: one action per await.
* **SeasonAdmin**: look up the label, count the registrations, store; with the
  submits and moves that store a season's link and label in a registration. An
  edit of the fee or the months skips both checks and writes the whole record,
  with the label it read (`Find`).
* **MenuCards**: read all rows, write all rows.
* **PageEditing**: load, type, save the changed fields, publish, fetch again, as
  `useSingleType`, `usePageForm` and `useSaveState` do it for every single type.
* **FormConfig**: the overlay and its three merges (`mergeEditModel` for the
  editor, `mergePublicModel` for visitors, `effectiveRequired`/`validateExtra`
  for a submit), and `buildOverlay` of a save; `KeyOf` is how an added question
  keeps or gets its key. The lists the code filters are `Only` some places of
  another, so that the order of what is left can be proved about; `WellStored` is
  what `buildOverlay` makes and so what may be stored at first.
* **RowOrder**: the two ways an order is stored, at once by the page (`Land`,
  `PutFails`, `StrayLands`) or one by one by the server (`UpdateNext`). Every call
  of a page may fail, done or not: a rename (`RenameFails`), a deletion
  (`DeleteFails`), a write of a move, and the list loaded after them (`LoadFails`),
  whose failure leaves the old rows on the screen. `blind` is the ghost that says a
  page did not get to see the last change.
* **SubmissionTable**: the table of registrations. `page[b]` is what a browser
  holds: the view asked for, the rows on the screen, the list under way, the
  ticks. A list is read (`Read`) and shown (`Show`) in two steps, and a new one
  drops the one before (`Asked`). `saves`, `parts` and `move` are the requests
  under way: a field written at once and taken back on failure (`AskSave`,
  `SaveFails`), the parallel requests of a removal or a ticked group
  (`PartDone`, `PartFails`: the page stops waiting, the others go on), a season
  moved row by row on the server (`MoveNext`). Search, orders, columns, counters
  and the confirmation dialog are left out. `excused`, `since`, `early` and
  `raced` are history. Removing or archiving the last row of the last page
  leaves that page number asked for: the page is then empty and its pager gone,
  and it still shows what its view asks for.

### RateLimit and CalendarExpansion

`RateLimit` is `createRateLimiter` with its clock. `CalendarExpansion` is
`expandOccurrences` as it runs, a day or a month a step, so that its loops, their
bounds and what decides the status of a day can be compared with a reading of
the rules that has no loops (`ExactlyTheMeant`). An occurrence has its status and
the day it is answered on (`OutDate`, an override's new date). Local midnights are
counted in hours (`Midnight`) and `weekIndex` rounds the weeks between two down, as
the code does: where the process has a time zone, `SummerTime` holds the days that
begin with the clocks an hour ahead; it is empty in UTC, in which the containers
run. `Found` says what comes of it: a fortnightly rule is found in its other weeks
(`CountedShort`) while clocks are ahead of what they were in its anchor's week.

## 3. Runs

| Run | Instance | Question |
|---|---|---|
| `queue` | 2 ids, debounce 2, cap 10 ticks | no starvation, no stranded burst, refinement |
| `mirror_flush` | 2 documents, 2 seasons and the fresh file's tab, one of the documents from the script form; 4 edits, 2 faults; flushes only | nothing drifts unnoticed, nothing vanishes or goes back |
| `mirror_heals` | 2 documents, 2 edits, 1 fault; flushes and scheduled passes; fair | the mirror converges |
| `mirror_pass` | as above with "sync now" and two uses of the switch | one pass that runs undisturbed repairs everything |
| `mirror_headerless`, `mirror_subsumed`, `mirror_misaligned` | see section 6 | what the comments promise and the code does not do |
| `email` | 1 registration, 1 admin, 2 attempts, 2 resends, 2 faults; fair | attempts, duplicates, settling |
| `email_sent` | the code's own constants, 1 resend, no fault | see section 6 |
| `intake` | 3 submits, of one draft or without one, 2 years, 2 schools, 1 retry, numbers up to 2, cap 1, 1 change of the settings, 1 fault | numbers, repeats, the cap |
| `documents` | 1 registration, 2 requests, 2 sets of answers, 2 revisions, 2 faults; fair | what is stored is the row's; builds settle |
| `desk` | eleven components, two administrators, 2 to 3 requests each and 1 fault; see `Desk` | each component's own properties |

What the properties say is written above each of them in its module.

**Why `desk` is one run.** Its components share no state, so a behaviour picks
one of them (`part`) and leaves the others as they started: the reachable states
are the sum of theirs, not the product. A property of the run is the conjunction
of what its component states, named in `Desk`:

| Property of `desk` | Parts, in their module |
|---|---|
| `PricesKept` | `NamedOnce`, `HistoryBalances`, `OthersKept` |
| `SeasonsAgree` | `LabelsOnce`, `MarksAgree` |
| `PagesKept` | `NothingUnpublished`, `OnlyTypedStored`, `OnlyLateTextLost` |
| `FormKept` | `RequiredIsShown`, `KeyMeansOne`, `UntouchedKept`, `SavedIsAsked` |
| `ListsKept` | `LastAskedShown` (MenuCards), `PageTrue`, `OrderAsAsked` (RowOrder) |
| `TableKept` | `TableTrue`, `SelectionShown`, `MovesOnlyItsSeason` |
| `PassesBounded` | itself |
| `OccurrencesRight` | `ExactlyTheMeant`, `WholeDays`, `EndsAfterStart` |
| `PassesPunctual` | `OneLink`, `Punctual`, `ChoicesKept` |
| `TabKept` | `RowsInPlace`, `PassRepairs` |

Most components have a changed operator of their own in their module (named
`X_How`, marked "Mutant"), a bug their property is there to catch; `PROJECT.json` names one
for every property of a run.

**Bounds.** `MaxEdits`, `MaxToggles`, `MaxFaults` (mirror) and `MaxResends`,
`MaxFaults` (e-mail) bound how often the environment acts; the jobs themselves
are unbounded. Two documents and two seasons are the smallest instance in which
rows shift under a stale scan, two documents share a tab, and one of them leaves
it for another; a third tab (`Fallback`) is the blank one of a fresh file. With
one document of the script form a tab changes its columns in both directions.
`mirror_flush` allows four edits: submit, submit, move, delete or move back. Two
faults allow a failed flush and a lost answer or a restart on top of it.
`StartReconcile` begins at most once during another job; without that bound
passes could outrun a flush for ever, which hours between passes exclude. In
`email`, two attempts and two resends give every overlap of three writers of one
row; `MaxAttempts` only moves the point at which a job is given up.

`intake`: three submits are two that race and one beside them, with one retry
the smallest number in which a submit runs out of tries because two others won;
numbers up to 2 in two years are used up by three submits; a cap of 1 is passed
by two that count together. `documents`: two requests and a move give builds that
wait, overlap a deletion and follow one another; the registrations share only the
mover and the fault budget, so one is enough; the two sets of answers differ in
every file name and in the second document. `desk`: two administrators and two or
three requests let one of them work from a page the other has outdated, and one
fault falls into any call. Calendar rules cover one-off events, every repetition
with one and two weekdays, four choices of the n-th weekday, four seasons and the
times and the new day of an override, over windows of one day, of a few and of
months, inside, at the end of and beyond the season, in January to March of a year
beginning on a Thursday, with clocks going forward in the middle (day 46 is the first in
summer time, earlier than in any zone, so that every longer window sees the change). The limiter runs for two and a half windows. The schedule has three hours, two latenesses around the
tolerance and intervals off, one and two hours. The one-tab mirror has three
submissions with a row limit of two, two edits, one change of the questions and
one fault; its jobs meet once, before a fault or a change of the questions. The
table has three registrations, one archived and one still to arrive, pages of one
and two rows, and two requests or changes of view: a second page, a row that
leaves a view, two requests crossing and a fault in either occur.

**Fairness.** A job goes on (`WF(JobStep(w))`): every call to Google returns or
throws. The armed timer fires, the scheduled pass comes due again (an interval
other than 0), an e-mail attempt ends (Brevo is given 20 s), time passes, and
the hourly cron runs. In `Documents` a build goes on, each process on its own
(`BuildStep`), and the season move's loop does (`MoveStep`): both are sequences
of awaited file and database calls that return or throw. Requests, edits, faults
and restarts are never forced. `desk` and `intake` check safety only.

**Deadlock** is not checked in `intake`, `documents` and `desk`: every request
answered and every bound used up is a legitimate end.

**Restrictions of `mirror_flush`.** `Aligned` is checked without scheduled
passes, with a link that stays on and a database that never runs empty
(`MayEmpty = FALSE`). Outside these the code does leave misaligned rows: with a
pass beside a flush (section 6); and when a rewrite finds no rows or the link
switched off it reports no count, so `failedOrRewrote` lets the batch go on and
write its columns under the old header. `mirror_heals` and `mirror_pass` have one
layout and fail only calls after which a tab is not left without its header, for
the reasons in section 6.

## 4. Proofs

All theorems are checked by `tlapm` for every value of the constants. `Alone`
below is the only hypothesis any of them has beside the assumptions named at the
end.

* **DebouncedQueueProofs.** `TypeOK` needs `DelayIsCapped` and both need
  `waited <= MaxWait`; with them the timer's delay is never negative.
  `PendingIsArmed` then gives `Implements`, the step simulation of `WriteQueue`
  (a tick is a stutter, everything else maps to the action of its name).
* **SheetMirrorProofs**, in three parts.
  * *The abstract queue.* The inductive invariant is the conjunction of
    `QueueTypeOK`, `OneIntention`, `PendingIsArmed` and `TakenIsInFlight`: that an
    id waits in one set only is what makes the batch taken from them consistent,
    and that the batch is held exactly during a flush is what makes the end of a
    flush harmless.
  * *The mirror with any workers.* Every step of the mirror is a step of the
    abstract queue or leaves it alone (`MirrorKeepsQueue`), whatever the jobs
    read, write and lose; so the queue's invariants hold in the mirror too.
    `MirrorTypes` gives `TypeOK`. It is not inductive: that a job calls only for
    tabs the spreadsheet has depends on what it read, and a line's version on the
    number of edits. `SheetInv` adds the shape of a job between its calls, that the
    places it found are lines below the header of existing tabs, that `Label`
    stands in row 1 only, and that no line is newer than the edits made.
  * *The queue alone* (`Alone`: `Workers = {"queue"}`, `MayEmpty = FALSE`,
    `MaxToggles = 0`, the setting of `mirror_flush`). For any number of documents,
    seasons, edits and failures, any failing calls, a restart anywhere:
    `AloneKeepsAligned`, `AloneAccountsForDrift`, `AloneNeverNowhere`,
    `AloneNeverGoesBack`. Their invariant `AloneInv` says, of a spreadsheet `g`
    and a job `j`, what the job may rely on in each phase. *Starting*: nothing was
    found yet. *Reading*: every place found is where the tab shows it now, and a
    tab past its check has the job's header. *Writing a batch*: the places are
    accurate as long as they are needed (updates move no row, appends go behind
    them, a tab's removals use them once); what is not on the list is done; what
    has to be removed is found and its tab still on the list, for which the job
    must not have failed a write (`ok`). *Writing a rewrite*: a tab is emptied
    before its header, and holds its season's rows once it is off the list. Around
    the job, tabs are tidy (one header, each document once, all in its columns),
    never ahead of the database, and every document that is not `open` (waiting,
    taken, or `suspect`: known to have lost its work) stands where it belongs.
    A row the job read is the database's or its document waits again, which is
    what the edit's hook is for. The two step properties follow from what a
    single call takes away: an append or an update came first, or a rewrite has
    a tab cleared (`Clearing`). TLC checked `AloneInv` on the bounds of
    `mirror_flush` before it was proved. The theorems do not cover the scheduled
    pass or a rewrite asked for beside a flush; section 6 shows why they could not.
* **EmailJobsProofs.** `GivenUpAfterAttempts` is not inductive: a job fails when a
  *snapshot's* counter reaches the limit, and resends reset the stored counter
  while snapshots of the old one are still about. The strengthening says that no
  counter, stored or held, exceeds the attempts made on the job (one more is
  accounted for once the attempt is sent), and that a row without a registration
  never gets one again. One lemma per operation shows it preserved.
  `DuplicatesAccounted` needs to know who may still deliver: `Claimants(j)` are the
  workers that hold the queued row or are about to reuse it and, while nobody has
  read it, the row itself. Delivered mails and claimants together are at most one
  more than the excuses (`Covered`). An attempt that is accepted turns a claim into
  a delivery; whatever makes a claim out of nothing is one of the excuses: a resend that reuses
  the job, a lost answer, a restart or a failing update after a delivery.
* **IntakeProofs.** A candidate is free
  when it is worked out; it is taken later only because another submit inserted it
  in between, and that insertion was counted. So `Losses` says that a submit has
  lost no more tries than others beat it, and one fewer while the number it holds
  is taken, which gives `ClashOnlyWhenBeaten`. `Above` puts a candidate over
  everything stored when its submit arrived (`LaterIsHigher`); `NotFound` says
  that a submit past its lookup would not find its draft now (`RepeatStoredOnce`);
  `NoJobYet` that jobs come last (`OneJobEach`). `Phases` ties them together: what
  is stored, known and answered, by where a submit stands. For the cap, `Counted`
  bounds the jobs of a family *and* the submits that have counted and not queued
  yet, together, by the cap and the most that ever overlapped: the one that counts
  last saw every job stored before (`CapPassedByOverlapOnly`).
* **DocumentsProofs.** The five safety properties. What the rest hangs on is the
  turn of `oneAtATime` (`Turns`): only the head of a registration's line builds
  it. Then nothing in a folder is younger than the row the build has read
  (`Ages`), what the build has written stays until it is done (`Written`), and a
  live registration's row is printed, being printed, or someone will ask for it
  (`Current`); a removed folder stays empty unless a build overran it (`Emptied`).
* **FormProofs.** The five properties of the form editor, for any editors,
  registry, texts and overlay stored at first. Lists come first: `Only` keeps some
  places of a list in order, what it keeps once and where (`OnlyIs`), and two lists
  one after the other (`OnlyConcat`). With them, what the merges show of a stored
  overlay (`StepKeysIs`, `AskedIs`, `MergeFits`), from which `RequiredIsShown`
  follows for every overlay. Then the round trip: what `buildOverlay` makes of a
  page that may be saved is again an overlay that may be stored (`BuiltStored`),
  is asked of visitors in the order and with the texts the page showed
  (`BuiltSeen`), and asks each question that has a key as the page showed it
  (`BuiltShows`). Each edit of a page leaves it fit to be saved and every other
  question as it was (`Edited`, one lemma per edit). `FormInv` carries this over
  the awaits: the copy a save sends and the overlay built from it belong together
  (`SaveFit`); a page that is not blind shows what is stored but for what was
  touched, and so does the copy it is saving (`ShowsStored`), which gives
  `UntouchedKept`; the keys a save has drawn are in nobody else's hands until it is
  stored (`NewAlone`), which gives `KeyMeansOne` though a failed read checks no
  types. TLC checked `FormInv` on two editors before it was proved.
* **TableProofs.** `TableTrue` speaks of a page at rest; `BrowserInv` says what a
  page may count on meanwhile. A row on the screen is as it is stored, or ahead of
  the store by the one save under way, or changed by the page itself and about to
  be read again, or excused (`RowsTrue`). A page has one save of a row under way
  (`SavesApart`), so what a failed save takes back is what is stored. A list read
  and not shown yet is the stored one but for rows changed since (`AnswerKnown`,
  `ListsFit`), and with nothing to account for the rows on the screen are those
  the view finds, in its order (`IdsTrue`): a save changes a filter's answer only
  when the page knows. `TicksTrue` and `MoveKnown` are for the ticks and the season
  still to be moved. What the server answers comes first, as lemmas: the `n`-th row
  found, none twice, the same rows whenever the view finds the same.
* **DeskProofs.** What `desk` checks, for each component of `Desk` that has a proof:
  a behaviour of `Desk` is one of the component's own specification. The form and
  the table bring theirs (`FormKept`, `TableKept`). The others are proved here:
  * *Prices* (`PricesKept`). `NamedOnce`, `HistoryBalances` and `OthersKept` look
    at the store and the history; `PriceInv` says what a request holds between its
    awaits: the list it is about to write is its edit of the list it read, and
    that is the stored list unless another write came in between (`overtaken`);
    its name was found free of that list; and what it is about to record is
    exactly that change. What adding, changing and removing one item does to a
    list's names and to how often an item stands in it comes first, as lemmas.
    `HistoryBalances` counts: what is stored, what the entries say and what the
    requests still have to record change together, by one, in every step.
  * *Calendar* (`OccurrencesRight`). It compares loops with a reading that has
    none. The lemmas are about days: the months' starts ascend and every day lies
    in one month; the weekday of a day; the Mondays passed since a day are the
    weeks between (`WeeksAreMondays`, fortnights); the n-th or last weekday of a
    month (`NthWeekday`). `MonthStart` is recursive: that its equations have a
    solution, and what the solution says, is shown of the least month that would
    be a counterexample, as the library's induction theorems cannot be used.
    The hours of two Mondays differ by whole weeks, or by one hour from them where
    clocks changed, and then the quotient is one short (`Short`). `CalendarInv` says
    that the days found are those of `Found` the cursor has passed, each with its
    status and its day; at the end it has passed them all (`AllPassed`).
  * *Seasons* (`SeasonsAgree`). `LabelsOnce` and `MarksAgree` look at the store;
    what makes them inductive is what the requests hold between their awaits: a
    label about to be written is free unless another write came since its check
    (`SeasonLabelFree`), a label about to be written over another is of a season
    no registration points at (`SeasonCounted`), and the two marks a submit is
    about to store agree, the last two until a label changes while a registration
    joins its season (`crossed`). An edit of the fee passed no check; until another
    writes, the label it puts back is the one that stands there, which changes
    nothing.
  * *Schedule* (`PassesPunctual`). That a save which found no row is its form's
    only one gives `OneLink`; that every stamp lies in the hour of the tick that
    made it gives `Punctual`, by a lemma on whole hours: with ticks late by no more
    than the tolerance, and the tolerance and the lateness together under an hour,
    comparing instants is comparing hours. That a save under way names a row that
    is there gives `ChoicesKept`: a patch changes the columns it names.
  * *Limiter* (`PassesBounded`). A hit that passed belongs to the window in the map
    or to one that closed before that began (`Remembered`), and two that passed
    have different places in one window or windows that do not overlap (`Apart`).
    So the hits of a stretch fall into at most two windows, and by the lemma
    `OneWindow` each gives no more than the limit.
  * *Edit pages* (`PagesKept`). A field in which a working copy differs was typed
    there (`DirtyTyped`), and one neither late nor overtaken is in the body of the
    save under way or already in the draft (`OwnTextOnItsWay`).
  * *Menu cards* (`ListsKept`). What an update not overtaken is about to write is
    its edit of what is stored now (`NextIsEdit`).
  * *Ordered lists* (`ListsKept`). A page that has seen every change shows the stored
    rows but for those still being written (`Fits`), and the rows a loop has passed are numbered in the order
    asked for (`NumberedSoFar`). The lemmas on removing, inserting and sorting rows
    stand before them.

Assumptions: those of `DebounceAssumption`, `MirrorAssumption` (finitely many ids,
none of them the header's label or the empty cell), `EmailAssumption` and the
assumptions named in `Intake` and `Documents`, evaluated by TLC in every run of
those modules, and the assumptions of the components of `desk`, which
`DeskAssumption` in Desk has TLC evaluate.

Model-checked only:

* `PassRepairs` of the mirror and `TabKept` of the one-tab form: scheduled passes
  beside flushes, where the invariant must say what each of two jobs may still
  believe of the other's writes.
* The mirror's contents with other workers than the queue, as far as they hold.
* `TypeOK` of `desk`, which takes in the one-tab form, the one component of `Desk`
  without a proof. The types of the others are proved, with their invariants.
* Liveness (`UpsertIsTaken`, `Converges`, `EveryJobSettles`, `EveryBuildSettles`),
  which is out of the prover's reach.

## 5. What the models leave out

* **Sheets**: links and formats of cells, the sync history, a file or tab chosen
  anew, edits made by hand in the sheet, `upsertRow`, `deleteRow` and
  `ensureHeader`, which nothing calls. SheetMirror has no row limit. SingleSheet
  leaves out creating the tab and a failed read of the form's questions, which
  counts as a form without any (`loadMeta`).
* `afterUpdateMany` re-reads the rows with the filter the update has just made
  false. Its only caller archives a season, and the archive flag is not a column,
  so nothing visible is missed.
* **Schedule**: ticks never overlap (a tick that outlasts an hour), the tab name
  and the sync summary in the link, the check of a link before it is saved.
* In `EmailJobs` all registrations have one address, the 24 h window of the cap
  is not counted, and the cron's held jobs are tried in any order. Cron runs do
  not overlap: a hundred attempts of 20 s end within the hour.
* **Intake**: the checks on single answers pass or fail as a whole; the honeypot,
  archiving and exports; deleting a registration is one step (EmailJobs and
  Documents have its steps).
* **Documents**: rendering, the token of a download link, one season move at a
  time.
* **Forms**: the options of lists, the registration form's policy of dropping
  added questions (`custom-policy.ts`); labels stand for all texts.
* **Calendar**: titles, places and the order of the answer; changes of the clocks
  by other than an hour, or at midnight itself.
* **Table of registrations**: search, the other orders, counters, exports, view
  settings; an edit that rebuilds PDFs (Documents has the rebuild).
* **Prices and seasons**: the values of a season's period and fee, the ticks of a
  price.
* The components with status `not_modelled` in `PROJECT.json`, with the reasons:
  views that keep no state, layout, generated routes, scripts run by hand.

## 6. Where the code and its comments disagree

1. **`mirror_headerless`**: a tab of ours whose row 1 is empty counts as foreign
   in `reconcile`, which appends rows to it at every pass and never writes its
   header, though the pass is said to heal earlier failed writes.
2. **`mirror_subsumed`**: a flush that meets a changed header rewrites the form
   and drops its removals, though the comment calls the queued work subsumed.
3. **`mirror_misaligned`**: a pass that runs beside a flush writes rows of the old
   columns under a new header, which the rewrite is meant to exclude.
4. **`email_sent`**: two overlapping attempts after a resend can turn a job from
   `sent` back to `queued`; the state machine in `job-state.ts` has no such arrow.

Smaller things the models had to allow for, each an excuse in some property:

* **Intake.** A form sent again after registrations have closed is answered
  "closed" though the first submit stored it. A process that stops between the
  insert and the e-mail leaves a registration unmailed, and the repeat queues
  nothing because "its first submit already did" (`email/after-submit.ts:6`).
* **Documents.** A write that fails leaves new files beside old ones, where
  `storage.ts:64-65` has the old files stay. A build that ends after the folder
  was removed brings it back.
* **Forms.** `loadOverlay` answers a failed read with `{}`: the page shows the
  bare registry and a save from it replaces every stored edit. A save repeated
  after a lost answer mints a second key. A page loaded before another's save
  brings back what that removed and drops what it added.
* **Ordered lists.** `Promise.all` gives up at the first failure and the page
  reloads with the other writes under way. A new order is written as whole rows,
  so it undoes a rename made meanwhile. A loop that stopped half way leaves an
  order the page does not show. `load` catches its own failure: after a rename or
  a failed move ("Lista a fost reîncărcată") the old rows stay on the screen and
  nothing says so. A rename or a deletion stored without its answer is not shown.
* **Seasons.** An edit of the fee writes the label it read, without the lock: beside
  a rename it puts the old label back, over another season's or over the one a
  registration has just taken.
* **E-mails.** A delivered job whose update fails stays queued and is mailed again.
* **Calendar.** In a time zone with summer time a fortnightly event changes to its
  other weeks when the clocks go forward, though `expand.ts:88` speaks of no drift.
  An occurrence an override moves is found only in windows that hold its old day.
* **Single types.** A publish that failed leaves fields stored that the page does
  not know of; the next save publishes them. Text typed during a save is lost.
* **Table of registrations.** A change of another page shows only with the next
  list. Two saves of one row that cross, and a save stored whose answer was lost,
  leave on the screen what is not stored. A season's move takes along a row an
  administrator changed while it ran.
* **One-tab sheets.** A flush and a pass that both append an id leave two lines,
  and no pass takes the first away; only "sync now" does. A rewrite inside a flush
  that finds no rows lets the flush go on with columns planned before it. The plan
  is not dropped before a flush, so a new question's first answers may be missing
  until the next pass. Rows beyond `ROW_LIMIT` leave the sheet with the next pass.

## 7. Plan

Done, in this order: queue, mirror and e-mail jobs with their proofs; intake and
documents with theirs; the administrators' pages, the limiter and the calendar;
the schedule of the passes and the one-tab sheets; the table of registrations;
the proofs about the seasons and the schedule; the proofs about the sheets' types,
about a queue that works alone, about duplicates of e-mails and the cap, and about
the limiter, the edit pages and the lists, the prices, the calendar, the table of
registrations and the form editor. What would add most next:

1. A proof that a pass which runs undisturbed repairs every tab, from `SheetInv`
   and the phases of `AloneInv`; the same for SingleSheet.
2. Intake and Documents as one module, with the deletion step by step.
3. The announcements' form and the registrations' status endpoint.

## 8. Running

    tlc -workers 2 -config mirror_flush.cfg MCSheetMirror
    tlc -workers 2 -config desk.cfg MCDesk
    tlapm DocumentsProofs.tla
