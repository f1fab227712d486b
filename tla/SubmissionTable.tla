-------------------------- MODULE SubmissionTable --------------------------
(***************************************************************************)
(* The table of registrations (src/src/admin/dashboard/SubmissionTable.tsx)*)
(* over its routes (src/src/api/registration-submission/controllers/       *)
(* registration-submission.ts).  A page shows the rows a view asks for:    *)
(* one season, archived or not, perhaps one status, one page of them.  It  *)
(* writes a field at once and takes it back when the write fails, removes  *)
(* rows, and moves, archives and deletes the ticked ones.  A list is read  *)
(* in one step and shown in a later one, and only the last one asked for   *)
(* is shown.                                                               *)
(*                                                                         *)
(* Rows come newest first; the other orders, the search and the counters   *)
(* above the table are left out.  The volunteers' table is this one        *)
(* without seasons and archive.                                            *)
(***************************************************************************)
EXTENDS Integers, Sequences, FiniteSets, SequencesExt

CONSTANTS Browsers,
          Newest,     \* the registrations, the newest first
          Submitted,  \* what they say: a function
          AtFirst,    \* those stored at first; the others arrive
          Seasons, Current, Statuses, Kins,
          Alta,       \* the relationship that comes with a text
          Nothing,
          Sizes, FirstSize,  \* rows on a page
          MaxAsks, MaxFaults  \* bounds: requests and changes of view, failed calls

Rows == Range(Newest)
Row == [season : Seasons, archived : BOOLEAN, status : Statuses,
        relationship : Kins, relationshipOther : BOOLEAN]  \* the text is there or not
View == [season : Seasons, only : BOOLEAN, status : Statuses \union {Nothing},
         size : Sizes, page : 1..Len(Newest)]

TableAssumption ==
  /\ Newest \in Seq(Range(Newest)) /\ Newest # <<>> /\ IsInjective(Newest)
  /\ Nothing \notin Statuses /\ Alta \in Kins
  /\ Submitted \in [Rows -> Row] /\ AtFirst \subseteq Rows /\ Current \in Seasons
  /\ IsFiniteSet(Sizes) /\ Sizes \subseteq Nat \ {0} /\ FirstSize \in Sizes
  /\ MaxAsks \in Nat /\ MaxFaults \in Nat

VARIABLES stored,   \* the rows: a function of those there are
          waiting,  \* those still to arrive
          page,     \* what every browser shows
          saves,    \* fields being saved
          parts,    \* rows being removed or archived, one request each
          move,     \* every browser's season move, as the server runs it
          asks, faults,
          excused,  \* ghost: rows a browser may show otherwise than stored
          since,    \* ghost: rows changed since a browser's list was read
          early,    \* ghost: a browser ticked rows of a list being replaced
          raced     \* ghost: rows changed while a browser's move ran

tableVars == <<stored, waiting, page, saves, parts, move, asks, faults, excused, since, early,
               raced>>

Ids(rs) == {rs[i].id : i \in DOMAIN rs}
Shown(b) == Ids(page[b].rows)

\* status 'Arhivat' chooses the archived rows; a filter narrows them.
Matches(v, d) ==
  /\ d.season = v.season /\ d.archived = v.only
  /\ v.status \in {Nothing, d.status}
Filtered(v) == v.only \/ v.status # Nothing

\* The places in Newest of the rows a view asks for, and the n-th of them.
Found(v) == {i \in DOMAIN Newest : Newest[i] \in DOMAIN stored /\ Matches(v, stored[Newest[i]])}
Nth(S, n) == CHOOSE i \in S : Cardinality({j \in S : j <= i}) = n

\* What the server answers: the rows of the page, and how many pages there are.
Listed(v) ==
  LET found == Found(v)
      count == Cardinality(found)
      start == (v.page - 1) * v.size
      id(n) == Newest[Nth(found, start + n)]
  IN [rows |-> [n \in 1..Min({count - start, v.size}) |-> [id |-> id(n), data |-> stored[id(n)]]],
      pages |-> IF count = 0 THEN 1 ELSE (count + v.size - 1) \div v.size]

\* The text after "Alta" goes with it.
Edited(d, key, value) ==
  [d EXCEPT ![key] = value,
            !.relationshipOther = @ /\ ~(key = "relationship" /\ value # Alta)]

Patched(rs, id, key, value) ==
  [i \in DOMAIN rs |-> IF rs[i].id = id THEN [rs[i] EXCEPT !.data[key] = value] ELSE rs[i]]

\* Every list request drops the one before it, the ticks and the error.
Asked(p, v) == [p EXCEPT !.view = v, !.fetch = "asked", !.answer = Nothing, !.error = FALSE, !.selected = {}]
Refetch(p) == Asked(p, p.view)

FirstView == [season |-> Current, only |-> FALSE, status |-> Nothing, size |-> FirstSize, page |-> 1]
FirstPage == [view |-> FirstView, rows |-> Listed(FirstView).rows, pages |-> Listed(FirstView).pages,
              fetch |-> "shown", answer |-> Nothing, error |-> FALSE, selected |-> {}, busy |-> Nothing]
NoMove == [left |-> {}, live |-> FALSE]

-----------------------------------------------------------------------------
Init ==
  /\ stored = [r \in AtFirst |-> Submitted[r]] /\ waiting = Rows \ AtFirst
  /\ page = [b \in Browsers |-> FirstPage]
  /\ saves = {} /\ parts = {} /\ move = [b \in Browsers |-> NoMove]
  /\ asks = 0 /\ faults = 0
  /\ excused = [b \in Browsers |-> {}] /\ since = [b \in Browsers |-> {}]
  /\ early = [b \in Browsers |-> FALSE] /\ raced = [b \in Browsers |-> {}]

Ask == asks < MaxAsks /\ asks' = asks + 1
Fault == faults < MaxFaults /\ faults' = faults + 1

\* Rows changed in the store; one browser, or none, accounts for it itself.
Changed(ids, knowing) ==
  /\ excused' = [b \in Browsers |-> IF b \in knowing THEN excused[b] ELSE excused[b] \union ids]
  /\ since' = [b \in Browsers |-> IF page[b].fetch = "read" THEN since[b] \union ids ELSE {}]
  /\ raced' = [b \in Browsers |-> IF move[b].left # {} THEN raced[b] \union ids ELSE raced[b]]
Excuse(b, ids) ==
  excused' = [excused EXCEPT ![b] = @ \union ids] /\ UNCHANGED <<since, raced>>
Unchanged == UNCHANGED <<excused, since, raced>>

SavesOf(b) == {s \in saves : s.by = b}
PartsOf(b) == {q \in parts : q.by = b}
UnderWay(b) == {s.id : s \in SavesOf(b)} \union {q.id : q \in PartsOf(b)} \union move[b].left

-----------------------------------------------------------------------------
(* The list.                                                               *)

Arrive == \E r \in waiting :
  /\ waiting' = waiting \ {r}
  /\ stored' = [q \in DOMAIN stored \union {r} |-> IF q = r THEN Submitted[r] ELSE stored[q]]
  /\ Changed({r}, {})
  /\ UNCHANGED <<page, saves, parts, move, asks, faults, early>>

\* One control is turned; all but the pager go back to the first page.
Turned(p) ==
  LET v == p.view IN
  {[v EXCEPT !.season = s, !.page = 1] : s \in Seasons}
    \union {[v EXCEPT !.status = s, !.page = 1] : s \in Statuses \union {Nothing}}
    \union {[v EXCEPT !.only = ~v.only, !.page = 1]}
    \union {[v EXCEPT !.size = n, !.page = 1] : n \in Sizes}
    \union {[v EXCEPT !.page = n] : n \in {m \in 1..p.pages : ~p.error /\ p.rows # <<>>}}

ChangeView(b) == \E v \in Turned(page[b]) \ {page[b].view} :
  /\ Ask
  /\ page' = [page EXCEPT ![b] = Asked(@, v)]
  /\ early' = [early EXCEPT ![b] = FALSE]
  /\ Unchanged /\ UNCHANGED <<stored, waiting, saves, parts, move, faults>>

Read(b) ==
  /\ page[b].fetch = "asked"
  /\ page' = [page EXCEPT ![b].fetch = "read", ![b].answer = Listed(page[b].view)]
  /\ since' = [since EXCEPT ![b] = {}]
  /\ UNCHANGED <<stored, waiting, saves, parts, move, asks, faults, excused, early, raced>>

Show(b) ==
  /\ page[b].fetch = "read"
  /\ page' = [page EXCEPT ![b].fetch = "shown", ![b].answer = Nothing,
                          ![b].rows = page[b].answer.rows, ![b].pages = page[b].answer.pages]
  /\ excused' = [excused EXCEPT ![b] = since[b] \union UnderWay(b)]
  /\ since' = [since EXCEPT ![b] = {}]
  /\ UNCHANGED <<stored, waiting, saves, parts, move, asks, faults, early, raced>>

ListFails(b) ==
  /\ page[b].fetch \in {"asked", "read"} /\ Fault
  /\ page' = [page EXCEPT ![b].fetch = "shown", ![b].answer = Nothing, ![b].error = TRUE]
  /\ Unchanged /\ UNCHANGED <<stored, waiting, saves, parts, move, asks, early>>

\* The ticks of the page; while a list is under way only the keyboard reaches them.
Usable(b) == ~page[b].error
Tick(b) == \E r \in Shown(b) :
  /\ Usable(b) /\ r \notin page[b].selected /\ asks < MaxAsks
  /\ page' = [page EXCEPT ![b].selected = @ \union {r}]
  /\ early' = [early EXCEPT ![b] = @ \/ page[b].fetch # "shown"]
  /\ Unchanged /\ UNCHANGED <<stored, waiting, saves, parts, move, asks, faults>>

-----------------------------------------------------------------------------
(* One field.                                                              *)

Edits(d) == {<<"season", s>> : s \in Seasons \ {d.season}}
     \union {<<"status", s>> : s \in Statuses \ {d.status}}
     \union {<<"relationship", k>> : k \in Kins \ {d.relationship}}

AskSave(b) == \E i \in DOMAIN page[b].rows : LET r == page[b].rows[i] IN \E e \in Edits(r.data) :
  /\ Usable(b) /\ Ask
  /\ saves' = saves \union {[by |-> b, id |-> r.id, key |-> e[1], value |-> e[2], prev |-> r.data[e[1]],
                             filtered |-> Filtered(page[b].view), done |-> FALSE]}
  /\ page' = [page EXCEPT ![b].rows = Patched(@, r.id, e[1], e[2])]
  /\ Excuse(b, {s.id : s \in {t \in SavesOf(b) : t.id = r.id}})
  /\ UNCHANGED <<stored, waiting, parts, move, faults, early>>

SaveStored == \E s \in saves :
  /\ ~s.done /\ s.id \in DOMAIN stored
  /\ stored' = [stored EXCEPT ![s.id] = Edited(@, s.key, s.value)]
  /\ saves' = (saves \ {s}) \union {[s EXCEPT !.done = TRUE]}
  /\ Changed({s.id}, {s.by})
  /\ UNCHANGED <<waiting, page, parts, move, asks, faults, early>>

Rereads(s) == s.key = "season" \/ (s.key = "status" /\ s.filtered)

\* Mutant: the page keeps the text the server cleared.
SaveAnswered_TextKept == \E s \in saves : LET p == page[s.by] IN
  /\ s.done /\ saves' = saves \ {s}
  /\ page' = [page EXCEPT ![s.by] =
       IF Rereads(s) THEN Refetch(p) ELSE p]
  /\ early' = [early EXCEPT ![s.by] = @ /\ ~Rereads(s)]
  /\ Unchanged /\ UNCHANGED <<stored, waiting, parts, move, asks, faults>>

\* What the server cleared goes from the page too; a row that may have left the
\* view has the list read again, as the filters were when the save was asked.
SaveAnswered == \E s \in saves : LET p == page[s.by] IN
  /\ s.done /\ saves' = saves \ {s}
  /\ page' = [page EXCEPT ![s.by] =
       IF Rereads(s) THEN Refetch(p)
       ELSE IF s.key = "relationship" /\ s.value # Alta
            THEN [p EXCEPT !.rows = Patched(@, s.id, "relationshipOther", FALSE)]
            ELSE p]
  /\ early' = [early EXCEPT ![s.by] = @ /\ ~Rereads(s)]
  /\ Unchanged /\ UNCHANGED <<stored, waiting, parts, move, asks, faults>>

\* Refused (the row is gone), failed, or stored and the answer lost.
SaveFails == \E s \in saves :
  /\ IF ~s.done /\ s.id \notin DOMAIN stored THEN UNCHANGED faults ELSE Fault
  /\ saves' = saves \ {s}
  /\ page' = [page EXCEPT ![s.by].rows = Patched(@, s.id, s.key, s.prev)]
  /\ Excuse(s.by, IF s.done THEN {s.id} ELSE {})
  /\ UNCHANGED <<stored, waiting, parts, move, asks, early>>

-----------------------------------------------------------------------------
(* Rows removed or archived: a request each, all at once.                  *)

Requests(b, kind, ids) == {[by |-> b, kind |-> kind, id |-> r, live |-> TRUE, done |-> FALSE] : r \in ids}

RemoveRow(b) == \E r \in Shown(b) :
  /\ Usable(b) /\ Ask
  /\ parts' = parts \union Requests(b, "remove", {r})
  /\ Unchanged /\ UNCHANGED <<stored, waiting, page, saves, move, faults, early>>

Group(b, kind) ==
  /\ Usable(b) /\ page[b].busy = Nothing /\ page[b].selected # {} /\ Ask
  /\ parts' = parts \union Requests(b, kind, page[b].selected)
  /\ page' = [page EXCEPT ![b].busy = kind]
  /\ Unchanged /\ UNCHANGED <<stored, waiting, saves, move, faults, early>>

Delete(b) == Group(b, "delete")
Archive(b) == Group(b, "archive")

\* A request nobody waits for any more is forgotten when it is done.
PartDone == \E q \in parts :
  /\ ~q.done /\ (q.kind = "archive" => q.id \in DOMAIN stored)
  /\ stored' = IF q.kind = "archive" THEN [stored EXCEPT ![q.id].archived = TRUE]
               ELSE [r \in DOMAIN stored \ {q.id} |-> stored[r]]
  /\ parts' = (parts \ {q}) \union (IF q.live THEN {[q EXCEPT !.done = TRUE]} ELSE {})
  /\ Changed({q.id}, IF q.live THEN {q.by} ELSE {})
  /\ UNCHANGED <<waiting, page, saves, move, asks, faults, early>>

Ended(p, kind) == IF kind = "remove" THEN p ELSE [p EXCEPT !.busy = Nothing]

\* The requests one click sent and waits for; a removal is one by itself.
Together(q) ==
  {t \in PartsOf(q.by) : t.live /\ t.kind = q.kind /\ (q.kind = "remove" => t.id = q.id)}

AllAnswered(b) == \E q \in PartsOf(b) : LET all == Together(q) IN
  /\ q.live /\ \A t \in all : t.done
  /\ parts' = parts \ all
  /\ page' = [page EXCEPT ![b] = Refetch(Ended(@, q.kind))]
  /\ early' = [early EXCEPT ![b] = FALSE]
  /\ Unchanged /\ UNCHANGED <<stored, waiting, saves, move, asks, faults>>

\* One fails, or its answer is lost, and the page says so without reading the
\* list again; the others go on.
PartFails == \E q \in parts : LET all == Together(q) IN
  /\ q.live
  /\ IF q.kind = "archive" /\ ~q.done /\ q.id \notin DOMAIN stored THEN UNCHANGED faults ELSE Fault
  /\ parts' = (parts \ all) \union {[t EXCEPT !.live = FALSE] : t \in {u \in all \ {q} : ~u.done}}
  /\ page' = [page EXCEPT ![q.by] = Ended(@, q.kind)]
  /\ Excuse(q.by, {t.id : t \in {u \in all : u.done}})
  /\ UNCHANGED <<stored, waiting, saves, move, asks, early>>

-----------------------------------------------------------------------------
(* Seasons moved: one request, one row after the other on the server.      *)

Move(b) == \E to \in Seasons :
  /\ Usable(b) /\ page[b].busy = Nothing /\ page[b].selected # {} /\ Ask /\ move[b] = NoMove
  /\ move' = [move EXCEPT ![b] = [left |-> page[b].selected, ids |-> page[b].selected, to |-> to,
                                  whole |-> FALSE, live |-> TRUE]]
  /\ page' = [page EXCEPT ![b].busy = "move"]
  /\ raced' = [raced EXCEPT ![b] = {}]
  /\ UNCHANGED <<stored, waiting, saves, parts, faults, excused, since, early>>

InSeason(from, only) ==
  {r \in DOMAIN stored : stored[r].season = from /\ (only => stored[r].archived)}

MoveSeason(b) == \E to \in Seasons, only \in BOOLEAN :
  LET from == page[b].view.season
      ids == IF from = to THEN {} ELSE InSeason(from, only)
  IN
  /\ page[b].busy = Nothing /\ Ask /\ move[b] = NoMove
  /\ move' = [move EXCEPT ![b] = [left |-> ids, ids |-> ids, to |-> to, whole |-> TRUE,
                                  live |-> TRUE, from |-> from, only |-> only]]
  /\ page' = [page EXCEPT ![b].busy = "move"]
  /\ raced' = [raced EXCEPT ![b] = {}]
  /\ UNCHANGED <<stored, waiting, saves, parts, faults, excused, since, early>>

\* A row that is gone is passed over, and so is one whose update fails.
MoveNext(b) == \E r \in move[b].left :
  /\ move' = [move EXCEPT ![b].left = @ \ {r}]
  /\ \/ /\ r \in DOMAIN stored
        /\ stored' = [stored EXCEPT ![r].season = move[b].to]
        /\ Changed({r}, IF move[b].live THEN {b} ELSE {})
        /\ UNCHANGED faults
     \/ /\ r \notin DOMAIN stored
        /\ Unchanged /\ UNCHANGED <<stored, faults>>
     \/ /\ r \in DOMAIN stored /\ Fault
        /\ Unchanged /\ UNCHANGED stored
  /\ UNCHANGED <<waiting, page, saves, parts, asks, early>>

MoveAnswered(b) ==
  /\ move[b] # NoMove /\ move[b].left = {}
  /\ move' = [move EXCEPT ![b] = NoMove]
  /\ page' = IF move[b].live THEN [page EXCEPT ![b] = Refetch([@ EXCEPT !.busy = Nothing])] ELSE page
  /\ early' = [early EXCEPT ![b] = @ /\ ~move[b].live]
  /\ Unchanged /\ UNCHANGED <<stored, waiting, saves, parts, asks, faults>>

\* The page stops waiting; the server does not.
MoveLost(b) ==
  /\ move[b].live /\ Fault
  /\ move' = [move EXCEPT ![b].live = FALSE]
  /\ page' = [page EXCEPT ![b].busy = Nothing]
  /\ Excuse(b, move[b].ids \ move[b].left)
  /\ UNCHANGED <<stored, waiting, saves, parts, asks, early>>

\* archiveSeason: no page asks for it, the route is there.
ArchiveSeason == \E s \in Seasons :
  LET ids == {r \in DOMAIN stored : stored[r].season = s /\ ~stored[r].archived} IN
  /\ Ask /\ ids # {}
  /\ stored' = [r \in DOMAIN stored |-> IF r \in ids THEN [stored[r] EXCEPT !.archived = TRUE] ELSE stored[r]]
  /\ Changed(ids, {})
  /\ UNCHANGED <<waiting, page, saves, parts, move, faults, early>>

-----------------------------------------------------------------------------
Step(b) ==
  \/ ChangeView(b) \/ Read(b) \/ Show(b) \/ ListFails(b) \/ Tick(b)
  \/ AskSave(b) \/ RemoveRow(b) \/ Delete(b) \/ Archive(b)
  \/ AllAnswered(b) \/ Move(b) \/ MoveSeason(b) \/ MoveNext(b) \/ MoveAnswered(b) \/ MoveLost(b)

Next ==
  \/ Arrive \/ ArchiveSeason
  \/ SaveStored \/ SaveAnswered \/ SaveFails \/ PartDone \/ PartFails
  \/ \E b \in Browsers : Step(b)

Spec == Init /\ [][Next]_tableVars

-----------------------------------------------------------------------------
\* The shape of the state: rows of the store and of a page are rows, a page lists
\* none twice, and what is under way is of this table.
TypeOK ==
  /\ DOMAIN stored \subseteq Rows /\ waiting \subseteq Rows
  /\ \A r \in DOMAIN stored : stored[r] \in Row
  /\ \A b \in Browsers :
       /\ page[b].view \in View /\ page[b].fetch \in {"asked", "read", "shown"}
       /\ Range(page[b].rows) \subseteq [id : Rows, data : Row]
       /\ Cardinality(Shown(b)) = Len(page[b].rows) /\ Len(page[b].rows) <= Max(Sizes)
       /\ move[b].left \subseteq Rows
  /\ \A s \in saves : s.by \in Browsers /\ s.id \in Rows
  /\ \A q \in parts : q.by \in Browsers /\ q.id \in Rows
  /\ asks \in 0..MaxAsks /\ faults \in 0..MaxFaults

AtRest(b) ==
  page[b].fetch = "shown" /\ ~page[b].error /\ SavesOf(b) = {} /\ move[b] = NoMove /\ PartsOf(b) = {}

\* A page that waits for nothing shows its view's rows as they are stored, the
\* cleared fields and the taken back writes included, although most saves do not
\* read the list again and late lists are dropped.  A row is shown otherwise only
\* after something the page does not hear of: a change of another page, a list
\* read before and shown after a write, two saves of one row crossing, a write
\* stored whose answer was lost, requests left over from a group one of which
\* failed.
TableTrue ==
  \A b \in Browsers : AtRest(b) =>
    /\ excused[b] = {} => page[b].rows = Listed(page[b].view).rows
    /\ \A i \in DOMAIN page[b].rows : LET r == page[b].rows[i] IN
         r.id \in excused[b] \/ (r.id \in DOMAIN stored /\ r.data = stored[r.id])

\* "selection is per fetched page" (SubmissionTable.tsx:784): the rows a group
\* request takes are rows on the screen, unless they were ticked in a list that
\* was being replaced.
SelectionShown ==
  \A b \in Browsers : page[b].fetch = "shown" /\ ~early[b] => page[b].selected \subseteq Shown(b)

\* A season's move takes along only rows that were in that season, and archived
\* if only those were wanted, however long it runs; a row that changed meanwhile
\* is moved all the same (moveWholeSeason: the rows are found once, by identity).
MovesOnlyItsSeason ==
  [][\A b \in Browsers, r \in Rows :
       r \in move[b].left /\ r \notin move'[b].left /\ move[b].whole /\ r \notin raced[b] /\ stored' # stored
       => stored[r].season = move[b].from /\ (move[b].only => stored[r].archived)]_tableVars
=============================================================================
