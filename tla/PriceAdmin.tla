----------------------------- MODULE PriceAdmin -----------------------------
(***************************************************************************)
(* The Preturi page: src/src/club/price-admin-service.ts and               *)
(* price-admin.ts, behind src/src/api/club/controllers/prices.ts.          *)
(*                                                                         *)
(* Several administrators edit the price lists of one section.  A request  *)
(* names a row by its place and the name the page showed there; the        *)
(* service reads the list, applies the edit to what it read, looks for the *)
(* name in the section's other lists, writes the WHOLE list back, records  *)
(* the change and answers with the whole page.  Each of these is a step of *)
(* its own (an await), so two requests interleave.  A name stands for its  *)
(* nameKey (case, spaces, diacritics), an item for its name and its price. *)
(***************************************************************************)
EXTENDS Naturals, Sequences, FiniteSets

CONSTANTS Admins,      \* administrators, each with one page and one request
          Lists,       \* identities a price list can get
          Names, Prices, Titles, Notes,
          Stored,      \* the items of every list before the first request
          Opened,      \* the title of every list there already
          FirstNotes,  \* the section's notes before the first request
          Nothing,
          MaxAsks,     \* bound: requests
          MaxFaults    \* bound: storage failures

Items == [name : Names, price : Prices]

\* A name stands once in a section, a list's name once.
NamesApart(r) == \A k, l \in Lists : \A i \in DOMAIN r[k], j \in DOMAIN r[l] :
  r[k][i].name = r[l][j].name => <<k, i>> = <<l, j>>
TitlesApart(t) == \A k, l \in Lists : t[k] = t[l] /\ t[k] # Nothing => k = l

StoredAssumption ==
  /\ IsFiniteSet(Admins) /\ IsFiniteSet(Lists) /\ {"titles", "notes"} \intersect Lists = {}
  /\ Stored \in [Lists -> Seq(Items)] /\ NamesApart(Stored)
  /\ Opened \in [Lists -> Titles \union {Nothing}] /\ TitlesApart(Opened)
  /\ \A l \in Lists : Opened[l] = Nothing => Stored[l] = <<>>
  /\ Nothing \notin Titles \union Items \union Notes
  /\ FirstNotes \in Notes
  /\ MaxAsks \in Nat /\ MaxFaults \in Nat

VARIABLES rows,       \* the items of every list
          titles,     \* the name of every list, Nothing before it is created
          notes,      \* the paragraphs under the section's prices
          page,       \* what each administrator's page shows of rows
          job,        \* each administrator's request
          log,        \* history entries, in the order they were recorded
          asks, faults,
          overtaken,  \* another write of the family fell between read and write
          raced,      \* families in which such a request wrote
          unlogged    \* a stored change whose entry failed

priceVars == <<rows, titles, notes, page, job, log, asks, faults,
               overtaken, raced, unlogged>>

ItemKinds == {"add", "update", "remove"}
Idle == [step |-> "idle"]
At(a, step) == job[a].step = step
Family(e) == IF e.kind \in ItemKinds THEN "items" ELSE e.kind
Subject(e) == IF e.kind \in ItemKinds THEN e.list ELSE e.kind

RangeOf(s) == {s[i] : i \in DOMAIN s}
Times(x, s) == Cardinality({i \in DOMAIN s : s[i] = x})

-----------------------------------------------------------------------------
(* What an item edit does to a list it was read from.                      *)

\* Mutant: the place of a row is enough.
CheckExpected_Place(items, e) == e.index \in DOMAIN items

CheckExpected(items, e) ==
  e.index \in DOMAIN items /\ items[e.index].name = e.expected

Without(s, i) == SubSeq(s, 1, i - 1) \o SubSeq(s, i + 1, Len(s))

ApplyItemEdit(items, e) ==
  CASE e.kind = "add" ->
         [next |-> Append(items, e.item), before |-> Nothing, after |-> e.item]
    [] e.kind = "update" ->
         [next |-> [items EXCEPT ![e.index] = e.item],
          before |-> items[e.index], after |-> e.item]
    [] e.kind = "remove" ->
         [next |-> Without(items, e.index),
          before |-> items[e.index], after |-> Nothing]

Renamed(done) == /\ done.after # Nothing
                 /\ \/ done.before = Nothing
                    \/ done.before.name # done.after.name

\* Mutant: a name is looked for in its own list only.
NameClash_OwnList(l, items, name) ==
  Cardinality({i \in DOMAIN items : items[i].name = name}) > 1

NameClash(l, items, name) ==
  LET section == [rows EXCEPT ![l] = items]
  IN  Cardinality(UNION {{k} \X {i \in DOMAIN section[k] : section[k][i].name = name}
                         : k \in Lists}) > 1

-----------------------------------------------------------------------------
Init ==
  /\ rows = Stored /\ titles = Opened /\ notes = FirstNotes
  /\ page = [a \in Admins |-> Stored]
  /\ job = [a \in Admins |-> Idle]
  /\ log = <<>> /\ asks = 0 /\ faults = 0
  /\ overtaken = [a \in Admins |-> FALSE]
  /\ raced = {} /\ unlogged = FALSE

Reload(a) ==
  /\ At(a, "idle") /\ page[a] # rows
  /\ page' = [page EXCEPT ![a] = rows]
  /\ UNCHANGED <<rows, titles, notes, job, log, asks, faults, overtaken, raced, unlogged>>

Send(a, e) ==
  /\ At(a, "idle") /\ asks < MaxAsks
  /\ asks' = asks + 1
  /\ job' = [job EXCEPT ![a] = [step |-> "read", edit |-> e]]
  /\ overtaken' = [overtaken EXCEPT ![a] = FALSE]
  /\ UNCHANGED <<rows, titles, notes, page, log, faults, raced, unlogged>>

AddItem(a) == \E l \in Lists, item \in Items :
  titles[l] # Nothing /\ Send(a, [kind |-> "add", list |-> l, item |-> item])

UpdateItem(a) == \E l \in Lists, item \in Items : \E i \in DOMAIN page[a][l] :
  Send(a, [kind |-> "update", list |-> l, item |-> item,
           index |-> i, expected |-> page[a][l][i].name])

RemoveItem(a) == \E l \in Lists : \E i \in DOMAIN page[a][l] :
  Send(a, [kind |-> "remove", list |-> l,
           index |-> i, expected |-> page[a][l][i].name])

CreateList(a) == \E t \in Titles : Send(a, [kind |-> "titles", item |-> t])

SaveNotes(a) == \E n \in Notes : Send(a, [kind |-> "notes", item |-> n])

-----------------------------------------------------------------------------
(* The service, one await at a time.                                       *)

Move(a, step, e, done) ==
  job' = [job EXCEPT ![a] = [step |-> step, edit |-> e, next |-> done.next,
                             before |-> done.before, after |-> done.after]]

Refuse(a) ==
  /\ job' = [job EXCEPT ![a] = Idle]
  /\ UNCHANGED <<rows, titles, notes, page, log, asks, faults, overtaken, raced, unlogged>>

FindStale(a) ==
  /\ At(a, "read") /\ job[a].edit.kind \in {"update", "remove"}
  /\ ~CheckExpected(rows[job[a].edit.list], job[a].edit)
  /\ Refuse(a)

FindList(a) ==
  LET e == job[a].edit IN
  /\ At(a, "read") /\ e.kind \in ItemKinds
  /\ e.kind # "add" => CheckExpected(rows[e.list], e)
  /\ LET done == ApplyItemEdit(rows[e.list], e)
     IN  Move(a, IF Renamed(done) THEN "check"
                 ELSE IF done.before = done.after THEN "answer" ELSE "write", e, done)
  /\ UNCHANGED <<rows, titles, notes, page, log, asks, faults, overtaken, raced, unlogged>>

CheckName(a) ==
  LET e == job[a].edit IN
  /\ At(a, "check")
  /\ IF NameClash(e.list, job[a].next, job[a].after.name)
     THEN Refuse(a)
     ELSE /\ job' = [job EXCEPT ![a].step = "write"]
          /\ UNCHANGED <<rows, titles, notes, page, log, asks, faults,
                         overtaken, raced, unlogged>>

ListNameTaken(t) == \E l \in Lists : titles[l] = t

CheckTitle(a) ==
  LET e == job[a].edit IN
  /\ At(a, "read") /\ e.kind = "titles"
  /\ IF ListNameTaken(e.item)
     THEN Refuse(a)
     ELSE /\ Move(a, "write", e, [next |-> e.item, before |-> Nothing, after |-> e.item])
          /\ UNCHANGED <<rows, titles, notes, page, log, asks, faults,
                         overtaken, raced, unlogged>>

FindSection(a) ==
  LET e == job[a].edit IN
  /\ At(a, "read") /\ e.kind = "notes"
  /\ Move(a, "write", e, [next |-> e.item, before |-> notes, after |-> e.item])
  /\ UNCHANGED <<rows, titles, notes, page, log, asks, faults, overtaken, raced, unlogged>>

Write(a) ==
  LET e == job[a].edit IN
  /\ At(a, "write")
  /\ CASE e.kind \in ItemKinds ->
            /\ rows' = [rows EXCEPT ![e.list] = job[a].next]
            /\ UNCHANGED <<titles, notes>>
       [] e.kind = "titles" ->
            /\ \E l \in Lists : titles[l] = Nothing
            /\ LET l == CHOOSE x \in Lists : titles[x] = Nothing
               IN  titles' = [titles EXCEPT ![l] = job[a].next]
            /\ UNCHANGED <<rows, notes>>
       [] e.kind = "notes" -> notes' = job[a].next /\ UNCHANGED <<rows, titles>>
  /\ job' = [job EXCEPT ![a].step = "record"]
  /\ overtaken' = [b \in Admins |->
       \/ overtaken[b]
       \/ b # a /\ job[b].step \in {"check", "write"} /\ Family(job[b].edit) = Family(e)]
  /\ raced' = IF overtaken[a] THEN raced \union {Family(e)} ELSE raced
  /\ UNCHANGED <<page, log, asks, faults, unlogged>>

\* Mutant: an entry says only what came, not what went.
Record_NewOnly(a) ==
  /\ At(a, "record")
  /\ log' = Append(log, [subject |-> Subject(job[a].edit),
                         before |-> Nothing, after |-> job[a].after])
  /\ job' = [job EXCEPT ![a].step = "answer"]
  /\ UNCHANGED <<rows, titles, notes, page, asks, faults, overtaken, raced, unlogged>>

Record(a) ==
  /\ At(a, "record")
  /\ log' = Append(log, [subject |-> Subject(job[a].edit),
                         before |-> job[a].before, after |-> job[a].after])
  /\ job' = [job EXCEPT ![a].step = "answer"]
  /\ UNCHANGED <<rows, titles, notes, page, asks, faults, overtaken, raced, unlogged>>

Answer(a) ==
  /\ At(a, "answer")
  /\ page' = [page EXCEPT ![a] = rows]
  /\ job' = [job EXCEPT ![a] = Idle]
  /\ UNCHANGED <<rows, titles, notes, log, asks, faults, overtaken, raced, unlogged>>

\* The storage call throws (or the process stops): a 500, the page stays.
Fail(a) ==
  /\ job[a].step \notin {"idle", "answer"} /\ faults < MaxFaults
  /\ faults' = faults + 1
  /\ job' = [job EXCEPT ![a] = Idle]
  /\ unlogged' = (unlogged \/ At(a, "record"))
  /\ UNCHANGED <<rows, titles, notes, page, log, asks, overtaken, raced>>

Step(a) == \/ Reload(a)
           \/ AddItem(a) \/ UpdateItem(a) \/ RemoveItem(a)
           \/ CreateList(a) \/ SaveNotes(a)
           \/ FindStale(a) \/ FindList(a) \/ CheckName(a) \/ CheckTitle(a)
           \/ FindSection(a) \/ Write(a) \/ Record(a) \/ Answer(a) \/ Fail(a)

Next == \E a \in Admins : Step(a)
Spec == Init /\ [][Next]_priceVars

-----------------------------------------------------------------------------
Edits == [kind : {"add"}, list : Lists, item : Items]
   \union [kind : {"update"}, list : Lists, item : Items, index : Nat, expected : Names]
   \union [kind : {"remove"}, list : Lists, index : Nat, expected : Names]
   \union [kind : {"titles"}, item : Titles] \union [kind : {"notes"}, item : Notes]

\* The shape of the state: requests carry what their step needs, and only a
\* list that was created holds items.
TypeOK ==
  /\ rows \in [Lists -> Seq(Items)]
  /\ titles \in [Lists -> Titles \union {Nothing}]
  /\ notes \in Notes
  /\ page \in [Admins -> [Lists -> Seq(Items)]]
  /\ \A a \in Admins : job[a] = Idle \/ job[a].edit \in Edits
  /\ \A l \in Lists : titles[l] = Nothing => rows[l] = <<>>
  /\ overtaken \in [Admins -> BOOLEAN] /\ unlogged \in BOOLEAN
  /\ raced \subseteq {"items", "titles", "notes"}
  /\ asks \in 0..MaxAsks /\ faults \in 0..MaxFaults

\* The registration form finds a chosen price by its name (price-item.ts:37),
\* so a name stands once in a section, and a list's name once: whatever the
\* order of the requests, unless one of them wrote over a write it never read.
NamedOnce == ("items" \notin raced => NamesApart(rows)) /\ ("titles" \notin raced => TitlesApart(titles))

\* A page may be arbitrarily old when its request arrives, and rows may have
\* moved since.  A write that was not overtaken still changes no price but the
\* one whose name its administrator saw.
OthersKept ==
  [][\A a \in Admins :
       /\ At(a, "write") /\ job'[a].step = "record" /\ ~overtaken[a]
       /\ job[a].edit.kind \in ItemKinds
       => \A l \in Lists : \A item \in RangeOf(rows[l]) :
            \/ item \in RangeOf(rows'[l])
            \/ job[a].edit.kind # "add" /\ item.name = job[a].edit.expected]_priceVars

\* What subject s holds now, and what it held before the first request.
Held(s) == CASE s = "titles" -> titles
             [] s = "notes"  -> <<notes>>
             [] OTHER        -> rows[s]
HeldFirst(s) == CASE s = "titles" -> Opened
                  [] s = "notes"  -> <<FirstNotes>>
                  [] OTHER        -> Stored[s]

Unrecorded(s, x, side) ==
  Cardinality({a \in Admins : At(a, "record") /\ Subject(job[a].edit) = s
                                /\ job[a][side] = x})

\* The history accounts for the lists: what is stored is what was stored at
\* first, plus what the entries brought, less what they took, whatever order
\* the entries were recorded in.  Only a write over an unread write, or an entry
\* that failed after its change was stored, breaks the account.
HistoryBalances ==
  \A s \in Lists \union {"titles", "notes"} :
    ~unlogged /\ (IF s \in Lists THEN "items" ELSE s) \notin raced =>
      \A x \in Items \union Titles \union Notes :
        Times(x, Held(s))
          + Cardinality({k \in DOMAIN log : log[k].subject = s /\ log[k].before = x})
          + Unrecorded(s, x, "before")
        = Times(x, HeldFirst(s))
          + Cardinality({k \in DOMAIN log : log[k].subject = s /\ log[k].after = x})
          + Unrecorded(s, x, "after")
=============================================================================
