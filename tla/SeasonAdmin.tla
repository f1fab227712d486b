----------------------------- MODULE SeasonAdmin ----------------------------
(***************************************************************************)
(* The Sezoane page: src/src/club/season-admin-service.ts over             *)
(* season-admin-store.ts, with the writers it shares the seasons with:     *)
(* submits, which take the current season's identity and label and store   *)
(* both later (registration-submit.ts), and season moves, which look up    *)
(* the season of a label and then set both (documents/season-move.ts).     *)
(*                                                                         *)
(* A registration carries its season twice, as a link and as a text.  The  *)
(* label of a season is locked once registrations point at it, which is    *)
(* what keeps the two agreeing; counting them and renaming are two steps.  *)
(***************************************************************************)
EXTENDS Naturals

CONSTANTS Clerks,    \* administrators editing seasons
          Seasons,   \* identities a season can get
          Labels,
          Current,   \* the season marked current (no operation here moves the mark)
          Labelled,  \* the labels before the first request
          Writers,   \* submits and moves, one registration each
          Nothing,
          MaxEdits   \* bound: requests of the clerks

SeasonsAssumption ==
  /\ Labelled \in [Seasons -> Labels \union {Nothing}]
  /\ Nothing \notin Labels /\ Nothing \notin Seasons
  /\ Current \in Seasons /\ Labelled[Current] # Nothing
  /\ \A s, t \in Seasons : Labelled[s] = Labelled[t] /\ s # t => Labelled[s] = Nothing
  /\ MaxEdits \in Nat

VARIABLES labels,      \* the label of every season, Nothing before it is created
          link, text,  \* the two marks of every registration, Nothing while there is none
          clerk,       \* every clerk's request
          writer,      \* what every submit or move has read
          edits,
          overtaken,   \* a season got another label since this clerk looked
          joined,      \* a registration joined its season since it looked
          sameLabel,   \* an overtaken clerk changed a label
          crossed      \* a label was changed while a registration joined its season

seasonVars == <<labels, link, text, clerk, writer, edits, overtaken, joined, sameLabel, crossed>>

Idle == [step |-> "idle"]
At(c, step) == clerk[c].step = step

\* Mutant: only a new season has its label looked up.
LabelTaken_OnCreate(label, except) ==
  except = Nothing /\ \E s \in Seasons : labels[s] = label

\* strapiSeasonStore.labelTaken and .registrations.
LabelTaken(label, except) == \E s \in Seasons : s # except /\ labels[s] = label
Registrations(s, label) == {w \in Writers : link[w] = s \/ text[w] = label}

SeasonIdFor(label) == IF \E s \in Seasons : labels[s] = label
                      THEN CHOOSE s \in Seasons : labels[s] = label ELSE Nothing

-----------------------------------------------------------------------------
Init ==
  /\ labels = Labelled
  /\ link = [w \in Writers |-> Nothing] /\ text = [w \in Writers |-> Nothing]
  /\ clerk = [c \in Clerks |-> Idle]
  /\ writer = [w \in Writers |-> Idle]
  /\ edits = 0
  /\ overtaken = [c \in Clerks |-> FALSE] /\ joined = [c \in Clerks |-> FALSE]
  /\ sameLabel = FALSE /\ crossed = FALSE

Go(c, next) ==
  /\ clerk' = [clerk EXCEPT ![c] = next]
  /\ UNCHANGED <<labels, link, text, writer, sameLabel, crossed>>

Ask(c, request) ==
  /\ At(c, "idle") /\ edits < MaxEdits
  /\ edits' = edits + 1
  /\ overtaken' = [overtaken EXCEPT ![c] = FALSE]
  /\ joined' = [joined EXCEPT ![c] = FALSE]
  /\ Go(c, request)

AskCreate(c) == \E l \in Labels :
  Ask(c, [step |-> "taken", season |-> Nothing, before |-> Nothing, label |-> l])

AskUpdate(c) == \E s \in Seasons, l \in Labels :
  /\ labels[s] # Nothing
  /\ Ask(c, [step |-> "find", season |-> s, before |-> Nothing, label |-> l])

\* updateSeason reads the season.  A label that differs from the one read is
\* checked; one that does not is written back as it was read, with the fee or
\* the months that changed, unchecked (nothing is written if none did).
Find(c) ==
  LET stored == labels[clerk[c].season] IN
  /\ At(c, "find")
  /\ \/ /\ stored # clerk[c].label
        /\ Go(c, [clerk[c] EXCEPT !.step = "count", !.before = stored])
     \/ /\ stored = clerk[c].label
        /\ Go(c, Idle) \/ Go(c, [clerk[c] EXCEPT !.step = "write"])
  /\ UNCHANGED <<edits, overtaken, joined>>

\* updateRefusal: registrations first, then the label.
CountRegistrations(c) ==
  /\ At(c, "count")
  /\ Go(c, IF Registrations(clerk[c].season, clerk[c].before) # {} THEN Idle
           ELSE [clerk[c] EXCEPT !.step = "taken"])
  /\ UNCHANGED <<edits, overtaken, joined>>

CheckLabel(c) ==
  /\ At(c, "taken")
  /\ Go(c, IF LabelTaken(clerk[c].label, clerk[c].season) THEN Idle
           ELSE [clerk[c] EXCEPT !.step = "write"])
  /\ UNCHANGED <<edits, overtaken, joined>>

Target(c) == IF clerk[c].season # Nothing THEN clerk[c].season
             ELSE CHOOSE s \in Seasons : labels[s] = Nothing

Changes(c) == labels[Target(c)] # clerk[c].label

\* store.create or store.update; the history entry and the answer change no season.
WriteSeason(c) ==
  /\ At(c, "write")
  /\ clerk[c].season = Nothing => \E s \in Seasons : labels[s] = Nothing
  /\ labels' = [labels EXCEPT ![Target(c)] = clerk[c].label]
  /\ clerk' = [clerk EXCEPT ![c] = Idle]
  /\ overtaken' = [d \in Clerks |-> overtaken[d] \/ (Changes(c) /\ d # c /\ At(d, "write"))]
  /\ sameLabel' = (sameLabel \/ (Changes(c) /\ overtaken[c]))
  /\ crossed' = (crossed \/ (Changes(c) /\ \/ joined[c]
                                           \/ \E w \in Writers : /\ writer[w].step = "store"
                                                                 /\ writer[w].link = Target(c)))
  /\ UNCHANGED <<link, text, writer, edits, joined>>

-----------------------------------------------------------------------------
ReadSeason(w, s, l) ==
  /\ writer[w].step = "idle"
  /\ writer' = [writer EXCEPT ![w] = [step |-> "store", link |-> s, text |-> l]]
  /\ UNCHANGED <<labels, link, text, clerk, edits, overtaken, joined, sameLabel, crossed>>

\* A submit takes the current season; its registration is not there yet.
ReadCurrent(w) == text[w] = Nothing /\ ReadSeason(w, Current, labels[Current])

\* A move takes a stored registration to the season of a label, if there is one.
FindTarget(w) == \E l \in Labels : text[w] # Nothing /\ ReadSeason(w, SeasonIdFor(l), l)

Joins(s) ==
  joined' = [c \in Clerks |-> joined[c] \/ /\ clerk[c].step \in {"taken", "write"}
                                           /\ clerk[c].season = s /\ s # Nothing]

\* Mutant: a registration that has a link keeps it.
StoreBoth_TextOnly(w) ==
  /\ writer[w].step = "store"
  /\ link' = [link EXCEPT ![w] = IF @ = Nothing THEN writer[w].link ELSE @]
  /\ text' = [text EXCEPT ![w] = writer[w].text]
  /\ writer' = [writer EXCEPT ![w] = Idle]
  /\ Joins(writer[w].link)
  /\ UNCHANGED <<labels, clerk, edits, overtaken, sameLabel, crossed>>

StoreBoth(w) ==
  /\ writer[w].step = "store"
  /\ link' = [link EXCEPT ![w] = writer[w].link]
  /\ text' = [text EXCEPT ![w] = writer[w].text]
  /\ writer' = [writer EXCEPT ![w] = Idle]
  /\ Joins(writer[w].link)
  /\ UNCHANGED <<labels, clerk, edits, overtaken, sameLabel, crossed>>

Delete(w) ==
  /\ writer[w].step = "idle" /\ text[w] # Nothing
  /\ link' = [link EXCEPT ![w] = Nothing] /\ text' = [text EXCEPT ![w] = Nothing]
  /\ UNCHANGED <<labels, clerk, writer, edits, overtaken, joined, sameLabel, crossed>>

Next ==
  \/ \E c \in Clerks : \/ AskCreate(c) \/ AskUpdate(c) \/ Find(c)
                       \/ CountRegistrations(c) \/ CheckLabel(c) \/ WriteSeason(c)
  \/ \E w \in Writers : ReadCurrent(w) \/ FindTarget(w) \/ StoreBoth(w) \/ Delete(w)
Spec == Init /\ [][Next]_seasonVars

-----------------------------------------------------------------------------
Requests == [step : {"find", "count", "taken", "write"}, label : Labels,
             season : Seasons \union {Nothing}, before : Labels \union {Nothing}]

\* The shape of the state: a registration has both marks or, until it is
\* stored, none of them.
TypeOK ==
  /\ labels \in [Seasons -> Labels \union {Nothing}]
  /\ link \in [Writers -> Seasons \union {Nothing}]
  /\ text \in [Writers -> Labels \union {Nothing}]
  /\ \A w \in Writers : text[w] = Nothing => link[w] = Nothing
  /\ \A c \in Clerks : clerk[c] = Idle \/ clerk[c] \in Requests
  /\ edits \in 0..MaxEdits
  /\ overtaken \in [Clerks -> BOOLEAN] /\ joined \in [Clerks -> BOOLEAN]
  /\ sameLabel \in BOOLEAN /\ crossed \in BOOLEAN

\* Labels identify seasons for moves, filters and document names: two seasons
\* share one only if a clerk stored another label than the stored one after some
\* season got another label since it looked.  An edit of the fee is such a clerk
\* when its season was renamed after it was read: it puts the old label back.
LabelsOnce ==
  ~sameLabel => \A s, t \in Seasons :
                  labels[s] = labels[t] /\ labels[s] # Nothing => s = t

\* The two marks of a registration name one season (what the lock in
\* updateRefusal is for), through submits, moves, deletions, renames and edits of
\* the fee, unless a label was changed while a registration joined its season:
\* it was read or stored between the clerk's look (a rename's count, or the read
\* of an edit that puts the old label back) and its write.
MarksAgree ==
  ~crossed => \A w \in Writers : link[w] # Nothing => text[w] = labels[link[w]]
=============================================================================
