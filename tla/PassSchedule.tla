---------------------------- MODULE PassSchedule ----------------------------
(***************************************************************************)
(* When the scheduled pass of a form runs: the sheetsReconcile task        *)
(* (config/cron-tasks.ts) over the stored links (src/src/sheets/store.ts), *)
(* beside the administrators who connect forms, switch them and choose     *)
(* their interval (src/src/api/sheet-link/controllers/sheet-link.ts).      *)
(*                                                                         *)
(* The task ticks on the hour, a little late each time, takes one instant  *)
(* for the whole tick, and goes through the forms one at a time.  Every    *)
(* write of a link looks for the form's row and then updates or creates    *)
(* it: two steps.  What a pass does to the sheet is SheetMirror's.         *)
(***************************************************************************)
EXTENDS Integers, Sequences

CONSTANTS Forms,       \* allForms(): the forms in the order of a tick
          Admins,      \* administrators on the settings page
          Intervals,   \* INTERVAL_HOURS_ALLOWED, 0 being off
          Default,     \* DEFAULT_INTERVAL_HOURS
          Hour,        \* an hour, in units of time
          Tolerance,   \* RECONCILE_TOLERANCE_MS
          Lateness,    \* how long after the full hour a tick may come
          FirstLinks,  \* the rows stored at first, per form
          Never,       \* null
          MaxHours, MaxSaves, MaxFaults  \* bounds

FormSet == {Forms[i] : i \in DOMAIN Forms}
Row == [file : BOOLEAN, enabled : BOOLEAN, interval : Intervals, stamp : Nat \union {Never}]

\* What an administrator's request writes: connect and create, disconnect,
\* setEnabled, setSchedule.
Patches == {[file |-> TRUE, enabled |-> TRUE], [file |-> FALSE]}
           \union {[enabled |-> b] : b \in BOOLEAN} \union {[interval |-> h] : h \in Intervals}

\* The ticks come late by less than the tolerance, and an hour is longer than
\* the two together.
ScheduleAssumption ==
  /\ Forms \in Seq(FormSet) /\ Forms # <<>>
  /\ \A i, j \in DOMAIN Forms : Forms[i] = Forms[j] => i = j
  /\ Intervals \subseteq Nat /\ Default \in Intervals /\ Never \notin Int
  /\ Hour \in Nat /\ Tolerance \in Nat /\ Lateness \subseteq Nat
  /\ \A d \in Lateness : d <= Tolerance /\ Tolerance + d < Hour
  /\ FirstLinks \in [FormSet -> Seq(Row)]
  /\ \A f \in FormSet : Len(FirstLinks[f]) <= 1
                        /\ \A i \in DOMAIN FirstLinks[f] : FirstLinks[f][i].stamp = Never
  /\ MaxHours \in Nat /\ MaxSaves \in Nat /\ MaxFaults \in Nat

VARIABLES links,       \* the link rows of each form
          hour,        \* full hours since the start
          tick,        \* the running tick: its instant, the forms still to do, its step
          save,        \* each administrator's saveLink under way
          saves, faults,
          ran,         \* ghost: the hour whose tick last stamped each form
          overlapped   \* ghost: forms two first saves of which ran at once

scheduleVars == <<links, hour, tick, save, saves, faults, ran, overlapped>>

NoTick == [step |-> "none", at |-> 0, left |-> <<>>, found |-> 0]
NoSave == [form |-> "none"]

Init ==
  /\ links = FirstLinks
  /\ hour = 0 /\ tick = NoTick
  /\ save = [a \in Admins |-> NoSave]
  /\ saves = 0 /\ faults = 0
  /\ ran = [f \in FormSet |-> Never] /\ overlapped = {}

Fault == faults < MaxFaults /\ faults' = faults + 1

\* Mutant: a lookup that fails counts as no row.
FindFirst_OrNone(f) == {0} \union DOMAIN links[f]

\* findFirst names no order: with two rows it may answer either; 0 is no row.
FindFirst(f) == IF links[f] = <<>> THEN {0} ELSE DOMAIN links[f]

\* A row with a patch laid over it; the columns a created row has of itself.
With(row, patch) == [c \in DOMAIN row |-> IF c \in DOMAIN patch THEN patch[c] ELSE row[c]]
Blank == [file |-> FALSE, enabled |-> TRUE, interval |-> Default, stamp |-> Never]

\* The second half of saveLink.
Stored(f, found, patch) ==
  IF found = 0 THEN Append(links[f], With(Blank, patch))
  ELSE [links[f] EXCEPT ![found] = With(@, patch)]

-----------------------------------------------------------------------------
(* The task.                                                               *)

\* Mutant: no slack for a tick that comes sooner after its hour than the last.
Due_Strict(link, at) ==
  link.interval > 0 /\ (link.stamp = Never \/ at - link.stamp >= link.interval * Hour)

\* isReconcileDue.
Due(link, at) ==
  /\ link.interval > 0
  /\ link.stamp = Never \/ at - link.stamp >= link.interval * Hour - Tolerance

Connected(link) == link.file /\ link.enabled

\* The full hour: the task starts a tick, late by d.  The one before has ended.
TickStarts == \E d \in Lateness :
  /\ tick = NoTick /\ hour < MaxHours /\ hour' = hour + 1
  /\ tick' = [step |-> "look", at |-> hour' * Hour + d, left |-> Forms, found |-> 0]
  /\ UNCHANGED <<links, save, saves, faults, ran, overlapped>>

\* The full hour while the server is down or has no credentials.
TickMissed ==
  /\ tick = NoTick /\ hour < MaxHours /\ hour' = hour + 1
  /\ UNCHANGED <<links, tick, save, saves, faults, ran, overlapped>>

\* On to the next form of the tick.
OnTo == IF Len(tick.left) = 1 THEN NoTick
        ELSE [tick EXCEPT !.step = "look", !.left = Tail(@), !.found = 0]

\* getLink and the two checks; with no row the link is blank and unconnected.
Look ==
  /\ tick.step = "look"
  /\ \E i \in FindFirst(Head(tick.left)) :
       tick' = IF i # 0 /\ Connected(links[Head(tick.left)][i])
                        /\ Due(links[Head(tick.left)][i], tick.at)
               THEN [tick EXCEPT !.step = "pass"] ELSE OnTo
  /\ UNCHANGED <<links, hour, save, saves, faults, ran, overlapped>>

\* getLink never throws: a read that fails is a form not connected.
LookFails ==
  /\ tick.step = "look" /\ Fault /\ tick' = OnTo
  /\ UNCHANGED <<links, hour, save, saves, ran, overlapped>>

\* The pass is over, well or not: stampReconcile looks for the row.
PassEnds ==
  /\ tick.step = "pass"
  /\ \E i \in FindFirst(Head(tick.left)) : tick' = [tick EXCEPT !.step = "stamp", !.found = i]
  /\ UNCHANGED <<links, hour, save, saves, faults, ran, overlapped>>

\* Mutant: the stamp carries the switch it read when the tick began.
StampOf_WholeLink == [stamp |-> tick.at, enabled |-> TRUE]

StampOf == [stamp |-> tick.at]

Stamp ==
  /\ tick.step = "stamp"
  /\ links' = [links EXCEPT ![Head(tick.left)] = Stored(Head(tick.left), tick.found, StampOf)]
  /\ ran' = [ran EXCEPT ![Head(tick.left)] = hour]
  /\ tick' = OnTo
  /\ UNCHANGED <<hour, save, saves, faults, overlapped>>

\* A stamp that cannot be looked up or written is a warning in the log.
StampFails ==
  /\ tick.step \in {"pass", "stamp"} /\ Fault /\ tick' = OnTo
  /\ UNCHANGED <<links, hour, save, saves, ran, overlapped>>

-----------------------------------------------------------------------------
(* The administrators.                                                     *)

SaveFinds(a) == \E f \in FormSet, p \in Patches : \E i \in FindFirst(f) :
  /\ save[a] = NoSave /\ saves < MaxSaves /\ saves' = saves + 1
  /\ save' = [save EXCEPT ![a] = [form |-> f, patch |-> p, found |-> i]]
  /\ overlapped' = IF i = 0 /\ \E b \in Admins : save[b].form = f
                   THEN overlapped \union {f} ELSE overlapped
  /\ UNCHANGED <<links, hour, tick, faults, ran>>

SaveWrites(a) ==
  /\ save[a] # NoSave
  /\ links' = [links EXCEPT ![save[a].form] =
                 Stored(save[a].form, save[a].found, save[a].patch)]
  /\ save' = [save EXCEPT ![a] = NoSave]
  /\ UNCHANGED <<hour, tick, saves, faults, ran, overlapped>>

\* The request answers an error.
SaveFails(a) ==
  /\ save[a] # NoSave /\ Fault /\ save' = [save EXCEPT ![a] = NoSave]
  /\ UNCHANGED <<links, hour, tick, saves, ran, overlapped>>

\* The process stops with whatever it was doing.
Restart ==
  /\ Fault /\ tick' = NoTick /\ save' = [a \in Admins |-> NoSave]
  /\ UNCHANGED <<links, hour, saves, ran, overlapped>>

Next ==
  \/ TickStarts \/ TickMissed \/ Look \/ LookFails \/ PassEnds \/ Stamp \/ StampFails
  \/ \E a \in Admins : SaveFinds(a) \/ SaveWrites(a) \/ SaveFails(a)
  \/ Restart

Spec == Init /\ [][Next]_scheduleVars

-----------------------------------------------------------------------------
\* The shape of the state.
TypeOK ==
  /\ links \in [FormSet -> Seq(Row)]
  /\ hour \in 0..MaxHours
  /\ tick.step \in {"none", "look", "pass", "stamp"} /\ tick.at \in Nat /\ tick.found \in Nat
  /\ (\A i \in DOMAIN tick.left : tick.left[i] \in FormSet) /\ (tick.step = "none" <=> tick.left = <<>>)
  /\ \A a \in Admins : save[a] # NoSave => save[a].form \in FormSet /\ save[a].patch \in Patches
  /\ saves \in 0..MaxSaves /\ faults \in 0..MaxFaults
  /\ ran \in [FormSet -> (0..MaxHours) \union {Never}] /\ overlapped \subseteq FormSet

\* A form has one link row, though every save looks and then creates
\* (store.ts:123), unless its very first saves overlapped.
OneLink == \A f \in FormSet \ overlapped : Len(links[f]) <= 1

\* "Without this tolerance the run would slip to 09:00 and keep slipping"
\* (store.ts:30-31): a look at a connected form starts a pass exactly when its
\* interval has gone by in whole hours since the tick that last stamped it,
\* whatever the lateness of the two ticks, the failures and restarts between
\* them, and the changes of its interval.
Punctual ==
  [][\A f \in FormSet :
       /\ tick.step = "look" /\ Head(tick.left) = f /\ tick' # tick /\ faults' = faults
       /\ Len(links[f]) = 1 /\ Connected(links[f][1])
       => (tick'.step = "pass" <=>
             LET h == links[f][1].interval IN
             h > 0 /\ (ran[f] = Never \/ hour - ran[f] >= h))]_scheduleVars

\* What an administrator chose is only undone by an administrator: a tick that
\* read the link before the choice and stamps it after, and a save of another
\* column that did, leave it alone (saveLink patches).
ChoicesKept ==
  [][\A f \in FormSet : \A i \in DOMAIN links[f] : \A c \in {"file", "enabled", "interval"} :
       links'[f][i][c] # links[f][i][c]
         => \E a \in Admins : /\ save'[a] # save[a] /\ save[a].form = f
                              /\ c \in DOMAIN save[a].patch
                              /\ links'[f][i][c] = save[a].patch[c]]_scheduleVars
=============================================================================
