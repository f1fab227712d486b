----------------------------- MODULE FormConfig -----------------------------
(***************************************************************************)
(* The form editor: src/src/api/form-config/services/form-config.ts, with  *)
(* its page src/src/admin/dashboard/FormEditorPage.tsx.                    *)
(*                                                                         *)
(* The questions of a public form are the code's registry under a stored   *)
(* overlay: edited labels, an order, questions taken out, questions added. *)
(* A page loads the merged form, edits it as a whole and sends it whole;   *)
(* the service builds a new overlay out of it and stores that.  Visitors   *)
(* see one merge of registry and overlay, editors another, and the checks  *)
(* on what visitors send use a third.                                      *)
(*                                                                         *)
(* A label stands for all the texts of a question; the options of lists    *)
(* are left out.  The page has no switch for hiding a question, so only an *)
(* overlay stored before can hold one.  The registration form has a policy *)
(* of its own, without added questions (custom-policy.ts); the form of     *)
(* this model is one of the others.                                        *)
(***************************************************************************)
EXTENDS Naturals, Sequences, FiniteSets, SequencesExt

CONSTANTS Editors,
          Registry,      \* the built-in questions of every step, in order
          Locked,        \* those required by law
          CanHide,
          Types,         \* of added questions
          Texts,         \* labels
          Default, Blank,  \* the label the code gives; an emptied one
          CustomKeys,    \* the keys genId draws, in the order it draws them
          Fresh,         \* an added question that has no key yet
          FirstOverlay,  \* what is stored at first
          MaxEdits, MaxFaults  \* bounds: edits on the pages, failed calls

Steps == DOMAIN Registry
Builtins == UNION {Range(Registry[s]) : s \in Steps}

Keys == Builtins \union Range(CustomKeys)

StoredQuestion == [label : Texts \union {Blank}, required : BOOLEAN, hidden : BOOLEAN]
AddedQuestion == [key : Range(CustomKeys), type : Types, step : Steps,
                  label : Texts, required : BOOLEAN]

\* What buildOverlay makes: an order names no key twice and every added question
\* of its step.
WellStored(o) ==
  /\ DOMAIN o.q \subseteq Builtins /\ \A k \in DOMAIN o.q : o.q[k] \in StoredQuestion
  /\ o.order \in [Steps -> Seq(Keys)] /\ \A s \in Steps : IsInjective(o.order[s])
  /\ o.removed \subseteq Builtins
  /\ o.custom \in Seq(AddedQuestion)
  /\ \A c \in Range(o.custom) : c.key \in Range(o.order[c.step])
  /\ \A c, d \in Range(o.custom) : c.key = d.key => c = d

FormAssumption ==
  /\ Registry \in Seq(Seq(Builtins))
  /\ Locked \subseteq Builtins /\ CanHide \subseteq Builtins \ Locked
  /\ Default \in Texts /\ Blank \notin Texts /\ Fresh \notin Builtins
  /\ \A s, t \in Steps : \A i \in DOMAIN Registry[s], j \in DOMAIN Registry[t] :
       Registry[s][i] = Registry[t][j] => s = t /\ i = j
  /\ CustomKeys \in Seq(Range(CustomKeys)) /\ IsInjective(CustomKeys)
  /\ Range(CustomKeys) \intersect (Builtins \union {Fresh}) = {}
  /\ WellStored(FirstOverlay) /\ Len(FirstOverlay.custom) <= Len(CustomKeys)
  /\ \A c \in Range(FirstOverlay.custom) :
       \E i \in 1..Len(FirstOverlay.custom) : c.key = CustomKeys[i]
  /\ MaxEdits \in Nat /\ MaxFaults \in Nat

VARIABLES overlay,
          model, baseline,  \* each page's working copy, and what it discards to
          saving,           \* its save: the call it is at, the copy it sends and the
                            \* overlay built from that
          minted,           \* keys drawn
          edits, faults,
          touched,  \* ghost: the questions edited since the page loaded
          blind,    \* ghost: the page no longer shows what is stored
          meant     \* ghost: every <<key, type>> of an added question ever stored

formVars == <<overlay, model, baseline, saving, minted, edits, faults,
              touched, blind, meant>>

EmptyOverlay == [q |-> <<>>, order |-> [s \in Steps |-> <<>>], removed |-> {}, custom |-> <<>>]

-----------------------------------------------------------------------------
(* Registry under overlay.                                                 *)

KeysOf(seq) == [i \in DOMAIN seq |-> seq[i].key]

\* The elements of a list at some of its places, in order.
Nth(places, n) == CHOOSE i \in places : Cardinality({j \in places : j <= i}) = n
Only(seq, places) == [n \in 1..Cardinality(places) |-> seq[Nth(places, n)]]

\* stepEntries: what may stand in a step, built-in and added.
Valid(s, o) ==
  Only(Registry[s], {i \in DOMAIN Registry[s] : Registry[s][i] \notin o.removed})
    \o KeysOf(Only(o.custom, {i \in DOMAIN o.custom : o.custom[i].step = s}))

\* Mutant: keys the order names are not skipped afterwards.
StepKeys_Twice(s, o) ==
  LET all == Valid(s, o)
  IN  Only(o.order[s], {i \in DOMAIN o.order[s] : o.order[s][i] \in Range(all)}) \o all

\* stepEntries: the stored order first, then whatever it does not name.
StepKeys(s, o) ==
  LET all == Valid(s, o)
      known == Only(o.order[s], {i \in DOMAIN o.order[s] : o.order[s][i] \in Range(all)})
  IN  known \o Only(all, {i \in DOMAIN all : all[i] \notin Range(known)})

CustomOf(k, o) == CHOOSE c \in Range(o.custom) : c.key = k

builtinHidden(k, o) == k \in CanHide /\ k \in DOMAIN o.q /\ o.q[k].hidden

builtinRequired(k, o) ==
  \/ k \in Locked
  \/ ~builtinHidden(k, o) /\ (k \in DOMAIN o.q => o.q[k].required)

Label(k, o) == IF k \in DOMAIN o.q /\ o.q[k].label # Blank THEN o.q[k].label ELSE Default

\* editQuestion: a question as the page edits it.
editQuestion(k, o) ==
  IF k \in Builtins
  THEN [key |-> k, type |-> Default, label |-> Label(k, o),
        required |-> builtinRequired(k, o), hidden |-> builtinHidden(k, o)]
  ELSE [key |-> k, type |-> CustomOf(k, o).type, label |-> CustomOf(k, o).label,
        required |-> CustomOf(k, o).required, hidden |-> FALSE]

\* Mutant: the page is not told what was taken out.
mergeEditModel_RemovedLost(o) ==
  [steps |-> [s \in Steps |-> LET keys == StepKeys(s, o)
                              IN  [i \in DOMAIN keys |-> editQuestion(keys[i], o)]],
   removed |-> {}]

mergeEditModel(o) ==
  [steps |-> [s \in Steps |-> LET keys == StepKeys(s, o)
                              IN  [i \in DOMAIN keys |-> editQuestion(keys[i], o)]],
   removed |-> o.removed \intersect Builtins]

\* mergePublicModel: what the site asks.
publicQuestion(k, o) ==
  IF k \in Builtins
  THEN [key |-> k, type |-> Default, label |-> Label(k, o), required |-> builtinRequired(k, o)]
  ELSE [key |-> k, type |-> CustomOf(k, o).type, label |-> CustomOf(k, o).label,
        required |-> CustomOf(k, o).required]

mergePublicModel(o) ==
  [s \in Steps |->
     LET all == StepKeys(s, o)
         keys == Only(all, {i \in DOMAIN all : all[i] \in Builtins => ~builtinHidden(all[i], o)})
     IN  [i \in DOMAIN keys |-> publicQuestion(keys[i], o)]]

\* Mutant: removed questions are demanded too.
effectiveRequired_Removed(o) == {k \in Builtins : builtinRequired(k, o)}

\* What a submit must answer: effectiveRequired, and the added questions
\* validateExtra refuses an empty answer to.
effectiveRequired(o) == {k \in Builtins : k \notin o.removed /\ builtinRequired(k, o)}
validateExtra(o) == {c.key : c \in {d \in Range(o.custom) : d.required}}

-----------------------------------------------------------------------------
(* What a page sends, made into an overlay.                                *)

NewBefore(m, s, i) ==
  Cardinality({p \in UNION {{t} \X DOMAIN m.steps[t] : t \in Steps} :
                 /\ p[1] < s \/ (p[1] = s /\ p[2] < i)
                 /\ m.steps[p[1]][p[2]].key = Fresh})

NewIn(m) == NewBefore(m, Len(Registry) + 1, 1)

\* Mutant: a new question gets the first key free on the page.
KeyOf_Freed(m, s, i) ==
  IF m.steps[s][i].key # Fresh THEN m.steps[s][i].key
  ELSE LET used == UNION {Range(KeysOf(m.steps[t])) : t \in Steps}
       IN  SelectSeq(CustomKeys, LAMBDA k : k \notin used)[1 + NewBefore(m, s, i)]

\* A stored key is kept, a new question gets one never drawn before.
KeyOf(m, s, i) == IF m.steps[s][i].key # Fresh THEN m.steps[s][i].key
                  ELSE CustomKeys[minted + 1 + NewBefore(m, s, i)]

\* Mutant: a built-in question is stored as required.
buildBuiltinOverlay_Required(q) == [label |-> q.label, required |-> TRUE, hidden |-> q.hidden]

buildBuiltinOverlay(q) == [label |-> q.label, required |-> q.required, hidden |-> q.hidden]

buildCustomQuestion(q, s) ==
  [key |-> q.key, type |-> q.type, step |-> s, label |-> q.label, required |-> q.required]

Keyed(m) == [s \in Steps |-> [i \in DOMAIN m.steps[s] |->
                                [m.steps[s][i] EXCEPT !.key = KeyOf(m, s, i)]]]

buildOverlay(m) ==
  LET asked == Keyed(m)
      present == UNION {Range(KeysOf(asked[s])) : s \in Steps}
      question(k) == CHOOSE q \in UNION {Range(asked[s]) : s \in Steps} : q.key = k
      removed == m.removed \ present
  IN  [q |-> [k \in present \intersect Builtins |-> buildBuiltinOverlay(question(k))],
       order |-> [s \in Steps |-> KeysOf(asked[s]) \o
                    Only(Registry[s], {i \in DOMAIN Registry[s] :
                                         Registry[s][i] \notin present \union removed})],
       removed |-> removed,
       custom |-> FlattenSeq([s \in Steps |->
                    LET added == Only(asked[s], {i \in DOMAIN asked[s] :
                                                   asked[s][i].key \notin Builtins})
                    IN  [i \in DOMAIN added |-> buildCustomQuestion(added[i], s)]])]

\* An added question needs a label, and keeps the type it was stored with.
Refused(m, prev) ==
  \E s \in Steps : \E q \in Range(m.steps[s]) :
    /\ q.key \notin Builtins
    /\ \/ q.label = Blank
       \/ \E c \in Range(prev.custom) : c.key = q.key /\ c.type # q.type

-----------------------------------------------------------------------------
Rest == [at |-> "no"]
At(e, call) == saving[e].at = call

Init ==
  /\ overlay = FirstOverlay
  /\ model = [e \in Editors |-> mergeEditModel(FirstOverlay)] /\ baseline = model
  /\ saving = [e \in Editors |-> Rest]
  /\ minted = Len(FirstOverlay.custom) /\ edits = 0 /\ faults = 0
  /\ touched = [e \in Editors |-> {}] /\ blind = [e \in Editors |-> FALSE]
  /\ meant = {<<c.key, c.type>> : c \in Range(FirstOverlay.custom)}

adopt(e, m) ==
  /\ model' = [model EXCEPT ![e] = m]
  /\ baseline' = [baseline EXCEPT ![e] = m]
  /\ touched' = [touched EXCEPT ![e] = {}]

Load(e) ==
  /\ At(e, "no") /\ (blind[e] \/ model[e] # baseline[e])
  /\ adopt(e, mergeEditModel(overlay))
  /\ blind' = [blind EXCEPT ![e] = FALSE]
  /\ UNCHANGED <<overlay, saving, minted, edits, faults, meant>>

Fault == faults < MaxFaults /\ faults' = faults + 1

\* loadOverlay answers a failed read with an empty overlay: the page shows the
\* registry alone.
LoadFails(e) ==
  /\ At(e, "no") /\ Fault
  /\ adopt(e, mergeEditModel(EmptyOverlay))
  /\ blind' = [blind EXCEPT ![e] = TRUE]
  /\ UNCHANGED <<overlay, saving, minted, edits, meant>>

Mutate(e, m, key) ==
  /\ edits < MaxEdits /\ edits' = edits + 1
  /\ model' = [model EXCEPT ![e] = m]
  /\ touched' = [touched EXCEPT ![e] = @ \union {key}]
  /\ UNCHANGED <<overlay, baseline, saving, minted, faults, blind, meant>>

setLabel(e) == \E s \in Steps : \E i \in DOMAIN model[e].steps[s], l \in Texts \union {Blank} :
  /\ model[e].steps[s][i].label # l
  /\ Mutate(e, [model[e] EXCEPT !.steps[s][i].label = l], model[e].steps[s][i].key)

setRequired(e) == \E s \in Steps : \E i \in DOMAIN model[e].steps[s] :
  /\ model[e].steps[s][i].key \notin Locked
  /\ Mutate(e, [model[e] EXCEPT !.steps[s][i].required = ~@], model[e].steps[s][i].key)

\* setStepQuestions, the list's reorder: two neighbours change places.
moveQuestion(e) == \E s \in Steps : \E i \in DOMAIN model[e].steps[s] \ {1} :
  Mutate(e, [model[e] EXCEPT !.steps[s][i] = model[e].steps[s][i - 1],
                             !.steps[s][i - 1] = model[e].steps[s][i]], Fresh)

\* setStepQuestions, the list's delete: a built-in question is remembered.
deleteQuestion(e) == \E s \in Steps : \E i \in DOMAIN model[e].steps[s] :
  LET k == model[e].steps[s][i].key
  IN  Mutate(e, [model[e] EXCEPT !.steps[s] = RemoveAt(@, i),
                                 !.removed = @ \union ({k} \intersect Builtins)], k)

restoreQuestion(e) == \E k \in model[e].removed :
  Mutate(e, [model[e] EXCEPT !.removed = @ \ {k}], k)

commitAdd(e) == \E s \in Steps, t \in Types, l \in Texts \ {Default}, r \in BOOLEAN :
  Mutate(e, [model[e] EXCEPT !.steps[s] = Append(@,
              [key |-> Fresh, type |-> t, label |-> l, required |-> r, hidden |-> FALSE])], Fresh)

discard(e) ==
  /\ At(e, "no") /\ model[e] # baseline[e]
  /\ model' = [model EXCEPT ![e] = baseline[e]]
  /\ touched' = [touched EXCEPT ![e] = {}]
  /\ UNCHANGED <<overlay, baseline, saving, minted, edits, faults, blind, meant>>

onSave(e) ==
  /\ At(e, "no") /\ model[e] # baseline[e]
  /\ saving' = [saving EXCEPT ![e] = [at |-> "build", sent |-> model[e]]]
  /\ UNCHANGED <<overlay, model, baseline, minted, edits, faults, touched, blind, meant>>

\* saveConfig: the stored overlay is read only for the types of added questions;
\* a failed read checks none.
Build(e, prev) ==
  LET m == saving[e].sent IN
  /\ At(e, "build")
  /\ minted + NewIn(m) <= Len(CustomKeys)   \* bound: the keys drawn
  /\ IF Refused(m, prev)
     THEN saving' = [saving EXCEPT ![e] = Rest] /\ UNCHANGED minted
     ELSE /\ saving' = [saving EXCEPT ![e] =
                          [at |-> "write", sent |-> m, next |-> buildOverlay(m)]]
          /\ minted' = minted + NewIn(m)
  /\ UNCHANGED <<overlay, model, baseline, edits, touched, blind, meant>>

BuildOnStored(e) == Build(e, overlay) /\ UNCHANGED faults
BuildUnread(e) == Fault /\ Build(e, EmptyOverlay)

saveOverlay(e) ==
  /\ At(e, "write")
  /\ overlay' = saving[e].next
  /\ saving' = [saving EXCEPT ![e].at = "answer"]
  /\ blind' = [f \in Editors |-> blind[f] \/ f # e]
  /\ meant' = meant \union {<<c.key, c.type>> : c \in Range(saving[e].next.custom)}
  /\ UNCHANGED <<model, baseline, minted, edits, faults, touched>>

\* The page adopts the answer: the form as this save stored it.
Answer(e) ==
  /\ At(e, "answer")
  /\ adopt(e, mergeEditModel(saving[e].next))
  /\ saving' = [saving EXCEPT ![e] = Rest]
  /\ UNCHANGED <<overlay, minted, edits, faults, blind, meant>>

\* A call fails, stored or not: the page keeps what it has.
SaveFails(e) ==
  /\ ~At(e, "no") /\ Fault
  /\ saving' = [saving EXCEPT ![e] = Rest]
  /\ blind' = [blind EXCEPT ![e] = @ \/ At(e, "answer")]
  /\ UNCHANGED <<overlay, model, baseline, minted, edits, touched, meant>>

Step(e) == \/ Load(e) \/ LoadFails(e)
           \/ setLabel(e) \/ setRequired(e) \/ moveQuestion(e) \/ deleteQuestion(e)
           \/ restoreQuestion(e) \/ commitAdd(e) \/ discard(e)
           \/ onSave(e) \/ BuildOnStored(e) \/ BuildUnread(e) \/ saveOverlay(e)
           \/ Answer(e) \/ SaveFails(e)

Next == \E e \in Editors : Step(e)
Spec == Init /\ [][Next]_formVars

-----------------------------------------------------------------------------
Question == [key : Keys \union {Fresh}, type : Types \union {Default},
             label : Texts \union {Blank}, required : BOOLEAN, hidden : BOOLEAN]

\* The shape of the state; an order names no key twice, so stepEntries has no
\* duplicate to skip, and every question stands in a page once or is taken out.
TypeOK ==
  /\ \A s \in Steps : IsInjective(overlay.order[s])
  /\ overlay.removed \subseteq Builtins /\ DOMAIN overlay.q \subseteq Builtins
  /\ \A e \in Editors : \A s \in Steps : Range(model[e].steps[s]) \subseteq Question
  /\ \A e \in Editors : \A s, t \in Steps : \A q \in Range(model[e].steps[s]) :
       /\ q.key \notin model[e].removed
       /\ q.key # Fresh /\ q \in Range(model[e].steps[t]) => s = t
  /\ \A e \in Editors : saving[e].at \in {"no", "build", "write", "answer"}
  /\ minted \in 0..Len(CustomKeys) /\ edits \in 0..MaxEdits /\ faults \in 0..MaxFaults
  /\ blind \in [Editors -> BOOLEAN]

Asked(k, o) == {q \in UNION {Range(mergePublicModel(o)[s]) : s \in Steps} : q.key = k}

\* The editor sends the whole form, and all of it is rebuilt: a save still
\* changes, for visitors, only the questions its editor touched.  Not so for a
\* page that does not show what is stored: another editor saved since it loaded,
\* its load failed, or its own last save was stored and unanswered.
UntouchedKept ==
  [][\A e \in Editors :
       At(e, "write") /\ saving'[e].at = "answer" /\ ~blind[e] =>
         \A k \in (Builtins \union {p[1] : p \in meant}) \ touched[e] :
           Asked(k, overlay') = Asked(k, overlay)]_formVars

\* What an editor saw when saving, in order: labels left empty read as the
\* code's, hidden questions are not there, restored ones come last.
Seen(m, s) ==
  LET asked(k, type, label, required) ==
        [key |-> IF k \in Builtins THEN k ELSE Fresh, type |-> type,
         label |-> IF label = Blank THEN Default ELSE label, required |-> required]
      shown == Only(m.steps[s], {i \in DOMAIN m.steps[s] : ~m.steps[s][i].hidden})
      present == Range(KeysOf(m.steps[s]))
      back == Only(Registry[s], {i \in DOMAIN Registry[s] :
                                   Registry[s][i] \notin present \union m.removed})
  IN  [i \in DOMAIN shown |-> asked(shown[i].key, shown[i].type, shown[i].label, shown[i].required)]
        \o [i \in DOMAIN back |-> asked(back[i], Default, Blank, TRUE)]

\* "Array position implies order" (form-config.ts:393) and the rest of the round
\* trip page, payload, overlay, public form: what is stored by a save is asked
\* of visitors as the page showed it, whatever the page had loaded.
SavedIsAsked ==
  [][\A e \in Editors :
       At(e, "write") /\ saving'[e].at = "answer" =>
         \A s \in Steps :
           LET asked == mergePublicModel(overlay')[s]
           IN  [i \in DOMAIN asked |-> IF asked[i].key \in Builtins THEN asked[i]
                                       ELSE [asked[i] EXCEPT !.key = Fresh]]
               = Seen(saving[e].sent, s)]_formVars

\* The submit checks merge registry and overlay on their own: they demand an
\* answer exactly to the questions the site shows as required, so no form can
\* ask for what it does not show.
RequiredIsShown ==
  effectiveRequired(overlay) \union validateExtra(overlay)
  = {q.key : q \in {p \in UNION {Range(mergePublicModel(overlay)[s]) : s \in Steps} : p.required}}

\* Answers are stored under the key of their question.  A key keeps its type for
\* ever: also when the question was taken out, and comes back from a page
\* loaded before that.
KeyMeansOne == \A p, q \in meant : p[1] = q[1] => p = q
=============================================================================
