----------------------------- MODULE PageEditing ----------------------------
(***************************************************************************)
(* The edit pages of single types: useSingleType.ts (load, save),          *)
(* usePageForm.ts (the working copy) and useSaveState.ts (one save at a    *)
(* time), under src/src/admin/.                                            *)
(*                                                                         *)
(* Every browser holds the document as last loaded and a working copy.  A  *)
(* save sends the fields in which the two differ, publishes the whole      *)
(* draft, fetches the document again and restarts the working copy from    *)
(* it.  Other browsers save the same document between any two of these     *)
(* calls, every call can fail, stored or not, and nothing stops the user   *)
(* from typing while a save runs.                                          *)
(***************************************************************************)
EXTENDS Naturals

CONSTANTS Browsers, Fields,
          Values,      \* of a field; the first one stored is First
          First,
          MaxTyped,    \* bound: fields typed
          MaxFaults    \* bound: failed calls

PagesAssumption ==
  First \in Values /\ MaxTyped \in Nat /\ MaxFaults \in Nat

VARIABLES draft, published,  \* the stored document
          loaded, value,     \* each browser's copies
          saving,            \* the call its save is at
          body,              \* the fields its save sends
          count, faults,
          typed,     \* ghost: fields typed since the working copy restarted
          late,      \* ghost: those typed while a save runs
          over,      \* ghost: fields another browser stored since this save did
          halfway    \* ghost: a save stored fields and failed before publishing

pageVars == <<draft, published, loaded, value, saving, body, count, faults,
              typed, late, over, halfway>>

Document == [Fields -> Values]
Dirty(b) == value[b] # loaded[b]

\* Mutant: the whole working copy is sent.
ChangedFields_All(old, new) == new

\* contentApi.changedFields: what the working copy changed.
ChangedFields(old, new) == [f \in {g \in Fields : old[g] # new[g]} |-> new[f]]

Init ==
  /\ draft = [f \in Fields |-> First] /\ published = draft
  /\ loaded = [b \in Browsers |-> draft] /\ value = loaded
  /\ saving = [b \in Browsers |-> "no"]
  /\ body = [b \in Browsers |-> <<>>]
  /\ count = 0 /\ faults = 0 /\ halfway = FALSE
  /\ typed = [b \in Browsers |-> {}] /\ late = typed /\ over = typed

Restart(b, doc) ==
  /\ value' = [value EXCEPT ![b] = doc]
  /\ typed' = [typed EXCEPT ![b] = {}]
  /\ late' = [late EXCEPT ![b] = {}]
  /\ over' = [over EXCEPT ![b] = {}]

Open(b) ==
  /\ saving[b] = "no" /\ ~Dirty(b) /\ loaded[b] # draft
  /\ loaded' = [loaded EXCEPT ![b] = draft]
  /\ Restart(b, draft)
  /\ UNCHANGED <<draft, published, saving, body, count, faults, halfway>>

Type(b) == \E f \in Fields, v \in Values :
  /\ count < MaxTyped /\ value[b][f] # v
  /\ count' = count + 1
  /\ value' = [value EXCEPT ![b][f] = v]
  /\ typed' = [typed EXCEPT ![b] = @ \union {f}]
  /\ late' = IF saving[b] = "no" THEN late ELSE [late EXCEPT ![b] = @ \union {f}]
  /\ UNCHANGED <<draft, published, loaded, saving, body, faults, over, halfway>>

Discard(b) ==
  /\ saving[b] = "no" /\ Dirty(b)
  /\ Restart(b, loaded[b])
  /\ UNCHANGED <<draft, published, loaded, saving, body, count, faults, halfway>>

\* SaveBar offers the save only while dirty and not saving; run() ignores a second one.
StartSave(b) ==
  /\ saving[b] = "no" /\ Dirty(b)
  /\ saving' = [saving EXCEPT ![b] = "put"]
  /\ body' = [body EXCEPT ![b] = ChangedFields(loaded[b], value[b])]
  /\ late' = [late EXCEPT ![b] = {}]
  /\ over' = [over EXCEPT ![b] = {}]
  /\ UNCHANGED <<draft, published, loaded, value, count, faults, typed, halfway>>

StoreBody(b) ==
  /\ draft' = [f \in Fields |-> IF f \in DOMAIN body[b] THEN body[b][f] ELSE draft[f]]
  /\ over' = [c \in Browsers |-> IF c = b THEN over[c]
                                 ELSE over[c] \union DOMAIN body[b]]

\* Mutant: a save stores the draft and leaves it at that.
Put_Unpublished(b) ==
  /\ saving[b] = "put"
  /\ StoreBody(b)
  /\ saving' = [saving EXCEPT ![b] = "fetch"]
  /\ UNCHANGED <<published, loaded, value, body, count, faults, typed, late, halfway>>

Put(b) ==
  /\ saving[b] = "put"
  /\ StoreBody(b)
  /\ saving' = [saving EXCEPT ![b] = "publish"]
  /\ UNCHANGED <<published, loaded, value, body, count, faults, typed, late, halfway>>

Publish(b) ==
  /\ saving[b] = "publish"
  /\ published' = draft /\ halfway' = FALSE
  /\ saving' = [saving EXCEPT ![b] = "fetch"]
  /\ UNCHANGED <<draft, loaded, value, body, count, faults, typed, late, over>>

Fetch(b) ==
  /\ saving[b] = "fetch"
  /\ loaded' = [loaded EXCEPT ![b] = draft]
  /\ Restart(b, draft)
  /\ saving' = [saving EXCEPT ![b] = "no"]
  /\ body' = [body EXCEPT ![b] = <<>>]
  /\ UNCHANGED <<draft, published, count, faults, halfway>>

\* Mutant: a failed save puts the loaded copy back.
GiveUp_Restarts(b) ==
  /\ faults < MaxFaults /\ faults' = faults + 1
  /\ saving' = [saving EXCEPT ![b] = "no"]
  /\ body' = [body EXCEPT ![b] = <<>>]
  /\ value' = [value EXCEPT ![b] = loaded[b]]
  /\ UNCHANGED <<loaded, count, typed, late>>

\* A failed run: the error shows, both copies stay as they are.
GiveUp(b) ==
  /\ faults < MaxFaults /\ faults' = faults + 1
  /\ saving' = [saving EXCEPT ![b] = "no"]
  /\ body' = [body EXCEPT ![b] = <<>>]
  /\ UNCHANGED <<loaded, value, count, typed, late>>

PutFails(b) ==
  /\ saving[b] = "put" /\ GiveUp(b)
  /\ UNCHANGED <<draft, published, over, halfway>>

PutUnanswered(b) ==
  /\ saving[b] = "put" /\ GiveUp(b)
  /\ StoreBody(b) /\ halfway' = TRUE
  /\ UNCHANGED published

PublishFails(b) ==
  /\ saving[b] = "publish" /\ GiveUp(b)
  /\ halfway' = TRUE
  /\ UNCHANGED <<draft, published, over>>

FetchFails(b) ==
  /\ saving[b] = "fetch" /\ GiveUp(b)
  /\ UNCHANGED <<draft, published, over, halfway>>

Step(b) == \/ Open(b) \/ Type(b) \/ Discard(b) \/ StartSave(b)
           \/ Put(b) \/ Publish(b) \/ Fetch(b)
           \/ PutFails(b) \/ PutUnanswered(b) \/ PublishFails(b) \/ FetchFails(b)

Next == \E b \in Browsers : Step(b)
Spec == Init /\ [][Next]_pageVars

-----------------------------------------------------------------------------
\* The shape of the state: a body names fields, and only while a save runs.
TypeOK ==
  /\ draft \in Document /\ published \in Document
  /\ loaded \in [Browsers -> Document] /\ value \in [Browsers -> Document]
  /\ saving \in [Browsers -> {"no", "put", "publish", "fetch"}]
  /\ \A b \in Browsers : /\ DOMAIN body[b] \subseteq Fields
                         /\ \A f \in DOMAIN body[b] : body[b][f] \in Values
                         /\ saving[b] = "no" => body[b] = <<>>
  /\ count \in 0..MaxTyped /\ faults \in 0..MaxFaults /\ halfway \in BOOLEAN
  /\ \A g \in {typed, late, over} : g \in [Browsers -> SUBSET Fields]

\* "Attributes the page did not touch are not sent at all, so the server keeps
\* them as stored" (contentApi.ts:227): however old the loaded copy and after
\* whatever failed saves, a save changes only fields its user typed in.
OnlyTypedStored ==
  [][\A b \in Browsers : saving[b] = "put" /\ draft' # draft /\ saving'[b] # "put"
       => \A f \in Fields : draft'[f] # draft[f] => f \in typed[b]]_pageVars

\* "Publish after every save (the pages have no draft UI yet)"
\* (useSingleType.ts:37): what visitors see is the draft, unless a save is
\* between its two calls or one failed there and none has succeeded since.
NothingUnpublished ==
  halfway \/ (\E b \in Browsers : saving[b] = "publish") \/ published = draft

\* A running save, successful or not, takes typed text away only if it was typed
\* while the save ran, or another browser stored that field meanwhile.  (A field
\* typed back to the loaded copy counts as untouched: after a save that was
\* stored and failed, the server keeps the text the user has taken back.)
OnlyLateTextLost ==
  [][\A b \in Browsers, f \in Fields :
       /\ saving[b] # "no" /\ value[b][f] # loaded[b][f]
       /\ value'[b][f] # value[b][f]
       => f \in late'[b] \union late[b] \union over[b]]_pageVars
=============================================================================
