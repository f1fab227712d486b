----------------------------- MODULE MenuCards ------------------------------
(***************************************************************************)
(* The Meniu site page: src/src/api/navigation/controllers/navigation.ts.  *)
(*                                                                         *)
(* One single type holds the promo card of every section of the menu.  An  *)
(* update names a key and carries a description, an image or both; the     *)
(* handler reads ALL rows, changes the one of that key and writes ALL rows *)
(* back, so a description and an image sent for different keys meet in one *)
(* stored value.                                                           *)
(***************************************************************************)
EXTENDS Naturals, Sequences

CONSTANTS Editors,     \* administrators with the page open
          Keys,        \* sections the menu knows, stored or not
          Texts,       \* descriptions and images
          Cards,       \* the stored rows at first: a sequence of cards
          Empty,       \* null
          MaxUpdates   \* bound: requests

Fields == {"description", "image"}
Row == [key : Keys, description : Texts \union {Empty}, image : Texts \union {Empty}]

CardsAssumption ==
  /\ Cards \in Seq(Row) /\ Empty \notin Texts /\ MaxUpdates \in Nat
  /\ \A i, j \in DOMAIN Cards : Cards[i].key = Cards[j].key => i = j

VARIABLES overrides,  \* the stored rows
          update,     \* each editor's request and what it read
          updates,
          wanted,     \* ghost: the last value asked for, per key and field
          overtaken, raced

menuVars == <<overrides, update, updates, wanted, overtaken, raced>>

Idle == [step |-> "idle"]

Init ==
  /\ overrides = Cards
  /\ update = [e \in Editors |-> Idle]
  /\ updates = 0
  /\ wanted = [i \in DOMAIN Cards |-> Cards[i]]
  /\ overtaken = [e \in Editors |-> FALSE] /\ raced = FALSE

\* The body: a key and one or both fields, "" and null being Empty.
Send(e) == \E k \in Keys, fs \in SUBSET Fields :
  \E body \in [fs -> Texts \union {Empty}] :
    /\ update[e].step = "idle" /\ updates < MaxUpdates
    /\ updates' = updates + 1
    /\ update' = [update EXCEPT ![e] = [step |-> "find", key |-> k, body |-> body]]
    /\ overtaken' = [overtaken EXCEPT ![e] = FALSE]
    /\ UNCHANGED <<overrides, wanted, raced>>

\* Mutant: a field the body does not have is emptied.
Edited_MissingEmptied(row, key, body) ==
  IF row.key # key THEN row
  ELSE [f \in DOMAIN row |-> IF f \in DOMAIN body THEN body[f]
                             ELSE IF f = "key" THEN key ELSE Empty]

\* adminUpdate's row: only a field the body has, only in the row of its key.
Edited(row, key, body) ==
  IF row.key # key THEN row
  ELSE [f \in DOMAIN row |-> IF f \in DOMAIN body THEN body[f] ELSE row[f]]

FindUnknown(e) ==
  /\ update[e].step = "find"
  /\ \A i \in DOMAIN overrides : overrides[i].key # update[e].key
  /\ update' = [update EXCEPT ![e] = Idle]
  /\ UNCHANGED <<overrides, updates, wanted, overtaken, raced>>

FindRows(e) ==
  LET u == update[e] IN
  /\ u.step = "find"
  /\ \E i \in DOMAIN overrides : overrides[i].key = u.key
  /\ update' = [update EXCEPT ![e] =
       [step |-> "write", key |-> u.key, body |-> u.body,
        next |-> [i \in DOMAIN overrides |-> Edited(overrides[i], u.key, u.body)]]]
  /\ UNCHANGED <<overrides, updates, wanted, overtaken, raced>>

WriteRows(e) ==
  LET u == update[e] IN
  /\ u.step = "write"
  /\ overrides' = u.next
  /\ update' = [update EXCEPT ![e] = Idle]
  /\ wanted' = [i \in DOMAIN wanted |->
       [f \in DOMAIN wanted[i] |-> IF wanted[i].key = u.key /\ f \in DOMAIN u.body
                                   THEN u.body[f] ELSE wanted[i][f]]]
  /\ overtaken' = [d \in Editors |-> overtaken[d] \/ (d # e /\ update[d].step = "write")]
  /\ raced' = (raced \/ overtaken[e])
  /\ UNCHANGED updates

\* A rejected write: the rows stay, the editor sees an error.
WriteFails(e) ==
  /\ update[e].step = "write"
  /\ update' = [update EXCEPT ![e] = Idle]
  /\ UNCHANGED <<overrides, updates, wanted, overtaken, raced>>

Next == \E e \in Editors : Send(e) \/ FindUnknown(e) \/ FindRows(e)
                           \/ WriteRows(e) \/ WriteFails(e)
Spec == Init /\ [][Next]_menuVars

-----------------------------------------------------------------------------
\* The shape of the state.
TypeOK ==
  /\ overrides \in Seq(Row) /\ wanted \in Seq(Row)
  /\ \A e \in Editors : update[e].step \in {"idle", "find", "write"}
  /\ updates \in 0..MaxUpdates
  /\ overtaken \in [Editors -> BOOLEAN] /\ raced \in BOOLEAN

\* "Only the row matching key changes, and only its two editable fields"
\* (navigation.ts:76): every field of every card holds what was last asked for
\* it, although each write carries all of them, unless two requests overlapped.
LastAskedShown == ~raced => overrides = wanted
=============================================================================
