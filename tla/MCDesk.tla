------------------------------- MODULE MCDesk -------------------------------
(***************************************************************************)
(* Desk for TLC: what is stored at first, and the calendar rules tried.    *)
(***************************************************************************)
EXTENDS Desk, TLC

CONSTANTS x, y, l1, l2, l3, t1, s1, s2, s3, k1, k2, f1, f2, r1, r2, r3

StaffSymmetry == Permutations(Staff)

-----------------------------------------------------------------------------
(* What is stored at first.                                                *)

MCItems == l1 :> <<[name |-> x, price |-> 1]>> @@ l2 :> <<>> @@ l3 :> <<>>
MCListTitles == l1 :> t1 @@ l2 :> Nothing @@ l3 :> Nothing

MCLabels == s1 :> x @@ s2 :> Nothing @@ s3 :> Nothing

MCCards == <<[key |-> k1, description |-> x, image |-> Nothing],
                [key |-> k2, description |-> Nothing, image |-> Nothing]>>

MCOverlay ==
  [q |-> ("note" :> [label |-> Nothing, required |-> FALSE, hidden |-> TRUE]),
   order |-> <<<<"email", "c1", "phone">>, <<"note">>>>, removed |-> {},
   custom |-> <<[key |-> "c1", type |-> "text", step |-> 1, label |-> x, required |-> TRUE]>>]

MCList == [i \in 1..3 |-> [id |-> <<r1, r2, r3>>[i], order |-> i, name |-> x]]

Said == [season |-> s1, archived |-> FALSE, status |-> x, relationship |-> "alta",
            relationshipOther |-> TRUE]
MCAnswers ==
  r1 :> Said @@ r2 :> Said @@
  r3 :> [Said EXCEPT !.archived = TRUE, !.relationship = "parinte", !.relationshipOther = FALSE]

MCLink == [file |-> TRUE, enabled |-> TRUE, interval |-> 1, stamp |-> Nothing]

\* Calendar rules: one-off events, repeating ones, and times with the moves an
\* override can make.
Plain == [freq |-> "none", days |-> {}, week |-> "first", single |-> Nothing, last |-> Nothing,
          seasonStart |-> Nothing, seasonEnd |-> Nothing, exceptions |-> <<>>, blackout |-> {},
          start |-> Nothing, end |-> Nothing, nextDay |-> FALSE,
          newStart |-> Nothing, newEnd |-> Nothing]
Off == <<[date |-> 20, kind |-> "cancel", newDate |-> Nothing],
         [date |-> 20, kind |-> "override", newDate |-> 33],
         [date |-> 34, kind |-> "liber", newDate |-> Nothing]>>

OneOffs == {[Plain EXCEPT !.single = s, !.last = l, !.blackout = {20, 40}, !.exceptions = Off] :
              s \in {Nothing, 19}, l \in {Nothing, 18, 22}}
Repeats == {[Plain EXCEPT !.freq = f, !.days = ds, !.week = w, !.seasonStart = b[1],
                          !.seasonEnd = b[2], !.exceptions = Off, !.blackout = {27, 41}] :
              f \in {"weekly", "biweekly", "monthly"}, ds \in {{1}, {0, 6}, {3, 5}},
              w \in {"first", "second", "fourth", "last"},
              b \in {<<5, 80>>, <<11, 60>>, <<Nothing, Nothing>>, <<40, 40>>}}
Times == {[Plain EXCEPT !.start = a, !.end = e, !.nextDay = n, !.newStart = c, !.newEnd = d] :
            a \in {Nothing, 1, 2}, e \in {Nothing, 1, 2}, n \in BOOLEAN,
            c \in {Nothing, 1, 2, 3}, d \in {Nothing, 1, 2, 3}}

MCCalendarRules == OneOffs \union Repeats \union Times
MCWindows == {<<1, 90>>, <<18, 45>>, <<32, 59>>, <<18, 22>>, <<20, 20>>}
MCCalendar == <<Plain, 1, 90>>
\* The clocks go forward on day 45, so that every longer window sees it.
MCSummerTime == 46..90
MCMonthDays == <<31, 28, 31>>

MCQuestions == <<<<"email", "phone">>, <<"note">>>>
MCCustomKeys == <<"c1", "c2", "c3">>
MCSheetForms == <<f1, f2>>
MCLinks == f1 :> <<MCLink>> @@ f2 :> <<>>
MCRegistrations == <<r1, r2, r3>>
=============================================================================
