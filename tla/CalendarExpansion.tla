-------------------------- MODULE CalendarExpansion -------------------------
(***************************************************************************)
(* The public calendar: expandOccurrences (src/src/api/calendar-event/     *)
(* services/expand.ts) turns one rule into the dated occurrences of a      *)
(* window, for the rules validateRecurrence (validate-recurrence.ts) lets  *)
(* be saved and for older ones.                                            *)
(*                                                                         *)
(* Days are numbered from the first day of a stretch of months; weekdays   *)
(* go from 0 (Sunday), as getDay() counts them.  The day loops run one day *)
(* or month a step.  Local midnights are numbered in hours, for the weeks  *)
(* weekIndex divides out of them: an hour is missing between two midnights *)
(* where the clocks of the process went forward.                           *)
(***************************************************************************)
EXTENDS Integers, Sequences, FiniteSets

CONSTANTS MonthDays,     \* the lengths of the months of the stretch
          FirstWeekday,  \* of day 1
          Rules,         \* the rules tried: records of Rule
          Windows,       \* the windows asked for: <<from, to>>
          SummerTime,    \* the days that begin in summer time; {} where clocks never change
          None           \* null

Freqs == {"none", "weekly", "biweekly", "monthly"}
WeeksOfMonth == <<"first", "second", "third", "fourth">>
Kinds == {"cancel", "liber", "anulat", "override"}

MonthStart[m \in 1..Len(MonthDays)] ==
  IF m = 1 THEN 1 ELSE MonthStart[m - 1] + MonthDays[m - 1]
Days == 1..MonthStart[Len(MonthDays)] + MonthDays[Len(MonthDays)] - 1
MonthOf(d) == CHOOSE m \in 1..Len(MonthDays) :
                MonthStart[m] <= d /\ d < MonthStart[m] + MonthDays[m]

Rule == [freq : Freqs, days : SUBSET (0..6), week : {"first", "second", "third", "fourth", "last"},
         single : Days \union {None}, last : Days \union {None},
         seasonStart : Days \union {None}, seasonEnd : Days \union {None},
         exceptions : Seq([date : Days, kind : Kinds, newDate : Days \union {None}]),
         blackout : SUBSET Days,
         start : Nat \union {None}, end : Nat \union {None}, nextDay : BOOLEAN,
         newStart : Nat \union {None}, newEnd : Nat \union {None}]

CalendarAssumption ==
  /\ MonthDays \in Seq(28..31) /\ MonthDays # <<>> /\ FirstWeekday \in 0..6
  /\ Rules \subseteq Rule
  /\ Windows \subseteq Days \X Days /\ SummerTime \subseteq Int
  /\ None \notin Int /\ None \notin Kinds

VARIABLES rule, from, to,
          cursor,   \* the day (the month, for monthly) the loop is at
          dates,    \* the days found
          occurrences \* of every day found, once the loop is done: its status,
                      \* and the day it is answered on

calendarVars == <<rule, from, to, cursor, dates, occurrences>>

-----------------------------------------------------------------------------
getDay(d) == (d - 1 + FirstWeekday) % 7
StartOfWeek(d) == d - ((getDay(d) + 6) % 7)

\* Mutant: weeks are counted from the anchor's own weekday.
weekIndex_FromDay(d, anchor) == (d - anchor) \div 7

\* Hours to a local midnight, and the weeks between two, rounded down.
Midnight(d) == 24 * d - IF d \in SummerTime THEN 1 ELSE 0
weekIndex(d, anchor) ==
  (Midnight(StartOfWeek(d)) - Midnight(StartOfWeek(anchor))) \div (7 * 24)

\* The n-th (or last) such weekday of month m, None when the month has no n-th.
nthWeekdayOfMonth(m, weekday, which) ==
  LET firstMatch == 1 + ((7 + weekday - getDay(MonthStart[m])) % 7)
      nth == CHOOSE n \in 1..4 : WeeksOfMonth[n] = which
      day == IF which = "last" THEN firstMatch + 7 * ((MonthDays[m] - firstMatch) \div 7)
             ELSE firstMatch + 7 * (nth - 1)
  IN  IF day > MonthDays[m] THEN None ELSE MonthStart[m] + day - 1

SeasonStart == IF rule.seasonStart = None THEN from ELSE rule.seasonStart
SeasonEnd == IF rule.seasonEnd = None THEN to ELSE rule.seasonEnd
lo == IF from > SeasonStart THEN from ELSE SeasonStart
hi == IF to < SeasonEnd THEN to ELSE SeasonEnd
Anchor == IF rule.seasonStart = None THEN lo ELSE rule.seasonStart
LastSingle == IF rule.last = None THEN rule.single ELSE rule.last

Weekly == rule.freq \in {"weekly", "biweekly"}
Limit == CASE Weekly -> hi
           [] rule.freq = "monthly" -> MonthOf(hi)
           [] OTHER -> IF rule.single = None THEN 0 ELSE LastSingle
Scanned == cursor > Limit

Init ==
  /\ rule \in Rules
  /\ \E w \in Windows : from = w[1] /\ to = w[2]
  /\ cursor = CASE Weekly -> lo
                [] rule.freq = "monthly" -> MonthOf(lo)
                [] OTHER -> IF rule.single = None THEN 1 ELSE rule.single
  /\ dates = {} /\ occurrences = <<>>

Advance(found) ==
  /\ ~Scanned
  /\ cursor' = cursor + 1
  /\ dates' = dates \union found
  /\ UNCHANGED <<rule, from, to, occurrences>>

ScanSingle == /\ rule.freq = "none"
              /\ Advance({d \in {cursor} : from <= d /\ d <= to})

ScanDay ==
  /\ Weekly
  /\ Advance({d \in {cursor} :
       /\ getDay(d) \in rule.days
       /\ rule.freq = "biweekly" => weekIndex(d, Anchor) % 2 = 0})

ScanMonth ==
  /\ rule.freq = "monthly"
  /\ Advance({d \in {nthWeekdayOfMonth(cursor, wd, rule.week) : wd \in rule.days} \ {None} :
                lo <= d /\ d <= hi})

\* exByDate is a map: of two exceptions on one date the later row stays.
ExceptionOn(d) ==
  LET rows == {i \in DOMAIN rule.exceptions : rule.exceptions[i].date = d}
  IN  IF rows = {} THEN [kind |-> None, newDate |-> None]
      ELSE rule.exceptions[CHOOSE i \in rows : \A j \in rows : j <= i]

Overridden(d) == ExceptionOn(d).kind = "override"

StatusOf(d) ==
  CASE Overridden(d) -> "override"
    [] ~Overridden(d) /\ (d \in rule.blackout \/ ExceptionOn(d).kind # None) -> "cancelled"
    [] OTHER -> "scheduled"

\* The day it is answered on: an override can name another, in the window or not.
OutDate(d) == IF Overridden(d) /\ ExceptionOn(d).newDate # None THEN ExceptionOn(d).newDate ELSE d

Decide ==
  /\ Scanned /\ occurrences = <<>> /\ dates # {}
  /\ occurrences' = [d \in dates |-> [status |-> StatusOf(d), on |-> OutDate(d)]]
  /\ UNCHANGED <<rule, from, to, cursor, dates>>

Next == ScanSingle \/ ScanDay \/ ScanMonth \/ Decide
Spec == Init /\ [][Next]_calendarVars

-----------------------------------------------------------------------------
\* The times of an occurrence, and of one an override moves (minutes of a day).

Moved(new, old) == IF new = None THEN old ELSE new

\* Mutant: the series' next-day flag is kept whatever the override says.
EndsNextDay_Series(start, end, r) == r.nextDay

EndsNextDay(start, end, r) ==
  IF /\ r.newStart # None \/ r.newEnd # None
     /\ start # None /\ end # None /\ start # end
  THEN end < start ELSE r.nextDay

Slot(r, overridden) ==
  LET start == IF overridden THEN Moved(r.newStart, r.start) ELSE r.start
      end == IF overridden THEN Moved(r.newEnd, r.end) ELSE r.end
  IN  [start |-> start, end |-> end,
       nextDay |-> end # None /\ IF overridden THEN EndsNextDay(start, end, r) ELSE r.nextDay]

\* What a write must satisfy.
validateRecurrence(r) ==
  /\ r.start # None /\ r.end # None /\ ~r.nextDay => r.end > r.start
  /\ r.freq # "none" => /\ r.seasonStart # None /\ r.seasonEnd # None
                        /\ r.seasonStart <= r.seasonEnd
                        /\ r.seasonEnd - r.seasonStart <= 366

-----------------------------------------------------------------------------
\* The shape of the state: days found lie in the stretch, and are answered only
\* once the loop has passed them all.
TypeOK ==
  /\ rule \in Rules /\ <<from, to>> \in Windows
  /\ cursor \in Nat /\ dates \subseteq Days
  /\ occurrences # <<>> => Scanned /\ DOMAIN occurrences = dates

\* The days a rule means, read off the calendar: no window, no division.
MondaysSince(a, d) == Cardinality({m \in a + 1..d : getDay(m) = 1})
SameWeekday(d) == {e \in MonthStart[MonthOf(d)]..d : getDay(e) = getDay(d)}

InSeason(d) == /\ rule.seasonStart # None => rule.seasonStart <= d
               /\ rule.seasonEnd # None => d <= rule.seasonEnd

Meant(d) ==
  CASE rule.freq = "none" -> rule.single # None /\ rule.single <= d /\ d <= LastSingle
    [] rule.freq = "weekly" -> InSeason(d) /\ getDay(d) \in rule.days
    [] rule.freq = "biweekly" ->
         InSeason(d) /\ getDay(d) \in rule.days /\ MondaysSince(Anchor, d) % 2 = 0
    [] rule.freq = "monthly" ->
         /\ InSeason(d) /\ getDay(d) \in rule.days
         /\ IF rule.week = "last"
            THEN d + 7 >= MonthStart[MonthOf(d)] + MonthDays[MonthOf(d)]
            ELSE \E n \in DOMAIN WeeksOfMonth :
                   WeeksOfMonth[n] = rule.week /\ Cardinality(SameWeekday(d)) = n

\* A week that began in summer time is counted one short from an anchor whose
\* week did not: a fortnightly rule is then found in its other weeks.
CountedShort(d) == /\ rule.freq = "biweekly"
                   /\ StartOfWeek(d) \in SummerTime /\ StartOfWeek(Anchor) \notin SummerTime
Found(d) == IF CountedShort(d) THEN InSeason(d) /\ getDay(d) \in rule.days /\ ~Meant(d)
            ELSE Meant(d)

OffDay(d) == d \in rule.blackout \/ \E i \in DOMAIN rule.exceptions : rule.exceptions[i].date = d

\* The loops find exactly the days the rule means inside the window (the other
\* fortnight where clocks went forward since the anchor), and exactly those that
\* nothing takes off are announced as scheduled.  A fortnightly rule saved before
\* season bounds were required has no other start than the window's (Anchor).
ExactlyTheMeant ==
  /\ Scanned => dates = {d \in from..to : Found(d)}
  /\ occurrences # <<>> =>
       {d \in dates : occurrences[d].status = "scheduled"}
         = {d \in from..to : Found(d) /\ ~OffDay(d)}

\* The rule's day d is held on day e: an override, the last exception there is
\* for d, names it, or none names another.
MovedTo(d, e) == \E i \in DOMAIN rule.exceptions :
  /\ rule.exceptions[i] = [date |-> d, kind |-> "override", newDate |-> e]
  /\ \A j \in DOMAIN rule.exceptions : rule.exceptions[j].date = d => j <= i
HeldOn(d, e) == MovedTo(d, e) \/ (e = d /\ \A f \in Days : ~MovedTo(d, f))

\* Every occurrence is answered on the day it is held.  A day of the window is then
\* answered in full, and so alike in every window that holds it (the month a visitor
\* opens, the week of the homepage), unless an override moved an occurrence to it
\* from outside: that one is answered only where its rule's own day is asked for.
WholeDays ==
  occurrences # <<>> =>
    /\ \A d \in dates : HeldOn(d, occurrences[d].on)
    /\ \A e \in from..to : (\A d \in Days \ (from..to) : ~HeldOn(d, e)) =>
         {d \in dates : occurrences[d].on = e} = {d \in Days : Found(d) /\ HeldOn(d, e)}

\* An occurrence of a validated rule ends after it starts, on the next day if
\* it says so, whatever times an override moves, alone or both; only an override
\* that makes the two equal can leave it without a length.
EndsAfterStart ==
  validateRecurrence(rule) =>
    \A overridden \in BOOLEAN :
      LET s == Slot(rule, overridden)
      IN  s.start # None /\ s.end # None /\ ~s.nextDay =>
            \/ s.end > s.start
            \/ overridden /\ s.end = s.start /\ <<rule.newStart, rule.newEnd>> # <<None, None>>

\* The calendar, together: the days and the times of its occurrences.
OccurrencesRight == ExactlyTheMeant /\ WholeDays /\ EndsAfterStart
=============================================================================
