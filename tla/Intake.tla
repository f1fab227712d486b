--------------------------------- MODULE Intake ---------------------------------
(*****************************************************************************)
(* Registration intake: POST /api/forms/inscriere (club/registration-submit, *)
(* number-allocator, registration-number, school-choice, current-season, the *)
(* submit controller with documents/submit-response and email/after-submit). *)
(*                                                                           *)
(* A submit is a request of its own. It awaits between the lookups, reading  *)
(* the numbers in use, inserting its row, building its documents and queueing *)
(* its e-mail, so submits interleave; the unique index over the numbers is   *)
(* the only thing they have in common. All parents of the model share one    *)
(* e-mail address. What the answers say is left out: they are valid or not.  *)
(*****************************************************************************)
EXTENDS Naturals, Sequences, FiniteSets

CONSTANTS
    Submits,     \* requests; the registration a submit stores has its name
    Drafts,      \* submission keys: one for each filled in form
    Years,       \* start years of the seasons
    Schools,     \* sections of kind school
    MaxRetries,  \* MAX_NUMBER_RETRIES
    MaxSeq,      \* the highest sequence a number can have (9999 in the code)
    Cap,         \* RECIPIENT_DAILY_CAP
    MaxChanges,  \* bound on changes of the settings
    MaxFaults    \* bound on failed calls, restarts and deletions together

NoKey == "nokey"
NoSeason == 0
NoSlug == "noslug"

ASSUME IntakeAssumption ==
    /\ Years \subseteq Nat \ {NoSeason} /\ Years # {}
    /\ NoKey \notin Drafts /\ NoSlug \notin Schools
    /\ MaxRetries \in Nat /\ MaxSeq \in Nat /\ Cap \in Nat
    /\ MaxChanges \in Nat /\ MaxFaults \in Nat

VARIABLES
    site,      \* registrations switch, current season, schools with a page
    rows,      \* registrations stored
    recent,    \* those created within REPEAT_WINDOW_MS, in that order
    year, seq, \* submit -> its season's start year, the sequence it tries or has
    retries,   \* submit -> insertions lost to a clash
    draft,     \* submit -> its key
    pc, answer,  \* submit -> where it is, what it was answered
    jobs,      \* submit -> e-mail jobs stored for its registration
    known,     \* submit -> the registrations stored when it arrived (history)
    beaten,    \* submit -> others' insertions into its year since its first read (history)
    excused,   \* submits whose repeat lookup failed or whose e-mail was not queued
               \* because of a fault or the cap (history)
    together,  \* most submits ever between counting jobs and storing one (history)
    changes, faults

request == <<year, seq, retries, pc, answer>>
history == <<known, beaten, excused, together>>
vars == <<site, rows, recent, year, seq, retries, draft, pc, answer, jobs,
          known, beaten, excused, together, changes, faults>>

Steps == {"repeat", "read", "insert", "count", "queue"}
Answers == {"none", "ok", "repeat", "invalid", "closed", "unknown-school", "choose-school",
            "save-failed", "clash", "range"}  \* the last two are logged, and answered as save-failed
UnderWay(p) == pc[p] \in Steps

Goes(p, step) == pc' = [pc EXCEPT ![p] = step] /\ UNCHANGED answer

Answered(p, what) ==
    /\ pc' = [pc EXCEPT ![p] = "done"]
    /\ answer' = [answer EXCEPT ![p] = what]

Faults == faults < MaxFaults /\ faults' = faults + 1

-------------------------------------------------------------------------------
(* The school named by the link, or the only one.                            *)
PickSchool(schools, slug) ==
    CASE slug \in schools -> "ok"
      [] slug # NoSlug /\ slug \notin schools -> "unknown-school"
      [] slug = NoSlug /\ Cardinality(schools) = 1 -> "ok"
      [] OTHER -> IF schools = {} THEN "closed" ELSE "choose-school"

(* The sequences in use for a start year, whatever season the rows are in.   *)
Numbers(y) == {seq[q] : q \in {r \in rows : year[r] = y}}

(* h is the highest of the numbers, 0 when there are none.                   *)
IsHighest(h, numbers) ==
    /\ h \in numbers \cup {0}
    /\ \A n \in numbers : n <= h

(* Mutant: the first free sequence is taken.                                 *)
NextCandidate_FirstFree(p, n) ==
    /\ n \in Nat \ {0} /\ n \notin Numbers(year[p])
    /\ \A m \in 1 .. n - 1 : m \in Numbers(year[p])

(* Mutant: after a clash the next one is tried without looking again.        *)
NextCandidate_NoReread(p, n) ==
    \E h \in 0 .. MaxSeq :
       /\ IsHighest(h, Numbers(year[p]))
       /\ n = IF retries[p] > 0 THEN seq[p] ELSE h + 1

(* One past the highest in use and past the last one tried.                  *)
NextCandidate(p, n) ==
    \E h \in 0 .. MaxSeq :
       /\ IsHighest(h, Numbers(year[p]))
       /\ n = IF seq[p] > h THEN seq[p] + 1 ELSE h + 1

(* Mutant: only a registration whose submit was answered is a repeat.        *)
RecentOf_Answered(d) ==
    {q \in rows : draft[q] = d /\ answer[q] = "ok" /\ \E n \in DOMAIN recent : recent[n] = q}

(* findRecentRepeat: what the draft stored in the window.                    *)
RecentOf(d) ==
    {q \in rows : draft[q] = d /\ \E n \in DOMAIN recent : recent[n] = q}

(* The jobs stored, and how many they are.                                   *)
JobRows == UNION {{p} \X (1 .. jobs[p]) : p \in Submits}

JobTotal == Cardinality(JobRows)

-------------------------------------------------------------------------------
(* resolveContext: the switch, the current season and the school.            *)
ResolveContext(slug) ==
    IF ~site.open \/ site.season = NoSeason THEN "closed" ELSE PickSchool(site.schools, slug)

(* The request arrives and passes, or fails, all checks before the repeat is *)
(* looked up: the honeypot, resolveContext, validateInput, chooseSubscription *)
(* (settings of one moment here; the answers are refused or taken). Without  *)
(* a key there is no repeat to look up.                                      *)
Arrive(p) ==
    /\ pc[p] = "new"
    /\ known' = [known EXCEPT ![p] = rows]
    /\ \/ Answered(p, "invalid") /\ UNCHANGED year
       \/ \E slug \in Schools \cup {NoSlug} :
          IF ResolveContext(slug) # "ok"
          THEN Answered(p, ResolveContext(slug)) /\ UNCHANGED year
          ELSE /\ year' = [year EXCEPT ![p] = site.season]
               /\ Goes(p, IF draft[p] = NoKey THEN "read" ELSE "repeat")
    /\ UNCHANGED <<site, rows, recent, seq, retries, draft, jobs, beaten, excused, together,
                   changes, faults>>

(* Mutant: a repeat queues its registration's e-mail once more.              *)
FindRepeat_Mails(p) ==
    /\ pc[p] = "repeat"
    /\ \/ RecentOf(draft[p]) = {} /\ Goes(p, "read") /\ UNCHANGED jobs
       \/ \E q \in RecentOf(draft[p]) :
          Answered(p, "repeat") /\ jobs' = [jobs EXCEPT ![q] = @ + 1]
    /\ UNCHANGED <<site, rows, recent, year, seq, retries, draft, history, changes, faults>>

(* A repeat is answered with what is stored: nothing is inserted, built or   *)
(* mailed for it.                                                            *)
FindRepeat(p) ==
    /\ pc[p] = "repeat"
    /\ IF RecentOf(draft[p]) = {} THEN Goes(p, "read") ELSE Answered(p, "repeat")
    /\ UNCHANGED <<site, rows, recent, year, seq, retries, draft, jobs, history, changes, faults>>

(* A failed lookup of the repeat never blocks the submit ...                 *)
FindRepeatFails(p) ==
    /\ pc[p] = "repeat"
    /\ Faults
    /\ Goes(p, "read")
    /\ excused' = excused \cup {p}
    /\ UNCHANGED <<site, rows, recent, year, seq, retries, draft, jobs, known, beaten, together, changes>>

(* ... any other failed call (a lookup of Arrive too) ends it.               *)
CallFails(p) ==
    /\ pc[p] \in {"read", "insert"}
    /\ Faults
    /\ Answered(p, "save-failed")
    /\ UNCHANGED <<site, rows, recent, year, seq, retries, draft, jobs, history, changes>>

(* Mutant: the sequence after the last one is let through.                   *)
OutOfRange_Late(n) == n > MaxSeq + 1

(* formatRegistrationNumber throws, which is no clash.                       *)
OutOfRange(n) == n > MaxSeq

(* The numbers in use are read and the next candidate is formatted.          *)
ReadNumbers(p) ==
    /\ pc[p] = "read"
    /\ \E n \in 1 .. MaxSeq + 1 :
       /\ NextCandidate(p, n)
       /\ IF OutOfRange(n)
          THEN Answered(p, "range") /\ UNCHANGED seq
          ELSE Goes(p, "insert") /\ seq' = [seq EXCEPT ![p] = n]
    /\ UNCHANGED <<site, rows, recent, year, retries, draft, jobs, history, changes, faults>>

Allocating(q) == pc[q] \in {"read", "insert"}

Stores(p) ==
    /\ rows' = rows \cup {p}
    /\ recent' = Append(recent, p)
    /\ beaten' = [q \in Submits |-> IF q # p /\ Allocating(q) /\ year[q] = year[p]
                                    THEN beaten[q] + 1 ELSE beaten[q]]

(* The insertion clashed: look again, or give up.                            *)
Clashes(p) ==
    /\ retries' = [retries EXCEPT ![p] = @ + 1]
    /\ IF retries[p] = MaxRetries THEN Answered(p, "clash") ELSE Goes(p, "read")

(* The unique index takes the row or refuses it.                             *)
Insert(p) ==
    /\ pc[p] = "insert"
    /\ IF seq[p] \notin Numbers(year[p])
       THEN Stores(p) /\ Goes(p, "count") /\ UNCHANGED retries
       ELSE Clashes(p) /\ UNCHANGED <<rows, recent, beaten>>
    /\ UNCHANGED <<site, year, seq, draft, jobs, known, excused, together, changes, faults>>

(* The row is stored and the call fails all the same.                        *)
InsertUnanswered(p) ==
    /\ pc[p] = "insert"
    /\ Faults
    /\ seq[p] \notin Numbers(year[p])
    /\ Stores(p)
    /\ Answered(p, "save-failed")
    /\ excused' = excused \cup {p}
    /\ UNCHANGED <<site, year, seq, retries, draft, jobs, known, together, changes>>

Pending == {p \in Submits : pc[p] = "queue"}

(* Mutant: one job over the cap.                                             *)
UnderCap_OneMore == JobTotal <= Cap

(* recipientCapReached, for the one address of the model.                    *)
UnderCap == JobTotal < Cap

(* finishSubmit is over: whether its documents were built or failed (see     *)
(* Documents), the registration stands.                                      *)
CountJobs(p) ==
    /\ pc[p] = "count"
    /\ IF UnderCap
       THEN Goes(p, "queue") /\ UNCHANGED excused
       ELSE Answered(p, "ok") /\ excused' = excused \cup {p}
    /\ together' = IF Cardinality(Pending') > together THEN Cardinality(Pending') ELSE together
    /\ UNCHANGED <<site, rows, recent, year, seq, retries, draft, jobs, known, beaten, changes, faults>>

(* A job is stored only for a registration that is still there.              *)
QueueEmail(p) ==
    /\ pc[p] = "queue"
    /\ jobs' = IF p \in rows THEN [jobs EXCEPT ![p] = @ + 1] ELSE jobs
    /\ Answered(p, "ok")
    /\ UNCHANGED <<site, rows, recent, year, seq, retries, draft, history, changes, faults>>

(* queueEmailAfterSubmit never throws: the parent is answered all the same.  *)
QueueEmailFails(p) ==
    /\ pc[p] \in {"count", "queue"}
    /\ Faults
    /\ Answered(p, "ok")
    /\ excused' = excused \cup {p}
    /\ UNCHANGED <<site, rows, recent, year, seq, retries, draft, jobs, known, beaten, together, changes>>

-------------------------------------------------------------------------------
(* deleteSubmission: its jobs go with it.                                    *)
Delete(p) ==
    /\ p \in rows
    /\ Faults
    /\ rows' = rows \ {p}
    /\ jobs' = [jobs EXCEPT ![p] = 0]
    /\ UNCHANGED <<site, recent, year, seq, retries, draft, pc, answer, history, changes>>

(* The oldest registration leaves the window.                                *)
TimePasses ==
    /\ recent # <<>>
    /\ recent' = Tail(recent)
    /\ UNCHANGED <<site, rows, year, seq, retries, draft, pc, answer, jobs, history, changes, faults>>

(* The administrators open or close the registrations or a school's page, or *)
(* make another season the current one.                                      *)
ChangeSettings ==
    /\ changes < MaxChanges
    /\ changes' = changes + 1
    /\ \/ site' = [site EXCEPT !.open = ~@]
       \/ \E y \in Years \cup {NoSeason} : site' = [site EXCEPT !.season = y]
       \/ \E some \in SUBSET Schools : site' = [site EXCEPT !.schools = some]
    /\ UNCHANGED <<rows, recent, year, seq, retries, draft, pc, answer, jobs, history, faults>>

(* The server restarts: the requests under way are gone, unanswered.         *)
Restart ==
    /\ Faults
    /\ pc' = [p \in Submits |-> IF UnderWay(p) THEN "done" ELSE pc[p]]
    /\ excused' = excused \cup {p \in Submits : UnderWay(p)}
    /\ UNCHANGED <<site, rows, recent, year, seq, retries, draft, answer, jobs, known, beaten,
                   together, changes>>

Init ==
    /\ site = [open |-> TRUE, season |-> CHOOSE y \in Years : TRUE, schools |-> Schools]
    /\ rows = {} /\ recent = <<>>
    /\ year = [p \in Submits |-> NoSeason]
    /\ seq = [p \in Submits |-> 0]
    /\ retries = [p \in Submits |-> 0]
    /\ draft \in [Submits -> Drafts \cup {NoKey}]
    /\ pc = [p \in Submits |-> "new"]
    /\ answer = [p \in Submits |-> "none"]
    /\ jobs = [p \in Submits |-> 0]
    /\ known = [p \in Submits |-> {}]
    /\ beaten = [p \in Submits |-> 0]
    /\ excused = {} /\ together = 0
    /\ changes = 0 /\ faults = 0

Step(p) ==
    \/ FindRepeat(p) \/ FindRepeatFails(p) \/ CallFails(p)
    \/ ReadNumbers(p) \/ Insert(p) \/ InsertUnanswered(p)
    \/ CountJobs(p) \/ QueueEmail(p) \/ QueueEmailFails(p)

Next ==
    \/ \E p \in Submits : Arrive(p) \/ Step(p) \/ Delete(p)
    \/ TimePasses \/ ChangeSettings \/ Restart

Spec == Init /\ [][Next]_vars

-------------------------------------------------------------------------------
TypeOK ==
    /\ site \in [open : BOOLEAN, season : Years \cup {NoSeason}, schools : SUBSET Schools]
    /\ rows \in SUBSET Submits /\ recent \in Seq(Submits)
    /\ year \in [Submits -> Years \cup {NoSeason}]
    /\ seq \in [Submits -> 0 .. MaxSeq]
    /\ retries \in [Submits -> 0 .. MaxRetries + 1]
    /\ pc \in [Submits -> Steps \cup {"new", "done"}]
    /\ answer \in [Submits -> Answers]
    /\ jobs \in [Submits -> Nat]
    /\ known \in [Submits -> SUBSET Submits]
    /\ beaten \in [Submits -> Nat]
    /\ excused \in SUBSET Submits

(* A submit gives up with a clash only after others took a number of its     *)
(* year more often than it may retry: it never loses to itself, nor twice to *)
(* the same registration.                                                    *)
ClashOnlyWhenBeaten ==
    \A p \in Submits : answer[p] = "clash" => beaten[p] > MaxRetries

(* Numbers follow the order in which parents registered: one that was stored *)
(* before a submit arrived has the lower number, also after clashes, retries *)
(* and deletions.                                                            *)
LaterIsHigher ==
    \A q \in rows : \A p \in known[q] \cap rows :
        year[p] = year[q] => seq[p] < seq[q]

(* A form sent again is stored once more only when its first registration    *)
(* was not stored yet when the second request arrived, is gone or older than *)
(* the window, or the lookup of the repeat failed.                           *)
RepeatStoredOnce ==
    \A q \in rows : \A p \in known[q] \cap rows :
        draft[p] = draft[q] => \/ draft[q] = NoKey \/ q \in excused
                               \/ \A n \in DOMAIN recent : recent[n] # p

(* However often it is sent, a registration gets one e-mail job, from its    *)
(* own submit; it stays without one only after a fault or at the cap.        *)
OneJobEach ==
    \A p \in rows : /\ jobs[p] <= 1
                    /\ pc[p] = "done" => jobs[p] = 1 \/ p \in excused

(* The cap on a family's e-mails is counted first and used afterwards: it is *)
(* passed by fewer than the submits that did so together.                    *)
CapPassedByOverlapOnly ==
    JobTotal > 0 => JobTotal < Cap + together
===============================================================================
