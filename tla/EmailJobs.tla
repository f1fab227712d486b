------------------------------- MODULE EmailJobs -------------------------------
(*****************************************************************************)
(* The registration e-mails (src/email/email-jobs.ts, job-state.ts,          *)
(* strapi-email.ts): a submitted registration stores a job and tries it at   *)
(* once, the hourly cron retries what is still queued, an admin may resend,  *)
(* and a deleted registration takes its jobs along.                          *)
(*                                                                           *)
(* Each of them works from the job row it has read, and awaits between       *)
(* reading it, sending and writing it back. All registrations of the model   *)
(* have one address (a family); texts, attachments and the 24 hours after    *)
(* which an e-mail no longer counts towards the cap are left out.            *)
(*****************************************************************************)
EXTENDS Naturals, Sequences, FiniteSets

CONSTANTS
    Regs,         \* registrations; each is also its own submit request
    Admins,       \* requests that may resend
    MaxAttempts,  \* MAX_ATTEMPTS
    Cap,          \* RECIPIENT_DAILY_CAP
    Batch,        \* RETRY_BATCH
    MaxResends,   \* bound on resends
    MaxFaults     \* bound on lost answers, failed writes, restarts and deletions

ASSUME EmailAssumption ==
    /\ {"cron", "none"} \cap (Regs \cup Admins) = {} /\ Regs \cap Admins = {}
    /\ IsFiniteSet(Regs)
    /\ MaxAttempts \in Nat \ {0} /\ Cap \in Nat /\ Batch \in Nat \ {0}
    /\ MaxResends \in Nat /\ MaxFaults \in Nat

VARIABLES
    regs,       \* registration -> "new", "live", "gone"
    removing,   \* registrations whose jobs a delete has removed, row to follow
    rows,       \* the stored jobs: a sequence in the order they were created
    older,      \* the order of updatedAt: <<i, j>> when i was written before j
    quiet,      \* the jobs untouched for QUIET_MS
    blocked,    \* the environment lets no e-mail be sent
    work,       \* what each request and the cron are doing
    tried, delivered,  \* job -> attempts finished, e-mails delivered (history)
    excused,    \* job -> why it may be delivered once more (history)
    resends, faults

jobVars == <<rows, older, quiet>>
history == <<tried, delivered, excused>>
vars == <<regs, removing, jobVars, blocked, work, history, resends, faults>>

Workers == Regs \cup Admins \cup {"cron"}
Jobs == DOMAIN rows
NoReg == "none"
Statuses == {"queued", "sent", "failed", "deleted"}  \* "deleted": no row any more
Row(r) == [reg |-> r, status |-> "queued", attempts |-> 0]
NoRow == [job |-> 0, reg |-> NoReg, attempts |-> 0]
Idle == [pc |-> "idle", reg |-> NoReg, held |-> {}, now |-> NoRow, ok |-> FALSE]
Stored(j) == rows[j].status # "deleted"

(* What a worker remembers of a row it has read.                             *)
Snapshot(j) == [job |-> j, reg |-> rows[j].reg, attempts |-> rows[j].attempts]

-------------------------------------------------------------------------------
(* Mutant: a job fails one attempt early.                                    *)
NextJobState_Early(attempts, ok) ==
    [status |-> IF ok THEN "sent" ELSE IF attempts + 2 >= MaxAttempts THEN "failed" ELSE "queued",
     attempts |-> attempts + 1]

(* Mutant: a job gets one attempt too many.                                  *)
NextJobState_Late(attempts, ok) ==
    [status |-> IF ok THEN "sent" ELSE IF attempts + 1 > MaxAttempts THEN "failed" ELSE "queued",
     attempts |-> attempts + 1]

(* The job state machine: what an attempt makes of a job that had so many.   *)
NextJobState(attempts, ok) ==
    [status |-> IF ok THEN "sent" ELSE IF attempts + 1 >= MaxAttempts THEN "failed" ELSE "queued",
     attempts |-> attempts + 1]

Without(js) == {p \in older : p[1] \notin js /\ p[2] \notin js}
AfterAll(j) == {i \in Jobs \ {j} : Stored(i)} \X {j}

(* Writing a row makes it the one updated last.                              *)
Updates(j, row) ==
    /\ rows' = [rows EXCEPT ![j] = row]
    /\ older' = Without({j}) \cup AfterAll(j)
    /\ quiet' = quiet \ {j}

(* findQueued(limit): the queued jobs, the longest untouched first.          *)
Queued == {j \in Jobs : rows[j].status = "queued"}
FindQueued == {j \in Queued : Cardinality({i \in Queued : <<i, j>> \in older}) < Batch}

(* Mutant: the cron looks at nothing but the status.                         *)
DueJobs_Unquiet == FindQueued

(* Mutant: only what has failed before is retried.                           *)
DueJobs_OnlyTried == {j \in FindQueued \cap quiet : rows[j].attempts > 0}

(* isDue: the cron leaves alone what was touched a short while ago.          *)
DueJobs == FindQueued \cap quiet

JobsOf(r) == {j \in Jobs : Stored(j) /\ rows[j].reg = r}

(* findLatest, when it is still queued.                                      *)
LatestQueued(r) ==
    {j \in JobsOf(r) : rows[j].status = "queued" /\ \A i \in JobsOf(r) : i <= j}

Sets(w, state) == work' = [work EXCEPT ![w] = state]

(* The attempt on s is over: the cron goes on with the next of its jobs.     *)
Moves(w, s) ==
    Sets(w, IF work[w].held = {s} THEN Idle
            ELSE [work[w] EXCEPT !.pc = "send", !.held = @ \ {s}, !.now = NoRow, !.ok = FALSE])

Creates(w, r) ==
    /\ rows' = Append(rows, Row(r))
    /\ older' = older \cup AfterAll(Len(rows) + 1)
    /\ tried' = Append(tried, 0)
    /\ delivered' = Append(delivered, 0)
    /\ excused' = Append(excused, 0)
    /\ Sets(w, [Idle EXCEPT !.pc = "send",
                            !.held = {[job |-> Len(rows) + 1, reg |-> r, attempts |-> 0]}])
    /\ UNCHANGED quiet

-------------------------------------------------------------------------------
(* A registration is saved and its documents are built: queue its e-mail.    *)
Submit(r) ==
    /\ regs[r] = "new"
    /\ regs' = [regs EXCEPT ![r] = "live"]
    /\ Sets(r, [Idle EXCEPT !.pc = "count", !.reg = r])
    /\ UNCHANGED <<removing, jobVars, blocked, history, resends, faults>>

(* recipientCapReached: no job once the address had so many.                 *)
CountRecipient(r) ==
    /\ work[r].pc = "count"
    /\ Sets(r, IF regs[r] = "live" /\ Cardinality({j \in Jobs : Stored(j)}) < Cap
               THEN [work[r] EXCEPT !.pc = "create"] ELSE Idle)
    /\ UNCHANGED <<regs, removing, jobVars, blocked, history, resends, faults>>

(* A job can only be linked to a registration that is still there.           *)
CreateJob(w) ==
    /\ work[w].pc = "create"
    /\ IF regs[work[w].reg] = "live"
       THEN Creates(w, work[w].reg)
       ELSE Sets(w, Idle) /\ UNCHANGED <<jobVars, history>>
    /\ UNCHANGED <<regs, removing, blocked, resends, faults>>

(* resendRegistrationEmail reads the latest job: one that is still queued is *)
(* reused.                                                                   *)
Resend(a, r) ==
    /\ work[a] = Idle
    /\ resends < MaxResends
    /\ resends' = resends + 1
    /\ regs[r] = "live"
    /\ \/ /\ LatestQueued(r) = {}
          /\ Sets(a, [Idle EXCEPT !.pc = "create", !.reg = r])
          /\ UNCHANGED excused
       \/ \E j \in LatestQueued(r) :
          /\ Sets(a, [Idle EXCEPT !.pc = "reuse", !.reg = r, !.now = Snapshot(j)])
          /\ excused' = [excused EXCEPT ![j] = @ + 1]
    /\ UNCHANGED <<regs, removing, jobVars, blocked, tried, delivered, faults>>

(* The reused job starts over with a fresh counter.                          *)
ReuseJob(a) ==
    /\ work[a].pc = "reuse"
    /\ LET j == work[a].now.job IN
       IF Stored(j)
       THEN /\ Updates(j, [rows[j] EXCEPT !.status = "queued", !.attempts = 0])
            /\ Sets(a, [Idle EXCEPT !.pc = "send", !.held = {[Snapshot(j) EXCEPT !.attempts = 0]}])
       ELSE Sets(a, Idle) /\ UNCHANGED jobVars
    /\ UNCHANGED <<regs, removing, blocked, history, resends, faults>>

(* retryDueJobs: the due jobs are read at once and then tried one by one.    *)
StartRetries ==
    /\ ~blocked
    /\ work["cron"] = Idle
    /\ DueJobs # {}
    /\ Sets("cron", [Idle EXCEPT !.pc = "send", !.held = {Snapshot(j) : j \in DueJobs}])
    /\ UNCHANGED <<regs, removing, jobVars, blocked, history, resends, faults>>

-------------------------------------------------------------------------------
(* attemptJob on the row as it was read. A job whose registration is gone    *)
(* fails at once; while sending is blocked the job is left as it is.         *)
SkipJob(w) ==
    /\ work[w].pc = "send"
    /\ \E s \in work[w].held :
       /\ s.reg = NoReg \/ blocked
       /\ IF s.reg = NoReg /\ Stored(s.job)
          THEN Updates(s.job, [rows[s.job] EXCEPT !.status = "failed", !.attempts = s.attempts])
          ELSE UNCHANGED jobVars
       /\ Moves(w, s)
    /\ UNCHANGED <<regs, removing, blocked, history, resends, faults>>

(* tryOnce: it is refused (also when the registration or its documents are   *)
(* missing), delivered, or delivered without an answer.                      *)
Refused(s) == UNCHANGED <<delivered, excused, faults>>

Delivered(s) ==
    /\ regs[s.reg] = "live"
    /\ delivered' = [delivered EXCEPT ![s.job] = @ + 1]
    /\ UNCHANGED <<excused, faults>>

AnswerLost(s) ==
    /\ regs[s.reg] = "live"
    /\ faults < MaxFaults
    /\ faults' = faults + 1
    /\ delivered' = [delivered EXCEPT ![s.job] = @ + 1]
    /\ excused' = [excused EXCEPT ![s.job] = @ + 1]

Send(w) ==
    /\ work[w].pc = "send" /\ ~blocked
    /\ \E s \in work[w].held, ok \in BOOLEAN :
       /\ s.reg # NoReg
       /\ tried' = [tried EXCEPT ![s.job] = @ + 1]
       /\ IF ok THEN Delivered(s) ELSE Refused(s) \/ AnswerLost(s)
       /\ Sets(w, [work[w] EXCEPT !.pc = "save", !.now = s, !.ok = ok])
    /\ UNCHANGED <<regs, removing, jobVars, blocked, resends>>

(* The new state is worked out from the row as it was read. Updating a row   *)
(* that is gone throws; the cron logs that and goes on.                      *)
SaveOutcome(w) ==
    /\ work[w].pc = "save"
    /\ LET s == work[w].now
           next == NextJobState(s.attempts, work[w].ok)
       IN  IF Stored(s.job)
           THEN Updates(s.job, [reg |-> rows[s.job].reg, status |-> next.status, attempts |-> next.attempts])
           ELSE UNCHANGED jobVars
    /\ Moves(w, work[w].now)
    /\ UNCHANGED <<regs, removing, blocked, history, resends, faults>>

(* A write to the database fails. A job that cannot be created or reused has *)
(* no attempt, nor has a resend that cannot be noted in the history; a job   *)
(* whose outcome cannot be written stays as it was, also when its e-mail has *)
(* been delivered. The cron logs that and goes on with the next.             *)
StoreFails(w) ==
    /\ faults < MaxFaults
    /\ faults' = faults + 1
    /\ \/ /\ work[w].pc \in {"create", "reuse"}
          /\ Sets(w, Idle)
          /\ UNCHANGED excused
       \/ \E s \in work[w].held :
          /\ work[w].pc = "send" /\ (s.reg = NoReg \/ w \in Admins)
          /\ Moves(w, s)
          /\ UNCHANGED excused
       \/ /\ work[w].pc = "save"
          /\ Moves(w, work[w].now)
          /\ excused' = [excused EXCEPT ![work[w].now.job] = IF work[w].ok THEN @ + 1 ELSE @]
    /\ UNCHANGED <<regs, removing, jobVars, blocked, tried, delivered, resends>>

-------------------------------------------------------------------------------
(* deleteSubmission: first the jobs, while the link still resolves, ...      *)
DeleteJobs(r) ==
    /\ regs[r] = "live" /\ r \notin removing
    /\ faults < MaxFaults
    /\ faults' = faults + 1
    /\ removing' = removing \cup {r}
    /\ rows' = [j \in Jobs |-> IF j \in JobsOf(r) THEN [rows[j] EXCEPT !.status = "deleted"] ELSE rows[j]]
    /\ older' = Without(JobsOf(r))
    /\ quiet' = quiet \ JobsOf(r)
    /\ UNCHANGED <<regs, blocked, work, history, resends>>

(* ... then the row. A job stored in between stays, linked to nothing.       *)
DeleteRegistration(r) ==
    /\ r \in removing
    /\ removing' = removing \ {r}
    /\ regs' = [regs EXCEPT ![r] = "gone"]
    /\ rows' = [j \in Jobs |-> IF j \in JobsOf(r) THEN [rows[j] EXCEPT !.reg = NoReg] ELSE rows[j]]
    /\ UNCHANGED <<older, quiet, blocked, work, history, resends, faults>>

(* QUIET_MS pass for the job updated longest ago. A request's own attempt is *)
(* over before (sending gives up after 20 seconds); the cron's may not be.   *)
GrowsQuiet(j) ==
    /\ j \in Jobs /\ Stored(j) /\ j \notin quiet
    /\ \A i \in Jobs : <<i, j>> \in older => i \in quiet
    /\ \A w \in Workers \ {"cron"} : \A s \in work[w].held : s.job # j
    /\ quiet' = quiet \cup {j}
    /\ UNCHANGED <<regs, removing, rows, older, blocked, work, history, resends, faults>>

(* The server restarts, perhaps with other e-mail settings: attempts under   *)
(* way are gone, also those already delivered and not yet written.           *)
Restart ==
    /\ faults < MaxFaults
    /\ faults' = faults + 1
    /\ blocked' \in BOOLEAN
    /\ work' = [w \in Workers |-> Idle]
    /\ removing' = {}
    /\ excused' = [j \in Jobs |-> excused[j] +
           Cardinality({w \in Workers : work[w].pc = "save" /\ work[w].ok /\ work[w].now.job = j})]
    /\ UNCHANGED <<regs, jobVars, tried, delivered, resends>>

Step(w) ==
    \/ CreateJob(w) \/ ReuseJob(w) \/ SkipJob(w) \/ Send(w) \/ SaveOutcome(w)

Init ==
    /\ regs = [r \in Regs |-> "new"]
    /\ removing = {}
    /\ rows = <<>> /\ older = {} /\ quiet = {}
    /\ blocked \in BOOLEAN
    /\ work = [w \in Workers |-> Idle]
    /\ tried = <<>> /\ delivered = <<>> /\ excused = <<>>
    /\ resends = 0 /\ faults = 0

Next ==
    \/ \E r \in Regs : Submit(r) \/ CountRecipient(r) \/ DeleteJobs(r) \/ DeleteRegistration(r)
    \/ \E a \in Admins, r \in Regs : Resend(a, r)
    \/ StartRetries
    \/ \E w \in Workers : Step(w)
    \/ \E w \in Workers : StoreFails(w)
    \/ \E j \in Jobs : GrowsQuiet(j)
    \/ Restart

Spec == Init /\ [][Next]_vars

(* Awaited calls settle, time passes, and the cron comes round every hour.   *)
Fairness ==
    /\ \A w \in Workers : WF_vars(Step(w))
    /\ WF_vars(\E j \in Jobs : GrowsQuiet(j))
    /\ WF_vars(StartRetries)

FairSpec == Spec /\ Fairness
-------------------------------------------------------------------------------
TypeOK ==
    /\ regs \in [Regs -> {"new", "live", "gone"}]
    /\ removing \in SUBSET Regs
    /\ rows \in Seq([reg : Regs \cup {NoReg}, status : Statuses, attempts : 0 .. MaxAttempts])
    /\ blocked \in BOOLEAN
    /\ older \subseteq {j \in Jobs : Stored(j)} \X {j \in Jobs : Stored(j)}
    /\ quiet \subseteq Jobs
    /\ \A w \in Workers :
         /\ work[w].pc \in {"idle", "count", "create", "reuse", "send", "save"}
         /\ work[w].pc \in {"send", "save"} <=> work[w].held # {}
         /\ work[w].pc = "save" => work[w].now \in work[w].held
    /\ resends \in 0 .. MaxResends /\ faults \in 0 .. MaxFaults

(* A job is only given up after as many attempts as promised, or because its *)
(* registration is gone: however resends reset the counter and late attempts *)
(* write an old one back, it never runs ahead of the attempts made.          *)
GivenUpAfterAttempts ==
    \A j \in Jobs : rows[j].status = "failed" => tried[j] >= MaxAttempts \/ rows[j].reg = NoReg

(* A parent gets a job's e-mail once, and once more only for each resend     *)
(* that reused the job, each answer that was lost, each outcome that could   *)
(* not be written and each restart between delivery and writing.             *)
DuplicatesAccounted ==
    \A j \in Jobs : delivered[j] <= 1 + excused[j]

(* While sending is possible no job stays queued: it is sent or given up,    *)
(* also when its first attempt was lost in a restart.                        *)
EveryJobSettles ==
    \A j \in 1 .. Cardinality(Regs) + MaxResends :
        <>[]~blocked => []<>~(j \in Jobs /\ rows[j].status = "queued")

(* "sent" is final: only a resend takes the job up again, no attempt that    *)
(* was still under way or waiting its turn.                                  *)
SentIsFinal ==
    [][\A j \in Jobs : rows[j].status = "sent" =>
          \/ rows'[j].status \in {"sent", "deleted"}
          \/ \E a \in Admins : work[a].pc = "reuse" /\ work[a].now.job = j]_vars
===============================================================================
