---------------------------- MODULE EmailJobsProofs ----------------------------
(*****************************************************************************)
(* Proofs, for any registrations, limits and faults, that no e-mail job is   *)
(* given up before it was tried as often as promised, that types hold, and   *)
(* that a parent gets an e-mail once unless something excuses another.       *)
(*                                                                           *)
(* The counter in a row says little by itself: a resend resets it, and an    *)
(* attempt writes back the one it had read. What is inductive is that no     *)
(* counter, in a row or in what a worker remembers of one, is ahead of the   *)
(* attempts made, and that a worker about to write counts its own attempt.   *)
(*                                                                           *)
(* Nor do the deliveries of a job bound themselves: what does is to count    *)
(* with them everybody who may still deliver it, the queued row included.    *)
(*****************************************************************************)
EXTENDS EmailJobs, FiniteSetTheorems, SequenceTheorems, TLAPS

RowSet == [reg : Regs \cup {NoReg}, status : Statuses, attempts : 0 .. MaxAttempts]
SnapSet == [job : Nat, reg : Regs \cup {NoReg}, attempts : 0 .. MaxAttempts - 1]
WorkSet == [pc : {"idle", "count", "create", "reuse", "send", "save"},
            reg : Regs \cup {NoReg}, held : SUBSET SnapSet, now : SnapSet, ok : BOOLEAN]

(* A remembered row: its counter is not ahead, and a link once lost is lost. *)
SnapOK(s) ==
    /\ s.job \in Jobs
    /\ s.attempts <= tried[s.job]
    /\ s.reg = NoReg => rows[s.job].reg = NoReg

RowOK(j) ==
    /\ rows[j].attempts <= tried[j]
    /\ rows[j].status = "failed" => tried[j] >= MaxAttempts \/ rows[j].reg = NoReg
    /\ rows[j].status = "queued" => rows[j].attempts < MaxAttempts

WorkerOK(w) ==
    /\ \A s \in work[w].held : SnapOK(s)
    /\ work[w].pc \in {"count", "create"} => work[w].reg \in Regs
    /\ work[w].pc = "reuse" => work[w].now.job \in Jobs
    /\ work[w].pc = "save" => /\ work[w].now \in work[w].held
                              /\ work[w].now.attempts + 1 <= tried[work[w].now.job]

Typed ==
    /\ rows \in Seq(RowSet)
    /\ tried \in Seq(Nat)
    /\ Len(tried) = Len(rows)
    /\ work \in [Workers -> WorkSet]

IInv ==
    /\ Typed
    /\ \A j \in Jobs : RowOK(j)
    /\ \A w \in Workers : WorkerOK(w)

-------------------------------------------------------------------------------
LEMMA JobsAre == ASSUME Typed PROVE Jobs = 1 .. Len(rows) /\ Len(rows) \in Nat
BY LenProperties DEF Typed, Jobs

LEMMA IdleFits == Idle \in WorkSet
<1>1. NoRow \in SnapSet
  BY EmailAssumption DEF NoRow, SnapSet
<1> QED
  BY <1>1 DEF Idle, WorkSet

(* What is remembered stays true while jobs are only added, attempts only    *)
(* counted up, and links only lost.                                          *)
LEMMA SnapKept ==
    ASSUME NEW s \in SnapSet, SnapOK(s),
           Jobs \subseteq Jobs',
           \A j \in Jobs : /\ tried[j] \in Nat /\ tried'[j] \in Nat /\ tried'[j] >= tried[j]
                           /\ rows[j].reg = NoReg => rows'[j].reg = NoReg
    PROVE  SnapOK(s)'
<1>1. s.attempts \in Nat
  BY DEF SnapSet
<1>2. s.job \in Jobs /\ s.job \in Jobs' /\ s.attempts <= tried[s.job]
  BY DEF SnapOK
<1>3. /\ tried[s.job] \in Nat /\ tried'[s.job] \in Nat /\ tried'[s.job] >= tried[s.job]
      /\ rows[s.job].reg = NoReg => rows'[s.job].reg = NoReg
  BY <1>2, Zenon
<1>4. s.attempts <= tried'[s.job]
  BY <1>1, <1>2, <1>3
<1> QED
  BY <1>2, <1>3, <1>4, Zenon DEF SnapOK

(* So do the other workers keep what they hold when one of them moves on.    *)
LEMMA OthersKept ==
    ASSUME IInv, NEW w \in Workers, NEW state, work' = [work EXCEPT ![w] = state],
           Jobs \subseteq Jobs',
           \A j \in Jobs : /\ tried'[j] \in Nat /\ tried'[j] >= tried[j]
                           /\ rows[j].reg = NoReg => rows'[j].reg = NoReg,
           NEW v \in Workers \ {w}
    PROVE  WorkerOK(v)'
<1>1. work[v] \in WorkSet /\ work'[v] = work[v] /\ WorkerOK(v)
  BY DEF IInv, Typed
<1>2. \A j \in Jobs : tried[j] \in Nat
  BY JobsAre, ElementOfSeq DEF IInv, Typed
<1>3. ASSUME NEW s \in work[v].held PROVE SnapOK(s)'
  <2>1. s \in SnapSet /\ SnapOK(s)
    BY <1>1, <1>3 DEF WorkSet, WorkerOK
  <2> QED
    BY <2>1, <1>2, SnapKept
<1>4. ASSUME work[v].pc = "save"
      PROVE  work[v].now.attempts + 1 <= tried'[work[v].now.job]
  <2>1. /\ work[v].now \in SnapSet
        /\ work[v].now.job \in Jobs
        /\ work[v].now.attempts + 1 <= tried[work[v].now.job]
    BY <1>1, <1>4 DEF WorkSet, WorkerOK, SnapOK
  <2>2. work[v].now.attempts \in Nat
    BY <2>1 DEF SnapSet
  <2>3. tried[work[v].now.job] \in Nat /\ tried'[work[v].now.job] \in Nat
        /\ tried'[work[v].now.job] >= tried[work[v].now.job]
    BY <2>1, <1>2, Zenon
  <2> QED
    BY <2>1, <2>2, <2>3
<1> QED
  BY <1>1, <1>3, <1>4 DEF WorkerOK

(* How a step may change rows and attempts.                                  *)
Grows ==
    /\ Jobs \subseteq Jobs'
    /\ \A j \in Jobs : /\ tried'[j] \in Nat /\ tried'[j] >= tried[j]
                       /\ rows[j].reg = NoReg => rows'[j].reg = NoReg

LEMMA SameGrows == ASSUME IInv, UNCHANGED <<rows, tried>> PROVE Grows
BY JobsAre, ElementOfSeq DEF IInv, Typed, Grows, Jobs

(* One worker moves on: it is enough to look at the rows and at itself.      *)
LEMMA WorkerMoves ==
    ASSUME IInv, NEW w \in Workers, NEW state \in WorkSet,
           work' = [work EXCEPT ![w] = state],
           rows' \in Seq(RowSet), tried' \in Seq(Nat), Len(tried') = Len(rows'),
           Grows, \A j \in Jobs' : RowOK(j)', WorkerOK(w)'
    PROVE  IInv'
<1>1. Typed'
  BY DEF IInv, Typed
<1>2. ASSUME NEW v \in Workers PROVE WorkerOK(v)'
  <2>1. CASE v = w
    BY <2>1
  <2>2. CASE v # w
    BY <2>2, OthersKept DEF Grows
  <2> QED
    BY <2>1, <2>2
<1> QED
  BY <1>1, <1>2 DEF IInv

(* The rows stay as they are.                                                *)
LEMMA WorkerOnly ==
    ASSUME IInv, NEW w \in Workers, NEW state \in WorkSet,
           work' = [work EXCEPT ![w] = state],
           UNCHANGED <<rows, tried>>, WorkerOK(w)'
    PROVE  IInv'
<1>1. rows' \in Seq(RowSet) /\ tried' \in Seq(Nat) /\ Len(tried') = Len(rows')
  BY DEF IInv, Typed
<1>2. \A j \in Jobs' : RowOK(j)'
  BY DEF IInv, RowOK, Jobs
<1> QED
  BY <1>1, <1>2, SameGrows, WorkerMoves

(* One row is written over.                                                  *)
LEMMA RowWritten ==
    ASSUME IInv, NEW w \in Workers, NEW state \in WorkSet,
           work' = [work EXCEPT ![w] = state],
           NEW j \in Jobs, NEW row \in RowSet,
           rows' = [rows EXCEPT ![j] = row], tried' = tried,
           row.attempts <= tried[j],
           row.status = "failed" => tried[j] >= MaxAttempts \/ row.reg = NoReg,
           row.status = "queued" => row.attempts < MaxAttempts,
           rows[j].reg = NoReg => row.reg = NoReg,
           Grows => WorkerOK(w)'
    PROVE  IInv'
<1>1. /\ rows' \in Seq(RowSet) /\ Len(rows') = Len(rows)
      /\ \A i \in 1 .. Len(rows) : rows'[i] = IF i = j THEN row ELSE rows[i]
  BY JobsAre, ExceptSeq DEF IInv, Typed
<1>2. Jobs' = Jobs /\ Jobs = 1 .. Len(rows)
  BY <1>1, JobsAre, LenProperties DEF IInv, Jobs
<1>3. tried' \in Seq(Nat) /\ Len(tried') = Len(rows')
  BY <1>1 DEF IInv, Typed
<1>4. Grows
  <2>1. \A i \in Jobs : tried[i] \in Nat
    BY <1>2, ElementOfSeq DEF IInv, Typed
  <2> QED
    BY <1>1, <1>2, <2>1 DEF Grows
<1>5. \A i \in Jobs' : RowOK(i)'
  BY <1>1, <1>2 DEF IInv, RowOK
<1> QED
  BY <1>1, <1>3, <1>4, <1>5, WorkerMoves

(* The worker that is through with s keeps the rest of what it holds.        *)
LEMMA MovesOK ==
    ASSUME IInv, NEW w \in Workers, NEW s \in work[w].held, Moves(w, s)
    PROVE  \E state \in WorkSet :
              /\ work' = [work EXCEPT ![w] = state]
              /\ Grows => WorkerOK(w)'
<1> DEFINE state == IF work[w].held = {s} THEN Idle
                    ELSE [work[w] EXCEPT !.pc = "send", !.held = @ \ {s}, !.now = NoRow, !.ok = FALSE]
<1>1. work[w] \in WorkSet /\ WorkerOK(w)
  BY DEF IInv, Typed
<1>2. NoRow \in SnapSet
  BY EmailAssumption DEF NoRow, SnapSet
<1>3. state \in WorkSet
  BY <1>1, <1>2, IdleFits DEF WorkSet
<1>4. work' = [work EXCEPT ![w] = state]
  BY DEF Moves, Sets
<1>5. work'[w] = state
  BY <1>4 DEF IInv, Typed
<1>6. state.held \subseteq work[w].held /\ state.pc \in {"idle", "send"}
  BY <1>1 DEF Idle, WorkSet
<1>7. ASSUME Grows PROVE WorkerOK(w)'
  <2>1. \A j \in Jobs : tried[j] \in Nat
    BY JobsAre, ElementOfSeq DEF IInv, Typed
  <2>2. ASSUME NEW t \in work'[w].held PROVE SnapOK(t)'
    <3>1. t \in SnapSet /\ SnapOK(t)
      BY <1>1, <1>5, <1>6, <2>2 DEF WorkSet, WorkerOK
    <3> QED
      BY <3>1, <1>7, <2>1, SnapKept DEF Grows
  <2> QED
    BY <1>5, <1>6, <2>2 DEF WorkerOK
<1> QED
  BY <1>3, <1>4, <1>7

-------------------------------------------------------------------------------
(* One lemma per operation.                                                  *)

LEMMA SubmitKeeps == ASSUME IInv, NEW r \in Regs, Submit(r) PROVE IInv'
<1> DEFINE state == [Idle EXCEPT !.pc = "count", !.reg = r]
<1>1. state \in WorkSet /\ state.held = {} /\ state.pc = "count"
  BY IdleFits DEF WorkSet, Idle
<1>2. r \in Workers /\ work' = [work EXCEPT ![r] = state] /\ UNCHANGED <<rows, tried>>
  BY DEF Submit, Sets, Workers, jobVars, history
<1>3. WorkerOK(r)'
  BY <1>1, <1>2 DEF IInv, Typed, WorkerOK
<1> QED
  BY <1>1, <1>2, <1>3, WorkerOnly

LEMMA CountKeeps == ASSUME IInv, NEW r \in Regs, CountRecipient(r) PROVE IInv'
<1> DEFINE next == [work[r] EXCEPT !.pc = "create"]
<1>1. r \in Workers /\ work[r] \in WorkSet /\ WorkerOK(r) /\ work[r].pc = "count"
  BY DEF IInv, Typed, Workers, CountRecipient
<1>2. next \in WorkSet /\ next.pc = "create" /\ next.held = work[r].held /\ next.reg = work[r].reg
  BY <1>1 DEF WorkSet
<1>3. \E state \in {next, Idle} : work' = [work EXCEPT ![r] = state] /\ UNCHANGED <<rows, tried>>
  BY DEF CountRecipient, Sets, jobVars, history
<1>4. PICK state \in {next, Idle} : work' = [work EXCEPT ![r] = state] /\ UNCHANGED <<rows, tried>>
  BY <1>3
<1>5. state \in WorkSet /\ work'[r] = state
  BY <1>1, <1>2, <1>4, IdleFits DEF IInv, Typed
<1>6. WorkerOK(r)'
  <2>1. CASE state = next
    <3>1. \A s \in work[r].held : SnapOK(s)'
      BY <1>1, <1>4 DEF WorkerOK, SnapOK, Jobs
    <3> QED
      BY <1>1, <1>2, <1>5, <2>1, <3>1 DEF WorkerOK
  <2>2. CASE state = Idle
    BY <1>5, <2>2 DEF WorkerOK, Idle
  <2> QED
    BY <1>4, <2>1, <2>2
<1> QED
  BY <1>1, <1>4, <1>5, <1>6, WorkerOnly

LEMMA CreateKeeps == ASSUME IInv, NEW w \in Workers, CreateJob(w) PROVE IInv'
<1>1. work[w] \in WorkSet /\ WorkerOK(w) /\ work[w].reg \in Regs
  BY DEF IInv, Typed, WorkerOK, CreateJob
<1>2. CASE Sets(w, Idle) /\ UNCHANGED <<jobVars, history>>
  <2>1. work' = [work EXCEPT ![w] = Idle] /\ UNCHANGED <<rows, tried>>
    BY <1>2 DEF Sets, jobVars, history
  <2>2. WorkerOK(w)'
    BY <2>1 DEF IInv, Typed, WorkerOK, Idle
  <2> QED
    BY <2>1, <2>2, IdleFits, WorkerOnly
<1>3. CASE Creates(w, work[w].reg)
  <2> DEFINE r == work[w].reg
  <2>1. Row(r) \in RowSet /\ Row(r).attempts = 0 /\ Row(r).status = "queued" /\ Row(r).reg = r
    BY <1>1, EmailAssumption DEF Row, RowSet, Statuses
  <2>2. PICK new \in SnapSet : new = [job |-> Len(rows) + 1, reg |-> r, attempts |-> 0]
    <3>1. [job |-> Len(rows) + 1, reg |-> r, attempts |-> 0] \in SnapSet
      BY <1>1, JobsAre, EmailAssumption DEF IInv, SnapSet
    <3> QED
      BY <3>1
  <2> DEFINE state == [Idle EXCEPT !.pc = "send", !.held = {new}]
  <2>3. state \in WorkSet /\ state.held = {new} /\ state.pc = "send"
    BY <2>2, IdleFits DEF WorkSet, Idle
  <2>4. /\ rows' = Append(rows, Row(r)) /\ tried' = Append(tried, 0)
        /\ work' = [work EXCEPT ![w] = state]
    BY <1>3, <2>2 DEF Creates, Sets
  <2>5. /\ rows' \in Seq(RowSet) /\ Len(rows') = Len(rows) + 1
        /\ \A i \in 1 .. Len(rows) : rows'[i] = rows[i]
        /\ rows'[Len(rows) + 1] = Row(r)
    BY <2>1, <2>4, AppendProperties DEF IInv, Typed
  <2>6. /\ tried' \in Seq(Nat) /\ Len(tried') = Len(rows) + 1
        /\ \A i \in 1 .. Len(rows) : tried'[i] = tried[i]
        /\ tried'[Len(rows) + 1] = 0
    <3>1. tried \in Seq(Nat) /\ Len(tried) = Len(rows) /\ 0 \in Nat
      BY DEF IInv, Typed
    <3> QED
      BY <2>4, <3>1, AppendProperties
  <2>7. Jobs = 1 .. Len(rows) /\ Jobs' = 1 .. Len(rows) + 1 /\ Len(rows) \in Nat
    BY <2>5, JobsAre, LenProperties DEF IInv, Jobs
  <2>8. \A j \in Jobs : tried[j] \in Nat
    BY <2>7, ElementOfSeq DEF IInv, Typed
  <2>9. Grows
    BY <2>5, <2>6, <2>7, <2>8 DEF Grows
  <2>10. ASSUME NEW j \in Jobs' PROVE RowOK(j)'
    <3>1. CASE j \in Jobs
      <4>1. RowOK(j) /\ rows'[j] = rows[j] /\ tried'[j] = tried[j]
        BY <2>5, <2>6, <2>7, <3>1 DEF IInv
      <4> QED
        BY <4>1 DEF RowOK
    <3>2. CASE j = Len(rows) + 1
      BY <2>1, <2>5, <2>6, <3>2, EmailAssumption DEF RowOK
    <3> QED
      BY <2>7, <3>1, <3>2
  <2>11. WorkerOK(w)'
    <3>1. work'[w] = state
      BY <2>4 DEF IInv, Typed
    <3>2. SnapOK(new)'
      BY <1>1, <2>1, <2>2, <2>5, <2>6, <2>7 DEF SnapOK
    <3> QED
      BY <2>3, <3>1, <3>2 DEF WorkerOK
  <2> QED
    BY <2>3, <2>4, <2>5, <2>6, <2>9, <2>10, <2>11, WorkerMoves
<1> QED
  BY <1>2, <1>3 DEF CreateJob

LEMMA ResendKeeps == ASSUME IInv, NEW a \in Admins, NEW r \in Regs, Resend(a, r) PROVE IInv'
<1>1. a \in Workers /\ UNCHANGED <<rows, tried>>
  BY DEF Resend, Workers, jobVars
<1>2. CASE Sets(a, [Idle EXCEPT !.pc = "create", !.reg = r])
  <2> DEFINE state == [Idle EXCEPT !.pc = "create", !.reg = r]
  <2>1. state \in WorkSet /\ state.held = {} /\ state.pc = "create" /\ state.reg = r
    BY IdleFits DEF WorkSet, Idle
  <2>2. work' = [work EXCEPT ![a] = state]
    BY <1>2 DEF Sets
  <2>3. WorkerOK(a)'
    BY <1>1, <2>1, <2>2 DEF IInv, Typed, WorkerOK
  <2> QED
    BY <1>1, <2>1, <2>2, <2>3, WorkerOnly
<1>3. ASSUME NEW j \in LatestQueued(r),
             Sets(a, [Idle EXCEPT !.pc = "reuse", !.reg = r, !.now = Snapshot(j)])
      PROVE  IInv'
  <2>1. j \in Jobs /\ j \in Nat /\ rows[j] \in RowSet /\ rows[j].attempts < MaxAttempts
    BY JobsAre, ElementOfSeq DEF LatestQueued, JobsOf, IInv, Typed, RowOK
  <2>2. PICK snap \in SnapSet : snap = Snapshot(j) /\ snap.job = j
    <3>1. Snapshot(j) \in SnapSet /\ Snapshot(j).job = j
      BY <2>1, EmailAssumption DEF Snapshot, SnapSet, RowSet
    <3> QED
      BY <3>1
  <2> DEFINE state == [Idle EXCEPT !.pc = "reuse", !.reg = r, !.now = snap]
  <2>3. state \in WorkSet /\ state.held = {} /\ state.pc = "reuse" /\ state.now = snap
    BY IdleFits DEF WorkSet, Idle
  <2>4. work' = [work EXCEPT ![a] = state]
    BY <1>3, <2>2 DEF Sets
  <2>5. work'[a] = state /\ j \in Jobs'
    BY <1>1, <2>1, <2>4 DEF IInv, Typed, Jobs
  <2>6. WorkerOK(a)'
    BY <2>2, <2>3, <2>5 DEF WorkerOK
  <2> QED
    BY <1>1, <2>3, <2>4, <2>6, WorkerOnly
<1> QED
  BY <1>2, <1>3 DEF Resend

LEMMA RetriesKeep == ASSUME IInv, StartRetries PROVE IInv'
<1>1. "cron" \in Workers /\ UNCHANGED <<rows, tried>>
  BY DEF StartRetries, Workers, jobVars, history
<1>2. ASSUME NEW j \in DueJobs PROVE Snapshot(j) \in SnapSet /\ SnapOK(Snapshot(j))
  <2>1. j \in Jobs /\ j \in Nat /\ rows[j] \in RowSet /\ RowOK(j) /\ rows[j].status = "queued"
    BY JobsAre, ElementOfSeq DEF DueJobs, FindQueued, Queued, IInv, Typed
  <2> QED
    BY <2>1, EmailAssumption DEF Snapshot, SnapSet, RowSet, SnapOK, RowOK
<1>3. PICK snaps \in SUBSET SnapSet : snaps = {Snapshot(j) : j \in DueJobs}
  <2>1. {Snapshot(j) : j \in DueJobs} \in SUBSET SnapSet
    BY <1>2
  <2> QED
    BY <2>1
<1> DEFINE state == [Idle EXCEPT !.pc = "send", !.held = snaps]
<1>4. state \in WorkSet /\ state.held = snaps /\ state.pc = "send"
  BY IdleFits DEF WorkSet, Idle
<1>5. work' = [work EXCEPT !["cron"] = state]
  BY <1>3 DEF StartRetries, Sets
<1>6. work'["cron"] = state
  BY <1>1, <1>5 DEF IInv, Typed
<1>7. \A s \in snaps : SnapOK(s)'
  <2>1. \A s \in snaps : SnapOK(s)
    BY <1>2, <1>3
  <2> QED
    BY <1>1, <2>1 DEF SnapOK, Jobs
<1>8. WorkerOK("cron")'
  BY <1>4, <1>6, <1>7 DEF WorkerOK
<1> QED
  BY <1>1, <1>4, <1>5, <1>8, WorkerOnly

LEMMA ReuseKeeps == ASSUME IInv, NEW a \in Workers, ReuseJob(a) PROVE IInv'
<1> DEFINE j == work[a].now.job
<1>1. j \in Jobs /\ j \in Nat /\ rows[j] \in RowSet /\ tried[j] \in Nat /\ tried' = tried
  BY JobsAre, ElementOfSeq DEF ReuseJob, IInv, Typed, WorkerOK, history
<1>2. CASE Sets(a, Idle) /\ UNCHANGED jobVars
  <2>1. work' = [work EXCEPT ![a] = Idle] /\ UNCHANGED <<rows, tried>>
    BY <1>1, <1>2 DEF Sets, jobVars
  <2>2. WorkerOK(a)'
    BY <2>1 DEF IInv, Typed, WorkerOK, Idle
  <2> QED
    BY <2>1, <2>2, IdleFits, WorkerOnly
<1>3. ASSUME Updates(j, [rows[j] EXCEPT !.status = "queued", !.attempts = 0]),
             Sets(a, [Idle EXCEPT !.pc = "send", !.held = {[Snapshot(j) EXCEPT !.attempts = 0]}])
      PROVE  IInv'
  <2>1. PICK row \in RowSet : row = [rows[j] EXCEPT !.status = "queued", !.attempts = 0]
    <3>1. 0 \in 0 .. MaxAttempts
      BY EmailAssumption
    <3>2. [rows[j] EXCEPT !.status = "queued", !.attempts = 0] \in RowSet
      BY <1>1, <3>1 DEF RowSet, Statuses
    <3> QED
      BY <3>2
  <2>2. row.attempts = 0 /\ row.status = "queued" /\ row.reg = rows[j].reg
    BY <1>1, <2>1, EmailAssumption DEF RowSet
  <2>3. PICK snap \in SnapSet : /\ snap = [Snapshot(j) EXCEPT !.attempts = 0]
                               /\ snap.job = j /\ snap.reg = rows[j].reg /\ snap.attempts = 0
    <3>1. /\ [Snapshot(j) EXCEPT !.attempts = 0] \in SnapSet
          /\ [Snapshot(j) EXCEPT !.attempts = 0].job = j
          /\ [Snapshot(j) EXCEPT !.attempts = 0].reg = rows[j].reg
          /\ [Snapshot(j) EXCEPT !.attempts = 0].attempts = 0
      BY <1>1, EmailAssumption DEF Snapshot, SnapSet, RowSet
    <3> QED
      BY <3>1
  <2> DEFINE state == [Idle EXCEPT !.pc = "send", !.held = {snap}]
  <2>4. state \in WorkSet /\ state.held = {snap} /\ state.pc = "send"
    BY IdleFits DEF WorkSet, Idle
  <2>5. work' = [work EXCEPT ![a] = state] /\ rows' = [rows EXCEPT ![j] = row]
    BY <1>3, <2>1, <2>3 DEF Sets, Updates
  <2>6. work'[a] = state
    BY <2>5 DEF IInv, Typed
  <2>7. ASSUME Grows PROVE WorkerOK(a)'
    <3>1. SnapOK(snap)'
      BY <1>1, <2>3, <2>7 DEF SnapOK, Grows
    <3> QED
      BY <2>4, <2>6, <3>1 DEF WorkerOK
  <2>8. /\ row.attempts <= tried[j] /\ row.status # "failed" /\ row.attempts < MaxAttempts
        /\ rows[j].reg = NoReg => row.reg = NoReg
    BY <1>1, <2>2, EmailAssumption
  <2> HIDE DEF j, state
  <2> QED
    BY <1>1, <2>4, <2>5, <2>7, <2>8, RowWritten
<1> QED
  BY <1>2, <1>3 DEF ReuseJob

(* A worker that writes nothing, or one row, and goes on with its next job.  *)
LEMMA MovesOnly ==
    ASSUME IInv, NEW w \in Workers, NEW s \in work[w].held, Moves(w, s), UNCHANGED <<rows, tried>>
    PROVE  IInv'
<1>1. PICK state \in WorkSet : work' = [work EXCEPT ![w] = state] /\ (Grows => WorkerOK(w)')
  BY MovesOK
<1> QED
  BY <1>1, SameGrows, WorkerOnly

LEMMA MovesWriting ==
    ASSUME IInv, NEW w \in Workers, NEW s \in work[w].held, Moves(w, s), NEW row \in RowSet,
           s.job \in Jobs, rows' = [rows EXCEPT ![s.job] = row], tried' = tried,
           row.attempts <= tried[s.job],
           row.status = "failed" => tried[s.job] >= MaxAttempts \/ row.reg = NoReg,
           row.status = "queued" => row.attempts < MaxAttempts,
           rows[s.job].reg = NoReg => row.reg = NoReg
    PROVE  IInv'
<1>1. PICK state \in WorkSet : work' = [work EXCEPT ![w] = state] /\ (Grows => WorkerOK(w)')
  BY MovesOK
<1> QED
  BY <1>1, RowWritten

(* What a worker holds, in the terms the next lemmas need.                   *)
LEMMA Holds ==
    ASSUME IInv, NEW w \in Workers, NEW s \in work[w].held
    PROVE  /\ s \in SnapSet /\ SnapOK(s)
           /\ rows[s.job] \in RowSet /\ tried[s.job] \in Nat
<1>1. s \in SnapSet /\ SnapOK(s)
  BY DEF IInv, Typed, WorkSet, WorkerOK
<1> QED
  BY <1>1, JobsAre, ElementOfSeq DEF SnapOK, IInv, Typed

LEMMA SkipKeeps == ASSUME IInv, NEW w \in Workers, SkipJob(w) PROVE IInv'
<1>1. PICK s \in work[w].held :
        /\ IF s.reg = NoReg /\ Stored(s.job)
           THEN Updates(s.job, [rows[s.job] EXCEPT !.status = "failed", !.attempts = s.attempts])
           ELSE UNCHANGED jobVars
        /\ Moves(w, s)
  BY DEF SkipJob
<1>2. tried' = tried
  BY DEF SkipJob, history
<1>3. s \in SnapSet /\ SnapOK(s) /\ rows[s.job] \in RowSet /\ tried[s.job] \in Nat
  BY Holds
<1>4. CASE s.reg = NoReg /\ Stored(s.job)
  <2>1. PICK row \in RowSet : row = [rows[s.job] EXCEPT !.status = "failed", !.attempts = s.attempts]
    <3>1. s.attempts \in 0 .. MaxAttempts
      BY <1>3, EmailAssumption DEF SnapSet
    <3>2. [rows[s.job] EXCEPT !.status = "failed", !.attempts = s.attempts] \in RowSet
      BY <1>3, <3>1 DEF RowSet, Statuses
    <3> QED
      BY <3>2
  <2>2. row.attempts = s.attempts /\ row.reg = rows[s.job].reg /\ row.status = "failed"
    BY <1>3, <2>1, EmailAssumption DEF RowSet
  <2>3. rows' = [rows EXCEPT ![s.job] = row]
    BY <1>1, <1>4, <2>1 DEF Updates
  <2>4. s.job \in Jobs /\ s.attempts <= tried[s.job] /\ rows[s.job].reg = NoReg
    BY <1>3, <1>4 DEF SnapOK
  <2> QED
    BY <1>1, <1>2, <2>2, <2>3, <2>4, MovesWriting
<1>5. CASE ~(s.reg = NoReg /\ Stored(s.job))
  BY <1>1, <1>2, <1>5, MovesOnly DEF jobVars
<1> QED
  BY <1>4, <1>5

LEMMA SaveKeeps == ASSUME IInv, NEW w \in Workers, SaveOutcome(w) PROVE IInv'
<1>1. PICK s \in work[w].held : s = work[w].now /\ s.attempts + 1 <= tried[s.job]
  BY DEF IInv, WorkerOK, SaveOutcome
<1>2. tried' = tried /\ Moves(w, s)
  BY <1>1 DEF SaveOutcome, history
<1>3. s \in SnapSet /\ SnapOK(s) /\ rows[s.job] \in RowSet /\ tried[s.job] \in Nat
  BY Holds
<1> DEFINE next == NextJobState(s.attempts, work[w].ok)
<1>4. CASE Stored(s.job)
  <2>1. s.attempts \in Nat /\ s.attempts + 1 <= MaxAttempts /\ rows[s.job].reg \in Regs \cup {NoReg}
    BY <1>3, EmailAssumption DEF SnapSet, RowSet
  <2>2. /\ next.attempts = s.attempts + 1
        /\ next.status \in Statuses
        /\ next.status = "failed" => s.attempts + 1 >= MaxAttempts
        /\ next.status = "queued" => ~(s.attempts + 1 >= MaxAttempts)
    BY DEF NextJobState, Statuses
  <2>3. PICK row \in RowSet : /\ row = [reg |-> rows[s.job].reg, status |-> next.status, attempts |-> next.attempts]
                              /\ row.attempts = s.attempts + 1 /\ row.reg = rows[s.job].reg
                              /\ row.status = next.status
    <3> HIDE DEF next
    <3>1. [reg |-> rows[s.job].reg, status |-> next.status, attempts |-> next.attempts] \in RowSet
      BY <2>1, <2>2, EmailAssumption DEF RowSet
    <3> QED
      BY <3>1, <2>2
  <2>4. rows' = [rows EXCEPT ![s.job] = row]
    BY <1>1, <1>4, <2>3 DEF SaveOutcome, Updates
  <2>5. /\ row.status = "failed" => tried[s.job] >= MaxAttempts
        /\ row.status = "queued" => row.attempts < MaxAttempts
    BY <1>1, <1>3, <2>1, <2>2, <2>3, EmailAssumption
  <2>6. s.job \in Jobs
    BY <1>3 DEF SnapOK
  <2> QED
    BY <1>1, <1>2, <2>3, <2>4, <2>5, <2>6, MovesWriting
<1>5. CASE ~Stored(s.job)
  BY <1>1, <1>2, <1>5, MovesOnly DEF SaveOutcome, jobVars
<1> QED
  BY <1>4, <1>5

(* A write that fails leaves rows and counters as they were.                 *)
LEMMA FailKeeps == ASSUME IInv, NEW w \in Workers, StoreFails(w) PROVE IInv'
<1>1. UNCHANGED <<rows, tried>>
  BY DEF StoreFails, jobVars
<1>2. Sets(w, Idle) \/ \E s \in work[w].held : Moves(w, s)
  BY DEF StoreFails, IInv, WorkerOK
<1>3. CASE Sets(w, Idle)
  <2>1. work' = [work EXCEPT ![w] = Idle]
    BY <1>3 DEF Sets
  <2>2. WorkerOK(w)'
    BY <2>1, IdleFits DEF IInv, Typed, WorkerOK, Idle
  <2> QED
    BY <1>1, <2>1, <2>2, IdleFits, SameGrows, WorkerOnly
<1>4. ASSUME NEW s \in work[w].held, Moves(w, s) PROVE IInv'
  BY <1>1, <1>4, MovesOnly
<1> QED
  BY <1>2, <1>3, <1>4

LEMMA SendKeeps == ASSUME IInv, NEW w \in Workers, Send(w) PROVE IInv'
<1>1. PICK s \in work[w].held, ok \in BOOLEAN :
        /\ tried' = [tried EXCEPT ![s.job] = @ + 1]
        /\ work' = [work EXCEPT ![w] = [work[w] EXCEPT !.pc = "save", !.now = s, !.ok = ok]]
        /\ rows' = rows
  BY DEF Send, Sets, jobVars
<1>2. s \in SnapSet /\ SnapOK(s) /\ rows[s.job] \in RowSet /\ tried[s.job] \in Nat
  BY Holds
<1>3. s.job \in Jobs /\ s.attempts \in Nat /\ s.attempts <= tried[s.job]
  BY <1>2 DEF SnapOK, SnapSet
<1>4. work[w] \in WorkSet /\ WorkerOK(w)
  BY DEF IInv, Typed
<1> DEFINE state == [work[w] EXCEPT !.pc = "save", !.now = s, !.ok = ok]
<1>5. state \in WorkSet /\ work'[w] = state
  BY <1>1, <1>2, <1>4 DEF WorkSet, IInv, Typed
<1>6. state.held = work[w].held /\ state.pc = "save" /\ state.now = s
  BY <1>4 DEF WorkSet
<1>7. /\ tried' \in Seq(Nat) /\ Len(tried') = Len(rows)
      /\ \A i \in 1 .. Len(rows) : tried'[i] = IF i = s.job THEN tried[s.job] + 1 ELSE tried[i]
  <2>1. tried \in Seq(Nat) /\ Len(tried) = Len(rows) /\ s.job \in 1 .. Len(tried) /\ tried[s.job] + 1 \in Nat
    BY <1>2, <1>3, JobsAre DEF IInv, Typed
  <2> QED
    BY <1>1, <2>1, ExceptSeq
<1>8. Jobs = 1 .. Len(rows) /\ Jobs' = Jobs /\ \A j \in Jobs : tried[j] \in Nat
  BY <1>1, JobsAre, ElementOfSeq DEF IInv, Typed, Jobs
<1>9. Grows
  BY <1>1, <1>7, <1>8 DEF Grows
<1>10. ASSUME NEW j \in Jobs' PROVE RowOK(j)'
  <2>1. RowOK(j) /\ rows'[j] = rows[j] /\ rows[j].attempts \in Nat
    <3>1. rows[j] \in RowSet
      BY <1>8, <1>10, ElementOfSeq DEF IInv, Typed
    <3> QED
      BY <1>1, <1>8, <1>10, <3>1 DEF IInv, RowSet
  <2>2. tried[j] \in Nat /\ tried'[j] \in Nat /\ tried'[j] >= tried[j]
    BY <1>8, <1>9, <1>10 DEF Grows
  <2> QED
    BY <2>1, <2>2, EmailAssumption DEF RowOK
<1>11. WorkerOK(w)'
  <2>1. ASSUME NEW t \in work[w].held PROVE SnapOK(t)'
    <3>1. t \in SnapSet /\ SnapOK(t)
      BY <1>4, <2>1 DEF WorkSet, WorkerOK
    <3> QED
      BY <3>1, <1>8, <1>9, SnapKept DEF Grows
  <2>2. s.attempts + 1 <= tried'[s.job]
    BY <1>2, <1>3, <1>7, <1>8
  <2> HIDE DEF state
  <2> QED
    BY <1>5, <1>6, <2>1, <2>2 DEF WorkerOK
<1> QED
  BY <1>1, <1>5, <1>7, <1>9, <1>10, <1>11, WorkerMoves DEF IInv, Typed

(* Rows change where they are, and no worker moves.                          *)
LEMMA RowsRewritten ==
    ASSUME IInv, UNCHANGED <<work, tried>>, rows' \in [Jobs -> RowSet],
           \A j \in Jobs : /\ rows'[j].attempts = rows[j].attempts
                           /\ rows'[j].status \in {rows[j].status, "deleted"}
                           /\ rows[j].reg = NoReg => rows'[j].reg = NoReg
    PROVE  IInv'
<1>1. Jobs = 1 .. Len(rows) /\ Len(rows) \in Nat
  BY JobsAre DEF IInv
<1>2. rows' \in Seq(RowSet) /\ Len(rows') = Len(rows) /\ Jobs' = Jobs
  <2>1. rows' \in [1 .. Len(rows) -> RowSet]
    BY <1>1
  <2>2. rows' \in Seq(RowSet)
    BY <1>1, <2>1, SeqDef
  <2>3. DOMAIN rows' = 1 .. Len(rows') /\ Len(rows') \in Nat
    BY <2>2, LenProperties
  <2>4. 1 .. Len(rows') = 1 .. Len(rows)
    BY <2>1, <2>3
  <2> QED
    BY <1>1, <2>2, <2>3, <2>4 DEF Jobs
<1>3. \A j \in Jobs : tried[j] \in Nat
  BY <1>1, ElementOfSeq DEF IInv, Typed
<1>4. \A j \in Jobs' : RowOK(j)'
  BY <1>2 DEF IInv, RowOK
<1>5. ASSUME NEW w \in Workers PROVE WorkerOK(w)'
  <2>1. work[w] \in WorkSet /\ WorkerOK(w)
    BY DEF IInv, Typed
  <2>2. ASSUME NEW s \in work[w].held PROVE SnapOK(s)'
    <3>1. s \in SnapSet /\ SnapOK(s)
      BY <2>1, <2>2 DEF WorkSet, WorkerOK
    <3> QED
      BY <3>1, <1>2, <1>3, SnapKept
  <2> QED
    BY <1>2, <2>1, <2>2 DEF WorkerOK
<1> QED
  BY <1>2, <1>4, <1>5 DEF IInv, Typed

LEMMA DeleteJobsKeeps == ASSUME IInv, NEW r \in Regs, DeleteJobs(r) PROVE IInv'
<1>1. rows' = [j \in Jobs |-> IF j \in JobsOf(r) THEN [rows[j] EXCEPT !.status = "deleted"] ELSE rows[j]]
      /\ UNCHANGED <<work, tried>>
  BY DEF DeleteJobs, history
<1>2. \A j \in Jobs : rows[j] \in RowSet
  BY JobsAre, ElementOfSeq DEF IInv, Typed
<1>3. \A j \in Jobs : /\ rows'[j] \in RowSet
                      /\ rows'[j].attempts = rows[j].attempts /\ rows'[j].reg = rows[j].reg
                      /\ rows'[j].status \in {rows[j].status, "deleted"}
  BY <1>1, <1>2 DEF RowSet, Statuses
<1>4. rows' \in [Jobs -> RowSet]
  BY <1>1, <1>3
<1> QED
  BY <1>1, <1>3, <1>4, RowsRewritten

LEMMA DeleteRegistrationKeeps ==
    ASSUME IInv, NEW r \in Regs, DeleteRegistration(r) PROVE IInv'
<1>1. rows' = [j \in Jobs |-> IF j \in JobsOf(r) THEN [rows[j] EXCEPT !.reg = NoReg] ELSE rows[j]]
      /\ UNCHANGED <<work, tried>>
  BY DEF DeleteRegistration, history
<1>2. \A j \in Jobs : rows[j] \in RowSet
  BY JobsAre, ElementOfSeq DEF IInv, Typed
<1>3. \A j \in Jobs : /\ rows'[j] \in RowSet
                      /\ rows'[j].attempts = rows[j].attempts /\ rows'[j].status = rows[j].status
                      /\ rows'[j].reg \in {rows[j].reg, NoReg}
  BY <1>1, <1>2 DEF RowSet
<1>4. rows' \in [Jobs -> RowSet]
  BY <1>1, <1>3
<1> QED
  BY <1>1, <1>3, <1>4, RowsRewritten

LEMMA RestartKeeps == ASSUME IInv, Restart PROVE IInv'
<1>1. work' = [w \in Workers |-> Idle] /\ UNCHANGED <<rows, tried>>
  BY DEF Restart, jobVars
<1>2. Typed'
  BY <1>1, IdleFits DEF IInv, Typed
<1>3. \A j \in Jobs' : RowOK(j)'
  BY <1>1 DEF IInv, RowOK, Jobs
<1>4. \A w \in Workers : WorkerOK(w)'
  BY <1>1 DEF WorkerOK, Idle
<1> QED
  BY <1>2, <1>3, <1>4 DEF IInv

LEMMA StutterKeeps == ASSUME IInv, UNCHANGED <<rows, tried, work>> PROVE IInv'
BY DEF IInv, Typed, Jobs, RowOK, WorkerOK, SnapOK

LEMMA InitFits == Init => IInv
<1> SUFFICES ASSUME Init PROVE IInv
  OBVIOUS
<1>1. rows = <<>> /\ tried = <<>> /\ work = [w \in Workers |-> Idle]
  BY DEF Init
<1>2. Typed /\ Jobs = {}
  BY <1>1, IdleFits, EmptySeq DEF Typed, Jobs
<1>3. \A w \in Workers : WorkerOK(w)
  BY <1>1 DEF WorkerOK, Idle
<1> QED
  BY <1>2, <1>3 DEF IInv

LEMMA NextKeeps == IInv /\ [Next]_vars => IInv'
<1> SUFFICES ASSUME IInv, [Next]_vars PROVE IInv'
  OBVIOUS
<1>1. ASSUME NEW r \in Regs, Submit(r) \/ CountRecipient(r) \/ DeleteJobs(r) \/ DeleteRegistration(r)
      PROVE  IInv'
  BY <1>1, SubmitKeeps, CountKeeps, DeleteJobsKeeps, DeleteRegistrationKeeps
<1>2. ASSUME NEW a \in Admins, NEW r \in Regs, Resend(a, r) PROVE IInv'
  BY <1>2, ResendKeeps
<1>3. CASE StartRetries
  BY <1>3, RetriesKeep
<1>4. ASSUME NEW w \in Workers, Step(w) PROVE IInv'
  BY <1>4, CreateKeeps, ReuseKeeps, SkipKeeps, SendKeeps, SaveKeeps DEF Step
<1>5. ASSUME NEW j \in Jobs, GrowsQuiet(j) PROVE IInv'
  BY <1>5, StutterKeeps DEF GrowsQuiet, history
<1>6. CASE Restart
  BY <1>6, RestartKeeps
<1>7. CASE UNCHANGED vars
  BY <1>7, StutterKeeps DEF vars, jobVars, history
<1>8. ASSUME NEW w \in Workers, StoreFails(w) PROVE IInv'
  BY <1>8, FailKeeps
<1> QED
  BY <1>1, <1>2, <1>3, <1>4, <1>5, <1>6, <1>7, <1>8 DEF Next

(* Counters never run ahead: in no row, and in nothing any worker remembers  *)
(* of one, are there more attempts than were made for that job. This is what *)
(* makes the stale rows of attemptJob and resendRegistrationEmail harmless   *)
(* to the promise below.                                                     *)
THEOREM CountersNeverAhead == Spec => []IInv
<1>1. Init => IInv
  BY InitFits
<1>2. IInv /\ [Next]_vars => IInv'
  BY NextKeeps
<1> QED
  BY <1>1, <1>2, PTL DEF Spec

(* No job is given up before it had MAX_ATTEMPTS attempts, unless its        *)
(* registration is gone (nextJobState, attemptJob), whatever resends, crons, *)
(* restarts and deletions interleave.                                        *)
THEOREM GivenUpOnlyAfterAttempts == Spec => []GivenUpAfterAttempts
<1>1. IInv => GivenUpAfterAttempts
  BY DEF IInv, RowOK, GivenUpAfterAttempts
<1> QED
  BY <1>1, CountersNeverAhead, PTL
-------------------------------------------------------------------------------
(* The rest of the type invariant: what surrounds the jobs, the order they   *)
(* were written in, and who holds what.                                      *)
Around ==
    /\ regs \in [Regs -> {"new", "live", "gone"}]
    /\ removing \in SUBSET Regs
    /\ blocked \in BOOLEAN
    /\ resends \in 0 .. MaxResends /\ faults \in 0 .. MaxFaults

StoredJobs == {j \in Jobs : Stored(j)}
Order == older \subseteq StoredJobs \X StoredJobs /\ quiet \subseteq Jobs
Shape == \A w \in Workers : work[w].pc \in {"send", "save"} <=> work[w].held # {}

(* With the counters, the types: what the later proofs take as known.        *)
Known == IInv /\ Around /\ Order /\ Shape

LEMMA KnownIsTyped == Known => TypeOK
<1> SUFFICES ASSUME Known PROVE TypeOK
  OBVIOUS
<1>1. rows \in Seq([reg : Regs \cup {NoReg}, status : Statuses, attempts : 0 .. MaxAttempts])
  BY DEF Known, IInv, Typed, RowSet
<1>2. ASSUME NEW w \in Workers
      PROVE  /\ work[w].pc \in {"idle", "count", "create", "reuse", "send", "save"}
             /\ work[w].pc = "save" => work[w].now \in work[w].held
  BY DEF Known, IInv, Typed, WorkSet, WorkerOK
<1> QED
  BY <1>1, <1>2 DEF Known, TypeOK, Around, Order, Shape, StoredJobs

LEMMA AroundKept == ASSUME Around, [Next]_vars PROVE Around'
<1>1. ASSUME NEW r \in Regs, Submit(r) \/ CountRecipient(r) \/ DeleteJobs(r) \/ DeleteRegistration(r)
      PROVE  Around'
  <2>1. CASE Submit(r)
    BY <2>1 DEF Submit, Around
  <2>2. CASE CountRecipient(r)
    BY <2>2 DEF CountRecipient, Around
  <2>3. CASE DeleteJobs(r)
    BY <2>3, EmailAssumption DEF DeleteJobs, Around
  <2>4. CASE DeleteRegistration(r)
    BY <2>4 DEF DeleteRegistration, Around
  <2> QED
    BY <1>1, <2>1, <2>2, <2>3, <2>4
<1>2. ASSUME NEW a \in Admins, NEW r \in Regs, Resend(a, r) PROVE Around'
  <2>1. /\ UNCHANGED <<regs, removing, blocked, faults>>
        /\ resends < MaxResends /\ resends' = resends + 1
    BY <1>2 DEF Resend
  <2> QED
    BY <2>1, EmailAssumption DEF Around
<1>3. CASE StartRetries
  BY <1>3 DEF StartRetries, Around
<1>4. ASSUME NEW w \in Workers, Step(w) PROVE Around'
  <2>1. CASE CreateJob(w) \/ ReuseJob(w) \/ SkipJob(w) \/ SaveOutcome(w)
    BY <2>1 DEF CreateJob, ReuseJob, SkipJob, SaveOutcome, Around
  <2>2. CASE Send(w)
    <3>1. /\ UNCHANGED <<regs, removing, blocked, resends>>
          /\ faults' = faults \/ (faults < MaxFaults /\ faults' = faults + 1)
      BY <2>2 DEF Send, Delivered, Refused, AnswerLost
    <3> QED
      BY <3>1, EmailAssumption DEF Around
  <2> QED
    BY <1>4, <2>1, <2>2 DEF Step
<1>5. ASSUME NEW j \in Jobs, GrowsQuiet(j) PROVE Around'
  BY <1>5 DEF GrowsQuiet, Around
<1>6. CASE Restart
  BY <1>6, EmailAssumption DEF Restart, Around
<1>7. CASE UNCHANGED vars
  BY <1>7 DEF vars, Around
<1>8. ASSUME NEW w \in Workers, StoreFails(w) PROVE Around'
  BY <1>8, EmailAssumption DEF StoreFails, Around
<1> QED
  BY <1>1, <1>2, <1>3, <1>4, <1>5, <1>6, <1>7, <1>8 DEF Next

(* A row written over stays stored, and becomes the youngest.                *)
LEMMA OrderUpdated ==
    ASSUME IInv, Order, NEW j \in Jobs, NEW row, row.status # "deleted", Updates(j, row)
    PROVE  Order'
<1>1. Jobs' = Jobs /\ \A i \in Jobs : rows'[i] = IF i = j THEN row ELSE rows[i]
  BY DEF Updates, Jobs, IInv, Typed
<1>2. StoredJobs' = StoredJobs \cup {j}
  BY <1>1 DEF StoredJobs, Stored
<1>3. quiet' \subseteq Jobs'
  BY <1>1 DEF Updates, Order
<1>4. Without({j}) \subseteq StoredJobs \X StoredJobs
  BY DEF Without, Order
<1>5. AfterAll(j) \subseteq (StoredJobs \cup {j}) \X (StoredJobs \cup {j})
  BY DEF AfterAll, StoredJobs
<1> QED
  BY <1>2, <1>3, <1>4, <1>5 DEF Updates, Order

LEMMA OrderSame == ASSUME Order, UNCHANGED jobVars PROVE Order'
BY DEF Order, StoredJobs, Stored, Jobs, jobVars

(* A new job comes last and leaves the others as they are.                   *)
LEMMA JobCreated ==
    ASSUME IInv, NEW w, NEW r, Creates(w, r)
    PROVE  /\ Jobs = 1 .. Len(rows) /\ Len(rows) \in Nat
           /\ Jobs' = Jobs \cup {Len(rows) + 1}
           /\ Len(rows) + 1 \notin Jobs
           /\ rows'[Len(rows) + 1] = Row(r)
           /\ \A i \in Jobs : rows'[i] = rows[i]
<1>1. rows' = Append(rows, Row(r)) /\ rows \in Seq(RowSet)
  BY DEF Creates, IInv, Typed
<1>2. rows \in Seq(RowSet \cup {Row(r)})
  BY <1>1, SeqMonotonic
<1>3. /\ rows' \in Seq(RowSet \cup {Row(r)}) /\ Len(rows') = Len(rows) + 1
      /\ rows'[Len(rows) + 1] = Row(r)
      /\ \A i \in 1 .. Len(rows) : rows'[i] = rows[i]
  BY <1>1, <1>2, AppendProperties
<1>4. Jobs' = 1 .. Len(rows) + 1
  BY <1>3, LenProperties DEF Jobs
<1>5. Jobs = 1 .. Len(rows) /\ Len(rows) \in Nat
  BY JobsAre DEF IInv
<1> QED
  BY <1>3, <1>4, <1>5

LEMMA OrderCreated == ASSUME IInv, Order, NEW w, NEW r, Creates(w, r) PROVE Order'
<1> DEFINE n == Len(rows) + 1
<1>1. /\ Jobs' = Jobs \cup {n} /\ n \notin Jobs
      /\ rows'[n] = Row(r)
      /\ \A i \in Jobs : rows'[i] = rows[i]
  BY JobCreated
<1>2. older' = older \cup AfterAll(n) /\ quiet' = quiet
  BY DEF Creates
<1> HIDE DEF n
<1>3. StoredJobs' = StoredJobs \cup {n}
  <2>1. rows'[n].status = "queued"
    BY <1>1 DEF Row
  <2> QED
    BY <1>1, <2>1 DEF StoredJobs, Stored
<1>4. AfterAll(n) \subseteq StoredJobs \X {n}
  BY DEF AfterAll, StoredJobs
<1>5. older' \subseteq StoredJobs' \X StoredJobs'
  BY <1>2, <1>3, <1>4 DEF Order
<1> QED
  BY <1>1, <1>2, <1>5 DEF Order

LEMMA OrderDeleted ==
    ASSUME Order, NEW r \in Regs, DeleteJobs(r) PROVE Order'
<1>1. Jobs' = Jobs
  BY DEF DeleteJobs, Jobs
<1>2. StoredJobs' = StoredJobs \ JobsOf(r)
  <2>1. \A j \in JobsOf(r) : rows'[j].status = "deleted" \/ ~Stored(j)
    BY DEF DeleteJobs, JobsOf
  <2> QED
    BY <1>1 DEF DeleteJobs, StoredJobs, Stored, JobsOf
<1>3. older' \subseteq StoredJobs' \X StoredJobs'
  BY <1>2 DEF DeleteJobs, Without, Order
<1> QED
  BY <1>1, <1>3 DEF DeleteJobs, Order

LEMMA OrderKept == ASSUME IInv, Order, [Next]_vars PROVE Order'
<1>1. ASSUME NEW r \in Regs, Submit(r) \/ CountRecipient(r) \/ DeleteJobs(r) \/ DeleteRegistration(r)
      PROVE  Order'
  <2>1. CASE Submit(r) \/ CountRecipient(r)
    BY <2>1, OrderSame DEF Submit, CountRecipient
  <2>2. CASE DeleteJobs(r)
    BY <2>2, OrderDeleted
  <2>3. CASE DeleteRegistration(r)
    <3>1. /\ rows' = [j \in Jobs |-> IF j \in JobsOf(r) THEN [rows[j] EXCEPT !.reg = NoReg] ELSE rows[j]]
          /\ UNCHANGED <<older, quiet>>
      BY <2>3 DEF DeleteRegistration
    <3>2. \A j \in Jobs : rows[j] \in RowSet
      BY JobsAre, ElementOfSeq DEF IInv, Typed
    <3>3. Jobs' = Jobs /\ \A j \in Jobs : rows'[j].status = rows[j].status
      BY <3>1, <3>2 DEF Jobs, RowSet
    <3>4. StoredJobs' = StoredJobs
      BY <3>3 DEF StoredJobs, Stored
    <3> QED
      BY <3>1, <3>3, <3>4 DEF Order
  <2> QED
    BY <1>1, <2>1, <2>2, <2>3
<1>2. ASSUME NEW a \in Admins, NEW r \in Regs, Resend(a, r) PROVE Order'
  BY <1>2, OrderSame DEF Resend
<1>3. CASE StartRetries
  BY <1>3, OrderSame DEF StartRetries
<1>4. ASSUME NEW w \in Workers, Step(w) PROVE Order'
  <2>1. CASE CreateJob(w)
    BY <2>1, OrderCreated, OrderSame DEF CreateJob
  <2>2. CASE ReuseJob(w)
    <3> DEFINE j == work[w].now.job
               row == [rows[j] EXCEPT !.status = "queued", !.attempts = 0]
    <3>1. j \in Jobs
      BY <2>2 DEF ReuseJob, IInv, WorkerOK
    <3>2. row.status # "deleted"
      <4>1. rows[j] \in RowSet
        BY <3>1, JobsAre, ElementOfSeq DEF IInv, Typed
      <4> QED
        BY <4>1 DEF RowSet
    <3>3. Updates(j, row) \/ UNCHANGED jobVars
      BY <2>2 DEF ReuseJob
    <3> HIDE DEF j, row
    <3> QED
      BY <3>1, <3>2, <3>3, OrderUpdated, OrderSame
  <2>3. CASE SkipJob(w)
    <3>1. PICK s \in work[w].held :
            Updates(s.job, [rows[s.job] EXCEPT !.status = "failed", !.attempts = s.attempts])
            \/ UNCHANGED jobVars
      BY <2>3 DEF SkipJob
    <3>2. rows[s.job] \in RowSet /\ s.job \in Jobs
      BY Holds DEF SnapOK
    <3> DEFINE row == [rows[s.job] EXCEPT !.status = "failed", !.attempts = s.attempts]
    <3>3. row.status # "deleted"
      BY <3>2 DEF RowSet
    <3>4. Updates(s.job, row) \/ UNCHANGED jobVars
      BY <3>1
    <3> HIDE DEF row
    <3> QED
      BY <3>2, <3>3, <3>4, OrderUpdated, OrderSame
  <2>4. CASE Send(w)
    BY <2>4, OrderSame DEF Send
  <2>5. CASE SaveOutcome(w)
    <3> DEFINE s == work[w].now
               next == NextJobState(s.attempts, work[w].ok)
               row == [reg |-> rows[s.job].reg, status |-> next.status, attempts |-> next.attempts]
    <3>1. s.job \in Jobs
      BY <2>5, Holds DEF SaveOutcome, IInv, WorkerOK, SnapOK
    <3>2. row.status # "deleted"
      BY DEF NextJobState
    <3>3. Updates(s.job, row) \/ UNCHANGED jobVars
      BY <2>5 DEF SaveOutcome
    <3> HIDE DEF s, row
    <3> QED
      BY <3>1, <3>2, <3>3, OrderUpdated, OrderSame
  <2> QED
    BY <1>4, <2>1, <2>2, <2>3, <2>4, <2>5 DEF Step
<1>5. ASSUME NEW j \in Jobs, GrowsQuiet(j) PROVE Order'
  BY <1>5 DEF GrowsQuiet, Order, StoredJobs, Stored, Jobs
<1>6. CASE Restart
  BY <1>6, OrderSame DEF Restart
<1>7. CASE UNCHANGED vars
  BY <1>7, OrderSame DEF vars
<1>8. ASSUME NEW w \in Workers, StoreFails(w) PROVE Order'
  BY <1>8, OrderSame DEF StoreFails
<1> QED
  BY <1>1, <1>2, <1>3, <1>4, <1>5, <1>6, <1>7, <1>8 DEF Next

LEMMA ShapeSet ==
    ASSUME IInv, Shape, NEW w \in Workers, NEW state, work' = [work EXCEPT ![w] = state],
           state.pc \in {"send", "save"} <=> state.held # {}
    PROVE  Shape'
BY DEF IInv, Typed, Shape

LEMMA ShapeMoved ==
    ASSUME IInv, Shape, NEW w \in Workers, NEW s \in work[w].held, Moves(w, s) PROVE Shape'
<1> DEFINE rest == [work[w] EXCEPT !.pc = "send", !.held = @ \ {s}, !.now = NoRow, !.ok = FALSE]
<1>1. work[w] \in WorkSet
  BY DEF IInv, Typed
<1>2. CASE work[w].held = {s}
  BY <1>2, ShapeSet DEF Moves, Sets, Idle
<1>3. CASE work[w].held # {s}
  <2>1. rest.pc = "send" /\ rest.held = work[w].held \ {s}
    BY <1>1 DEF WorkSet
  <2>2. work[w].held \ {s} # {}
    BY <1>3
  <2>3. work' = [work EXCEPT ![w] = rest]
    BY <1>3 DEF Moves, Sets
  <2> HIDE DEF rest
  <2> QED
    BY <2>1, <2>2, <2>3, ShapeSet
<1> QED
  BY <1>2, <1>3

LEMMA ShapeKept == ASSUME IInv, Shape, [Next]_vars PROVE Shape'
<1>1. ASSUME NEW r \in Regs, Submit(r) \/ CountRecipient(r) \/ DeleteJobs(r) \/ DeleteRegistration(r)
      PROVE  Shape'
  <2>1. r \in Workers
    BY DEF Workers
  <2>2. CASE Submit(r)
    BY <2>1, <2>2, ShapeSet DEF Submit, Sets, Idle
  <2>3. CASE CountRecipient(r)
    <3> DEFINE next == [work[r] EXCEPT !.pc = "create"]
    <3>1. work[r] \in WorkSet /\ work[r].pc = "count"
      BY <2>1, <2>3 DEF IInv, Typed, CountRecipient
    <3>2. next.pc = "create" /\ next.held = {}
      BY <2>1, <3>1 DEF Shape, WorkSet
    <3>3. work' = [work EXCEPT ![r] = next] \/ work' = [work EXCEPT ![r] = Idle]
      BY <2>3 DEF CountRecipient, Sets
    <3>4. Idle.pc = "idle" /\ Idle.held = {}
      BY DEF Idle
    <3> HIDE DEF next
    <3> QED
      BY <2>1, <3>2, <3>3, <3>4, ShapeSet
  <2>4. CASE DeleteJobs(r) \/ DeleteRegistration(r)
    BY <2>4 DEF DeleteJobs, DeleteRegistration, Shape
  <2> QED
    BY <1>1, <2>2, <2>3, <2>4
<1>2. ASSUME NEW a \in Admins, NEW r \in Regs, Resend(a, r) PROVE Shape'
  <2>1. a \in Workers
    BY DEF Workers
  <2>2. CASE Sets(a, [Idle EXCEPT !.pc = "create", !.reg = r])
    BY <2>1, <2>2, ShapeSet DEF Sets, Idle
  <2>3. ASSUME NEW j, Sets(a, [Idle EXCEPT !.pc = "reuse", !.reg = r, !.now = Snapshot(j)])
        PROVE  Shape'
    BY <2>1, <2>3, ShapeSet DEF Sets, Idle
  <2> QED
    BY <1>2, <2>2, <2>3 DEF Resend
<1>3. CASE StartRetries
  <2>1. "cron" \in Workers /\ {Snapshot(j) : j \in DueJobs} # {}
    BY <1>3 DEF Workers, StartRetries
  <2> DEFINE state == [Idle EXCEPT !.pc = "send", !.held = {Snapshot(j) : j \in DueJobs}]
  <2>2. work' = [work EXCEPT !["cron"] = state]
    BY <1>3 DEF StartRetries, Sets
  <2>3. state.pc = "send" /\ state.held # {}
    BY <2>1 DEF Idle
  <2> HIDE DEF state
  <2> QED
    BY <2>1, <2>2, <2>3, ShapeSet
<1>4. ASSUME NEW w \in Workers, Step(w) PROVE Shape'
  <2>1. CASE CreateJob(w) \/ ReuseJob(w)
    <3>1. \/ Sets(w, Idle)
          \/ \E s : Sets(w, [Idle EXCEPT !.pc = "send", !.held = {s}])
      BY <2>1 DEF CreateJob, Creates, ReuseJob
    <3>2. CASE Sets(w, Idle)
      BY <3>2, ShapeSet DEF Sets, Idle
    <3>3. ASSUME NEW s, Sets(w, [Idle EXCEPT !.pc = "send", !.held = {s}]) PROVE Shape'
      BY <3>3, ShapeSet DEF Sets, Idle
    <3> QED
      BY <3>1, <3>2, <3>3
  <2>2. CASE SkipJob(w) \/ SaveOutcome(w)
    <3>1. \E s \in work[w].held : Moves(w, s)
      BY <2>2 DEF SkipJob, SaveOutcome, IInv, WorkerOK
    <3> QED
      BY <3>1, ShapeMoved
  <2>3. CASE Send(w)
    <3>1. PICK s \in work[w].held, ok \in BOOLEAN :
            work' = [work EXCEPT ![w] = [work[w] EXCEPT !.pc = "save", !.now = s, !.ok = ok]]
      BY <2>3 DEF Send, Sets
    <3> DEFINE state == [work[w] EXCEPT !.pc = "save", !.now = s, !.ok = ok]
    <3>2. state.pc = "save" /\ state.held = work[w].held
      BY DEF IInv, Typed, WorkSet
    <3>3. state.held # {}
      BY <3>1, <3>2
    <3> HIDE DEF state
    <3> QED
      BY <3>1, <3>2, <3>3, ShapeSet DEF state
  <2> QED
    BY <1>4, <2>1, <2>2, <2>3 DEF Step
<1>5. ASSUME NEW j \in Jobs, GrowsQuiet(j) PROVE Shape'
  BY <1>5 DEF GrowsQuiet, Shape
<1>6. CASE Restart
  BY <1>6 DEF Restart, Shape, Idle
<1>7. CASE UNCHANGED vars
  BY <1>7 DEF vars, Shape
<1>8. ASSUME NEW w \in Workers, StoreFails(w) PROVE Shape'
  <2>1. Sets(w, Idle) \/ \E s \in work[w].held : Moves(w, s)
    BY <1>8 DEF StoreFails, IInv, WorkerOK
  <2>2. CASE Sets(w, Idle)
    BY <2>2, ShapeSet DEF Sets, Idle
  <2> QED
    BY <2>1, <2>2, ShapeMoved
<1> QED
  BY <1>1, <1>2, <1>3, <1>4, <1>5, <1>6, <1>7, <1>8 DEF Next

LEMMA KnownInit == Init => Known
<1> SUFFICES ASSUME Init PROVE Known
  OBVIOUS
<1>1. Around
  BY EmailAssumption DEF Init, Around
<1>2. Order /\ Shape
  BY DEF Init, Order, Shape, Idle
<1> QED
  BY <1>1, <1>2, InitFits DEF Known

LEMMA KnownNext == Known /\ [Next]_vars => Known'
BY NextKeeps, AroundKept, OrderKept, ShapeKept DEF Known

(* Types hold: what TLC checks of the states of one family holds for any     *)
(* registrations, admins and limits. In particular no stored counter passes  *)
(* MAX_ATTEMPTS (nextJobState), and a worker holds rows exactly while it     *)
(* tries them (attemptJob, retryDueJobs).                                    *)
THEOREM TypesHold == Spec => []TypeOK
BY KnownInit, KnownNext, KnownIsTyped, PTL DEF Spec

-------------------------------------------------------------------------------
(* Who may still deliver a job: a worker that has read its row, or is about  *)
(* to reuse it, and while nobody has read it the queued row itself, which    *)
(* the cron will find ("none" stands for it). A worker that was just told of *)
(* a delivery does not count, though its row still says "queued".            *)
HasRead(w, j) == \E s \in work[w].held : s.job = j
Told(w, j) == work[w].pc = "save" /\ work[w].ok /\ work[w].now.job = j
Claims(w, j) ==
    \/ HasRead(w, j) /\ ~Told(w, j)
    \/ work[w].pc = "reuse" /\ work[w].now.job = j
Waits(j) == rows[j].status = "queued" /\ \A w \in Workers : ~HasRead(w, j)
Claimants(j) == {w \in Workers : Claims(w, j)} \cup {n \in {"none"} : Waits(j)}

Busy == {w \in Workers : work[w].pc # "idle"}

(* What keeps claims apart: the cron only takes what no request has read, no *)
(* worker has read a row twice, a request starts with nothing.               *)
Apart ==
    /\ \A j \in quiet, w \in Workers \ {"cron"} : ~HasRead(w, j)
    /\ \A w \in Workers : \A s, t \in work[w].held : s.job = t.job => s = t
    /\ \A r \in Regs : regs[r] = "new" => work[r] = Idle
    /\ IsFiniteSet(Busy)

Books ==
    /\ delivered \in Seq(Nat) /\ Len(delivered) = Len(rows)
    /\ excused \in Seq(Nat) /\ Len(excused) = Len(rows)

Covered(j) == delivered[j] + Cardinality(Claimants(j)) <= 1 + excused[j]

DInv == Apart /\ Books /\ \A j \in Jobs : Covered(j)

(* Counting a set from another: a part of it, one exchanged, one less, one   *)
(* more.                                                                     *)
LEMMA Counts ==
    ASSUME NEW S, IsFiniteSet(S), NEW T
    PROVE  /\ Cardinality(S) \in Nat
           /\ T \subseteq S => IsFiniteSet(T) /\ Cardinality(T) \in Nat /\ Cardinality(T) <= Cardinality(S)
           /\ \A x \in S : \A y : T \subseteq (S \ {x}) \cup {y} =>
                Cardinality(T) \in Nat /\ Cardinality(T) <= Cardinality(S)
           /\ \A x \in S : T \subseteq S \ {x} =>
                Cardinality(T) \in Nat /\ Cardinality(T) + 1 <= Cardinality(S)
           /\ \A y : T \subseteq S \cup {y} =>
                Cardinality(T) \in Nat /\ Cardinality(T) <= Cardinality(S) + 1
<1>1. Cardinality(S) \in Nat
  BY FS_CardinalityType
<1>2. ASSUME NEW U, IsFiniteSet(U), T \subseteq U
      PROVE  IsFiniteSet(T) /\ Cardinality(T) \in Nat /\ Cardinality(T) <= Cardinality(U)
  BY <1>2, FS_Subset, FS_CardinalityType
<1>3. ASSUME NEW x \in S
      PROVE  /\ IsFiniteSet(S \ {x}) /\ Cardinality(S \ {x}) \in Nat
             /\ Cardinality(S \ {x}) + 1 = Cardinality(S)
  <2> DEFINE U == S \ {x}
  <2>1. IsFiniteSet(U)
    BY FS_RemoveElement, Zenon
  <2>2. Cardinality(U) = IF x \in S THEN Cardinality(S) - 1 ELSE Cardinality(S)
    BY FS_RemoveElement, Zenon
  <2>3. Cardinality(U) \in Nat
    BY <2>1, FS_CardinalityType, Zenon
  <2> HIDE DEF U
  <2>4. Cardinality(U) + 1 = Cardinality(S)
    BY <1>1, <2>2, <2>3
  <2> QED
    BY <2>1, <2>3, <2>4 DEF U
<1>4. ASSUME NEW U, IsFiniteSet(U), NEW y
      PROVE  /\ IsFiniteSet(U \cup {y}) /\ Cardinality(U \cup {y}) \in Nat
             /\ Cardinality(U \cup {y}) <= Cardinality(U) + 1
  <2> DEFINE V == U \cup {y}
  <2>1. Cardinality(U) \in Nat
    BY <1>4, FS_CardinalityType
  <2>2. IsFiniteSet(V)
    BY <1>4, FS_AddElement, Zenon
  <2>3. Cardinality(V) = IF y \in U THEN Cardinality(U) ELSE Cardinality(U) + 1
    BY <1>4, FS_AddElement, Zenon
  <2>4. Cardinality(V) \in Nat
    BY <2>2, FS_CardinalityType, Zenon
  <2> HIDE DEF V
  <2>5. Cardinality(V) <= Cardinality(U) + 1
    BY <2>1, <2>3
  <2> QED
    BY <2>2, <2>4, <2>5 DEF V
<1>5. ASSUME NEW x \in S, NEW y, T \subseteq (S \ {x}) \cup {y}
      PROVE  Cardinality(T) \in Nat /\ Cardinality(T) <= Cardinality(S)
  <2> DEFINE U == S \ {x}
  <2>1. IsFiniteSet(U) /\ Cardinality(U) \in Nat /\ Cardinality(U) + 1 = Cardinality(S)
    BY <1>3
  <2>2. T \subseteq U \cup {y}
    BY <1>5
  <2> HIDE DEF U
  <2>3. IsFiniteSet(U \cup {y}) /\ Cardinality(U \cup {y}) \in Nat
        /\ Cardinality(U \cup {y}) <= Cardinality(U) + 1
    BY <1>4, <2>1
  <2> QED
    BY <1>1, <1>2, <2>1, <2>2, <2>3
<1>6. ASSUME NEW x \in S, T \subseteq S \ {x}
      PROVE  Cardinality(T) \in Nat /\ Cardinality(T) + 1 <= Cardinality(S)
  <2> DEFINE U == S \ {x}
  <2>1. IsFiniteSet(U) /\ Cardinality(U) \in Nat /\ Cardinality(U) + 1 = Cardinality(S)
    BY <1>3
  <2>2. T \subseteq U
    BY <1>6
  <2> HIDE DEF U
  <2> QED
    BY <1>1, <1>2, <2>1, <2>2
<1>7. ASSUME NEW y, T \subseteq S \cup {y}
      PROVE  Cardinality(T) \in Nat /\ Cardinality(T) <= Cardinality(S) + 1
  <2> DEFINE U == S \cup {y}
  <2>1. IsFiniteSet(U) /\ Cardinality(U) \in Nat /\ Cardinality(U) <= Cardinality(S) + 1
    BY <1>4
  <2>2. T \subseteq U
    BY <1>7
  <2> HIDE DEF U
  <2> QED
    BY <1>1, <1>2, <2>1, <2>2
<1> QED
  BY <1>1, <1>2, <1>5, <1>6, <1>7

LEMMA IdleIs == Idle.pc = "idle" /\ Idle.held = {}
BY DEF Idle

LEMMA NoneIsNobody == "none" \notin Workers /\ "cron" \in Workers /\ "cron" \notin Regs
BY EmailAssumption DEF Workers

LEMMA ClaimantsFinite ==
    ASSUME Shape, Apart, NEW j PROVE IsFiniteSet(Claimants(j))
<1>1. Claimants(j) \subseteq Busy \cup {"none"}
  BY DEF Claimants, Claims, HasRead, Busy, Shape
<1>2. IsFiniteSet(Busy \cup {"none"})
  BY FS_AddElement DEF Apart
<1> QED
  BY <1>1, <1>2, FS_Subset

LEMMA BookEntries ==
    ASSUME Known, Books, NEW j \in Jobs
    PROVE  delivered[j] \in Nat /\ excused[j] \in Nat
BY JobsAre, ElementOfSeq DEF Known, IInv, Books

(* How the account of one job may move: each line is one way its claimants,  *)
(* deliveries and excuses change together.                                   *)
LEMMA Accounts ==
    ASSUME Known, DInv, NEW j \in Jobs,
           delivered'[j] \in Nat, excused'[j] \in Nat, excused'[j] >= excused[j],
           \/ /\ delivered'[j] = delivered[j]
              /\ Claimants(j)' \subseteq Claimants(j)
           \/ /\ delivered'[j] = delivered[j]
              /\ \E x \in Claimants(j) : \E y : Claimants(j)' \subseteq (Claimants(j) \ {x}) \cup {y}
           \/ /\ delivered'[j] = delivered[j] + 1
              /\ \E x \in Claimants(j) : Claimants(j)' \subseteq Claimants(j) \ {x}
           \/ /\ delivered'[j] = delivered[j] /\ excused'[j] = excused[j] + 1
              /\ \E y : Claimants(j)' \subseteq Claimants(j) \cup {y}
           \/ /\ delivered'[j] = delivered[j] + 1 /\ excused'[j] = excused[j] + 1
              /\ Claimants(j)' \subseteq Claimants(j)
    PROVE  Covered(j)'
<1>1. delivered[j] \in Nat /\ excused[j] \in Nat /\ IsFiniteSet(Claimants(j))
  BY BookEntries, ClaimantsFinite DEF DInv, Known
<1>2. delivered[j] + Cardinality(Claimants(j)) <= 1 + excused[j]
  BY DEF DInv, Covered
<1> DEFINE S == Claimants(j)
           T == Claimants(j)'
<1>3. Covered(j)' <=> delivered'[j] + Cardinality(T) <= 1 + excused'[j]
  BY DEF Covered
<1> HIDE DEF S, T
<1>4. \/ /\ delivered'[j] = delivered[j]
         /\ T \subseteq S
      \/ /\ delivered'[j] = delivered[j]
         /\ \E x \in S : \E y : T \subseteq (S \ {x}) \cup {y}
      \/ /\ delivered'[j] = delivered[j] + 1
         /\ \E x \in S : T \subseteq S \ {x}
      \/ /\ delivered'[j] = delivered[j] /\ excused'[j] = excused[j] + 1
         /\ \E y : T \subseteq S \cup {y}
      \/ /\ delivered'[j] = delivered[j] + 1 /\ excused'[j] = excused[j] + 1
         /\ T \subseteq S
  BY Zenon DEF S, T
<1>5. IsFiniteSet(S) /\ delivered[j] + Cardinality(S) <= 1 + excused[j]
  BY <1>1, <1>2 DEF S
<1>6. /\ Cardinality(S) \in Nat
      /\ T \subseteq S => Cardinality(T) \in Nat /\ Cardinality(T) <= Cardinality(S)
      /\ \A x \in S : \A y : T \subseteq (S \ {x}) \cup {y} =>
           Cardinality(T) \in Nat /\ Cardinality(T) <= Cardinality(S)
      /\ \A x \in S : T \subseteq S \ {x} =>
           Cardinality(T) \in Nat /\ Cardinality(T) + 1 <= Cardinality(S)
      /\ \A y : T \subseteq S \cup {y} =>
           Cardinality(T) \in Nat /\ Cardinality(T) <= Cardinality(S) + 1
  BY <1>5, Counts
<1> DEFINE d == delivered[j]
           e == excused[j]
<1>7. d \in Nat /\ e \in Nat /\ d + Cardinality(S) <= 1 + e
  BY <1>1, <1>5
<1>8. \/ delivered'[j] = d /\ Cardinality(T) \in Nat /\ Cardinality(T) <= Cardinality(S)
      \/ delivered'[j] = d + 1 /\ Cardinality(T) \in Nat /\ Cardinality(T) + 1 <= Cardinality(S)
      \/ /\ delivered'[j] = d /\ excused'[j] = e + 1
         /\ Cardinality(T) \in Nat /\ Cardinality(T) <= Cardinality(S) + 1
      \/ /\ delivered'[j] = d + 1 /\ excused'[j] = e + 1
         /\ Cardinality(T) \in Nat /\ Cardinality(T) <= Cardinality(S)
  BY <1>4, <1>6, Zenon
<1>9. excused'[j] >= e /\ excused'[j] \in Nat /\ Cardinality(S) \in Nat
  BY <1>6
<1> HIDE DEF d, e
<1> QED
  BY <1>3, <1>7, <1>8, <1>9

(* When one worker moves, the others claim and have read what they did.      *)
LEMMA OthersClaim ==
    ASSUME IInv, NEW w \in Workers, NEW state, work' = [work EXCEPT ![w] = state]
    PROVE  /\ work'[w] = state
           /\ \A v \in Workers \ {w} : \A j :
                /\ HasRead(v, j)' <=> HasRead(v, j)
                /\ Claims(v, j)' <=> Claims(v, j)
BY DEF IInv, Typed, HasRead, Claims, Told

(* So the claims on a job change by what that worker does, and by whether    *)
(* the row now waits.                                                        *)
LEMMA ClaimsChange ==
    ASSUME IInv, NEW w \in Workers, NEW state, work' = [work EXCEPT ![w] = state], NEW j
    PROVE  /\ (Claims(w, j)' => Claims(w, j)) /\ (Waits(j)' => Waits(j)) =>
                Claimants(j)' \subseteq Claimants(j)
           /\ Claims(w, j) /\ ~Claims(w, j)' =>
                /\ w \in Claimants(j)
                /\ Claimants(j)' \subseteq (Claimants(j) \ {w}) \cup {"none"}
           /\ Waits(j) /\ ~Waits(j)' =>
                /\ "none" \in Claimants(j)
                /\ Claimants(j)' \subseteq (Claimants(j) \ {"none"}) \cup {w}
           /\ Claims(w, j) /\ ~Claims(w, j)' /\ (Waits(j)' => Waits(j)) =>
                Claimants(j)' \subseteq Claimants(j) \ {w}
           /\ (Waits(j)' => Waits(j)) => Claimants(j)' \subseteq Claimants(j) \cup {w}
<1>1. \A v \in Workers \ {w} : Claims(v, j)' <=> Claims(v, j)
  BY OthersClaim
<1>2. \A x : x \in Claimants(j) <=> (x \in Workers /\ Claims(x, j)) \/ (x = "none" /\ Waits(j))
  BY DEF Claimants
<1>3. \A x : x \in Claimants(j)' <=> (x \in Workers /\ Claims(x, j)') \/ (x = "none" /\ Waits(j)')
  BY DEF Claimants, Workers
<1> QED
  BY <1>1, <1>2, <1>3, NoneIsNobody

LEMMA WaitsChange ==
    ASSUME IInv, NEW w \in Workers, NEW state, work' = [work EXCEPT ![w] = state], NEW j
    PROVE  /\ (HasRead(w, j)' <=> HasRead(w, j)) /\ (rows'[j].status = "queued" => rows[j].status = "queued")
                => (Waits(j)' => Waits(j))
           /\ HasRead(w, j)' => ~Waits(j)'
           /\ HasRead(w, j) => ~Waits(j)
<1>1. \A v \in Workers \ {w} : HasRead(v, j)' <=> HasRead(v, j)
  BY OthersClaim
<1> QED
  BY <1>1 DEF Waits, Workers

(* Claims are kept apart when one worker moves that is not new, if what it   *)
(* then holds was read once and is not for the cron.                         *)
LEMMA ApartMoved ==
    ASSUME IInv, Apart, NEW w \in Workers, NEW state, work' = [work EXCEPT ![w] = state],
           quiet' \subseteq quiet,
           \A s, t \in state.held : s.job = t.job => s = t,
           w = "cron" \/ \A s \in state.held : s.job \notin quiet',
           \A r \in Regs : regs'[r] = "new" => regs[r] = "new" /\ r # w
    PROVE  Apart'
<1>1. work'[w] = state /\ \A v \in Workers \ {w} : work'[v] = work[v]
  BY DEF IInv, Typed
<1>2. ASSUME NEW j \in quiet', NEW v \in Workers \ {"cron"} PROVE ~HasRead(v, j)'
  <2>1. CASE v = w
    BY <1>1, <1>2, <2>1 DEF HasRead
  <2>2. CASE v # w
    <3>1. ~HasRead(v, j)
      BY <1>2 DEF Apart
    <3> QED
      BY <1>1, <2>2, <3>1 DEF HasRead
  <2> QED
    BY <2>1, <2>2
<1>3. \A v \in Workers : \A s, t \in work'[v].held : s.job = t.job => s = t
  BY <1>1 DEF Apart
<1>4. \A r \in Regs : regs'[r] = "new" => work'[r] = Idle
  BY <1>1 DEF Apart, Workers
<1>5. IsFiniteSet(Busy')
  <2>1. Busy' \subseteq Busy \cup {w}
    BY <1>1 DEF Busy, Workers
  <2>2. IsFiniteSet(Busy \cup {w})
    BY FS_AddElement DEF Apart
  <2> QED
    BY <2>1, <2>2, FS_Subset
<1> QED
  BY <1>2, <1>3, <1>4, <1>5 DEF Apart, Workers

(* A worker that goes on with part of what it holds, or with all of it.      *)
LEMMA ApartHeld ==
    ASSUME IInv, Apart, NEW w \in Workers, NEW state, work' = [work EXCEPT ![w] = state],
           quiet' \subseteq quiet, regs' = regs, work[w].pc # "idle",
           state.held \subseteq work[w].held
    PROVE  Apart'
<1>1. \A s, t \in state.held : s.job = t.job => s = t
  BY DEF Apart
<1>2. w = "cron" \/ \A s \in state.held : s.job \notin quiet'
  BY DEF Apart, HasRead
<1>3. \A r \in Regs : regs'[r] = "new" => regs[r] = "new" /\ r # w
  BY DEF Apart, Idle
<1> QED
  BY <1>1, <1>2, <1>3, ApartMoved

LEMMA BooksSame ==
    ASSUME IInv, IInv', Books, Jobs' = Jobs, UNCHANGED <<delivered, excused>>
    PROVE  Books'
<1>1. Jobs = 1 .. Len(rows) /\ Len(rows) \in Nat /\ Jobs' = 1 .. Len(rows') /\ Len(rows') \in Nat
  BY JobsAre, LenProperties DEF IInv, Typed, Jobs
<1>2. Len(rows') = Len(rows)
  BY <1>1
<1> QED
  BY <1>2 DEF Books

(* Nobody moves, and no row is queued that was not.                          *)
LEMMA UnmovedCovers ==
    ASSUME Known, IInv', DInv, work' = work, UNCHANGED <<delivered, excused>>, Jobs' = Jobs,
           \A j \in Jobs : rows'[j].status = "queued" => rows[j].status = "queued"
    PROVE  Books' /\ \A j \in Jobs' : Covered(j)'
<1>1. ASSUME NEW j \in Jobs PROVE Covered(j)'
  <2>1. Claimants(j)' \subseteq Claimants(j)
    BY DEF Claimants, Claims, Waits, HasRead, Told, Workers
  <2>2. delivered[j] \in Nat /\ excused[j] \in Nat
    BY BookEntries DEF DInv
  <2>3. delivered'[j] = delivered[j] /\ excused'[j] = excused[j] /\ excused'[j] >= excused[j]
    BY <2>2
  <2> QED
    BY <2>1, <2>2, <2>3, Accounts
<1> QED
  BY <1>1, BooksSame DEF DInv, Known

(* A worker that held nothing still holds nothing, and reuses no job.        *)
LEMMA EmptyCovers ==
    ASSUME Known, IInv', DInv, NEW w \in Workers, NEW state, work' = [work EXCEPT ![w] = state],
           work[w].held = {}, state.held = {}, state.pc # "reuse",
           UNCHANGED <<rows, delivered, excused>>
    PROVE  Books' /\ \A j \in Jobs' : Covered(j)'
<1>1. work'[w] = state /\ Jobs' = Jobs
  BY DEF Known, IInv, Typed, Jobs
<1>2. ASSUME NEW j \in Jobs PROVE Covered(j)'
  <2>1. ~HasRead(w, j) /\ ~HasRead(w, j)' /\ ~Claims(w, j)'
    BY <1>1 DEF HasRead, Claims
  <2>2. Claimants(j)' \subseteq Claimants(j)
    BY <2>1, ClaimsChange, WaitsChange DEF Known
  <2>3. delivered[j] \in Nat /\ excused[j] \in Nat
    BY BookEntries DEF DInv
  <2>4. delivered'[j] = delivered[j] /\ excused'[j] = excused[j] /\ excused'[j] >= excused[j]
    BY <2>3
  <2> QED
    BY <2>2, <2>3, <2>4, Accounts
<1> QED
  BY <1>1, <1>2, BooksSame DEF DInv, Known

LEMMA SubmitCovers == ASSUME Known, IInv', DInv, NEW r \in Regs, Submit(r) PROVE DInv'
<1> DEFINE state == [Idle EXCEPT !.pc = "count", !.reg = r]
<1>1. r \in Workers /\ work' = [work EXCEPT ![r] = state] /\ UNCHANGED <<rows, delivered, excused, quiet>>
  BY DEF Submit, Sets, Workers, jobVars, history
<1>2. work[r] = Idle /\ work[r].held = {}
  <2>1. work[r] = Idle
    BY DEF DInv, Apart, Submit
  <2> QED
    BY <2>1, IdleIs
<1>3. state.held = {} /\ state.pc = "count"
  BY DEF Idle
<1>4. \A q \in Regs : regs'[q] = "new" => regs[q] = "new" /\ q # r
  BY DEF Submit, Known, Around
<1> HIDE DEF state
<1>5. Apart'
  BY <1>1, <1>3, <1>4, ApartMoved DEF Known, DInv
<1>6. Books' /\ \A j \in Jobs' : Covered(j)'
  BY <1>1, <1>2, <1>3, EmptyCovers
<1> QED
  BY <1>5, <1>6 DEF DInv

LEMMA CountCovers == ASSUME Known, IInv', DInv, NEW r \in Regs, CountRecipient(r) PROVE DInv'
<1> DEFINE next == [work[r] EXCEPT !.pc = "create"]
<1>1. r \in Workers /\ work[r] \in WorkSet /\ work[r].pc = "count" /\ work[r].held = {}
  BY DEF Known, IInv, Typed, Shape, Workers, CountRecipient
<1>2. next.pc = "create" /\ next.held = {} /\ Idle.pc = "idle" /\ Idle.held = {}
  BY <1>1 DEF WorkSet, Idle
<1>3. \/ work' = [work EXCEPT ![r] = next]
      \/ work' = [work EXCEPT ![r] = Idle]
  BY DEF CountRecipient, Sets
<1>4. UNCHANGED <<rows, delivered, excused, quiet, regs>>
  BY DEF CountRecipient, jobVars, history
<1> HIDE DEF next
<1>5. Apart'
  BY <1>1, <1>2, <1>3, <1>4, ApartHeld DEF Known, DInv
<1>6. Books' /\ \A j \in Jobs' : Covered(j)'
  BY <1>1, <1>2, <1>3, <1>4, EmptyCovers
<1> QED
  BY <1>5, <1>6 DEF DInv

LEMMA ResendCovers ==
    ASSUME Known, IInv', DInv, NEW a \in Admins, NEW r \in Regs, Resend(a, r) PROVE DInv'
<1>1. /\ a \in Workers /\ a \notin Regs /\ work[a] = Idle /\ work[a].held = {} /\ work[a].pc = "idle"
      /\ UNCHANGED <<rows, delivered, quiet, regs>>
  <2>1. work[a] = Idle /\ UNCHANGED <<rows, delivered, quiet, regs>>
    BY DEF Resend, jobVars
  <2> QED
    BY <2>1, IdleIs, EmailAssumption DEF Workers
<1>2. CASE Sets(a, [Idle EXCEPT !.pc = "create", !.reg = r]) /\ UNCHANGED excused
  <2> DEFINE state == [Idle EXCEPT !.pc = "create", !.reg = r]
  <2>1. work' = [work EXCEPT ![a] = state] /\ state.held = {} /\ state.pc = "create"
    BY <1>2 DEF Sets, Idle
  <2> HIDE DEF state
  <2>2. Apart'
    BY <1>1, <2>1, ApartMoved DEF Known, DInv
  <2>3. Books' /\ \A j \in Jobs' : Covered(j)'
    BY <1>1, <1>2, <2>1, EmptyCovers
  <2> QED
    BY <2>2, <2>3 DEF DInv
<1>3. ASSUME NEW i \in LatestQueued(r),
             Sets(a, [Idle EXCEPT !.pc = "reuse", !.reg = r, !.now = Snapshot(i)]),
             excused' = [excused EXCEPT ![i] = @ + 1]
      PROVE  DInv'
  <2> DEFINE state == [Idle EXCEPT !.pc = "reuse", !.reg = r, !.now = Snapshot(i)]
  <2>1. work' = [work EXCEPT ![a] = state] /\ state.held = {} /\ state.pc = "reuse" /\ state.now.job = i
    BY <1>3 DEF Sets, Idle, Snapshot
  <2> HIDE DEF state
  <2>2. Apart'
    BY <1>1, <2>1, ApartMoved DEF Known, DInv
  <2>3. i \in Jobs /\ Jobs' = Jobs /\ Jobs = 1 .. Len(rows) /\ work'[a] = state
    BY <1>1, <2>1, JobsAre DEF LatestQueued, JobsOf, Jobs, Known, IInv, Typed
  <2>4. \A j \in Jobs : delivered[j] \in Nat /\ excused[j] \in Nat
    BY BookEntries DEF DInv
  <2>5. /\ excused' \in Seq(Nat) /\ Len(excused') = Len(rows)
        /\ \A j \in Jobs : excused'[j] = IF j = i THEN excused[i] + 1 ELSE excused[j]
    <3>1. excused \in Seq(Nat) /\ Len(excused) = Len(rows) /\ i \in 1 .. Len(excused) /\ excused[i] + 1 \in Nat
      BY <2>3, <2>4 DEF DInv, Books
    <3> QED
      BY <1>3, <2>3, <3>1, ExceptSeq
  <2>6. Books'
    BY <1>1, <2>5 DEF DInv, Books
  <2>7. ASSUME NEW j \in Jobs PROVE Covered(j)'
    <3>1. ~HasRead(a, j) /\ ~HasRead(a, j)' /\ (Claims(a, j)' => j = i)
      BY <1>1, <2>1, <2>3 DEF HasRead, Claims
    <3>2. /\ Claimants(j)' \subseteq Claimants(j) \cup {a}
          /\ j # i => Claimants(j)' \subseteq Claimants(j)
      BY <1>1, <2>1, <3>1, ClaimsChange, WaitsChange DEF Known
    <3>3. delivered'[j] = delivered[j] /\ delivered[j] \in Nat /\ excused'[j] \in Nat /\ excused'[j] >= excused[j]
      BY <1>1, <2>4, <2>5
    <3>4. CASE j = i
      <4>1. excused'[j] = excused[j] + 1
        BY <2>5, <3>4
      <4> QED
        BY <3>2, <3>3, <4>1, Accounts
    <3>5. CASE j # i
      BY <3>2, <3>3, <3>5, Accounts
    <3> QED
      BY <3>4, <3>5
  <2> QED
    BY <2>2, <2>3, <2>6, <2>7 DEF DInv
<1> QED
  BY <1>2, <1>3 DEF Resend

LEMMA CreateCovers == ASSUME Known, IInv', DInv, NEW w \in Workers, CreateJob(w) PROVE DInv'
<1>1. work[w].pc = "create" /\ work[w].held = {} /\ regs' = regs
  BY DEF CreateJob, Known, Shape
<1>2. CASE Sets(w, Idle) /\ UNCHANGED <<jobVars, history>>
  <2>1. work' = [work EXCEPT ![w] = Idle] /\ UNCHANGED <<rows, delivered, excused, quiet>>
    BY <1>2 DEF Sets, jobVars, history
  <2>2. Apart'
    BY <1>1, <2>1, IdleIs, ApartHeld DEF Known, DInv
  <2>3. Books' /\ \A j \in Jobs' : Covered(j)'
    BY <1>1, <2>1, IdleIs, EmptyCovers
  <2> QED
    BY <2>2, <2>3 DEF DInv
<1>3. CASE Creates(w, work[w].reg)
  <2>0. PICK n \in Nat : n = Len(rows) + 1
    BY JobsAre DEF Known, IInv
  <2> DEFINE new == [job |-> n, reg |-> work[w].reg, attempts |-> 0]
             state == [Idle EXCEPT !.pc = "send", !.held = {new}]
  <2>1. /\ Jobs = 1 .. Len(rows) /\ n \in Nat
        /\ Jobs' = Jobs \cup {n} /\ n \notin Jobs
        /\ \A i \in Jobs : rows'[i] = rows[i]
    BY <1>3, <2>0, JobCreated DEF Known
  <2>2. /\ work' = [work EXCEPT ![w] = state] /\ quiet' = quiet
        /\ delivered' = Append(delivered, 0) /\ excused' = Append(excused, 0)
    BY <1>3, <2>0 DEF Creates, Sets
  <2>3. state.pc = "send" /\ state.held = {new} /\ new.job = n
    BY DEF Idle
  <2>4. Len(rows') = n
    BY <1>3, <2>0, AppendProperties DEF Creates, Known, IInv, Typed
  <2> HIDE DEF state, new
  <2>5. \A s \in state.held : s.job \notin quiet'
    BY <2>1, <2>2, <2>3 DEF Known, Order
  <2>6. \A r \in Regs : regs'[r] = "new" => regs[r] = "new" /\ r # w
    BY <1>1, IdleIs DEF DInv, Apart
  <2>7. Apart'
    BY <2>2, <2>3, <2>5, <2>6, ApartMoved DEF Known, DInv
  <2>8. /\ delivered' \in Seq(Nat) /\ Len(delivered') = n /\ delivered'[n] = 0
        /\ \A j \in Jobs : delivered'[j] = delivered[j]
    <3>1. delivered \in Seq(Nat) /\ Len(delivered) = Len(rows) /\ 0 \in Nat
      BY DEF DInv, Books
    <3> QED
      BY <2>0, <2>1, <2>2, <3>1, AppendProperties
  <2>9. /\ excused' \in Seq(Nat) /\ Len(excused') = n /\ excused'[n] = 0
        /\ \A j \in Jobs : excused'[j] = excused[j]
    <3>1. excused \in Seq(Nat) /\ Len(excused) = Len(rows) /\ 0 \in Nat
      BY DEF DInv, Books
    <3> QED
      BY <2>0, <2>1, <2>2, <3>1, AppendProperties
  <2>10. Books'
    BY <2>4, <2>8, <2>9 DEF Books
  <2>11. work'[w] = state
    BY <2>2, OthersClaim DEF Known
  <2>12. ASSUME NEW j \in Jobs PROVE Covered(j)'
    <3>1. ~HasRead(w, j) /\ ~HasRead(w, j)' /\ ~Claims(w, j)'
      BY <1>1, <2>1, <2>3, <2>11 DEF HasRead, Claims
    <3>2. Claimants(j)' \subseteq Claimants(j)
      BY <2>1, <2>2, <3>1, ClaimsChange, WaitsChange DEF Known
    <3>3. delivered[j] \in Nat /\ excused[j] \in Nat
      BY BookEntries DEF DInv
    <3>4. delivered'[j] = delivered[j] /\ excused'[j] = excused[j] /\ excused'[j] >= excused[j]
      BY <2>8, <2>9, <3>3
    <3> QED
      BY <3>2, <3>3, <3>4, Accounts
  <2>13. Covered(n)'
    <3>1. ASSUME NEW v \in Workers \ {w} PROVE ~Claims(v, n)
      BY <2>1 DEF Known, IInv, WorkerOK, SnapOK, Claims, HasRead
    <3>2. \A v \in Workers \ {w} : ~Claims(v, n)'
      BY <2>2, <3>1, OthersClaim DEF Known
    <3>3. ~Waits(n)'
      <4>1. HasRead(w, n)'
        BY <2>3, <2>11 DEF HasRead
      <4> QED
        BY <2>2, <4>1, WaitsChange DEF Known
    <3>4. Claimants(n)' \subseteq {w}
      BY <3>2, <3>3 DEF Claimants, Workers
    <3> DEFINE T == Claimants(n)'
    <3>5. IsFiniteSet({w}) /\ Cardinality({w}) = 1
      BY FS_Singleton
    <3>6. Cardinality(T) \in Nat /\ Cardinality(T) <= 1
      BY <3>4, <3>5, FS_Subset, FS_CardinalityType
    <3>7. Covered(n)' <=> delivered'[n] + Cardinality(T) <= 1 + excused'[n]
      BY <2>1 DEF Covered
    <3> HIDE DEF T
    <3> QED
      BY <2>8, <2>9, <3>6, <3>7
  <2> QED
    BY <2>1, <2>7, <2>10, <2>12, <2>13 DEF DInv
<1> QED
  BY <1>2, <1>3 DEF CreateJob

(* The cron takes over the claim of every waiting row it reads.              *)
LEMMA RetriesCover == ASSUME Known, IInv', DInv, StartRetries PROVE DInv'
<1> DEFINE state == [Idle EXCEPT !.pc = "send", !.held = {Snapshot(j) : j \in DueJobs}]
<1>1. /\ "cron" \in Workers /\ work' = [work EXCEPT !["cron"] = state]
      /\ UNCHANGED <<rows, delivered, excused, quiet, regs>>
  BY DEF StartRetries, Sets, Workers, jobVars, history
<1>2. work["cron"].pc = "idle" /\ work["cron"].held = {}
  <2>1. work["cron"] = Idle
    BY DEF StartRetries
  <2> QED
    BY <2>1, IdleIs
<1>3. state.pc = "send" /\ state.held = {Snapshot(j) : j \in DueJobs}
  BY DEF Idle
<1> HIDE DEF state
<1>4. \A j : Snapshot(j).job = j
  BY DEF Snapshot
<1>5. \A s, t \in state.held : s.job = t.job => s = t
  BY <1>3, <1>4
<1>6. Apart'
  BY <1>1, <1>5, NoneIsNobody, ApartMoved DEF Known, DInv
<1>7. Jobs' = Jobs /\ work'["cron"] = state
  BY <1>1, OthersClaim DEF Jobs, Known
<1>8. ASSUME NEW j \in Jobs PROVE Covered(j)'
  <2>1. delivered[j] \in Nat /\ excused[j] \in Nat
    BY BookEntries DEF DInv
  <2>2. /\ delivered'[j] = delivered[j] /\ delivered'[j] \in Nat
        /\ excused'[j] >= excused[j] /\ excused'[j] \in Nat
    BY <1>1, <2>1
  <2>3. ~HasRead("cron", j)
    BY <1>2 DEF HasRead
  <2>4. CASE j \in DueJobs
    <3>1. Waits(j)
      <4>1. rows[j].status = "queued" /\ j \in quiet
        BY <2>4 DEF DueJobs, FindQueued, Queued
      <4>2. \A v \in Workers \ {"cron"} : ~HasRead(v, j)
        BY <4>1 DEF DInv, Apart
      <4> QED
        BY <2>3, <4>1, <4>2 DEF Waits
    <3>2. ~Waits(j)'
      <4>1. HasRead("cron", j)'
        BY <1>3, <1>4, <1>7, <2>4 DEF HasRead
      <4> QED
        BY <1>1, <4>1, WaitsChange DEF Known
    <3>3. /\ "none" \in Claimants(j)
          /\ Claimants(j)' \subseteq (Claimants(j) \ {"none"}) \cup {"cron"}
      BY <1>1, <3>1, <3>2, ClaimsChange DEF Known
    <3> QED
      BY <2>2, <3>3, Accounts
  <2>5. CASE j \notin DueJobs
    <3>1. ~HasRead("cron", j)' /\ ~Claims("cron", j)'
      BY <1>3, <1>4, <1>7, <2>5 DEF HasRead, Claims
    <3>2. Claimants(j)' \subseteq Claimants(j)
      BY <1>1, <2>3, <3>1, ClaimsChange, WaitsChange DEF Known
    <3> QED
      BY <2>2, <3>2, Accounts
  <2> QED
    BY <2>4, <2>5
<1> QED
  BY <1>1, <1>6, <1>7, <1>8, BooksSame DEF DInv, Known

LEMMA ReuseCovers == ASSUME Known, IInv', DInv, NEW a \in Workers, ReuseJob(a) PROVE DInv'
<1> DEFINE i == work[a].now.job
<1>1. /\ work[a].pc = "reuse" /\ work[a].held = {} /\ i \in Jobs
      /\ UNCHANGED <<regs, delivered, excused>>
  BY DEF ReuseJob, Known, Shape, IInv, WorkerOK, history
<1>2. CASE Sets(a, Idle) /\ UNCHANGED jobVars
  <2>1. work' = [work EXCEPT ![a] = Idle] /\ UNCHANGED <<rows, quiet>>
    BY <1>2 DEF Sets, jobVars
  <2>2. Apart'
    BY <1>1, <2>1, IdleIs, ApartHeld DEF Known, DInv
  <2>3. Books' /\ \A j \in Jobs' : Covered(j)'
    BY <1>1, <2>1, IdleIs, EmptyCovers
  <2> QED
    BY <2>2, <2>3 DEF DInv
<1>3. ASSUME Updates(i, [rows[i] EXCEPT !.status = "queued", !.attempts = 0]),
             Sets(a, [Idle EXCEPT !.pc = "send", !.held = {[Snapshot(i) EXCEPT !.attempts = 0]}])
      PROVE  DInv'
  <2> DEFINE new == [Snapshot(i) EXCEPT !.attempts = 0]
             state == [Idle EXCEPT !.pc = "send", !.held = {new}]
  <2>1. new.job = i
    BY DEF Snapshot
  <2>2. state.pc = "send" /\ state.held = {new} /\ work' = [work EXCEPT ![a] = state]
    BY <1>3 DEF Idle, Sets
  <2>3. quiet' = quiet \ {i} /\ Jobs' = Jobs /\ \A j \in Jobs \ {i} : rows'[j] = rows[j]
    BY <1>3 DEF Updates, Jobs, Known, IInv, Typed
  <2> HIDE DEF state, new
  <2>4. \A r \in Regs : regs'[r] = "new" => regs[r] = "new" /\ r # a
    BY <1>1, IdleIs DEF DInv, Apart
  <2>5. Apart'
    BY <2>1, <2>2, <2>3, <2>4, ApartMoved DEF Known, DInv
  <2>6. work'[a] = state
    BY <2>2, OthersClaim DEF Known
  <2>7. ASSUME NEW j \in Jobs PROVE Covered(j)'
    <3>1. delivered[j] \in Nat /\ excused[j] \in Nat
      BY BookEntries DEF DInv
    <3>2. delivered'[j] = delivered[j] /\ excused'[j] = excused[j] /\ excused'[j] >= excused[j]
      BY <1>1, <3>1
    <3>3. Claimants(j)' \subseteq Claimants(j)
      <4>1. HasRead(a, j)' <=> j = i
        BY <2>1, <2>2, <2>6 DEF HasRead
      <4>2. ~HasRead(a, j)
        BY <1>1 DEF HasRead
      <4>3. Claims(a, j)' => Claims(a, j)
        BY <1>1, <2>2, <2>6, <4>1 DEF Claims
      <4>4. Waits(j)' => Waits(j)
        BY <2>2, <2>3, <4>1, <4>2, WaitsChange DEF Known
      <4> QED
        BY <2>2, <4>3, <4>4, ClaimsChange DEF Known
    <3> QED
      BY <3>1, <3>2, <3>3, Accounts
  <2> QED
    BY <1>1, <2>3, <2>5, <2>7, BooksSame DEF DInv, Known
<1> QED
  BY <1>2, <1>3 DEF ReuseJob

(* The attempt on s is over. Its claim goes back to the row, unless it was   *)
(* given up with the delivery: then the row no longer says "queued".         *)
LEMMA MovesCover ==
    ASSUME Known, IInv', DInv, NEW w \in Workers, NEW s \in work[w].held, Moves(w, s),
           work[w].pc = "save" => work[w].now = s,
           UNCHANGED <<regs, delivered, excused>>, quiet' \subseteq quiet, Jobs' = Jobs,
           \A j \in Jobs \ {s.job} : rows'[j] = rows[j],
           work[w].pc = "save" /\ work[w].ok => rows'[s.job].status # "queued"
    PROVE  DInv'
<1> DEFINE state == IF work[w].held = {s} THEN Idle
                    ELSE [work[w] EXCEPT !.pc = "send", !.held = @ \ {s}, !.now = NoRow, !.ok = FALSE]
<1>1. work[w] \in WorkSet /\ work[w].pc \in {"send", "save"}
  BY DEF Known, IInv, Typed, Shape
<1>2. work' = [work EXCEPT ![w] = state]
  BY DEF Moves, Sets
<1>3. state.held = work[w].held \ {s} /\ state.pc \in {"idle", "send"}
  BY <1>1 DEF Idle, WorkSet
<1> HIDE DEF state
<1>4. Apart'
  BY <1>1, <1>2, <1>3, ApartHeld DEF Known, DInv
<1>5. work'[w] = state
  BY <1>2, OthersClaim DEF Known
<1>6. ASSUME NEW j \in Jobs PROVE Covered(j)'
  <2>1. delivered[j] \in Nat /\ excused[j] \in Nat
    BY BookEntries DEF DInv
  <2>2. delivered'[j] = delivered[j] /\ excused'[j] = excused[j] /\ excused'[j] >= excused[j]
    BY <2>1
  <2>3. Claims(w, j)' <=> HasRead(w, j)'
    BY <1>3, <1>5 DEF Claims, HasRead, Told
  <2>4. CASE j = s.job
    <3>1. ~HasRead(w, j)'
      BY <1>3, <1>5, <2>4 DEF HasRead, DInv, Apart
    <3>2. CASE work[w].pc = "save" /\ work[w].ok
      <4>1. rows'[j].status # "queued"
        BY <2>4, <3>2
      <4>2. ~Waits(j)'
        BY <4>1 DEF Waits
      <4>3. Claimants(j)' \subseteq Claimants(j)
        BY <1>2, <2>3, <3>1, <4>2, ClaimsChange DEF Known
      <4> QED
        BY <2>1, <2>2, <4>3, Accounts
    <3>3. CASE ~(work[w].pc = "save" /\ work[w].ok)
      <4>1. Claims(w, j)
        BY <2>4, <3>3 DEF Claims, HasRead, Told
      <4>2. /\ w \in Claimants(j)
            /\ Claimants(j)' \subseteq (Claimants(j) \ {w}) \cup {"none"}
        BY <1>2, <2>3, <3>1, <4>1, ClaimsChange DEF Known
      <4> QED
        BY <2>1, <2>2, <4>2, Accounts
    <3> QED
      BY <3>2, <3>3
  <2>5. CASE j # s.job
    <3>1. HasRead(w, j)' <=> HasRead(w, j)
      BY <1>3, <1>5, <2>5 DEF HasRead
    <3>2. Claims(w, j) <=> HasRead(w, j)
      BY <1>1, <2>5 DEF Claims, Told
    <3>3. Claimants(j)' \subseteq Claimants(j)
      BY <1>2, <2>3, <2>5, <3>1, <3>2, ClaimsChange, WaitsChange DEF Known
    <3> QED
      BY <2>1, <2>2, <3>3, Accounts
  <2> QED
    BY <2>4, <2>5
<1> QED
  BY <1>4, <1>6, BooksSame DEF DInv, Known

(* What writing a row leaves alone.                                          *)
LEMMA UpdatesOne ==
    ASSUME IInv, NEW i, NEW row, Updates(i, row) \/ UNCHANGED jobVars
    PROVE  /\ quiet' \subseteq quiet /\ Jobs' = Jobs
           /\ \A j \in Jobs \ {i} : rows'[j] = rows[j]
           /\ i \in Jobs /\ Updates(i, row) => rows'[i] = row
BY DEF IInv, Typed, Updates, Jobs, jobVars

LEMMA SkipCovers == ASSUME Known, IInv', DInv, NEW w \in Workers, SkipJob(w) PROVE DInv'
<1>1. PICK s \in work[w].held :
        /\ \/ Updates(s.job, [rows[s.job] EXCEPT !.status = "failed", !.attempts = s.attempts])
           \/ UNCHANGED jobVars
        /\ Moves(w, s)
  BY DEF SkipJob
<1>2. work[w].pc = "send" /\ UNCHANGED <<regs, delivered, excused>>
  BY DEF SkipJob, history
<1> DEFINE row == [rows[s.job] EXCEPT !.status = "failed", !.attempts = s.attempts]
<1>3. Updates(s.job, row) \/ UNCHANGED jobVars
  BY <1>1
<1> HIDE DEF row
<1>4. quiet' \subseteq quiet /\ Jobs' = Jobs /\ \A j \in Jobs \ {s.job} : rows'[j] = rows[j]
  BY <1>3, UpdatesOne DEF Known
<1> QED
  BY <1>1, <1>2, <1>4, MovesCover

LEMMA SaveCovers == ASSUME Known, IInv', DInv, NEW w \in Workers, SaveOutcome(w) PROVE DInv'
<1>1. PICK s \in work[w].held : s = work[w].now
  BY DEF SaveOutcome, Known, IInv, WorkerOK
<1> DEFINE next == NextJobState(s.attempts, work[w].ok)
           row == [reg |-> rows[s.job].reg, status |-> next.status, attempts |-> next.attempts]
<1>2. /\ work[w].pc = "save" /\ UNCHANGED <<regs, delivered, excused>> /\ Moves(w, s)
      /\ IF Stored(s.job) THEN Updates(s.job, row) ELSE UNCHANGED jobVars
  BY <1>1 DEF SaveOutcome, history
<1>3. s.job \in Jobs
  BY Holds DEF Known, SnapOK
<1>4. work[w].ok => row.status = "sent"
  BY DEF NextJobState
<1> HIDE DEF row, next
<1>5. quiet' \subseteq quiet /\ Jobs' = Jobs /\ \A j \in Jobs \ {s.job} : rows'[j] = rows[j]
  BY <1>2, UpdatesOne DEF Known
<1>6. work[w].ok => rows'[s.job].status # "queued"
  <2>1. CASE Stored(s.job)
    BY <1>2, <1>3, <1>4, <2>1, UpdatesOne DEF Known
  <2>2. CASE ~Stored(s.job)
    BY <1>2, <2>2 DEF Stored, jobVars
  <2> QED
    BY <2>1, <2>2
<1> QED
  BY <1>1, <1>2, <1>5, <1>6, MovesCover

(* A delivery uses the claim up; one whose answer is lost is excused.        *)
LEMMA SendCovers == ASSUME Known, IInv', DInv, NEW w \in Workers, Send(w) PROVE DInv'
<1>1. PICK s \in work[w].held, ok \in BOOLEAN :
        /\ IF ok THEN Delivered(s) ELSE Refused(s) \/ AnswerLost(s)
        /\ work' = [work EXCEPT ![w] = [work[w] EXCEPT !.pc = "save", !.now = s, !.ok = ok]]
        /\ work[w].pc = "send" /\ UNCHANGED <<regs, rows, quiet>>
  BY DEF Send, Sets, jobVars
<1> DEFINE state == [work[w] EXCEPT !.pc = "save", !.now = s, !.ok = ok]
<1>2. work[w] \in WorkSet /\ s.job \in Jobs
  BY Holds DEF Known, IInv, Typed, SnapOK
<1>3. state.pc = "save" /\ state.held = work[w].held /\ state.now = s /\ state.ok = ok
  BY <1>2 DEF WorkSet
<1>4. work' = [work EXCEPT ![w] = state]
  BY <1>1
<1> HIDE DEF state
<1>5. Apart'
  BY <1>1, <1>3, <1>4, ApartHeld DEF Known, DInv
<1>6. work'[w] = state /\ Jobs' = Jobs /\ Jobs = 1 .. Len(rows) /\ Len(rows') = Len(rows)
  BY <1>1, <1>4, OthersClaim, JobsAre DEF Jobs, Known, IInv
<1>7. \A j \in Jobs : delivered[j] \in Nat /\ excused[j] \in Nat
  BY BookEntries DEF DInv
<1> DEFINE Plus(c, d) == /\ d \in Seq(Nat) /\ Len(d) = Len(rows)
                         /\ \A j \in Jobs : d[j] = IF j = s.job THEN c[j] + 1 ELSE c[j]
<1>8. ASSUME delivered' = [delivered EXCEPT ![s.job] = @ + 1] PROVE Plus(delivered, delivered')
  <2>1. /\ delivered \in Seq(Nat) /\ Len(delivered) = Len(rows) /\ s.job \in 1 .. Len(delivered)
        /\ delivered[s.job] + 1 \in Nat
    BY <1>2, <1>6, <1>7 DEF DInv, Books
  <2> QED
    BY <1>6, <1>8, <2>1, ExceptSeq
<1>9. ASSUME excused' = [excused EXCEPT ![s.job] = @ + 1] PROVE Plus(excused, excused')
  <2>1. /\ excused \in Seq(Nat) /\ Len(excused) = Len(rows) /\ s.job \in 1 .. Len(excused)
        /\ excused[s.job] + 1 \in Nat
    BY <1>2, <1>6, <1>7 DEF DInv, Books
  <2> QED
    BY <1>6, <1>9, <2>1, ExceptSeq
<1>10. /\ delivered' = delivered \/ Plus(delivered, delivered')
       /\ excused' = excused \/ (Plus(delivered, delivered') /\ Plus(excused, excused'))
       /\ ok => Plus(delivered, delivered') /\ excused' = excused
       /\ ~ok => \/ delivered' = delivered /\ excused' = excused
                 \/ Plus(delivered, delivered') /\ Plus(excused, excused')
  BY <1>1, <1>8, <1>9 DEF Delivered, Refused, AnswerLost
<1>11. Books'
  BY <1>6, <1>10 DEF DInv, Books
<1>12. ASSUME NEW j \in Jobs PROVE Covered(j)'
  <2>1. HasRead(w, j)' <=> HasRead(w, j)
    BY <1>3, <1>6 DEF HasRead
  <2>2. Waits(j)' => Waits(j)
    BY <1>1, <1>4, <2>1, WaitsChange DEF Known
  <2>3. Claims(w, j) <=> HasRead(w, j)
    BY <1>1 DEF Claims, Told
  <2>4. Claims(w, j)' <=> HasRead(w, j) /\ ~(ok /\ j = s.job)
    BY <1>3, <1>6, <2>1 DEF Claims, Told
  <2>5. Claimants(j)' \subseteq Claimants(j)
    BY <1>4, <2>2, <2>3, <2>4, ClaimsChange DEF Known
  <2>6. /\ delivered[j] \in Nat /\ excused[j] \in Nat
        /\ delivered'[j] \in Nat /\ excused'[j] \in Nat /\ excused'[j] >= excused[j]
    BY <1>7, <1>10
  <2>7. CASE j # s.job
    <3>1. delivered'[j] = delivered[j]
      BY <1>10, <2>7
    <3> QED
      BY <2>5, <2>6, <3>1, Accounts
  <2>8. CASE j = s.job /\ ok
    <3>1. HasRead(w, j)
      BY <2>8 DEF HasRead
    <3>2. w \in Claimants(j) /\ Claimants(j)' \subseteq Claimants(j) \ {w}
      BY <1>4, <2>2, <2>3, <2>4, <2>8, <3>1, ClaimsChange DEF Known
    <3>3. delivered'[j] = delivered[j] + 1
      BY <1>10, <2>8
    <3> QED
      BY <2>6, <3>2, <3>3, Accounts
  <2>9. CASE j = s.job /\ ~ok
    <3>1. \/ delivered'[j] = delivered[j]
          \/ delivered'[j] = delivered[j] + 1 /\ excused'[j] = excused[j] + 1
      BY <1>10, <2>9
    <3> QED
      BY <2>5, <2>6, <3>1, Accounts
  <2> QED
    BY <2>7, <2>8, <2>9
<1> QED
  BY <1>5, <1>6, <1>11, <1>12 DEF DInv

(* A restart lets go of every row. Where one was read, its claim goes back   *)
(* to the row; where all who had read it had been told of a delivery, one of *)
(* them is the excuse for the next.                                          *)
LEMMA RestartCovers == ASSUME Known, IInv', DInv, Restart PROVE DInv'
<1> DEFINE Savers(j) == {w \in Workers : Told(w, j)}
<1>1. /\ work' = [w \in Workers |-> Idle] /\ UNCHANGED <<regs, rows, quiet, delivered>>
      /\ excused' = [j \in Jobs |-> excused[j] + Cardinality(Savers(j))]
  BY DEF Restart, jobVars, Told
<1>2. \A w \in Workers : work'[w].held = {} /\ work'[w].pc = "idle"
  BY <1>1, IdleIs
<1>3. Apart'
  <2>1. \A v \in Workers : \A j : ~HasRead(v, j)'
    BY <1>2 DEF HasRead
  <2>2. Busy' = {}
    BY <1>2 DEF Busy, Workers
  <2>3. \A r \in Regs : regs'[r] = "new" => work'[r] = Idle
    BY <1>1 DEF Workers
  <2> QED
    BY <1>2, <2>1, <2>2, <2>3, FS_EmptySet DEF Apart, Workers
<1>4. Jobs' = Jobs /\ Jobs = 1 .. Len(rows) /\ Len(rows) \in Nat
  BY <1>1, JobsAre DEF Jobs, Known, IInv
<1>5. \A j \in Jobs : delivered[j] \in Nat /\ excused[j] \in Nat
  BY BookEntries DEF DInv
<1>6. ASSUME NEW j \in Jobs
      PROVE  /\ IsFiniteSet(Savers(j)) /\ Cardinality(Savers(j)) \in Nat
             /\ Savers(j) # {} => Cardinality(Savers(j)) >= 1
  <2>1. Savers(j) \subseteq Busy
    BY DEF Told, Busy
  <2>2. IsFiniteSet(Savers(j))
    BY <2>1, FS_Subset DEF DInv, Apart
  <2> HIDE DEF Savers
  <2>3. Cardinality(Savers(j)) \in Nat
    BY <2>2, FS_CardinalityType
  <2>4. Cardinality(Savers(j)) = 0 <=> Savers(j) = {}
    BY <2>2, FS_EmptySet
  <2> QED
    BY <2>2, <2>3, <2>4
<1>7. Books'
  <2>1. \A j \in Jobs : excused[j] + Cardinality(Savers(j)) \in Nat
    <3> HIDE DEF Savers
    <3> QED
      BY <1>5, <1>6
  <2>2. excused' \in [1 .. Len(rows) -> Nat]
    BY <1>1, <1>4, <2>1
  <2>3. excused' \in Seq(Nat)
    BY <1>4, <2>2, SeqDef
  <2>4. DOMAIN excused' = 1 .. Len(excused') /\ Len(excused') \in Nat
    BY <2>3, LenProperties
  <2>5. 1 .. Len(excused') = 1 .. Len(rows)
    BY <2>2, <2>4
  <2>6. Len(excused') = Len(rows)
    BY <1>4, <2>4, <2>5
  <2> QED
    BY <1>1, <2>3, <2>6 DEF DInv, Books
<1>8. ASSUME NEW j \in Jobs PROVE Covered(j)'
  <2>1. \A v \in Workers : ~HasRead(v, j)' /\ ~Claims(v, j)'
    BY <1>2 DEF HasRead, Claims
  <2>2. /\ excused'[j] = excused[j] + Cardinality(Savers(j))
        /\ delivered'[j] = delivered[j]
    BY <1>1
  <2>3. Cardinality(Savers(j)) \in Nat /\ delivered[j] \in Nat /\ excused[j] \in Nat
    BY <1>5, <1>6
  <2>4. excused'[j] \in Nat /\ excused'[j] >= excused[j] /\ delivered'[j] \in Nat
    <3> HIDE DEF Savers
    <3> QED
      BY <2>2, <2>3
  <2>5. CASE Claimants(j) # {}
    <3>1. PICK x : x \in Claimants(j)
      BY <2>5
    <3>2. Claimants(j)' \subseteq {"none"}
      BY <2>1 DEF Claimants, Workers
    <3>3. Claimants(j)' \subseteq (Claimants(j) \ {x}) \cup {"none"}
      BY <3>2
    <3> QED
      BY <2>2, <2>4, <3>1, <3>3, Accounts
  <2>6. CASE Claimants(j) = {} /\ ~Waits(j)'
    <3>1. Claimants(j)' = {}
      BY <2>1, <2>6 DEF Claimants, Workers
    <3> QED
      BY <2>2, <2>4, <3>1, Accounts
  <2>7. CASE Claimants(j) = {} /\ Waits(j)'
    <3>1. rows[j].status = "queued" /\ ~Waits(j)
      BY <1>1, <2>7 DEF Waits, Claimants
    <3>2. PICK w \in Workers : HasRead(w, j)
      BY <3>1 DEF Waits
    <3>3. Told(w, j)
      BY <2>7, <3>2 DEF Claimants, Claims
    <3>4. Cardinality(Savers(j)) >= 1
      BY <1>6, <3>3
    <3>5. IsFiniteSet(Claimants(j)) /\ Cardinality(Claimants(j)) = 0
      BY <2>7, FS_EmptySet
    <3>6. delivered[j] <= 1 + excused[j]
      BY <2>3, <3>5 DEF DInv, Covered
    <3>7. Claimants(j)' \subseteq {"none"}
      BY <2>1 DEF Claimants, Workers
    <3> DEFINE T == Claimants(j)'
    <3>8. IsFiniteSet({"none"}) /\ Cardinality({"none"}) = 1
      BY FS_Singleton
    <3>9. Cardinality(T) \in Nat /\ Cardinality(T) <= 1
      BY <3>7, <3>8, FS_Subset, FS_CardinalityType
    <3>10. Covered(j)' <=> delivered'[j] + Cardinality(T) <= 1 + excused'[j]
      BY DEF Covered
    <3> HIDE DEF T, Savers
    <3> QED
      BY <2>2, <2>3, <3>4, <3>6, <3>9, <3>10
  <2> QED
    BY <2>5, <2>6, <2>7
<1> QED
  BY <1>3, <1>4, <1>7, <1>8 DEF DInv

(* The attempt was delivered and could not be written: the row waits again,  *)
(* and is excused once more.                                                 *)
LEMMA UnwrittenCovers ==
    ASSUME Known, IInv', DInv, NEW w \in Workers, NEW s \in work[w].held, Moves(w, s),
           work[w].pc = "save", work[w].now = s,
           UNCHANGED <<regs, rows, quiet, delivered>>,
           excused' = [excused EXCEPT ![s.job] = @ + 1]
    PROVE  DInv'
<1> DEFINE state == IF work[w].held = {s} THEN Idle
                    ELSE [work[w] EXCEPT !.pc = "send", !.held = @ \ {s}, !.now = NoRow, !.ok = FALSE]
<1>1. work[w] \in WorkSet /\ s.job \in Jobs
  BY Holds DEF Known, IInv, Typed, SnapOK
<1>2. work' = [work EXCEPT ![w] = state]
  BY DEF Moves, Sets
<1>3. state.held = work[w].held \ {s} /\ state.pc \in {"idle", "send"}
  BY <1>1 DEF Idle, WorkSet
<1> HIDE DEF state
<1>4. Apart'
  BY <1>2, <1>3, ApartHeld DEF Known, DInv
<1>5. work'[w] = state /\ \A v \in Workers \ {w} : Claims(v, s.job)' <=> Claims(v, s.job)
  BY <1>2, OthersClaim DEF Known
<1>6. Jobs' = Jobs /\ Jobs = 1 .. Len(rows) /\ Len(rows') = Len(rows)
  BY JobsAre DEF Jobs, Known, IInv
<1>7. \A j \in Jobs : delivered[j] \in Nat /\ excused[j] \in Nat
  BY BookEntries DEF DInv
<1>8. /\ excused' \in Seq(Nat) /\ Len(excused') = Len(rows)
      /\ \A j \in Jobs : excused'[j] = IF j = s.job THEN excused[j] + 1 ELSE excused[j]
  <2>1. /\ excused \in Seq(Nat) /\ Len(excused) = Len(rows) /\ s.job \in 1 .. Len(excused)
        /\ excused[s.job] + 1 \in Nat
    BY <1>1, <1>6, <1>7 DEF DInv, Books
  <2> QED
    BY <1>6, <2>1, ExceptSeq
<1>9. Books'
  BY <1>6, <1>8 DEF DInv, Books
<1>10. ASSUME NEW j \in Jobs PROVE Covered(j)'
  <2>1. /\ delivered'[j] = delivered[j] /\ delivered'[j] \in Nat
        /\ excused'[j] \in Nat /\ excused'[j] >= excused[j]
    BY <1>7, <1>8
  <2>2. Claims(w, j)' <=> HasRead(w, j)'
    BY <1>3, <1>5 DEF Claims, HasRead, Told
  <2>3. CASE j = s.job
    <3>1. ~Claims(w, j)'
      BY <1>3, <1>5, <2>2, <2>3 DEF HasRead, DInv, Apart
    <3>2. Claimants(j)' \subseteq Claimants(j) \cup {"none"}
      BY <1>5, <2>3, <3>1 DEF Claimants, Workers
    <3>3. excused'[j] = excused[j] + 1
      BY <1>8, <2>3
    <3> QED
      BY <2>1, <3>2, <3>3, Accounts
  <2>4. CASE j # s.job
    <3>1. HasRead(w, j)' <=> HasRead(w, j)
      BY <1>3, <1>5, <2>4 DEF HasRead
    <3>2. Claims(w, j) <=> HasRead(w, j)
      BY <2>4 DEF Claims, Told
    <3>3. Claimants(j)' \subseteq Claimants(j)
      BY <1>2, <2>2, <3>1, <3>2, ClaimsChange, WaitsChange DEF Known
    <3> QED
      BY <2>1, <3>3, Accounts
  <2> QED
    BY <2>3, <2>4
<1> QED
  BY <1>4, <1>6, <1>9, <1>10 DEF DInv

LEMMA FailCovers == ASSUME Known, IInv', DInv, NEW w \in Workers, StoreFails(w) PROVE DInv'
<1>1. UNCHANGED <<regs, rows, quiet, delivered>> /\ Jobs' = Jobs
  BY DEF StoreFails, jobVars, Jobs
<1>2. CASE work[w].pc \in {"create", "reuse"}
  <2>1. work' = [work EXCEPT ![w] = Idle] /\ work[w].held = {} /\ work[w].pc # "idle"
    BY <1>2 DEF StoreFails, Sets, Known, Shape
  <2>2. UNCHANGED <<rows, delivered, excused>>
    BY <1>1, <1>2 DEF StoreFails
  <2>3. Apart'
    BY <1>1, <2>1, IdleIs, ApartHeld DEF Known, DInv
  <2>4. Books' /\ \A j \in Jobs' : Covered(j)'
    BY <2>1, <2>2, IdleIs, EmptyCovers
  <2> QED
    BY <2>3, <2>4 DEF DInv
<1>3. CASE work[w].pc = "send"
  <2>1. PICK s \in work[w].held : Moves(w, s) /\ UNCHANGED excused
    BY <1>3 DEF StoreFails
  <2> QED
    BY <1>1, <1>3, <2>1, MovesCover
<1>4. CASE work[w].pc = "save"
  <2>1. PICK s \in work[w].held : s = work[w].now
    BY <1>4 DEF Known, IInv, WorkerOK
  <2>2. /\ Moves(w, s)
        /\ excused' = [excused EXCEPT ![s.job] = IF work[w].ok THEN @ + 1 ELSE @]
    BY <1>4, <2>1 DEF StoreFails
  <2>3. CASE work[w].ok
    <3>1. excused' = [excused EXCEPT ![s.job] = @ + 1]
      BY <2>2, <2>3
    <3> QED
      BY <1>1, <1>4, <2>1, <2>2, <3>1, UnwrittenCovers
  <2>4. CASE ~work[w].ok
    <3>1. excused' = excused
      BY <2>2, <2>4, SeqDef, LenProperties DEF DInv, Books
    <3> QED
      BY <1>1, <1>4, <2>1, <2>2, <2>4, <3>1, MovesCover
  <2> QED
    BY <2>3, <2>4
<1> QED
  BY <1>2, <1>3, <1>4 DEF StoreFails

LEMMA RowsCover ==
    ASSUME Known, IInv', DInv, NEW r \in Regs, DeleteJobs(r) \/ DeleteRegistration(r) PROVE DInv'
<1>1. \A j \in Jobs : rows[j] \in RowSet
  BY JobsAre, ElementOfSeq DEF Known, IInv, Typed
<1>2. /\ Jobs' = Jobs /\ UNCHANGED <<work, delivered, excused>> /\ quiet' \subseteq quiet
      /\ \A j \in Jobs : rows'[j].status \in {rows[j].status, "deleted"}
  BY <1>1 DEF DeleteJobs, DeleteRegistration, Jobs, history, RowSet
<1>3. Books' /\ \A j \in Jobs' : Covered(j)'
  BY <1>2, UnmovedCovers
<1>4. \A q \in Regs : regs'[q] = "new" => regs[q] = "new"
  BY DEF DeleteJobs, DeleteRegistration, Known, Around
<1>5. Busy' = Busy
  BY <1>2 DEF Busy, Workers
<1>6. Apart'
  BY <1>2, <1>4, <1>5 DEF DInv, Apart, HasRead, Workers
<1> QED
  BY <1>3, <1>6 DEF DInv

LEMMA QuietCovers == ASSUME Known, IInv', DInv, NEW j \in Jobs, GrowsQuiet(j) PROVE DInv'
<1>1. /\ Jobs' = Jobs /\ UNCHANGED <<work, regs, rows, delivered, excused>> /\ quiet' = quiet \cup {j}
      /\ \A w \in Workers \ {"cron"} : \A s \in work[w].held : s.job # j
  BY DEF GrowsQuiet, Jobs, history
<1>2. Books' /\ \A i \in Jobs' : Covered(i)'
  BY <1>1, UnmovedCovers
<1>3. Busy' = Busy
  BY <1>1 DEF Busy, Workers
<1>4. Apart'
  BY <1>1, <1>3 DEF DInv, Apart, HasRead, Workers
<1> QED
  BY <1>2, <1>4 DEF DInv

LEMMA DNextKeeps == Known /\ IInv' /\ DInv /\ [Next]_vars => DInv'
<1> SUFFICES ASSUME Known, IInv', DInv, [Next]_vars PROVE DInv'
  OBVIOUS
<1>1. ASSUME NEW r \in Regs, Submit(r) \/ CountRecipient(r) \/ DeleteJobs(r) \/ DeleteRegistration(r)
      PROVE  DInv'
  BY <1>1, SubmitCovers, CountCovers, RowsCover
<1>2. ASSUME NEW a \in Admins, NEW r \in Regs, Resend(a, r) PROVE DInv'
  BY <1>2, ResendCovers
<1>3. CASE StartRetries
  BY <1>3, RetriesCover
<1>4. ASSUME NEW w \in Workers, Step(w) PROVE DInv'
  BY <1>4, CreateCovers, ReuseCovers, SkipCovers, SendCovers, SaveCovers DEF Step
<1>5. ASSUME NEW j \in Jobs, GrowsQuiet(j) PROVE DInv'
  BY <1>5, QuietCovers
<1>6. CASE Restart
  BY <1>6, RestartCovers
<1>7. CASE UNCHANGED vars
  <2>1. UNCHANGED <<work, regs, rows, quiet, delivered, excused>>
    BY <1>7 DEF vars, jobVars, history
  <2>2. Jobs' = Jobs /\ Busy' = Busy
    BY <2>1 DEF Jobs, Busy, Workers
  <2>3. Books' /\ \A j \in Jobs' : Covered(j)'
    BY <2>1, <2>2, UnmovedCovers
  <2>4. Apart'
    BY <2>1, <2>2 DEF DInv, Apart, HasRead, Workers
  <2> QED
    BY <2>3, <2>4 DEF DInv
<1>8. ASSUME NEW w \in Workers, StoreFails(w) PROVE DInv'
  BY <1>8, FailCovers
<1> QED
  BY <1>1, <1>2, <1>3, <1>4, <1>5, <1>6, <1>7, <1>8 DEF Next

LEMMA DInitFits == Init => DInv
<1> SUFFICES ASSUME Init PROVE DInv
  OBVIOUS
<1>1. /\ work = [w \in Workers |-> Idle] /\ quiet = {}
      /\ rows = <<>> /\ delivered = <<>> /\ excused = <<>>
  BY DEF Init
<1>2. Jobs = {} /\ Books
  BY <1>1, EmptySeq DEF Jobs, Books
<1>3. Busy = {} /\ \A w \in Workers : work[w].held = {}
  BY <1>1, IdleIs DEF Busy
<1>4. Apart
  BY <1>1, <1>3, FS_EmptySet DEF Apart, Workers
<1> QED
  BY <1>2, <1>4 DEF DInv

(* Every delivery is answered for: what was delivered of a job and what may  *)
(* still be delivered of it (Claimants) together are never more than one,    *)
(* and one more for each excuse. Requests and the cron hand claims on, they  *)
(* do not add to them; only a resend that reuses the job does, and a         *)
(* delivery that a restart or a failing update left unwritten.               *)
THEOREM ClaimsAreCovered == Spec => [](Known /\ DInv)
<1>1. Init => Known /\ DInv
  BY KnownInit, DInitFits
<1>2. (Known /\ DInv) /\ [Next]_vars => (Known /\ DInv)'
  <2> SUFFICES ASSUME Known, DInv, [Next]_vars PROVE Known' /\ DInv'
    OBVIOUS
  <2>1. Known' /\ IInv'
    BY KnownNext DEF Known
  <2> QED
    BY <2>1, DNextKeeps
<1> QED
  BY <1>1, <1>2, PTL DEF Spec

(* A parent gets a job's e-mail once, and again only for each resend that    *)
(* reused the job, each answer of the mail service that was lost, and each   *)
(* failed write or restart that kept a delivery from being written down      *)
(* (attemptJob, retryJob, retryDueJobs and its QUIET_MS, jobForResend).      *)
THEOREM MailedOnceUnlessExcused == Spec => []DuplicatesAccounted
<1>1. Known /\ DInv => DuplicatesAccounted
  <2> SUFFICES ASSUME Known, DInv, NEW j \in Jobs PROVE delivered[j] <= 1 + excused[j]
    BY DEF DuplicatesAccounted
  <2>1. delivered[j] \in Nat /\ excused[j] \in Nat /\ IsFiniteSet(Claimants(j))
    BY BookEntries, ClaimantsFinite DEF DInv, Known
  <2>2. Cardinality(Claimants(j)) \in Nat
    BY <2>1, FS_CardinalityType
  <2>3. delivered[j] + Cardinality(Claimants(j)) <= 1 + excused[j]
    BY DEF DInv, Covered
  <2> QED
    BY <2>1, <2>2, <2>3
<1> QED
  BY <1>1, ClaimsAreCovered, PTL
===============================================================================
