----------------------------- MODULE DocumentsProofs -----------------------------
(*****************************************************************************)
(* Proofs about the stored documents, for any number of registrations,       *)
(* requests, answers, revisions and faults.                                  *)
(*                                                                           *)
(* The turn of oneAtATime is what the rest hangs on: only the head of its    *)
(* line builds a registration, so nothing in the folder is younger than the  *)
(* row that build has read, and what it has written stays until it is done.  *)
(*****************************************************************************)
EXTENDS Documents, SequenceTheorems, TLAPS

USE DocumentsAssumption DEF Mover, NoReg

(* Only the head of a registration's line builds it.                         *)
Turns ==
    \A p \in Procs, r \in Regs : Building(p, r) => line[r] # <<>> /\ Head(line[r]) = p

(* What is true of a folder by what became of its registration.              *)
Folders ==
    \A r \in Regs :
      /\ regs[r] = "new" => files[r] = {} /\ \A p \in Procs : ~Building(p, r)
      /\ r \notin dirs => files[r] = {}
      /\ r \in leaving => regs[r] = "gone"

OnePerName == \A r \in Regs : \A f, g \in files[r] : SameFile(f, g) => f = g

(* Nothing stored is younger than the row, nor than what a build has read.   *)
Ages ==
    \A r \in Regs :
      /\ \A f \in files[r] : f.rev <= row[r].rev
      /\ \A p \in Procs : Building(p, r) =>
           /\ held[p].rev <= row[r].rev
           /\ \A f \in files[r] : f.rev <= held[p].rev

(* What a build has written is there as long as its folder is.               *)
WrittenBy(p) ==
    \A k \in KindsFor(held[p]) \ todo[p] :
       /\ File(k, held[p]) \in files[on[p]]
       /\ \A f \in files[on[p]] : SameFile(f, File(k, held[p])) => f = File(k, held[p])

Written ==
    \A p \in Procs : pc[p] = "write" =>
      /\ regs[on[p]] = "live" => on[p] \in dirs
      /\ on[p] \in dirs => WrittenBy(p)

(* The row of a live registration is printed, being printed, or will be.     *)
Awaited(r) == r \in stale \/ r \in moved \/ \E p \in Procs : Asked(p, r)
BeingPrinted(r) == \E p \in Procs : Building(p, r) /\ held[p] = row[r]
Printed(r) == files[r] = FilesOf(row[r]) /\ \A p \in Procs : ~Building(p, r)
Current == \A r \in Regs : regs[r] = "live" => Awaited(r) \/ BeingPrinted(r) \/ Printed(r)

(* A removed folder of which nothing was said stays empty.                   *)
Emptied ==
    \A r \in Regs : regs[r] = "gone" /\ r \notin leaving /\ r \notin overrun =>
      files[r] = {} /\ \A p \in Procs : ~Building(p, r)

IInv == TypeOK /\ Turns /\ Folders /\ OnePerName /\ Ages /\ Written /\ Current /\ Emptied

-------------------------------------------------------------------------------
LEMMA NothingIsARow == Nothing \in Rows /\ Nothing.rev = 0
<1>1. PICK a \in Answers : TRUE
  OBVIOUS
<1>2. [rev |-> 0, answers |-> a] \in Rows /\ [rev |-> 0, answers |-> a].rev = 0
  BY DEF Rows
<1> QED
  BY <1>2 DEF Nothing

(* The documents of a row: one file of each kind it calls for.               *)
LEMMA FilesFacts ==
    ASSUME NEW data \in Rows
    PROVE  /\ KindsFor(data) \subseteq Kinds /\ "acord" \in KindsFor(data)
           /\ \A k \in Kinds : /\ File(k, data) \in Files
                               /\ File(k, data).kind = k /\ File(k, data).rev = data.rev
           /\ \A k, h \in Kinds : SameFile(File(k, data), File(h, data)) => k = h
BY DEF KindsFor, Kinds, File, Files, Rows, SameFile

LEMMA InitEstablishes == Init => IInv
<1> SUFFICES ASSUME Init PROVE IInv
  OBVIOUS
<1> USE NothingIsARow DEF Init, Building
<1>1. TypeOK
  BY DEF TypeOK
<1>2. Turns /\ Folders /\ OnePerName /\ Ages /\ Written /\ Current /\ Emptied
  BY DEF Turns, Folders, OnePerName, Ages, Written, Current, Emptied, Procs
<1> QED
  BY <1>1, <1>2 DEF IInv

(* A build that ends lets the rest of its line keep its order.               *)
LEMMA LineEnds ==
    ASSUME TypeOK, Turns, NEW p \in Procs, pc[p] \in {"render", "write"}
    PROVE  on[p] \in Regs /\ line[on[p]] # <<>> /\ Tail(line[on[p]]) \in Seq(Procs)
<1>1. on[p] \in Regs /\ line[on[p]] # <<>> /\ line[on[p]] \in Seq(Procs)
  BY DEF TypeOK, Turns, Building
<1> QED
  BY <1>1, HeadTailProperties

LEMMA TypeKept == TypeOK /\ Turns /\ [Next]_vars => TypeOK'
<1> SUFFICES ASSUME TypeOK, Turns, [Next]_vars PROVE TypeOK'
  OBVIOUS
<1> USE NothingIsARow DEF TypeOK, Becomes, Ends, Faults, Procs, moveVars, requestVars
<1>1. ASSUME NEW p \in Requests, NEW r \in Regs, Submit(p, r) PROVE TypeOK'
  BY <1>1 DEF Submit, FirstRows
<1>2. ASSUME NEW p \in Requests, NEW r \in Regs, Edit(p, r) PROVE TypeOK'
  <2>1. PICK a \in Answers : row' = [row EXCEPT ![r] = [rev |-> @.rev + 1, answers |-> a]]
    BY <1>2 DEF Edit, Revised
  <2>2. [rev |-> row[r].rev + 1, answers |-> a] \in Rows
    BY <1>2 DEF Edit, Rows
  <2>3. row' \in [Regs -> Rows]
    BY <2>1, <2>2
  <2>4. CASE Becomes(p, "owe", r) /\ UNCHANGED stale
    BY <1>2, <2>3, <2>4 DEF Edit
  <2>5. CASE UNCHANGED <<pc, on>> /\ stale' = stale \cup {r}
    BY <1>2, <2>3, <2>5 DEF Edit
  <2> QED
    BY <1>2, <2>4, <2>5 DEF Edit
<1>3. ASSUME NEW p \in Requests, NEW r \in Regs, OpenMissing(p, r) PROVE TypeOK'
  BY <1>3 DEF OpenMissing
<1>4. CASE StartMove
  BY <1>4 DEF StartMove
<1>5. ASSUME NEW r \in Regs, MoveRow(r) PROVE TypeOK'
  <2>1. CASE regs[r] = "live" /\ row[r].rev < MaxRev /\ Revised(r)
    <3>1. PICK a \in Answers : row' = [row EXCEPT ![r] = [rev |-> @.rev + 1, answers |-> a]]
      BY <2>1 DEF Revised
    <3>2. [rev |-> row[r].rev + 1, answers |-> a] \in Rows
      BY <2>1 DEF Rows
    <3> QED
      BY <1>5, <3>1, <3>2 DEF MoveRow
  <2>2. CASE UNCHANGED row
    BY <1>5, <2>2 DEF MoveRow
  <2> QED
    BY <1>5, <2>1, <2>2 DEF MoveRow
<1>6. ASSUME NEW r \in Regs, RebuildMoved(r) PROVE TypeOK'
  BY <1>6 DEF RebuildMoved
<1>7. CASE RebuildSkipped
  BY <1>7 DEF RebuildSkipped
<1>8. ASSUME NEW p \in Procs, BuildStep(p) PROVE TypeOK'
  <2>1. CASE AskBuild(p)
    BY <2>1 DEF AskBuild
  <2>2. CASE StartBuild(p)
    <3>1. Tail(line[on[p]]) \in Seq(Procs)
      BY <2>2, HeadTailProperties DEF StartBuild, HasTurn
    <3>2. on[p] \in Regs /\ row[on[p]] \in Rows
      BY <2>2 DEF StartBuild
    <3>3. UNCHANGED <<regs, row, dirs, files, moving, moved, leaving, overrun, faults>>
      BY <2>2 DEF StartBuild
    <3>4. CASE regs[on[p]] = "live"
      <4>1. /\ Becomes(p, "render", on[p]) /\ held' = [held EXCEPT ![p] = row[on[p]]]
            /\ stale' = stale \ {on[p]} /\ UNCHANGED <<todo, line>>
        BY <2>2, <3>4 DEF StartBuild
      <4> QED
        BY <3>2, <3>3, <4>1
    <3>5. CASE regs[on[p]] # "live"
      <4>1. Ends(p) /\ UNCHANGED stale
        BY <2>2, <3>5 DEF StartBuild
      <4> QED
        BY <3>1, <3>2, <3>3, <4>1
    <3> QED
      BY <3>4, <3>5
  <2>3. CASE MakeFolder(p)
    BY <2>3, FilesFacts DEF MakeFolder
  <2>4. CASE WriteFile(p)
    <3>1. PICK k \in todo[p] :
             files' = [files EXCEPT ![on[p]] =
                         {f \in @ : ~SameFile(f, File(k, held[p]))} \cup {File(k, held[p])}]
      BY <2>4 DEF WriteFile
    <3>2. File(k, held[p]) \in Files
      BY FilesFacts
    <3> QED
      BY <2>4, <3>1, <3>2 DEF WriteFile
  <2>5. CASE RemoveOld(p)
    BY <2>5 DEF RemoveOld
  <2>6. CASE FinishBuild(p)
    BY <2>6, LineEnds DEF FinishBuild
  <2>7. CASE BuildFails(p)
    BY <2>7, LineEnds DEF BuildFails
  <2> QED
    BY <1>8, <2>1, <2>2, <2>3, <2>4, <2>5, <2>6, <2>7 DEF BuildStep
<1>9. ASSUME NEW r \in Regs, DeleteRow(r) PROVE TypeOK'
  BY <1>9 DEF DeleteRow
<1>10. ASSUME NEW r \in Regs, RemoveFolder(r) PROVE TypeOK'
  BY <1>10 DEF RemoveFolder
<1>11. ASSUME NEW r \in Regs, RemoveFails(r) PROVE TypeOK'
  BY <1>11 DEF RemoveFails
<1>12. CASE Restart
  BY <1>12 DEF Restart
<1>13. CASE UNCHANGED vars
  BY <1>13 DEF vars
<1> QED
  BY <1>1, <1>2, <1>3, <1>4, <1>5, <1>6, <1>7, <1>8, <1>9, <1>10, <1>11, <1>12, <1>13 DEF Next, MoveStep

-------------------------------------------------------------------------------
(* Two builds of one registration are one.                                   *)
LEMMA Alone ==
    ASSUME Turns, NEW p \in Procs, NEW q \in Procs, NEW r \in Regs, Building(p, r), Building(q, r)
    PROVE  p = q
BY DEF Turns

(* What starts or asks for a build leaves those under way as they are.       *)
LEMMA BecomesFrame ==
    ASSUME TypeOK, NEW p \in Procs, NEW step \in {"idle", "owe", "queued"}, NEW r \in Regs \cup {NoReg},
           Becomes(p, step, r)
    PROVE  \A q \in Procs, s \in Regs : Building(q, s)' <=> q # p /\ Building(q, s)
BY DEF TypeOK, Becomes, Building

LEMMA TurnsKept == TypeOK /\ Turns /\ [Next]_vars => Turns'
<1> SUFFICES ASSUME TypeOK, Turns, [Next]_vars PROVE Turns'
  OBVIOUS
<1>a. ASSUME NEW p \in Procs, NEW r \in Regs, Becomes(p, "owe", r), UNCHANGED line PROVE Turns'
  BY <1>a, BecomesFrame DEF Turns
<1>b. ASSUME UNCHANGED <<pc, on, line>> PROVE Turns'
  BY <1>b DEF Turns, Building
<1>c. ASSUME NEW p \in Procs, Ends(p), on[p] \in Regs,
             \A q \in Procs : Building(q, on[p]) => q = p
      PROVE  Turns'
  <2>1. \A q \in Procs, s \in Regs : Building(q, s)' => Building(q, s) /\ s # on[p]
    BY <1>c, BecomesFrame DEF Ends
  <2>2. \A s \in Regs : s # on[p] => line'[s] = line[s]
    BY <1>c DEF Ends, TypeOK
  <2> QED
    BY <2>1, <2>2 DEF Turns
<1>1. ASSUME NEW p \in Requests, NEW r \in Regs, Submit(p, r) PROVE Turns'
  BY <1>1, <1>a DEF Submit, Procs
<1>2. ASSUME NEW p \in Requests, NEW r \in Regs, Edit(p, r) PROVE Turns'
  BY <1>2, <1>a, <1>b DEF Edit, Procs
<1>3. ASSUME NEW p \in Requests, NEW r \in Regs, OpenMissing(p, r) PROVE Turns'
  BY <1>3, <1>a DEF OpenMissing, Procs
<1>4. CASE StartMove
  BY <1>4, <1>b DEF StartMove, requestVars
<1>5. ASSUME NEW r \in Regs, MoveRow(r) PROVE Turns'
  BY <1>5, <1>b DEF MoveRow, requestVars
<1>6. ASSUME NEW r \in Regs, RebuildMoved(r) PROVE Turns'
  BY <1>6, <1>a DEF RebuildMoved, Procs
<1>7. CASE RebuildSkipped
  BY <1>7, <1>b DEF RebuildSkipped, requestVars
<1>8. ASSUME NEW p \in Procs, BuildStep(p) PROVE Turns'
  <2>1. CASE AskBuild(p)
    <3>1. on[p] \in Regs /\ line[on[p]] \in Seq(Procs)
      BY <2>1 DEF AskBuild, TypeOK
    <3>2. line[on[p]] # <<>> => Head(Append(line[on[p]], p)) = Head(line[on[p]])
      BY <3>1, HeadTailAppend
    <3>3. Append(line[on[p]], p) # <<>>
      BY <3>1
    <3>4. line' = [line EXCEPT ![on[p]] = Append(line[on[p]], p)]
      BY <2>1 DEF AskBuild
    <3>5. \A q \in Procs, s \in Regs : Building(q, s)' => Building(q, s)
      BY <2>1, <3>1, BecomesFrame DEF AskBuild
    <3> QED
      BY <3>1, <3>2, <3>3, <3>4, <3>5 DEF Turns, TypeOK
  <2>2. CASE StartBuild(p)
    <3>1. on[p] \in Regs /\ HasTurn(p) /\ pc[p] = "queued"
      BY <2>2 DEF StartBuild, TypeOK
    <3>2. CASE regs[on[p]] = "live"
      <4>1. Becomes(p, "render", on[p]) /\ UNCHANGED line
        BY <2>2, <3>2 DEF StartBuild
      <4>2. \A q \in Procs, s \in Regs : Building(q, s)' => Building(q, s) \/ (q = p /\ s = on[p])
        BY <3>1, <4>1 DEF Becomes, Building, TypeOK
      <4>3. \A q \in Procs, s \in Regs : Building(q, s)' => line[s] # <<>> /\ Head(line[s]) = q
        BY <3>1, <4>2 DEF Turns, HasTurn
      <4> QED
        BY <4>1, <4>3 DEF Turns
    <3>3. CASE regs[on[p]] # "live"
      <4>1. Ends(p)
        BY <2>2, <3>3 DEF StartBuild
      <4>2. \A q \in Procs : ~Building(q, on[p]) \/ q = p
        BY <3>1 DEF Turns, HasTurn
      <4> QED
        BY <3>1, <4>1, <4>2, <1>c
    <3> QED
      BY <3>2, <3>3
  <2>3. CASE MakeFolder(p)
    <3>1. \A q \in Procs, s \in Regs : Building(q, s)' => Building(q, s)
      BY <2>3 DEF MakeFolder, Becomes, Building, TypeOK
    <3> QED
      BY <2>3, <3>1 DEF Turns, MakeFolder
  <2>4. CASE WriteFile(p) \/ RemoveOld(p)
    BY <2>4, <1>b DEF WriteFile, RemoveOld, requestVars
  <2>5. CASE FinishBuild(p) \/ BuildFails(p)
    <3>1. Ends(p) /\ pc[p] \in {"render", "write"} /\ on[p] \in Regs
      BY <2>5 DEF FinishBuild, BuildFails, TypeOK
    <3>2. \A q \in Procs : Building(q, on[p]) => q = p
      BY <3>1, Alone DEF Building
    <3> QED
      BY <3>1, <3>2, <1>c
  <2> QED
    BY <1>8, <2>1, <2>2, <2>3, <2>4, <2>5 DEF BuildStep
<1>9. ASSUME NEW r \in Regs, DeleteRow(r) \/ RemoveFolder(r) \/ RemoveFails(r) PROVE Turns'
  BY <1>9, <1>b DEF DeleteRow, RemoveFolder, RemoveFails, requestVars
<1>10. CASE Restart
  BY <1>10 DEF Restart, Turns, Building
<1>11. CASE UNCHANGED vars
  BY <1>11, <1>b DEF vars
<1> QED
  BY <1>1, <1>2, <1>3, <1>4, <1>5, <1>6, <1>7, <1>8, <1>9, <1>10, <1>11 DEF Next, MoveStep

-------------------------------------------------------------------------------
(* What a step can do to one registration.                                   *)
NobodyBuilds(s) == \A q \in Procs : ~Building(q, s)

(* A build goes on, or begins alone on the row as it is.                     *)
BuildersStep(s) ==
    \A q \in Procs : Building(q, s)' =>
      \/ Building(q, s) /\ held'[q] = held[q]
      \/ /\ regs[s] = "live" /\ held'[q] = row[s] /\ NobodyBuilds(s)
         /\ UNCHANGED <<regs, row, dirs, files>>

RowStep(s) ==
    \/ regs'[s] = regs[s] /\ row'[s] = row[s]
    \/ regs[s] = "new" /\ regs'[s] = "live"
    \/ regs[s] = "live" /\ regs'[s] = "live" /\ row'[s].rev = row[s].rev + 1
    \/ regs[s] = "live" /\ regs'[s] = "gone" /\ row'[s] = row[s]

FilesStep(s) ==
    /\ \A f \in files'[s] : f \in files[s] \/ \E q \in Procs : Building(q, s) /\ f.rev = held[q].rev
    /\ s \notin dirs' => files'[s] = {} \/ (s \notin dirs /\ files'[s] \subseteq files[s])

LeavingStep(s) ==
    /\ s \in leaving' => s \in leaving \/ regs'[s] = "gone"
    /\ regs'[s] = "gone" /\ s \notin leaving' /\ s \notin overrun' =>
         \/ regs[s] = "gone" /\ s \notin leaving /\ s \notin overrun
         \/ files'[s] = {} /\ NobodyBuilds(s) /\ UNCHANGED <<pc, on>>

StepOf(s) == BuildersStep(s) /\ RowStep(s) /\ FilesStep(s) /\ LeavingStep(s)

LEMMA Steps ==
    ASSUME TypeOK, Turns, [Next]_vars, NEW s \in Regs
    PROVE  StepOf(s)
<1> USE DEF StepOf, RowStep, FilesStep, LeavingStep
<1>a. ASSUME NEW p \in Procs, NEW r \in Regs, Becomes(p, "owe", r), UNCHANGED held PROVE BuildersStep(s)
  BY <1>a, BecomesFrame DEF BuildersStep
<1>b. ASSUME UNCHANGED <<pc, on, held>> PROVE BuildersStep(s)
  BY <1>b DEF BuildersStep, Building
<1>c. ASSUME NEW p \in Procs, Ends(p) PROVE BuildersStep(s)
  BY <1>c, BecomesFrame DEF BuildersStep, Ends, TypeOK
<1>1. ASSUME NEW p \in Requests, NEW r \in Regs, Submit(p, r) PROVE StepOf(s)
  BY <1>1, <1>a DEF Submit, Procs, moveVars, TypeOK
<1>2. ASSUME NEW p \in Requests, NEW r \in Regs, Edit(p, r) PROVE StepOf(s)
  <2>1. BuildersStep(s)
    BY <1>2, <1>a, <1>b DEF Edit, Procs
  <2> QED
    BY <1>2, <2>1 DEF Edit, Revised, TypeOK
<1>3. ASSUME NEW p \in Requests, NEW r \in Regs, OpenMissing(p, r) PROVE StepOf(s)
  BY <1>3, <1>a DEF OpenMissing, Procs
<1>4. CASE StartMove
  BY <1>4, <1>b DEF StartMove, requestVars
<1>5. ASSUME NEW r \in Regs, MoveRow(r) PROVE StepOf(s)
  BY <1>5, <1>b DEF MoveRow, Revised, requestVars, TypeOK
<1>6. ASSUME NEW r \in Regs, RebuildMoved(r) PROVE StepOf(s)
  BY <1>6, <1>a DEF RebuildMoved, Procs
<1>7. CASE RebuildSkipped
  BY <1>7, <1>b DEF RebuildSkipped, requestVars
<1>8. ASSUME NEW p \in Procs, BuildStep(p) PROVE StepOf(s)
  <2>1. CASE AskBuild(p)
    <3>1. BuildersStep(s)
      BY <2>1, BecomesFrame DEF AskBuild, BuildersStep, TypeOK
    <3> QED
      BY <2>1, <3>1 DEF AskBuild
  <2>2. CASE StartBuild(p)
    <3>1. CASE regs[on[p]] = "live"
      <4>1. /\ Becomes(p, "render", on[p]) /\ held' = [held EXCEPT ![p] = row[on[p]]]
            /\ UNCHANGED <<regs, row, dirs, files, leaving, overrun>>
        BY <2>2, <3>1 DEF StartBuild
      <4>2. on[p] \in Regs /\ NobodyBuilds(on[p])
        BY <2>2 DEF StartBuild, HasTurn, TypeOK, Turns, NobodyBuilds, Building
      <4>3. BuildersStep(s)
        <5> SUFFICES ASSUME NEW q \in Procs, Building(q, s)'
                     PROVE  \/ Building(q, s) /\ held'[q] = held[q]
                            \/ q = p /\ s = on[p]
          BY <3>1, <4>1, <4>2 DEF BuildersStep, TypeOK
        <5> QED
          BY <4>1 DEF Becomes, Building, TypeOK
      <4> QED
        BY <4>1, <4>3
    <3>2. CASE regs[on[p]] # "live"
      BY <2>2, <3>2, <1>c DEF StartBuild
    <3> QED
      BY <3>1, <3>2
  <2>3. CASE MakeFolder(p)
    <3>1. BuildersStep(s)
      BY <2>3 DEF MakeFolder, BuildersStep, Becomes, Building, TypeOK
    <3> QED
      BY <2>3, <3>1 DEF MakeFolder
  <2>4. CASE WriteFile(p)
    <3>1. PICK k \in todo[p] :
             files' = [files EXCEPT ![on[p]] =
                         {f \in @ : ~SameFile(f, File(k, held[p]))} \cup {File(k, held[p])}]
      BY <2>4 DEF WriteFile
    <3>2. pc[p] = "write" /\ on[p] \in dirs /\ UNCHANGED <<regs, row, dirs, pc, on, held, leaving, overrun>>
      BY <2>4 DEF WriteFile
    <3>3. File(k, held[p]).rev = held[p].rev
      BY DEF File
    <3>4. \A f \in files'[s] : f \in files[s] \/ \E q \in Procs : Building(q, s) /\ f.rev = held[q].rev
      BY <3>1, <3>2, <3>3 DEF Building, TypeOK
    <3>5. s \notin dirs => files'[s] = files[s]
      BY <3>1, <3>2 DEF TypeOK
    <3> QED
      BY <3>2, <3>4, <3>5, <1>b
  <2>5. CASE RemoveOld(p)
    BY <2>5, <1>b DEF RemoveOld, requestVars, TypeOK
  <2>6. CASE FinishBuild(p) \/ BuildFails(p)
    BY <2>6, <1>c DEF FinishBuild, BuildFails
  <2> QED
    BY <1>8, <2>1, <2>2, <2>3, <2>4, <2>5, <2>6 DEF BuildStep
<1>9. ASSUME NEW r \in Regs, DeleteRow(r) PROVE StepOf(s)
  BY <1>9, <1>b DEF DeleteRow, requestVars, TypeOK
<1>10. ASSUME NEW r \in Regs, RemoveFolder(r) PROVE StepOf(s)
  BY <1>10, <1>b DEF RemoveFolder, requestVars, NobodyBuilds, TypeOK
<1>11. ASSUME NEW r \in Regs, RemoveFails(r) PROVE StepOf(s)
  BY <1>11, <1>b DEF RemoveFails, requestVars, TypeOK
<1>12. CASE Restart
  <2>1. BuildersStep(s)
    BY <1>12 DEF Restart, BuildersStep, Building
  <2> QED
    BY <1>12, <2>1 DEF Restart
<1>13. CASE UNCHANGED vars
  BY <1>13, <1>b DEF vars
<1> QED
  BY <1>1, <1>2, <1>3, <1>4, <1>5, <1>6, <1>7, <1>8, <1>9, <1>10, <1>11, <1>12, <1>13 DEF Next, MoveStep

LEMMA FoldersKept == TypeOK /\ TypeOK' /\ Turns /\ Folders /\ [Next]_vars => Folders'
<1> SUFFICES ASSUME TypeOK, TypeOK', Turns, Folders, [Next]_vars, NEW s \in Regs
             PROVE  /\ regs'[s] = "new" => files'[s] = {} /\ \A p \in Procs : ~Building(p, s)'
                    /\ s \notin dirs' => files'[s] = {}
                    /\ s \in leaving' => regs'[s] = "gone"
  BY DEF Folders
<1>1. StepOf(s)
  BY Steps
<1>2. regs[s] = "gone" => regs'[s] = "gone"
  BY <1>1 DEF StepOf, RowStep
<1>3. regs'[s] = "new" => regs[s] = "new"
  BY <1>1 DEF StepOf, RowStep
<1> QED
  BY <1>1, <1>2, <1>3 DEF StepOf, BuildersStep, FilesStep, LeavingStep, Folders

LEMMA AgesKept == TypeOK /\ TypeOK' /\ Turns /\ Folders /\ Ages /\ [Next]_vars => Ages'
<1> SUFFICES ASSUME TypeOK, TypeOK', Turns, Folders, Ages, [Next]_vars, NEW s \in Regs
             PROVE  /\ \A f \in files'[s] : f.rev <= row'[s].rev
                    /\ \A p \in Procs : Building(p, s)' =>
                         /\ held'[p].rev <= row'[s].rev
                         /\ \A f \in files'[s] : f.rev <= held'[p].rev
  BY DEF Ages
<1>1. StepOf(s)
  BY Steps
<1>2. /\ \A f \in files[s] : f.rev \in Nat
      /\ row[s].rev \in Nat /\ row'[s].rev \in Nat
      /\ \A p \in Procs : held[p].rev \in Nat
  BY DEF TypeOK, Rows, Files
<1>3. CASE regs[s] = "new"
  <2>1. files'[s] = {}
    BY <1>1, <1>3 DEF StepOf, FilesStep, Folders
  <2>2. \A p \in Procs : ~Building(p, s)'
    BY <1>1, <1>3 DEF StepOf, BuildersStep, Folders
  <2> QED
    BY <2>1, <2>2
<1>4. CASE regs[s] # "new"
  <2>1. row[s].rev <= row'[s].rev
    BY <1>1, <1>2, <1>4 DEF StepOf, RowStep
  <2>2. \A f \in files'[s] : f.rev <= row[s].rev
    BY <1>1 DEF StepOf, FilesStep, Ages
  <2>3. \A f \in files'[s] : f.rev \in Nat
    BY DEF TypeOK, Files
  <2>4. ASSUME NEW p \in Procs, Building(p, s)'
        PROVE  held'[p].rev <= row'[s].rev /\ \A f \in files'[s] : f.rev <= held'[p].rev
    <3>1. CASE Building(p, s) /\ held'[p] = held[p]
      <4>1. held[p].rev <= row[s].rev /\ \A f \in files[s] : f.rev <= held[p].rev
        BY <3>1 DEF Ages
      <4>2. \A q \in Procs : Building(q, s) => q = p
        BY <3>1, Alone
      <4> QED
        BY <1>1, <1>2, <2>1, <3>1, <4>1, <4>2 DEF StepOf, FilesStep
    <3>2. CASE held'[p] = row[s] /\ UNCHANGED <<row, files>>
      BY <1>2, <3>2 DEF Ages
    <3> QED
      BY <1>1, <2>4, <3>1, <3>2 DEF StepOf, BuildersStep
  <2> QED
    BY <1>2, <2>1, <2>2, <2>3, <2>4
<1> QED
  BY <1>3, <1>4

LEMMA EmptiedKept == TypeOK /\ Turns /\ Emptied /\ [Next]_vars => Emptied'
<1> SUFFICES ASSUME TypeOK, Turns, Emptied, [Next]_vars, NEW s \in Regs,
                    regs'[s] = "gone", s \notin leaving', s \notin overrun'
             PROVE  files'[s] = {} /\ \A p \in Procs : ~Building(p, s)'
  BY DEF Emptied
<1>1. StepOf(s)
  BY Steps
<1>2. CASE regs[s] = "gone" /\ s \notin leaving /\ s \notin overrun
  <2>1. files[s] = {} /\ NobodyBuilds(s)
    BY <1>2 DEF Emptied, NobodyBuilds
  <2> QED
    BY <1>1, <1>2, <2>1 DEF StepOf, BuildersStep, FilesStep, NobodyBuilds
<1>3. CASE files'[s] = {} /\ NobodyBuilds(s) /\ UNCHANGED <<pc, on>>
  BY <1>3 DEF NobodyBuilds, Building
<1> QED
  BY <1>1, <1>2, <1>3 DEF StepOf, LeavingStep

-------------------------------------------------------------------------------
(* Only three steps touch what is stored.                                    *)
LEMMA FilesChange ==
    ASSUME [Next]_vars
    PROVE  \/ UNCHANGED files
           \/ \E p \in Procs : WriteFile(p) \/ RemoveOld(p)
           \/ \E r \in Regs : RemoveFolder(r)
<1> USE DEF requestVars
<1>1. ASSUME NEW p \in Procs, BuildStep(p) PROVE UNCHANGED files \/ WriteFile(p) \/ RemoveOld(p)
  BY <1>1 DEF BuildStep, AskBuild, StartBuild, MakeFolder, FinishBuild, BuildFails
<1>2. CASE \E p \in Requests, r \in Regs : Submit(p, r) \/ Edit(p, r) \/ OpenMissing(p, r)
  BY <1>2 DEF Submit, Edit, OpenMissing
<1>3. CASE StartMove \/ MoveStep \/ Restart
  BY <1>3 DEF StartMove, MoveStep, MoveRow, RebuildMoved, RebuildSkipped, Restart
<1>4. CASE \E r \in Regs : DeleteRow(r) \/ RemoveFails(r)
  BY <1>4 DEF DeleteRow, RemoveFails
<1>5. CASE UNCHANGED vars
  BY <1>5 DEF vars
<1> QED
  BY <1>1, <1>2, <1>3, <1>4, <1>5 DEF Next

(* One file is written over the one of its name.                             *)
LEMMA WriteDoes ==
    ASSUME TypeOK, NEW p \in Procs, WriteFile(p)
    PROVE  /\ on[p] \in Regs /\ pc[p] = "write" /\ on[p] \in dirs
           /\ UNCHANGED <<regs, row, dirs, pc, on, held, line, moving, moved, leaving, stale, overrun, faults>>
           /\ \E k \in todo[p] :
                /\ todo' = [todo EXCEPT ![p] = @ \ {k}]
                /\ files' = [files EXCEPT ![on[p]] =
                               {f \in @ : ~SameFile(f, File(k, held[p]))} \cup {File(k, held[p])}]
BY DEF WriteFile, TypeOK, moveVars

(* A file that is no longer part of the set goes, never one just written.    *)
LEMMA RemoveDoes ==
    ASSUME TypeOK, NEW p \in Procs, RemoveOld(p)
    PROVE  /\ on[p] \in Regs /\ pc[p] = "write" /\ todo[p] = {}
           /\ UNCHANGED <<regs, row, dirs, pc, on, held, todo, line, moving, moved, leaving, stale, overrun, faults>>
           /\ \E f \in files[on[p]] :
                /\ files' = [files EXCEPT ![on[p]] = @ \ {f}]
                /\ \A k \in KindsFor(held[p]) : f # File(k, held[p])
<1>1. PICK f \in Obsolete(on[p], held[p]) : files' = [files EXCEPT ![on[p]] = @ \ {f}]
  BY DEF RemoveOld
<1>2. f \in files[on[p]] /\ \A k \in KindsFor(held[p]) : f # File(k, held[p])
  BY <1>1 DEF Obsolete, FilesOf, SameFile
<1>3. on[p] \in Regs /\ pc[p] = "write" /\ todo[p] = {}
  BY DEF RemoveOld, TypeOK
<1>4. UNCHANGED <<regs, row, dirs, pc, on, held, todo, line, moving, moved, leaving, stale, overrun, faults>>
  BY DEF RemoveOld, moveVars, requestVars
<1> QED
  BY <1>1, <1>2, <1>3, <1>4

LEMMA OnePerNameKept == TypeOK /\ OnePerName /\ [Next]_vars => OnePerName'
<1> SUFFICES ASSUME TypeOK, OnePerName, [Next]_vars PROVE OnePerName'
  OBVIOUS
<1>1. CASE UNCHANGED files
  BY <1>1 DEF OnePerName
<1>2. ASSUME NEW p \in Procs, WriteFile(p) PROVE OnePerName'
  <2>1. PICK k \in todo[p] :
           files' = [files EXCEPT ![on[p]] =
                       {f \in @ : ~SameFile(f, File(k, held[p]))} \cup {File(k, held[p])}]
    BY <1>2, WriteDoes
  <2>2. on[p] \in Regs
    BY <1>2, WriteDoes
  <2>3. \A s \in Regs : s # on[p] => files'[s] = files[s]
    BY <2>1 DEF TypeOK
  <2>4. files'[on[p]] = {f \in files[on[p]] : ~SameFile(f, File(k, held[p]))} \cup {File(k, held[p])}
    BY <2>1, <2>2 DEF TypeOK
  <2>5. \A f, g \in files'[on[p]] : SameFile(f, g) => f = g
    BY <2>2, <2>4 DEF OnePerName, SameFile
  <2>6. \A s \in Regs : \A f, g \in files'[s] : SameFile(f, g) => f = g
    <3> TAKE s \in Regs
    <3> QED
      BY <2>3, <2>5 DEF OnePerName
  <2> QED
    BY <2>6 DEF OnePerName, SameFile
<1>3. ASSUME NEW p \in Procs, RemoveOld(p) PROVE OnePerName'
  <2>1. PICK f \in files[on[p]] : files' = [files EXCEPT ![on[p]] = @ \ {f}]
    BY <1>3, RemoveDoes
  <2>2. \A s \in Regs : files'[s] \subseteq files[s]
    BY <2>1 DEF TypeOK
  <2> QED
    BY <2>2 DEF OnePerName, SameFile
<1>4. ASSUME NEW r \in Regs, RemoveFolder(r) PROVE OnePerName'
  BY <1>4 DEF RemoveFolder, OnePerName, TypeOK
<1> QED
  BY <1>1, <1>2, <1>3, <1>4, FilesChange

LEMMA WrittenKept == TypeOK /\ TypeOK' /\ Turns /\ Folders /\ Written /\ [Next]_vars => Written'
<1> SUFFICES ASSUME TypeOK, TypeOK', Turns, Folders, Written, [Next]_vars,
                    NEW q \in Procs, pc'[q] = "write"
             PROVE  /\ regs'[on'[q]] = "live" => on'[q] \in dirs'
                    /\ on'[q] \in dirs' => WrittenBy(q)'
  BY DEF Written
<1> DEFINE Goal == /\ regs'[on'[q]] = "live" => on'[q] \in dirs'
                   /\ on'[q] \in dirs' => WrittenBy(q)'
<1>f. ASSUME pc[q] = "write", on'[q] = on[q], held'[q] = held[q], todo'[q] = todo[q],
             files'[on[q]] = files[on[q]], on[q] \in dirs <=> on[q] \in dirs',
             regs'[on[q]] = "live" => regs[on[q]] = "live"
      PROVE  Goal
  BY <1>f DEF Written, WrittenBy, SameFile
<1>g. ASSUME pc[q] = "write" PROVE on[q] \in Regs /\ Building(q, on[q])
  BY <1>g DEF TypeOK, Building
<1>b. ASSUME NEW p \in Procs, NEW step \in {"idle", "owe", "queued", "render"}, NEW r \in Regs \cup {NoReg}, Becomes(p, step, r)
      PROVE  q # p /\ pc[q] = "write" /\ on'[q] = on[q]
  BY <1>b DEF Becomes, TypeOK
<1>1. ASSUME NEW p \in Requests, NEW r \in Regs, Submit(p, r) PROVE Goal
  <2>1. q # p /\ pc[q] = "write" /\ on'[q] = on[q]
    BY <1>1, <1>b DEF Submit, Procs
  <2>2. on[q] # r
    BY <1>1, <2>1, <1>g DEF Submit, Folders
  <2> QED
    BY <1>1, <2>1, <2>2, <1>f, <1>g DEF Submit, TypeOK
<1>2. ASSUME NEW p \in Requests, NEW r \in Regs, Edit(p, r) PROVE Goal
  <2>1. pc[q] = "write" /\ on'[q] = on[q]
    BY <1>2, <1>b DEF Edit, Procs
  <2> QED
    BY <1>2, <2>1, <1>f DEF Edit
<1>3. ASSUME NEW p \in Requests, NEW r \in Regs, OpenMissing(p, r) PROVE Goal
  <2>1. pc[q] = "write" /\ on'[q] = on[q]
    BY <1>3, <1>b DEF OpenMissing, Procs
  <2> QED
    BY <1>3, <2>1, <1>f DEF OpenMissing
<1>4. CASE StartMove
  BY <1>4, <1>f DEF StartMove, requestVars
<1>5. ASSUME NEW r \in Regs, MoveRow(r) PROVE Goal
  BY <1>5, <1>f DEF MoveRow, requestVars
<1>6. ASSUME NEW r \in Regs, RebuildMoved(r) PROVE Goal
  <2>1. pc[q] = "write" /\ on'[q] = on[q]
    BY <1>6, <1>b DEF RebuildMoved, Procs
  <2> QED
    BY <1>6, <2>1, <1>f DEF RebuildMoved
<1>7. CASE RebuildSkipped
  BY <1>7, <1>f DEF RebuildSkipped, requestVars
<1>8. ASSUME NEW p \in Procs, BuildStep(p) PROVE Goal
  <2>1. CASE AskBuild(p)
    <3>1. pc[q] = "write" /\ on'[q] = on[q]
      BY <2>1, <1>b DEF AskBuild, TypeOK
    <3> QED
      BY <2>1, <3>1, <1>f DEF AskBuild
  <2>2. CASE StartBuild(p)
    <3>1. q # p /\ pc[q] = "write" /\ on'[q] = on[q]
      BY <2>2, <1>b DEF StartBuild, Ends, TypeOK
    <3>2. held'[q] = held[q] /\ todo'[q] = todo[q]
      BY <2>2, <3>1 DEF StartBuild, Ends, TypeOK
    <3> QED
      BY <2>2, <3>1, <3>2, <1>f DEF StartBuild
  <2>3. CASE MakeFolder(p)
    <3>1. CASE q = p
      <4>1. on'[p] = on[p] /\ dirs' = dirs \cup {on[p]} /\ todo'[p] = KindsFor(held'[p])
        BY <2>3 DEF MakeFolder, Becomes, TypeOK
      <4> QED
        BY <3>1, <4>1 DEF WrittenBy
    <3>2. CASE q # p
      <4>1. pc[q] = "write" /\ on'[q] = on[q] /\ todo'[q] = todo[q]
        BY <2>3, <3>2 DEF MakeFolder, Becomes, TypeOK
      <4>2. on[q] # on[p]
        BY <2>3, <3>2, <4>1, <1>g, Alone DEF MakeFolder, Building
      <4> QED
        BY <2>3, <4>1, <4>2, <1>f DEF MakeFolder
    <3> QED
      BY <3>1, <3>2
  <2>4. CASE WriteFile(p)
    <3>1. PICK k \in todo[p] :
             /\ todo' = [todo EXCEPT ![p] = @ \ {k}]
             /\ files' = [files EXCEPT ![on[p]] =
                            {f \in @ : ~SameFile(f, File(k, held[p]))} \cup {File(k, held[p])}]
      BY <2>4, WriteDoes
    <3>2. /\ on[p] \in Regs /\ pc[p] = "write" /\ on[p] \in dirs
          /\ UNCHANGED <<regs, dirs, pc, on, held>>
      BY <2>4, WriteDoes
    <3>3. CASE q = p
      <4>1. files'[on[p]] = {f \in files[on[p]] : ~SameFile(f, File(k, held[p]))} \cup {File(k, held[p])}
        BY <3>1, <3>2 DEF TypeOK
      <4>2. todo'[p] = todo[p] \ {k} /\ k \in Kinds
        BY <3>1 DEF TypeOK
      <4>3. KindsFor(held[p]) \subseteq Kinds
        BY FilesFacts DEF TypeOK
      <4>4. WrittenBy(p)
        BY <3>2 DEF Written
      <4>5. ASSUME NEW h \in KindsFor(held[p]), h \notin todo'[p]
            PROVE  /\ File(h, held[p]) \in files'[on[p]]
                   /\ \A f \in files'[on[p]] : SameFile(f, File(h, held[p])) => f = File(h, held[p])
        <5>1. CASE h = k
          BY <4>1, <5>1
        <5>2. CASE h # k
          <6>1. ~SameFile(File(h, held[p]), File(k, held[p])) /\ ~SameFile(File(k, held[p]), File(h, held[p]))
            BY <4>2, <4>3, <5>2, FilesFacts DEF TypeOK
          <6> QED
            BY <4>1, <4>2, <4>4, <4>5, <5>2, <6>1 DEF WrittenBy
        <5> QED
          BY <5>1, <5>2
      <4>6. WrittenBy(p)'
        BY <3>2, <4>5 DEF WrittenBy, SameFile, File
      <4> QED
        BY <3>2, <3>3, <4>6
    <3>4. CASE q # p
      <4>1. pc[q] = "write" /\ on[q] # on[p]
        BY <3>2, <3>4, <1>g, Alone DEF Building
      <4> QED
        BY <3>1, <3>2, <3>4, <4>1, <1>f, <1>g DEF TypeOK
    <3> QED
      BY <3>3, <3>4
  <2>5. CASE RemoveOld(p)
    <3>1. /\ on[p] \in Regs /\ pc[p] = "write" /\ todo[p] = {}
          /\ UNCHANGED <<regs, dirs, pc, on, held, todo>>
      BY <2>5, RemoveDoes
    <3>2. PICK f \in files[on[p]] : /\ files' = [files EXCEPT ![on[p]] = @ \ {f}]
                                   /\ \A k \in KindsFor(held[p]) : f # File(k, held[p])
      BY <2>5, RemoveDoes
    <3>3. CASE q = p
      <4>1. files'[on[p]] = files[on[p]] \ {f}
        BY <3>1, <3>2 DEF TypeOK
      <4>2. on[p] \in dirs => WrittenBy(p)'
        BY <3>1, <3>2, <4>1 DEF Written, WrittenBy, SameFile, File
      <4> QED
        BY <3>1, <3>3, <4>2 DEF Written
    <3>4. CASE q # p
      <4>1. pc[q] = "write" /\ on[q] # on[p]
        BY <3>1, <3>4, <1>g, Alone DEF Building
      <4> QED
        BY <3>1, <3>2, <4>1, <1>f, <1>g DEF TypeOK
    <3> QED
      BY <3>3, <3>4
  <2>6. CASE FinishBuild(p) \/ BuildFails(p)
    <3>1. Ends(p) /\ UNCHANGED <<regs, dirs, files>>
      BY <2>6 DEF FinishBuild, BuildFails
    <3>2. q # p /\ pc[q] = "write" /\ on'[q] = on[q]
      BY <3>1, <1>b DEF Ends
    <3> QED
      BY <3>1, <3>2, <1>f DEF Ends, TypeOK
  <2> QED
    BY <1>8, <2>1, <2>2, <2>3, <2>4, <2>5, <2>6 DEF BuildStep
<1>9. ASSUME NEW r \in Regs, DeleteRow(r) PROVE Goal
  BY <1>9, <1>f, <1>g DEF DeleteRow, requestVars, TypeOK
<1>10. ASSUME NEW r \in Regs, RemoveFolder(r) PROVE Goal
  <2>1. pc[q] = "write" /\ on'[q] = on[q] /\ held'[q] = held[q] /\ todo'[q] = todo[q] /\ regs' = regs
    BY <1>10 DEF RemoveFolder, requestVars
  <2>2. CASE on[q] = r
    BY <1>10, <2>1, <2>2 DEF RemoveFolder, Folders
  <2>3. CASE on[q] # r
    BY <1>10, <2>1, <2>3, <1>f, <1>g DEF RemoveFolder, TypeOK
  <2> QED
    BY <2>2, <2>3
<1>11. ASSUME NEW r \in Regs, RemoveFails(r) PROVE Goal
  BY <1>11, <1>f DEF RemoveFails, requestVars
<1>12. CASE Restart
  BY <1>12 DEF Restart
<1>13. CASE UNCHANGED vars
  BY <1>13, <1>f DEF vars
<1> QED
  BY <1>1, <1>2, <1>3, <1>4, <1>5, <1>6, <1>7, <1>8, <1>9, <1>10, <1>11, <1>12, <1>13 DEF Next, MoveStep

(* A build that is done has left exactly the documents of the row it read.   *)
LEMMA DoneIsPrinted ==
    ASSUME TypeOK, NEW p \in Procs, pc[p] = "write", todo[p] = {}, WrittenBy(p),
           Obsolete(on[p], held[p]) = {}
    PROVE  files[on[p]] = FilesOf(held[p])
<1>1. \A k \in KindsFor(held[p]) : File(k, held[p]) \in files[on[p]]
  BY DEF WrittenBy
<1>2. ASSUME NEW f \in files[on[p]] PROVE f \in FilesOf(held[p])
  <2>1. PICK g \in FilesOf(held[p]) : SameFile(f, g)
    BY <1>2 DEF Obsolete
  <2> QED
    BY <1>2, <2>1 DEF FilesOf, WrittenBy
<1> QED
  BY <1>1, <1>2 DEF FilesOf

LEMMA CurrentKept == TypeOK /\ Turns /\ Folders /\ Written /\ Current /\ [Next]_vars => Current'
<1> SUFFICES ASSUME TypeOK, Turns, Folders, Written, Current, [Next]_vars,
                    NEW s \in Regs, regs'[s] = "live"
             PROVE  Awaited(s)' \/ BeingPrinted(s)' \/ Printed(s)'
  BY DEF Current
<1> DEFINE Goal == Awaited(s)' \/ BeingPrinted(s)' \/ Printed(s)'
(* Nothing of the registration changes, but for more builds awaited.         *)
<1>f. ASSUME regs[s] = "live", row'[s] = row[s], files'[s] = files[s], Awaited(s) => Awaited(s)',
             \A q \in Procs : /\ Building(q, s)' <=> Building(q, s)
                              /\ Building(q, s) => held'[q] = held[q]
      PROVE  Goal
  <2>1. BeingPrinted(s) => BeingPrinted(s)'
    BY <1>f DEF BeingPrinted
  <2>2. Printed(s) => Printed(s)'
    BY <1>f DEF Printed, FilesOf, File, KindsFor
  <2> QED
    BY <1>f, <2>1, <2>2 DEF Current
<1>u. UNCHANGED <<pc, on, moved>> /\ stale \subseteq stale' /\ Awaited(s) => Awaited(s)'
  BY DEF Awaited, Asked
<1>o. ASSUME NEW p \in Procs, NEW r \in Regs, pc[p] = "idle", Becomes(p, "owe", r)
      PROVE  /\ Asked(p, r)'
             /\ \A q \in Procs : Asked(q, s) => Asked(q, s)'
             /\ \A q \in Procs : Building(q, s)' <=> Building(q, s)
  BY <1>o, BecomesFrame DEF Becomes, Asked, Building, TypeOK
<1>1. ASSUME NEW p \in Requests, NEW r \in Regs, Submit(p, r) PROVE Goal
  <2>1. p \in Procs /\ pc[p] = "idle" /\ Becomes(p, "owe", r)
        /\ UNCHANGED <<files, held, moved, stale>>
    BY <1>1 DEF Submit, Procs, moveVars
  <2>2. CASE s = r
    BY <2>1, <2>2, <1>o DEF Awaited
  <2>3. CASE s # r
    <3>1. regs[s] = "live" /\ row'[s] = row[s]
      BY <1>1, <2>3 DEF Submit, TypeOK
    <3>2. Awaited(s) => Awaited(s)'
      BY <2>1, <1>o DEF Awaited
    <3> QED
      BY <2>1, <3>1, <3>2, <1>o, <1>f
  <2> QED
    BY <2>2, <2>3
<1>2. ASSUME NEW p \in Requests, NEW r \in Regs, Edit(p, r) PROVE Goal
  <2>1. p \in Procs /\ pc[p] = "idle" /\ UNCHANGED <<regs, files, held, moved>>
    BY <1>2 DEF Edit, Procs, moveVars
  <2>2. s # r => row'[s] = row[s]
    BY <1>2 DEF Edit, Revised, TypeOK
  <2>3. CASE Becomes(p, "owe", r) /\ UNCHANGED stale
    <3>1. Awaited(s) => Awaited(s)'
      BY <2>1, <2>3, <1>o DEF Awaited
    <3>2. s = r => Awaited(s)'
      BY <2>1, <2>3, <1>o DEF Awaited
    <3> QED
      BY <2>1, <2>2, <2>3, <3>1, <3>2, <1>o, <1>f
  <2>4. CASE UNCHANGED <<pc, on>> /\ stale' = stale \cup {r}
    BY <2>1, <2>2, <2>4, <1>u, <1>f DEF Awaited, Building
  <2> QED
    BY <1>2, <2>3, <2>4 DEF Edit
<1>3. ASSUME NEW p \in Requests, NEW r \in Regs, OpenMissing(p, r) PROVE Goal
  <2>1. p \in Procs /\ pc[p] = "idle" /\ Becomes(p, "owe", r)
        /\ UNCHANGED <<regs, row, files, held, moved, stale>>
    BY <1>3 DEF OpenMissing, Procs, moveVars
  <2>2. Awaited(s) => Awaited(s)'
    BY <2>1, <1>o DEF Awaited
  <2> QED
    BY <2>1, <2>2, <1>o, <1>f
<1>4. CASE StartMove
  BY <1>4, <1>u, <1>f DEF StartMove, requestVars, Building
<1>5. ASSUME NEW r \in Regs, MoveRow(r) PROVE Goal
  <2>1. UNCHANGED <<regs, files, pc, on, held, stale>>
    BY <1>5 DEF MoveRow, requestVars
  <2>2. CASE Revised(r) /\ moved' = moved \cup {r}
    <3>1. s # r => row'[s] = row[s]
      BY <2>2 DEF Revised, TypeOK
    <3>2. Awaited(s) => Awaited(s)'
      BY <2>1, <2>2 DEF Awaited, Asked
    <3>3. s = r => Awaited(s)'
      BY <2>2 DEF Awaited
    <3> QED
      BY <2>1, <3>1, <3>2, <3>3, <1>f DEF Building
  <2>3. CASE UNCHANGED <<row, moved>>
    BY <2>1, <2>3, <1>u, <1>f DEF Building
  <2> QED
    BY <1>5, <2>2, <2>3 DEF MoveRow
<1>6. ASSUME NEW r \in Regs, RebuildMoved(r) PROVE Goal
  <2>1. Mover \in Procs /\ pc[Mover] = "idle" /\ Becomes(Mover, "owe", r) /\ moved' = moved \ {r}
        /\ UNCHANGED <<regs, row, files, held, stale>>
    BY <1>6 DEF RebuildMoved, Procs
  <2>2. Awaited(s) => Awaited(s)'
    BY <2>1, <1>o DEF Awaited
  <2> QED
    BY <2>1, <2>2, <1>o, <1>f
<1>7. CASE RebuildSkipped
  <2>1. Awaited(s) => Awaited(s)'
    BY <1>7 DEF RebuildSkipped, Awaited, Asked, requestVars
  <2> QED
    BY <1>7, <2>1, <1>f DEF RebuildSkipped, requestVars, Building
<1>8. ASSUME NEW p \in Procs, BuildStep(p) PROVE Goal
  <2>1. CASE AskBuild(p)
    <3>1. \A q \in Procs : Asked(q, s) => Asked(q, s)'
      BY <2>1 DEF AskBuild, Becomes, Asked, TypeOK
    <3>2. Awaited(s) => Awaited(s)'
      BY <2>1, <3>1 DEF AskBuild, Awaited, moveVars
    <3>3. \A q \in Procs : Building(q, s)' <=> Building(q, s)
      BY <2>1 DEF AskBuild, Becomes, Building, TypeOK
    <3> QED
      BY <2>1, <3>2, <3>3, <1>f DEF AskBuild
  <2>2. CASE StartBuild(p)
    <3>1. on[p] \in Regs /\ UNCHANGED <<regs, row, files, moved>>
      BY <2>2 DEF StartBuild, TypeOK, moveVars
    <3>2. CASE on[p] = s
      <4>1. Becomes(p, "render", s) /\ held' = [held EXCEPT ![p] = row[s]]
        BY <2>2, <3>1, <3>2 DEF StartBuild
      <4>2. Building(p, s)' /\ held'[p] = row'[s]
        BY <3>1, <4>1 DEF Becomes, Building, TypeOK
      <4> QED
        BY <4>2 DEF BeingPrinted
    <3>3. CASE on[p] # s
      <4>1. \A q \in Procs : q # p => pc'[q] = pc[q] /\ on'[q] = on[q] /\ held'[q] = held[q]
        BY <2>2 DEF StartBuild, Becomes, Ends, TypeOK
      <4>2. on'[p] # s
        BY <2>2, <3>3 DEF StartBuild, Becomes, Ends, TypeOK
      <4>3. s \in stale => s \in stale'
        BY <2>2, <3>3 DEF StartBuild
      <4>4. Awaited(s) => Awaited(s)'
        BY <3>1, <3>3, <4>1, <4>3 DEF Awaited, Asked
      <4>5. \A q \in Procs : /\ Building(q, s)' <=> Building(q, s)
                             /\ Building(q, s) => held'[q] = held[q]
        BY <3>3, <4>1, <4>2 DEF Building
      <4> QED
        BY <3>1, <4>4, <4>5, <1>f
    <3> QED
      BY <3>2, <3>3
  <2>3. CASE MakeFolder(p)
    <3>1. \A q \in Procs : Building(q, s)' <=> Building(q, s)
      BY <2>3 DEF MakeFolder, Becomes, Building, TypeOK
    <3>2. \A q \in Procs : Asked(q, s) => Asked(q, s)'
      BY <2>3 DEF MakeFolder, Becomes, Asked, TypeOK
    <3>3. Awaited(s) => Awaited(s)'
      BY <2>3, <3>2 DEF MakeFolder, Awaited, moveVars
    <3> QED
      BY <2>3, <3>1, <3>3, <1>f DEF MakeFolder
  <2>4. CASE WriteFile(p) \/ RemoveOld(p)
    <3>1. on[p] \in Regs /\ pc[p] = "write" /\ UNCHANGED <<regs, row, pc, on, held, moved, stale>>
      BY <2>4, WriteDoes, RemoveDoes
    <3>2. s # on[p] => files'[s] = files[s]
      BY <2>4, WriteDoes, RemoveDoes DEF TypeOK
    <3>3. Awaited(s) => Awaited(s)'
      BY <3>1 DEF Awaited, Asked
    <3>4. BeingPrinted(s) => BeingPrinted(s)'
      BY <3>1 DEF BeingPrinted, Building
    <3>5. Printed(s) => s # on[p]
      BY <3>1 DEF Printed, Building
    <3> QED
      BY <3>1, <3>2, <3>3, <3>4, <3>5, <1>f DEF Building, Current
  <2>5. CASE FinishBuild(p)
    <3>1. /\ pc[p] = "write" /\ todo[p] = {} /\ Obsolete(on[p], held[p]) = {} /\ Ends(p)
          /\ on[p] \in Regs /\ UNCHANGED <<regs, row, files, moved, stale>>
      BY <2>5 DEF FinishBuild, TypeOK, moveVars
    <3>2. Awaited(s) => Awaited(s)'
      BY <3>1 DEF Awaited, Asked, Ends, Becomes, TypeOK
    <3>3. \A q \in Procs : Building(q, s)' <=> q # p /\ Building(q, s)
      BY <3>1, BecomesFrame DEF Ends
    <3>4. CASE on[p] = s
      <4>1. \A q \in Procs : Building(q, s) => q = p
        BY <3>1, <3>4, Alone DEF Building
      <4>2. files[s] = FilesOf(held[p])
        BY <3>1, <3>4, DoneIsPrinted DEF Written
      <4>3. BeingPrinted(s) => files'[s] = FilesOf(row'[s])
        BY <3>1, <4>1, <4>2 DEF BeingPrinted
      <4>4. BeingPrinted(s) => Printed(s)'
        BY <3>3, <4>1, <4>3 DEF Printed, FilesOf, File, KindsFor
      <4>5. ~Printed(s)
        BY <3>1, <3>4 DEF Printed, Building
      <4> QED
        BY <3>1, <3>2, <4>4, <4>5 DEF Current
    <3>5. CASE on[p] # s
      <4>1. ~Building(p, s)
        BY <3>5 DEF Building
      <4>2. \A q \in Procs : q # p => held'[q] = held[q]
        BY <3>1 DEF Ends, TypeOK
      <4> QED
        BY <3>1, <3>2, <3>3, <4>1, <4>2, <1>f
    <3> QED
      BY <3>4, <3>5
  <2>6. CASE BuildFails(p)
    <3>1. /\ pc[p] \in {"render", "write"} /\ Ends(p) /\ stale' = stale \cup {on[p]}
          /\ UNCHANGED <<regs, row, files, moved>>
      BY <2>6 DEF BuildFails, moveVars
    <3>2. CASE on[p] = s
      BY <3>1, <3>2 DEF Awaited
    <3>3. CASE on[p] # s
      <4>1. Awaited(s) => Awaited(s)'
        BY <3>1 DEF Awaited, Asked, Ends, Becomes, TypeOK
      <4>2. \A q \in Procs : Building(q, s)' <=> Building(q, s)
        BY <3>1, <3>3, BecomesFrame DEF Ends, Building
      <4>3. \A q \in Procs : q # p => held'[q] = held[q]
        BY <3>1 DEF Ends, TypeOK
      <4> QED
        BY <3>1, <3>3, <4>1, <4>2, <4>3, <1>f DEF Building
    <3> QED
      BY <3>2, <3>3
  <2> QED
    BY <1>8, <2>1, <2>2, <2>3, <2>4, <2>5, <2>6 DEF BuildStep
<1>9. ASSUME NEW r \in Regs, DeleteRow(r) PROVE Goal
  <2>1. regs[s] = "live"
    BY <1>9 DEF DeleteRow, TypeOK
  <2> QED
    BY <1>9, <2>1, <1>u, <1>f DEF DeleteRow, requestVars, moveVars, Building
<1>10. ASSUME NEW r \in Regs, RemoveFolder(r) PROVE Goal
  <2>1. s # r
    BY <1>10 DEF RemoveFolder, Folders
  <2> QED
    BY <1>10, <2>1, <1>u, <1>f DEF RemoveFolder, requestVars, moveVars, Building, TypeOK
<1>11. ASSUME NEW r \in Regs, RemoveFails(r) PROVE Goal
  BY <1>11, <1>u, <1>f DEF RemoveFails, requestVars, moveVars, Building
<1>12. CASE Restart
  <2>1. UNCHANGED <<regs, row, files>> /\ \A q \in Procs : ~Building(q, s)'
    BY <1>12 DEF Restart, Building
  <2>2. Awaited(s) \/ BeingPrinted(s) => s \in stale'
    BY <1>12 DEF Restart, Awaited, BeingPrinted
  <2>3. Printed(s) => Printed(s)'
    BY <2>1 DEF Printed, FilesOf, File, KindsFor
  <2> QED
    BY <2>1, <2>2, <2>3 DEF Current, Awaited
<1>13. CASE UNCHANGED vars
  BY <1>13, <1>u, <1>f DEF vars, Building
<1> QED
  BY <1>1, <1>2, <1>3, <1>4, <1>5, <1>6, <1>7, <1>8, <1>9, <1>10, <1>11, <1>12, <1>13 DEF Next, MoveStep

LEMMA StepKeeps == IInv /\ [Next]_vars => IInv'
<1> SUFFICES ASSUME IInv, [Next]_vars PROVE IInv'
  OBVIOUS
<1>1. TypeOK' /\ Turns'
  BY TypeKept, TurnsKept DEF IInv
<1>2. Folders' /\ OnePerName' /\ Ages' /\ Written' /\ Current' /\ Emptied'
  BY <1>1, FoldersKept, OnePerNameKept, AgesKept, WrittenKept, CurrentKept, EmptiedKept DEF IInv
<1> QED
  BY <1>1, <1>2 DEF IInv

LEMMA Invariance == Spec => []IInv
BY InitEstablishes, StepKeeps, PTL DEF Spec

-------------------------------------------------------------------------------
(* The state of rows, folders and builds stays within its types.             *)
THEOREM DocumentsTyped == Spec => []TypeOK
<1>1. IInv => TypeOK
  BY DEF IInv
<1> QED
  BY <1>1, Invariance, PTL

(* A folder nothing is pending for holds exactly the documents of its row.   *)
THEOREM FoldersAgree == Spec => []SettledAgrees
<1>1. IInv => SettledAgrees
  BY DEF IInv, Current, SettledAgrees, Pending, Awaited, BeingPrinted, Printed
<1> QED
  BY <1>1, Invariance, PTL

(* Documents outlive their registration only by an overlap or a failure.     *)
THEOREM OrphansExplained == Spec => []OrphanOnlyFromOverlap
<1>1. IInv => OrphanOnlyFromOverlap
  BY DEF IInv, Emptied, OrphanOnlyFromOverlap
<1> QED
  BY <1>1, Invariance, PTL

(* A stored file is only ever replaced by one as young or younger.           *)
THEOREM FilesGetYounger == Spec => NeverOlder
<1>1. ASSUME IInv, [Next]_vars, NEW r \in Regs, NEW f \in files[r], NEW g \in files'[r], SameFile(f, g)
      PROVE  f.rev <= g.rev
  <2>1. f.rev \in Nat
    BY <1>1 DEF IInv, TypeOK, Files
  <2>2. CASE g \in files[r]
    BY <1>1, <2>1, <2>2 DEF IInv, OnePerName
  <2>3. CASE \E q \in Procs : Building(q, r) /\ g.rev = held[q].rev
    BY <1>1, <2>3 DEF IInv, Ages
  <2>4. StepOf(r)
    BY <1>1, Steps DEF IInv
  <2> QED
    BY <1>1, <2>2, <2>3, <2>4 DEF StepOf, FilesStep
<1>2. IInv /\ [Next]_vars =>
        [\A r \in Regs : \A f \in files[r], g \in files'[r] : SameFile(f, g) => f.rev <= g.rev]_vars
  BY <1>1
<1> QED
  BY <1>2, Invariance, PTL DEF Spec, NeverOlder

(* A stored Acord is never missing while its folder is not being removed.    *)
THEOREM AcordAlwaysThere == Spec => AcordKept
<1>1. ASSUME IInv, [Next]_vars, NEW r \in Regs, r \notin leaving, NEW f \in files[r], f.kind = "acord"
      PROVE  \E g \in files'[r] : g.kind = "acord"
  <2> USE <1>1 DEF IInv
  <2>1. ASSUME NEW p \in Procs, WriteFile(p) PROVE \E g \in files'[r] : g.kind = "acord"
    <3>1. PICK k \in todo[p] :
             files' = [files EXCEPT ![on[p]] =
                         {x \in @ : ~SameFile(x, File(k, held[p]))} \cup {File(k, held[p])}]
      BY <2>1, WriteDoes
    <3>2. CASE f \in files'[r]
      BY <3>2
    <3>3. CASE f \notin files'[r]
      <4>1. on[p] = r /\ SameFile(f, File(k, held[p])) /\ File(k, held[p]) \in files'[r]
        BY <3>1, <3>3 DEF TypeOK
      <4> QED
        BY <4>1 DEF SameFile
    <3> QED
      BY <3>2, <3>3
  <2>2. ASSUME NEW p \in Procs, RemoveOld(p) PROVE \E g \in files'[r] : g.kind = "acord"
    <3>1. /\ on[p] \in Regs /\ pc[p] = "write" /\ todo[p] = {}
          /\ \E x \in files[on[p]] : /\ files' = [files EXCEPT ![on[p]] = @ \ {x}]
                                     /\ \A k \in KindsFor(held[p]) : x # File(k, held[p])
      BY <2>2, RemoveDoes
    <3>2. PICK x \in files[on[p]] : /\ files' = [files EXCEPT ![on[p]] = @ \ {x}]
                                    /\ \A k \in KindsFor(held[p]) : x # File(k, held[p])
      BY <3>1
    <3>3. CASE on[p] # r
      BY <3>2, <3>3 DEF TypeOK
    <3>4. CASE on[p] = r
      <4>1. WrittenBy(p)
        BY <3>1, <3>4 DEF Written, Folders
      <4>2. held[p] \in Rows
        BY DEF TypeOK
      <4>3. "acord" \in KindsFor(held[p]) /\ File("acord", held[p]).kind = "acord"
        BY <4>2, FilesFacts DEF File
      <4>4. File("acord", held[p]) \in files[r]
        BY <3>1, <3>4, <4>1, <4>3 DEF WrittenBy
      <4>5. files'[r] = files[r] \ {x}
        BY <3>2, <3>4 DEF TypeOK
      <4> QED
        BY <3>2, <4>3, <4>4, <4>5
    <3> QED
      BY <3>3, <3>4
  <2>3. ASSUME NEW s \in Regs, RemoveFolder(s) PROVE \E g \in files'[r] : g.kind = "acord"
    BY <2>3 DEF RemoveFolder, TypeOK
  <2>4. CASE UNCHANGED files
    BY <2>4
  <2> QED
    BY <2>1, <2>2, <2>3, <2>4, FilesChange
<1>2. IInv /\ [Next]_vars => [\A r \in Regs : HasAcord(r) /\ r \notin leaving => HasAcord(r)']_vars
  BY <1>1 DEF HasAcord
<1> QED
  BY <1>2, Invariance, PTL DEF Spec, AcordKept
===============================================================================
