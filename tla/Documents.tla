------------------------------- MODULE Documents -------------------------------
(*****************************************************************************)
(* The stored PDFs of the registrations (club/documents: service, storage,   *)
(* season-move, bulk-delete; the handlers of the registration and documents  *)
(* controllers that use them).                                               *)
(*                                                                           *)
(* A row and the folder that belongs to it are two stores. A request writes  *)
(* the row, then asks for a build; builds of one registration run one at a   *)
(* time and each reads the row when it starts. A deletion removes the row,   *)
(* then the folder, and waits for no build. What a PDF says is the revision  *)
(* of the row it was rendered from; its name holds the child's name and the  *)
(* season. Temporary files, tokens and the history of rebuilds are left out. *)
(*****************************************************************************)
EXTENDS Naturals, Sequences

CONSTANTS
    Regs,       \* registrations
    Requests,   \* submits, edits, moves and downloads under way
    Answers,    \* what a registration can print: the name in its file names, and if a member
    MaxRev,     \* bound on the revisions of a row
    MaxFaults   \* bound on failed calls and restarts

Mover == "mover"  \* the background loop of a season move
NoReg == "none"

ASSUME DocumentsAssumption ==
    /\ Mover \notin Requests /\ NoReg \notin Regs /\ Answers # {}
    /\ MaxRev \in Nat /\ MaxFaults \in Nat

VARIABLES
    regs,       \* registration -> "new", "live", "gone"
    row,        \* registration -> what its documents print
    dirs,       \* registrations that have a folder
    files,      \* registration -> the PDFs in it
    pc, on,     \* process -> where it is, the registration it is about
    held, todo, \* process -> the row its build has read, the kinds still to write
    line,       \* registration -> its running build and those after it, in order
    moving,     \* registrations whose rows a season move has still to set
    moved,      \* those moved, waiting for the loop to rebuild them
    leaving,    \* deleted, the folder not yet removed
    stale,      \* a build failed, was skipped or lost since the last started (history)
    overrun,    \* a build ran while the folder was removed, or removing it failed (history)
    faults

requestVars == <<pc, on, held, todo, line>>
moveVars == <<moving, moved>>
vars == <<regs, row, dirs, files, pc, on, held, todo, line, moving, moved, leaving, stale, overrun, faults>>

Procs == Requests \cup {Mover}
Rows == [rev : 0 .. MaxRev, answers : Answers]
Nothing == CHOOSE data \in Rows : data.rev = 0  \* read by nobody
FirstRows == {data \in Rows : data.rev = 0}
Kinds == {"acord", "adeziune"}
Files == [kind : Kinds, name : {a.name : a \in Answers}, rev : 0 .. MaxRev]
Building(p, r) == pc[p] \in {"render", "write"} /\ on[p] = r
Asked(p, r) == pc[p] \in {"owe", "queued"} /\ on[p] = r

(* documentKindsFor: the Cerere de adeziune only for members.                *)
KindsFor(data) == IF data.answers.member THEN Kinds ELSE {"acord"}

File(kind, data) == [kind |-> kind, name |-> data.answers.name, rev |-> data.rev]
FilesOf(data) == {File(k, data) : k \in KindsFor(data)}

SameFile(f, g) == f.kind = g.kind /\ f.name = g.name

(* Mutant: only older files of the kinds just written are cleaned up.        *)
Obsolete_SameKinds(r, data) ==
    {f \in files[r] : f.kind \in KindsFor(data) /\ \A g \in FilesOf(data) : ~SameFile(f, g)}

(* What is no longer part of the set.                                        *)
Obsolete(r, data) == {f \in files[r] : \A g \in FilesOf(data) : ~SameFile(f, g)}

Becomes(p, step, r) ==
    /\ pc' = [pc EXCEPT ![p] = step]
    /\ on' = [on EXCEPT ![p] = r]

(* A build that has settled lets the next one of its registration start.     *)
Ends(p) ==
    /\ Becomes(p, "idle", NoReg)
    /\ line' = [line EXCEPT ![on[p]] = Tail(@)]
    /\ held' = [held EXCEPT ![p] = Nothing]
    /\ todo' = [todo EXCEPT ![p] = {}]

Faults == faults < MaxFaults /\ faults' = faults + 1

-------------------------------------------------------------------------------
(* submitPublic: the row is stored, its build comes next.                    *)
Submit(p, r) ==
    /\ pc[p] = "idle" /\ regs[r] = "new"
    /\ regs' = [regs EXCEPT ![r] = "live"]
    /\ \E data \in FirstRows : row' = [row EXCEPT ![r] = data]
    /\ Becomes(p, "owe", r)
    /\ UNCHANGED <<dirs, files, held, todo, line, moveVars, leaving, stale, overrun, faults>>

Revised(r) ==
    \E a \in Answers : row' = [row EXCEPT ![r] = [rev |-> @.rev + 1, answers |-> a]]

(* updateSubmission with a printed field, or a move of one registration: the *)
(* row changes and a rebuild follows, except to a season nobody knows.       *)
Edit(p, r) ==
    /\ pc[p] = "idle" /\ regs[r] = "live" /\ row[r].rev < MaxRev
    /\ Revised(r)
    /\ \/ Becomes(p, "owe", r) /\ UNCHANGED stale
       \/ UNCHANGED <<pc, on>> /\ stale' = stale \cup {r}
    /\ UNCHANGED <<regs, dirs, files, held, todo, line, moveVars, leaving, overrun, faults>>

(* storedOrBuilt: an administrator opens a document that is not there.       *)
OpenMissing(p, r) ==
    /\ pc[p] = "idle" /\ regs[r] # "new"
    /\ \E k \in Kinds : \A f \in files[r] : f.kind # k
    /\ Becomes(p, "owe", r)
    /\ UNCHANGED <<regs, row, dirs, files, held, todo, line, moveVars, leaving, stale, overrun, faults>>

(* moveRowsOnly begins, for the selected registrations (ids nobody has are   *)
(* skipped).                                                                 *)
StartMove ==
    /\ moving = {} /\ moved = {} /\ pc[Mover] = "idle"
    /\ \E some \in SUBSET Regs : some # {} /\ moving' = some
    /\ UNCHANGED <<regs, row, dirs, files, requestVars, moved, leaving, stale, overrun, faults>>

(* One row is set; a missing one is skipped, and one whose update fails.     *)
MoveRow(r) ==
    /\ r \in moving
    /\ moving' = moving \ {r}
    /\ \/ /\ regs[r] = "live" /\ row[r].rev < MaxRev
          /\ Revised(r)
          /\ moved' = moved \cup {r}
       \/ UNCHANGED <<row, moved>>
    /\ UNCHANGED <<regs, dirs, files, requestVars, leaving, stale, overrun, faults>>

(* Mutant: the loop asks for a build of no registration.                     *)
RebuildMoved_NoId(r) ==
    /\ moving = {} /\ r \in moved /\ pc[Mover] = "idle"
    /\ moved' = moved \ {r}
    /\ Becomes(Mover, "owe", NoReg)
    /\ UNCHANGED <<regs, row, dirs, files, held, todo, line, moving, leaving, stale, overrun, faults>>

(* rebuildMoved takes the moved registrations one by one, when all are set.  *)
RebuildMoved(r) ==
    /\ moving = {} /\ r \in moved /\ pc[Mover] = "idle"
    /\ moved' = moved \ {r}
    /\ Becomes(Mover, "owe", r)
    /\ UNCHANGED <<regs, row, dirs, files, held, todo, line, moving, leaving, stale, overrun, faults>>

(* rebuildMoved to a season nobody knows: the documents stay as they are.    *)
RebuildSkipped ==
    /\ moving = {} /\ moved # {} /\ pc[Mover] = "idle"
    /\ stale' = stale \cup moved
    /\ moved' = {}
    /\ UNCHANGED <<regs, row, dirs, files, requestVars, moving, leaving, overrun, faults>>

-------------------------------------------------------------------------------
(* oneAtATime: a build takes its place behind those of its registration.     *)
AskBuild(p) ==
    /\ pc[p] = "owe"
    /\ Becomes(p, "queued", on[p])
    /\ line' = [line EXCEPT ![on[p]] = Append(@, p)]
    /\ UNCHANGED <<regs, row, dirs, files, held, todo, moveVars, leaving, stale, overrun, faults>>

(* Mutant: a build starts at once.                                           *)
HasTurn_AtOnce(p) == TRUE

HasTurn(p) == line[on[p]] # <<>> /\ Head(line[on[p]]) = p

(* Mutant: a build begins without looking whether the row is still there.    *)
StartBuild_AnyRow(p) ==
    /\ pc[p] = "queued" /\ HasTurn(p)
    /\ Becomes(p, "render", on[p])
    /\ held' = [held EXCEPT ![p] = row[on[p]]]
    /\ stale' = stale \ {on[p]}
    /\ UNCHANGED <<regs, row, dirs, files, todo, line, moveVars, leaving, overrun, faults>>

(* buildNow reads the row; without one there is nothing to build.            *)
StartBuild(p) ==
    /\ pc[p] = "queued" /\ HasTurn(p)
    /\ IF regs[on[p]] = "live"
       THEN /\ Becomes(p, "render", on[p])
            /\ held' = [held EXCEPT ![p] = row[on[p]]]
            /\ stale' = stale \ {on[p]}
            /\ UNCHANGED <<todo, line>>
       ELSE Ends(p) /\ UNCHANGED stale
    /\ UNCHANGED <<regs, row, dirs, files, moveVars, leaving, overrun, faults>>

(* Mutant: the old files go before the new ones are written.                 *)
MakeFolder_Empties(p) ==
    /\ pc[p] = "render"
    /\ dirs' = dirs \cup {on[p]}
    /\ files' = [files EXCEPT ![on[p]] = {}]
    /\ todo' = [todo EXCEPT ![p] = KindsFor(held[p])]
    /\ Becomes(p, "write", on[p])
    /\ UNCHANGED <<regs, row, held, line, moveVars, leaving, stale, overrun, faults>>

(* Everything is rendered; replaceStored makes the folder.                   *)
MakeFolder(p) ==
    /\ pc[p] = "render"
    /\ dirs' = dirs \cup {on[p]}
    /\ todo' = [todo EXCEPT ![p] = KindsFor(held[p])]
    /\ Becomes(p, "write", on[p])
    /\ UNCHANGED <<regs, row, files, held, line, moveVars, leaving, stale, overrun, faults>>

(* The next file, the Acord first, replaces the one of its name.             *)
WriteFile(p) ==
    /\ pc[p] = "write" /\ todo[p] # {} /\ on[p] \in dirs
    /\ \E k \in todo[p] :
       /\ "acord" \in todo[p] => k = "acord"
       /\ files' = [files EXCEPT ![on[p]] =
                       {f \in @ : ~SameFile(f, File(k, held[p]))} \cup {File(k, held[p])}]
       /\ todo' = [todo EXCEPT ![p] = @ \ {k}]
    /\ UNCHANGED <<regs, row, dirs, pc, on, held, line, moveVars, leaving, stale, overrun, faults>>

(* All are written: what is no longer part of the set goes.                  *)
RemoveOld(p) ==
    /\ pc[p] = "write" /\ todo[p] = {}
    /\ \E f \in Obsolete(on[p], held[p]) : files' = [files EXCEPT ![on[p]] = @ \ {f}]
    /\ UNCHANGED <<regs, row, dirs, requestVars, moveVars, leaving, stale, overrun, faults>>

FinishBuild(p) ==
    /\ pc[p] = "write" /\ todo[p] = {} /\ Obsolete(on[p], held[p]) = {}
    /\ Ends(p)
    /\ UNCHANGED <<regs, row, dirs, files, moveVars, leaving, stale, overrun, faults>>

(* Mutant: a build that failed keeps its place, those behind it wait.        *)
BuildFails_Blocks(p) ==
    /\ pc[p] \in {"render", "write"} /\ Faults
    /\ stale' = stale \cup {on[p]}
    /\ Becomes(p, "idle", NoReg)
    /\ UNCHANGED <<regs, row, dirs, files, held, todo, line, moveVars, leaving, overrun>>

(* Any step of a build may fail, and writing does once the folder is gone:   *)
(* it is logged, what is stored stays, and the next build has its turn.      *)
BuildFails(p) ==
    /\ pc[p] \in {"render", "write"}
    /\ \/ Faults
       \/ pc[p] = "write" /\ todo[p] # {} /\ on[p] \notin dirs /\ UNCHANGED faults
    /\ stale' = stale \cup {on[p]}
    /\ Ends(p)
    /\ UNCHANGED <<regs, row, dirs, files, moveVars, leaving, overrun>>

-------------------------------------------------------------------------------
(* deleteSubmission, deleteArchivedSeason: first the row ...                 *)
DeleteRow(r) ==
    /\ regs[r] = "live"
    /\ regs' = [regs EXCEPT ![r] = "gone"]
    /\ leaving' = leaving \cup {r}
    /\ UNCHANGED <<row, dirs, files, requestVars, moveVars, stale, overrun, faults>>

(* ... then the folder, whatever builds of it are doing.                     *)
RemoveFolder(r) ==
    /\ r \in leaving
    /\ leaving' = leaving \ {r}
    /\ dirs' = dirs \ {r}
    /\ files' = [files EXCEPT ![r] = {}]
    /\ overrun' = IF \E p \in Procs : Building(p, r) THEN overrun \cup {r} ELSE overrun
    /\ UNCHANGED <<regs, row, requestVars, moveVars, stale, faults>>

(* A folder that cannot be removed is logged.                                *)
RemoveFails(r) ==
    /\ r \in leaving
    /\ Faults
    /\ leaving' = leaving \ {r}
    /\ overrun' = overrun \cup {r}
    /\ UNCHANGED <<regs, row, dirs, files, requestVars, moveVars, stale>>

(* The server restarts: builds, moves and deletions under way are lost.      *)
Restart ==
    /\ Faults
    /\ pc' = [p \in Procs |-> "idle"] /\ on' = [p \in Procs |-> NoReg]
    /\ line' = [r \in Regs |-> <<>>]
    /\ moving' = {} /\ moved' = {} /\ leaving' = {}
    /\ stale' = stale \cup moved \cup {r \in Regs : \E p \in Procs : Asked(p, r) \/ Building(p, r)}
    /\ overrun' = overrun \cup leaving
    /\ held' = [p \in Procs |-> Nothing] /\ todo' = [p \in Procs |-> {}]
    /\ UNCHANGED <<regs, row, dirs, files>>

Init ==
    /\ regs = [r \in Regs |-> "new"]
    /\ row = [r \in Regs |-> Nothing]
    /\ dirs = {} /\ files = [r \in Regs |-> {}]
    /\ pc = [p \in Procs |-> "idle"] /\ on = [p \in Procs |-> NoReg]
    /\ held = [p \in Procs |-> Nothing]
    /\ todo = [p \in Procs |-> {}]
    /\ line = [r \in Regs |-> <<>>]
    /\ moving = {} /\ moved = {} /\ leaving = {}
    /\ stale = {} /\ overrun = {}
    /\ faults = 0

BuildStep(p) ==
    \/ AskBuild(p) \/ StartBuild(p) \/ MakeFolder(p) \/ WriteFile(p) \/ RemoveOld(p)
    \/ FinishBuild(p) \/ BuildFails(p)

MoveStep == (\E r \in Regs : MoveRow(r) \/ RebuildMoved(r)) \/ RebuildSkipped

Next ==
    \/ \E p \in Requests, r \in Regs : Submit(p, r) \/ Edit(p, r) \/ OpenMissing(p, r)
    \/ StartMove \/ MoveStep
    \/ \E p \in Procs : BuildStep(p)
    \/ \E r \in Regs : DeleteRow(r) \/ RemoveFolder(r) \/ RemoveFails(r)
    \/ Restart

Spec == Init /\ [][Next]_vars

(* Calls settle and timers fire, so what is under way goes on.               *)
Fairness == WF_vars(MoveStep) /\ \A p \in Procs : WF_vars(BuildStep(p))

FairSpec == Spec /\ Fairness

-------------------------------------------------------------------------------
(* The values the state is built from.                                       *)
TypeOK ==
    /\ regs \in [Regs -> {"new", "live", "gone"}]
    /\ row \in [Regs -> Rows] /\ held \in [Procs -> Rows]
    /\ dirs \subseteq Regs
    /\ files \in [Regs -> SUBSET Files]
    /\ pc \in [Procs -> {"idle", "owe", "queued", "render", "write"}]
    /\ on \in [Procs -> Regs \cup {NoReg}]
    /\ \A p \in Procs : pc[p] # "idle" => on[p] \in Regs
    /\ todo \in [Procs -> SUBSET Kinds]
    /\ line \in [Regs -> Seq(Procs)]
    /\ moving \subseteq Regs /\ moved \subseteq Regs /\ leaving \subseteq Regs
    /\ stale \subseteq Regs /\ overrun \subseteq Regs
    /\ faults \in 0 .. MaxFaults

Pending(r) == r \in moved \/ \E p \in Procs : Asked(p, r) \/ Building(p, r)

(* With no build pending and none failed, lost or skipped since the last     *)
(* began, the folder holds exactly the documents of the row as it is: no     *)
(* order of edits, moves, downloads and builds leaves an older answer, a     *)
(* former name or a document too many (oneAtATime, replaceStored).           *)
SettledAgrees ==
    \A r \in Regs : regs[r] = "live" /\ ~Pending(r) /\ r \notin stale => files[r] = FilesOf(row[r])

HasAcord(r) == \E f \in files[r] : f.kind = "acord"

(* A stored Acord is there at every moment until its registration's folder   *)
(* is removed: new files are written before old ones go, whatever fails.     *)
AcordKept == [][\A r \in Regs : HasAcord(r) /\ r \notin leaving => HasAcord(r)']_vars

(* A file is never replaced by one rendered from an older row.               *)
NeverOlder ==
    [][\A r \in Regs : \A f \in files[r], g \in files'[r] : SameFile(f, g) => f.rev <= g.rev]_vars

(* Documents of a deleted registration stay behind only when a build was     *)
(* running while the folder was removed, or it could not be removed.         *)
OrphanOnlyFromOverlap ==
    \A r \in Regs : regs[r] = "gone" /\ r \notin leaving /\ files[r] # {} => r \in overrun

(* Every request gets its answer, whatever builds before it do.              *)
EveryBuildSettles == \A p \in Procs : pc[p] # "idle" ~> pc[p] = "idle"
===============================================================================
