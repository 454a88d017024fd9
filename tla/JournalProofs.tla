---------------------------- MODULE JournalProofs ----------------------------
(***************************************************************************)
(* Two subjects, for every set of processes and files and every bound.     *)
(*                                                                         *)
(* 1. Exclusive ownership of the operation lock, under two conditions: a   *)
(*    recovery is started only when the owner of the lock is gone, and no  *)
(*    cleanup meets a release that fails.                                  *)
(* 2. What the journal and the recovery payload of an operation say of     *)
(*    each other and of the process that works on it, where besides the    *)
(*    first condition releases do not fail: an operation never changes its *)
(*    outcome, and whatever a dead process leaves behind is something the  *)
(*    recovery accepts.                                                    *)
(***************************************************************************)
EXTENDS SessionMutationsProofs

(* Exclusive ownership.  No cleanup meets a release that fails.            *)
CleanRelease == "cleanup-index" \notin Kinds \/ "release" \notin FaultPoints

(* A process that has an operation.                                        *)
Working(p) == pc[p] \notin {"idle", "scanned", "checked"}

(* Operations have numbers already drawn, and two processes never work on  *)
(* the same one.                                                           *)
OwnOperation ==
  /\ lock.op \in 0 .. ops
  /\ \A p \in Procs : IF Working(p) THEN job[p].op \in 1 .. ops ELSE job[p].op = 0
  /\ \A p, q \in Procs : p # q /\ Working(p) /\ Working(q) => job[p].op # job[q].op
HoldersOwn == \A p \in Procs : Holding(p) => lock.op = job[p].op
(* Where nothing can fail in a release, a process still owns the lock      *)
(* while it releases it.                                                   *)
ReleasersOwn ==
  "release" \notin FaultPoints =>
    \A p \in Procs : Working(p) => /\ lock.op = job[p].op
                                   /\ pc[p] # "lock-created" => lock.written
(* Only a cleanup undoes its work after a failed release.                  *)
UndoIsCleanup ==
  /\ \A p \in Procs : job[p].kind \in Kinds \cup {"none"}
  /\ \A o \in OpIds : payload[o].kind \in Kinds \cup {"none"}
  /\ \A p \in Procs : job[p].rel.next = "undo" => "cleanup-index" \in Kinds

Ownership == OwnOperation /\ HoldersOwn /\ ReleasersOwn /\ UndoIsCleanup

(* What most steps of a process that holds the lock have in common: the    *)
(* lock stays, and the process goes on with its operation or stops.        *)
GoesOn(p) ==
  /\ pc'[p] \notin {"idle", "scanned", "checked", "lock-created"}
  /\ job'[p].op = job[p].op
  /\ job'[p].kind = job[p].kind
  /\ job'[p].rel.next = "undo" =>
       job[p].rel.next = "undo" \/ job[p].kind = "cleanup-index"
OthersStay(p) == \A q \in Procs \ {p} : pc'[q] = pc[q] /\ job'[q] = job[q]
Stays(p) ==
  /\ UNCHANGED <<lock, ops>>
  /\ OthersStay(p)
  /\ GoesOn(p) \/ (pc'[p] = "idle" /\ job'[p] = NoJob)
  /\ \A o \in OpIds : payload'[o].kind \in {payload[o].kind, job[p].kind, "none"}

(* The initial states satisfy Ownership.                                   *)
LEMMA InitOwned == Init => Ownership
BY BoundsAssumption
DEF Init, Ownership, OwnOperation, HoldersOwn, ReleasersOwn, UndoIsCleanup, Working, Holding,
       NoLock, NoJob, NoRelease, NoPayload

(* A process that stays with its operation keeps Ownership.                *)
LEMMA StaysOwned ==
  ASSUME Typed, Ownership, NEW p \in Procs, Stays(p), Holding(p), pc[p] # "lock-created"
  PROVE  Ownership'
<1>0. NoJob.op = 0 /\ NoJob.kind = "none" /\ NoJob.rel.next = "none"
  BY DEF NoJob, NoRelease
<1>1. OwnOperation'
  BY <1>0 DEF Ownership, OwnOperation, Stays, GoesOn, OthersStay, Working, Holding
<1>2. HoldersOwn'
  BY <1>0 DEF Ownership, HoldersOwn, Stays, GoesOn, OthersStay, Holding
<1>3. ReleasersOwn'
  BY <1>0 DEF Ownership, ReleasersOwn, Stays, GoesOn, OthersStay, Working, Holding
<1>4. UndoIsCleanup'
  BY <1>0 DEF Ownership, UndoIsCleanup, Stays, GoesOn, OthersStay
<1> QED BY <1>1, <1>2, <1>3, <1>4 DEF Ownership

(* Places and jobs are functions of the processes.                         *)
LEMMA JobFunction ==
  ASSUME Typed, NEW p \in Procs
  PROVE  /\ pc \in [Procs -> Locations] /\ job \in [Procs -> Jobs]
         /\ DOMAIN pc = Procs /\ DOMAIN job = Procs
         /\ job[p] \in Jobs /\ job[p].rel \in Releases
         /\ DOMAIN job[p] = {"kind", "op", "from", "seen", "snap", "bundle", "todo", "done", "cur",
                             "marks", "post", "rel"}
BY DEF Typed, JobTyped, Jobs

(* What reading a written surface again changes.                           *)
LEMMA Rereads ==
  ASSUME Typed, NEW p \in Procs, RereadWritten(p)
  PROVE  /\ pc[p] = "restore-reread" /\ UNCHANGED <<data, disk, bin, ops, crashes>>
         /\ \A q \in Procs \ {p} : pc'[q] = pc[q] /\ job'[q] = job[q]
         /\ job'[p].kind = job[p].kind /\ job'[p].op = job[p].op /\ job'[p].from = job[p].from
         /\ job'[p].snap = job[p].snap /\ job'[p].bundle = job[p].bundle
         /\ job'[p].marks = job[p].marks /\ job'[p].seen = job[p].seen
         /\ \E s \in job[p].cur :
              \/ /\ pc'[p] = "restore-mark" /\ job'[p].done = job[p].done \cup {s}
                 /\ job'[p].cur = job[p].cur /\ job'[p].todo = job[p].todo
                 /\ job'[p].post = [job[p].post EXCEPT ![s] = live[s]]
              \/ /\ pc'[p] = "unrestore" /\ job'[p].done = job[p].done
                 /\ job'[p].cur = {s} /\ job'[p].todo = job[p].done
                 /\ job'[p].post = job[p].post
<1>1. pc[p] = "restore-reread" /\ UNCHANGED <<data, disk, bin, ops, crashes>>
  BY ReadsBack
<1>2. PICK s \in job[p].cur :
         \/ /\ Goto(p, "restore-mark")
            /\ job' = [job EXCEPT ![p] = [job[p] EXCEPT
                         !.done = job[p].done \cup {s},
                         !.post = [job[p].post EXCEPT ![s] = live[s]]]]
         \/ RestoreFails(p, {s})
  BY ReadsBack
<1> DEFINE i == [job[p].post EXCEPT ![s] = live[s]]
           j == [job[p] EXCEPT !.done = job[p].done \cup {s}, !.post = i]
           f == [job[p] EXCEPT !.todo = job[p].done, !.cur = {s}]
<1>3. /\ j.kind = job[p].kind /\ j.op = job[p].op /\ j.from = job[p].from
      /\ j.snap = job[p].snap /\ j.bundle = job[p].bundle /\ j.marks = job[p].marks
      /\ j.seen = job[p].seen
      /\ j.done = job[p].done \cup {s} /\ j.cur = job[p].cur /\ j.todo = job[p].todo
      /\ j.post = i
  <2> HIDE DEF i
  <2> QED BY JobFunction DEF Jobs
<1>4. /\ f.kind = job[p].kind /\ f.op = job[p].op /\ f.from = job[p].from
      /\ f.snap = job[p].snap /\ f.bundle = job[p].bundle /\ f.marks = job[p].marks
      /\ f.seen = job[p].seen
      /\ f.done = job[p].done /\ f.cur = {s} /\ f.todo = job[p].done
      /\ f.post = job[p].post
  BY JobFunction DEF Jobs
<1>5. CASE Goto(p, "restore-mark") /\ job' = [job EXCEPT ![p] = j]
  <2> HIDE DEF j
  <2>1. /\ pc'[p] = "restore-mark" /\ job'[p] = j
        /\ \A q \in Procs \ {p} : pc'[q] = pc[q] /\ job'[q] = job[q]
    BY <1>5, JobFunction DEF Goto
  <2> QED BY <1>1, <1>3, <2>1
<1>6. CASE RestoreFails(p, {s})
  <2>1. Goto(p, "unrestore") /\ job' = [job EXCEPT ![p] = f]
    BY <1>6 DEF RestoreFails
  <2> HIDE DEF f, j
  <2>2. /\ pc'[p] = "unrestore" /\ job'[p] = f
        /\ \A q \in Procs \ {p} : pc'[q] = pc[q] /\ job'[q] = job[q]
    BY <2>1, JobFunction DEF Goto
  <2> QED BY <1>1, <1>4, <2>2
<1> QED BY <1>2, <1>5, <1>6

(* How each way to leave a step looks to the invariant.                    *)
LEMMA StopLeaves ==
  ASSUME Typed, NEW p \in Procs, Stop(p)
  PROVE  OthersStay(p) /\ pc'[p] = "idle" /\ job'[p] = NoJob
BY JobFunction DEF Stop, OthersStay

(* Where each way to leave a step leads.                                   *)
LEMMA GotoLeaves ==
  ASSUME Typed, NEW p \in Procs, NEW l, Goto(p, l), job' = job,
         l \notin {"idle", "scanned", "checked", "lock-created"}
  PROVE  OthersStay(p) /\ GoesOn(p) /\ pc'[p] = l
BY JobFunction DEF Goto, OthersStay, GoesOn

(* Where a release leads.                                                  *)
LEMMA ReleaseLeaves ==
  ASSUME Typed, NEW p \in Procs, NEW stage, NEW next, ReleaseAs(p, stage, next),
         next = "undo" => job[p].kind = "cleanup-index"
  PROVE  OthersStay(p) /\ GoesOn(p) /\ pc'[p] = "rel-stage"
BY JobFunction DEF ReleaseAs, Goto, OthersStay, GoesOn, Jobs

(* Where a release after a checkpoint that threw leads.                    *)
LEMMA MarkedLeaves ==
  ASSUME Typed, NEW p \in Procs, NEW marks, NEW stage, NEW next \in {"ignore", "require"},
         ReleaseMarked(p, marks, stage, next)
  PROVE  /\ OthersStay(p) /\ GoesOn(p) /\ pc'[p] = "rel-stage" /\ job'[p].rel.stage = stage
         /\ job'[p].marks = marks /\ job'[p].op = job[p].op /\ job'[p].kind = job[p].kind
         /\ job'[p].from = job[p].from /\ job'[p].bundle = job[p].bundle
         /\ job'[p].todo = job[p].todo /\ job'[p].done = job[p].done
         /\ job'[p].seen = job[p].seen /\ job'[p].snap = job[p].snap
<1> DEFINE rel == [stage |-> stage, next |-> next]
           j == [job[p] EXCEPT !.marks = marks, !.rel = rel]
<1>1. /\ j.op = job[p].op /\ j.kind = job[p].kind /\ j.rel = rel /\ j.marks = marks
      /\ j.from = job[p].from /\ j.bundle = job[p].bundle
      /\ j.todo = job[p].todo /\ j.done = job[p].done
      /\ j.seen = job[p].seen /\ j.snap = job[p].snap
  BY JobFunction DEF Jobs
<1>2. rel.next = next /\ rel.stage = stage
  OBVIOUS
<1>3. job' = [job EXCEPT ![p] = j] /\ Goto(p, "rel-stage")
  BY DEF ReleaseMarked
<1> HIDE DEF j, rel
<1> QED BY <1>1, <1>2, <1>3, JobFunction DEF Goto, OthersStay, GoesOn

(* Where an error of a commit leads.                                       *)
LEMMA CommitFailsLeaves ==
  ASSUME Typed, NEW p \in Procs, CommitFails(p)
  PROVE  OthersStay(p) /\ GoesOn(p)
BY JobFunction DEF CommitFails, Goto, OthersStay, GoesOn, Jobs

(* Where an error before the payload leads.                                *)
LEMMA PrepareFailsLeaves ==
  ASSUME Typed, NEW p \in Procs, PrepareFails(p)
  PROVE  OthersStay(p) /\ GoesOn(p)
BY ReleaseLeaves, GotoLeaves DEF PrepareFails

(* The steps of deleteSessions keep operation and place.                   *)
LEMMA DeleteStays ==
  ASSUME Typed, NEW p \in Procs, DeleteStep(p)
  PROVE  Stays(p) /\ Holding(p) /\ pc[p] # "lock-created"
<1> USE StopLeaves, GotoLeaves, ReleaseLeaves, CommitFailsLeaves, PrepareFailsLeaves, JobFunction
        DEF Stays, disk, Holding
<1>1. CASE EnterPrepared(p)
  BY <1>1 DEF EnterPrepared
<1>2. CASE CheckSelection(p)
  BY <1>2 DEF CheckSelection
<1>3. CASE Capture(p)
  BY <1>3 DEF Capture, Goto, OthersStay, GoesOn, Jobs
<1>4. CASE WritePayload(p)
  BY <1>4 DEF WritePayload, Typed
<1>5. CASE Recheck(p)
  BY <1>5 DEF Recheck
<1>6. CASE EnterCommitting(p)
  BY <1>6 DEF EnterCommitting, Goto, OthersStay, GoesOn, Jobs
<1>7. CASE StartSurface(p)
  BY <1>7 DEF StartSurface, Goto, OthersStay, GoesOn, Jobs
<1>8. CASE MarkSurface(p)
  <2> DEFINE l(o) == IF Throws(o) THEN "undo" ELSE "commit"
             m == job[p].marks \cup {<<s, "committed">> : s \in job[p].cur}
             j(o) == [job[p] EXCEPT !.marks = m, !.cur = {},
                        !.todo = IF Throws(o) THEN job[p].done ELSE job[p].todo \ job[p].cur]
  <2> PICK o \in Outcome("journal") : job' = [job EXCEPT ![p] = j(o)] /\ Goto(p, l(o))
    BY <1>8 DEF MarkSurface
  <2> HIDE DEF m
  <2>1. j(o).op = job[p].op /\ j(o).kind = job[p].kind /\ j(o).rel = job[p].rel
    BY DEF Jobs
  <2> HIDE DEF j
  <2>2. OthersStay(p) /\ GoesOn(p)
    BY <2>1 DEF Goto, OthersStay, GoesOn
  <2> QED BY <1>8, <2>2 DEF MarkSurface
<1>9. CASE EnterVerifying(p)
  BY <1>9 DEF EnterVerifying
<1>10. CASE RemoveFromIndex(p)
  BY <1>10 DEF RemoveFromIndex, Goto, OthersStay, GoesOn, Jobs
<1>11. CASE RemoveFromGlobalState(p)
  BY <1>11 DEF RemoveFromGlobalState, Goto, OthersStay, GoesOn, Jobs
<1>12. CASE UndoGlobalState(p)
  BY <1>12 DEF UndoGlobalState
<1>13. CASE RemoveFile(p)
  BY <1>13 DEF RemoveFile, Goto, OthersStay, GoesOn, Jobs
<1>14. CASE RemoveRows(p)
  BY <1>14 DEF RemoveRows
<1>15. CASE RemoveLogs(p)
  BY <1>15 DEF RemoveLogs, Goto, OthersStay, GoesOn, Jobs
<1> QED BY <1>1, <1>2, <1>3, <1>4, <1>5, <1>6, <1>7, <1>8, <1>9, <1>10, <1>11, <1>12, <1>13,
           <1>14, <1>15 DEF DeleteStep

(* The rollback of a delete keeps operation and place.                     *)
LEMMA UndoStays ==
  ASSUME Typed, NEW p \in Procs, UndoStep(p)
  PROVE  Stays(p) /\ Holding(p) /\ pc[p] # "lock-created"
<1> USE GotoLeaves, ReleaseLeaves, JobFunction DEF Stays, disk, Holding
<1>1. CASE UndoSurface(p)
  BY <1>1 DEF UndoSurface, OthersStay, GoesOn, Jobs
<1>2. CASE UndoEnds(p)
  BY <1>2 DEF UndoEnds
<1> QED BY <1>1, <1>2 DEF UndoStep

(* The steps of a move to the trash keep operation and place.              *)
LEMMA TrashStays ==
  ASSUME Typed, NEW p \in Procs, TrashStep(p)
  PROVE  Stays(p) /\ Holding(p) /\ pc[p] # "lock-created"
<1> USE GotoLeaves, ReleaseLeaves, JobFunction DEF Stays, disk, Holding, DropTmp, KeepEntry
<1>1. CASE WriteTrashPayload(p)
  BY <1>1 DEF WriteTrashPayload, TrashPayload, Typed
<1>2. CASE MakeTmp(p)
  BY <1>2 DEF MakeTmp
<1>3. CASE BuildBundle(p)
  BY <1>3 DEF BuildBundle, Goto, OthersStay, GoesOn, Jobs
<1>4. CASE CommitTrashEntry(p)
  BY <1>4 DEF CommitTrashEntry
<1>5. CASE MarkTrashEntry(p)
  BY <1>5 DEF MarkTrashEntry
<1>6. CASE DropTrash(p)
  BY <1>6 DEF DropTrash
<1>7. CASE TearEntry(p)
  BY <1>7 DEF TearEntry
<1> QED BY <1>1, <1>2, <1>3, <1>4, <1>5, <1>6, <1>7 DEF TrashStep

(* The steps of an index cleanup keep operation and place.                 *)
LEMMA CleanupStays ==
  ASSUME Typed, NEW p \in Procs, CleanupStep(p), ~CheckIndexes(p)
  PROVE  Stays(p) /\ Holding(p) /\ pc[p] # "lock-created"
<1> USE GotoLeaves, ReleaseLeaves, CommitFailsLeaves, JobFunction DEF Stays, disk, Holding
<1>1. CASE WriteCleanupPayload(p)
  BY <1>1 DEF WriteCleanupPayload, CleanupPayload, Typed, Goto, OthersStay, GoesOn, Jobs
<1>2. CASE RecheckCleanup(p)
  BY <1>2 DEF RecheckCleanup
<1>3. CASE CommitCleanup(p)
  BY <1>3 DEF CommitCleanup, Goto, OthersStay, GoesOn, Jobs
<1>4. CASE StartIndex(p)
  BY <1>4 DEF StartIndex, Goto, OthersStay, GoesOn, Jobs
<1>5. CASE VerifyCleanup(p)
  BY <1>5 DEF VerifyCleanup, Cleans
<1> QED BY <1>1, <1>2, <1>3, <1>4, <1>5 DEF CleanupStep

(* Where a refusal leads.                                                  *)
LEMMA RefuseLeaves ==
  ASSUME Typed, NEW p \in Procs, Refuse(p)
  PROVE  OthersStay(p) /\ GoesOn(p)
BY ReleaseLeaves DEF Refuse

(* Where an error of a restore leads.                                      *)
LEMMA RestoreFailsLeaves ==
  ASSUME Typed, NEW p \in Procs, NEW stuck, RestoreFails(p, stuck)
  PROVE  OthersStay(p) /\ GoesOn(p)
BY JobFunction DEF RestoreFails, Goto, OthersStay, GoesOn, Jobs

(* A step that only puts other records, marks or surfaces into the job.    *)
Keeps(p, j) == j.op = job[p].op /\ j.kind = job[p].kind /\ j.rel = job[p].rel
(* A process that stays with its operation, and where it goes.             *)
LEMMA KeepsLeaves ==
  ASSUME Typed, NEW p \in Procs, NEW j, Keeps(p, j), job' = [job EXCEPT ![p] = j],
         NEW l, l \notin {"idle", "scanned", "checked", "lock-created"}, Goto(p, l)
  PROVE  OthersStay(p) /\ GoesOn(p)
BY JobFunction DEF Keeps, Goto, OthersStay, GoesOn

(* Finding an entry keeps the operation and its place.                     *)
LEMMA EntryStays ==
  ASSUME Typed, NEW p \in Procs, EntryStep(p),
         ~(ReadForRestore(p) \/ ReadForPurge(p) \/ EntryNotFound(p))
  PROVE  Stays(p) /\ Holding(p) /\ pc[p] # "lock-created"
<1> USE GotoLeaves, RefuseLeaves, JobFunction DEF Stays, disk, Holding
<1>1. CASE PrepareEntry(p)
  BY <1>1 DEF PrepareEntry
<1>2. CASE CheckEntry(p)
  BY <1>2 DEF CheckEntry
<1>3. CASE CommitEntry(p)
  BY <1>3 DEF CommitEntry
<1> QED BY <1>1, <1>2, <1>3 DEF EntryStep

(* The steps of a restore keep operation and place.                        *)
LEMMA RestoreStays ==
  ASSUME Typed, NEW p \in Procs, RestoreStep(p)
  PROVE  Stays(p) /\ Holding(p) /\ pc[p] # "lock-created"
<1> USE GotoLeaves, RefuseLeaves, RestoreFailsLeaves, ReleaseLeaves, JobFunction
        DEF Stays, disk, Holding
<1>1. CASE CheckConflicts(p)
  BY <1>1 DEF CheckConflicts
<1>2. CASE CaptureRestore(p)
  <2> DEFINE j == [job[p] EXCEPT !.snap = live, !.todo = RestorePlan(p)]
  <2>1. Keeps(p, j)
    BY DEF Keeps, Jobs
  <2>2. OthersStay(p) /\ GoesOn(p)
    BY <1>2, <2>1, KeepsLeaves DEF CaptureRestore
  <2> QED BY <1>2, <2>2 DEF CaptureRestore
<1>3. CASE WriteRestorePayload(p)
  BY <1>3 DEF WriteRestorePayload, Typed
<1>4. CASE StartRestore(p)
  <2> DEFINE m(s) == job[p].marks \cup
                       {<<x, "started">> : x \in IF s \in Rows THEN Rows ELSE {s}}
             j(s, o) == [job[p] EXCEPT !.marks = m(s), !.cur = IF Throws(o) THEN {} ELSE {s},
                                       !.todo = IF Throws(o) THEN job[p].done ELSE job[p].todo]
             l(o) == IF Throws(o) THEN "unrestore" ELSE "put-back"
  <2> PICK s \in First(job[p].todo, RestoreRank), o \in Outcome("journal") :
        job' = [job EXCEPT ![p] = j(s, o)] /\ Goto(p, l(o))
    BY <1>4 DEF StartRestore
  <2> HIDE DEF m
  <2>1. Keeps(p, j(s, o))
    BY DEF Keeps, Jobs
  <2> HIDE DEF j
  <2>2. OthersStay(p) /\ GoesOn(p)
    BY <2>1, KeepsLeaves
  <2> QED BY <1>4, <2>2 DEF StartRestore
<1>5. CASE RestoreText(p)
  <2> PICK s \in job[p].cur \ Rows :
        \/ Goto(p, "restore-mark") /\ job' = job
        \/ RestoreFails(p, {})
        \/ Goto(p, "restore-reread") /\ job' = job
    BY <1>5 DEF RestoreText
  <2>1. OthersStay(p) /\ GoesOn(p)
    BY DEF Goto, OthersStay, GoesOn, Jobs
  <2> QED BY <1>5, <2>1 DEF RestoreText
<1>6. CASE MarkRestored(p)
  <2> DEFINE m == job[p].marks \cup {<<s, "committed">> : s \in job[p].cur}
             j(o) == [job[p] EXCEPT !.marks = m, !.cur = {},
                        !.todo = IF Throws(o) THEN job[p].done ELSE job[p].todo \ job[p].cur]
             l(o) == IF Throws(o) THEN "unrestore" ELSE "restore"
  <2> PICK o \in Outcome("journal") : job' = [job EXCEPT ![p] = j(o)] /\ Goto(p, l(o))
    BY <1>6 DEF MarkRestored
  <2> HIDE DEF m
  <2>1. Keeps(p, j(o))
    BY DEF Keeps, Jobs
  <2> HIDE DEF j
  <2>2. OthersStay(p) /\ GoesOn(p)
    BY <2>1, KeepsLeaves
  <2> QED BY <1>6, <2>2 DEF MarkRestored
<1>7. CASE RestoreRows(p)
  <2>1. /\ pc[p] = "put-back" /\ UNCHANGED <<lock, payload, ops>>
        /\ \/ RestoreFails(p, {})
           \/ Goto(p, "unrestore-goals") /\ job' = job
           \/ pc' = pc /\ job' = [job EXCEPT ![p].cur = {"sqlite-state"}]
           \/ Goto(p, "restored") /\ job' = job
    BY <1>7 DEF RestoreRows
  <2>2. OthersStay(p) /\ GoesOn(p)
    BY <2>1 DEF OthersStay, GoesOn, Jobs
  <2> QED BY <2>1, <2>2
<1>8. CASE RemoveGoals(p)
  <2>1. OthersStay(p) /\ GoesOn(p)
    BY <1>8 DEF RemoveGoals
  <2> QED BY <1>8, <2>1 DEF RemoveGoals
<1>9. CASE UndoRestore(p)
  <2> DEFINE j(s, o) == [job[p] EXCEPT !.todo = job[p].todo \ {s},
                           !.cur = IF Throws(o) THEN job[p].cur \cup {s} ELSE job[p].cur]
  <2>0. \E s, o : job' = [job EXCEPT ![p] = j(s, o)] /\ pc' = pc
    BY <1>9 DEF UndoRestore
  <2> PICK s, o : job' = [job EXCEPT ![p] = j(s, o)] /\ pc' = pc
    BY <2>0
  <2>1. Keeps(p, j(s, o))
    BY DEF Keeps, Jobs
  <2> HIDE DEF j
  <2>2. OthersStay(p) /\ GoesOn(p)
    BY <1>9, <2>1 DEF UndoRestore, OthersStay, GoesOn, Keeps
  <2> QED BY <1>9, <2>2 DEF UndoRestore
<1>10. CASE UndoRestoreEnds(p)
  BY <1>10 DEF UndoRestoreEnds
<1>11. CASE MarkRows(p)
  <2> DEFINE m == job[p].marks \cup {<<s, "committed">> : s \in Rows}
  <2>1. \/ ReleaseMarked(p, m, "committed", "require")
        \/ Goto(p, "restore-verify") /\ job' = [job EXCEPT ![p].marks = m]
    BY <1>11 DEF MarkRows
  <2> HIDE DEF m
  <2>2. OthersStay(p) /\ GoesOn(p)
    BY <2>1, MarkedLeaves DEF Goto, OthersStay, GoesOn, Jobs
  <2> QED BY <1>11, <2>2 DEF MarkRows
<1>12. CASE VerifyRestore(p)
  <2>1. \/ ReleaseAs(p, "committed", "require") \/ ReleaseAs(p, "committed", "insist")
    BY <1>12 DEF VerifyRestore
  <2>2. OthersStay(p) /\ GoesOn(p)
    BY <2>1
  <2> QED BY <1>12, <2>2 DEF VerifyRestore
<1>13. CASE RereadWritten(p)
  <2>1. UNCHANGED <<disk, bin, ops>> /\ pc[p] = "restore-reread"
    BY <1>13, ReadsBack
  <2> PICK s \in job[p].cur :
         \/ /\ Goto(p, "restore-mark")
            /\ job' = [job EXCEPT ![p] = [job[p] EXCEPT
                         !.done = job[p].done \cup {s},
                         !.post = [job[p].post EXCEPT ![s] = live[s]]]]
         \/ RestoreFails(p, {s})
    BY <1>13, ReadsBack
  <2> DEFINE j == [job[p] EXCEPT !.done = job[p].done \cup {s},
                                 !.post = [job[p].post EXCEPT ![s] = live[s]]]
  <2>2. Keeps(p, j)
    BY DEF Keeps, Jobs
  <2>3. CASE Goto(p, "restore-mark") /\ job' = [job EXCEPT ![p] = j]
    <3> HIDE DEF j
    <3>1. OthersStay(p) /\ GoesOn(p)
      BY <2>2, <2>3, KeepsLeaves
    <3> QED BY <2>1, <3>1
  <2>4. CASE RestoreFails(p, {s})
    <3>1. OthersStay(p) /\ GoesOn(p)
      BY <2>4
    <3> QED BY <2>1, <3>1
  <2> QED BY <2>3, <2>4
<1> QED BY <1>1, <1>2, <1>3, <1>4, <1>5, <1>6, <1>7, <1>8, <1>9, <1>10, <1>11, <1>12, <1>13
        DEF RestoreStep

(* The steps of a purge keep operation and place.                          *)
LEMMA PurgeStays ==
  ASSUME Typed, NEW p \in Procs, PurgeStep(p)
  PROVE  Stays(p) /\ Holding(p) /\ pc[p] # "lock-created"
<1> USE GotoLeaves, RefuseLeaves, ReleaseLeaves, JobFunction DEF Stays, disk, Holding, PurgeFails
<1>1. CASE WritePurgePayload(p)
  BY <1>1 DEF WritePurgePayload, Typed
<1>2. CASE RecheckPurge(p)
  BY <1>2 DEF RecheckPurge
<1>3. CASE CheckpointPurge(p)
  <2> DEFINE j == [job[p] EXCEPT !.marks = PurgeMarks(p)]
  <2>0. \/ ReleaseMarked(p, PurgeMarks(p), "recovery_required", "ignore")
        \/ /\ job' = [job EXCEPT ![p] = j]
           /\ \E l \in {"purge-logs", "purge-quarantine", "purge-remove", "purge-verify"} : Goto(p, l)
    BY <1>3 DEF CheckpointPurge
  <2>1. Keeps(p, j)
    BY DEF Keeps, Jobs
  <2> HIDE DEF j
  <2>2. OthersStay(p) /\ GoesOn(p)
    BY <2>0, <2>1, KeepsLeaves, MarkedLeaves
  <2> QED BY <1>3, <2>2 DEF CheckpointPurge
<1>4. CASE PurgeLogs(p)
  BY <1>4 DEF PurgeLogs
<1>5. CASE QuarantineEntry(p)
  BY <1>5 DEF QuarantineEntry
<1>6. CASE RemoveQuarantine(p)
  BY <1>6 DEF RemoveQuarantine
<1>7. CASE VerifyPurge(p)
  <2>1. \/ ReleaseAs(p, "committed", "require") \/ ReleaseAs(p, "committed", "insist")
    BY <1>7 DEF VerifyPurge
  <2>2. OthersStay(p) /\ GoesOn(p)
    BY <2>1
  <2> QED BY <1>7, <2>2 DEF VerifyPurge
<1> QED BY <1>1, <1>2, <1>3, <1>4, <1>5, <1>6, <1>7 DEF PurgeStep

(* The steps of a recovery keep operation and place.                       *)
LEMMA RecoveryStays ==
  ASSUME Typed, NEW p \in Procs, RecoveryStep(p), ~BeginRecovery(p), ~FinalizeUnlock(p)
  PROVE  Stays(p) /\ Holding(p) /\ pc[p] # "lock-created"
<1> USE StopLeaves, GotoLeaves, JobFunction DEF Stays, disk, Holding
<1>1. CASE RecoverSurface(p)
  BY <1>1 DEF RecoverSurface, OthersStay, GoesOn, Jobs
<1>2. CASE SurfacesRecovered(p)
  BY <1>2 DEF SurfacesRecovered
<1>3. CASE RecoverTrash(p)
  BY <1>3 DEF RecoverTrash
<1>4. CASE RefuseTrash(p)
  BY <1>4 DEF RefuseTrash
<1>5. CASE FinalizeStage(p)
  BY <1>5 DEF FinalizeStage
<1>6. CASE FinalizePayload(p)
  BY <1>6 DEF FinalizePayload, NoPayload, Typed
<1>7. CASE RecoverQuarantine(p)
  BY <1>7 DEF RecoverQuarantine, OthersStay, GoesOn
<1> QED BY <1>1, <1>2, <1>3, <1>4, <1>5, <1>6, <1>7 DEF RecoveryStep

(* Before an operation has a lock.                                         *)
LEMMA ApproachOwned ==
  ASSUME Typed, Ownership, NEW p \in Procs, pc[p] \in {"idle", "scanned", "checked"},
         UNCHANGED <<disk, ops>>, OthersStay(p),
         pc'[p] \in {"idle", "scanned", "checked"},
         job'[p].op = 0, job'[p].kind \in Kinds \cup {"none"},
         job'[p].rel.next = "undo" => job[p].rel.next = "undo"
  PROVE  Ownership'
BY DEF Ownership, OwnOperation, HoldersOwn, ReleasersOwn, UndoIsCleanup, Working, Holding,
       OthersStay, disk

(* Scanning and taking the lock keeps Ownership.                           *)
LEMMA AcquireOwned ==
  ASSUME Typed, Ownership, NEW p \in Procs, AcquireStep(p)
  PROVE  Ownership'
<1> USE JobFunction
<1>0. NoJob.op = 0 /\ NoJob.kind = "none" /\ NoJob.rel.next = "none"
  BY DEF NoJob, NoRelease
<1>1. ASSUME NEW kind \in Kinds, ScanRoot(p, kind) PROVE Ownership'
  BY <1>0, <1>1, ApproachOwned DEF ScanRoot, Goto, OthersStay, NoJob
<1>2. CASE CreateLock(p)
  <2>1. /\ lock' = [op |-> ops + 1, written |-> FALSE] /\ ops' = ops + 1 /\ ops \in Nat
        /\ lock.op = 0 /\ ~Working(p) /\ payload' = payload
        /\ pc'[p] = "lock-created" /\ job'[p].op = ops + 1
        /\ job'[p].kind = job[p].kind /\ job'[p].rel = job[p].rel /\ OthersStay(p)
    BY <1>2 DEF CreateLock, LockFree, ReadyToLock, Working, Goto, OthersStay, Typed, CountTyped,
                Jobs
  <2>2. OwnOperation'
    BY <2>1 DEF Ownership, OwnOperation, OthersStay, Working
  <2>3. \A q \in Procs : ~Holding(q)
    BY <2>1 DEF Ownership, OwnOperation, HoldersOwn, Holding, Working
  <2>4. HoldersOwn'
    BY <2>1, <2>3 DEF HoldersOwn, OthersStay, Holding
  <2>5. ReleasersOwn'
    BY <2>1 DEF Ownership, OwnOperation, ReleasersOwn, OthersStay, Working
  <2>6. UndoIsCleanup'
    BY <2>1 DEF Ownership, UndoIsCleanup, OthersStay
  <2> QED BY <2>2, <2>4, <2>5, <2>6 DEF Ownership
<1>3. CASE LockIsTaken(p)
  BY <1>0, <1>3, StopLeaves, ApproachOwned DEF LockIsTaken, ReadyToLock
<1>4. CASE WriteLock(p)
  <2>1. /\ lock'.op = lock.op /\ ops' = ops /\ payload' = payload
        /\ pc[p] = "lock-created" /\ OthersStay(p)
    BY <1>4, StopLeaves, GotoLeaves DEF WriteLock, Typed, LockTyped
  <2>2. \/ pc'[p] = "lock-written" /\ job'[p] = job[p] /\ lock'.written
        \/ pc'[p] = "idle" /\ job'[p] = NoJob
    BY <1>4, StopLeaves, GotoLeaves DEF WriteLock, Typed, LockTyped, Effect, Throws
  <2>3. OwnOperation' /\ HoldersOwn'
    BY <1>0, <2>1, <2>2
       DEF Ownership, OwnOperation, HoldersOwn, OthersStay, Working, Holding
  <2>4. ReleasersOwn'
    BY <2>1, <2>2 DEF Ownership, OwnOperation, ReleasersOwn, OthersStay, Working
  <2>5. UndoIsCleanup'
    BY <1>0, <2>1, <2>2 DEF Ownership, UndoIsCleanup, OthersStay
  <2> QED BY <2>3, <2>4, <2>5 DEF Ownership
<1>5. CASE CreateJournal(p)
  <2>1. Stays(p) /\ Holding(p) /\ pc[p] # "lock-created"
    BY <1>5, StopLeaves, GotoLeaves DEF CreateJournal, Stays, Holding
  <2> QED BY <2>1, StaysOwned
<1> QED BY <1>1, <1>2, <1>3, <1>4, <1>5 DEF AcquireStep

(* A release that fails never undoes, except for a cleanup.                *)
LEMMA ReleaseFailsLeaves ==
  ASSUME Typed, NEW p \in Procs, ReleaseFails(p), job[p].rel.next # "undo"
  PROVE  /\ OthersStay(p)
         /\ \/ GoesOn(p) /\ pc'[p] = "rel-stage"
            \/ pc'[p] = "idle" /\ job'[p] = NoJob
BY StopLeaves, ReleaseLeaves DEF ReleaseFails

(* A release that may fail is not one that undoes.                         *)
LEMMA NothingToUndo ==
  ASSUME CleanRelease, Ownership, NEW p \in Procs,
         "release" \in FaultPoints \/ (Working(p) /\ pc[p] # "lock-created" /\ ~OwnsLockFile(p))
  PROVE  job[p].rel.next # "undo"
BY DEF CleanRelease, Ownership, UndoIsCleanup, ReleasersOwn, OwnsLockFile

(* A release throws only where faults are.                                 *)
LEMMA ReleaseThrows ==
  ASSUME NEW o \in Outcome("release"), Throws(o)
  PROVE  "release" \in FaultPoints
BY DEF Outcome, Throws, FaultPoints

(* The lock file is removed by the process it names.                       *)
LEMMA UnlockOwned ==
  ASSUME Typed, Ownership, CleanRelease, NEW p \in Procs, Holding(p), pc[p] # "lock-created",
         OthersStay(p), UNCHANGED <<payload, ops>>, lock' \in {lock, NoLock},
         \/ pc'[p] = "idle" /\ job'[p] = NoJob
         \/ GoesOn(p) /\ pc'[p] = "rel-stage" /\ "release" \in FaultPoints
  PROVE  Ownership'
<1>0. NoJob.op = 0 /\ NoJob.kind = "none" /\ NoJob.rel.next = "none" /\ NoLock.op = 0
  BY DEF NoJob, NoRelease, NoLock
<1>1. ops \in Nat
  BY DEF Typed, CountTyped
<1>2. OwnOperation'
  BY <1>0, <1>1 DEF Ownership, OwnOperation, OthersStay, GoesOn, Working, Holding
<1>3. \A q \in Procs \ {p} : ~Holding(q)
  BY DEF Ownership, OwnOperation, HoldersOwn, Holding, Working
<1>4. HoldersOwn'
  BY <1>3 DEF HoldersOwn, OthersStay, Holding
<1>5. "release" \notin FaultPoints => \A q \in Procs \ {p} : ~Working(q)
  BY DEF Ownership, OwnOperation, ReleasersOwn, Working, Holding
<1>6. ReleasersOwn'
  BY <1>5 DEF ReleasersOwn, OthersStay, Working
<1>7. UndoIsCleanup'
  BY <1>0 DEF Ownership, UndoIsCleanup, OthersStay, GoesOn
<1> QED BY <1>2, <1>4, <1>6, <1>7 DEF Ownership

(* A release that has not yet checked the lock.                            *)
LEMMA UncheckedOwned ==
  ASSUME Typed, Ownership, NEW p \in Procs, pc[p] \in {"rel-stage", "rel-check"},
         OthersStay(p), UNCHANGED <<lock, payload, ops>>,
         \/ pc'[p] = "idle" /\ job'[p] = NoJob
         \/ GoesOn(p) /\ pc'[p] \in {"rel-stage", "rel-check"}
         \/ GoesOn(p) /\ lock.op = job[p].op
  PROVE  Ownership'
<1>0. NoJob.op = 0 /\ NoJob.kind = "none" /\ NoJob.rel.next = "none"
  BY DEF NoJob, NoRelease
<1>1. OwnOperation'
  BY <1>0 DEF Ownership, OwnOperation, OthersStay, GoesOn, Working
<1>2. HoldersOwn'
  BY DEF Ownership, HoldersOwn, OthersStay, GoesOn, Holding
<1>3. ReleasersOwn'
  BY DEF Ownership, ReleasersOwn, OthersStay, GoesOn, Working
<1>4. UndoIsCleanup'
  BY <1>0 DEF Ownership, UndoIsCleanup, OthersStay, GoesOn
<1> QED BY <1>1, <1>2, <1>3, <1>4 DEF Ownership

(* The steps of a release keep Ownership.                                  *)
LEMMA ReleaseOwned ==
  ASSUME Typed, Ownership, CleanRelease, NEW p \in Procs, ReleaseStep(p)
  PROVE  Ownership'
<1> USE StopLeaves, GotoLeaves, ReleaseFailsLeaves, NothingToUndo, ReleaseThrows
<1>1. CASE ReleaseStage(p)
  <2> PICK o \in Outcome("release") :
           IF Throws(o) THEN ReleaseFails(p)
           ELSE IF job[p].rel.stage = "recovery_required" THEN Stop(p)
           ELSE Goto(p, "rel-check") /\ job' = job
    BY <1>1 DEF ReleaseStage
  <2>1. CASE Throws(o)
    <3>1. job[p].rel.next # "undo"
      BY <2>1
    <3> QED BY <1>1, <2>1, <3>1, UncheckedOwned DEF ReleaseStage
  <2>2. CASE ~Throws(o)
    BY <1>1, <2>2, UncheckedOwned DEF ReleaseStage
  <2> QED BY <2>1, <2>2
<1>2. CASE ReleaseCheck(p)
  <2>1. CASE OwnsLockFile(p)
    <3>1. GoesOn(p) /\ OthersStay(p) /\ lock.op = job[p].op
      BY <1>2, <2>1 DEF ReleaseCheck, OwnsLockFile
    <3> QED BY <1>2, <3>1, UncheckedOwned DEF ReleaseCheck, disk
  <2>2. CASE ~OwnsLockFile(p)
    <3>1. job[p].rel.next # "undo"
      BY <1>2, <2>2 DEF ReleaseCheck, Working
    <3> QED BY <1>2, <2>2, <3>1, UncheckedOwned DEF ReleaseCheck, disk
  <2> QED BY <2>1, <2>2
<1>3. CASE ReleasePayload(p)
  <2> PICK o \in Outcome("release") :
           /\ payload' = IF Effect(o) THEN [payload EXCEPT ![job[p].op] = NoPayload] ELSE payload
           /\ IF Throws(o) THEN ReleaseFails(p) ELSE Goto(p, "rel-unlock") /\ job' = job
    BY <1>3 DEF ReleasePayload
  <2>1. OthersStay(p) /\ (GoesOn(p) \/ (pc'[p] = "idle" /\ job'[p] = NoJob))
    <3>1. CASE Throws(o)
      <4>1. job[p].rel.next # "undo"
        BY <3>1
      <4> QED BY <3>1, <4>1
    <3>2. CASE ~Throws(o)
      BY <3>2
    <3> QED BY <3>1, <3>2
  <2>2. \A x \in OpIds : payload'[x].kind \in {payload[x].kind, "none"}
    BY DEF NoPayload, Typed
  <2>3. Stays(p) /\ Holding(p) /\ pc[p] # "lock-created"
    BY <1>3, <2>1, <2>2 DEF ReleasePayload, Stays, Holding
  <2> QED BY <2>3, StaysOwned
<1>4. CASE ReleaseUnlock(p)
  <2> PICK o \in Outcome("release") :
           /\ lock' = IF Effect(o) THEN NoLock ELSE lock
           /\ IF Throws(o) THEN ReleaseFails(p) ELSE Stop(p)
    BY <1>4 DEF ReleaseUnlock
  <2>1. OthersStay(p)
    BY DEF ReleaseUnlock
  <2>2. \/ pc'[p] = "idle" /\ job'[p] = NoJob
        \/ GoesOn(p) /\ pc'[p] = "rel-stage" /\ "release" \in FaultPoints
    OBVIOUS
  <2> QED BY <1>4, <2>1, <2>2, UnlockOwned DEF ReleaseUnlock, Holding
<1> QED BY <1>1, <1>2, <1>3, <1>4 DEF ReleaseStep

(* The steps of a recovery keep Ownership.                                 *)
LEMMA RecoveryOwned ==
  ASSUME Typed, Ownership, CleanRelease, SupervisedRecovery, NEW p \in Procs, RecoveryStep(p)
  PROVE  Ownership'
<1>1. CASE BeginRecovery(p)
  <2>0. lock.op \in OpIds /\ lock.written /\ pc[p] = "idle"
    BY <1>1 DEF BeginRecovery, Readable, Typed, LockTyped, OpIds
  <2>1. \A q \in Procs : Working(q) => job[q].op # lock.op
    BY <1>1 DEF BeginRecovery, Unattended, Active, Working
  <2>2. /\ UNCHANGED <<lock, payload, ops>> /\ OthersStay(p)
        /\ pc'[p] \in {"rec", "fin-stage"}
        /\ job'[p].op = lock.op /\ job'[p].kind = payload[lock.op].kind
        /\ job'[p].rel.next = "none"
    BY <1>1, JobFunction DEF BeginRecovery, Goto, OthersStay, disk, NoJob
  <2>3. OwnOperation'
    BY <2>0, <2>1, <2>2 DEF Ownership, OwnOperation, OthersStay, Working, OpIds
  <2>4. HoldersOwn'
    BY <2>2 DEF Ownership, HoldersOwn, OthersStay, Holding
  <2>5. ReleasersOwn'
    BY <2>0, <2>2 DEF Ownership, ReleasersOwn, OthersStay, Working
  <2>6. UndoIsCleanup'
    BY <2>0, <2>2 DEF Ownership, UndoIsCleanup, OthersStay
  <2> QED BY <2>3, <2>4, <2>5, <2>6 DEF Ownership
<1>2. CASE FinalizeUnlock(p)
  BY <1>2, StopLeaves, UnlockOwned DEF FinalizeUnlock, Holding
<1>3. CASE ~BeginRecovery(p) /\ ~FinalizeUnlock(p)
  BY <1>3, RecoveryStays, StaysOwned
<1> QED BY <1>1, <1>2, <1>3

(* The steps of an index cleanup keep Ownership.                           *)
LEMMA CleanupOwned ==
  ASSUME Typed, Ownership, NEW p \in Procs, CleanupStep(p)
  PROVE  Ownership'
<1>1. CASE CheckIndexes(p)
  <2>1. OthersStay(p) /\ pc'[p] \in {"idle", "checked"} /\ pc[p] = "scanned"
    BY <1>1, JobFunction DEF CheckIndexes, Stop, Goto, OthersStay
  <2>2. job[p].op = 0
    BY <2>1 DEF Ownership, OwnOperation, Working
  <2>3. job'[p] = job[p] \/ job'[p] = NoJob
    BY <1>1, StopLeaves DEF CheckIndexes
  <2>4. /\ job'[p].op = 0 /\ job'[p].kind \in Kinds \cup {"none"}
        /\ job'[p].rel.next = "undo" => job[p].rel.next = "undo"
    BY <2>2, <2>3 DEF Ownership, UndoIsCleanup, NoJob, NoRelease
  <2> QED BY <1>1, <2>1, <2>4, ApproachOwned DEF CheckIndexes
<1>2. CASE ~CheckIndexes(p)
  BY <1>2, CleanupStays, StaysOwned
<1> QED BY <1>1, <1>2

(* Finding the entry of a restore or a purge keeps Ownership.              *)
LEMMA EntryOwned ==
  ASSUME Typed, Ownership, NEW p \in Procs, EntryStep(p)
  PROVE  Ownership'
<1>1. CASE ReadForRestore(p) \/ ReadForPurge(p) \/ EntryNotFound(p)
  <2>1. /\ OthersStay(p) /\ pc'[p] \in {"idle", "checked"} /\ pc[p] = "scanned"
        /\ UNCHANGED <<disk, ops>>
    BY <1>1, JobFunction DEF ReadForRestore, ReadForPurge, EntryNotFound, Stop, Goto, OthersStay
  <2>2. job[p].op = 0
    BY <2>1 DEF Ownership, OwnOperation, Working
  <2>3. job'[p] = NoJob \/ Keeps(p, job'[p])
    <3>1. CASE ReadForRestore(p)
      BY <3>1, JobFunction DEF ReadForRestore, Keeps, Jobs
    <3>2. CASE ReadForPurge(p)
      <4> DEFINE b(e) == IF LogsArePurged(job[p].seen, e) THEN LogKeys ELSE NoRecords
                 t(e) == IF LogsArePurged(job[p].seen, e) THEN {"logs"} ELSE {}
                 j(e) == [job[p] EXCEPT !.from = e, !.bundle = b(e), !.todo = t(e)]
      <4> PICK e \in ValidEntries : job' = [job EXCEPT ![p] = j(e)]
        BY <3>2 DEF ReadForPurge
      <4> HIDE DEF b, t
      <4>1. Keeps(p, j(e))
        BY JobFunction DEF Keeps, Jobs
      <4>2. job'[p] = j(e)
        BY JobFunction
      <4> HIDE DEF j
      <4> QED BY <4>1, <4>2
    <3>3. CASE EntryNotFound(p)
      BY <3>3, StopLeaves DEF EntryNotFound
    <3> QED BY <1>1, <3>1, <3>2, <3>3
  <2>4. /\ job'[p].op = 0 /\ job'[p].kind \in Kinds \cup {"none"}
        /\ job'[p].rel.next = "undo" => job[p].rel.next = "undo"
    BY <2>2, <2>3 DEF Ownership, UndoIsCleanup, NoJob, NoRelease, Keeps
  <2> QED BY <2>1, <2>4, ApproachOwned
<1>2. CASE ~(ReadForRestore(p) \/ ReadForPurge(p) \/ EntryNotFound(p))
  BY <1>2, EntryStays, StaysOwned
<1> QED BY <1>1, <1>2

(* A kill keeps Ownership.                                                 *)
LEMMA CrashOwned ==
  ASSUME Typed, Ownership, NEW p \in Procs, Crash(p)
  PROVE  Ownership'
<1>1. /\ OthersStay(p) /\ pc'[p] = "idle" /\ job'[p] = NoJob
      /\ UNCHANGED <<lock, payload, ops>>
  BY StopLeaves DEF Crash, disk
<1>2. NoJob.op = 0 /\ NoJob.kind = "none" /\ NoJob.rel.next = "none"
  BY DEF NoJob, NoRelease
<1> QED BY <1>1, <1>2
        DEF Ownership, OwnOperation, HoldersOwn, ReleasersOwn, UndoIsCleanup, OthersStay,
            Working, Holding

(* Every step keeps Ownership.                                             *)
LEMMA NextOwned ==
  ASSUME CleanRelease, SupervisedRecovery
  PROVE  Typed /\ Ownership /\ [Next]_vars => Ownership'
<1> SUFFICES ASSUME Typed, Ownership, [Next]_vars PROVE Ownership'
  OBVIOUS
<1>1. ASSUME NEW p \in Procs, OperationStep(p) PROVE Ownership'
  BY <1>1, AcquireOwned, DeleteStays, UndoStays, TrashStays, RestoreStays, PurgeStays,
     StaysOwned, CleanupOwned, EntryOwned, ReleaseOwned, RecoveryOwned DEF OperationStep
<1>2. ASSUME NEW p \in Procs, Crash(p) PROVE Ownership'
  BY <1>2, CrashOwned
<1>3. CASE CodexStep \/ UNCHANGED vars
  <2>1. UNCHANGED <<lock, payload, pc, job, ops>>
    BY <1>3 DEF CodexStep, CodexAdds, CodexChangesOthers, disk, vars
  <2> QED BY <2>1
          DEF Ownership, OwnOperation, HoldersOwn, ReleasersOwn, UndoIsCleanup, Working, Holding
<1> QED BY <1>1, <1>2, <1>3 DEF Next

(* Ownership is what exclusion needs.                                      *)
LEMMA OwnedIsExclusive == Typed /\ Ownership => ExclusiveOwner
<1> SUFFICES ASSUME Typed, Ownership, NEW p \in Procs, Holding(p)
             PROVE  /\ lock.op = job[p].op
                    /\ \A q \in Procs \ {p} : Active(q) => job[q].op # job[p].op
  BY DEF ExclusiveOwner
<1>1. Working(p) /\ job[p].op # 0
  BY DEF Ownership, OwnOperation, Working, Holding
<1>2. lock.op = job[p].op
  BY DEF Ownership, HoldersOwn
<1>3. ASSUME NEW q \in Procs \ {p} PROVE job[q].op # job[p].op
  BY <1>1 DEF Ownership, OwnOperation
<1> QED BY <1>2, <1>3

(* Exclusive lock: under a recovery that waits for the owner's end and     *)
(* releases that do not fail during a cleanup, whoever is about to write   *)
(* managed data finds the lock naming its own operation, and nobody else   *)
(* works on that operation (acquireMutationLock, SAFETY.md:83).            *)
THEOREM Exclusion ==
  ASSUME CleanRelease, SupervisedRecovery
  PROVE  Spec => []ExclusiveOwner
<1>1. Init => Typed /\ Ownership
  BY InitTyped, InitOwned
<1>2. Typed /\ Ownership /\ [Next]_vars => Typed' /\ Ownership'
  BY NextTyped, NextOwned
<1>3. Typed /\ Ownership => ExclusiveOwner
  BY OwnedIsExclusive
<1> QED BY <1>1, <1>2, <1>3, PTL DEF Spec

-----------------------------------------------------------------------------
(* The journal and the payload.                                            *)

(* A release whose system calls succeed.                                   *)
ReleaseSucceeds == "release" \notin FaultPoints

(* Where a process is, by what it is doing.                                *)
DeleteAt == {"prepared", "capture", "payload", "recheck", "enter-commit"}
CommitAt == {"commit", "remove", "mark", "undo-global-state", "undo"}
CleanupAt == {"cleanup-recheck", "cleanup-commit"}
MoveAt == {"trash-mkdir", "trash-bundle", "trash-seal", "trash-rename"}
EntryMadeAt == {"trash-mark", "trash-deletes"}
TrashAt == MoveAt \cup EntryMadeAt \cup {"trash-drop-tmp", "trash-drop-entry"}
RestoreBeginsAt == {"conflicts", "restore-capture", "restore-payload"}
RestoringAt == {"restore-commit", "restore", "put-back", "restore-reread", "restore-mark",
                "restored", "restore-verify", "unrestore", "unrestore-goals"}
PurgingAt == {"purge-recheck", "purge-commit", "purge-start", "purge-logs", "purge-logged",
              "purge-quarantine", "purge-quarantined", "purge-remove", "purge-removed",
              "purge-verify"}
ReconcileAt == {"rec", "rec-trash", "rec-rmdir"}
LockingAt == {"lock-created", "lock-written"}
(* The journal on disk has its last stage.                                 *)
ClosingAt == {"rel-check", "rel-payload", "rel-unlock", "fin-payload", "fin-unlock"}
(* The recovery payload is on disk.                                        *)
WithPayload == {"recheck", "enter-commit", "undo-global-state", "commit", "remove", "mark",
                "remove-logs", "trash-drop-entry"}
               \cup CleanupAt \cup MoveAt \cup EntryMadeAt \cup RestoringAt \cup PurgingAt
               \cup ReconcileAt
(* Nothing has been written to a surface yet.                              *)
EarlyAt == {"scanned", "checked", "acquired", "prepared", "capture", "payload"}
           \cup LockingAt \cup MoveAt \cup EntryMadeAt

(* A process is where its kind of operation can lead it.                   *)
KindFits(p) ==
  /\ pc[p] \in DeleteAt => job[p].kind \in {"delete", "trash"}
  /\ pc[p] = "remove-logs" => job[p].kind = "delete"
  /\ pc[p] \in CommitAt => job[p].kind \in {"delete", "trash", "cleanup-index"}
  /\ pc[p] \in CleanupAt => job[p].kind = "cleanup-index"
  /\ pc[p] \in TrashAt => job[p].kind = "trash"
  /\ pc[p] = "entry" => job[p].kind \in {"restore", "purge"}
  /\ pc[p] \in RestoreBeginsAt \cup RestoringAt => job[p].kind = "restore"
  /\ pc[p] \in PurgingAt \cup {"purge-payload"} => job[p].kind = "purge"
  /\ pc[p] \in {"rec-trash", "rec-rmdir"} => job[p].kind \in {"trash", "purge"}

(* The stage of the journal is the one a process at its place has written. *)
StageFits(p) ==
  LET stage == journal[job[p].op].stage IN
  Working(p) =>
    /\ pc[p] \in LockingAt => stage = "none"
    /\ pc[p] \in ClosingAt => stage \in Final
    /\ pc[p] = "fin-stage" =>
         job[p].rel.stage \in Final /\ (stage \in Final => job[p].rel.stage = stage)
    /\ pc[p] \in ReconcileAt => job[p].rel.stage \in Final
    /\ pc[p] \notin LockingAt \cup ClosingAt \cup {"fin-stage"} => stage \notin Final \cup {"none"}
    /\ pc[p] = "rel-stage" => job[p].rel.stage \in Final \cup {"recovery_required"}

(* The payload is of the operation's kind, and there before anything is    *)
(* changed that a recovery would have to look at.                          *)
PayloadFits(p) ==
  LET kind == payload[job[p].op].kind IN
  Working(p) =>
    /\ kind \in {"none", job[p].kind}
    /\ pc[p] \in WithPayload => kind # "none"
    /\ pc[p] \in DeleteAt \cup {"undo"} /\ job[p].kind = "trash" => kind # "none"
    /\ pc[p] = "undo" => job[p].todo = {} \/ kind # "none"
    /\ pc[p] = "rel-stage" /\ job[p].rel.stage = "recovery_required" => kind # "none"

DoneFits(p) == pc[p] \in EarlyAt => job[p].done = {}

Fits(p) == KindFits(p) /\ StageFits(p) /\ PayloadFits(p) /\ DoneFits(p)

(* The files of an operation: a journal past "prepared" has its payload,   *)
(* and so has whatever lies in the trash, until the operation has ended.   *)
FileFits(o) ==
  /\ journal[o].stage = "none" => payload[o].kind = "none"
  /\ journal[o].stage \in {"committing", "verifying", "recovery_required"} =>
       payload[o].kind # "none"
  /\ tmp[o] \/ entry[o].state # "absent" =>
       journal[o].stage \in Final \/ payload[o].kind # "none"
  /\ o \notin 1 .. ops => journal[o].stage = "none" /\ entry[o].state = "absent" /\ ~tmp[o]

JournalInv == (\A p \in Procs : Fits(p)) /\ (\A o \in OpIds : FileFits(o))

(* A step writes the files of its own operation only, and puts nothing     *)
(* into the trash for another.                                             *)
OwnFiles(p) ==
  \A o \in OpIds \ {job[p].op} :
    /\ journal'[o] = journal[o] /\ payload'[o] = payload[o] /\ tmp'[o] = tmp[o]
    /\ entry'[o].state # "absent" => entry[o].state # "absent"

(* The initial states satisfy JournalInv.                                  *)
LEMMA InitFits == Init => JournalInv
<1> SUFFICES ASSUME Init PROVE JournalInv
  OBVIOUS
<1> PICK k \in 0 .. InitialEntries : InitFrom(k)
  BY DEF Init
<1>1. ASSUME NEW p \in Procs PROVE Fits(p)
  BY DEF Init, Fits, KindFits, StageFits, PayloadFits, DoneFits, Working, DeleteAt, CommitAt,
         CleanupAt, MoveAt, EntryMadeAt, TrashAt, RestoreBeginsAt, RestoringAt, PurgingAt, EarlyAt,
         LockingAt
<1>2. ASSUME NEW o \in OpIds PROVE FileFits(o)
  BY BoundsAssumption DEF Init, InitFrom, FileFits, NoJournal, NoPayload, NoEntry, Final, OpIds
<1> QED BY <1>1, <1>2 DEF JournalInv

(* Where releases succeed, one process works at a time.                    *)
LEMMA OneWorker ==
  ASSUME ReleaseSucceeds, Ownership, NEW p \in Procs, Working(p)
  PROVE  /\ lock.op = job[p].op /\ job[p].op \in 1 .. ops
         /\ \A q \in Procs \ {p} : ~Working(q)
         /\ pc[p] # "lock-created" => lock.written
BY DEF ReleaseSucceeds, Ownership, OwnOperation, ReleasersOwn

(* A process that is not working makes no claims on files.                 *)
LEMMA IdleFits ==
  ASSUME NEW q \in Procs, ~Working(q), Fits(q), pc'[q] = pc[q], job'[q] = job[q]
  PROVE  Fits(q)'
BY DEF Fits, KindFits, StageFits, PayloadFits, DoneFits, Working

(* The files of the operation fit again.                                   *)
OwnFits(p) == \A o \in OpIds : o = job[p].op => FileFits(o)'

(* One step keeps JournalInv.                                              *)
LEMMA StepFits ==
  ASSUME ReleaseSucceeds, Typed, Ownership, JournalInv, NEW p \in Procs, Working(p),
         OthersStay(p), OwnFiles(p), ops' = ops, Fits(p)', OwnFits(p)
  PROVE  JournalInv'
<1>1. ASSUME NEW q \in Procs \ {p} PROVE Fits(q)'
  BY OneWorker, IdleFits DEF JournalInv, OthersStay
<1>2. ASSUME NEW o \in OpIds, o # job[p].op PROVE FileFits(o)'
  BY <1>2 DEF JournalInv, OwnFiles, FileFits
<1>3. ASSUME NEW o \in OpIds PROVE FileFits(o)'
  BY <1>2 DEF OwnFits
<1> QED BY <1>1, <1>3 DEF JournalInv

(* What a process that holds the lock can use.                             *)
LEMMA WorkerFits ==
  ASSUME ReleaseSucceeds, Typed, Ownership, JournalInv, NEW p \in Procs, Working(p)
  PROVE  /\ job[p].op \in OpIds /\ job[p].op \in 1 .. ops /\ Fits(p)
         /\ FileFits(job[p].op)
         /\ lock.op = job[p].op
<1>1. job[p].op \in OpIds /\ job[p].op \in 1 .. ops
  BY OneWorker, BoundsAssumption DEF OpIds, Typed, CountTyped
<1> QED BY <1>1, OneWorker DEF JournalInv

(* The steps of deleteSessions keep JournalInv.                            *)
LEMMA DeleteFits ==
  ASSUME ReleaseSucceeds, Typed, Ownership, JournalInv, NEW p \in Procs, DeleteStep(p)
  PROVE  OwnFiles(p) /\ Fits(p)' /\ OwnFits(p)
<1>0. /\ Working(p) /\ job[p].op \in OpIds /\ job[p].op \in 1 .. ops /\ Fits(p)
      /\ FileFits(job[p].op)
      /\ GoesOn(p) \/ (pc'[p] = "idle" /\ job'[p] = NoJob)
      /\ ops' = ops
  BY DeleteStays, WorkerFits DEF Stays, Holding, Working
<1> USE <1>0, JobFunction
    DEF Typed, GoesOn, Working, disk, bin, WriteJournal, Goto, ReleaseAs, Stop, CommitFails,
        PrepareFails,
        OwnFiles, OwnFits, FileFits, Fits, KindFits, StageFits, PayloadFits, DoneFits, Final,
        LockingAt, ClosingAt, DeleteAt, CommitAt, CleanupAt, MoveAt, EntryMadeAt, TrashAt,
        RestoreBeginsAt, RestoringAt, PurgingAt, ReconcileAt, EarlyAt, WithPayload
<1>1. CASE EnterPrepared(p)
  BY <1>1 DEF EnterPrepared, Deletes, OwnsLock, Jobs
<1>2. CASE CheckSelection(p)
  BY <1>2 DEF CheckSelection, Deletes, OwnsLock, Jobs
<1>3. CASE Capture(p)
  <2>1. \/ Goto(p, "payload") /\ \E i : job' = [job EXCEPT ![p].snap = i]
        \/ PrepareFails(p)
    BY <1>3 DEF Capture
  <2>2. CASE PrepareFails(p)
    BY <1>3, <2>2 DEF Capture, OwnsLock, Jobs
  <2>3. CASE Goto(p, "payload") /\ \E i : job' = [job EXCEPT ![p].snap = i]
    BY <1>3, <2>3 DEF Capture, Jobs
  <2> QED BY <2>1, <2>2, <2>3
<1>4. CASE WritePayload(p)
  <2> DEFINE v == [kind |-> job[p].kind, covers |-> Covered(p), before |-> BeforeImage(p),
                   moves |-> NoRecords, from |-> 0, sealed |-> ~OwnsLock(p)]
  <2>1. v.kind = job[p].kind
    OBVIOUS
  <2>2. \E o \in Outcome("payload") :
          /\ payload' = IF Effect(o) THEN [payload EXCEPT ![job[p].op] = v] ELSE payload
          /\ IF Throws(o) THEN CommitFails(p) ELSE Goto(p, "recheck") /\ job' = job
    BY <1>4 DEF WritePayload
  <2> HIDE DEF v
  <2> QED BY <1>4, <2>1, <2>2 DEF WritePayload, Effect, Throws, Jobs
<1>5. CASE Recheck(p)
  BY <1>5 DEF Recheck, Deletes, OwnsLock, Jobs
<1>6. CASE EnterCommitting(p)
  BY <1>6 DEF EnterCommitting, Deletes, OwnsLock, Jobs
<1>7. CASE StartSurface(p)
  BY <1>7 DEF StartSurface, Deletes, OwnsLock, Jobs
<1>8. CASE MarkSurface(p)
  BY <1>8 DEF MarkSurface, Deletes, OwnsLock, Jobs
<1>9. CASE EnterVerifying(p)
  BY <1>9 DEF EnterVerifying, Deletes, OwnsLock, Jobs
<1>10. CASE RemoveFromIndex(p)
  BY <1>10 DEF RemoveFromIndex, Deletes, OwnsLock, Jobs
<1>11. CASE RemoveFromGlobalState(p)
  <2>1. /\ pc[p] = "remove" /\ UNCHANGED <<disk, bin>>
        /\ \/ CommitFails(p)
           \/ Goto(p, "mark") /\ job' = job
           \/ Goto(p, "undo-global-state") /\ job' = job
           \/ Goto(p, "mark") /\ \E d : job' = [job EXCEPT ![p].done = d]
    BY <1>11 DEF RemoveFromGlobalState
  <2> QED BY <2>1 DEF Jobs
<1>12. CASE UndoGlobalState(p)
  BY <1>12 DEF UndoGlobalState, Deletes, OwnsLock, Jobs
<1>13. CASE RemoveFile(p)
  BY <1>13 DEF RemoveFile, Deletes, OwnsLock, Jobs
<1>14. CASE RemoveRows(p)
  BY <1>14 DEF RemoveRows, Deletes, OwnsLock, Jobs
<1>15. CASE RemoveLogs(p)
  BY <1>15 DEF RemoveLogs, Deletes, OwnsLock, Jobs
<1> QED BY <1>1, <1>2, <1>3, <1>4, <1>5, <1>6, <1>7, <1>8, <1>9, <1>10, <1>11, <1>12, <1>13, <1>14, <1>15
        DEF DeleteStep

(* The rollback of a delete keeps JournalInv.                              *)
LEMMA UndoFits ==
  ASSUME ReleaseSucceeds, Typed, Ownership, JournalInv, NEW p \in Procs, UndoStep(p)
  PROVE  OwnFiles(p) /\ Fits(p)' /\ OwnFits(p)
<1>0. /\ Working(p) /\ job[p].op \in OpIds /\ job[p].op \in 1 .. ops /\ Fits(p)
      /\ FileFits(job[p].op)
      /\ GoesOn(p) \/ (pc'[p] = "idle" /\ job'[p] = NoJob)
      /\ ops' = ops
  BY UndoStays, WorkerFits DEF Stays, Holding, Working
<1> USE <1>0, JobFunction
    DEF Typed, GoesOn, Working, disk, bin, WriteJournal, Goto, ReleaseAs, Stop,
        OwnFiles, OwnFits, FileFits, Fits, KindFits, StageFits, PayloadFits, DoneFits, Final,
        LockingAt, ClosingAt, DeleteAt, CommitAt, CleanupAt, MoveAt, EntryMadeAt, TrashAt,
        RestoreBeginsAt, RestoringAt, PurgingAt, ReconcileAt, EarlyAt, WithPayload
<1>1. CASE UndoSurface(p)
  BY <1>1 DEF UndoSurface, First, Jobs
<1>2. CASE UndoEnds(p)
  BY <1>2 DEF UndoEnds, Jobs
<1> QED BY <1>1, <1>2 DEF UndoStep

(* The steps of a move to the trash keep JournalInv.                       *)
LEMMA TrashFits ==
  ASSUME ReleaseSucceeds, Typed, Ownership, JournalInv, NEW p \in Procs, TrashStep(p)
  PROVE  OwnFiles(p) /\ Fits(p)' /\ OwnFits(p)
<1>0. /\ Working(p) /\ job[p].op \in OpIds /\ job[p].op \in 1 .. ops /\ Fits(p)
      /\ FileFits(job[p].op)
      /\ GoesOn(p) \/ (pc'[p] = "idle" /\ job'[p] = NoJob)
      /\ ops' = ops
  BY TrashStays, WorkerFits DEF Stays, Holding, Working
<1> USE <1>0, JobFunction
    DEF Typed, GoesOn, Working, disk, bin, WriteJournal, Goto, ReleaseAs, Stop, DropTmp, KeepEntry,
        OwnFiles, OwnFits, FileFits, Fits, KindFits, StageFits, PayloadFits, DoneFits, Final,
        LockingAt, ClosingAt, DeleteAt, CommitAt, CleanupAt, MoveAt, EntryMadeAt, TrashAt,
        RestoreBeginsAt, RestoringAt, PurgingAt, ReconcileAt, EarlyAt, WithPayload
<1>1. CASE WriteTrashPayload(p)
  <2> DEFINE v == TrashPayload(pc[p] = "trash-seal")
  <2>1. v.kind = "trash"
    BY DEF TrashPayload
  <2>2. \E o \in Outcome("payload") :
          /\ payload' = IF Effect(o) THEN [payload EXCEPT ![job[p].op] = v] ELSE payload
          /\ IF Throws(o) THEN DropTmp(p)
             ELSE Goto(p, IF pc[p] = "trash-seal" THEN "trash-rename" ELSE "trash-mkdir")
                  /\ job' = job
    BY <1>1 DEF WriteTrashPayload
  <2> HIDE DEF v
  <2> QED BY <1>1, <2>1, <2>2 DEF WriteTrashPayload, Effect, Throws
<1>2. CASE MakeTmp(p)
  <2>1. OwnFiles(p)
    BY <1>2 DEF MakeTmp, BinTyped
  <2>2. OwnFits(p)
    BY <1>2 DEF MakeTmp
  <2>3. Fits(p)'
    BY <1>2 DEF MakeTmp, DropTmp
  <2> QED BY <2>1, <2>2, <2>3
<1>3. CASE BuildBundle(p)
  <2>1. DropTmp(p) \/ (Goto(p, "trash-seal") /\ \E b : job' = [job EXCEPT ![p].bundle = b])
    BY <1>3 DEF BuildBundle
  <2> QED BY <1>3, <2>1 DEF BuildBundle, Jobs
<1>4. CASE CommitTrashEntry(p)
  <2>1. OwnFiles(p)
    BY <1>4 DEF CommitTrashEntry, BinTyped
  <2>2. OwnFits(p)
    BY <1>4 DEF CommitTrashEntry
  <2>3. Fits(p)'
    BY <1>4 DEF CommitTrashEntry, DropTmp
  <2> QED BY <2>1, <2>2, <2>3
<1>5. CASE MarkTrashEntry(p)
  BY <1>5 DEF MarkTrashEntry, Jobs
<1>6. CASE DropTrash(p)
  <2>1. OwnFiles(p)
    BY <1>6 DEF DropTrash, BinTyped
  <2>2. OwnFits(p)
    BY <1>6 DEF DropTrash, BinTyped, NoEntry
  <2>3. Fits(p)'
    <3>1. /\ pc[p] \in {"trash-drop-tmp", "trash-drop-entry"} /\ UNCHANGED disk
          /\ \/ ReleaseAs(p, "rolled_back", "require")
             \/ TrashThere(job[p].op) /\ ReleaseAs(p, "recovery_required", "ignore")
      BY <1>6 DEF DropTrash, Throws
    <3> QED BY <3>1 DEF TrashThere, Jobs
  <2> QED BY <2>1, <2>2, <2>3
<1>7. CASE TearEntry(p)
  BY <1>7 DEF TearEntry, EntryOf, BinTyped, Entries
<1> QED BY <1>1, <1>2, <1>3, <1>4, <1>5, <1>6, <1>7 DEF TrashStep

(* The steps of an index cleanup keep JournalInv.                          *)
LEMMA CleanupFits ==
  ASSUME ReleaseSucceeds, Typed, Ownership, JournalInv, NEW p \in Procs, CleanupStep(p),
         ~CheckIndexes(p)
  PROVE  OwnFiles(p) /\ Fits(p)' /\ OwnFits(p)
<1>0. /\ Working(p) /\ job[p].op \in OpIds /\ job[p].op \in 1 .. ops /\ Fits(p)
      /\ FileFits(job[p].op)
      /\ GoesOn(p) \/ (pc'[p] = "idle" /\ job'[p] = NoJob)
      /\ ops' = ops
  BY CleanupStays, WorkerFits DEF Stays, Holding, Working
<1> USE <1>0, JobFunction
    DEF Typed, GoesOn, Working, disk, bin, WriteJournal, Goto, ReleaseAs, Stop, CommitFails,
        OwnFiles, OwnFits, FileFits, Fits, KindFits, StageFits, PayloadFits, DoneFits, Final,
        LockingAt, ClosingAt, DeleteAt, CommitAt, CleanupAt, MoveAt, EntryMadeAt, TrashAt,
        RestoreBeginsAt, RestoringAt, PurgingAt, ReconcileAt, EarlyAt, WithPayload
<1>1. CASE WriteCleanupPayload(p)
  <2>1. /\ pc[p] = "acquired" /\ UNCHANGED <<journal, bin>> /\ job[p].kind = "cleanup-index"
        /\ \/ payload' = payload /\ CommitFails(p)
           \/ \E v : /\ v.kind = job[p].kind /\ payload' = [payload EXCEPT ![job[p].op] = v]
                    /\ \/ CommitFails(p)
                       \/ /\ Goto(p, "cleanup-recheck")
                          /\ job' = [job EXCEPT ![p].snap = job[p].seen]
    BY <1>1 DEF WriteCleanupPayload, CleanupPayload, Cleans, Effect, Throws
  <2> QED BY <2>1 DEF Jobs
<1>2. CASE RecheckCleanup(p)
  BY <1>2 DEF RecheckCleanup, CleanupPayload, Cleans, Jobs
<1>3. CASE CommitCleanup(p)
  BY <1>3 DEF CommitCleanup, CleanupPayload, Cleans, Jobs
<1>4. CASE StartIndex(p)
  BY <1>4 DEF StartIndex, CleanupPayload, Cleans, Jobs
<1>5. CASE VerifyCleanup(p)
  BY <1>5 DEF VerifyCleanup, CleanupPayload, Cleans, Jobs
<1> QED BY <1>1, <1>2, <1>3, <1>4, <1>5 DEF CleanupStep

(* Finding the entry of a restore or a purge keeps JournalInv.             *)
LEMMA EntryFits ==
  ASSUME ReleaseSucceeds, Typed, Ownership, JournalInv, NEW p \in Procs, EntryStep(p),
         ~(ReadForRestore(p) \/ ReadForPurge(p) \/ EntryNotFound(p))
  PROVE  OwnFiles(p) /\ Fits(p)' /\ OwnFits(p)
<1>0. /\ Working(p) /\ job[p].op \in OpIds /\ job[p].op \in 1 .. ops /\ Fits(p)
      /\ FileFits(job[p].op)
      /\ GoesOn(p) \/ (pc'[p] = "idle" /\ job'[p] = NoJob)
      /\ ops' = ops
  BY EntryStays, WorkerFits DEF Stays, Holding, Working
<1> USE <1>0, JobFunction
    DEF Typed, GoesOn, Working, disk, bin, WriteJournal, Goto, ReleaseAs, Stop, Refuse,
        OwnFiles, OwnFits, FileFits, Fits, KindFits, StageFits, PayloadFits, DoneFits, Final,
        LockingAt, ClosingAt, DeleteAt, CommitAt, CleanupAt, MoveAt, EntryMadeAt, TrashAt,
        RestoreBeginsAt, RestoringAt, PurgingAt, ReconcileAt, EarlyAt, WithPayload
<1>1. CASE PrepareEntry(p)
  BY <1>1 DEF PrepareEntry, FromTrash, Jobs
<1>2. CASE CheckEntry(p)
  BY <1>2 DEF CheckEntry, FromTrash, Jobs
<1>3. CASE CommitEntry(p)
  BY <1>3 DEF CommitEntry, FromTrash, Jobs
<1> QED BY <1>1, <1>2, <1>3 DEF EntryStep

(* The steps of a restore keep JournalInv.                                 *)
LEMMA RestoreFits ==
  ASSUME ReleaseSucceeds, Typed, Ownership, JournalInv, NEW p \in Procs, RestoreStep(p)
  PROVE  OwnFiles(p) /\ Fits(p)' /\ OwnFits(p)
<1>0. /\ Working(p) /\ job[p].op \in OpIds /\ job[p].op \in 1 .. ops /\ Fits(p)
      /\ FileFits(job[p].op)
      /\ GoesOn(p) \/ (pc'[p] = "idle" /\ job'[p] = NoJob)
      /\ ops' = ops
  BY RestoreStays, WorkerFits DEF Stays, Holding, Working
<1> USE <1>0, JobFunction
    DEF Typed, GoesOn, Working, disk, bin, WriteJournal, Goto, ReleaseAs, Stop, Refuse,
        RestoreFails,
        OwnFiles, OwnFits, FileFits, Fits, KindFits, StageFits, PayloadFits, DoneFits, Final,
        LockingAt, ClosingAt, DeleteAt, CommitAt, CleanupAt, MoveAt, EntryMadeAt, TrashAt,
        RestoreBeginsAt, RestoringAt, PurgingAt, ReconcileAt, EarlyAt, WithPayload
<1>1. CASE CheckConflicts(p)
  BY <1>1 DEF CheckConflicts, Jobs
<1>2. CASE CaptureRestore(p)
  BY <1>2 DEF CaptureRestore, Jobs
<1>3. CASE WriteRestorePayload(p)
  <2> DEFINE v == [kind |-> job[p].kind, covers |-> job[p].todo,
                   before |-> [s \in Surfaces |-> IF s \in job[p].todo \ Rows
                                                  THEN job[p].snap[s] ELSE Blank[s]],
                   moves |-> Moves(p), from |-> job[p].from, sealed |-> FALSE]
  <2>1. v.kind = job[p].kind
    OBVIOUS
  <2>2. \E o \in Outcome("payload") :
          /\ payload' = IF Effect(o) THEN [payload EXCEPT ![job[p].op] = v] ELSE payload
          /\ IF Throws(o) THEN Refuse(p) ELSE Goto(p, "restore-commit") /\ job' = job
    BY <1>3 DEF WriteRestorePayload
  <2> HIDE DEF v
  <2> QED BY <1>3, <2>1, <2>2 DEF WriteRestorePayload, Effect, Throws, Jobs
<1>4. CASE StartRestore(p)
  BY <1>4 DEF StartRestore, Jobs
<1>5. CASE RestoreText(p)
  BY <1>5 DEF RestoreText, Jobs
<1>6. CASE MarkRestored(p)
  BY <1>6 DEF MarkRestored, Jobs
<1>7. CASE RestoreRows(p)
  BY <1>7 DEF RestoreRows, Jobs
<1>8. CASE RemoveGoals(p)
  BY <1>8 DEF RemoveGoals, Jobs
<1>9. CASE UndoRestore(p)
  BY <1>9 DEF UndoRestore, Jobs
<1>10. CASE UndoRestoreEnds(p)
  BY <1>10 DEF UndoRestoreEnds, Jobs
<1>11. CASE MarkRows(p)
  <2>1. CASE \E m : ReleaseMarked(p, m, "committed", "require")
    BY <1>11, <2>1, MarkedLeaves DEF MarkRows
  <2>2. CASE ~\E m : ReleaseMarked(p, m, "committed", "require")
    BY <1>11, <2>2 DEF MarkRows, Jobs
  <2> QED BY <2>1, <2>2
<1>12. CASE VerifyRestore(p)
  BY <1>12 DEF VerifyRestore, Jobs
<1>13. CASE RereadWritten(p)
  BY <1>13 DEF RereadWritten, Jobs
<1> QED BY <1>1, <1>2, <1>3, <1>4, <1>5, <1>6, <1>7, <1>8, <1>9, <1>10, <1>11, <1>12, <1>13
        DEF RestoreStep

(* The steps of a purge keep JournalInv.                                   *)
LEMMA PurgeFits ==
  ASSUME ReleaseSucceeds, Typed, Ownership, JournalInv, NEW p \in Procs, PurgeStep(p)
  PROVE  OwnFiles(p) /\ Fits(p)' /\ OwnFits(p)
<1>0. /\ Working(p) /\ job[p].op \in OpIds /\ job[p].op \in 1 .. ops /\ Fits(p)
      /\ FileFits(job[p].op)
      /\ GoesOn(p) \/ (pc'[p] = "idle" /\ job'[p] = NoJob)
      /\ ops' = ops
  BY PurgeStays, WorkerFits DEF Stays, Holding, Working
<1> USE <1>0, JobFunction
    DEF Typed, GoesOn, Working, disk, bin, WriteJournal, Goto, ReleaseAs, Stop, Refuse, PurgeFails,
        OwnFiles, OwnFits, FileFits, Fits, KindFits, StageFits, PayloadFits, DoneFits, Final,
        LockingAt, ClosingAt, DeleteAt, CommitAt, CleanupAt, MoveAt, EntryMadeAt, TrashAt,
        RestoreBeginsAt, RestoringAt, PurgingAt, ReconcileAt, EarlyAt, WithPayload
<1>1. CASE WritePurgePayload(p)
  <2> DEFINE v == [kind |-> job[p].kind, covers |-> job[p].todo, before |-> Blank,
                   moves |-> job[p].bundle, from |-> job[p].from, sealed |-> TRUE]
  <2>1. v.kind = job[p].kind
    OBVIOUS
  <2>2. \E o \in Outcome("payload") :
          /\ payload' = IF Effect(o) THEN [payload EXCEPT ![job[p].op] = v] ELSE payload
          /\ IF Throws(o) THEN Refuse(p) ELSE Goto(p, "purge-recheck") /\ job' = job
    BY <1>1 DEF WritePurgePayload
  <2> HIDE DEF v
  <2> QED BY <1>1, <2>1, <2>2 DEF WritePurgePayload, Effect, Throws, Jobs
<1>2. CASE RecheckPurge(p)
  BY <1>2 DEF RecheckPurge, Jobs
<1>3. CASE CheckpointPurge(p)
  <2>1. CASE \E m : ReleaseMarked(p, m, "recovery_required", "ignore")
    BY <1>3, <2>1, MarkedLeaves DEF CheckpointPurge
  <2>2. CASE ~\E m : ReleaseMarked(p, m, "recovery_required", "ignore")
    BY <1>3, <2>2 DEF CheckpointPurge, Jobs
  <2> QED BY <2>1, <2>2
<1>4. CASE PurgeLogs(p)
  BY <1>4 DEF PurgeLogs, Jobs
<1>5. CASE QuarantineEntry(p)
  <2>1. /\ UNCHANGED <<disk, tmp>>
        /\ \A o \in OpIds : entry'[o].state # "absent" => entry[o].state # "absent"
    BY <1>5 DEF QuarantineEntry, BinTyped, Entries, EntryIsCurrent, Effect
  <2>2. OwnFiles(p) /\ OwnFits(p)
    BY <2>1
  <2>3. Fits(p)'
    BY <1>5 DEF QuarantineEntry, Jobs
  <2> QED BY <2>2, <2>3
<1>6. CASE RemoveQuarantine(p)
  <2>1. /\ UNCHANGED <<disk, tmp>>
        /\ \A o \in OpIds : entry'[o].state # "absent" => entry[o].state # "absent"
    BY <1>6 DEF RemoveQuarantine, BinTyped, Entries, NoEntry
  <2>2. OwnFiles(p) /\ OwnFits(p)
    BY <2>1
  <2>3. Fits(p)'
    BY <1>6 DEF RemoveQuarantine, Jobs
  <2> QED BY <2>2, <2>3
<1>7. CASE VerifyPurge(p)
  BY <1>7 DEF VerifyPurge, Jobs
<1> QED BY <1>1, <1>2, <1>3, <1>4, <1>5, <1>6, <1>7 DEF PurgeStep

(* The steps of a recovery keep JournalInv.                                *)
LEMMA RecoveryFits ==
  ASSUME ReleaseSucceeds, Typed, Ownership, JournalInv, NEW p \in Procs, RecoveryStep(p),
         ~BeginRecovery(p), ~FinalizeUnlock(p)
  PROVE  OwnFiles(p) /\ Fits(p)' /\ OwnFits(p)
<1>0. /\ Working(p) /\ job[p].op \in OpIds /\ job[p].op \in 1 .. ops /\ Fits(p)
      /\ FileFits(job[p].op)
      /\ GoesOn(p) \/ (pc'[p] = "idle" /\ job'[p] = NoJob)
      /\ ops' = ops
  BY RecoveryStays, WorkerFits DEF Stays, Holding, Working
<1> USE <1>0, JobFunction
    DEF Typed, GoesOn, Working, disk, bin, WriteJournal, Goto, ReleaseAs, Stop,
        OwnFiles, OwnFits, FileFits, Fits, KindFits, StageFits, PayloadFits, DoneFits, Final,
        LockingAt, ClosingAt, DeleteAt, CommitAt, CleanupAt, MoveAt, EntryMadeAt, TrashAt,
        RestoreBeginsAt, RestoringAt, PurgingAt, ReconcileAt, EarlyAt, WithPayload
<1>1. CASE RecoverSurface(p)
  <2>1. pc[p] = "rec" /\ UNCHANGED <<disk, bin>> /\ OwnFiles(p) /\ OwnFits(p)
    BY <1>1 DEF RecoverSurface
  <2>2. Stop(p) \/ (pc' = pc /\ \E t : job' = [job EXCEPT ![p].todo = t])
    BY <1>1 DEF RecoverSurface
  <2>3. CASE Stop(p)
    BY <2>1, <2>3
  <2>4. CASE pc' = pc /\ \E t : job' = [job EXCEPT ![p].todo = t]
    BY <2>1, <2>4 DEF Jobs
  <2> QED BY <2>2, <2>3, <2>4
<1>2. CASE SurfacesRecovered(p)
  BY <1>2 DEF SurfacesRecovered, ReconcilesTrash
<1>3. CASE RecoverQuarantine(p)
  BY <1>3 DEF RecoverQuarantine, Jobs
<1>4. CASE RecoverTrash(p)
  <2>1. /\ UNCHANGED disk
        /\ tmp' = tmp \/ tmp' = [tmp EXCEPT ![job[p].op] = FALSE]
        /\ \A o \in OpIds : entry'[o].state # "absent" => entry[o].state # "absent"
    BY <1>4 DEF RecoverTrash, BinTyped, Entries, NoEntry
  <2>2. OwnFiles(p) /\ OwnFits(p)
    BY <2>1 DEF BinTyped
  <2>3. Fits(p)'
    BY <1>4 DEF RecoverTrash
  <2> QED BY <2>2, <2>3
<1>5. CASE RefuseTrash(p)
  BY <1>5 DEF RefuseTrash, Jobs
<1>6. CASE FinalizeStage(p)
  <2>1. /\ pc[p] = "fin-stage" /\ UNCHANGED <<payload, bin>>
        /\ \/ Stop(p) /\ journal' = journal
           \/ /\ Stop(p) \/ (Goto(p, "fin-payload") /\ job' = job)
              /\ \E m : journal' = [journal EXCEPT ![job[p].op] =
                                     [stage |-> job[p].rel.stage, marks |-> m]]
    BY <1>6 DEF FinalizeStage, Effect, Throws
  <2>2. CASE Stop(p) /\ journal' = journal
    BY <2>1, <2>2
  <2>3. ASSUME NEW m, journal' = [journal EXCEPT ![job[p].op] =
                                   [stage |-> job[p].rel.stage, marks |-> m]],
               Stop(p) \/ (Goto(p, "fin-payload") /\ job' = job)
        PROVE  OwnFiles(p) /\ Fits(p)' /\ OwnFits(p)
    <3>1. job[p].rel.stage \in Final /\ journal'[job[p].op].stage = job[p].rel.stage
      BY <2>1, <2>3
    <3>2. OwnFiles(p)
      BY <2>1, <2>3
    <3>3. OwnFits(p)
      BY <2>1, <3>1
    <3>4. Fits(p)'
      BY <2>1, <2>3, <3>1
    <3> QED BY <3>2, <3>3, <3>4
  <2> QED BY <2>1, <2>2, <2>3
<1>7. CASE FinalizePayload(p)
  BY <1>7 DEF FinalizePayload, NoPayload
<1> QED BY <1>1, <1>2, <1>3, <1>4, <1>5, <1>6, <1>7 DEF RecoveryStep

(* Nothing of an operation is touched before it has its lock.              *)
LEMMA ApproachFits ==
  ASSUME JournalInv, NEW p \in Procs, OthersStay(p), UNCHANGED <<disk, bin, ops>>,
         pc'[p] = "idle" \/ (pc'[p] \in {"scanned", "checked"} /\ job'[p].done = {})
  PROVE  JournalInv'
<1>1. ASSUME NEW q \in Procs \ {p} PROVE Fits(q)'
  BY DEF JournalInv, OthersStay, disk, Fits, KindFits, StageFits, PayloadFits, DoneFits, Working
<1>2. Fits(p)'
  BY DEF Working, OwnFiles, OwnFits, FileFits, Fits, KindFits, StageFits, PayloadFits, DoneFits,
         Final,
        LockingAt, ClosingAt, DeleteAt, CommitAt, CleanupAt, MoveAt, EntryMadeAt, TrashAt,
        RestoreBeginsAt, RestoringAt, PurgingAt, ReconcileAt, EarlyAt, WithPayload
<1>3. ASSUME NEW o \in OpIds PROVE FileFits(o)'
  BY DEF JournalInv, FileFits, disk, bin
<1> QED BY <1>1, <1>2, <1>3 DEF JournalInv

(* A process that stops leaves files that fit.                             *)
LEMMA StopFits ==
  ASSUME Typed, JournalInv, NEW p \in Procs, Stop(p), UNCHANGED <<journal, payload, bin, ops>>
  PROVE  JournalInv'
<1>1. ASSUME NEW q \in Procs \ {p} PROVE Fits(q)'
  BY StopLeaves DEF JournalInv, OthersStay, Fits, KindFits, StageFits, PayloadFits, DoneFits,
                    Working
<1>2. Fits(p)'
  BY StopLeaves DEF Working, OwnFiles, OwnFits, FileFits, Fits, KindFits, StageFits, PayloadFits,
                    DoneFits, Final,
        LockingAt, ClosingAt, DeleteAt, CommitAt, CleanupAt, MoveAt, EntryMadeAt, TrashAt,
        RestoreBeginsAt, RestoringAt, PurgingAt, ReconcileAt, EarlyAt, WithPayload
<1>3. ASSUME NEW o \in OpIds PROVE FileFits(o)'
  BY DEF JournalInv, FileFits, bin
<1> QED BY <1>1, <1>2, <1>3 DEF JournalInv

(* Scanning and taking the lock keeps JournalInv.                          *)
LEMMA AcquireFits ==
  ASSUME ReleaseSucceeds, Typed, Ownership, JournalInv, NEW p \in Procs, AcquireStep(p)
  PROVE  JournalInv'
<1>1. ASSUME NEW kind \in Kinds, ScanRoot(p, kind) PROVE JournalInv'
  BY <1>1, JobFunction, ApproachFits DEF ScanRoot, Goto, OthersStay, NoJob
<1>2. CASE CreateLock(p)
  <2>1. /\ ops' = ops + 1 /\ ops \in Nat /\ ops + 1 \in OpIds /\ lock.op = 0
        /\ pc[p] \in {"scanned", "checked"} /\ pc'[p] = "lock-created"
        /\ job'[p].op = ops + 1 /\ job'[p].done = job[p].done /\ OthersStay(p)
        /\ UNCHANGED <<journal, payload, bin>>
    BY <1>2, JobFunction, BoundsAssumption
       DEF CreateLock, LockFree, ReadyToLock, Goto, OthersStay, Typed, CountTyped, Jobs, OpIds
  <2>2. \A q \in Procs : ~Working(q)
    BY <2>1 DEF ReleaseSucceeds, Ownership, OwnOperation, ReleasersOwn
  <2>3. ASSUME NEW q \in Procs \ {p} PROVE Fits(q)'
    BY <2>1, <2>2, IdleFits DEF JournalInv, OthersStay
  <2>4. job'[p].done = {}
    BY <2>1 DEF JournalInv, Fits, DoneFits, EarlyAt
  <2>5. journal[ops + 1].stage = "none" /\ payload[ops + 1].kind = "none"
    BY <2>1 DEF JournalInv, FileFits
  <2>6. Fits(p)'
    BY <2>1, <2>4, <2>5 DEF Working, OwnFiles, OwnFits, FileFits, Fits, KindFits, StageFits,
                            PayloadFits, DoneFits, Final,
        LockingAt, ClosingAt, DeleteAt, CommitAt, CleanupAt, MoveAt, EntryMadeAt, TrashAt,
        RestoreBeginsAt, RestoringAt, PurgingAt, ReconcileAt, EarlyAt, WithPayload
  <2>7. ASSUME NEW o \in OpIds PROVE FileFits(o)'
    <3>1. FileFits(o) /\ (o \notin 1 .. ops' => o \notin 1 .. ops)
      BY <2>1 DEF JournalInv
    <3> QED BY <2>1, <3>1 DEF FileFits, bin
  <2> QED BY <2>3, <2>6, <2>7 DEF JournalInv
<1>3. CASE LockIsTaken(p)
  BY <1>3, StopFits DEF LockIsTaken, disk
<1>4. CASE WriteLock(p)
  <2>1. CASE Stop(p)
    BY <1>4, <2>1, StopFits DEF WriteLock
  <2>2. CASE Goto(p, "lock-written") /\ job' = job
    <3>1. /\ pc[p] = "lock-created" /\ pc'[p] = "lock-written" /\ OthersStay(p)
          /\ UNCHANGED <<journal, payload, bin, ops>> /\ Working(p)
      BY <1>4, <2>2, JobFunction DEF WriteLock, Goto, OthersStay, Working
    <3>2. OwnFiles(p) /\ OwnFits(p)
      BY <3>1 DEF OwnFiles, OwnFits, JournalInv, FileFits, bin
    <3>3. Fits(p)'
      BY <2>2, <3>1 DEF JournalInv, Working, OwnFiles, OwnFits, FileFits, Fits, KindFits,
                        StageFits, PayloadFits, DoneFits, Final,
        LockingAt, ClosingAt, DeleteAt, CommitAt, CleanupAt, MoveAt, EntryMadeAt, TrashAt,
        RestoreBeginsAt, RestoringAt, PurgingAt, ReconcileAt, EarlyAt, WithPayload
    <3> QED BY <3>1, <3>2, <3>3, StepFits
  <2> QED BY <1>4, <2>1, <2>2 DEF WriteLock
<1>5. CASE CreateJournal(p)
  <2>1. /\ pc[p] = "lock-written" /\ UNCHANGED <<payload, bin, ops>> /\ OthersStay(p) /\ Working(p)
        /\ \/ journal' = journal /\ Stop(p)
           \/ /\ journal' = [journal EXCEPT ![job[p].op] = [stage |-> "prepared", marks |-> {}]]
              /\ Stop(p) \/ (Goto(p, "acquired") /\ job' = job)
    BY <1>5, JobFunction
       DEF CreateJournal, WriteJournal, Effect, Throws, Stop, Goto, OthersStay, Working
  <2>2. CASE journal' = journal /\ Stop(p)
    BY <2>1, <2>2, StopFits
  <2>3. CASE /\ journal' = [journal EXCEPT ![job[p].op] = [stage |-> "prepared", marks |-> {}]]
             /\ Stop(p) \/ (Goto(p, "acquired") /\ job' = job)
    <3>1. job[p].op \in OpIds /\ job[p].op \in 1 .. ops /\ Fits(p) /\ FileFits(job[p].op)
      BY <2>1, WorkerFits
    <3>2. journal'[job[p].op].stage = "prepared" /\ OwnFiles(p)
      BY <2>1, <2>3, <3>1 DEF Typed, OwnFiles, bin
    <3>3. payload[job[p].op].kind = "none" /\ journal[job[p].op].stage = "none"
      BY <2>1, <3>1 DEF Fits, StageFits, LockingAt, FileFits
    <3>4. OwnFits(p)
      BY <2>1, <3>1, <3>2, <3>3 DEF OwnFits, FileFits, Final, bin
    <3>5. Fits(p)'
      BY <2>1, <2>3, <3>1, <3>2, <3>3, JobFunction
      DEF Stop, Goto, NoJob, Working, OwnFiles, OwnFits, FileFits, Fits, KindFits, StageFits,
          PayloadFits, DoneFits, Final,
        LockingAt, ClosingAt, DeleteAt, CommitAt, CleanupAt, MoveAt, EntryMadeAt, TrashAt,
        RestoreBeginsAt, RestoringAt, PurgingAt, ReconcileAt, EarlyAt, WithPayload
    <3> QED BY <2>1, <3>2, <3>4, <3>5, StepFits
  <2> QED BY <2>1, <2>2, <2>3
<1> QED BY <1>1, <1>2, <1>3, <1>4, <1>5 DEF AcquireStep

(* A release that cannot fail.                                             *)
LEMMA ReleaseIsQuiet ==
  ASSUME ReleaseSucceeds, NEW o \in Outcome("release")
  PROVE  o = "ok"
BY DEF ReleaseSucceeds, Outcome, FaultPoints

(* The steps of a release keep JournalInv.                                 *)
LEMMA ReleaseFits ==
  ASSUME ReleaseSucceeds, Typed, Ownership, JournalInv, NEW p \in Procs, ReleaseStep(p)
  PROVE  JournalInv'
<1>0. /\ Working(p) /\ pc[p] # "lock-created" /\ ops' = ops
      /\ pc[p] \in {"rel-stage", "rel-check", "rel-payload", "rel-unlock"}
  BY DEF ReleaseStep, ReleaseStage, ReleaseCheck, ReleasePayload, ReleaseUnlock, Working
<1>1. /\ job[p].op \in OpIds /\ job[p].op \in 1 .. ops /\ Fits(p) /\ FileFits(job[p].op)
      /\ OwnsLockFile(p)
  BY <1>0, WorkerFits, OneWorker DEF OwnsLockFile
<1> USE JobFunction, ReleaseIsQuiet
<1>2. CASE ReleaseStage(p)
  <2>1. /\ pc[p] = "rel-stage" /\ UNCHANGED <<payload, bin>>
        /\ journal' = [journal EXCEPT ![job[p].op] =
                         [stage |-> job[p].rel.stage, marks |-> job[p].marks]]
        /\ IF job[p].rel.stage = "recovery_required" THEN Stop(p)
                                                     ELSE Goto(p, "rel-check") /\ job' = job
    BY <1>2 DEF ReleaseStage, WriteJournal, Effect, Throws
  <2>2. OthersStay(p)
    BY <2>1 DEF Stop, Goto, OthersStay
  <2>3. /\ journal'[job[p].op].stage = job[p].rel.stage /\ OwnFiles(p)
        /\ job[p].rel.stage \in Final \cup {"recovery_required"}
        /\ job[p].rel.stage = "recovery_required" => payload[job[p].op].kind # "none"
    BY <1>0, <1>1, <2>1 DEF Typed, OwnFiles, bin, Fits, StageFits, PayloadFits
  <2>4. OwnFits(p)
    BY <1>0, <1>1, <2>1, <2>3 DEF OwnFits, FileFits, Final, bin
  <2>5. Fits(p)'
    BY <1>1, <2>1, <2>3 DEF Stop, Goto, NoJob, Working, OwnFiles, OwnFits, FileFits, Fits,
                            KindFits, StageFits, PayloadFits, DoneFits, Final,
        LockingAt, ClosingAt, DeleteAt, CommitAt, CleanupAt, MoveAt, EntryMadeAt, TrashAt,
        RestoreBeginsAt, RestoringAt, PurgingAt, ReconcileAt, EarlyAt, WithPayload
  <2> QED BY <1>0, <2>2, <2>3, <2>4, <2>5, StepFits
<1>3. CASE ReleaseCheck(p)
  <2>1. /\ pc[p] = "rel-check" /\ UNCHANGED <<journal, payload, bin>> /\ Goto(p, "rel-payload") /\ job' = job
    BY <1>1, <1>3 DEF ReleaseCheck, disk
  <2>2. OthersStay(p) /\ OwnFiles(p) /\ OwnFits(p)
    BY <1>0, <1>1, <2>1 DEF Goto, OthersStay, OwnFiles, OwnFits, FileFits, bin
  <2>3. Fits(p)'
    BY <1>1, <2>1 DEF Goto, Working, OwnFiles, OwnFits, FileFits, Fits, KindFits, StageFits,
                      PayloadFits, DoneFits, Final,
        LockingAt, ClosingAt, DeleteAt, CommitAt, CleanupAt, MoveAt, EntryMadeAt, TrashAt,
        RestoreBeginsAt, RestoringAt, PurgingAt, ReconcileAt, EarlyAt, WithPayload
  <2> QED BY <1>0, <2>2, <2>3, StepFits
<1>4. CASE ReleasePayload(p)
  <2>1. /\ pc[p] = "rel-payload" /\ UNCHANGED <<journal, bin>> /\ Goto(p, "rel-unlock") /\ job' = job
        /\ payload' = [payload EXCEPT ![job[p].op] = NoPayload]
    BY <1>4 DEF ReleasePayload, Effect, Throws
  <2>2. OthersStay(p) /\ OwnFiles(p) /\ payload'[job[p].op].kind = "none"
    BY <1>1, <2>1 DEF Typed, Goto, OthersStay, OwnFiles, NoPayload, bin
  <2>3. journal[job[p].op].stage \in Final
    BY <1>0, <1>1, <2>1 DEF Fits, StageFits, ClosingAt
  <2>4. OwnFits(p)
    BY <1>0, <1>1, <2>1, <2>2, <2>3 DEF OwnFits, FileFits, Final, bin
  <2>5. Fits(p)'
    BY <1>1, <2>1, <2>2, <2>3 DEF Goto, Working, OwnFiles, OwnFits, FileFits, Fits, KindFits,
                                  StageFits, PayloadFits, DoneFits, Final,
        LockingAt, ClosingAt, DeleteAt, CommitAt, CleanupAt, MoveAt, EntryMadeAt, TrashAt,
        RestoreBeginsAt, RestoringAt, PurgingAt, ReconcileAt, EarlyAt, WithPayload
  <2> QED BY <1>0, <2>2, <2>4, <2>5, StepFits
<1>5. CASE ReleaseUnlock(p)
  BY <1>5, StopFits DEF ReleaseUnlock, Throws
<1> QED BY <1>2, <1>3, <1>4, <1>5 DEF ReleaseStep

(* The start of a recovery keeps JournalInv.                               *)
LEMMA BeginFits ==
  ASSUME ReleaseSucceeds, SupervisedRecovery, Typed, Ownership, JournalInv, NEW p \in Procs,
         BeginRecovery(p)
  PROVE  JournalInv'
<1> DEFINE o == lock.op
           r == ~IsFinal(o) /\ ~Untouched(o)
<1>1. /\ o \in OpIds /\ pc[p] = "idle" /\ Recoverable(o) /\ UNCHANGED <<disk, bin, ops>>
      /\ \A q \in Procs : Active(q) => job[q].op # o
  BY DEF BeginRecovery, Readable, Unattended, Typed, LockTyped, OpIds
<1>2. \A q \in Procs : ~Working(q)
  BY <1>1, OneWorker DEF Active, Working
<1>3. /\ OthersStay(p) /\ pc'[p] = (IF r THEN "rec" ELSE "fin-stage")
      /\ job'[p].op = o /\ job'[p].kind = payload[o].kind /\ job'[p].rel.stage = EndStage(o)
  BY JobFunction DEF BeginRecovery, Goto, OthersStay, NoJob
<1>4. ASSUME NEW q \in Procs \ {p} PROVE Fits(q)'
  BY <1>2, <1>3, IdleFits DEF JournalInv, OthersStay
<1>5. /\ EndStage(o) \in Final /\ (IsFinal(o) => EndStage(o) = journal[o].stage)
      /\ r => journal[o].stage \notin Final \cup {"none"} /\ payload[o].kind # "none"
  BY <1>1 DEF EndStage, Recoverable, IsFinal, Untouched, HasPayload, Final
<1>6. Fits(p)'
  BY <1>1, <1>3, <1>5 DEF IsFinal, disk, Working, OwnFiles, OwnFits, FileFits, Fits, KindFits,
                          StageFits, PayloadFits, DoneFits, Final,
        LockingAt, ClosingAt, DeleteAt, CommitAt, CleanupAt, MoveAt, EntryMadeAt, TrashAt,
        RestoreBeginsAt, RestoringAt, PurgingAt, ReconcileAt, EarlyAt, WithPayload
<1>7. ASSUME NEW x \in OpIds PROVE FileFits(x)'
  BY <1>1 DEF JournalInv, FileFits, disk, bin
<1> QED BY <1>4, <1>6, <1>7 DEF JournalInv

(* Reading an entry ahead of the lock keeps JournalInv.                    *)
LEMMA ReadFits ==
  ASSUME Typed, JournalInv, NEW p \in Procs,
         CheckIndexes(p) \/ ReadForRestore(p) \/ ReadForPurge(p) \/ EntryNotFound(p)
  PROVE  JournalInv'
<1> USE JobFunction
<1>0. pc[p] = "scanned" => job[p].done = {}
  BY DEF JournalInv, Fits, DoneFits, EarlyAt
<1>1. CASE CheckIndexes(p)
  <2>1. Stop(p) \/ (Goto(p, "checked") /\ job' = job)
    BY <1>1 DEF CheckIndexes
  <2>2. CASE Stop(p)
    BY <1>1, <2>2, StopFits DEF CheckIndexes, disk
  <2>3. CASE Goto(p, "checked") /\ job' = job
    BY <1>0, <1>1, <2>3, ApproachFits DEF CheckIndexes, Goto, OthersStay
  <2> QED BY <2>1, <2>2, <2>3
<1>2. CASE ReadForRestore(p)
  BY <1>0, <1>2, ApproachFits DEF ReadForRestore, Goto, OthersStay, Jobs
<1>3. CASE ReadForPurge(p)
  <2> DEFINE b(e) == IF LogsArePurged(job[p].seen, e) THEN LogKeys ELSE NoRecords
             t(e) == IF LogsArePurged(job[p].seen, e) THEN {"logs"} ELSE {}
             j(e) == [job[p] EXCEPT !.from = e, !.bundle = b(e), !.todo = t(e)]
  <2> PICK e \in ValidEntries : job' = [job EXCEPT ![p] = j(e)]
    BY <1>3 DEF ReadForPurge
  <2> HIDE DEF b, t
  <2>1. j(e).done = job[p].done
    BY DEF Jobs
  <2> HIDE DEF j
  <2>2. OthersStay(p) /\ pc'[p] = "checked" /\ job'[p].done = {}
    BY <1>0, <1>3, <2>1 DEF ReadForPurge, Goto, OthersStay
  <2> QED BY <1>3, <2>2, ApproachFits DEF ReadForPurge
<1>4. CASE EntryNotFound(p)
  BY <1>4, StopFits DEF EntryNotFound, disk
<1> QED BY <1>1, <1>2, <1>3, <1>4

(* Every step keeps JournalInv.                                            *)
LEMMA NextFits ==
  ASSUME ReleaseSucceeds, SupervisedRecovery
  PROVE  Typed /\ Ownership /\ JournalInv /\ [Next]_vars => JournalInv'
<1> SUFFICES ASSUME Typed, Ownership, JournalInv, [Next]_vars PROVE JournalInv'
  OBVIOUS
<1>1. ASSUME NEW p \in Procs, OperationStep(p) PROVE JournalInv'
  <2>1. CASE AcquireStep(p)
    BY <2>1, AcquireFits
  <2>2. CASE ReleaseStep(p)
    BY <2>2, ReleaseFits
  <2>3. CASE BeginRecovery(p)
    BY <2>3, BeginFits
  <2>4. CASE FinalizeUnlock(p)
    BY <2>4, StopFits DEF FinalizeUnlock
  <2>5. CASE CheckIndexes(p) \/ ReadForRestore(p) \/ ReadForPurge(p) \/ EntryNotFound(p)
    BY <2>5, ReadFits
  <2>6. CASE DeleteStep(p) \/ UndoStep(p) \/ TrashStep(p) \/ RestoreStep(p) \/ PurgeStep(p)
    <3>1. Stays(p) /\ Holding(p)
      BY <2>6, DeleteStays, UndoStays, TrashStays, RestoreStays, PurgeStays
    <3>2. OwnFiles(p) /\ Fits(p)' /\ OwnFits(p)
      BY <2>6, DeleteFits, UndoFits, TrashFits, RestoreFits, PurgeFits
    <3> QED BY <3>1, <3>2, StepFits DEF Stays, Holding, Working
  <2>7. CASE CleanupStep(p) /\ ~CheckIndexes(p)
    BY <2>7, CleanupStays, CleanupFits, StepFits DEF Stays, Holding, Working
  <2>8. CASE EntryStep(p) /\ ~(ReadForRestore(p) \/ ReadForPurge(p) \/ EntryNotFound(p))
    BY <2>8, EntryStays, EntryFits, StepFits DEF Stays, Holding, Working
  <2>9. CASE RecoveryStep(p) /\ ~BeginRecovery(p) /\ ~FinalizeUnlock(p)
    BY <2>9, RecoveryStays, RecoveryFits, StepFits DEF Stays, Holding, Working
  <2> QED BY <1>1, <2>1, <2>2, <2>3, <2>4, <2>5, <2>6, <2>7, <2>8, <2>9 DEF OperationStep
<1>2. ASSUME NEW p \in Procs, Crash(p) PROVE JournalInv'
  BY <1>2, StopFits DEF Crash, disk
<1>3. CASE CodexStep \/ UNCHANGED vars
  <2>1. UNCHANGED <<journal, payload, entry, tmp, pc, job, ops>>
    BY <1>3 DEF CodexStep, CodexAdds, CodexChangesOthers, disk, bin, vars
  <2> QED BY <2>1
          DEF JournalInv, Fits, KindFits, StageFits, PayloadFits, DoneFits, FileFits, Working
<1> QED BY <1>1, <1>2, <1>3 DEF Next

(* Clean releases are those that succeed.                                  *)
LEMMA SucceedsIsClean == ReleaseSucceeds => CleanRelease
BY DEF ReleaseSucceeds, CleanRelease

Consistent == Typed /\ Ownership /\ JournalInv

(* All invariants so far, together.                                        *)
LEMMA ConsistentAlways ==
  ASSUME ReleaseSucceeds, SupervisedRecovery
  PROVE  /\ Init => Consistent
         /\ Consistent /\ [Next]_vars => Consistent'
BY SucceedsIsClean, InitTyped, InitOwned, InitFits, NextTyped, NextOwned, NextFits DEF Consistent

(* Recovery is never stuck (readInterruptedMutation,                       *)
(* recoverInterruptedOperation): whatever mix of lock, journal and payload *)
(* a dead process leaves behind, it is one the recovery accepts.           *)
THEOREM LeftoversAreRecoverable ==
  ASSUME ReleaseSucceeds, SupervisedRecovery
  PROVE  Spec => []AlwaysRecoverable
<1>1. Consistent => AlwaysRecoverable
  <2> SUFFICES ASSUME Consistent, Readable PROVE Recoverable(lock.op)
    BY DEF AlwaysRecoverable
  <2>1. lock.op \in OpIds
    BY DEF Consistent, Typed, LockTyped, Readable, OpIds
  <2>2. journal[lock.op].stage \in Stages /\ FileFits(lock.op)
    BY <2>1 DEF Consistent, Typed, Journals, JournalInv
  <2> QED BY <2>2 DEF FileFits, Recoverable, IsFinal, Untouched, HasPayload, Stages, Final
<1> QED BY <1>1, ConsistentAlways, PTL DEF Spec

(* A process that writes a journal with an outcome repeats the outcome.    *)
LEMMA JournalStep ==
  ASSUME ReleaseSucceeds, Consistent, NEW p \in Procs, OperationStep(p) \/ Crash(p),
         NEW o \in OpIds, journal[o].stage \in Final
  PROVE  journal'[o].stage = journal[o].stage
<1> USE DEF Consistent
<1>0. Working(p) => job[p].op \in OpIds /\ Fits(p)
  BY WorkerFits
<1>1. ASSUME OwnFiles(p), Working(p), pc[p] \notin ClosingAt \cup {"fin-stage"}
      PROVE  journal'[o] = journal[o]
  <2>1. o # job[p].op
    BY <1>0, <1>1 DEF Fits, StageFits, LockingAt, Final
  <2> QED BY <1>1, <2>1 DEF OwnFiles
<1>2. CASE AcquireStep(p)
  <2>1. CASE CreateJournal(p)
    <3>1. pc[p] = "lock-written" /\ Working(p) /\ OwnFiles(p)
      BY <2>1 DEF CreateJournal, WriteJournal, Working, OwnFiles, bin, Typed
    <3> QED BY <1>1, <3>1 DEF ClosingAt
  <2>2. CASE ~CreateJournal(p)
    <3>1. journal' = journal
      BY <1>2, <2>2 DEF AcquireStep, ScanRoot, CreateLock, LockIsTaken, WriteLock, disk
    <3> QED BY <3>1
  <2> QED BY <2>1, <2>2
<1>3. CASE ReleaseStep(p)
  <2>1. CASE ReleaseStage(p)
    <3>1. pc[p] = "rel-stage" /\ Working(p) /\ OwnFiles(p)
      BY <2>1 DEF ReleaseStage, WriteJournal, Working, OwnFiles, bin, Typed
    <3> QED BY <1>1, <3>1 DEF ClosingAt
  <2>2. CASE ~ReleaseStage(p)
    <3>1. journal' = journal
      BY <1>3, <2>2 DEF ReleaseStep, ReleaseCheck, ReleasePayload, ReleaseUnlock, disk
    <3> QED BY <3>1
  <2> QED BY <2>1, <2>2
<1>4. CASE RecoveryStep(p)
  <2>1. CASE FinalizeStage(p)
    <3>1. /\ pc[p] = "fin-stage" /\ Working(p)
          /\ \/ journal' = journal
             \/ \E m : journal' = [journal EXCEPT ![job[p].op] =
                                     [stage |-> job[p].rel.stage, marks |-> m]]
      BY <2>1 DEF FinalizeStage, WriteJournal, Working
    <3>2. o = job[p].op => job[p].rel.stage = journal[o].stage
      BY <1>0, <3>1 DEF Fits, StageFits
    <3>3. journal \in [OpIds -> Journals] /\ job[p].op \in OpIds
      BY <1>0, <3>1 DEF Typed
    <3>4. ASSUME NEW m, journal' = [journal EXCEPT ![job[p].op] =
                                     [stage |-> job[p].rel.stage, marks |-> m]]
          PROVE  journal'[o].stage = journal[o].stage
      <4>1. CASE o = job[p].op
        BY <3>2, <3>3, <3>4, <4>1
      <4>2. CASE o # job[p].op
        BY <3>3, <3>4, <4>2
      <4> QED BY <4>1, <4>2
    <3> QED BY <3>1, <3>4
  <2>2. CASE ~FinalizeStage(p)
    <3>1. journal' = journal
      BY <1>4, <2>2
         DEF RecoveryStep, BeginRecovery, RecoverSurface, SurfacesRecovered, RecoverQuarantine,
             RecoverTrash, RefuseTrash, FinalizePayload, FinalizeUnlock, disk
    <3> QED BY <3>1
  <2> QED BY <2>1, <2>2
<1>5. CASE DeleteStep(p)
  <2>1. pc[p] \notin ClosingAt \cup {"fin-stage"}
    BY <1>5
       DEF DeleteStep, EnterPrepared, CheckSelection, Capture, WritePayload, Recheck,
           EnterCommitting, StartSurface, MarkSurface, EnterVerifying, RemoveFromIndex,
           RemoveFromGlobalState, UndoGlobalState, RemoveFile, RemoveRows, RemoveLogs, ClosingAt
  <2> QED BY <1>1, <1>5, <2>1, DeleteFits, DeleteStays DEF Holding, Working
<1>6. CASE UndoStep(p)
  <2>1. pc[p] \notin ClosingAt \cup {"fin-stage"}
    BY <1>6 DEF UndoStep, UndoSurface, UndoEnds, ClosingAt
  <2> QED BY <1>1, <1>6, <2>1, UndoFits, UndoStays DEF Holding, Working
<1>7. CASE TrashStep(p)
  <2>1. pc[p] \notin ClosingAt \cup {"fin-stage"}
    BY <1>7
       DEF TrashStep, WriteTrashPayload, MakeTmp, BuildBundle, CommitTrashEntry, MarkTrashEntry,
           DropTrash, TearEntry, ClosingAt
  <2> QED BY <1>1, <1>7, <2>1, TrashFits, TrashStays DEF Holding, Working
<1>8. CASE CleanupStep(p)
  <2>1. pc[p] \notin ClosingAt \cup {"fin-stage"} /\ (CheckIndexes(p) => journal' = journal)
    BY <1>8
       DEF CleanupStep, CheckIndexes, WriteCleanupPayload, RecheckCleanup, CommitCleanup,
           StartIndex, VerifyCleanup, ClosingAt, disk
  <2> QED BY <1>1, <1>8, <2>1, CleanupFits, CleanupStays DEF Holding, Working
<1>9. CASE EntryStep(p)
  <2>1. /\ pc[p] \notin ClosingAt \cup {"fin-stage"}
        /\ ReadForRestore(p) \/ ReadForPurge(p) \/ EntryNotFound(p) => journal' = journal
    BY <1>9
       DEF EntryStep, ReadForRestore, ReadForPurge, EntryNotFound, PrepareEntry, CheckEntry,
           CommitEntry, ClosingAt, disk
  <2> QED BY <1>1, <1>9, <2>1, EntryFits, EntryStays DEF Holding, Working
<1>10. CASE RestoreStep(p)
  <2>1. pc[p] \notin ClosingAt \cup {"fin-stage"}
    BY <1>10
       DEF RestoreStep, CheckConflicts, CaptureRestore, WriteRestorePayload, StartRestore,
           RestoreText, RereadWritten, MarkRestored, RestoreRows, RemoveGoals, UndoRestore, UndoRestoreEnds,
           MarkRows, VerifyRestore, ClosingAt
  <2> QED BY <1>1, <1>10, <2>1, RestoreFits, RestoreStays DEF Holding, Working
<1>11. CASE PurgeStep(p)
  <2>1. pc[p] \notin ClosingAt \cup {"fin-stage"}
    BY <1>11
       DEF PurgeStep, WritePurgePayload, RecheckPurge, CheckpointPurge, PurgeLogs, QuarantineEntry,
           RemoveQuarantine, VerifyPurge, ClosingAt
  <2> QED BY <1>1, <1>11, <2>1, PurgeFits, PurgeStays DEF Holding, Working
<1>12. CASE Crash(p)
  BY <1>12 DEF Crash, disk
<1> QED BY <1>2, <1>3, <1>4, <1>5, <1>6, <1>7, <1>8, <1>9, <1>10, <1>11, <1>12 DEF OperationStep

(* An outcome is final (setStage, lock.release, finalizeInterruptedMutation):*)
(* once the journal of an operation says committed or rolled back, no step *)
(* of a process or of a recovery writes anything else into it.             *)
THEOREM OutcomesStay ==
  ASSUME ReleaseSucceeds, SupervisedRecovery
  PROVE  Spec => OutcomeIsFinal
<1>1. Consistent /\ [Next]_vars =>
        [\A o \in OpIds : journal[o].stage \in Final => journal'[o].stage = journal[o].stage]_vars
  <2> SUFFICES ASSUME Consistent, Next, NEW o \in OpIds, journal[o].stage \in Final
               PROVE  journal'[o].stage = journal[o].stage
    OBVIOUS
  <2>1. CASE CodexStep
    BY <2>1 DEF CodexStep, CodexAdds, CodexChangesOthers, disk
  <2>2. ASSUME NEW p \in Procs, OperationStep(p) \/ Crash(p)
        PROVE  journal'[o].stage = journal[o].stage
    BY <2>2, JournalStep
  <2> QED BY <2>1, <2>2 DEF Next
<1> QED BY <1>1, ConsistentAlways, PTL DEF Spec, OutcomeIsFinal
=============================================================================
