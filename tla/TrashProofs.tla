----------------------------- MODULE TrashProofs -----------------------------
(***************************************************************************)
(* What lies in the trash and whose logs a purge may delete, for every set *)
(* of processes and files and every bound, where recovery waits for the    *)
(* end of the owner and releases do not fail.                              *)
(***************************************************************************)
EXTENDS JournalProofs

(* A restore and a purge work on the entry of another, earlier operation,  *)
(* and the payload of a purge names the entry its process works on.        *)
FromFits(p) ==
  /\ pc[p] \notin {"idle", "scanned"} /\ job[p].kind \in {"restore", "purge"} =>
       job[p].from \in 1 .. ops /\ job[p].from # job[p].op
  /\ pc[p] \in PurgingAt \cup ReconcileAt /\ job[p].kind = "purge" =>
       payload[job[p].op].from = job[p].from
PayFrom(o) ==
  payload[o].kind \in {"restore", "purge"} => payload[o].from \in 1 .. ops /\ payload[o].from # o
FromInv == (\A p \in Procs : FromFits(p)) /\ (\A o \in OpIds : PayFrom(o))

(* The payload of the operation fits again.                                *)
PayFits(p) == \A o \in OpIds : o = job[p].op => PayFrom(o)'

(* The initial states satisfy FromInv.                                     *)
LEMMA FromBegins == Init => FromInv
BY DEF Init, FromInv, FromFits, PayFrom, PurgingAt, ReconcileAt, NoPayload, NoJob

(* One step keeps FromInv.                                                 *)
LEMMA StepFrom ==
  ASSUME ReleaseSucceeds, Consistent, FromInv, NEW p \in Procs, Working(p),
         OthersStay(p), OwnFiles(p), ops' = ops, FromFits(p)', PayFits(p)
  PROVE  FromInv'
<1>1. ASSUME NEW q \in Procs \ {p} PROVE FromFits(q)'
  <2>1. pc[q] \in {"idle", "scanned", "checked"}
    BY OneWorker DEF Consistent, Working
  <2> QED BY <2>1 DEF FromInv, OthersStay, FromFits, PurgingAt, ReconcileAt
<1>2. ASSUME NEW o \in OpIds, o # job[p].op PROVE PayFrom(o)'
  BY <1>2 DEF FromInv, OwnFiles, PayFrom
<1>3. ASSUME NEW o \in OpIds PROVE PayFrom(o)'
  BY <1>2 DEF PayFits
<1> QED BY <1>1, <1>3 DEF FromInv

(* The steps of deleteSessions keep FromInv.                               *)
LEMMA DeleteFrom ==
  ASSUME ReleaseSucceeds, Consistent, FromInv, NEW p \in Procs, DeleteStep(p)
  PROVE  FromFits(p)' /\ PayFits(p)
<1>0. /\ Working(p) /\ job[p].op \in OpIds /\ KindFits(p)
      /\ FromFits(p) /\ PayFrom(job[p].op) /\ payload[job[p].op].kind \in {"none", job[p].kind}
      /\ GoesOn(p) \/ (pc'[p] = "idle" /\ job'[p] = NoJob)
      /\ ops' = ops
  BY DeleteStays, WorkerFits
     DEF Stays, Holding, Working, Fits, PayloadFits, FromInv, Consistent
<1> USE <1>0, JobFunction
    DEF Consistent, Typed, GoesOn, Working, disk, Goto, ReleaseAs, Stop, CommitFails, PrepareFails,
        PayFits, PayFrom, FromFits, KindFits, DeleteAt, CommitAt, CleanupAt, MoveAt,
        EntryMadeAt, TrashAt, RestoreBeginsAt, RestoringAt, PurgingAt, ReconcileAt
<1>1. CASE EnterPrepared(p)
  BY <1>1 DEF EnterPrepared, Jobs
<1>2. CASE CheckSelection(p)
  BY <1>2 DEF CheckSelection, Jobs
<1>3. CASE Capture(p)
  BY <1>3 DEF Capture, Jobs
<1>4. CASE WritePayload(p)
  BY <1>4 DEF WritePayload, Jobs
<1>5. CASE Recheck(p)
  BY <1>5 DEF Recheck, Jobs
<1>6. CASE EnterCommitting(p)
  BY <1>6 DEF EnterCommitting, Jobs
<1>7. CASE StartSurface(p)
  BY <1>7 DEF StartSurface, Jobs
<1>8. CASE MarkSurface(p)
  BY <1>8 DEF MarkSurface, Jobs
<1>9. CASE EnterVerifying(p)
  BY <1>9 DEF EnterVerifying, Jobs
<1>10. CASE RemoveFromIndex(p)
  BY <1>10 DEF RemoveFromIndex, Jobs
<1>11. CASE RemoveFromGlobalState(p)
  BY <1>11 DEF RemoveFromGlobalState, Jobs
<1>12. CASE UndoGlobalState(p)
  BY <1>12 DEF UndoGlobalState, Jobs
<1>13. CASE RemoveFile(p)
  BY <1>13 DEF RemoveFile, Jobs
<1>14. CASE RemoveRows(p)
  BY <1>14 DEF RemoveRows, Jobs
<1>15. CASE RemoveLogs(p)
  BY <1>15 DEF RemoveLogs, Jobs
<1> QED BY <1>1, <1>2, <1>3, <1>4, <1>5, <1>6, <1>7, <1>8, <1>9, <1>10, <1>11, <1>12, <1>13, <1>14, <1>15
        DEF DeleteStep

(* The rollback of a delete keeps FromInv.                                 *)
LEMMA UndoFrom ==
  ASSUME ReleaseSucceeds, Consistent, FromInv, NEW p \in Procs, UndoStep(p)
  PROVE  FromFits(p)' /\ PayFits(p)
<1>0. /\ Working(p) /\ job[p].op \in OpIds /\ KindFits(p)
      /\ FromFits(p) /\ PayFrom(job[p].op) /\ payload[job[p].op].kind \in {"none", job[p].kind}
      /\ GoesOn(p) \/ (pc'[p] = "idle" /\ job'[p] = NoJob)
      /\ ops' = ops
  BY UndoStays, WorkerFits
     DEF Stays, Holding, Working, Fits, PayloadFits, FromInv, Consistent
<1> USE <1>0, JobFunction
    DEF Consistent, Typed, GoesOn, Working, disk, Goto, ReleaseAs, Stop,
        PayFits, PayFrom, FromFits, KindFits, DeleteAt, CommitAt, CleanupAt, MoveAt,
        EntryMadeAt, TrashAt, RestoreBeginsAt, RestoringAt, PurgingAt, ReconcileAt
<1>1. CASE UndoSurface(p)
  BY <1>1 DEF UndoSurface, Jobs
<1>2. CASE UndoEnds(p)
  BY <1>2 DEF UndoEnds, Jobs
<1> QED BY <1>1, <1>2 DEF UndoStep

(* The steps of a move to the trash keep FromInv.                          *)
LEMMA TrashFrom ==
  ASSUME ReleaseSucceeds, Consistent, FromInv, NEW p \in Procs, TrashStep(p)
  PROVE  FromFits(p)' /\ PayFits(p)
<1>0. /\ Working(p) /\ job[p].op \in OpIds /\ KindFits(p)
      /\ FromFits(p) /\ PayFrom(job[p].op) /\ payload[job[p].op].kind \in {"none", job[p].kind}
      /\ GoesOn(p) \/ (pc'[p] = "idle" /\ job'[p] = NoJob)
      /\ ops' = ops
  BY TrashStays, WorkerFits
     DEF Stays, Holding, Working, Fits, PayloadFits, FromInv, Consistent
<1> USE <1>0, JobFunction
    DEF Consistent, Typed, GoesOn, Working, disk, Goto, ReleaseAs, Stop, DropTmp, KeepEntry,
        PayFits, PayFrom, FromFits, KindFits, DeleteAt, CommitAt, CleanupAt, MoveAt,
        EntryMadeAt, TrashAt, RestoreBeginsAt, RestoringAt, PurgingAt, ReconcileAt
<1>1. CASE WriteTrashPayload(p)
  <2> DEFINE v == TrashPayload(pc[p] = "trash-seal")
  <2>1. v.kind = "trash"
    BY DEF TrashPayload
  <2>2. \E o \in Outcome("payload") :
          /\ payload' = IF Effect(o) THEN [payload EXCEPT ![job[p].op] = v] ELSE payload
          /\ IF Throws(o) THEN DropTmp(p)
             ELSE Goto(p, IF pc[p] = "trash-seal" THEN "trash-rename" ELSE "trash-mkdir")
                  /\ job' = job
    BY <1>1 DEF WriteTrashPayload
  <2> HIDE DEF v
  <2> QED BY <1>1, <2>1, <2>2 DEF WriteTrashPayload
<1>2. CASE MakeTmp(p)
  BY <1>2 DEF MakeTmp, Jobs
<1>3. CASE BuildBundle(p)
  BY <1>3 DEF BuildBundle, Jobs
<1>4. CASE CommitTrashEntry(p)
  BY <1>4 DEF CommitTrashEntry, Jobs
<1>5. CASE MarkTrashEntry(p)
  BY <1>5 DEF MarkTrashEntry, Jobs
<1>6. CASE DropTrash(p)
  BY <1>6 DEF DropTrash, Jobs
<1>7. CASE TearEntry(p)
  BY <1>7 DEF TearEntry, Jobs
<1> QED BY <1>1, <1>2, <1>3, <1>4, <1>5, <1>6, <1>7 DEF TrashStep

(* The steps of an index cleanup keep FromInv.                             *)
LEMMA CleanupFrom ==
  ASSUME ReleaseSucceeds, Consistent, FromInv, NEW p \in Procs, CleanupStep(p), ~CheckIndexes(p)
  PROVE  FromFits(p)' /\ PayFits(p)
<1>0. /\ Working(p) /\ job[p].op \in OpIds /\ KindFits(p)
      /\ FromFits(p) /\ PayFrom(job[p].op) /\ payload[job[p].op].kind \in {"none", job[p].kind}
      /\ GoesOn(p) \/ (pc'[p] = "idle" /\ job'[p] = NoJob)
      /\ ops' = ops
  BY CleanupStays, WorkerFits
     DEF Stays, Holding, Working, Fits, PayloadFits, FromInv, Consistent
<1> USE <1>0, JobFunction
    DEF Consistent, Typed, GoesOn, Working, disk, Goto, ReleaseAs, Stop, CommitFails,
        PayFits, PayFrom, FromFits, KindFits, DeleteAt, CommitAt, CleanupAt, MoveAt,
        EntryMadeAt, TrashAt, RestoreBeginsAt, RestoringAt, PurgingAt, ReconcileAt
<1>1. CASE WriteCleanupPayload(p)
  <2>1. /\ pc[p] = "acquired" /\ job[p].kind = "cleanup-index"
        /\ \/ payload' = payload /\ CommitFails(p)
           \/ \E v : /\ v.kind = job[p].kind /\ payload' = [payload EXCEPT ![job[p].op] = v]
                    /\ \/ CommitFails(p)
                       \/ /\ Goto(p, "cleanup-recheck")
                          /\ job' = [job EXCEPT ![p].snap = job[p].seen]
    BY <1>1 DEF WriteCleanupPayload, CleanupPayload, Cleans, Effect, Throws
  <2> QED BY <2>1 DEF Jobs
<1>2. CASE RecheckCleanup(p)
  BY <1>2 DEF RecheckCleanup, Jobs
<1>3. CASE CommitCleanup(p)
  BY <1>3 DEF CommitCleanup, Jobs
<1>4. CASE StartIndex(p)
  BY <1>4 DEF StartIndex, Jobs
<1>5. CASE VerifyCleanup(p)
  BY <1>5 DEF VerifyCleanup, Jobs
<1> QED BY <1>1, <1>2, <1>3, <1>4, <1>5 DEF CleanupStep

(* Finding the entry of a restore or a purge keeps FromInv.                *)
LEMMA EntryFrom ==
  ASSUME ReleaseSucceeds, Consistent, FromInv, NEW p \in Procs, EntryStep(p),
         ~(ReadForRestore(p) \/ ReadForPurge(p) \/ EntryNotFound(p))
  PROVE  FromFits(p)' /\ PayFits(p)
<1>0. /\ Working(p) /\ job[p].op \in OpIds /\ KindFits(p)
      /\ FromFits(p) /\ PayFrom(job[p].op) /\ payload[job[p].op].kind \in {"none", job[p].kind}
      /\ GoesOn(p) \/ (pc'[p] = "idle" /\ job'[p] = NoJob)
      /\ ops' = ops
  BY EntryStays, WorkerFits
     DEF Stays, Holding, Working, Fits, PayloadFits, FromInv, Consistent
<1> USE <1>0, JobFunction
    DEF Consistent, Typed, GoesOn, Working, disk, Goto, ReleaseAs, Stop, Refuse,
        PayFits, PayFrom, FromFits, KindFits, DeleteAt, CommitAt, CleanupAt, MoveAt,
        EntryMadeAt, TrashAt, RestoreBeginsAt, RestoringAt, PurgingAt, ReconcileAt
<1>1. CASE PrepareEntry(p)
  BY <1>1 DEF PrepareEntry, Jobs
<1>2. CASE CheckEntry(p)
  BY <1>2 DEF CheckEntry, Jobs
<1>3. CASE CommitEntry(p)
  BY <1>3 DEF CommitEntry, Jobs
<1> QED BY <1>1, <1>2, <1>3 DEF EntryStep

(* The steps of a restore keep FromInv.                                    *)
LEMMA RestoreFrom ==
  ASSUME ReleaseSucceeds, Consistent, FromInv, NEW p \in Procs, RestoreStep(p)
  PROVE  FromFits(p)' /\ PayFits(p)
<1>0. /\ Working(p) /\ job[p].op \in OpIds /\ KindFits(p)
      /\ FromFits(p) /\ PayFrom(job[p].op) /\ payload[job[p].op].kind \in {"none", job[p].kind}
      /\ GoesOn(p) \/ (pc'[p] = "idle" /\ job'[p] = NoJob)
      /\ ops' = ops
  BY RestoreStays, WorkerFits
     DEF Stays, Holding, Working, Fits, PayloadFits, FromInv, Consistent
<1> USE <1>0, JobFunction
    DEF Consistent, Typed, GoesOn, Working, disk, Goto, ReleaseAs, Stop, Refuse, RestoreFails,
        PayFits, PayFrom, FromFits, KindFits, DeleteAt, CommitAt, CleanupAt, MoveAt,
        EntryMadeAt, TrashAt, RestoreBeginsAt, RestoringAt, PurgingAt, ReconcileAt
<1>1. CASE CheckConflicts(p)
  BY <1>1 DEF CheckConflicts, Jobs
<1>2. CASE CaptureRestore(p)
  BY <1>2 DEF CaptureRestore, Jobs
<1>3. CASE WriteRestorePayload(p)
  BY <1>3 DEF WriteRestorePayload, Jobs
<1>4. CASE StartRestore(p)
  BY <1>4 DEF StartRestore, Jobs
<1>5. CASE RestoreText(p)
  <2>1. /\ pc[p] = "put-back" /\ payload' = payload
        /\ \/ (Goto(p, "restore-mark") \/ Goto(p, "restore-reread")) /\ job' = job
           \/ RestoreFails(p, {})
    BY <1>5 DEF RestoreText
  <2>2. /\ pc'[p] \in {"restore-mark", "restore-reread", "unrestore"}
        /\ job'[p].kind = job[p].kind /\ job'[p].op = job[p].op /\ job'[p].from = job[p].from
    <3>1. CASE (Goto(p, "restore-mark") \/ Goto(p, "restore-reread")) /\ job' = job
      BY <3>1
    <3>2. CASE RestoreFails(p, {})
      BY <3>2 DEF Jobs
    <3> QED BY <2>1, <3>1, <3>2
  <2> QED BY <2>1, <2>2
<1>6. CASE MarkRestored(p)
  BY <1>6 DEF MarkRestored, Jobs
<1>7. CASE RestoreRows(p)
  <2>1. /\ pc[p] = "put-back" /\ payload' = payload
        /\ \/ RestoreFails(p, {})
           \/ pc' = pc /\ \E c : job' = [job EXCEPT ![p].cur = c]
           \/ job' = job /\ (Goto(p, "unrestore-goals") \/ Goto(p, "restored"))
    BY <1>7 DEF RestoreRows
  <2>2. /\ pc'[p] \in {"put-back", "unrestore", "unrestore-goals", "restored"}
        /\ job'[p].kind = job[p].kind /\ job'[p].op = job[p].op /\ job'[p].from = job[p].from
    <3>1. CASE RestoreFails(p, {})
      BY <3>1 DEF Jobs
    <3>2. CASE pc' = pc /\ \E c : job' = [job EXCEPT ![p].cur = c]
      BY <2>1, <3>2 DEF Jobs
    <3>3. CASE job' = job /\ (Goto(p, "unrestore-goals") \/ Goto(p, "restored"))
      BY <3>3
    <3> QED BY <2>1, <3>1, <3>2, <3>3
  <2> QED BY <2>1, <2>2
<1>8. CASE RemoveGoals(p)
  BY <1>8 DEF RemoveGoals, Jobs
<1>9. CASE UndoRestore(p)
  BY <1>9 DEF UndoRestore, Jobs
<1>10. CASE UndoRestoreEnds(p)
  BY <1>10 DEF UndoRestoreEnds, Jobs
<1>11. CASE MarkRows(p)
  <2>1. CASE \E m : ReleaseMarked(p, m, "committed", "require")
    BY <1>11, <2>1, MarkedLeaves DEF MarkRows
  <2>2. CASE ~\E m : ReleaseMarked(p, m, "committed", "require")
    BY <1>11, <2>2 DEF MarkRows, Jobs
  <2> QED BY <2>1, <2>2
<1>12. CASE VerifyRestore(p)
  BY <1>12 DEF VerifyRestore, Jobs
<1>13. CASE RereadWritten(p)
  <2>1. /\ pc[p] = "restore-reread" /\ UNCHANGED <<disk, ops>>
        /\ pc'[p] \in {"restore-mark", "unrestore"}
        /\ job'[p].kind = job[p].kind /\ job'[p].op = job[p].op /\ job'[p].from = job[p].from
    BY <1>13, Rereads
  <2> QED BY <2>1
<1> QED BY <1>1, <1>2, <1>3, <1>4, <1>5, <1>6, <1>7, <1>8, <1>9, <1>10, <1>11, <1>12, <1>13
        DEF RestoreStep

(* The steps of a purge keep FromInv.                                      *)
LEMMA PurgeFrom ==
  ASSUME ReleaseSucceeds, Consistent, FromInv, NEW p \in Procs, PurgeStep(p)
  PROVE  FromFits(p)' /\ PayFits(p)
<1>0. /\ Working(p) /\ job[p].op \in OpIds /\ KindFits(p)
      /\ FromFits(p) /\ PayFrom(job[p].op) /\ payload[job[p].op].kind \in {"none", job[p].kind}
      /\ GoesOn(p) \/ (pc'[p] = "idle" /\ job'[p] = NoJob)
      /\ ops' = ops
  BY PurgeStays, WorkerFits
     DEF Stays, Holding, Working, Fits, PayloadFits, FromInv, Consistent
<1> USE <1>0, JobFunction
    DEF Consistent, Typed, GoesOn, Working, disk, Goto, ReleaseAs, Stop, Refuse, PurgeFails,
        PayFits, PayFrom, FromFits, KindFits, DeleteAt, CommitAt, CleanupAt, MoveAt,
        EntryMadeAt, TrashAt, RestoreBeginsAt, RestoringAt, PurgingAt, ReconcileAt
<1>1. CASE WritePurgePayload(p)
  <2> DEFINE v == [kind |-> job[p].kind, covers |-> job[p].todo, before |-> Blank,
                   moves |-> job[p].bundle, from |-> job[p].from, sealed |-> TRUE]
  <2>1. v.kind = job[p].kind /\ v.from = job[p].from
    OBVIOUS
  <2>2. \E o \in Outcome("payload") :
          /\ payload' = IF Effect(o) THEN [payload EXCEPT ![job[p].op] = v] ELSE payload
          /\ IF Throws(o) THEN Refuse(p) ELSE Goto(p, "purge-recheck") /\ job' = job
    BY <1>1 DEF WritePurgePayload
  <2> HIDE DEF v
  <2> QED BY <1>1, <2>1, <2>2 DEF WritePurgePayload, Effect, Throws, Jobs
<1>2. CASE RecheckPurge(p)
  BY <1>2 DEF RecheckPurge, Jobs
<1>3. CASE CheckpointPurge(p)
  <2>1. CASE \E m : ReleaseMarked(p, m, "recovery_required", "ignore")
    BY <1>3, <2>1, MarkedLeaves DEF CheckpointPurge
  <2>2. CASE ~\E m : ReleaseMarked(p, m, "recovery_required", "ignore")
    BY <1>3, <2>2 DEF CheckpointPurge, Jobs
  <2> QED BY <2>1, <2>2
<1>4. CASE PurgeLogs(p)
  BY <1>4 DEF PurgeLogs, Jobs
<1>5. CASE QuarantineEntry(p)
  BY <1>5 DEF QuarantineEntry, Jobs
<1>6. CASE RemoveQuarantine(p)
  BY <1>6 DEF RemoveQuarantine, Jobs
<1>7. CASE VerifyPurge(p)
  BY <1>7 DEF VerifyPurge, Jobs
<1> QED BY <1>1, <1>2, <1>3, <1>4, <1>5, <1>6, <1>7 DEF PurgeStep

(* The steps of a recovery keep FromInv.                                   *)
LEMMA RecoveryFrom ==
  ASSUME ReleaseSucceeds, Consistent, FromInv, NEW p \in Procs, RecoveryStep(p),
         ~BeginRecovery(p), ~FinalizeUnlock(p)
  PROVE  FromFits(p)' /\ PayFits(p)
<1>0. /\ Working(p) /\ job[p].op \in OpIds /\ KindFits(p)
      /\ FromFits(p) /\ PayFrom(job[p].op) /\ payload[job[p].op].kind \in {"none", job[p].kind}
      /\ GoesOn(p) \/ (pc'[p] = "idle" /\ job'[p] = NoJob)
      /\ ops' = ops
  BY RecoveryStays, WorkerFits
     DEF Stays, Holding, Working, Fits, PayloadFits, FromInv, Consistent
<1> USE <1>0, JobFunction
    DEF Consistent, Typed, GoesOn, Working, disk, Goto, ReleaseAs, Stop,
        PayFits, PayFrom, FromFits, KindFits, DeleteAt, CommitAt, CleanupAt, MoveAt,
        EntryMadeAt, TrashAt, RestoreBeginsAt, RestoringAt, PurgingAt, ReconcileAt
<1>1. CASE RecoverSurface(p)
  BY <1>1 DEF RecoverSurface, Jobs
<1>2. CASE SurfacesRecovered(p)
  BY <1>2 DEF SurfacesRecovered, Jobs
<1>3. CASE RecoverQuarantine(p)
  BY <1>3 DEF RecoverQuarantine, Jobs
<1>4. CASE RecoverTrash(p)
  BY <1>4 DEF RecoverTrash, Jobs
<1>5. CASE RefuseTrash(p)
  BY <1>5 DEF RefuseTrash, Jobs
<1>6. CASE FinalizeStage(p)
  BY <1>6 DEF FinalizeStage, Jobs
<1>7. CASE FinalizePayload(p)
  BY <1>7 DEF FinalizePayload, NoPayload, Jobs
<1> QED BY <1>1, <1>2, <1>3, <1>4, <1>5, <1>6, <1>7 DEF RecoveryStep

(* A step that writes no payload.                                          *)
LEMMA QuietFrom ==
  ASSUME Typed, FromInv, NEW p \in Procs, OthersStay(p), payload' = payload,
         ops' \in {ops, ops + 1}, FromFits(p)'
  PROVE  FromInv'
<1>0. ops \in Nat
  BY DEF Typed, CountTyped
<1>1. ASSUME NEW q \in Procs \ {p} PROVE FromFits(q)'
  BY <1>0 DEF FromInv, OthersStay, FromFits, PurgingAt, ReconcileAt
<1>2. ASSUME NEW o \in OpIds PROVE PayFrom(o)'
  BY <1>0 DEF FromInv, PayFrom
<1> QED BY <1>1, <1>2 DEF FromInv

(* A process that stops.                                                   *)
LEMMA StopFrom ==
  ASSUME Typed, FromInv, NEW p \in Procs, Stop(p), UNCHANGED <<payload, ops>>
  PROVE  FromInv'
BY StopLeaves, QuietFrom DEF FromFits, PurgingAt, ReconcileAt

(* Scanning and taking the lock keeps FromInv.                             *)
LEMMA AcquireFrom ==
  ASSUME ReleaseSucceeds, Consistent, FromInv, NEW p \in Procs, AcquireStep(p)
  PROVE  FromInv'
<1> USE JobFunction DEF Consistent
<1>1. ASSUME NEW kind \in Kinds, ScanRoot(p, kind) PROVE FromInv'
  BY <1>1, QuietFrom DEF ScanRoot, Goto, OthersStay, disk, FromFits, PurgingAt, ReconcileAt
<1>2. CASE CreateLock(p)
  <2>1. /\ pc[p] \in {"scanned", "checked"} /\ pc'[p] = "lock-created" /\ OthersStay(p)
        /\ job'[p].from = job[p].from /\ job'[p].kind = job[p].kind /\ job'[p].op = ops + 1
        /\ payload' = payload /\ ops' = ops + 1 /\ ops \in Nat
        /\ job[p].kind \in {"restore", "purge"} => pc[p] = "checked"
    BY <1>2 DEF CreateLock, ReadyToLock, FromTrash, Goto, OthersStay, Jobs, Typed, CountTyped
  <2>2. FromFits(p)'
    BY <2>1 DEF FromInv, FromFits, PurgingAt, ReconcileAt
  <2> QED BY <2>1, <2>2, QuietFrom
<1>3. CASE LockIsTaken(p)
  BY <1>3, StopFrom DEF LockIsTaken, disk
<1>4. CASE WriteLock(p) \/ CreateJournal(p)
  <2>1. /\ pc[p] \in {"lock-created", "lock-written"} /\ UNCHANGED <<payload, ops>>
        /\ Stop(p) \/ (job' = job /\ (Goto(p, "lock-written") \/ Goto(p, "acquired")))
    BY <1>4 DEF WriteLock, CreateJournal
  <2>2. CASE Stop(p)
    BY <2>1, <2>2, StopFrom
  <2>3. CASE job' = job /\ (Goto(p, "lock-written") \/ Goto(p, "acquired"))
    <3>1. OthersStay(p) /\ FromFits(p)'
      BY <2>1, <2>3 DEF Goto, OthersStay, FromInv, FromFits, PurgingAt, ReconcileAt
    <3> QED BY <2>1, <3>1, QuietFrom
  <2> QED BY <2>1, <2>2, <2>3
<1> QED BY <1>1, <1>2, <1>3, <1>4 DEF AcquireStep

(* The steps of a release keep FromInv.                                    *)
LEMMA ReleaseFrom ==
  ASSUME ReleaseSucceeds, Consistent, FromInv, NEW p \in Procs, ReleaseStep(p)
  PROVE  FromInv'
<1> USE JobFunction, ReleaseIsQuiet DEF Consistent
<1>0. Working(p) /\ pc[p] # "lock-created" /\ ops' = ops
  BY DEF ReleaseStep, ReleaseStage, ReleaseCheck, ReleasePayload, ReleaseUnlock, Working
<1>1. /\ job[p].op \in OpIds /\ OwnsLockFile(p)
  BY <1>0, WorkerFits, OneWorker DEF OwnsLockFile
<1>2. CASE ReleasePayload(p)
  <2>1. /\ pc[p] = "rel-payload" /\ UNCHANGED <<journal, bin>> /\ Goto(p, "rel-unlock") /\ job' = job
        /\ payload' = [payload EXCEPT ![job[p].op] = NoPayload]
    BY <1>2 DEF ReleasePayload, Effect, Throws
  <2>2. OthersStay(p) /\ OwnFiles(p) /\ payload'[job[p].op].kind = "none"
    BY <1>1, <2>1 DEF Typed, Goto, OthersStay, OwnFiles, NoPayload, bin
  <2>3. PayFits(p)
    BY <2>2 DEF PayFits, PayFrom
  <2>4. FromFits(p)'
    BY <1>0, <2>1 DEF Goto, Working, FromInv, FromFits, PurgingAt, ReconcileAt
  <2> QED BY <1>0, <2>2, <2>3, <2>4, StepFrom
<1>3. CASE ~ReleasePayload(p)
  <2>1. /\ payload' = payload
        /\ Stop(p) \/ (job' = job /\ (Goto(p, "rel-check") \/ Goto(p, "rel-payload")))
    BY <1>1, <1>3 DEF ReleaseStep, ReleaseStage, ReleaseCheck, ReleaseUnlock, Throws, disk
  <2>2. CASE Stop(p)
    BY <1>0, <2>1, <2>2, StopFrom
  <2>3. CASE job' = job /\ (Goto(p, "rel-check") \/ Goto(p, "rel-payload"))
    <3>1. OthersStay(p) /\ FromFits(p)'
      BY <1>0, <2>1, <2>3 DEF Goto, OthersStay, Working, FromInv, FromFits, PurgingAt, ReconcileAt
    <3> QED BY <1>0, <2>1, <3>1, QuietFrom
  <2> QED BY <2>1, <2>2, <2>3
<1> QED BY <1>2, <1>3

(* A restore and a purge take an entry that is in the trash.               *)
LEMMA ReadFrom ==
  ASSUME Consistent, FromInv, NEW p \in Procs,
         CheckIndexes(p) \/ ReadForRestore(p) \/ ReadForPurge(p) \/ EntryNotFound(p)
  PROVE  FromInv'
<1> USE JobFunction DEF Consistent
<1>0. /\ pc[p] = "scanned" /\ UNCHANGED <<payload, ops>> /\ job[p].op = 0
      /\ \A e \in ValidEntries : e \in 1 .. ops
  BY DEF CheckIndexes, ReadForRestore, ReadForPurge, EntryNotFound, disk, Ownership, OwnOperation,
         Working, JournalInv, FileFits, ValidEntries
<1>1. CASE CheckIndexes(p)
  <2>1. Stop(p) \/ (Goto(p, "checked") /\ job' = job /\ job[p].kind = "cleanup-index")
    BY <1>1 DEF CheckIndexes, Cleans
  <2>2. CASE Goto(p, "checked") /\ job' = job /\ job[p].kind = "cleanup-index"
    BY <1>0, <2>2, QuietFrom DEF Goto, OthersStay, FromFits, PurgingAt, ReconcileAt
  <2> QED BY <1>0, <2>1, <2>2, StopFrom
<1>2. CASE ReadForRestore(p)
  <2> PICK e \in ValidEntries :
        Goto(p, "checked") /\ job' = [job EXCEPT ![p] = [job[p] EXCEPT !.from = e,
                                                                      !.bundle = entry[e].bundle]]
    BY <1>2 DEF ReadForRestore
  <2>1. OthersStay(p) /\ pc'[p] = "checked" /\ job'[p].from = e /\ job'[p].op = 0
    BY <1>0 DEF Goto, OthersStay, Jobs
  <2>2. FromFits(p)'
    BY <1>0, <2>1 DEF FromFits, PurgingAt, ReconcileAt
  <2> QED BY <1>0, <2>1, <2>2, QuietFrom
<1>3. CASE ReadForPurge(p)
  <2> DEFINE b(e) == IF LogsArePurged(job[p].seen, e) THEN LogKeys ELSE NoRecords
             t(e) == IF LogsArePurged(job[p].seen, e) THEN {"logs"} ELSE {}
             j(e) == [job[p] EXCEPT !.from = e, !.bundle = b(e), !.todo = t(e)]
  <2> PICK e \in ValidEntries : Goto(p, "checked") /\ job' = [job EXCEPT ![p] = j(e)]
    BY <1>3 DEF ReadForPurge
  <2> HIDE DEF b, t
  <2>1. j(e).from = e /\ j(e).op = job[p].op
    BY DEF Jobs
  <2> HIDE DEF j
  <2>2. OthersStay(p) /\ pc'[p] = "checked" /\ job'[p].from = e /\ job'[p].op = 0
    BY <1>0, <2>1 DEF Goto, OthersStay
  <2>3. FromFits(p)'
    BY <1>0, <2>2 DEF FromFits, PurgingAt, ReconcileAt
  <2> QED BY <1>0, <2>2, <2>3, QuietFrom
<1>4. CASE EntryNotFound(p)
  BY <1>4, StopFrom DEF EntryNotFound, disk
<1> QED BY <1>1, <1>2, <1>3, <1>4

(* Every step keeps FromInv.                                               *)
LEMMA NextFrom ==
  ASSUME ReleaseSucceeds, SupervisedRecovery
  PROVE  Consistent /\ FromInv /\ [Next]_vars => FromInv'
<1> SUFFICES ASSUME Consistent, FromInv, [Next]_vars PROVE FromInv'
  OBVIOUS
<1> USE DEF Consistent
<1>1. ASSUME NEW p \in Procs, OperationStep(p) PROVE FromInv'
  <2>1. CASE AcquireStep(p)
    BY <2>1, AcquireFrom
  <2>2. CASE ReleaseStep(p)
    BY <2>2, ReleaseFrom
  <2>3. CASE BeginRecovery(p)
    <3>1. /\ lock.op \in OpIds /\ OthersStay(p) /\ pc'[p] \in {"rec", "fin-stage"}
          /\ job'[p].op = lock.op /\ job'[p].kind = payload[lock.op].kind
          /\ job'[p].from = payload[lock.op].from /\ UNCHANGED <<payload, ops>>
      BY <2>3, JobFunction
         DEF BeginRecovery, Goto, OthersStay, NoJob, Readable, Typed, LockTyped, OpIds, disk
    <3>2. FromFits(p)'
      BY <3>1 DEF FromInv, PayFrom, FromFits, PurgingAt, ReconcileAt
    <3> QED BY <3>1, <3>2, QuietFrom
  <2>4. CASE FinalizeUnlock(p)
    BY <2>4, StopFrom DEF FinalizeUnlock
  <2>5. CASE CheckIndexes(p) \/ ReadForRestore(p) \/ ReadForPurge(p) \/ EntryNotFound(p)
    BY <2>5, ReadFrom
  <2>6. CASE DeleteStep(p) \/ UndoStep(p) \/ TrashStep(p) \/ RestoreStep(p) \/ PurgeStep(p)
    <3>1. Stays(p) /\ Holding(p)
      BY <2>6, DeleteStays, UndoStays, TrashStays, RestoreStays, PurgeStays
    <3>2. OwnFiles(p)
      BY <2>6, DeleteFits, UndoFits, TrashFits, RestoreFits, PurgeFits
    <3>3. FromFits(p)' /\ PayFits(p)
      BY <2>6, DeleteFrom, UndoFrom, TrashFrom, RestoreFrom, PurgeFrom
    <3> QED BY <3>1, <3>2, <3>3, StepFrom DEF Stays, Holding, Working
  <2>7. CASE CleanupStep(p) /\ ~CheckIndexes(p)
    BY <2>7, CleanupStays, CleanupFits, CleanupFrom, StepFrom DEF Stays, Holding, Working
  <2>8. CASE EntryStep(p) /\ ~(ReadForRestore(p) \/ ReadForPurge(p) \/ EntryNotFound(p))
    BY <2>8, EntryStays, EntryFits, EntryFrom, StepFrom DEF Stays, Holding, Working
  <2>9. CASE RecoveryStep(p) /\ ~BeginRecovery(p) /\ ~FinalizeUnlock(p)
    BY <2>9, RecoveryStays, RecoveryFits, RecoveryFrom, StepFrom DEF Stays, Holding, Working
  <2> QED BY <1>1, <2>1, <2>2, <2>3, <2>4, <2>5, <2>6, <2>7, <2>8, <2>9 DEF OperationStep
<1>2. ASSUME NEW p \in Procs, Crash(p) PROVE FromInv'
  BY <1>2, StopFrom DEF Crash, disk
<1>3. CASE CodexStep \/ UNCHANGED vars
  <2>1. UNCHANGED <<payload, pc, job, ops>>
    BY <1>3 DEF CodexStep, CodexAdds, CodexChangesOthers, disk, vars
  <2> QED BY <2>1 DEF FromInv, FromFits, PayFrom, PurgingAt, ReconcileAt
<1> QED BY <1>1, <1>2, <1>3 DEF Next

-----------------------------------------------------------------------------
(* What lies in the trash.  A rename that takes effect and then fails is   *)
(* out of the question here: its catch block drops only the temporary      *)
(* directory.                                                              *)
RenamesAreClean == "trash" \notin LateFaults

Clean(o)   == entry[o].state \in {"absent", "complete"}
AllClean   == \A o \in OpIds : Clean(o)
Pending(o) == lock.op = o /\ journal[o].stage \notin Final
MovesTo(o) == Pending(o) /\ payload[o].kind = "trash"
PurgesFrom(o) ==
  \E x \in OpIds \ {o} : Pending(x) /\ payload[x].kind = "purge" /\ payload[x].from = o

(* Temporary directories and entries without a committed move are those of *)
(* a pending move, and an entry is half gone only while a move or a purge  *)
(* of it is pending.                                                       *)
BinFits(o) ==
  /\ tmp[o] => MovesTo(o)
  /\ entry[o].state # "absent" => journal[o].stage = "committed" \/ MovesTo(o)
  /\ ~Clean(o) => MovesTo(o) \/ PurgesFrom(o)

(* Where an entry may be half gone.                                        *)
Unsettled(p) ==
  \/ pc[p] \in {"trash-drop-entry", "purge-quarantined", "purge-remove"} \cup ReconcileAt
  \/ pc[p] = "rel-stage" /\ job[p].rel.stage = "recovery_required"

(* The entry of the operation is what a process at its place has made.     *)
BinAt(p) ==
  LET o == job[p].op IN
  Working(p) =>
    /\ pc[p] \in LockingAt \cup MoveAt \cup {"acquired", "trash-drop-tmp"} => entry[o].state = "absent"
    /\ /\ job[p].kind = "trash"
       /\ \/ pc[p] \in EntryMadeAt \cup DeleteAt \cup CommitAt
          \/ pc[p] = "rel-stage" /\ job[p].rel.stage = "committed"
       => entry[o].state = "complete" /\ ~tmp[o]
    /\ pc[p] = "trash-drop-entry" => ~tmp[o]
    /\ \/ pc[p] = "rel-stage" /\ job[p].rel.stage = "rolled_back"
       \/ pc[p] = "fin-stage" /\ journal[o].stage \notin Final
       => entry[o].state = "absent" /\ ~tmp[o]
    /\ ~Unsettled(p) => AllClean

BinInv == (\A o \in OpIds : BinFits(o)) /\ (\A p \in Procs : BinAt(p))

(* A step that leaves the trash alone, and the operation a pending one.    *)
QuietBin(p) ==
  /\ UNCHANGED bin
  /\ journal[job[p].op].stage \notin Final /\ journal'[job[p].op].stage \notin Final
  /\ \/ payload'[job[p].op] = payload[job[p].op]
     \/ payload'[job[p].op].kind = job[p].kind /\ AllClean

(* An operation that moves nothing has nothing in the trash.               *)
LEMMA NothingMoved ==
  ASSUME ReleaseSucceeds, Consistent, BinInv, NEW p \in Procs, Working(p),
         journal[job[p].op].stage \notin Final, job[p].kind # "trash"
  PROVE  entry[job[p].op].state = "absent" /\ ~tmp[job[p].op]
<1>1. job[p].op \in OpIds /\ PayloadFits(p)
  BY WorkerFits DEF Consistent, Fits
<1> QED BY <1>1 DEF BinInv, BinFits, MovesTo, PayloadFits, Final

(* The steps of deleteSessions keep BinInv.                                *)
LEMMA DeleteBin ==
  ASSUME ReleaseSucceeds, Consistent, FromInv, BinInv, NEW p \in Procs, DeleteStep(p)
  PROVE  QuietBin(p) /\ BinAt(p)'
<1>a. /\ Working(p) /\ job[p].op \in OpIds /\ Fits(p) /\ BinAt(p)
      /\ GoesOn(p) \/ (pc'[p] = "idle" /\ job'[p] = NoJob)
  BY DeleteStays, DeleteFits, WorkerFits DEF Stays, Holding, Working, BinInv, Consistent
<1>b. /\ journal[job[p].op].stage \notin Final /\ job[p].kind # "trash" =>
           entry[job[p].op].state = "absent" /\ ~tmp[job[p].op]
      /\ UNCHANGED bin => (AllClean <=> AllClean')
  BY <1>a, NothingMoved DEF bin, AllClean, Clean
<1> HIDE DEF AllClean
<1> USE <1>a, <1>b, JobFunction
    DEF Consistent, Typed, GoesOn, Working, disk, Goto, ReleaseAs, Stop, CommitFails, PrepareFails,
        WriteJournal, QuietBin, BinAt, Unsettled, Fits, KindFits, StageFits, PayloadFits,
        Final, LockingAt, ClosingAt, DeleteAt, CommitAt, CleanupAt, MoveAt, EntryMadeAt, TrashAt,
        RestoreBeginsAt, RestoringAt, PurgingAt, ReconcileAt, WithPayload
<1>1. CASE EnterPrepared(p)
  BY <1>1 DEF EnterPrepared, Deletes, OwnsLock, Jobs, bin
<1>2. CASE CheckSelection(p)
  BY <1>2 DEF CheckSelection, OwnsLock, Jobs, bin
<1>3. CASE Capture(p)
  <2>1. \/ Goto(p, "payload") /\ \E i : job' = [job EXCEPT ![p].snap = i]
        \/ PrepareFails(p)
    BY <1>3 DEF Capture
  <2>2. CASE PrepareFails(p)
    BY <1>3, <2>2 DEF Capture, OwnsLock, Jobs, bin
  <2>3. CASE Goto(p, "payload") /\ \E i : job' = [job EXCEPT ![p].snap = i]
    BY <1>3, <2>3 DEF Capture, Jobs, bin
  <2> QED BY <2>1, <2>2, <2>3
<1>4. CASE WritePayload(p)
  BY <1>4 DEF WritePayload, Jobs, bin
<1>5. CASE Recheck(p)
  BY <1>5 DEF Recheck, Jobs, bin
<1>6. CASE EnterCommitting(p)
  BY <1>6 DEF EnterCommitting, Jobs, bin
<1>7. CASE StartSurface(p)
  BY <1>7 DEF StartSurface, Jobs, bin
<1>8. CASE MarkSurface(p)
  BY <1>8 DEF MarkSurface, Jobs, bin
<1>9. CASE EnterVerifying(p)
  BY <1>9 DEF EnterVerifying, Jobs, bin
<1>10. CASE RemoveFromIndex(p)
  BY <1>10 DEF RemoveFromIndex, Jobs, bin
<1>11. CASE RemoveFromGlobalState(p)
  BY <1>11 DEF RemoveFromGlobalState, Jobs, bin
<1>12. CASE UndoGlobalState(p)
  BY <1>12 DEF UndoGlobalState, Jobs, bin
<1>13. CASE RemoveFile(p)
  BY <1>13 DEF RemoveFile, Jobs, bin
<1>14. CASE RemoveRows(p)
  BY <1>14 DEF RemoveRows, Jobs, bin
<1>15. CASE RemoveLogs(p)
  BY <1>15 DEF RemoveLogs, Jobs, bin
<1> QED BY <1>1, <1>2, <1>3, <1>4, <1>5, <1>6, <1>7, <1>8, <1>9, <1>10, <1>11, <1>12, <1>13, <1>14, <1>15
        DEF DeleteStep

(* The rollback of a delete keeps BinInv.                                  *)
LEMMA UndoBin ==
  ASSUME ReleaseSucceeds, Consistent, FromInv, BinInv, NEW p \in Procs, UndoStep(p)
  PROVE  QuietBin(p) /\ BinAt(p)'
<1>a. /\ Working(p) /\ job[p].op \in OpIds /\ Fits(p) /\ BinAt(p)
      /\ GoesOn(p) \/ (pc'[p] = "idle" /\ job'[p] = NoJob)
  BY UndoStays, UndoFits, WorkerFits DEF Stays, Holding, Working, BinInv, Consistent
<1>b. /\ journal[job[p].op].stage \notin Final /\ job[p].kind # "trash" =>
           entry[job[p].op].state = "absent" /\ ~tmp[job[p].op]
      /\ UNCHANGED bin => (AllClean <=> AllClean')
  BY <1>a, NothingMoved DEF bin, AllClean, Clean
<1> HIDE DEF AllClean
<1> USE <1>a, <1>b, JobFunction
    DEF Consistent, Typed, GoesOn, Working, disk, Goto, ReleaseAs, Stop,
        WriteJournal, QuietBin, BinAt, Unsettled, Fits, KindFits, StageFits, PayloadFits,
        Final, LockingAt, ClosingAt, DeleteAt, CommitAt, CleanupAt, MoveAt, EntryMadeAt, TrashAt,
        RestoreBeginsAt, RestoringAt, PurgingAt, ReconcileAt, WithPayload
<1>1. CASE UndoSurface(p)
  BY <1>1 DEF UndoSurface, Jobs, bin
<1>2. CASE UndoEnds(p)
  BY <1>2 DEF UndoEnds, Jobs, bin
<1> QED BY <1>1, <1>2 DEF UndoStep

(* The steps of an index cleanup keep BinInv.                              *)
LEMMA CleanupBin ==
  ASSUME ReleaseSucceeds, Consistent, FromInv, BinInv, NEW p \in Procs, CleanupStep(p),
         ~CheckIndexes(p)
  PROVE  QuietBin(p) /\ BinAt(p)'
<1>a. /\ Working(p) /\ job[p].op \in OpIds /\ Fits(p) /\ BinAt(p)
      /\ GoesOn(p) \/ (pc'[p] = "idle" /\ job'[p] = NoJob)
  BY CleanupStays, CleanupFits, WorkerFits DEF Stays, Holding, Working, BinInv, Consistent
<1>b. /\ journal[job[p].op].stage \notin Final /\ job[p].kind # "trash" =>
           entry[job[p].op].state = "absent" /\ ~tmp[job[p].op]
      /\ UNCHANGED bin => (AllClean <=> AllClean')
  BY <1>a, NothingMoved DEF bin, AllClean, Clean
<1> HIDE DEF AllClean
<1> USE <1>a, <1>b, JobFunction
    DEF Consistent, Typed, GoesOn, Working, disk, Goto, ReleaseAs, Stop, CommitFails,
        WriteJournal, QuietBin, BinAt, Unsettled, Fits, KindFits, StageFits, PayloadFits,
        Final, LockingAt, ClosingAt, DeleteAt, CommitAt, CleanupAt, MoveAt, EntryMadeAt, TrashAt,
        RestoreBeginsAt, RestoringAt, PurgingAt, ReconcileAt, WithPayload
<1>1. CASE WriteCleanupPayload(p)
  <2>1. /\ pc[p] = "acquired" /\ job[p].kind = "cleanup-index" /\ UNCHANGED <<bin, journal>>
        /\ \/ payload' = payload /\ CommitFails(p)
           \/ \E v : /\ v.kind = job[p].kind /\ payload' = [payload EXCEPT ![job[p].op] = v]
                    /\ \/ CommitFails(p)
                       \/ /\ Goto(p, "cleanup-recheck")
                          /\ job' = [job EXCEPT ![p].snap = job[p].seen]
    BY <1>1 DEF WriteCleanupPayload, CleanupPayload, Cleans, Effect, Throws
  <2> QED BY <2>1 DEF Jobs, bin
<1>2. CASE RecheckCleanup(p)
  BY <1>2 DEF RecheckCleanup, Jobs, bin
<1>3. CASE CommitCleanup(p)
  BY <1>3 DEF CommitCleanup, Jobs, bin
<1>4. CASE StartIndex(p)
  BY <1>4 DEF StartIndex, Jobs, bin
<1>5. CASE VerifyCleanup(p)
  BY <1>5 DEF VerifyCleanup, Jobs, bin
<1> QED BY <1>1, <1>2, <1>3, <1>4, <1>5 DEF CleanupStep

(* Finding the entry of a restore or a purge keeps BinInv.                 *)
LEMMA EntryBin ==
  ASSUME ReleaseSucceeds, Consistent, FromInv, BinInv, NEW p \in Procs, EntryStep(p),
         ~(ReadForRestore(p) \/ ReadForPurge(p) \/ EntryNotFound(p))
  PROVE  QuietBin(p) /\ BinAt(p)'
<1>a. /\ Working(p) /\ job[p].op \in OpIds /\ Fits(p) /\ BinAt(p)
      /\ GoesOn(p) \/ (pc'[p] = "idle" /\ job'[p] = NoJob)
  BY EntryStays, EntryFits, WorkerFits DEF Stays, Holding, Working, BinInv, Consistent
<1>b. /\ journal[job[p].op].stage \notin Final /\ job[p].kind # "trash" =>
           entry[job[p].op].state = "absent" /\ ~tmp[job[p].op]
      /\ UNCHANGED bin => (AllClean <=> AllClean')
  BY <1>a, NothingMoved DEF bin, AllClean, Clean
<1> HIDE DEF AllClean
<1> USE <1>a, <1>b, JobFunction
    DEF Consistent, Typed, GoesOn, Working, disk, Goto, ReleaseAs, Stop, Refuse,
        WriteJournal, QuietBin, BinAt, Unsettled, Fits, KindFits, StageFits, PayloadFits,
        Final, LockingAt, ClosingAt, DeleteAt, CommitAt, CleanupAt, MoveAt, EntryMadeAt, TrashAt,
        RestoreBeginsAt, RestoringAt, PurgingAt, ReconcileAt, WithPayload
<1>1. CASE PrepareEntry(p)
  BY <1>1 DEF PrepareEntry, FromTrash, Jobs, bin
<1>2. CASE CheckEntry(p)
  BY <1>2 DEF CheckEntry, Jobs, bin
<1>3. CASE CommitEntry(p)
  BY <1>3 DEF CommitEntry, Jobs, bin
<1> QED BY <1>1, <1>2, <1>3 DEF EntryStep

(* The steps of a restore keep BinInv.                                     *)
LEMMA RestoreBin ==
  ASSUME ReleaseSucceeds, Consistent, FromInv, BinInv, NEW p \in Procs, RestoreStep(p)
  PROVE  QuietBin(p) /\ BinAt(p)'
<1>a. /\ Working(p) /\ job[p].op \in OpIds /\ Fits(p) /\ BinAt(p)
      /\ GoesOn(p) \/ (pc'[p] = "idle" /\ job'[p] = NoJob)
  BY RestoreStays, RestoreFits, WorkerFits DEF Stays, Holding, Working, BinInv, Consistent
<1>b. /\ journal[job[p].op].stage \notin Final /\ job[p].kind # "trash" =>
           entry[job[p].op].state = "absent" /\ ~tmp[job[p].op]
      /\ UNCHANGED bin => (AllClean <=> AllClean')
  BY <1>a, NothingMoved DEF bin, AllClean, Clean
<1> HIDE DEF AllClean
<1> USE <1>a, <1>b, JobFunction
    DEF Consistent, Typed, GoesOn, Working, disk, Goto, ReleaseAs, Stop, Refuse, RestoreFails,
        WriteJournal, QuietBin, BinAt, Unsettled, Fits, KindFits, StageFits, PayloadFits,
        Final, LockingAt, ClosingAt, DeleteAt, CommitAt, CleanupAt, MoveAt, EntryMadeAt, TrashAt,
        RestoreBeginsAt, RestoringAt, PurgingAt, ReconcileAt, WithPayload
<1>1. CASE CheckConflicts(p)
  BY <1>1 DEF CheckConflicts, Jobs, bin
<1>2. CASE CaptureRestore(p)
  BY <1>2 DEF CaptureRestore, Jobs, bin
<1>3. CASE WriteRestorePayload(p)
  BY <1>3 DEF WriteRestorePayload, Jobs, bin
<1>4. CASE StartRestore(p)
  BY <1>4 DEF StartRestore, Jobs, bin
<1>5. CASE RestoreText(p)
  BY <1>5 DEF RestoreText, Jobs, bin
<1>6. CASE MarkRestored(p)
  BY <1>6 DEF MarkRestored, Jobs, bin
<1>7. CASE RestoreRows(p)
  BY <1>7 DEF RestoreRows, Jobs, bin
<1>8. CASE RemoveGoals(p)
  BY <1>8 DEF RemoveGoals, Jobs, bin
<1>9. CASE UndoRestore(p)
  BY <1>9 DEF UndoRestore, Jobs, bin
<1>10. CASE UndoRestoreEnds(p)
  BY <1>10 DEF UndoRestoreEnds, Jobs, bin
<1>11. CASE MarkRows(p)
  BY <1>11 DEF MarkRows, ReleaseMarked, Jobs, bin
<1>12. CASE VerifyRestore(p)
  BY <1>12 DEF VerifyRestore, Jobs, bin
<1>13. CASE RereadWritten(p)
  BY <1>13 DEF RereadWritten, Jobs, bin
<1> QED BY <1>1, <1>2, <1>3, <1>4, <1>5, <1>6, <1>7, <1>8, <1>9, <1>10, <1>11, <1>12, <1>13
        DEF RestoreStep

(* What the trash looks like to the operation that holds the lock.         *)
HoldsBin(o) ==
  LET moves == journal[o].stage \notin Final /\ payload[o].kind = "trash" IN
  /\ tmp[o] => moves
  /\ entry[o].state # "absent" => journal[o].stage = "committed" \/ moves
  /\ ~Clean(o) => moves
  /\ \A x \in OpIds \ {o} : ~Clean(x) => /\ journal[o].stage \notin Final
                                         /\ payload[o].kind = "purge" /\ payload[o].from = x
HoldsAgain(p) == \A o \in OpIds : o = job[p].op => HoldsBin(o)'

(* What the working process knows of the trash.                            *)
LEMMA WorkerBin ==
  ASSUME ReleaseSucceeds, Consistent, BinInv, NEW p \in Procs, Working(p)
  PROVE  HoldsBin(job[p].op) /\ BinAt(p)
<1>1. job[p].op \in OpIds /\ lock.op = job[p].op
  BY WorkerFits DEF Consistent
<1> QED BY <1>1 DEF BinInv, BinFits, MovesTo, PurgesFrom, Pending, HoldsBin

(* One step keeps BinInv.                                                  *)
LEMMA StepBin ==
  ASSUME ReleaseSucceeds, Consistent, BinInv, NEW p \in Procs, Working(p), OthersStay(p),
         OwnFiles(p), lock' = lock, HoldsAgain(p), BinAt(p)'
  PROVE  BinInv'
<1> PICK o \in OpIds : o = job[p].op /\ lock.op = o
  BY WorkerFits DEF Consistent
<1>1. HoldsBin(o)'
  BY DEF HoldsAgain
<1>2. ASSUME NEW q \in Procs PROVE BinAt(q)'
  BY OneWorker DEF Consistent, OthersStay, BinAt, Working
<1>3. BinFits(o)'
  BY <1>1 DEF HoldsBin, BinFits, MovesTo, PurgesFrom, Pending
<1>4. ASSUME NEW x \in OpIds \ {o} PROVE BinFits(x)'
  <2>1. /\ ~tmp'[x] /\ (entry'[x].state # "absent" => journal'[x].stage = "committed")
    BY DEF BinInv, BinFits, MovesTo, Pending, OwnFiles
  <2>2. ~Clean(x)' => PurgesFrom(x)'
    BY <1>1 DEF HoldsBin, PurgesFrom, Pending
  <2> QED BY <2>1, <2>2 DEF BinFits
<1> QED BY <1>2, <1>3, <1>4 DEF BinInv

(* A step that leaves the trash alone keeps BinInv.                        *)
LEMMA QuietHolds ==
  ASSUME ReleaseSucceeds, Consistent, BinInv, NEW p \in Procs, Working(p), QuietBin(p)
  PROVE  HoldsAgain(p)
<1> SUFFICES ASSUME NEW o \in OpIds, o = job[p].op PROVE HoldsBin(o)'
  BY DEF HoldsAgain
<1>1. HoldsBin(o) /\ payload[o].kind \in {"none", job[p].kind}
  BY WorkerBin, WorkerFits DEF Consistent, Fits, PayloadFits
<1>2. /\ \A x \in OpIds : tmp'[x] = tmp[x] /\ entry'[x] = entry[x]
      /\ journal[o].stage \notin Final /\ journal'[o].stage \notin Final
      /\ payload'[o] = payload[o] \/ (payload'[o].kind = job[p].kind /\ AllClean)
  BY DEF QuietBin, bin
<1> QED BY <1>1, <1>2 DEF HoldsBin, AllClean, Clean, Final

(* The steps of a move to the trash keep BinInv.                           *)
LEMMA TrashBin ==
  ASSUME ReleaseSucceeds, RenamesAreClean, Consistent, FromInv, BinInv, NEW p \in Procs,
         TrashStep(p)
  PROVE  HoldsAgain(p) /\ BinAt(p)'
<1>a. /\ Working(p) /\ job[p].op \in OpIds /\ Fits(p) /\ BinAt(p)
      /\ GoesOn(p) \/ (pc'[p] = "idle" /\ job'[p] = NoJob)
      /\ HoldsBin(job[p].op)
  BY TrashStays, TrashFits, WorkerFits, WorkerBin DEF Stays, Holding, Working, BinInv, Consistent
<1>b. UNCHANGED bin => (AllClean <=> AllClean')
  BY DEF bin, AllClean, Clean
<1>c. QuietBin(p) => HoldsAgain(p)
  BY <1>a, QuietHolds
<1> HIDE DEF AllClean
<1> USE <1>a, <1>b, JobFunction
    DEF Consistent, Typed, GoesOn, Working, disk, Goto, ReleaseAs, Stop, DropTmp, KeepEntry,
        WriteJournal, BinAt, Unsettled, Fits, KindFits, StageFits, PayloadFits,
        Final, LockingAt, ClosingAt, DeleteAt, CommitAt, CleanupAt, MoveAt, EntryMadeAt, TrashAt,
        RestoreBeginsAt, RestoringAt, PurgingAt, ReconcileAt, WithPayload
<1>1. CASE WriteTrashPayload(p)
  <2> DEFINE v == TrashPayload(pc[p] = "trash-seal")
  <2>1. v.kind = "trash"
    BY DEF TrashPayload
  <2>2. \E o \in Outcome("payload") :
          /\ payload' = IF Effect(o) THEN [payload EXCEPT ![job[p].op] = v] ELSE payload
          /\ IF Throws(o) THEN DropTmp(p)
             ELSE Goto(p, IF pc[p] = "trash-seal" THEN "trash-rename" ELSE "trash-mkdir")
                  /\ job' = job
    BY <1>1 DEF WriteTrashPayload
  <2> HIDE DEF v
  <2>3. QuietBin(p)
    BY <1>1, <2>1, <2>2 DEF WriteTrashPayload, QuietBin, bin
  <2>4. BinAt(p)'
    BY <1>1, <2>2 DEF WriteTrashPayload, bin
  <2> QED BY <1>c, <2>3, <2>4
<1>2. CASE MakeTmp(p)
  <2>1. HoldsAgain(p)
    BY <1>2 DEF MakeTmp, HoldsAgain, HoldsBin, Clean, BinTyped
  <2>2. BinAt(p)'
    BY <1>2 DEF MakeTmp, AllClean, Clean
  <2> QED BY <2>1, <2>2
<1>3. CASE BuildBundle(p)
  <2>1. QuietBin(p)
    BY <1>3 DEF BuildBundle, QuietBin
  <2>2. BinAt(p)'
    BY <1>3 DEF BuildBundle, bin, Jobs
  <2> QED BY <1>c, <2>1, <2>2
<1>4. CASE CommitTrashEntry(p)
  <2>1. \/ DropTmp(p) /\ UNCHANGED bin
        \/ /\ Goto(p, "trash-mark") /\ job' = job
           /\ entry' = [entry EXCEPT ![job[p].op] =
                          [state |-> "complete", bundle |-> job[p].bundle]]
           /\ tmp'   = [tmp EXCEPT ![job[p].op] = FALSE]
    BY <1>4 DEF CommitTrashEntry, RenamesAreClean, Outcome, Effect, Throws
  <2>2. HoldsAgain(p)
    BY <1>4, <2>1 DEF CommitTrashEntry, HoldsAgain, HoldsBin, Clean, BinTyped, bin
  <2>3. BinAt(p)'
    BY <1>4, <2>1 DEF CommitTrashEntry, AllClean, Clean, BinTyped, bin
  <2> QED BY <2>2, <2>3
<1>5. CASE MarkTrashEntry(p)
  <2>1. QuietBin(p)
    BY <1>5 DEF MarkTrashEntry, QuietBin
  <2>2. BinAt(p)'
    BY <1>5 DEF MarkTrashEntry, bin, Jobs
  <2> QED BY <1>c, <2>1, <2>2
<1>6. CASE DropTrash(p)
  <2>1. HoldsAgain(p)
    BY <1>6 DEF DropTrash, HoldsAgain, HoldsBin, Clean, BinTyped, NoEntry, bin
  <2>2. BinAt(p)'
    <3>1. \/ ReleaseAs(p, "recovery_required", "ignore")
          \/ ReleaseAs(p, "rolled_back", "require") /\
             (IF pc[p] = "trash-drop-tmp"
              THEN tmp' = [tmp EXCEPT ![job[p].op] = FALSE] /\ entry' = entry
              ELSE entry' = [entry EXCEPT ![job[p].op] = NoEntry] /\ tmp' = tmp)
      BY <1>6 DEF DropTrash, Effect, Throws
    <3>2. CASE ReleaseAs(p, "recovery_required", "ignore")
      BY <1>6, <3>2 DEF DropTrash, Jobs
    <3>3. CASE ReleaseAs(p, "rolled_back", "require") /\
             (IF pc[p] = "trash-drop-tmp"
              THEN tmp' = [tmp EXCEPT ![job[p].op] = FALSE] /\ entry' = entry
              ELSE entry' = [entry EXCEPT ![job[p].op] = NoEntry] /\ tmp' = tmp)
      <4>1. AllClean'
        BY <1>6, <3>3 DEF DropTrash, HoldsBin, AllClean, Clean, BinTyped, NoEntry
      <4> QED BY <1>6, <3>3, <4>1 DEF DropTrash, Jobs, BinTyped, NoEntry
    <3> QED BY <3>1, <3>2, <3>3
  <2> QED BY <2>1, <2>2
<1>7. CASE TearEntry(p)
  <2>1. HoldsAgain(p)
    BY <1>7 DEF TearEntry, EntryOf, HoldsAgain, HoldsBin, Clean, BinTyped
  <2>2. BinAt(p)'
    BY <1>7 DEF TearEntry
  <2> QED BY <2>1, <2>2
<1> QED BY <1>1, <1>2, <1>3, <1>4, <1>5, <1>6, <1>7 DEF TrashStep

(* The steps of a purge keep BinInv.                                       *)
LEMMA PurgeBin ==
  ASSUME ReleaseSucceeds, RenamesAreClean, Consistent, FromInv, BinInv, NEW p \in Procs,
         PurgeStep(p)
  PROVE  HoldsAgain(p) /\ BinAt(p)'
<1>a. /\ Working(p) /\ job[p].op \in OpIds /\ Fits(p) /\ BinAt(p)
      /\ GoesOn(p) \/ (pc'[p] = "idle" /\ job'[p] = NoJob)
      /\ HoldsBin(job[p].op) /\ FromFits(p)
  BY PurgeStays, PurgeFits, WorkerFits, WorkerBin
     DEF Stays, Holding, Working, BinInv, Consistent, FromInv
<1>b. /\ UNCHANGED bin => (AllClean <=> AllClean')
      /\ journal[job[p].op].stage \notin Final /\ job[p].kind # "trash" =>
           entry[job[p].op].state = "absent" /\ ~tmp[job[p].op]
  BY <1>a, NothingMoved DEF bin, AllClean, Clean
<1>c. QuietBin(p) => HoldsAgain(p)
  BY <1>a, QuietHolds
<1>d. job[p].from \in OpIds \/ pc[p] \notin PurgingAt \/ job[p].kind # "purge"
  BY <1>a, BoundsAssumption DEF FromFits, Consistent, Typed, CountTyped, OpIds, PurgingAt
<1> HIDE DEF AllClean
<1> USE <1>a, <1>b, JobFunction
    DEF Consistent, Typed, GoesOn, Working, disk, Goto, ReleaseAs, Stop, PurgeFails, Refuse,
        WriteJournal, BinAt, Unsettled, Fits, KindFits, StageFits, PayloadFits,
        Final, LockingAt, ClosingAt, DeleteAt, CommitAt, CleanupAt, MoveAt, EntryMadeAt, TrashAt,
        RestoreBeginsAt, RestoringAt, PurgingAt, ReconcileAt, WithPayload
<1>1. CASE WritePurgePayload(p)
  <2> DEFINE v == [kind |-> job[p].kind, covers |-> job[p].todo, before |-> Blank,
                   moves |-> job[p].bundle, from |-> job[p].from, sealed |-> TRUE]
  <2>1. v.kind = job[p].kind
    OBVIOUS
  <2>2. \E o \in Outcome("payload") :
          /\ payload' = IF Effect(o) THEN [payload EXCEPT ![job[p].op] = v] ELSE payload
          /\ IF Throws(o) THEN Refuse(p) ELSE Goto(p, "purge-recheck") /\ job' = job
    BY <1>1 DEF WritePurgePayload
  <2> HIDE DEF v
  <2>3. QuietBin(p)
    BY <1>1, <2>1, <2>2 DEF WritePurgePayload, QuietBin, bin
  <2>4. BinAt(p)'
    BY <1>1, <2>2 DEF WritePurgePayload, bin, Jobs
  <2> QED BY <1>c, <2>3, <2>4
<1>2. CASE RecheckPurge(p)
  <2>1. QuietBin(p)
    BY <1>2 DEF RecheckPurge, QuietBin, bin
  <2>2. BinAt(p)'
    BY <1>2 DEF RecheckPurge, bin, Jobs
  <2> QED BY <1>c, <2>1, <2>2
<1>3. CASE CheckpointPurge(p)
  <2>1. QuietBin(p)
    BY <1>3 DEF CheckpointPurge, QuietBin, bin
  <2>2. /\ UNCHANGED bin
        /\ \/ ReleaseMarked(p, PurgeMarks(p), "recovery_required", "ignore")
           \/ /\ pc'[p] = (CASE pc[p] = "purge-start"       -> "purge-logs"
                             [] pc[p] = "purge-logged"      -> "purge-quarantine"
                             [] pc[p] = "purge-quarantined" -> "purge-remove"
                             [] OTHER                       -> "purge-verify")
              /\ job'[p].kind = job[p].kind /\ job'[p].op = job[p].op
    BY <1>3 DEF CheckpointPurge, Jobs
  <2>3. BinAt(p)'
    <3>1. CASE ReleaseMarked(p, PurgeMarks(p), "recovery_required", "ignore")
      BY <1>3, <2>2, <3>1, MarkedLeaves DEF CheckpointPurge, bin
    <3>2. CASE ~ReleaseMarked(p, PurgeMarks(p), "recovery_required", "ignore")
      BY <1>3, <2>2, <3>2 DEF CheckpointPurge, bin
    <3> QED BY <3>1, <3>2
  <2> QED BY <1>c, <2>1, <2>3
<1>4. CASE PurgeLogs(p)
  <2>1. QuietBin(p)
    BY <1>4 DEF PurgeLogs, QuietBin, bin
  <2>2. BinAt(p)'
    BY <1>4 DEF PurgeLogs, bin, Jobs
  <2> QED BY <1>c, <2>1, <2>2
<1>5. CASE QuarantineEntry(p)
  <2>1. /\ job[p].from \in OpIds /\ job[p].from # job[p].op /\ tmp' = tmp
        /\ payload[job[p].op].from = job[p].from /\ payload[job[p].op].kind = "purge"
        /\ UNCHANGED <<journal, payload>> /\ journal[job[p].op].stage \notin Final
        /\ entry' \in {entry, [entry EXCEPT ![job[p].from].state = "quarantined"]}
        /\ \/ ReleaseAs(p, "recovery_required", "ignore")
           \/ Goto(p, "purge-quarantined") /\ job' = job
    BY <1>5, <1>d DEF QuarantineEntry, FromFits, BinTyped, Entries
  <2>2. HoldsAgain(p)
    BY <2>1 DEF HoldsAgain, HoldsBin, Clean, BinTyped
  <2>3. BinAt(p)'
    BY <1>5, <2>1 DEF QuarantineEntry, Jobs
  <2> QED BY <2>2, <2>3
<1>6. CASE RemoveQuarantine(p)
  <2>1. /\ job[p].from \in OpIds /\ job[p].from # job[p].op /\ tmp' = tmp
        /\ payload[job[p].op].from = job[p].from /\ payload[job[p].op].kind = "purge"
        /\ UNCHANGED <<journal, payload>> /\ journal[job[p].op].stage \notin Final
        /\ \/ ReleaseAs(p, "recovery_required", "ignore") /\ entry' = entry
           \/ Goto(p, "purge-removed") /\ job' = job
              /\ entry' = [entry EXCEPT ![job[p].from] = NoEntry]
    BY <1>6, <1>d DEF RemoveQuarantine, FromFits, Effect, Throws
  <2>2. HoldsAgain(p)
    BY <2>1 DEF HoldsAgain, HoldsBin, Clean, BinTyped, NoEntry
  <2>3. BinAt(p)'
    <3>1. CASE entry' = [entry EXCEPT ![job[p].from] = NoEntry]
      <4>1. AllClean'
        BY <2>1, <3>1 DEF HoldsBin, AllClean, Clean, BinTyped, NoEntry
      <4> QED BY <1>6, <2>1, <4>1 DEF RemoveQuarantine, Jobs
    <3>2. CASE ReleaseAs(p, "recovery_required", "ignore")
      BY <1>6, <2>1, <3>2 DEF RemoveQuarantine, Jobs
    <3> QED BY <2>1, <3>1, <3>2
  <2> QED BY <2>2, <2>3
<1>7. CASE VerifyPurge(p)
  <2>1. QuietBin(p)
    BY <1>7 DEF VerifyPurge, QuietBin, bin
  <2>2. BinAt(p)'
    BY <1>7 DEF VerifyPurge, bin, Jobs
  <2> QED BY <1>c, <2>1, <2>2
<1> QED BY <1>1, <1>2, <1>3, <1>4, <1>5, <1>6, <1>7 DEF PurgeStep

(* The steps of a recovery keep BinInv.                                    *)
LEMMA RecoveryBin ==
  ASSUME ReleaseSucceeds, Consistent, FromInv, BinInv, NEW p \in Procs,
         RecoveryStep(p), ~BeginRecovery(p), ~FinalizeUnlock(p)
  PROVE  HoldsAgain(p) /\ BinAt(p)'
<1>a. /\ Working(p) /\ job[p].op \in OpIds /\ Fits(p) /\ BinAt(p)
      /\ GoesOn(p) \/ (pc'[p] = "idle" /\ job'[p] = NoJob)
      /\ HoldsBin(job[p].op) /\ FromFits(p)
  BY RecoveryStays, RecoveryFits, WorkerFits, WorkerBin
     DEF Stays, Holding, Working, BinInv, Consistent, FromInv
<1>b. UNCHANGED bin => (AllClean <=> AllClean')
  BY DEF bin, AllClean, Clean
<1>c. QuietBin(p) => HoldsAgain(p)
  BY <1>a, QuietHolds
<1>d. job[p].from \in OpIds \/ pc[p] \notin ReconcileAt \/ job[p].kind # "purge"
  BY <1>a, BoundsAssumption DEF FromFits, Consistent, Typed, CountTyped, OpIds, ReconcileAt
<1>e. /\ journal[job[p].op].stage \in Final => AllClean
      /\ job[p].kind \notin {"trash", "purge"} =>
           /\ AllClean
           /\ journal[job[p].op].stage \notin Final =>
                entry[job[p].op].state = "absent" /\ ~tmp[job[p].op]
  BY <1>a DEF HoldsBin, AllClean, Fits, PayloadFits, Final
<1> HIDE DEF AllClean
<1> USE <1>a, <1>b, JobFunction
    DEF Consistent, Typed, GoesOn, Working, disk, Goto, ReleaseAs, Stop,
        WriteJournal, BinAt, Unsettled, Fits, KindFits, StageFits, PayloadFits,
        Final, LockingAt, ClosingAt, DeleteAt, CommitAt, CleanupAt, MoveAt, EntryMadeAt, TrashAt,
        RestoreBeginsAt, RestoringAt, PurgingAt, ReconcileAt, WithPayload
<1>1. CASE RecoverSurface(p)
  <2>1. QuietBin(p)
    BY <1>1 DEF RecoverSurface, QuietBin, bin
  <2>2. BinAt(p)'
    BY <1>1 DEF RecoverSurface, bin, Jobs
  <2> QED BY <1>c, <2>1, <2>2
<1>2. CASE SurfacesRecovered(p)
  <2>1. QuietBin(p)
    BY <1>2 DEF SurfacesRecovered, QuietBin, bin
  <2>2. BinAt(p)'
    BY <1>2, <1>e DEF SurfacesRecovered, ReconcilesTrash, bin
  <2> QED BY <1>c, <2>1, <2>2
<1>3. CASE RecoverQuarantine(p)
  <2>1. /\ job[p].from \in OpIds /\ job[p].from # job[p].op /\ tmp' = tmp
        /\ payload[job[p].op].from = job[p].from /\ payload[job[p].op].kind = "purge"
        /\ UNCHANGED <<journal, payload>> /\ journal[job[p].op].stage \notin Final
        /\ entry' \in {entry, [entry EXCEPT ![job[p].from].state = "quarantined"]}
    BY <1>3, <1>d DEF RecoverQuarantine, FromFits, BinTyped, Entries
  <2>2. HoldsAgain(p)
    BY <2>1 DEF HoldsAgain, HoldsBin, Clean, BinTyped
  <2>3. BinAt(p)'
    BY <1>3 DEF RecoverQuarantine
  <2> QED BY <2>2, <2>3
<1>4. CASE RecoverTrash(p)
  <2>1. /\ pc[p] \in {"rec-trash", "rec-rmdir"} /\ UNCHANGED <<journal, payload>>
        /\ payload[job[p].op].kind = job[p].kind /\ job[p].kind \in {"trash", "purge"}
        /\ journal[job[p].op].stage \notin Final
        /\ job[p].kind = "purge" => /\ job[p].from \in OpIds /\ job[p].from # job[p].op
                                    /\ payload[job[p].op].from = job[p].from
        /\ \/ Stop(p) /\ UNCHANGED bin
           \/ /\ Goto(p, "fin-stage") /\ job' = job
              /\ entry' = [entry EXCEPT ![EntryOf(p)] = NoEntry]
              /\ tmp' = [tmp EXCEPT ![job[p].op] = FALSE]
    BY <1>4, <1>d DEF RecoverTrash, FromFits, Effect, Throws, bin
  <2>2. CASE Stop(p) /\ UNCHANGED bin
    <3>1. QuietBin(p)
      BY <2>1, <2>2 DEF QuietBin
    <3> QED BY <1>c, <2>2, <3>1
  <2>3. CASE /\ Goto(p, "fin-stage") /\ job' = job
             /\ entry' = [entry EXCEPT ![EntryOf(p)] = NoEntry]
             /\ tmp' = [tmp EXCEPT ![job[p].op] = FALSE]
    <3>1. AllClean'
      BY <2>1, <2>3 DEF HoldsBin, AllClean, Clean, BinTyped, NoEntry, EntryOf
    <3>2. ~tmp'[job[p].op] /\ entry'[job[p].op].state = "absent"
      BY <2>1, <2>3 DEF HoldsBin, BinTyped, NoEntry, EntryOf
    <3>3. HoldsAgain(p)
      BY <2>1, <3>1, <3>2 DEF HoldsAgain, HoldsBin, AllClean
    <3>4. BinAt(p)'
      BY <2>1, <2>3, <3>1, <3>2
    <3> QED BY <3>3, <3>4
  <2> QED BY <2>1, <2>2, <2>3
<1>5. CASE RefuseTrash(p)
  <2>1. QuietBin(p)
    BY <1>5 DEF RefuseTrash, QuietBin, bin
  <2>2. BinAt(p)'
    BY <1>5 DEF RefuseTrash, bin, Jobs
  <2> QED BY <1>c, <2>1, <2>2
<1>6. CASE FinalizeStage(p)
  <2>1. /\ pc[p] = "fin-stage" /\ UNCHANGED <<payload, bin>>
        /\ \/ journal' = journal /\ Stop(p)
           \/ /\ \E m : journal' = [journal EXCEPT ![job[p].op] =
                                      [stage |-> job[p].rel.stage, marks |-> m]]
              /\ Stop(p) \/ (Goto(p, "fin-payload") /\ job' = job)
    BY <1>6 DEF FinalizeStage, Effect, Throws
  <2>2. BinAt(p)'
    BY <2>1
  <2>3. CASE journal' = journal
    BY <2>1, <2>3 DEF HoldsAgain, HoldsBin, Clean, bin
  <2>4. CASE \E m : journal' = [journal EXCEPT ![job[p].op] =
                                      [stage |-> job[p].rel.stage, marks |-> m]]
    <3>1. journal'[job[p].op].stage = job[p].rel.stage /\ job[p].rel.stage \in Final
      BY <2>1, <2>4
    <3>2. journal[job[p].op].stage \in Final => journal'[job[p].op].stage = journal[job[p].op].stage
      BY <2>1, <3>1
    <3>3. AllClean
      BY <2>1
    <3>4. HoldsAgain(p)
      BY <2>1, <3>1, <3>2, <3>3 DEF HoldsAgain, HoldsBin, Clean, AllClean, bin
    <3> QED BY <2>2, <3>4
  <2> QED BY <2>1, <2>2, <2>3, <2>4
<1>7. CASE FinalizePayload(p)
  <2>1. /\ pc[p] = "fin-payload" /\ UNCHANGED <<journal, bin>>
        /\ Stop(p) \/ (Goto(p, "fin-unlock") /\ job' = job)
    BY <1>7 DEF FinalizePayload
  <2>2. HoldsAgain(p)
    BY <2>1 DEF HoldsAgain, HoldsBin, Clean, bin
  <2>3. BinAt(p)'
    BY <2>1
  <2> QED BY <2>2, <2>3
<1> QED BY <1>1, <1>2, <1>3, <1>4, <1>5, <1>6, <1>7 DEF RecoveryStep

(* A step that changes neither the trash nor what the journal says of its  *)
(* end.                                                                    *)
LEMMA SameBin ==
  ASSUME BinInv, NEW p \in Procs, OthersStay(p), UNCHANGED <<lock, payload, bin>>,
         \A o \in OpIds : \/ journal'[o].stage = journal[o].stage
                          \/ {journal[o].stage, journal'[o].stage} \cap Final = {},
         \A q \in Procs \ {p} : ~Working(q), BinAt(p)'
  PROVE  BinInv'
<1>1. ASSUME NEW q \in Procs PROVE BinAt(q)'
  BY DEF OthersStay, BinAt, Working
<1>2. \A o \in OpIds : Pending(o)' <=> Pending(o)
  BY DEF Pending
<1>3. \A o \in OpIds : journal[o].stage = "committed" => journal'[o].stage = "committed"
  BY DEF Final
<1>4. ASSUME NEW o \in OpIds PROVE BinFits(o)'
  BY <1>2, <1>3 DEF BinInv, BinFits, MovesTo, PurgesFrom, Clean, bin
<1> QED BY <1>1, <1>4 DEF BinInv

(* A process that stops leaves the trash to the journal.                   *)
LEMMA StopBin ==
  ASSUME Typed, BinInv, NEW p \in Procs, Stop(p), UNCHANGED <<journal, payload, bin>>,
         \/ lock'.op = lock.op
         \/ Working(p) /\ lock.op = job[p].op /\ journal[lock.op].stage \in Final
  PROVE  BinInv'
<1>1. ASSUME NEW q \in Procs PROVE BinAt(q)'
  <2>1. CASE q = p
    BY <2>1, StopLeaves DEF BinAt, Working
  <2>2. CASE q # p
    BY <2>2, StopLeaves DEF BinInv, BinAt, Unsettled, AllClean, Clean, Working, OthersStay, bin
  <2> QED BY <2>1, <2>2
<1>2. ASSUME NEW o \in OpIds PROVE BinFits(o)'
  BY DEF BinInv, BinFits, MovesTo, PurgesFrom, Pending, Clean, bin
<1> QED BY <1>1, <1>2 DEF BinInv

(* Scanning and taking the lock keeps BinInv.                              *)
LEMMA AcquireBin ==
  ASSUME ReleaseSucceeds, Consistent, BinInv, NEW p \in Procs, AcquireStep(p)
  PROVE  BinInv'
<1> USE JobFunction DEF Consistent
<1>1. ASSUME UNCHANGED <<disk, bin>>, OthersStay(p), pc'[p] \in {"idle", "scanned"}
      PROVE BinInv'
  <2>1. ASSUME NEW q \in Procs PROVE BinAt(q)'
    BY <1>1 DEF BinInv, OthersStay, BinAt, Unsettled, AllClean, Clean, Working, disk, bin
  <2>2. ASSUME NEW o \in OpIds PROVE BinFits(o)'
    BY <1>1 DEF BinInv, BinFits, MovesTo, PurgesFrom, Pending, Clean, disk, bin
  <2> QED BY <2>1, <2>2 DEF BinInv
<1>2. ASSUME NEW kind \in Kinds, ScanRoot(p, kind) PROVE BinInv'
  BY <1>1, <1>2 DEF ScanRoot, Goto, OthersStay
<1>3. CASE CreateLock(p)
  <2>1. /\ ops + 1 \in OpIds /\ ops \in Nat /\ lock.op = 0 /\ pc'[p] = "lock-created"
        /\ job'[p].op = ops + 1 /\ OthersStay(p) /\ UNCHANGED <<journal, payload, bin>>
    BY <1>3, BoundsAssumption
       DEF CreateLock, LockFree, Goto, OthersStay, Typed, CountTyped, Jobs, OpIds
  <2>2. \A q \in Procs : ~Working(q)
    BY <2>1 DEF ReleaseSucceeds, Ownership, OwnOperation, ReleasersOwn
  <2>3. ASSUME NEW o \in OpIds
        PROVE  /\ ~tmp[o] /\ Clean(o)
               /\ entry[o].state # "absent" => journal[o].stage = "committed"
    <3>1. \A x \in OpIds : ~Pending(x)
      BY <2>1 DEF Pending, OpIds
    <3> QED BY <3>1 DEF BinInv, BinFits, MovesTo, PurgesFrom
  <2>4. ASSUME NEW o \in OpIds PROVE BinFits(o)'
    BY <2>1, <2>3 DEF BinFits, Clean, bin
  <2>5. entry[ops + 1].state = "absent"
    BY <2>1 DEF JournalInv, FileFits
  <2>6. ASSUME NEW q \in Procs PROVE BinAt(q)'
    <3>1. CASE q = p
      BY <2>1, <2>3, <2>5, <3>1
         DEF BinAt, Unsettled, AllClean, Clean, Working, bin, LockingAt, MoveAt, EntryMadeAt,
             DeleteAt, CommitAt, ReconcileAt
    <3>2. CASE q # p
      BY <2>1, <2>2, <3>2 DEF BinAt, OthersStay, Working
    <3> QED BY <3>1, <3>2
  <2> QED BY <2>4, <2>6 DEF BinInv
<1>4. CASE LockIsTaken(p)
  BY <1>4, StopBin DEF LockIsTaken, disk
<1>5. CASE WriteLock(p)
  <2>1. lock'.op = lock.op /\ UNCHANGED <<journal, payload, bin>> /\ pc[p] = "lock-created"
    BY <1>5 DEF WriteLock, LockTyped
  <2>2. CASE Stop(p)
    BY <2>1, <2>2, StopBin
  <2>3. CASE Goto(p, "lock-written") /\ job' = job
    <3>1. ASSUME NEW q \in Procs PROVE BinAt(q)'
      BY <2>1, <2>3
         DEF BinInv, BinAt, Unsettled, AllClean, Clean, Working, Goto, bin, LockingAt, MoveAt,
             EntryMadeAt, DeleteAt, CommitAt, ReconcileAt
    <3>2. ASSUME NEW o \in OpIds PROVE BinFits(o)'
      BY <2>1 DEF BinInv, BinFits, MovesTo, PurgesFrom, Pending, Clean, bin
    <3> QED BY <3>1, <3>2 DEF BinInv
  <2> QED BY <1>5, <2>2, <2>3 DEF WriteLock
<1>6. CASE CreateJournal(p)
  <2>1. /\ pc[p] = "lock-written" /\ UNCHANGED <<lock, payload, bin>> /\ OthersStay(p) /\ Working(p)
        /\ \/ journal' = journal
           \/ journal' = [journal EXCEPT ![job[p].op] = [stage |-> "prepared", marks |-> {}]]
        /\ \/ pc'[p] = "idle"
           \/ pc'[p] = "acquired" /\ job'[p] = job[p]
    BY <1>6 DEF CreateJournal, WriteJournal, Stop, Goto, OthersStay, Working
  <2>2. /\ Fits(p) /\ BinAt(p) /\ \A q \in Procs \ {p} : ~Working(q)
    BY <2>1, WorkerFits, WorkerBin, OneWorker
  <2>3. \A o \in OpIds : \/ journal'[o].stage = journal[o].stage
                         \/ {journal[o].stage, journal'[o].stage} \cap Final = {}
    BY <2>1, <2>2 DEF Fits, StageFits, LockingAt, Final, Typed
  <2>4. BinAt(p)'
    BY <2>1, <2>2
       DEF BinAt, Unsettled, AllClean, Clean, Working, bin, LockingAt, MoveAt, EntryMadeAt,
           DeleteAt, CommitAt, ReconcileAt
  <2> QED BY <2>1, <2>2, <2>3, <2>4, SameBin
<1> QED BY <1>2, <1>3, <1>4, <1>5, <1>6 DEF AcquireStep

(* An outcome is written only when the trash shows it.                     *)
LEMMA ReleaseBin ==
  ASSUME ReleaseSucceeds, Consistent, FromInv, BinInv, NEW p \in Procs, ReleaseStep(p)
  PROVE  BinInv'
<1> USE JobFunction, ReleaseIsQuiet DEF Consistent
<1>0. /\ Working(p) /\ pc[p] # "lock-created"
      /\ pc[p] \in {"rel-stage", "rel-check", "rel-payload", "rel-unlock"}
  BY DEF ReleaseStep, ReleaseStage, ReleaseCheck, ReleasePayload, ReleaseUnlock, Working
<1>1. /\ job[p].op \in OpIds /\ OwnsLockFile(p) /\ Fits(p) /\ BinAt(p) /\ HoldsBin(job[p].op)
      /\ lock.op = job[p].op /\ \A q \in Procs \ {p} : ~Working(q)
  BY <1>0, WorkerFits, OneWorker, WorkerBin DEF OwnsLockFile
<1>2. CASE ReleaseStage(p)
  <2>1. /\ pc[p] = "rel-stage" /\ UNCHANGED <<lock, payload, bin>>
        /\ journal' = [journal EXCEPT ![job[p].op] =
                         [stage |-> job[p].rel.stage, marks |-> job[p].marks]]
        /\ IF job[p].rel.stage = "recovery_required" THEN Stop(p)
                                                     ELSE Goto(p, "rel-check") /\ job' = job
    BY <1>2 DEF ReleaseStage, WriteJournal, Effect, Throws
  <2>2. /\ journal'[job[p].op].stage = job[p].rel.stage /\ OwnFiles(p) /\ OthersStay(p)
        /\ job[p].rel.stage \in Final \cup {"recovery_required"}
        /\ journal[job[p].op].stage \notin Final
    BY <1>0, <1>1, <2>1
       DEF Typed, OwnFiles, OthersStay, Stop, Goto, bin, Fits, StageFits, LockingAt, ClosingAt
  <2>3. HoldsAgain(p)
    <3>1. CASE job[p].rel.stage = "recovery_required"
      BY <1>1, <2>1, <2>2, <3>1 DEF HoldsAgain, HoldsBin, Clean, Final, bin
    <3>2. CASE job[p].rel.stage \in Final
      <4>1. AllClean
        BY <1>0, <1>1, <2>1, <3>2 DEF BinAt, Unsettled, ReconcileAt, Final
      <4>2. ~tmp[job[p].op]
        <5>1. CASE job[p].kind = "trash"
          BY <1>0, <1>1, <2>1, <3>2, <5>1 DEF BinAt, Final
        <5>2. CASE job[p].kind # "trash"
          BY <1>0, <2>2, <5>2, NothingMoved
        <5> QED BY <5>1, <5>2
      <4>3. job[p].rel.stage = "committed" \/ entry[job[p].op].state = "absent"
        BY <1>0, <1>1, <2>1, <3>2 DEF BinAt, Final
      <4> QED BY <1>1, <2>1, <2>2, <4>1, <4>2, <4>3 DEF HoldsAgain, HoldsBin, AllClean, Clean, bin
    <3> QED BY <2>2, <3>1, <3>2
  <2>4. BinAt(p)'
    BY <1>0, <1>1, <2>1
       DEF Stop, Goto, BinAt, Unsettled, AllClean, Clean, Working, bin, LockingAt, MoveAt,
           EntryMadeAt, DeleteAt, CommitAt, ReconcileAt, Final
  <2> QED BY <1>0, <2>1, <2>2, <2>3, <2>4, StepBin
<1>3. CASE ReleaseCheck(p) \/ ReleasePayload(p)
  <2>1. /\ pc[p] \in {"rel-check", "rel-payload"} /\ UNCHANGED <<lock, journal, bin>> /\ job' = job
        /\ Goto(p, "rel-payload") \/ Goto(p, "rel-unlock")
        /\ OthersStay(p) /\ OwnFiles(p)
    BY <1>1, <1>3
       DEF ReleaseCheck, ReleasePayload, Throws, Goto, OthersStay, OwnFiles, disk, bin, Typed
  <2>2. journal[job[p].op].stage \in Final
    BY <1>0, <1>1, <2>1 DEF Fits, StageFits, ClosingAt
  <2>3. HoldsAgain(p)
    BY <1>1, <2>1, <2>2 DEF HoldsAgain, HoldsBin, Clean, bin
  <2>4. BinAt(p)'
    BY <1>0, <1>1, <2>1
       DEF Goto, BinAt, Unsettled, AllClean, Clean, Working, bin, LockingAt, MoveAt,
           EntryMadeAt, DeleteAt, CommitAt, ReconcileAt, Final
  <2> QED BY <1>0, <2>1, <2>3, <2>4, StepBin
<1>4. CASE ReleaseUnlock(p)
  <2>1. journal[job[p].op].stage \in Final
    BY <1>0, <1>1, <1>4 DEF ReleaseUnlock, Fits, StageFits, ClosingAt
  <2> QED BY <1>0, <1>1, <1>4, <2>1, StopBin DEF ReleaseUnlock, Throws
<1> QED BY <1>2, <1>3, <1>4 DEF ReleaseStep

(* A recovery finds the trash as the journal has it.                       *)
LEMMA BeginBin ==
  ASSUME ReleaseSucceeds, SupervisedRecovery, Consistent, BinInv, NEW p \in Procs, BeginRecovery(p)
  PROVE  BinInv'
<1> USE DEF Consistent
<1> PICK o \in OpIds : o = lock.op
  BY DEF BeginRecovery, Readable, Typed, LockTyped, OpIds
<1>1. /\ pc[p] = "idle" /\ UNCHANGED <<disk, bin>>
      /\ \A q \in Procs : Active(q) => job[q].op # o
  BY DEF BeginRecovery, Unattended
<1>2. \A q \in Procs : ~Working(q)
  BY <1>1, OneWorker DEF Active, Working
<1>3. /\ OthersStay(p) /\ job'[p].op = o /\ job'[p].rel.stage = EndStage(o)
      /\ pc'[p] = IF ~IsFinal(o) /\ ~Untouched(o) THEN "rec" ELSE "fin-stage"
  BY JobFunction DEF BeginRecovery, Goto, OthersStay, NoJob
<1>4. IsFinal(o) \/ Untouched(o) =>
        AllClean /\ (journal[o].stage \notin Final => entry[o].state = "absent" /\ ~tmp[o])
  BY DEF IsFinal, Untouched, BinInv, BinFits, MovesTo, PurgesFrom, Pending, AllClean, Final
<1>5. BinAt(p)'
  BY <1>1, <1>3, <1>4
     DEF BinAt, Unsettled, AllClean, Clean, Working, disk, bin, LockingAt, MoveAt, EntryMadeAt,
         DeleteAt, CommitAt, ReconcileAt
<1> QED BY <1>1, <1>2, <1>3, <1>5, SameBin DEF disk

(* A read of the trash before the lock is taken.                           *)
LEMMA ReadBin ==
  ASSUME Typed, BinInv, NEW p \in Procs,
         CheckIndexes(p) \/ ReadForRestore(p) \/ ReadForPurge(p) \/ EntryNotFound(p)
  PROVE  BinInv'
<1>1. UNCHANGED <<disk, bin>> /\ OthersStay(p) /\ pc'[p] \in {"idle", "checked"}
  BY JobFunction
     DEF CheckIndexes, ReadForRestore, ReadForPurge, EntryNotFound, Stop, Goto, OthersStay
<1>2. ASSUME NEW q \in Procs PROVE BinAt(q)'
  BY <1>1 DEF BinInv, OthersStay, BinAt, Unsettled, AllClean, Clean, Working, disk, bin
<1>3. ASSUME NEW o \in OpIds PROVE BinFits(o)'
  BY <1>1 DEF BinInv, BinFits, MovesTo, PurgesFrom, Pending, Clean, disk, bin
<1> QED BY <1>2, <1>3 DEF BinInv

(* The initial states satisfy BinInv.                                      *)
LEMMA BinBegins == Init => BinInv
<1> SUFFICES ASSUME Init PROVE BinInv
  OBVIOUS
<1> PICK k \in 0 .. InitialEntries : InitFrom(k)
  BY DEF Init
<1>1. ASSUME NEW p \in Procs PROVE BinAt(p)
  BY DEF Init, BinAt, Working
<1>2. ASSUME NEW o \in OpIds PROVE BinFits(o)
  BY DEF Init, InitFrom, BinFits, Clean, NoEntry
<1> QED BY <1>1, <1>2 DEF BinInv

(* Every step keeps BinInv.                                                *)
LEMMA NextBin ==
  ASSUME ReleaseSucceeds, SupervisedRecovery, RenamesAreClean
  PROVE  Consistent /\ FromInv /\ BinInv /\ [Next]_vars => BinInv'
<1> SUFFICES ASSUME Consistent, FromInv, BinInv, [Next]_vars PROVE BinInv'
  OBVIOUS
<1> USE DEF Consistent
<1>1. ASSUME NEW p \in Procs, OperationStep(p) PROVE BinInv'
  <2>1. CASE AcquireStep(p)
    BY <2>1, AcquireBin
  <2>2. CASE ReleaseStep(p)
    BY <2>2, ReleaseBin
  <2>3. CASE BeginRecovery(p)
    BY <2>3, BeginBin
  <2>4. CASE FinalizeUnlock(p)
    <3>1. Working(p) /\ pc[p] = "fin-unlock"
      BY <2>4 DEF FinalizeUnlock, Working
    <3>2. lock.op = job[p].op /\ journal[job[p].op].stage \in Final
      BY <3>1, WorkerFits DEF Fits, StageFits, ClosingAt
    <3> QED BY <2>4, <3>1, <3>2, StopBin DEF FinalizeUnlock
  <2>5. CASE CheckIndexes(p) \/ ReadForRestore(p) \/ ReadForPurge(p) \/ EntryNotFound(p)
    BY <2>5, ReadBin
  <2>6. CASE DeleteStep(p) \/ UndoStep(p) \/ RestoreStep(p)
    <3>1. Stays(p) /\ Holding(p) /\ OwnFiles(p)
      BY <2>6, DeleteStays, UndoStays, RestoreStays, DeleteFits, UndoFits, RestoreFits
    <3>2. QuietBin(p) /\ BinAt(p)'
      BY <2>6, DeleteBin, UndoBin, RestoreBin
    <3> QED BY <3>1, <3>2, QuietHolds, StepBin DEF Stays, Holding, Working
  <2>7. CASE TrashStep(p) \/ PurgeStep(p)
    <3>1. Stays(p) /\ Holding(p) /\ OwnFiles(p)
      BY <2>7, TrashStays, PurgeStays, TrashFits, PurgeFits
    <3> QED BY <2>7, <3>1, TrashBin, PurgeBin, StepBin DEF Stays, Holding, Working
  <2>8. CASE CleanupStep(p) /\ ~CheckIndexes(p)
    BY <2>8, CleanupStays, CleanupFits, CleanupBin, QuietHolds, StepBin DEF Stays, Holding, Working
  <2>9. CASE EntryStep(p) /\ ~(ReadForRestore(p) \/ ReadForPurge(p) \/ EntryNotFound(p))
    BY <2>9, EntryStays, EntryFits, EntryBin, QuietHolds, StepBin DEF Stays, Holding, Working
  <2>10. CASE RecoveryStep(p) /\ ~BeginRecovery(p) /\ ~FinalizeUnlock(p)
    BY <2>10, RecoveryStays, RecoveryFits, RecoveryBin, StepBin DEF Stays, Holding, Working
  <2> QED BY <1>1, <2>1, <2>2, <2>3, <2>4, <2>5, <2>6, <2>7, <2>8, <2>9, <2>10 DEF OperationStep
<1>2. ASSUME NEW p \in Procs, Crash(p) PROVE BinInv'
  BY <1>2, StopBin DEF Crash, disk
<1>3. CASE CodexStep \/ UNCHANGED vars
  <2>1. UNCHANGED <<disk, bin, pc, job>>
    BY <1>3 DEF CodexStep, CodexAdds, CodexChangesOthers, vars, disk, bin
  <2> QED BY <2>1
          DEF BinInv, BinFits, BinAt, Unsettled, MovesTo, PurgesFrom, Pending, AllClean, Clean,
              Working, disk, bin
<1> QED BY <1>1, <1>2, <1>3 DEF Next

(* With nothing pending the trash holds whole entries of committed moves   *)
(* and nothing else (moveSessionsToTrash, purgeTrashEntry,                 *)
(* reconcileRecoveryTrash): no temporary directory stays behind, no        *)
(* quarantined or half removed entry, and no entry of a move that was      *)
(* rolled back.                                                            *)
THEOREM TrashShowsTheJournal ==
  ASSUME ReleaseSucceeds, SupervisedRecovery, RenamesAreClean
  PROVE  Spec => []TrashMatchesJournal
<1>1. Init => Consistent /\ FromInv /\ BinInv
  BY ConsistentAlways, FromBegins, BinBegins
<1>2. Consistent /\ FromInv /\ BinInv /\ [Next]_vars => (Consistent /\ FromInv /\ BinInv)'
  BY ConsistentAlways, NextFrom, NextBin
<1>3. BinInv => TrashMatchesJournal
  BY DEF BinInv, BinFits, MovesTo, PurgesFrom, Pending, Clean, TrashMatchesJournal, OpIds
<1> QED BY <1>1, <1>2, <1>3, PTL DEF Spec

-----------------------------------------------------------------------------
(* The logs a purge deletes.  Codex does not write the surfaces a scan     *)
(* looks at: nothing keeps it from doing so between the last scan of a     *)
(* purge and the delete.                                                   *)
QuietScan == ExternalSurfaces \cap (SessionFiles \cup Indexes \cup {"sqlite-state"}) = {}

(* A purge may only touch the logs, and once it has looked, nothing it     *)
(* could hurt appears until it has deleted them.                           *)
LogsFit(p) ==
  /\ job[p].kind = "purge" => job[p].todo \subseteq {"logs"}
  /\ pc[p] \in {"purge-commit", "purge-start", "purge-logs"} =>
       job[p].todo = {} \/ LogsArePurged(live, job[p].from)
  /\ pc[p] = "rec" /\ job[p].kind = "purge" =>
       job[p].bundle["logs"] = {} \/ LogsArePurged(live, job[p].from)
PayLogs(o) == payload[o].kind = "purge" => payload[o].covers \subseteq {"logs"}
LogsInv == (\A p \in Procs : LogsFit(p)) /\ (\A o \in OpIds : PayLogs(o))

(* The initial states satisfy LogsInv.                                     *)
LEMMA LogsBegin == Init => LogsInv
BY DEF Init, LogsInv, LogsFit, PayLogs, NoJob, NoPayload

(* The logs are none of the surfaces a scan looks at.                      *)
LEMMA LogsUnknown ==
  ASSUME live \in Images, live' \in Images, \A s \in Surfaces \ {"logs"} : live'[s].own = live[s].own
  PROVE  SessionKnown(live)' <=> SessionKnown(live)
<1>1. "logs" \notin SessionFiles \cup Indexes \cup {"sqlite-state"}
  BY FilesAssumption DEF Files, Databases, Indexes
<1>2. SessionFiles \cup Indexes \cup {"sqlite-state"} \subseteq Surfaces
  BY SurfacesNamed
<1> QED BY <1>1, <1>2 DEF SessionKnown

(* A step of a process that has no operation, or none of a purge.          *)
LEMMA QuietLogs ==
  ASSUME Typed, LogsInv, NEW p \in Procs, OthersStay(p), \A q \in Procs \ {p} : ~Working(q),
         LogsFit(p)', \A o \in OpIds : PayLogs(o)'
  PROVE  LogsInv'
<1>1. ASSUME NEW q \in Procs \ {p} PROVE LogsFit(q)'
  BY DEF LogsInv, LogsFit, OthersStay, Working
<1> QED BY <1>1 DEF LogsInv

(* The steps that have nothing to do with logs keep LogsInv.               *)
LEMMA OtherLogs ==
  ASSUME ReleaseSucceeds, Consistent, LogsInv, NEW p \in Procs, Working(p), job[p].kind # "purge",
         Stays(p), OwnFiles(p), KindFits(p)'
  PROVE  LogsInv'
<1>1. job[p].op \in OpIds /\ PayloadFits(p) /\ \A q \in Procs \ {p} : ~Working(q)
  BY WorkerFits, OneWorker DEF Consistent, Fits
<1>2. LogsFit(p)'
  BY DEF Stays, GoesOn, NoJob, LogsFit, KindFits, PurgingAt
<1>3. ASSUME NEW o \in OpIds PROVE PayLogs(o)'
  BY <1>1 DEF Stays, OwnFiles, PayloadFits, LogsInv, PayLogs
<1> QED BY <1>1, <1>2, <1>3, QuietLogs DEF Consistent, Stays

(* A process with a purge is at a place of a purge.                        *)
LEMMA PurgersPurge ==
  ASSUME Typed, NEW p \in Procs, KindFits(p), job[p].kind = "purge"
  PROVE  /\ ~(DeleteStep(p) \/ UndoStep(p) \/ CleanupStep(p) \/ RestoreStep(p))
         /\ TrashStep(p) => TearEntry(p) /\ pc[p] # "trash-drop-entry"
<1> USE DEF KindFits, DeleteAt, CommitAt, CleanupAt, TrashAt, MoveAt, EntryMadeAt, RestoreBeginsAt,
            RestoringAt
<1>1. ~DeleteStep(p)
  BY DEF DeleteStep, EnterPrepared, CheckSelection, Capture, WritePayload, Recheck,
         EnterCommitting, StartSurface, MarkSurface, EnterVerifying, RemoveFromIndex,
         RemoveFromGlobalState, UndoGlobalState, RemoveFile, RemoveRows, RemoveLogs, Deletes
<1>2. ~UndoStep(p)
  BY DEF UndoStep, UndoSurface, UndoEnds
<1>3. TrashStep(p) => TearEntry(p) /\ pc[p] # "trash-drop-entry"
  BY DEF TrashStep, WriteTrashPayload, MakeTmp, BuildBundle, CommitTrashEntry, MarkTrashEntry,
         DropTrash
<1>4. ~CleanupStep(p)
  BY DEF CleanupStep, CheckIndexes, WriteCleanupPayload, RecheckCleanup, CommitCleanup,
         StartIndex, VerifyCleanup, Cleans
<1>5. ~RestoreStep(p)
  BY DEF RestoreStep, CheckConflicts, CaptureRestore, WriteRestorePayload, StartRestore,
         RestoreText, RereadWritten, MarkRestored, RestoreRows, RemoveGoals, UndoRestore, UndoRestoreEnds,
         MarkRows, VerifyRestore
<1> QED BY <1>1, <1>2, <1>3, <1>4, <1>5

(* How a purge or the recovery of one moves: it keeps what it is about,    *)
(* changes no surface but the logs, and where LogsFit says more of its new *)
(* place than of the old one, it has just looked.                          *)
PurgeKept(p) ==
  /\ job'[p].kind = job[p].kind /\ job'[p].from = job[p].from
  /\ job'[p].bundle = job[p].bundle /\ job'[p].todo \subseteq job[p].todo
PurgerMoves(p) ==
  /\ (job'[p] = NoJob /\ pc'[p] = "idle") \/ PurgeKept(p)
  /\ \A s \in Surfaces \ {"logs"} : live'[s].own = live[s].own
  /\ pc'[p] \in {"purge-commit", "purge-start", "purge-logs", "rec"} =>
       /\ entry' = entry
       /\ \/ /\ pc[p] \in {"purge-commit", "purge-start"}
             /\ pc'[p] \in {"purge-start", "purge-logs"}
          \/ pc[p] = "rec" /\ pc'[p] = "rec"
          \/ pc'[p] = "purge-commit" /\ StillPurgeable(p)

(* The steps of the purge itself keep LogsInv.                             *)
LEMMA PurgerLogs ==
  ASSUME Typed, Typed', NEW p \in Procs, LogsFit(p), job[p].kind = "purge", PurgerMoves(p)
  PROVE  LogsFit(p)'
<1>1. live \in Images /\ live' \in Images /\ NoJob.kind = "none"
  BY DEF Typed, DataTyped, NoJob
<1>2. SessionKnown(live') <=> SessionKnown(live)
  BY <1>1, LogsUnknown DEF PurgerMoves
<1>3. ASSUME job'[p].kind = "purge", pc'[p] \in {"purge-commit", "purge-start", "purge-logs", "rec"},
             LogsArePurged(live, job[p].from)
      PROVE  LogsArePurged(live, job[p].from)'
  <2>1. entry' = entry /\ job'[p].from = job[p].from
    BY <1>1, <1>3 DEF PurgerMoves, PurgeKept
  <2> QED BY <1>2, <1>3, <2>1 DEF LogsArePurged, ValidEntries
<1>4. CASE job'[p] = NoJob /\ pc'[p] = "idle"
  BY <1>1, <1>4 DEF LogsFit
<1>5. CASE job'[p].kind = "purge"
  <2>1. PurgeKept(p)
    BY <1>1, <1>5 DEF PurgerMoves
  <2>2. job'[p].todo \subseteq {"logs"}
    BY <2>1 DEF PurgeKept, LogsFit
  <2>3. ASSUME pc'[p] \in {"purge-commit", "purge-start", "purge-logs"}
        PROVE  job'[p].todo = {} \/ LogsArePurged(live, job[p].from)'
    <3>1. job[p].todo = {} \/ LogsArePurged(live, job[p].from)
      BY <2>3 DEF LogsFit, PurgerMoves, StillPurgeable
    <3> QED BY <1>3, <1>5, <2>1, <2>3, <3>1 DEF PurgeKept
  <2>4. ASSUME pc'[p] = "rec"
        PROVE  job'[p].bundle["logs"] = {} \/ LogsArePurged(live, job[p].from)'
    <3>1. pc[p] = "rec"
      BY <2>4 DEF PurgerMoves
    <3>2. job[p].bundle["logs"] = {} \/ LogsArePurged(live, job[p].from)
      BY <3>1 DEF LogsFit
    <3> QED BY <1>3, <1>5, <2>1, <2>4, <3>2 DEF PurgeKept
  <2>5. job'[p].from = job[p].from
    BY <2>1 DEF PurgeKept
  <2> QED BY <2>2, <2>3, <2>4, <2>5 DEF LogsFit
<1> QED BY <1>4, <1>5 DEF PurgerMoves, PurgeKept

(* What the ways to go on keep of the job.                                 *)
LEMMA ReleaseKeeps ==
  ASSUME Typed, NEW p \in Procs, NEW stage, NEW next, ReleaseAs(p, stage, next)
  PROVE  pc'[p] = "rel-stage" /\ PurgeKept(p)
BY JobFunction DEF ReleaseAs, Goto, PurgeKept, Jobs

(* A move to the next location keeps what a purge knows.                   *)
LEMMA GotoKeeps ==
  ASSUME Typed, NEW p \in Procs, NEW l, Goto(p, l), job' = job
  PROVE  pc'[p] = l /\ PurgeKept(p)
BY JobFunction DEF Goto, PurgeKept

(* The steps of a purge or of its recovery under the lock.                 *)
LEMMA PurgeMoves ==
  ASSUME Consistent, NEW p \in Procs, LogsFit(p), job[p].kind = "purge",
         PurgeStep(p) \/ TearEntry(p) \/ PrepareEntry(p) \/ CheckEntry(p) \/ CommitEntry(p)
  PROVE  PurgerMoves(p)
<1> USE ReleaseKeeps, GotoKeeps DEF Consistent, PurgerMoves, Refuse, PurgeFails, bin, data
<1>1. CASE WritePurgePayload(p)
  BY <1>1 DEF WritePurgePayload
<1>2. CASE RecheckPurge(p)
  BY <1>2 DEF RecheckPurge
<1>3. CASE CheckpointPurge(p)
  <2> DEFINE m == PurgeMarks(p)
  <2>1. /\ live' = live /\ entry' = entry
        /\ \/ ReleaseMarked(p, m, "recovery_required", "ignore")
           \/ /\ \E l : /\ Goto(p, l) /\ (l = "purge-logs" => pc[p] = "purge-start")
                         /\ l \notin {"purge-commit", "purge-start", "rec"}
              /\ job' = [job EXCEPT ![p].marks = m]
    BY <1>3 DEF CheckpointPurge
  <2> HIDE DEF m
  <2>2. CASE ReleaseMarked(p, m, "recovery_required", "ignore")
    <3>1. PurgeKept(p) /\ pc'[p] = "rel-stage"
      BY <2>2, MarkedLeaves DEF PurgeKept
    <3> QED BY <2>1, <3>1
  <2>3. CASE /\ \E l : /\ Goto(p, l) /\ (l = "purge-logs" => pc[p] = "purge-start")
                         /\ l \notin {"purge-commit", "purge-start", "rec"}
             /\ job' = [job EXCEPT ![p].marks = m]
    <3>1. PurgeKept(p)
      BY <2>3, JobFunction DEF PurgeKept, Jobs
    <3> QED BY <2>1, <2>3, <3>1, JobFunction DEF Goto
  <2> QED BY <2>1, <2>2, <2>3
<1>4. CASE PurgeLogs(p)
  <2>1. \A s \in Surfaces \ {"logs"} : live'[s].own = live[s].own
    BY <1>4 DEF PurgeLogs, Typed, DataTyped, Images
  <2>2. PurgeFails(p) \/ (Goto(p, "purge-logged") /\ job' = job)
    BY <1>4 DEF PurgeLogs
  <2> QED BY <2>1, <2>2
<1>5. CASE QuarantineEntry(p)
  BY <1>5 DEF QuarantineEntry
<1>6. CASE RemoveQuarantine(p)
  BY <1>6 DEF RemoveQuarantine
<1>7. CASE VerifyPurge(p)
  BY <1>7 DEF VerifyPurge
<1>8. CASE TearEntry(p)
  BY <1>8 DEF TearEntry
<1>9. CASE PrepareEntry(p)
  BY <1>9 DEF PrepareEntry
<1>10. CASE CheckEntry(p)
  BY <1>10 DEF CheckEntry
<1>11. CASE CommitEntry(p)
  BY <1>11 DEF CommitEntry
<1> QED BY <1>1, <1>2, <1>3, <1>4, <1>5, <1>6, <1>7, <1>8, <1>9, <1>10, <1>11 DEF PurgeStep

(* A recovery of a purge moves on with what it knows.                      *)
LEMMA PurgeRecoveryMoves ==
  ASSUME Consistent, NEW p \in Procs, LogsFit(p), job[p].kind = "purge",
         RecoveryStep(p), ~BeginRecovery(p)
  PROVE  PurgerMoves(p)
<1> USE GotoKeeps, StopLeaves DEF Consistent, PurgerMoves, bin, data
<1>1. CASE RecoverSurface(p)
  <2> PICK s \in First(job[p].todo, RecoveryRank) :
         \/ Stop(p) /\ live' = live
         \/ /\ live' = [live EXCEPT ![s] = Desired(p, s)] \/ live' = live
            /\ Stop(p) \/ (pc' = pc /\ job' = [job EXCEPT ![p].todo = @ \ {s}])
    BY <1>1 DEF RecoverSurface
  <2>1. s = "logs" /\ pc[p] = "rec" /\ entry' = entry
    BY <1>1 DEF RecoverSurface, First, LogsFit
  <2>2. \A t \in Surfaces \ {"logs"} : live'[t].own = live[t].own
    BY <2>1 DEF Typed, DataTyped, Images
  <2>3. CASE pc' = pc /\ job' = [job EXCEPT ![p].todo = @ \ {s}]
    <3>1. PurgeKept(p)
      BY <2>3, JobFunction DEF PurgeKept, Jobs
    <3> QED BY <2>1, <2>2, <2>3, <3>1
  <2> QED BY <2>1, <2>2, <2>3
<1>2. CASE SurfacesRecovered(p)
  BY <1>2 DEF SurfacesRecovered
<1>3. CASE RecoverQuarantine(p)
  BY <1>3 DEF RecoverQuarantine, PurgeKept
<1>4. CASE RecoverTrash(p)
  BY <1>4 DEF RecoverTrash
<1>5. CASE RefuseTrash(p)
  BY <1>5 DEF RefuseTrash
<1>6. CASE FinalizeStage(p)
  BY <1>6 DEF FinalizeStage
<1>7. CASE FinalizePayload(p)
  BY <1>7 DEF FinalizePayload
<1>8. CASE FinalizeUnlock(p)
  BY <1>8 DEF FinalizeUnlock
<1> QED BY <1>1, <1>2, <1>3, <1>4, <1>5, <1>6, <1>7, <1>8 DEF RecoveryStep

(* What the payload of a purge covers is written once.                     *)
LEMMA PurgePayload ==
  ASSUME Consistent, NEW p \in Procs, LogsFit(p), job[p].kind = "purge", LogsInv,
         \/ PurgeStep(p) \/ TearEntry(p) \/ PrepareEntry(p) \/ CheckEntry(p) \/ CommitEntry(p)
         \/ RecoveryStep(p),
         NEW o \in OpIds
  PROVE  PayLogs(o)'
<1> USE DEF Consistent, Typed, LogsInv, PayLogs
<1>1. CASE WritePurgePayload(p)
  <2> DEFINE v == [kind |-> job[p].kind, covers |-> job[p].todo, before |-> Blank,
                   moves |-> job[p].bundle, from |-> job[p].from, sealed |-> TRUE]
  <2>1. v.covers = job[p].todo
    OBVIOUS
  <2>2. payload' = [payload EXCEPT ![job[p].op] = v] \/ payload' = payload
    BY <1>1 DEF WritePurgePayload
  <2> HIDE DEF v
  <2>3. payload'[o] \in {v, payload[o]}
    BY <2>2
  <2> QED BY <2>1, <2>3 DEF LogsFit
<1>2. CASE FinalizePayload(p)
  <2>1. payload'[o] \in {NoPayload, payload[o]} /\ NoPayload.kind = "none"
    BY <1>2 DEF FinalizePayload, NoPayload
  <2> QED BY <2>1
<1>3. CASE ~WritePurgePayload(p) /\ ~FinalizePayload(p)
  <2>1. payload' = payload
    BY <1>3
       DEF PurgeStep, TearEntry, PrepareEntry, CheckEntry, CommitEntry, RecoveryStep, RecheckPurge,
           CheckpointPurge, PurgeLogs, QuarantineEntry, RemoveQuarantine, VerifyPurge,
           BeginRecovery, RecoverSurface, SurfacesRecovered, RecoverQuarantine, RecoverTrash,
           RefuseTrash, FinalizeStage, FinalizeUnlock, disk
  <2> QED BY <2>1
<1> QED BY <1>1, <1>2, <1>3

(* Steps that change neither a surface nor the trash nor a payload, of a   *)
(* process that is not about to delete logs.                               *)
LEMMA SameLogs ==
  ASSUME Consistent, LogsInv, NEW p \in Procs, OthersStay(p), UNCHANGED <<live, entry>>,
         \A o \in OpIds : payload'[o] \in {payload[o], NoPayload},
         pc'[p] \notin {"purge-commit", "purge-start", "purge-logs", "rec"},
         job'[p].kind = "purge" => job'[p].todo \subseteq {"logs"}
  PROVE  LogsInv'
<1>1. LogsFit(p)'
  BY DEF LogsFit
<1>2. ASSUME NEW q \in Procs \ {p} PROVE LogsFit(q)'
  BY DEF LogsInv, LogsFit, OthersStay, LogsArePurged, ValidEntries
<1>3. ASSUME NEW o \in OpIds PROVE PayLogs(o)'
  BY DEF LogsInv, PayLogs, NoPayload
<1> QED BY <1>1, <1>2, <1>3 DEF LogsInv

(* A process that stops keeps LogsInv.                                     *)
LEMMA StopLogs ==
  ASSUME Consistent, LogsInv, NEW p \in Procs, Stop(p), UNCHANGED <<live, entry>>,
         \A o \in OpIds : payload'[o] \in {payload[o], NoPayload}
  PROVE  LogsInv'
<1>1. NoJob.kind = "none"
  BY DEF NoJob
<1> QED BY <1>1, StopLeaves, SameLogs DEF Consistent

(* Scanning and taking the lock keeps LogsInv.                             *)
LEMMA AcquireLogs ==
  ASSUME ReleaseSucceeds, Consistent, LogsInv, NEW p \in Procs, AcquireStep(p)
  PROVE  LogsInv'
<1> USE JobFunction DEF Consistent, LogsInv
<1>1. ASSUME NEW kind \in Kinds, ScanRoot(p, kind) PROVE LogsInv'
  <2>1. OthersStay(p) /\ pc'[p] = "scanned" /\ job'[p].todo = {}
    BY <1>1 DEF ScanRoot, Goto, OthersStay, NoJob
  <2> QED BY <1>1, <2>1, SameLogs DEF ScanRoot, data, disk, bin
<1>2. CASE CreateLock(p)
  <2>1. /\ OthersStay(p) /\ pc'[p] = "lock-created"
        /\ job'[p].todo = job[p].todo /\ job'[p].kind = job[p].kind
    BY <1>2 DEF CreateLock, Goto, OthersStay, Jobs
  <2> QED BY <1>2, <2>1, SameLogs DEF CreateLock, data, bin, LogsFit
<1>3. CASE LockIsTaken(p)
  BY <1>3, StopLogs DEF LockIsTaken, data, disk, bin
<1>4. CASE WriteLock(p) \/ CreateJournal(p)
  <2>1. /\ UNCHANGED <<live, entry, payload>>
        /\ Stop(p) \/ (job' = job /\ (Goto(p, "lock-written") \/ Goto(p, "acquired")))
    BY <1>4 DEF WriteLock, CreateJournal, data, bin
  <2>2. CASE Stop(p)
    BY <2>1, <2>2, StopLogs
  <2>3. CASE job' = job /\ (Goto(p, "lock-written") \/ Goto(p, "acquired"))
    <3>1. OthersStay(p) /\ pc'[p] \in {"lock-written", "acquired"}
      BY <2>3 DEF Goto, OthersStay
    <3> QED BY <2>1, <2>3, <3>1, SameLogs DEF LogsFit
  <2> QED BY <2>1, <2>2, <2>3
<1> QED BY <1>1, <1>2, <1>3, <1>4 DEF AcquireStep

(* The steps of a release keep LogsInv.                                    *)
LEMMA ReleaseLogs ==
  ASSUME ReleaseSucceeds, Consistent, LogsInv, NEW p \in Procs, ReleaseStep(p)
  PROVE  LogsInv'
<1> USE JobFunction, ReleaseIsQuiet DEF Consistent
<1>0. Working(p) /\ pc[p] # "lock-created"
  BY DEF ReleaseStep, ReleaseStage, ReleaseCheck, ReleasePayload, ReleaseUnlock, Working
<1>1. OwnsLockFile(p)
  BY <1>0, OneWorker DEF OwnsLockFile
<1>2. /\ UNCHANGED <<live, entry>> /\ \A o \in OpIds : payload'[o] \in {payload[o], NoPayload}
      /\ \/ Stop(p)
         \/ /\ job' = job
            /\ Goto(p, "rel-check") \/ Goto(p, "rel-payload") \/ Goto(p, "rel-unlock")
  <2>1. CASE ReleasePayload(p)
    BY <2>1 DEF ReleasePayload, Effect, Throws, Typed, data, bin
  <2>2. CASE ~ReleasePayload(p)
    BY <1>1, <2>2 DEF ReleaseStep, ReleaseStage, ReleaseCheck, ReleaseUnlock, Throws, data, disk,
                      bin
  <2> QED BY <2>1, <2>2
<1>3. CASE Stop(p)
  BY <1>2, <1>3, StopLogs
<1>4. CASE ~Stop(p)
  <2>1. job' = job /\ OthersStay(p) /\ pc'[p] \in {"rel-check", "rel-payload", "rel-unlock"}
    BY <1>2, <1>4 DEF Goto, OthersStay
  <2> QED BY <1>2, <2>1, SameLogs DEF LogsInv, LogsFit
<1> QED BY <1>3, <1>4

(* Reading an entry ahead of the lock keeps LogsInv.                       *)
LEMMA ReadLogs ==
  ASSUME Consistent, LogsInv, NEW p \in Procs,
         CheckIndexes(p) \/ ReadForRestore(p) \/ ReadForPurge(p) \/ EntryNotFound(p)
  PROVE  LogsInv'
<1> USE JobFunction DEF Consistent
<1>1. CASE CheckIndexes(p)
  <2>1. UNCHANGED <<live, entry, payload>> /\ (Stop(p) \/ (Goto(p, "checked") /\ job' = job))
    BY <1>1 DEF CheckIndexes, data, disk, bin
  <2>2. CASE Goto(p, "checked") /\ job' = job
    BY <2>1, <2>2, SameLogs DEF Goto, OthersStay, LogsInv, LogsFit
  <2> QED BY <2>1, <2>2, StopLogs
<1>2. CASE ReadForRestore(p)
  <2>1. job[p].kind = "restore" /\ \E e : job' = [job EXCEPT ![p] = [job[p] EXCEPT !.from = e,
                                                                      !.bundle = entry[e].bundle]]
    BY <1>2 DEF ReadForRestore
  <2>2. OthersStay(p) /\ job'[p].kind # "purge" /\ pc'[p] = "checked"
    BY <1>2, <2>1 DEF ReadForRestore, Goto, OthersStay, Jobs
  <2> QED BY <1>2, <2>2, SameLogs DEF ReadForRestore, data, disk, bin
<1>3. CASE ReadForPurge(p)
  <2> DEFINE b(e) == IF LogsArePurged(job[p].seen, e) THEN LogKeys ELSE NoRecords
             t(e) == IF LogsArePurged(job[p].seen, e) THEN {"logs"} ELSE {}
             j(e) == [job[p] EXCEPT !.from = e, !.bundle = b(e), !.todo = t(e)]
  <2> PICK e \in ValidEntries : Goto(p, "checked") /\ job' = [job EXCEPT ![p] = j(e)]
    BY <1>3 DEF ReadForPurge
  <2>1. t(e) \subseteq {"logs"}
    OBVIOUS
  <2> HIDE DEF b, t
  <2>2. j(e).todo = t(e)
    BY DEF Jobs
  <2> HIDE DEF j
  <2>3. OthersStay(p) /\ pc'[p] = "checked" /\ job'[p].todo \subseteq {"logs"}
    BY <2>1, <2>2 DEF Goto, OthersStay
  <2> QED BY <1>3, <2>3, SameLogs DEF ReadForPurge, data, disk, bin
<1>4. CASE EntryNotFound(p)
  BY <1>4, StopLogs DEF EntryNotFound, data, disk, bin
<1> QED BY <1>1, <1>2, <1>3, <1>4

(* A recovery takes over what the payload of a purge covers, and looks     *)
(* whether somebody needs the logs.                                        *)
LEMMA BeginLogs ==
  ASSUME ReleaseSucceeds, SupervisedRecovery, Consistent, LogsInv, NEW p \in Procs, BeginRecovery(p)
  PROVE  LogsInv'
<1> USE DEF Consistent
<1> PICK o \in OpIds : o = lock.op
  BY DEF BeginRecovery, Readable, Typed, LockTyped, OpIds
<1>1. UNCHANGED <<live, entry, payload>> /\ pc[p] = "idle" /\ \A q \in Procs : Active(q) => job[q].op # o
  BY DEF BeginRecovery, Unattended, data, disk, bin
<1>2. \A q \in Procs : ~Working(q)
  BY <1>1, OneWorker DEF Active, Working
<1>3. /\ OthersStay(p) /\ job'[p].kind = payload[o].kind /\ job'[p].from = payload[o].from
      /\ job'[p].bundle = (IF ProtectsLogs(o) THEN NoRecords ELSE payload[o].moves)
      /\ job'[p].todo \subseteq payload[o].covers
      /\ pc'[p] \in {"rec", "fin-stage"}
  BY JobFunction DEF BeginRecovery, Goto, OthersStay, NoJob
<1>4. "logs" \in Surfaces
  BY SurfacesNamed
<1>5. job'[p].kind = "purge" =>
        job'[p].bundle["logs"] = {} \/ LogsArePurged(live, job'[p].from)
  BY <1>3, <1>4 DEF ProtectsLogs, NoRecords
<1>6. LogsFit(p)'
  BY <1>1, <1>3, <1>5 DEF LogsInv, PayLogs, LogsFit, LogsArePurged, ValidEntries
<1>7. \A x \in OpIds : PayLogs(x)'
  BY <1>1 DEF LogsInv, PayLogs
<1> QED BY <1>2, <1>3, <1>6, <1>7, QuietLogs

(* Every step keeps LogsInv.                                               *)
LEMMA NextLogs ==
  ASSUME ReleaseSucceeds, SupervisedRecovery, QuietScan
  PROVE  Consistent /\ LogsInv /\ [Next]_vars => LogsInv'
<1> SUFFICES ASSUME Consistent, LogsInv, [Next]_vars PROVE LogsInv'
  OBVIOUS
<1>0. Consistent'
  BY ConsistentAlways
<1> USE DEF Consistent
<1>1. ASSUME NEW p \in Procs, OperationStep(p) PROVE LogsInv'
  <2>1. CASE AcquireStep(p)
    BY <2>1, AcquireLogs
  <2>2. CASE ReleaseStep(p)
    BY <2>2, ReleaseLogs
  <2>3. CASE BeginRecovery(p)
    BY <2>3, BeginLogs
  <2>4. CASE FinalizeUnlock(p)
    BY <2>4, StopLogs DEF FinalizeUnlock, data, bin
  <2>5. CASE CheckIndexes(p) \/ ReadForRestore(p) \/ ReadForPurge(p) \/ EntryNotFound(p)
    BY <2>5, ReadLogs
  <2> DEFINE Owner ==
        \/ DeleteStep(p) \/ UndoStep(p) \/ TrashStep(p) \/ RestoreStep(p) \/ PurgeStep(p)
        \/ CleanupStep(p) /\ ~CheckIndexes(p)
        \/ EntryStep(p) /\ ~(ReadForRestore(p) \/ ReadForPurge(p) \/ EntryNotFound(p))
        \/ RecoveryStep(p) /\ ~BeginRecovery(p) /\ ~FinalizeUnlock(p)
  <2>6. CASE Owner
    <3>1. Stays(p) /\ Holding(p)
      BY <2>6, DeleteStays, UndoStays, TrashStays, RestoreStays, PurgeStays, CleanupStays,
         EntryStays, RecoveryStays
    <3>2. OwnFiles(p)
      BY <2>6, DeleteFits, UndoFits, TrashFits, RestoreFits, PurgeFits, CleanupFits, EntryFits,
         RecoveryFits
    <3>3. Working(p) /\ KindFits(p) /\ KindFits(p)' /\ LogsFit(p)
      BY <1>0, <3>1 DEF Holding, Working, JournalInv, Fits, LogsInv
    <3>4. CASE job[p].kind # "purge"
      BY <3>1, <3>2, <3>3, <3>4, OtherLogs
    <3>5. CASE job[p].kind = "purge"
      <4>1. \/ PurgeStep(p) \/ TearEntry(p) \/ PrepareEntry(p) \/ CheckEntry(p) \/ CommitEntry(p)
            \/ RecoveryStep(p) /\ ~BeginRecovery(p)
        BY <2>6, <3>3, <3>5, PurgersPurge DEF EntryStep
      <4>2. LogsFit(p)'
        BY <1>0, <3>3, <3>5, <4>1, PurgeMoves, PurgeRecoveryMoves, PurgerLogs
      <4>3. \A o \in OpIds : PayLogs(o)'
        BY <3>3, <3>5, <4>1, PurgePayload
      <4> QED BY <3>1, <3>3, <4>2, <4>3, OneWorker, QuietLogs DEF Stays
    <3> QED BY <3>4, <3>5
  <2> QED BY <1>1, <2>1, <2>2, <2>3, <2>4, <2>5, <2>6 DEF OperationStep
<1>2. ASSUME NEW p \in Procs, Crash(p) PROVE LogsInv'
  BY <1>2, StopLogs DEF Crash, data, disk, bin
<1>3. CASE CodexStep
  <2> PICK s \in Surfaces : CodexAdds(s) \/ CodexChangesOthers(s)
    BY <1>3 DEF CodexStep
  <2>1. \A t \in SessionFiles \cup Indexes \cup {"sqlite-state"} : live'[t].own = live[t].own
    <3>1. SessionFiles \cup Indexes \cup {"sqlite-state"} \subseteq Surfaces
      BY SurfacesNamed
    <3> QED BY <3>1 DEF QuietScan, CodexAdds, CodexChangesOthers, Typed, DataTyped, Images, Value
  <2>2. UNCHANGED <<entry, payload, pc, job>> /\ (SessionKnown(live') <=> SessionKnown(live))
    BY <2>1 DEF SessionKnown, CodexAdds, CodexChangesOthers, disk, bin
  <2> QED BY <2>2 DEF LogsInv, LogsFit, PayLogs, LogsArePurged, ValidEntries
<1>4. CASE UNCHANGED vars
  BY <1>4 DEF vars, LogsInv, LogsFit, PayLogs, LogsArePurged, ValidEntries, SessionKnown
<1> QED BY <1>1, <1>2, <1>3, <1>4 DEF Next

(* A step that deletes logs in a purge or in the recovery of one.          *)
LEMMA LogsDeleted ==
  ASSUME ReleaseSucceeds, Consistent, FromInv, LogsInv, NEW p \in Procs,
         OperationStep(p) \/ Crash(p),
         payload[lock.op].kind = "purge", NEW r \in live["logs"].own, r \notin live'["logs"].own
  PROVE  LogsArePurged(live, payload[lock.op].from)
<1> USE JobFunction DEF Consistent
<1>1. live' # live
  OBVIOUS
<1>2. \/ RemoveFromIndex(p) \/ RemoveFromGlobalState(p) \/ UndoGlobalState(p) \/ RemoveFile(p)
      \/ RemoveRows(p) \/ RemoveLogs(p) \/ UndoSurface(p) \/ RestoreText(p) \/ RestoreRows(p)
      \/ RemoveGoals(p) \/ UndoRestore(p) \/ PurgeLogs(p) \/ RecoverSurface(p)
  BY <1>1 DEF OperationStep, AcquireStep, ScanRoot, CreateLock, LockIsTaken, WriteLock,
      CreateJournal, DeleteStep, EnterPrepared, CheckSelection, Capture, WritePayload, Recheck,
      EnterCommitting, StartSurface, MarkSurface, EnterVerifying, UndoStep, UndoEnds, TrashStep,
      WriteTrashPayload, MakeTmp, BuildBundle, CommitTrashEntry, MarkTrashEntry, DropTrash,
      TearEntry, CleanupStep, CheckIndexes, WriteCleanupPayload, RecheckCleanup, CommitCleanup,
      StartIndex, VerifyCleanup, EntryStep, ReadForRestore, ReadForPurge, EntryNotFound,
      PrepareEntry, CheckEntry, CommitEntry, RestoreStep, CheckConflicts, CaptureRestore,
      WriteRestorePayload, StartRestore, RereadWritten, MarkRestored, UndoRestoreEnds, MarkRows,
      VerifyRestore,
      PurgeStep, WritePurgePayload, RecheckPurge, CheckpointPurge, QuarantineEntry,
      RemoveQuarantine, VerifyPurge, ReleaseStep, ReleaseStage, ReleaseCheck, ReleasePayload,
      ReleaseUnlock, RecoveryStep, BeginRecovery, SurfacesRecovered, RecoverQuarantine,
      RecoverTrash, RefuseTrash, FinalizeStage, FinalizePayload, FinalizeUnlock, Crash, data
<1>3. /\ Working(p)
      /\ pc[p] \in {"remove", "undo-global-state", "remove-logs", "undo", "put-back",
                    "unrestore-goals", "unrestore", "purge-logs", "rec"}
  BY <1>2 DEF RemoveFromIndex, RemoveFromGlobalState, UndoGlobalState, RemoveFile, RemoveRows,
         RemoveLogs, UndoSurface, RestoreText, RestoreRows, RemoveGoals, UndoRestore, PurgeLogs,
         RecoverSurface, Working
<1>4. lock.op = job[p].op /\ Fits(p) /\ LogsFit(p) /\ FromFits(p)
  BY <1>3, WorkerFits DEF LogsInv, FromInv
<1>5. job[p].kind = "purge" /\ pc[p] \in {"purge-logs", "rec"}
  BY <1>3, <1>4
     DEF Fits, PayloadFits, KindFits, CommitAt, RestoringAt
<1>6. job[p].from = payload[lock.op].from
  BY <1>4, <1>5 DEF FromFits, PurgingAt, ReconcileAt
<1>7. CASE pc[p] = "purge-logs"
  <2>1. PurgeLogs(p)
    BY <1>2, <1>7 DEF RemoveFromIndex, RemoveFromGlobalState, UndoGlobalState, RemoveFile,
                      RemoveRows,
           RemoveLogs, UndoSurface, RestoreText, RestoreRows, RemoveGoals, UndoRestore,
           RecoverSurface
  <2>2. "logs" \in job[p].todo
    BY <1>1, <2>1 DEF PurgeLogs
  <2> QED BY <1>4, <1>6, <1>7, <2>2 DEF LogsFit
<1>8. CASE pc[p] = "rec"
  <2>1. RecoverSurface(p)
    BY <1>2, <1>8 DEF RemoveFromIndex, RemoveFromGlobalState, UndoGlobalState, RemoveFile,
                      RemoveRows,
           RemoveLogs, UndoSurface, RestoreText, RestoreRows, RemoveGoals, UndoRestore, PurgeLogs
  <2> PICK s \in First(job[p].todo, RecoveryRank) : live' = [live EXCEPT ![s] = Desired(p, s)]
    BY <1>1, <2>1 DEF RecoverSurface
  <2>2. s = "logs" /\ s \in Surfaces /\ live \in Images
    BY <1>4, <1>5, SurfacesNamed DEF First, LogsFit, Typed, DataTyped
  <2>3. live'["logs"].own = live["logs"].own \ job[p].bundle["logs"]
    BY <1>5, <2>2 DEF Desired, Images, Value
  <2> QED BY <1>4, <1>5, <1>6, <1>8, <2>3 DEF LogsFit
<1> QED BY <1>5, <1>7, <1>8

(* A purge and its recovery delete only logs that nobody can still want    *)
(* (purgeTrashEntry, protectedPurgeLogTargets): from the last look at the  *)
(* root and at the trash to the delete, whichever process does it, no      *)
(* other process of this tool brings the session or another entry back.    *)
THEOREM PurgesSpareLogs ==
  ASSUME ReleaseSucceeds, SupervisedRecovery, QuietScan
  PROVE  Spec => PurgeSparesLogs
<1>1. Init => Consistent /\ FromInv /\ LogsInv
  BY ConsistentAlways, FromBegins, LogsBegin
<1>2. Consistent /\ FromInv /\ LogsInv /\ [Next]_vars => (Consistent /\ FromInv /\ LogsInv)'
  BY ConsistentAlways, NextFrom, NextLogs
<1>3. Consistent /\ FromInv /\ LogsInv /\ [Next]_vars =>
        [\A r \in live["logs"].own \ live'["logs"].own :
           payload[lock.op].kind = "purge" => LogsArePurged(live, payload[lock.op].from)]_vars
  <2> SUFFICES ASSUME Consistent, FromInv, LogsInv, Next,
                      NEW r \in live["logs"].own, r \notin live'["logs"].own,
                      payload[lock.op].kind = "purge"
               PROVE  LogsArePurged(live, payload[lock.op].from)
    OBVIOUS
  <2>1. CASE CodexStep
    <3> PICK s \in Surfaces : CodexAdds(s) \/ CodexChangesOthers(s)
      BY <2>1 DEF CodexStep
    <3>1. live["logs"].own \subseteq live'["logs"].own
      BY SurfacesNamed DEF CodexAdds, CodexChangesOthers, Consistent, Typed, DataTyped, Images,
                           Value
    <3> QED BY <3>1
  <2> QED BY <2>1, LogsDeleted DEF Next
<1> QED BY <1>1, <1>2, <1>3, PTL DEF Spec, PurgeSparesLogs
=============================================================================
