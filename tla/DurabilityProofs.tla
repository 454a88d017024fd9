-------------------------- MODULE DurabilityProofs --------------------------
(***************************************************************************)
(* What the mutations may do to the surfaces of the root, for every set of *)
(* processes and files and every bound: what other sessions wrote stays,   *)
(* whatever fails; no record of the selection leaves a surface before the  *)
(* recovery payload of the operation holds it, nor, in a delete or a move  *)
(* to the trash, before the journal has the mark of the surface.           *)
(***************************************************************************)
EXTENDS JournalProofs, FiniteSetTheorems

(* The steps of a process that may write a surface.                        *)
Writes(p) ==
  \/ RemoveFromIndex(p) \/ RemoveFromGlobalState(p) \/ UndoGlobalState(p) \/ RemoveFile(p)
  \/ RemoveRows(p) \/ RemoveLogs(p) \/ UndoSurface(p) \/ RestoreText(p) \/ RestoreRows(p)
  \/ RemoveGoals(p) \/ UndoRestore(p) \/ PurgeLogs(p) \/ RecoverSurface(p)

(* All other steps leave the surfaces alone.                               *)
LEMMA OthersReadOnly ==
  ASSUME NEW p \in Procs, OperationStep(p) \/ Crash(p), ~Writes(p)
  PROVE  live' = live
<1> USE DEF Writes, data
<1>1. CASE AcquireStep(p)
  BY <1>1 DEF AcquireStep, ScanRoot, CreateLock, LockIsTaken, WriteLock, CreateJournal
<1>2. CASE DeleteStep(p)
  BY <1>2 DEF DeleteStep, EnterPrepared, CheckSelection, Capture, WritePayload, Recheck,
              EnterCommitting, StartSurface, MarkSurface, EnterVerifying
<1>3. CASE UndoStep(p)
  BY <1>3 DEF UndoStep, UndoEnds
<1>4. CASE TrashStep(p)
  BY <1>4 DEF TrashStep, WriteTrashPayload, MakeTmp, BuildBundle, CommitTrashEntry, MarkTrashEntry,
              DropTrash, TearEntry
<1>5. CASE CleanupStep(p)
  BY <1>5 DEF CleanupStep, CheckIndexes, WriteCleanupPayload, RecheckCleanup, CommitCleanup,
              StartIndex, VerifyCleanup
<1>6. CASE EntryStep(p)
  BY <1>6 DEF EntryStep, ReadForRestore, ReadForPurge, EntryNotFound, PrepareEntry, CheckEntry,
              CommitEntry
<1>7. CASE RestoreStep(p)
  BY <1>7 DEF RestoreStep, CheckConflicts, CaptureRestore, WriteRestorePayload, StartRestore,
              RereadWritten, MarkRestored, UndoRestoreEnds, MarkRows, VerifyRestore
<1>8. CASE PurgeStep(p)
  BY <1>8 DEF PurgeStep, WritePurgePayload, RecheckPurge, CheckpointPurge, QuarantineEntry,
              RemoveQuarantine, VerifyPurge
<1>9. CASE ReleaseStep(p)
  BY <1>9 DEF ReleaseStep, ReleaseStage, ReleaseCheck, ReleasePayload, ReleaseUnlock
<1>10. CASE RecoveryStep(p)
  BY <1>10 DEF RecoveryStep, BeginRecovery, SurfacesRecovered, RecoverQuarantine, RecoverTrash,
               RefuseTrash, FinalizeStage, FinalizePayload, FinalizeUnlock
<1>11. CASE Crash(p)
  BY <1>11 DEF Crash
<1> QED BY <1>1, <1>2, <1>3, <1>4, <1>5, <1>6, <1>7, <1>8, <1>9, <1>10, <1>11 DEF OperationStep

(* Operations and recoveries never write what Codex calls foreign.         *)
LEMMA OthersDoNotWrote ==
  ASSUME NEW p \in Procs, OperationStep(p) \/ Crash(p)
  PROVE  wrote' = wrote
<1> USE DEF data
<1>1. CASE AcquireStep(p)
  BY <1>1 DEF AcquireStep, ScanRoot, CreateLock, LockIsTaken, WriteLock, CreateJournal
<1>2. CASE DeleteStep(p)
  BY <1>2 DEF DeleteStep, EnterPrepared, CheckSelection, Capture, WritePayload, Recheck,
              EnterCommitting, StartSurface, MarkSurface, EnterVerifying, RemoveFromIndex,
              RemoveFromGlobalState, UndoGlobalState, RemoveFile, RemoveRows, RemoveLogs
<1>3. CASE UndoStep(p)
  BY <1>3 DEF UndoStep, UndoSurface, UndoEnds
<1>4. CASE TrashStep(p)
  BY <1>4 DEF TrashStep, WriteTrashPayload, MakeTmp, BuildBundle, CommitTrashEntry, MarkTrashEntry,
              DropTrash, TearEntry
<1>5. CASE CleanupStep(p)
  BY <1>5 DEF CleanupStep, CheckIndexes, WriteCleanupPayload, RecheckCleanup, CommitCleanup,
              StartIndex, VerifyCleanup
<1>6. CASE EntryStep(p)
  BY <1>6 DEF EntryStep, ReadForRestore, ReadForPurge, EntryNotFound, PrepareEntry, CheckEntry,
              CommitEntry
<1>7. CASE RestoreStep(p)
  BY <1>7 DEF RestoreStep, CheckConflicts, CaptureRestore, WriteRestorePayload, StartRestore,
              RestoreText, RereadWritten, MarkRestored, RestoreRows, RemoveGoals, UndoRestore, UndoRestoreEnds,
              MarkRows, VerifyRestore
<1>8. CASE PurgeStep(p)
  BY <1>8 DEF PurgeStep, WritePurgePayload, RecheckPurge, CheckpointPurge, PurgeLogs,
              QuarantineEntry, RemoveQuarantine, VerifyPurge
<1>9. CASE ReleaseStep(p)
  BY <1>9 DEF ReleaseStep, ReleaseStage, ReleaseCheck, ReleasePayload, ReleaseUnlock
<1>10. CASE RecoveryStep(p)
  BY <1>10 DEF RecoveryStep, BeginRecovery, RecoverSurface, SurfacesRecovered, RecoverQuarantine,
               RecoverTrash, RefuseTrash, FinalizeStage, FinalizePayload, FinalizeUnlock
<1>11. CASE Crash(p)
  BY <1>11 DEF Crash
<1> QED BY <1>1, <1>2, <1>3, <1>4, <1>5, <1>6, <1>7, <1>8, <1>9, <1>10, <1>11 DEF OperationStep

(* What a surface is before and after a removal or a restore differs only  *)
(* in the records of the selection.                                        *)
LEMMA SameForeign ==
  ASSUME NEW s \in Lists, NEW v \in Value, NEW kind, NEW m
  PROVE  Removed(s, v).ext = v.ext /\ After(kind, s, v, m).ext = v.ext
BY DEF Removed, After, Value

(* Lists, files and databases are different surfaces.                      *)
LEMMA ListsApart ==
  /\ Lists \cap (Files \cup Databases) = {} /\ Lists \subseteq Surfaces
  /\ Files \cap Databases = {} /\ Indexes \subseteq Lists
BY FilesAssumption DEF Lists, Databases, Surfaces, Indexes

(* A list is only rewritten over a state it is known to be in, and every   *)
(* such state has the same foreign lines, but for one a restore adopted.   *)
LEMMA WritesKeepForeign ==
  ASSUME Typed, NEW p \in Procs, Writes(p), NEW t \in Lists
  PROVE  live'[t].ext = live[t].ext \/ Adopted(p, t)
<1> USE ListsApart, JobFunction DEF Typed, DataTyped
<1>0. /\ live \in [Surfaces -> Value] /\ job[p].snap \in [Surfaces -> Value] /\ t \in Surfaces
      /\ live[t] \in Value /\ job[p].snap[t] \in Value
  BY DEF Images, Jobs
<1> DEFINE snap == job[p].snap
           removed == Removed(t, snap[t])
           restored == Restored(p, t)
           after == StateAfter(p, t)
<1>1. removed.ext = snap[t].ext /\ restored.ext = snap[t].ext /\ after.ext = snap[t].ext
  BY <1>0, SameForeign DEF Restored, StateAfter
<1>2. \/ live'[t] = live[t]
      \/ live'[t] = removed /\ live[t] = snap[t]
      \/ live'[t] = snap[t] /\ live[t] \in {removed, restored}
      \/ live'[t] = restored /\ live[t] = snap[t]
      \/ live'[t] \in {snap[t], after} /\ live[t] \in {snap[t], after}
      \/ live'[t].ext = live[t].ext
      \/ Adopted(p, t)
  <2> HIDE DEF restored, after
  <2>1. CASE RemoveFromIndex(p)
    BY <1>0, <2>1 DEF RemoveFromIndex, TakeOut, StillCaptured
  <2>2. CASE RemoveFromGlobalState(p)
    BY <1>0, <2>2 DEF RemoveFromGlobalState, TakeOut, StillCaptured
  <2>3. CASE UndoGlobalState(p)
    BY <1>0, <2>3 DEF UndoGlobalState
  <2>4. CASE RemoveFile(p)
    BY <1>0, <2>4 DEF RemoveFile, TakeOut
  <2>5. CASE RemoveRows(p)
    BY <1>0, <2>5 DEF RemoveRows, TakeOut
  <2>6. CASE RemoveLogs(p)
    BY <1>0, <2>6 DEF RemoveLogs, TakeOut, Databases
  <2>7. CASE UndoSurface(p)
    <3>1. PICK s \in First(job[p].todo, UndoRank) :
            live' = live \/ (Undoable(p, s) /\ PutBack(s, snap[s]))
      BY <2>7 DEF UndoSurface
    <3>2. CASE s = t
      <4>1. Undoable(p, t) => live[t] = removed
        BY DEF Undoable, Databases
      <4>2. PutBack(s, snap[s]) => live'[t] = snap[t]
        BY <1>0, <3>2 DEF PutBack, WithMissing
      <4> QED BY <3>1, <3>2, <4>1, <4>2
    <3>3. CASE s # t
      BY <1>0, <3>1, <3>3 DEF PutBack
    <3> QED BY <3>2, <3>3
  <2>8. CASE RestoreText(p)
    BY <1>0, <2>8 DEF RestoreText, StillCaptured, restored
  <2>9. CASE RestoreRows(p)
    BY <1>0, <2>9 DEF RestoreRows, Rows, Databases
  <2>10. CASE RemoveGoals(p)
    BY <1>0, <2>10 DEF RemoveGoals, Databases
  <2>11. CASE UndoRestore(p)
    <3>1. PICK s \in job[p].todo :
            live' = live \/ (live[s] = job[p].post[s] /\ live' = [live EXCEPT ![s] = snap[s]])
      BY <2>11 DEF UndoRestore, Effect
    <3>2. pc[p] = "unrestore"
      BY <2>11 DEF UndoRestore
    <3>3. CASE s = t
      BY <1>0, <3>1, <3>2, <3>3 DEF Adopted, restored
    <3>4. CASE s # t
      BY <1>0, <3>1, <3>4
    <3> QED BY <3>3, <3>4
  <2>12. CASE PurgeLogs(p)
    BY <1>0, <2>12 DEF PurgeLogs, Databases
  <2>13. CASE RecoverSurface(p)
    <3>1. PICK s \in First(job[p].todo, RecoveryRank) :
            \/ live' = live
            \/ KnownState(p, s) /\ live' = [live EXCEPT ![s] = Desired(p, s)]
      BY <2>13 DEF RecoverSurface
    <3>2. CASE s # t
      BY <1>0, <3>1, <3>2
    <3>3. CASE s = t
      <4>1. CASE job[p].kind = "purge"
        BY <1>0, <3>1, <3>3, <4>1 DEF Desired, Value
      <4>2. CASE job[p].kind # "purge"
        BY <1>0, <3>1, <3>3, <4>2 DEF Desired, KnownState, after
      <4> QED BY <4>1, <4>2
    <3> QED BY <3>2, <3>3
  <2> QED BY <2>1, <2>2, <2>3, <2>4, <2>5, <2>6, <2>7, <2>8, <2>9, <2>10, <2>11, <2>12, <2>13
          DEF Writes
<1> QED BY <1>1, <1>2

(* What Codex writes for other sessions into a list stays there            *)
(* (replaceIfUnchanged of the indexes, the global state and the history,   *)
(* the rollbacks and recoveries of all of them): with any faults, any      *)
(* crashes, failing releases and recoveries that run next to their owner.  *)
(* Only the rollback of a restore takes out a line, one that Codex wrote   *)
(* between the rename and the read that followed it (trash.ts:146-159).    *)
THEOREM ForeignIsKept == Spec => ForeignDataKept
<1>1. Typed /\ [Next]_vars =>
        [\A s \in Lists : live'[s].ext # live[s].ext =>
           live'[s].ext = wrote'[s].ext \/ \E p \in Procs : Adopted(p, s)]_vars
  <2> SUFFICES ASSUME Typed, [Next]_vars, NEW t \in Lists, live'[t].ext # live[t].ext
               PROVE  live'[t].ext = wrote'[t].ext \/ \E p \in Procs : Adopted(p, t)
    OBVIOUS
  <2>1. ASSUME NEW p \in Procs, OperationStep(p) \/ Crash(p)
        PROVE  Adopted(p, t)
    <3>1. CASE Writes(p)
      BY <3>1, WritesKeepForeign
    <3>2. CASE ~Writes(p)
      BY <2>1, <3>2, OthersReadOnly
    <3> QED BY <3>1, <3>2
  <2>2. CASE CodexStep
    <3> PICK s \in Surfaces : CodexAdds(s) \/ CodexChangesOthers(s)
      BY <2>2 DEF CodexStep
    <3> QED BY ListsApart DEF CodexAdds, CodexChangesOthers, Typed, DataTyped, Images, Value
  <2>3. CASE UNCHANGED vars
    BY <2>3 DEF vars
  <2> QED BY <2>1, <2>2, <2>3 DEF Next
<1> QED BY <1>1, TypedAlways, PTL DEF Spec, ForeignDataKept

-----------------------------------------------------------------------------
(* The before-image.  Codex does not write files of the selection or its   *)
(* thread rows: what it adds to them after the capture is in no payload,   *)
(* and a delete removes them as they are.                                  *)
QuietRecords == ExternalSurfaces \cap (Files \cup Rows) = {}

(* Where a delete works with what it captured, and where it works with     *)
(* what the payload holds.                                                 *)
RemovingAt == {"remove", "remove-logs", "mark"}
CommittingAt == {"commit"} \cup RemovingAt
PaidAt == {"recheck", "enter-commit"} \cup CommittingAt
CapturedAt == {"payload"} \cup PaidAt
CleaningAt == CleanupAt \cup CommittingAt
AddingAt == {"restore-commit", "restore", "put-back", "restore-reread", "restore-mark",
             "unrestore-goals", "unrestore",
             "purge-recheck", "purge-commit", "purge-start", "purge-logs"}

(* Files and rows hold no record that was not captured, where Codex writes *)
(* neither.                                                                *)
ImageFits(p) ==
  QuietRecords /\ pc[p] \in CapturedAt /\ Deletes(p) =>
    \A s \in Files \cup Rows : live[s].own \subseteq job[p].snap[s].own
(* The payload on disk holds what a process removes, adds or reconciles.   *)
RemovalFits(p) ==
  /\ pc[p] \in PaidAt /\ Deletes(p) =>
       \A s \in Covered(p) : payload[job[p].op].before[s] = job[p].snap[s]
  /\ pc[p] \in CleaningAt /\ Cleans(p) =>
       \A s \in Indexes : payload[job[p].op].before[s] = job[p].snap[s]
Planned(p) == IF Cleans(p) THEN Indexes ELSE Covered(p) \ {"logs"}
PlanFits(p) ==
  /\ pc[p] \in CommittingAt => job[p].todo \subseteq Planned(p)
  /\ pc[p] \in RemovingAt => job[p].cur \subseteq Planned(p)
MovesFit(p) ==
  /\ pc[p] \in AddingAt => payload[job[p].op].moves = job[p].bundle
  /\ pc[p] = "rec" => /\ payload[job[p].op].before = job[p].snap
                      /\ \A s \in Surfaces : job[p].bundle[s] \subseteq payload[job[p].op].moves[s]

DurableAt(p) == ImageFits(p) /\ RemovalFits(p) /\ PlanFits(p) /\ MovesFit(p)
DurableInv == \A p \in Procs : DurableAt(p)

(* The initial states satisfy DurableInv.                                  *)
LEMMA DurableBegins == Init => DurableInv
BY DEF Init, DurableInv, DurableAt, ImageFits, RemovalFits, PlanFits, MovesFit, CapturedAt, PaidAt,
       CommittingAt, RemovingAt, CleaningAt, CleanupAt, AddingAt

(* One process works at a time, and nothing is asked of the others.        *)
LEMMA StepDurable ==
  ASSUME ReleaseSucceeds, Consistent, NEW p \in Procs, OthersStay(p),
         \A q \in Procs \ {p} : ~Working(q), DurableAt(p)'
  PROVE  DurableInv'
<1>1. ASSUME NEW q \in Procs \ {p} PROVE DurableAt(q)'
  BY DEF OthersStay, Working, DurableAt, ImageFits, RemovalFits, PlanFits, MovesFit, CapturedAt,
         PaidAt, CommittingAt, RemovingAt, CleaningAt, CleanupAt, AddingAt
<1> QED BY <1>1 DEF DurableInv

(* A process at one of the other places.                                   *)
BusyAt == CapturedAt \cup PaidAt \cup CleaningAt \cup AddingAt \cup {"rec"}
(* A process that is elsewhere keeps DurableInv.                           *)
LEMMA ElsewhereDurable ==
  ASSUME NEW p \in Procs, pc'[p] \notin BusyAt
  PROVE  DurableAt(p)'
BY DEF BusyAt, DurableAt, ImageFits, RemovalFits, PlanFits, MovesFit, CapturedAt, PaidAt,
       CleaningAt,
       CommittingAt, AddingAt

(* A process that goes on with the same captured data and does not add to  *)
(* what it captured.                                                       *)
SameTask(p) ==
  /\ job'[p].kind = job[p].kind /\ job'[p].op = job[p].op /\ job'[p].seen = job[p].seen
  /\ job'[p].snap = job[p].snap /\ job'[p].bundle = job[p].bundle
Flows(p) ==
  /\ pc'[p] \in CapturedAt /\ Deletes(p) =>
       pc[p] \in CapturedAt /\ \A s \in Files \cup Rows : live'[s].own \subseteq live[s].own
  /\ pc'[p] \in PaidAt /\ Deletes(p) => pc[p] \in PaidAt
  /\ pc'[p] \in CleaningAt /\ Cleans(p) => pc[p] \in CleaningAt
  /\ pc'[p] \in CommittingAt =>
       \/ pc[p] \in CommittingAt /\ job'[p].todo \subseteq job[p].todo
       \/ job'[p].todo \subseteq Planned(p)
  /\ pc'[p] \in RemovingAt =>
       \/ pc[p] \in RemovingAt /\ job'[p].cur \subseteq job[p].cur
       \/ pc[p] = "commit" /\ job'[p].cur \subseteq job[p].todo
  /\ pc'[p] \in AddingAt => pc[p] \in AddingAt
  /\ pc'[p] = "rec" => pc[p] = "rec"

(* A process that goes on as described keeps DurableInv.                   *)
LEMMA FlowDurable ==
  ASSUME NEW p \in Procs, DurableAt(p), SameTask(p), Flows(p), payload' = payload
  PROVE  DurableAt(p)'
<1>1. /\ Deletes(p)' = Deletes(p) /\ Cleans(p)' = Cleans(p) /\ Covered(p)' = Covered(p)
      /\ Planned(p)' = Planned(p)
  BY DEF SameTask, Deletes, Cleans, Covered, Planned
<1>2. ImageFits(p)'
  BY <1>1 DEF DurableAt, ImageFits, SameTask, Flows
<1>3. RemovalFits(p)'
  BY <1>1 DEF DurableAt, RemovalFits, SameTask, Flows
<1>4. PlanFits(p)'
  BY <1>1 DEF DurableAt, PlanFits, Flows, CommittingAt
<1>5. MovesFit(p)'
  BY DEF DurableAt, MovesFit, SameTask, Flows
<1> QED BY <1>2, <1>3, <1>4, <1>5 DEF DurableAt

(* How each way to leave a step keeps what was captured.                   *)
LEMMA StopDurable ==
  ASSUME Typed, NEW p \in Procs, Stop(p)
  PROVE  DurableAt(p)'
BY StopLeaves, ElsewhereDurable
   DEF BusyAt, CapturedAt, PaidAt, CommittingAt, RemovingAt, CleaningAt, CleanupAt, AddingAt

(* The steps of a release keep DurableInv.                                 *)
LEMMA ReleaseDurable ==
  ASSUME Typed, NEW p \in Procs, NEW stage, NEW next, ReleaseAs(p, stage, next)
  PROVE  DurableAt(p)'
<1>1. pc'[p] = "rel-stage"
  BY JobFunction DEF ReleaseAs, Goto
<1> QED BY <1>1, ElsewhereDurable
        DEF BusyAt, CapturedAt, PaidAt, CommittingAt, RemovingAt, CleaningAt, CleanupAt, AddingAt

(* An error of a commit keeps DurableInv.                                  *)
LEMMA CommitFailsDurable ==
  ASSUME Typed, NEW p \in Procs, CommitFails(p)
  PROVE  DurableAt(p)'
<1>1. pc'[p] = "undo"
  BY JobFunction DEF CommitFails, Goto
<1> QED BY <1>1, ElsewhereDurable
        DEF BusyAt, CapturedAt, PaidAt, CommittingAt, RemovingAt, CleaningAt, CleanupAt, AddingAt

(* An error before the payload keeps DurableInv.                           *)
LEMMA PrepareFailsDurable ==
  ASSUME Typed, NEW p \in Procs, PrepareFails(p)
  PROVE  DurableAt(p)'
<1>1. pc'[p] \in {"rel-stage", "trash-drop-entry"}
  BY JobFunction DEF PrepareFails, ReleaseAs, Goto
<1> QED BY <1>1, ElsewhereDurable
        DEF BusyAt, CapturedAt, PaidAt, CommittingAt, RemovingAt, CleaningAt, CleanupAt, AddingAt

(* An error of a restore keeps DurableInv.                                 *)
LEMMA RestoreFailsDurable ==
  ASSUME Typed, NEW p \in Procs, DurableAt(p), NEW stuck, RestoreFails(p, stuck),
         pc[p] \in AddingAt,
         payload' = payload
  PROVE  DurableAt(p)'
<1>1. pc'[p] = "unrestore" /\ SameTask(p)
  BY JobFunction DEF RestoreFails, Goto, SameTask, Jobs
<1> QED BY <1>1, FlowDurable
        DEF Flows, CapturedAt, PaidAt, CommittingAt, RemovingAt, CleaningAt, CleanupAt

(* A move to the next location keeps DurableInv.                           *)
LEMMA GotoDurable ==
  ASSUME Typed, NEW p \in Procs, DurableAt(p), NEW l, Goto(p, l), job' = job, UNCHANGED <<live,
         payload>>,
         \/ l \notin BusyAt
         \/ pc[p] = "recheck" /\ l = "enter-commit"
         \/ pc[p] = "cleanup-recheck" /\ l = "cleanup-commit"
         \/ pc[p] \in AddingAt /\ l \in AddingAt
  PROVE  DurableAt(p)'
<1>1. pc'[p] = l /\ SameTask(p)
  BY JobFunction DEF Goto, SameTask
<1>2. CASE l \notin BusyAt
  BY <1>1, <1>2, ElsewhereDurable
<1>3. CASE l \in BusyAt
  BY <1>1, <1>3, FlowDurable
     DEF Flows, CapturedAt, PaidAt, CommittingAt, RemovingAt, CleaningAt, CleanupAt, AddingAt
<1> QED BY <1>2, <1>3

(* What a removal takes out of files and rows, and nothing else changes.   *)
LEMMA RemovalShrinks ==
  ASSUME Typed, NEW p \in Procs,
         \/ RemoveFromIndex(p) \/ RemoveFromGlobalState(p) \/ RemoveFile(p) \/ RemoveRows(p)
         \/ RemoveLogs(p)
  PROVE  \A s \in Files \cup Rows : live'[s].own \subseteq live[s].own
<1> SUFFICES ASSUME NEW s \in Files \cup Rows PROVE live'[s].own \subseteq live[s].own
  OBVIOUS
<1>1. s \in Surfaces /\ s \notin Lists /\ "global-state" \in Lists
  BY ListsApart, SurfacesNamed DEF Rows, Databases, Lists
<1>2. Removed(s, job[p].snap[s]).own = {}
  BY <1>1 DEF Removed
<1> USE <1>1, <1>2, ListsApart DEF Typed, DataTyped, Images, TakeOut
<1>3. CASE RemoveFromIndex(p)
  BY <1>3 DEF RemoveFromIndex
<1>4. CASE RemoveFromGlobalState(p)
  BY <1>4 DEF RemoveFromGlobalState
<1>5. CASE RemoveFile(p)
  BY <1>5 DEF RemoveFile
<1>6. CASE RemoveRows(p)
  BY <1>6 DEF RemoveRows
<1>7. CASE RemoveLogs(p)
  BY <1>7 DEF RemoveLogs
<1> QED BY <1>3, <1>4, <1>5, <1>6, <1>7

(* A process that removed a surface goes on to mark it.                    *)
LEMMA RemovedDurable ==
  ASSUME Typed, NEW p \in Procs, DurableAt(p), pc[p] \in RemovingAt,
         pc'[p] \in {"mark", "remove-logs"}, SameTask(p), job'[p].todo = job[p].todo,
         job'[p].cur = job[p].cur, payload' = payload,
         \A s \in Files \cup Rows : live'[s].own \subseteq live[s].own
  PROVE  DurableAt(p)'
BY FlowDurable DEF Flows, CapturedAt, PaidAt, CommittingAt, RemovingAt, CleaningAt, CleanupAt,
                   AddingAt

(* The removal of a surface keeps DurableInv.                              *)
LEMMA RemovalDurable ==
  ASSUME Typed, NEW p \in Procs, DurableAt(p),
         \/ RemoveFromIndex(p) \/ RemoveFromGlobalState(p) \/ RemoveFile(p) \/ RemoveRows(p)
         \/ RemoveLogs(p)
  PROVE  DurableAt(p)'
<1> USE JobFunction
<1>1. \A s \in Files \cup Rows : live'[s].own \subseteq live[s].own
  BY RemovalShrinks
<1>2. /\ pc[p] \in RemovingAt /\ payload' = payload
      /\ \/ CommitFails(p)
         \/ Goto(p, "undo-global-state")
         \/ (Goto(p, "mark") \/ Goto(p, "remove-logs")) /\ job' = job
         \/ Goto(p, "mark") /\ \E d : job' = [job EXCEPT ![p].done = d]
  <2> USE DEF disk, RemovingAt
  <2>1. CASE RemoveFromIndex(p)
    BY <2>1 DEF RemoveFromIndex
  <2>2. CASE RemoveFromGlobalState(p)
    BY <2>2 DEF RemoveFromGlobalState
  <2>3. CASE RemoveFile(p)
    BY <2>3 DEF RemoveFile
  <2>4. CASE RemoveRows(p)
    BY <2>4 DEF RemoveRows
  <2>5. CASE RemoveLogs(p)
    BY <2>5 DEF RemoveLogs
  <2> QED BY <2>1, <2>2, <2>3, <2>4, <2>5
<1>3. CASE CommitFails(p)
  BY <1>3, CommitFailsDurable
<1>4. CASE Goto(p, "undo-global-state")
  <2>1. pc'[p] = "undo-global-state"
    BY <1>4 DEF Goto
  <2> QED BY <2>1, ElsewhereDurable
          DEF BusyAt, CapturedAt, PaidAt, CommittingAt, RemovingAt, CleaningAt, CleanupAt, AddingAt
<1>5. CASE (Goto(p, "mark") \/ Goto(p, "remove-logs")) /\ job' = job
  BY <1>1, <1>2, <1>5, RemovedDurable DEF Goto, SameTask
<1>6. CASE Goto(p, "mark") /\ \E d : job' = [job EXCEPT ![p].done = d]
  BY <1>1, <1>2, <1>6, RemovedDurable DEF Goto, SameTask, Jobs
<1> QED BY <1>2, <1>3, <1>4, <1>5, <1>6

(* A step that leads to one of the other places.                           *)
LEMMA LeavesDurable ==
  ASSUME NEW p \in Procs, NEW l, Goto(p, l), pc \in [Procs -> Locations], l \notin BusyAt
  PROVE  DurableAt(p)'
BY ElsewhereDurable DEF Goto

(* The steps of deleteSessions keep DurableInv.                            *)
LEMMA DeleteDurable ==
  ASSUME Consistent, NEW p \in Procs, DurableAt(p), KindFits(p), job[p].op \in OpIds, DeleteStep(p)
  PROVE  DurableAt(p)'
<1> USE JobFunction, PrepareFailsDurable, CommitFailsDurable, ReleaseDurable, StopDurable,
        GotoDurable, LeavesDurable
    DEF Consistent, disk, data
<1> USE DEF BusyAt, CapturedAt, PaidAt, CommittingAt, RemovingAt, CleaningAt, CleanupAt, AddingAt
<1>1. CASE EnterPrepared(p)
  BY <1>1 DEF EnterPrepared
<1>2. CASE CheckSelection(p)
  BY <1>2 DEF CheckSelection
<1>3. CASE Capture(p)
  <2> DEFINE i == [live EXCEPT !["global-state"] = job[p].seen["global-state"]]
  <2>1. CASE PrepareFails(p)
    BY <2>1
  <2>2. CASE Goto(p, "payload") /\ job' = [job EXCEPT ![p].snap = i]
    <3>1. \A s \in Files \cup Rows : i[s] = live[s]
      BY ListsApart DEF Lists, Rows, Typed, DataTyped, Images, Databases
    <3> HIDE DEF i
    <3>2. job'[p].snap = i /\ pc'[p] = "payload" /\ live' = live
      BY <1>3, <2>2 DEF Capture, Goto, Jobs
    <3>3. ImageFits(p)'
      BY <3>1, <3>2 DEF ImageFits
    <3> QED BY <3>2, <3>3 DEF DurableAt, RemovalFits, PlanFits, MovesFit
  <2> QED BY <1>3, <2>1, <2>2 DEF Capture
<1>4. CASE WritePayload(p)
  <2> DEFINE v == [kind |-> job[p].kind, covers |-> Covered(p), before |-> BeforeImage(p),
                   moves |-> NoRecords, from |-> 0, sealed |-> ~OwnsLock(p)]
  <2>1. v.before = BeforeImage(p)
    OBVIOUS
  <2>2. \/ CommitFails(p)
        \/ /\ payload' = [payload EXCEPT ![job[p].op] = v]
           /\ Goto(p, "recheck") /\ job' = job
    BY <1>4 DEF WritePayload, Effect, Throws
  <2> HIDE DEF v
  <2>3. CASE payload' = [payload EXCEPT ![job[p].op] = v] /\ Goto(p, "recheck") /\ job' = job
    <3>1. /\ payload'[job'[p].op].before = BeforeImage(p) /\ pc'[p] = "recheck" /\ live' = live
          /\ Covered(p)' = Covered(p)
      BY <1>4, <2>1, <2>3 DEF WritePayload, Goto, Typed, Covered
    <3>2. RemovalFits(p)'
      <4>1. \A s \in Covered(p) : BeforeImage(p)[s] = job[p].snap[s]
        BY ListsApart DEF BeforeImage, Covered, Targets
      <4> QED BY <2>3, <3>1, <4>1 DEF RemovalFits
    <3>3. ImageFits(p)'
      BY <1>4, <2>3, <3>1 DEF WritePayload, DurableAt, ImageFits, Deletes
    <3> QED BY <3>1, <3>2, <3>3 DEF DurableAt, PlanFits, MovesFit
  <2> QED BY <2>2, <2>3
<1>5. CASE Recheck(p)
  BY <1>5 DEF Recheck
<1>6. CASE EnterCommitting(p)
  <2>1. /\ pc[p] = "enter-commit" /\ UNCHANGED <<live, payload>>
        /\ \/ CommitFails(p)
           \/ Goto(p, "commit") /\ job' = [job EXCEPT ![p].todo = CommitPlan(p)]
    BY <1>6 DEF EnterCommitting
  <2>2. CASE Goto(p, "commit") /\ job' = [job EXCEPT ![p].todo = CommitPlan(p)]
    <3>1. SameTask(p) /\ job'[p].todo = CommitPlan(p) /\ pc'[p] = "commit"
      BY <2>2 DEF Goto, SameTask, Jobs
    <3>2. ~Cleans(p)
      BY <2>1 DEF KindFits, DeleteAt, Cleans
    <3>3. Flows(p)
      BY <2>1, <3>1, <3>2 DEF Flows, Planned, CommitPlan
    <3> QED BY <2>1, <3>1, <3>3, FlowDurable
  <2> QED BY <2>1, <2>2
<1>7. CASE StartSurface(p)
  <2>1. /\ pc[p] = "commit" /\ UNCHANGED <<live, payload>>
        /\ \/ Goto(p, "undo")
           \/ /\ Goto(p, "remove")
              /\ \E s \in job[p].todo : \E m, d :
                   job' = [job EXCEPT ![p] = [job[p] EXCEPT !.marks = m, !.done = d, !.cur = {s},
                                                           !.todo = job[p].todo]]
    BY <1>7 DEF StartSurface, First, Throws
  <2>2. CASE Goto(p, "remove") /\ pc'[p] # "undo"
    <3> PICK s \in job[p].todo : \E m, d :
          job' = [job EXCEPT ![p] = [job[p] EXCEPT !.marks = m, !.done = d, !.cur = {s},
                                                  !.todo = job[p].todo]]
      BY <2>1, <2>2 DEF Goto
    <3> PICK m, d :
          job' = [job EXCEPT ![p] = [job[p] EXCEPT !.marks = m, !.done = d, !.cur = {s},
                                                  !.todo = job[p].todo]]
      OBVIOUS
    <3> DEFINE j == [job[p] EXCEPT !.marks = m, !.done = d, !.cur = {s}, !.todo = job[p].todo]
    <3>0. job'[p] = j
      OBVIOUS
    <3>1. SameTask(p) /\ job'[p].todo = job[p].todo /\ job'[p].cur \subseteq job[p].todo
      BY <3>0 DEF SameTask, Jobs
    <3>2. Flows(p)
      BY <2>1, <2>2, <3>1 DEF Flows, Goto
    <3> QED BY <2>1, <3>1, <3>2, FlowDurable
  <2> QED BY <2>1, <2>2 DEF Goto
<1>8. CASE MarkSurface(p)
  <2>1. /\ pc[p] = "mark" /\ UNCHANGED <<live, payload>>
        /\ \/ Goto(p, "undo")
           \/ /\ Goto(p, "commit")
              /\ \E m : job' = [job EXCEPT ![p] = [job[p] EXCEPT !.marks = m, !.cur = {},
                                                      !.todo = job[p].todo \ job[p].cur]]
    BY <1>8 DEF MarkSurface, Throws
  <2>2. CASE Goto(p, "commit") /\ pc'[p] # "undo"
    <3> PICK m : job' = [job EXCEPT ![p] = [job[p] EXCEPT !.marks = m, !.cur = {},
                                                         !.todo = job[p].todo \ job[p].cur]]
      BY <2>1, <2>2 DEF Goto
    <3> DEFINE j == [job[p] EXCEPT !.marks = m, !.cur = {}, !.todo = job[p].todo \ job[p].cur]
    <3>0. job'[p] = j
      OBVIOUS
    <3>1. SameTask(p) /\ job'[p].todo \subseteq job[p].todo
      BY <3>0 DEF SameTask, Jobs
    <3>2. Flows(p)
      BY <2>1, <2>2, <3>1 DEF Flows, Goto
    <3> QED BY <2>1, <3>1, <3>2, FlowDurable
  <2> QED BY <2>1, <2>2 DEF Goto
<1>9. CASE EnterVerifying(p)
  BY <1>9 DEF EnterVerifying
<1>10. CASE UndoGlobalState(p)
  BY <1>10 DEF UndoGlobalState
<1> QED BY <1>1, <1>2, <1>3, <1>4, <1>5, <1>6, <1>7, <1>8, <1>9, <1>10, RemovalDurable
        DEF DeleteStep

(* The rollback of a delete keeps DurableInv.                              *)
LEMMA UndoDurable ==
  ASSUME Typed, NEW p \in Procs, UndoStep(p)
  PROVE  DurableAt(p)'
<1>1. pc'[p] \in {"undo", "rel-stage", "trash-drop-entry"}
  BY JobFunction DEF UndoStep, UndoSurface, UndoEnds, ReleaseAs, Goto
<1> QED BY <1>1, ElsewhereDurable
        DEF BusyAt, CapturedAt, PaidAt, CommittingAt, RemovingAt, CleaningAt, CleanupAt, AddingAt

(* The steps of a move to the trash keep DurableInv.                       *)
LEMMA TrashDurable ==
  ASSUME Typed, NEW p \in Procs, TrashStep(p)
  PROVE  DurableAt(p)'
<1>1. pc'[p] \notin BusyAt
  <2> USE JobFunction DEF ReleaseAs, Goto, DropTmp, KeepEntry, BusyAt, CapturedAt, PaidAt,
          CommittingAt, RemovingAt, CleaningAt, CleanupAt, AddingAt
  <2>1. CASE WriteTrashPayload(p)
    BY <2>1 DEF WriteTrashPayload
  <2>2. CASE MakeTmp(p)
    BY <2>2 DEF MakeTmp
  <2>3. CASE BuildBundle(p)
    BY <2>3 DEF BuildBundle
  <2>4. CASE CommitTrashEntry(p)
    BY <2>4 DEF CommitTrashEntry
  <2>5. CASE MarkTrashEntry(p)
    BY <2>5 DEF MarkTrashEntry
  <2>6. CASE DropTrash(p)
    BY <2>6 DEF DropTrash
  <2>7. CASE TearEntry(p)
    BY <2>7 DEF TearEntry
  <2> QED BY <2>1, <2>2, <2>3, <2>4, <2>5, <2>6, <2>7 DEF TrashStep
<1> QED BY <1>1, ElsewhereDurable

(* The steps of an index cleanup keep DurableInv.                          *)
LEMMA CleanupDurable ==
  ASSUME Consistent, NEW p \in Procs, DurableAt(p), KindFits(p), job[p].op \in OpIds,
         CleanupStep(p), ~CheckIndexes(p)
  PROVE  DurableAt(p)'
<1> USE JobFunction, CommitFailsDurable, ReleaseDurable, GotoDurable DEF Consistent, disk, data
<1> USE DEF BusyAt, CapturedAt, PaidAt, CommittingAt, RemovingAt, CleaningAt, CleanupAt, AddingAt
<1>1. CASE WriteCleanupPayload(p)
  <2> DEFINE v == CleanupPayload(p)
  <2>1. v.before = [s \in Surfaces |-> IF s \in Indexes THEN job[p].seen[s] ELSE Blank[s]]
    BY DEF CleanupPayload
  <2>2. \/ CommitFails(p)
        \/ /\ payload' = [payload EXCEPT ![job[p].op] = v]
           /\ Goto(p, "cleanup-recheck") /\ job' = [job EXCEPT ![p].snap = job[p].seen]
    BY <1>1 DEF WriteCleanupPayload, Effect, Throws
  <2> HIDE DEF v
  <2>3. CASE /\ payload' = [payload EXCEPT ![job[p].op] = v]
             /\ Goto(p, "cleanup-recheck") /\ job' = [job EXCEPT ![p].snap = job[p].seen]
    <3>1. /\ job'[p].op = job[p].op /\ job'[p].snap = job[p].seen /\ pc'[p] = "cleanup-recheck"
          /\ payload'[job[p].op] = v
      BY <2>3 DEF Goto, Jobs, Typed
    <3>2. \A s \in Indexes : payload'[job'[p].op].before[s] = job'[p].snap[s]
      BY <2>1, <3>1, ListsApart
    <3> QED BY <3>1, <3>2 DEF DurableAt, ImageFits, RemovalFits, PlanFits, MovesFit
  <2> QED BY <2>2, <2>3
<1>2. CASE RecheckCleanup(p)
  BY <1>2 DEF RecheckCleanup
<1>3. CASE CommitCleanup(p)
  <2>1. /\ pc[p] = "cleanup-commit" /\ UNCHANGED <<live, payload>>
        /\ CommitFails(p) \/ (Goto(p, "commit") /\ job' = [job EXCEPT ![p].todo = Indexes])
    BY <1>3 DEF CommitCleanup
  <2>2. CASE Goto(p, "commit") /\ job' = [job EXCEPT ![p].todo = Indexes]
    <3>1. SameTask(p) /\ job'[p].todo = Indexes /\ pc'[p] = "commit"
      BY <2>2 DEF Goto, SameTask, Jobs
    <3>2. Cleans(p) /\ ~Deletes(p)
      BY <2>1 DEF KindFits, CleanupAt, Cleans, Deletes
    <3>3. Flows(p)
      BY <2>1, <3>1, <3>2 DEF Flows, Planned
    <3> QED BY <2>1, <3>1, <3>3, FlowDurable
  <2> QED BY <2>1, <2>2
<1>4. CASE StartIndex(p)
  <2>1. /\ pc[p] = "commit" /\ UNCHANGED <<live, payload>>
        /\ \/ Goto(p, "undo")
           \/ /\ Goto(p, "remove")
              /\ \E s \in job[p].todo : \E m :
                   job' = [job EXCEPT ![p] = [job[p] EXCEPT !.marks = m, !.cur = {s},
                                                           !.todo = job[p].todo]]
    BY <1>4 DEF StartIndex, First, Throws
  <2>2. CASE Goto(p, "remove") /\ pc'[p] # "undo"
    <3> PICK s \in job[p].todo : \E m :
          job' = [job EXCEPT ![p] = [job[p] EXCEPT !.marks = m, !.cur = {s}, !.todo = job[p].todo]]
      BY <2>1, <2>2 DEF Goto
    <3> PICK m :
          job' = [job EXCEPT ![p] = [job[p] EXCEPT !.marks = m, !.cur = {s}, !.todo = job[p].todo]]
      OBVIOUS
    <3> DEFINE j == [job[p] EXCEPT !.marks = m, !.cur = {s}, !.todo = job[p].todo]
    <3>0. job'[p] = j
      OBVIOUS
    <3>1. SameTask(p) /\ job'[p].todo = job[p].todo /\ job'[p].cur \subseteq job[p].todo
      BY <3>0 DEF SameTask, Jobs
    <3>2. Flows(p)
      BY <2>1, <2>2, <3>1 DEF Flows, Goto
    <3> QED BY <2>1, <3>1, <3>2, FlowDurable
  <2> QED BY <2>1, <2>2, LeavesDurable DEF Goto
<1>5. CASE VerifyCleanup(p)
  BY <1>5 DEF VerifyCleanup
<1> QED BY <1>1, <1>2, <1>3, <1>4, <1>5 DEF CleanupStep

(* Finding the entry of a restore or a purge keeps DurableInv.             *)
LEMMA EntryDurable ==
  ASSUME Consistent, NEW p \in Procs, DurableAt(p), EntryStep(p),
         ~(ReadForRestore(p) \/ ReadForPurge(p) \/ EntryNotFound(p))
  PROVE  DurableAt(p)'
<1> USE JobFunction, ReleaseDurable, GotoDurable DEF Consistent, disk, data, Refuse
<1> USE DEF BusyAt, CapturedAt, PaidAt, CommittingAt, RemovingAt, CleaningAt, CleanupAt, AddingAt
<1>1. CASE PrepareEntry(p)
  BY <1>1 DEF PrepareEntry
<1>2. CASE CheckEntry(p)
  BY <1>2 DEF CheckEntry
<1>3. CASE CommitEntry(p)
  BY <1>3 DEF CommitEntry
<1> QED BY <1>1, <1>2, <1>3 DEF EntryStep

(* A restore, a purge or a recovery that goes on with the same bundle.     *)
LEMMA AddingDurable ==
  ASSUME NEW p \in Procs, DurableAt(p), SameTask(p), payload' = payload,
         pc[p] \in AddingAt \cup {"rec"}, pc'[p] = "rec" => pc[p] = "rec",
         pc'[p] \in AddingAt => pc[p] \in AddingAt, pc'[p] \in AddingAt \cup {"rec"}
  PROVE  DurableAt(p)'
BY FlowDurable
   DEF Flows, CapturedAt, PaidAt, CommittingAt, RemovingAt, CleaningAt, CleanupAt, AddingAt

(* The steps of a restore keep DurableInv.                                 *)
LEMMA RestoreDurable ==
  ASSUME Consistent, NEW p \in Procs, DurableAt(p), job[p].op \in OpIds, RestoreStep(p)
  PROVE  DurableAt(p)'
<1> USE JobFunction, ReleaseDurable, GotoDurable, LeavesDurable, RestoreFailsDurable
    DEF Consistent, disk, data, Refuse
<1> USE DEF BusyAt, CapturedAt, PaidAt, CommittingAt, RemovingAt, CleaningAt, CleanupAt, AddingAt
<1>1. CASE CheckConflicts(p)
  BY <1>1 DEF CheckConflicts
<1>2. CASE CaptureRestore(p)
  BY <1>2 DEF CaptureRestore
<1>3. CASE WriteRestorePayload(p)
  <2> DEFINE b == [s \in Surfaces |-> IF s \in job[p].todo \ Rows THEN job[p].snap[s] ELSE Blank[s]]
             v == [kind |-> job[p].kind, covers |-> job[p].todo, before |-> b, moves |-> Moves(p),
                   from |-> job[p].from, sealed |-> FALSE]
  <2>1. v.moves = job[p].bundle
    BY DEF Moves
  <2>2. \/ Refuse(p)
        \/ /\ payload' = [payload EXCEPT ![job[p].op] = v]
           /\ Goto(p, "restore-commit") /\ job' = job
    BY <1>3 DEF WriteRestorePayload, Effect, Throws
  <2> HIDE DEF v
  <2>3. CASE payload' = [payload EXCEPT ![job[p].op] = v] /\ Goto(p, "restore-commit") /\ job' = job
    <3>1. payload'[job'[p].op].moves = job'[p].bundle /\ pc'[p] = "restore-commit"
      BY <2>1, <2>3 DEF Goto, Typed
    <3> QED BY <3>1 DEF DurableAt, ImageFits, RemovalFits, PlanFits, MovesFit
  <2> QED BY <2>2, <2>3
<1>4. CASE StartRestore(p)
  <2>1. /\ pc[p] = "restore" /\ UNCHANGED <<live, payload>>
        /\ Goto(p, "unrestore") \/ Goto(p, "put-back")
        /\ \E m, c, t : job' = [job EXCEPT ![p] =
                                  [job[p] EXCEPT !.marks = m, !.cur = c, !.todo = t]]
    BY <1>4 DEF StartRestore
  <2> PICK m, c, t : job' = [job EXCEPT ![p] = [job[p] EXCEPT !.marks = m, !.cur = c, !.todo = t]]
    BY <2>1
  <2> DEFINE j == [job[p] EXCEPT !.marks = m, !.cur = c, !.todo = t]
  <2>2. job'[p] = j
    OBVIOUS
  <2>3. SameTask(p)
    BY <2>2 DEF SameTask, Jobs
  <2> QED BY <2>1, <2>3, AddingDurable DEF Goto
<1>5. CASE RestoreText(p)
  <2>1. /\ pc[p] = "put-back" /\ payload' = payload
        /\ \/ Goto(p, "restore-mark") /\ job' = job
           \/ Goto(p, "restore-reread") /\ job' = job
           \/ RestoreFails(p, {})
    BY <1>5 DEF RestoreText
  <2>2. CASE Goto(p, "restore-mark") /\ job' = job
    BY <2>1, <2>2, AddingDurable DEF SameTask, Goto
  <2>3. CASE Goto(p, "restore-reread") /\ job' = job
    BY <2>1, <2>3, AddingDurable DEF SameTask, Goto
  <2>4. CASE RestoreFails(p, {})
    BY <2>1, <2>4
  <2> QED BY <2>1, <2>2, <2>3, <2>4
<1>6. CASE MarkRestored(p)
  <2>1. /\ pc[p] = "restore-mark" /\ UNCHANGED <<live, payload>>
        /\ Goto(p, "unrestore") \/ Goto(p, "restore")
        /\ \E m, t : job' = [job EXCEPT ![p] =
                               [job[p] EXCEPT !.marks = m, !.cur = {}, !.todo = t]]
    BY <1>6 DEF MarkRestored
  <2> PICK m, t : job' = [job EXCEPT ![p] = [job[p] EXCEPT !.marks = m, !.cur = {}, !.todo = t]]
    BY <2>1
  <2> DEFINE j == [job[p] EXCEPT !.marks = m, !.cur = {}, !.todo = t]
  <2>2. job'[p] = j
    OBVIOUS
  <2>3. SameTask(p)
    BY <2>2 DEF SameTask, Jobs
  <2> QED BY <2>1, <2>3, AddingDurable DEF Goto
<1>7. CASE RestoreRows(p)
  <2>1. /\ pc[p] = "put-back" /\ payload' = payload
        /\ \/ RestoreFails(p, {})
           \/ pc' = pc /\ \E c : job' = [job EXCEPT ![p].cur = c]
           \/ job' = job /\ (Goto(p, "unrestore-goals") \/ Goto(p, "restored"))
    BY <1>7 DEF RestoreRows
  <2>2. CASE pc' = pc /\ \E c : job' = [job EXCEPT ![p].cur = c]
    <3>1. SameTask(p)
      BY <2>2 DEF SameTask, Jobs
    <3> QED BY <2>1, <2>2, <3>1, AddingDurable
  <2>3. CASE job' = job /\ Goto(p, "unrestore-goals")
    BY <2>1, <2>3, AddingDurable DEF SameTask, Goto
  <2> QED BY <2>1, <2>2, <2>3
<1>8. CASE RemoveGoals(p)
  BY <1>8 DEF RemoveGoals
<1>9. CASE UndoRestore(p)
  <2>1. /\ pc[p] = "unrestore" /\ pc' = pc /\ payload' = payload
        /\ \E c, t : job' = [job EXCEPT ![p] = [job[p] EXCEPT !.todo = t, !.cur = c]]
    BY <1>9 DEF UndoRestore
  <2> PICK c, t : job' = [job EXCEPT ![p] = [job[p] EXCEPT !.todo = t, !.cur = c]]
    BY <2>1
  <2> DEFINE j == [job[p] EXCEPT !.todo = t, !.cur = c]
  <2>2. job'[p] = j
    OBVIOUS
  <2>3. SameTask(p)
    BY <2>2 DEF SameTask, Jobs
  <2> QED BY <2>1, <2>3, AddingDurable
<1>10. CASE UndoRestoreEnds(p)
  BY <1>10 DEF UndoRestoreEnds
<1>11. CASE MarkRows(p)
  BY <1>11 DEF MarkRows, ReleaseMarked
<1>12. CASE VerifyRestore(p)
  BY <1>12 DEF VerifyRestore
<1>13. CASE RereadWritten(p)
  <2>1. /\ pc[p] = "restore-reread" /\ payload' = payload /\ SameTask(p)
        /\ pc'[p] \in {"restore-mark", "unrestore"}
    BY <1>13, Rereads DEF SameTask
  <2> QED BY <2>1, AddingDurable
<1> QED BY <1>1, <1>2, <1>3, <1>4, <1>5, <1>6, <1>7, <1>8, <1>9, <1>10, <1>11, <1>12, <1>13
        DEF RestoreStep

(* The steps of a purge keep DurableInv.                                   *)
LEMMA PurgeDurable ==
  ASSUME Consistent, NEW p \in Procs, DurableAt(p), job[p].op \in OpIds, PurgeStep(p)
  PROVE  DurableAt(p)'
<1> USE JobFunction, ReleaseDurable, GotoDurable, LeavesDurable
    DEF Consistent, disk, data, Refuse, PurgeFails
<1> USE DEF BusyAt, CapturedAt, PaidAt, CommittingAt, RemovingAt, CleaningAt, CleanupAt, AddingAt
<1>1. CASE WritePurgePayload(p)
  <2> DEFINE v == [kind |-> job[p].kind, covers |-> job[p].todo, before |-> Blank,
                   moves |-> job[p].bundle, from |-> job[p].from, sealed |-> TRUE]
  <2>1. v.moves = job[p].bundle
    OBVIOUS
  <2>2. \/ Refuse(p)
        \/ /\ payload' = [payload EXCEPT ![job[p].op] = v]
           /\ Goto(p, "purge-recheck") /\ job' = job
    BY <1>1 DEF WritePurgePayload, Effect, Throws
  <2> HIDE DEF v
  <2>3. CASE payload' = [payload EXCEPT ![job[p].op] = v] /\ Goto(p, "purge-recheck") /\ job' = job
    <3>1. payload'[job'[p].op].moves = job'[p].bundle /\ pc'[p] = "purge-recheck"
      BY <2>1, <2>3 DEF Goto, Typed
    <3> QED BY <3>1 DEF DurableAt, ImageFits, RemovalFits, PlanFits, MovesFit
  <2> QED BY <2>2, <2>3
<1>2. CASE RecheckPurge(p)
  BY <1>2 DEF RecheckPurge
<1>3. CASE CheckpointPurge(p)
  <2>1. /\ UNCHANGED <<live, payload>>
        /\ \/ ReleaseMarked(p, PurgeMarks(p), "recovery_required", "ignore")
           \/ /\ Goto(p, "purge-logs") /\ pc[p] = "purge-start"
              /\ \E m : job' = [job EXCEPT ![p].marks = m]
           \/ \E l \in {"purge-quarantine", "purge-remove", "purge-verify"} : Goto(p, l)
    BY <1>3 DEF CheckpointPurge
  <2>2. CASE /\ Goto(p, "purge-logs") /\ pc[p] = "purge-start"
             /\ \E m : job' = [job EXCEPT ![p].marks = m]
    <3>1. SameTask(p) /\ pc'[p] = "purge-logs"
      BY <2>2 DEF SameTask, Goto, Jobs
    <3> QED BY <2>1, <2>2, <3>1, AddingDurable
  <2>3. CASE ReleaseMarked(p, PurgeMarks(p), "recovery_required", "ignore")
    BY <2>3, MarkedLeaves, ElsewhereDurable
  <2> QED BY <2>1, <2>2, <2>3
<1>4. CASE PurgeLogs(p)
  BY <1>4 DEF PurgeLogs
<1>5. CASE QuarantineEntry(p)
  BY <1>5 DEF QuarantineEntry
<1>6. CASE RemoveQuarantine(p)
  BY <1>6 DEF RemoveQuarantine
<1>7. CASE VerifyPurge(p)
  BY <1>7 DEF VerifyPurge
<1> QED BY <1>1, <1>2, <1>3, <1>4, <1>5, <1>6, <1>7 DEF PurgeStep

(* The steps of a recovery keep DurableInv.                                *)
LEMMA RecoveryDurable ==
  ASSUME Consistent, NEW p \in Procs, DurableAt(p), RecoveryStep(p), ~BeginRecovery(p)
  PROVE  DurableAt(p)'
<1> USE JobFunction, StopDurable, GotoDurable, LeavesDurable DEF Consistent, disk, data
<1> USE DEF BusyAt, CapturedAt, PaidAt, CommittingAt, RemovingAt, CleaningAt, CleanupAt, AddingAt
<1>1. CASE RecoverSurface(p)
  <2>1. /\ pc[p] = "rec" /\ payload' = payload
        /\ Stop(p) \/ (pc' = pc /\ \E t : job' = [job EXCEPT ![p].todo = t])
    BY <1>1 DEF RecoverSurface
  <2>2. CASE pc' = pc /\ \E t : job' = [job EXCEPT ![p].todo = t]
    <3>1. SameTask(p)
      BY <2>2 DEF SameTask, Jobs
    <3> QED BY <2>1, <2>2, <3>1, AddingDurable
  <2> QED BY <2>1, <2>2
<1>2. CASE SurfacesRecovered(p)
  BY <1>2 DEF SurfacesRecovered
<1>3. CASE RecoverQuarantine(p)
  <2>1. Stop(p) \/ pc'[p] = "rec-trash"
    BY <1>3 DEF RecoverQuarantine
  <2> QED BY <2>1, ElsewhereDurable
<1>4. CASE RecoverTrash(p)
  BY <1>4 DEF RecoverTrash
<1>5. CASE RefuseTrash(p)
  BY <1>5 DEF RefuseTrash
<1>6. CASE FinalizeStage(p)
  BY <1>6 DEF FinalizeStage
<1>7. CASE FinalizePayload(p)
  BY <1>7 DEF FinalizePayload
<1>8. CASE FinalizeUnlock(p)
  BY <1>8 DEF FinalizeUnlock
<1> QED BY <1>1, <1>2, <1>3, <1>4, <1>5, <1>6, <1>7, <1>8 DEF RecoveryStep

(* A recovery takes the payload over as it is.                             *)
LEMMA BeginDurable ==
  ASSUME Typed, NEW p \in Procs, BeginRecovery(p)
  PROVE  DurableAt(p)'
<1> PICK o \in OpIds : o = lock.op
  BY DEF BeginRecovery, Readable, Typed, LockTyped, OpIds
<1>1. /\ pc'[p] \in {"rec", "fin-stage"} /\ payload' = payload
      /\ job'[p].op = o /\ job'[p].snap = payload[o].before
      /\ job'[p].bundle \in {NoRecords, payload[o].moves}
  BY JobFunction DEF BeginRecovery, Goto, NoJob, disk
<1>2. \A s \in Surfaces : job'[p].bundle[s] \subseteq payload[o].moves[s]
  BY <1>1 DEF NoRecords
<1> QED BY <1>1, <1>2
        DEF DurableAt, ImageFits, RemovalFits, PlanFits, MovesFit, CapturedAt, PaidAt,
            CommittingAt, RemovingAt, CleaningAt, CleanupAt, AddingAt

(* Nothing is asked of a process before it has taken the lock or while it  *)
(* releases it.                                                            *)
LEMMA OutsideDurable ==
  ASSUME Consistent, NEW p \in Procs,
         \/ AcquireStep(p) \/ ReleaseStep(p) \/ CheckIndexes(p) \/ ReadForRestore(p)
         \/ ReadForPurge(p) \/ EntryNotFound(p) \/ Crash(p)
  PROVE  OthersStay(p) /\ DurableAt(p)'
<1>1. OthersStay(p)
  BY JobFunction, StopLeaves
     DEF Consistent, OthersStay, AcquireStep, ScanRoot, CreateLock, LockIsTaken, WriteLock,
         CreateJournal, ReleaseStep, ReleaseStage, ReleaseCheck, ReleasePayload, ReleaseUnlock,
         ReleaseFails, ReleaseAs, CheckIndexes, ReadForRestore, ReadForPurge, EntryNotFound, Crash,
         Goto
<1>2. pc'[p] \in {"idle", "scanned", "checked", "lock-created", "lock-written", "acquired", "rel-stage",
                 "rel-check", "rel-payload", "rel-unlock", "undo"}
  BY JobFunction, StopLeaves
     DEF Consistent, AcquireStep, ScanRoot, CreateLock, LockIsTaken, WriteLock, CreateJournal,
         ReleaseStep, ReleaseStage, ReleaseCheck, ReleasePayload, ReleaseUnlock, ReleaseFails,
         ReleaseAs, CheckIndexes, ReadForRestore, ReadForPurge, EntryNotFound, Crash, Goto
<1> QED BY <1>1, <1>2, ElsewhereDurable
        DEF BusyAt, CapturedAt, PaidAt, CommittingAt, RemovingAt, CleaningAt, CleanupAt, AddingAt

(* What Codex writes, and kills, keep DurableInv.                          *)
LEMMA OutsideKeeps ==
  ASSUME ReleaseSucceeds, Consistent, DurableInv, NEW p \in Procs,
         \/ AcquireStep(p) \/ ReleaseStep(p) \/ BeginRecovery(p) \/ CheckIndexes(p)
         \/ ReadForRestore(p) \/ ReadForPurge(p) \/ EntryNotFound(p) \/ Crash(p),
         OthersStay(p), DurableAt(p)'
  PROVE  DurableInv'
<1>1. live' = live
  BY DEF AcquireStep, ScanRoot, CreateLock, LockIsTaken, WriteLock, CreateJournal, ReleaseStep,
         ReleaseStage, ReleaseCheck, ReleasePayload, ReleaseUnlock, BeginRecovery, CheckIndexes,
         ReadForRestore, ReadForPurge, EntryNotFound, Crash, data
<1>2. CASE ReleasePayload(p)
  <2>1. Working(p)
    BY <1>2 DEF ReleasePayload, Working
  <2> QED BY <2>1, OneWorker, StepDurable DEF Consistent
<1>3. CASE ~ReleasePayload(p)
  <2>1. payload' = payload
    BY <1>3
       DEF AcquireStep, ScanRoot, CreateLock, LockIsTaken, WriteLock, CreateJournal, ReleaseStep,
           ReleaseStage, ReleaseCheck, ReleaseUnlock, BeginRecovery, CheckIndexes, ReadForRestore,
           ReadForPurge, EntryNotFound, Crash, disk
  <2>2. ASSUME NEW q \in Procs \ {p} PROVE DurableAt(q)'
    BY <1>1, <2>1
       DEF DurableInv, OthersStay, DurableAt, ImageFits, RemovalFits, PlanFits, MovesFit, Deletes,
           Cleans, Covered, Planned
  <2> QED BY <2>2 DEF DurableInv
<1> QED BY <1>2, <1>3

(* Every step keeps DurableInv.                                            *)
LEMMA NextDurable ==
  ASSUME ReleaseSucceeds, SupervisedRecovery
  PROVE  Consistent /\ DurableInv /\ [Next]_vars => DurableInv'
<1> SUFFICES ASSUME Consistent, DurableInv, [Next]_vars PROVE DurableInv'
  OBVIOUS
<1>1. ASSUME NEW p \in Procs, OperationStep(p) \/ Crash(p) PROVE DurableInv'
  <2>1. CASE \/ AcquireStep(p) \/ ReleaseStep(p) \/ CheckIndexes(p) \/ ReadForRestore(p)
             \/ ReadForPurge(p) \/ EntryNotFound(p) \/ Crash(p)
    BY <2>1, OutsideDurable, OutsideKeeps
  <2>2. CASE BeginRecovery(p)
    <3>1. OthersStay(p)
      BY <2>2, JobFunction DEF BeginRecovery, Goto, OthersStay, Consistent
    <3> QED BY <2>2, <3>1, BeginDurable, OutsideKeeps DEF Consistent
  <2>3. CASE FinalizeUnlock(p)
    <3>1. Working(p) /\ OthersStay(p) /\ DurableAt(p)'
      BY <2>3, StopLeaves, StopDurable DEF FinalizeUnlock, Consistent, Working
    <3> QED BY <3>1, OneWorker, StepDurable DEF Consistent
  <2> DEFINE Owner ==
        \/ DeleteStep(p) \/ UndoStep(p) \/ TrashStep(p) \/ RestoreStep(p) \/ PurgeStep(p)
        \/ CleanupStep(p) /\ ~CheckIndexes(p)
        \/ EntryStep(p) /\ ~(ReadForRestore(p) \/ ReadForPurge(p) \/ EntryNotFound(p))
        \/ RecoveryStep(p) /\ ~BeginRecovery(p) /\ ~FinalizeUnlock(p)
  <2>4. CASE Owner
    <3> USE DEF Consistent
    <3>1. Stays(p) /\ Holding(p)
      BY <2>4, DeleteStays, UndoStays, TrashStays, RestoreStays, PurgeStays, CleanupStays,
         EntryStays, RecoveryStays
    <3>2. /\ Working(p) /\ KindFits(p) /\ job[p].op \in OpIds /\ DurableAt(p)
          /\ \A q \in Procs \ {p} : ~Working(q)
      BY <3>1, WorkerFits, OneWorker DEF Holding, Working, Fits, DurableInv
    <3>3. DurableAt(p)'
      BY <2>4, <3>2, DeleteDurable, UndoDurable, TrashDurable, RestoreDurable, PurgeDurable,
         CleanupDurable, EntryDurable, RecoveryDurable
    <3> QED BY <3>1, <3>2, <3>3, StepDurable DEF Stays
  <2> QED BY <1>1, <2>1, <2>2, <2>3, <2>4 DEF OperationStep
<1>2. CASE CodexStep
  <2> PICK s \in Surfaces : CodexAdds(s) \/ CodexChangesOthers(s)
    BY <1>2 DEF CodexStep
  <2>1. QuietRecords => \A t \in Files \cup Rows : live'[t].own = live[t].own
    <3>1. Files \cup Rows \subseteq Surfaces
      BY SurfacesNamed DEF Rows
    <3> QED BY <3>1 DEF QuietRecords, CodexAdds, CodexChangesOthers, Consistent, Typed, DataTyped,
                        Images, Value
  <2>2. UNCHANGED <<payload, pc, job>>
    BY DEF CodexAdds, CodexChangesOthers, disk
  <2> QED BY <2>1, <2>2
          DEF DurableInv, DurableAt, ImageFits, RemovalFits, PlanFits, MovesFit, Deletes, Cleans,
              Covered, Planned
<1>3. CASE UNCHANGED vars
  BY <1>3
     DEF vars, DurableInv, DurableAt, ImageFits, RemovalFits, PlanFits, MovesFit, Deletes, Cleans,
         Covered, Planned
<1> QED BY <1>1, <1>2, <1>3 DEF Next

(* A removal takes out what it captured, and the payload holds all of it.  *)
LEMMA RemovalPaid ==
  ASSUME QuietRecords, Consistent, NEW p \in Procs, DurableAt(p), KindFits(p),
         \/ RemoveFromIndex(p) \/ RemoveFromGlobalState(p) \/ RemoveFile(p) \/ RemoveRows(p)
         \/ RemoveLogs(p),
         NEW s \in Surfaces, NEW r \in live[s].own, r \notin live'[s].own
  PROVE  r \in payload[job[p].op].before[s].own
<1> USE DEF Consistent, Typed, DataTyped, Images
<1>1. live'[s] # live[s]
  OBVIOUS
<1>2. \/ /\ s \in job[p].cur /\ pc[p] = "remove"
         /\ StillCaptured(p, s) \/ s \in Files \cup Databases
      \/ s = "logs" /\ pc[p] = "remove-logs" /\ StillCaptured(p, s)
  <2>1. CASE RemoveFromIndex(p)
    <3> PICK t \in job[p].cur \cap Indexes : live' = live \/ (TakeOut(p, t) /\ StillCaptured(p, t))
      BY <2>1 DEF RemoveFromIndex
    <3>1. s = t
      BY <1>1 DEF TakeOut
    <3> QED BY <1>1, <2>1, <3>1 DEF RemoveFromIndex
  <2>2. CASE RemoveFromGlobalState(p)
    <3>1. /\ pc[p] = "remove" /\ "global-state" \in job[p].cur
          /\ live' = live \/ (TakeOut(p, "global-state") /\ StillCaptured(p, "global-state"))
      BY <2>2 DEF RemoveFromGlobalState
    <3>2. s = "global-state"
      BY <1>1, <3>1 DEF TakeOut
    <3> QED BY <1>1, <3>1, <3>2
  <2>3. CASE RemoveFile(p)
    <3> PICK t \in job[p].cur \cap Files : live' = live \/ TakeOut(p, t)
      BY <2>3 DEF RemoveFile
    <3>1. s = t
      BY <1>1 DEF TakeOut
    <3> QED BY <2>3, <3>1 DEF RemoveFile
  <2>4. CASE RemoveRows(p)
    <3> PICK t \in job[p].cur \cap Databases : live' = live \/ TakeOut(p, t)
      BY <2>4 DEF RemoveRows
    <3>1. s = t
      BY <1>1 DEF TakeOut
    <3> QED BY <2>4, <3>1 DEF RemoveRows
  <2>5. CASE RemoveLogs(p)
    BY <1>1, <2>5 DEF RemoveLogs, TakeOut
  <2> QED BY <2>1, <2>2, <2>3, <2>4, <2>5
<1>3. CASE pc[p] = "remove" /\ s \in job[p].cur /\ Cleans(p)
  <2>1. s \in Indexes /\ payload[job[p].op].before[s] = job[p].snap[s]
    BY <1>3
       DEF DurableAt, PlanFits, RemovalFits, Planned, RemovingAt, CommittingAt, CleaningAt
  <2>2. StillCaptured(p, s)
    BY <1>2, <1>3, <2>1, ListsApart
  <2> QED BY <2>1, <2>2 DEF StillCaptured
<1>4. CASE pc[p] = "remove" /\ s \in job[p].cur /\ ~Cleans(p)
  <2>1. Deletes(p) /\ s \in Covered(p) \ {"logs"}
    BY <1>4 DEF KindFits, CommitAt, Deletes, Cleans, DurableAt, PlanFits, Planned, RemovingAt
  <2>2. payload[job[p].op].before[s] = job[p].snap[s]
    BY <1>4, <2>1 DEF DurableAt, RemovalFits, PaidAt, CommittingAt, RemovingAt
  <2>3. live[s].own \subseteq job[p].snap[s].own
    <3>1. CASE StillCaptured(p, s)
      BY <3>1 DEF StillCaptured
    <3>2. CASE s \in Files \cup Rows
      BY <1>4, <2>1, <3>2
         DEF DurableAt, ImageFits, CapturedAt, PaidAt, CommittingAt, RemovingAt
    <3> QED BY <1>2, <1>4, <2>1, <3>1, <3>2 DEF Databases, Rows
  <2> QED BY <2>2, <2>3
<1>5. CASE s = "logs" /\ pc[p] = "remove-logs" /\ StillCaptured(p, s)
  <2>1. Deletes(p) /\ s \in Covered(p)
    BY <1>5, ListsApart DEF KindFits, Deletes, Covered, Targets, Databases
  <2>2. payload[job[p].op].before[s] = job[p].snap[s]
    BY <1>5, <2>1 DEF DurableAt, RemovalFits, PaidAt, CommittingAt, RemovingAt
  <2> QED BY <1>5, <2>2 DEF StillCaptured
<1> QED BY <1>2, <1>3, <1>4, <1>5

(* A rollback of a removal only adds.                                      *)
LEMMA UndoAdds ==
  ASSUME Typed, NEW p \in Procs, UndoSurface(p) \/ UndoGlobalState(p), NEW t \in Surfaces
  PROVE  live[t].own \subseteq live'[t].own
<1> USE ListsApart DEF Typed, DataTyped, Images
<1>1. CASE UndoGlobalState(p)
  <2>1. Removed("global-state", job[p].snap["global-state"]).own = {}
    BY JobFunction, SurfacesNamed DEF Removed, Jobs, Images, Value
  <2> QED BY <1>1, <2>1 DEF UndoGlobalState
<1>2. CASE UndoSurface(p)
  <2> PICK s \in First(job[p].todo, UndoRank) :
         live' = live \/ (Undoable(p, s) /\ PutBack(s, job[p].snap[s]))
    BY <1>2 DEF UndoSurface
  <2>1. s \in Surfaces /\ live[s] \in Value /\ job[p].snap[s] \in Value
    BY JobFunction DEF First, Jobs
  <2>2. CASE s \in Lists /\ Undoable(p, s)
    <3>1. live[s] = Removed(s, job[p].snap[s])
      BY <2>2, ListsApart DEF Undoable, Databases
    <3>2. Removed(s, job[p].snap[s]).own = {}
      BY <2>1, <2>2 DEF Removed, Value
    <3> QED BY <3>1, <3>2 DEF PutBack
  <2>3. CASE s \in Files /\ Undoable(p, s)
    <3>1. s \notin Lists
      BY <2>3
    <3>2. live[s].own = {}
      BY <2>3, <3>1, ListsApart DEF Undoable, Databases
    <3> QED BY <3>2 DEF PutBack
  <2>4. CASE s \in Databases
    BY <2>1, <2>4 DEF PutBack, WithMissing, Value
  <2> QED BY <2>1, <2>2, <2>3, <2>4 DEF Surfaces
<1> QED BY <1>1, <1>2

(* A restore, its rollback and a purge take out only what the payload      *)
(* moves, or what the restore adopted.                                     *)
LEMMA MovePaid ==
  ASSUME Consistent, NEW p \in Procs, DurableAt(p),
         RestoreText(p) \/ RestoreRows(p) \/ RemoveGoals(p) \/ UndoRestore(p) \/ PurgeLogs(p),
         NEW s \in Surfaces, NEW r \in live[s].own, r \notin live'[s].own
  PROVE  r \in payload[job[p].op].moves[s] \/ (Adopted(p, s) /\ r \notin Restored(p, s).own)
<1> USE JobFunction DEF Consistent, Typed, DataTyped, Images
<1>1. live'[s] # live[s]
  OBVIOUS
<1>2. pc[p] \in AddingAt
  BY DEF RestoreText, RestoreRows, RemoveGoals, UndoRestore, PurgeLogs, AddingAt
<1>3. payload[job[p].op].moves = job[p].bundle
  BY <1>2 DEF DurableAt, MovesFit
<1>4. live[s] \in Value /\ job[p].snap[s] \in Value
  BY DEF Jobs
<1>5. Restored(p, s).own = job[p].snap[s].own \cup job[p].bundle[s]
  BY <1>4 DEF Restored, After, Value
<1>6. r \in job[p].bundle[s] \/ (Adopted(p, s) /\ r \notin Restored(p, s).own)
  <2>1. CASE RestoreText(p)
    <3>1. live'[s] = Restored(p, s) /\ StillCaptured(p, s)
      BY <1>1, <2>1 DEF RestoreText
    <3> QED BY <1>5, <3>1 DEF StillCaptured
  <2>2. CASE RestoreRows(p)
    <3>1. live'[s].own = live[s].own \cup job[p].bundle[s]
      BY <1>1, <1>4, <2>2 DEF RestoreRows, Value
    <3> QED BY <3>1
  <2>3. CASE RemoveGoals(p)
    <3>1. live'[s] = GoalsRemoved(p, s)
      BY <1>1, <2>3 DEF RemoveGoals
    <3> QED BY <1>4, <3>1 DEF GoalsRemoved, Value
  <2>4. CASE UndoRestore(p)
    <3>1. /\ live'[s] = job[p].snap[s] /\ live[s] = job[p].post[s]
          /\ pc[p] = "unrestore" /\ s \in job[p].todo
      BY <1>1, <2>4 DEF UndoRestore, Effect
    <3>2. CASE r \in Restored(p, s).own
      BY <1>5, <3>1, <3>2
    <3>3. CASE r \notin Restored(p, s).own
      BY <3>1, <3>3 DEF Adopted
    <3> QED BY <3>2, <3>3
  <2>5. CASE PurgeLogs(p)
    <3>1. s = "logs" /\ live[s].own = job[p].bundle[s]
      BY <1>1, <2>5 DEF PurgeLogs
    <3> QED BY <3>1
  <2> QED BY <2>1, <2>2, <2>3, <2>4, <2>5
<1> QED BY <1>3, <1>6

(* So does a recovery: what it finds on a surface is a state the payload   *)
(* knows.                                                                  *)
LEMMA RecoveryPaid ==
  ASSUME Consistent, NEW p \in Procs, DurableAt(p), RecoverSurface(p), job[p].op \in OpIds,
         NEW s \in Surfaces, NEW r \in live[s].own, r \notin live'[s].own
  PROVE  r \in payload[job[p].op].before[s].own \cup payload[job[p].op].moves[s]
<1> USE JobFunction DEF Consistent, Typed, DataTyped, Images
<1>1. /\ payload[job[p].op].before = job[p].snap
      /\ job[p].bundle[s] \subseteq payload[job[p].op].moves[s]
  BY DEF RecoverSurface, DurableAt, MovesFit
<1>2. live[s] \in Value /\ job[p].snap[s] \in Value
  BY DEF Jobs
<1>3. KnownState(p, s) /\ live'[s] = Desired(p, s)
  <2> PICK t \in First(job[p].todo, RecoveryRank) :
         live' = live \/ (KnownState(p, t) /\ live' = [live EXCEPT ![t] = Desired(p, t)])
    BY DEF RecoverSurface
  <2> QED OBVIOUS
<1>4. r \in job[p].snap[s].own \cup job[p].bundle[s]
  <2>1. CASE job[p].kind = "purge"
    BY <1>2, <1>3, <2>1 DEF Desired, Value
  <2>2. CASE job[p].kind # "purge" /\ s \in Databases
    BY <1>2, <1>3, <2>2 DEF Desired, Value
  <2>3. CASE job[p].kind # "purge" /\ s \notin Databases
    <3>1. live[s] \in {job[p].snap[s], StateAfter(p, s)}
      BY <1>3, <2>3 DEF KnownState
    <3>2. StateAfter(p, s).own \subseteq job[p].snap[s].own \cup job[p].bundle[s]
      BY <1>2 DEF StateAfter, After, Removed, Value
    <3> QED BY <3>1, <3>2
  <2> QED BY <2>1, <2>2, <2>3
<1> QED BY <1>1, <1>4

(* Before any step takes a record of the selection off a surface, the      *)
(* payload of the operation that holds the lock has it on disk             *)
(* (deleteSessions, cleanupSessionIndexes, restoreTrashEntry,              *)
(* purgeTrashEntry and recoverInterruptedOperation alike), so that no kill *)
(* between two system calls loses it.  What the rollback of a restore may  *)
(* take out besides is only what Codex wrote before the restore read its   *)
(* own write back, and never a record of the trash entry.                  *)
THEOREM NothingLeavesUnrecorded ==
  ASSUME ReleaseSucceeds, SupervisedRecovery, QuietRecords
  PROVE  Spec => BeforeImageDurable
<1>1. Init => Consistent /\ DurableInv
  BY ConsistentAlways, DurableBegins
<1>2. Consistent /\ DurableInv /\ [Next]_vars => (Consistent /\ DurableInv)'
  BY ConsistentAlways, NextDurable
<1>3. Consistent /\ DurableInv /\ [Next]_vars =>
        [\A s \in Surfaces : \A r \in live[s].own \ live'[s].own :
           \/ lock.op # 0 /\ r \in payload[lock.op].before[s].own \cup payload[lock.op].moves[s]
           \/ \E p \in Procs : Adopted(p, s) /\ r \notin Restored(p, s).own]_vars
  <2> SUFFICES ASSUME Consistent, DurableInv, Next, NEW s \in Surfaces,
                      NEW r \in live[s].own, r \notin live'[s].own
               PROVE  \/ /\ lock.op # 0
                         /\ r \in payload[lock.op].before[s].own \cup payload[lock.op].moves[s]
                      \/ \E p \in Procs : Adopted(p, s) /\ r \notin Restored(p, s).own
    OBVIOUS
  <2> USE DEF Consistent
  <2>1. CASE CodexStep
    <3> PICK t \in Surfaces : CodexAdds(t) \/ CodexChangesOthers(t)
      BY <2>1 DEF CodexStep
    <3>1. live[s].own \subseteq live'[s].own
      BY DEF CodexAdds, CodexChangesOthers, Typed, DataTyped, Images, Value
    <3> QED BY <3>1
  <2>2. ASSUME NEW p \in Procs, OperationStep(p) \/ Crash(p)
        PROVE  \/ /\ lock.op # 0
                  /\ r \in payload[lock.op].before[s].own \cup payload[lock.op].moves[s]
               \/ Adopted(p, s) /\ r \notin Restored(p, s).own
    <3>1. Writes(p)
      BY <2>2, OthersReadOnly
    <3>2. Working(p)
      BY <3>1 DEF Writes, RemoveFromIndex, RemoveFromGlobalState, UndoGlobalState, RemoveFile,
             RemoveRows, RemoveLogs, UndoSurface, RestoreText, RestoreRows, RemoveGoals,
             UndoRestore, PurgeLogs, RecoverSurface, Working
    <3>3. /\ lock.op = job[p].op /\ job[p].op \in OpIds /\ job[p].op # 0 /\ KindFits(p)
          /\ DurableAt(p)
      BY <3>2, WorkerFits DEF Fits, DurableInv, OpIds
    <3> QED BY <3>1, <3>3, RemovalPaid, UndoAdds, MovePaid, RecoveryPaid DEF Writes
  <2> QED BY <2>1, <2>2 DEF Next
<1> QED BY <1>1, <1>2, <1>3, PTL DEF Spec, BeforeImageDurable

-----------------------------------------------------------------------------
(* The write-ahead of the checkpoints.  The text of the global state a     *)
(* delete records is the one of its scan: that it is still what is on disk *)
(* is known from the number of references only, which proves it where      *)
(* Codex adds none.                                                        *)
QuietReferences == "global-state" \notin ExternalSurfaces

(* Surfaces Codex does not write hold no later records anywhere.           *)
Quiet == Surfaces \ ExternalSurfaces
OldImage(v) == \A s \in Quiet : v[s].own \subseteq {0}
OldBundle(b) == \A s \in Quiet : b[s] \subseteq {0}
OldFile(o) == OldImage(payload[o].before) /\ OldBundle(payload[o].moves) /\ OldBundle(entry[o].bundle)
OldJob(p) == OldImage(job[p].seen) /\ OldImage(job[p].snap) /\ OldBundle(job[p].bundle)
OldInv == OldImage(live) /\ (\A o \in OpIds : OldFile(o)) /\ (\A p \in Procs : OldJob(p))

(* Where a process that deletes or moves to the trash has a journal.       *)
MarkingAt == {"acquired", "rel-stage"} \cup DeleteAt \cup CommitAt \cup TrashAt \cup {"remove-logs"}

(* The journal on disk has no mark its owner does not have in memory.      *)
MarksFit(p) ==
  Deletes(p) /\ pc[p] \in MarkingAt => journal[job[p].op].marks \subseteq job[p].marks
(* A surface is changed after its checkpoint.                              *)
StartedFit(p) ==
  pc[p] = "remove" /\ Deletes(p) =>
    \A s \in job[p].cur : <<s, "started">> \in journal[job[p].op].marks
(* What was captured and is not recorded yet is still there.               *)
CaptureFits(p) ==
  /\ pc[p] = "capture" => job[p].seen["global-state"].own \subseteq live["global-state"].own
  /\ pc[p] = "payload" => \A s \in Covered(p) : job[p].snap[s].own \subseteq live[s].own
AheadAt(p) == MarksFit(p) /\ StartedFit(p) /\ CaptureFits(p)

(* A surface of an operation that would be rolled back is as recorded or   *)
(* has its mark.                                                           *)
Intact(o, s) == payload[o].before[s].own \subseteq live[s].own
Marked(o) ==
  lock.op = o /\ Strategy(payload[o].kind) = "rollback" =>
    \A s \in payload[o].covers \ {"logs"} : Intact(o, s) \/ <<s, "started">> \in journal[o].marks
AheadInv == (\A p \in Procs : AheadAt(p)) /\ (\A o \in OpIds : Marked(o))

(* A job whose working sets are edited is the same task.                   *)
LEMMA Edited ==
  ASSUME Typed, NEW p \in Procs, NEW m, NEW d, NEW c, NEW t,
         job' = [job EXCEPT ![p] = [job[p] EXCEPT !.marks = m, !.done = d, !.cur = c, !.todo = t]]
  PROVE  /\ SameTask(p) /\ job'[p].marks = m /\ job'[p].done = d /\ job'[p].cur = c
         /\ job'[p].todo = t
<1> DEFINE j == [job[p] EXCEPT !.marks = m, !.done = d, !.cur = c, !.todo = t]
<1>1. /\ j.kind = job[p].kind /\ j.op = job[p].op /\ j.seen = job[p].seen /\ j.snap = job[p].snap
      /\ j.bundle = job[p].bundle /\ j.marks = m /\ j.done = d /\ j.cur = c /\ j.todo = t
  BY JobFunction DEF Jobs
<1>2. job'[p] = j
  BY JobFunction
<1> HIDE DEF j
<1> QED BY <1>1, <1>2 DEF SameTask

(* The ways to leave a step keep the task.                                 *)
LEMMA TaskStays ==
  ASSUME Typed, NEW p \in Procs
  PROVE  /\ job' = job => SameTask(p)
         /\ CommitFails(p) => SameTask(p) /\ job'[p].marks = job[p].marks
         /\ PrepareFails(p) => SameTask(p) /\ job'[p].marks = job[p].marks
         /\ \A stage, next : ReleaseAs(p, stage, next) => SameTask(p) /\ job'[p].marks = job[p].marks
         /\ \A stuck : RestoreFails(p, stuck) => SameTask(p)
         /\ \A marks, stage : \A next \in {"ignore", "require"} :
              ReleaseMarked(p, marks, stage, next) => SameTask(p)
<1>1. job' = job => SameTask(p)
  BY DEF SameTask
<1>2. CommitFails(p) => SameTask(p) /\ job'[p].marks = job[p].marks
  BY JobFunction DEF CommitFails, SameTask, Jobs
<1>3. ASSUME NEW stage, NEW next, ReleaseAs(p, stage, next)
      PROVE  SameTask(p) /\ job'[p].marks = job[p].marks
  BY <1>3, JobFunction DEF ReleaseAs, SameTask, Jobs
<1>4. PrepareFails(p) => SameTask(p) /\ job'[p].marks = job[p].marks
  BY <1>3 DEF PrepareFails, SameTask
<1>5. ASSUME NEW stuck, RestoreFails(p, stuck) PROVE SameTask(p)
  BY <1>5, JobFunction DEF RestoreFails, SameTask, Jobs
<1>6. ASSUME NEW marks, NEW stage, NEW next \in {"ignore", "require"},
             ReleaseMarked(p, marks, stage, next)
      PROVE  SameTask(p)
  BY <1>6, MarkedLeaves DEF SameTask
<1> QED BY <1>1, <1>2, <1>3, <1>4, <1>5, <1>6

(* The steps that read something new into memory.                          *)
Reads(p) ==
  \/ (\E kind \in Kinds : ScanRoot(p, kind)) \/ CreateLock(p) \/ Capture(p) \/ BuildBundle(p)
  \/ WriteCleanupPayload(p) \/ ReadForRestore(p) \/ ReadForPurge(p) \/ CaptureRestore(p)
  \/ BeginRecovery(p)
Stopped(p) == pc'[p] = "idle" /\ job'[p] = NoJob

(* The checkpoints edit the working sets only.                             *)
LEMMA CheckpointEdits ==
  ASSUME Typed, NEW p \in Procs,
         StartSurface(p) \/ MarkSurface(p) \/ StartIndex(p) \/ StartRestore(p) \/ MarkRestored(p)
  PROVE  SameTask(p)
<1>1. CASE StartSurface(p)
  <2> PICK s \in First(job[p].todo, CommitRank), o \in Outcome("journal") :
        job' = [job EXCEPT ![p] =
                  [job[p] EXCEPT !.marks = StartMarks(p, s), !.done = SqliteStarted(p, s),
                                 !.cur = IF Throws(o) THEN {} ELSE {s},
                                 !.todo = IF Throws(o) THEN SqliteStarted(p, s) ELSE job[p].todo]]
    BY <1>1 DEF StartSurface
  <2> QED BY Edited
<1>2. ASSUME NEW m, NEW c, NEW t,
             job' = [job EXCEPT ![p] = [job[p] EXCEPT !.marks = m, !.cur = c, !.todo = t]]
      PROVE  SameTask(p)
  <2> DEFINE j == [job[p] EXCEPT !.marks = m, !.cur = c, !.todo = t]
  <2>1. job'[p] = j
    BY <1>2, JobFunction
  <2> QED BY <2>1, JobFunction DEF SameTask, Jobs
<1>3. CASE MarkSurface(p)
  <2> DEFINE m == job[p].marks \cup {<<s, "committed">> : s \in job[p].cur}
  <2> PICK o \in Outcome("journal") :
        job' = [job EXCEPT ![p] = [job[p] EXCEPT !.marks = m, !.cur = {},
                              !.todo = IF Throws(o) THEN job[p].done ELSE job[p].todo \ job[p].cur]]
    BY <1>3 DEF MarkSurface
  <2> HIDE DEF m
  <2> QED BY <1>2
<1>4. CASE StartIndex(p)
  <2> PICK s \in First(job[p].todo, CommitRank), o \in Outcome("journal") :
        job' = [job EXCEPT ![p] =
                  [job[p] EXCEPT !.marks = StartMarks(p, s),
                                 !.cur = IF Throws(o) THEN {} ELSE {s},
                                 !.todo = IF Throws(o) THEN job[p].done ELSE job[p].todo]]
    BY <1>4 DEF StartIndex
  <2> QED BY <1>2
<1>5. CASE StartRestore(p)
  <2> DEFINE m(s) == job[p].marks \cup {<<x, "started">> : x \in IF s \in Rows THEN Rows ELSE {s}}
  <2> PICK s \in First(job[p].todo, RestoreRank), o \in Outcome("journal") :
        job' = [job EXCEPT ![p] =
                  [job[p] EXCEPT !.marks = m(s), !.cur = IF Throws(o) THEN {} ELSE {s},
                                 !.todo = IF Throws(o) THEN job[p].done ELSE job[p].todo]]
    BY <1>5 DEF StartRestore
  <2> HIDE DEF m
  <2> QED BY <1>2
<1>6. CASE MarkRestored(p)
  <2> DEFINE m == job[p].marks \cup {<<s, "committed">> : s \in job[p].cur}
  <2> PICK o \in Outcome("journal") :
        job' = [job EXCEPT ![p] = [job[p] EXCEPT !.marks = m, !.cur = {},
                              !.todo = IF Throws(o) THEN job[p].done ELSE job[p].todo \ job[p].cur]]
    BY <1>6 DEF MarkRestored
  <2> HIDE DEF m
  <2> QED BY <1>2
<1> QED BY <1>1, <1>3, <1>4, <1>5, <1>6

(* The steps of deleteSessions keep the task.                              *)
LEMMA DeleteTask ==
  ASSUME Typed, NEW p \in Procs, DeleteStep(p) \/ UndoStep(p), ~Capture(p)
  PROVE  SameTask(p) \/ Stopped(p)
<1> USE TaskStays, StopLeaves, JobFunction DEF Stopped
<1>1. CASE EnterPrepared(p)
  BY <1>1 DEF EnterPrepared
<1>2. CASE CheckSelection(p)
  BY <1>2 DEF CheckSelection
<1>3. CASE WritePayload(p)
  BY <1>3 DEF WritePayload
<1>4. CASE Recheck(p)
  BY <1>4 DEF Recheck
<1>5. CASE EnterCommitting(p)
  <2>1. CommitFails(p) \/ job' = [job EXCEPT ![p].todo = CommitPlan(p)]
    BY <1>5 DEF EnterCommitting
  <2>2. CASE job' = [job EXCEPT ![p].todo = CommitPlan(p)]
    BY <2>2 DEF SameTask, Jobs
  <2> QED BY <2>1, <2>2
<1>6. CASE StartSurface(p) \/ MarkSurface(p)
  BY <1>6, CheckpointEdits
<1>8. CASE EnterVerifying(p)
  BY <1>8 DEF EnterVerifying
<1>9. ASSUME \/ CommitFails(p) \/ job' = job \/ \E d : job' = [job EXCEPT ![p].done = d]
      PROVE  SameTask(p)
  <2>1. CASE \E d : job' = [job EXCEPT ![p].done = d]
    BY <2>1 DEF SameTask, Jobs
  <2> QED BY <1>9, <2>1
<1>10. CASE RemoveFromIndex(p)
  BY <1>9, <1>10 DEF RemoveFromIndex
<1>11. CASE RemoveFromGlobalState(p)
  BY <1>9, <1>11 DEF RemoveFromGlobalState
<1>12. CASE UndoGlobalState(p)
  BY <1>12 DEF UndoGlobalState
<1>13. CASE RemoveFile(p)
  BY <1>9, <1>13 DEF RemoveFile
<1>14. CASE RemoveRows(p)
  BY <1>9, <1>14 DEF RemoveRows
<1>15. CASE RemoveLogs(p)
  BY <1>9, <1>15 DEF RemoveLogs
<1>16. CASE UndoSurface(p)
  <2>1. \/ \E stage, next : ReleaseAs(p, stage, next)
        \/ \E t : job' = [job EXCEPT ![p].todo = t]
    BY <1>16 DEF UndoSurface
  <2>2. CASE \E t : job' = [job EXCEPT ![p].todo = t]
    BY <2>2 DEF SameTask, Jobs
  <2> QED BY <2>1, <2>2
<1>17. CASE UndoEnds(p)
  BY <1>17 DEF UndoEnds
<1> QED BY <1>1, <1>2, <1>3, <1>4, <1>5, <1>6, <1>8, <1>10, <1>11, <1>12, <1>13, <1>14, <1>15,
           <1>16, <1>17
        DEF DeleteStep, UndoStep

(* The steps of a move to the trash, a cleanup and a purge keep the task.  *)
LEMMA MoveTask ==
  ASSUME Typed, NEW p \in Procs,
         TrashStep(p) \/ CleanupStep(p) \/ EntryStep(p) \/ PurgeStep(p), ~Reads(p)
  PROVE  SameTask(p) \/ Stopped(p)
<1> USE TaskStays, StopLeaves, JobFunction DEF Stopped, Reads
<1>1. CASE TrashStep(p)
  <2> USE DEF DropTmp, KeepEntry
  <2>1. CASE WriteTrashPayload(p)
    BY <2>1 DEF WriteTrashPayload
  <2>2. CASE MakeTmp(p)
    BY <2>2 DEF MakeTmp
  <2>3. CASE CommitTrashEntry(p)
    BY <2>3 DEF CommitTrashEntry
  <2>4. CASE MarkTrashEntry(p)
    BY <2>4 DEF MarkTrashEntry
  <2>5. CASE DropTrash(p)
    BY <2>5 DEF DropTrash
  <2>6. CASE TearEntry(p)
    BY <2>6 DEF TearEntry
  <2> QED BY <1>1, <2>1, <2>2, <2>3, <2>4, <2>5, <2>6 DEF TrashStep
<1>2. CASE CleanupStep(p)
  <2>1. CASE CheckIndexes(p)
    BY <2>1 DEF CheckIndexes
  <2>2. CASE RecheckCleanup(p)
    BY <2>2 DEF RecheckCleanup
  <2>3. CASE CommitCleanup(p)
    <3>1. CommitFails(p) \/ job' = [job EXCEPT ![p].todo = Indexes]
      BY <2>3 DEF CommitCleanup
    <3>2. CASE job' = [job EXCEPT ![p].todo = Indexes]
      BY <3>2 DEF SameTask, Jobs
    <3> QED BY <3>1, <3>2
  <2>4. CASE StartIndex(p)
    BY <2>4, CheckpointEdits
  <2>5. CASE VerifyCleanup(p)
    BY <2>5 DEF VerifyCleanup
  <2> QED BY <1>2, <2>1, <2>2, <2>3, <2>4, <2>5 DEF CleanupStep
<1>3. CASE EntryStep(p)
  BY <1>3 DEF EntryStep, EntryNotFound, PrepareEntry, CheckEntry, CommitEntry, Refuse
<1>4. CASE PurgeStep(p)
  <2> USE DEF PurgeFails, Refuse
  <2>1. CASE WritePurgePayload(p)
    BY <2>1 DEF WritePurgePayload
  <2>2. CASE RecheckPurge(p)
    BY <2>2 DEF RecheckPurge
  <2>3. CASE CheckpointPurge(p)
    <3>1. \/ \E m : ReleaseMarked(p, m, "recovery_required", "ignore")
          \/ \E m : job' = [job EXCEPT ![p].marks = m]
      BY <2>3 DEF CheckpointPurge
    <3>2. CASE \E m : job' = [job EXCEPT ![p].marks = m]
      BY <3>2 DEF SameTask, Jobs
    <3> QED BY <3>1, <3>2
  <2>4. CASE PurgeLogs(p)
    BY <2>4 DEF PurgeLogs
  <2>5. CASE QuarantineEntry(p)
    BY <2>5 DEF QuarantineEntry
  <2>6. CASE RemoveQuarantine(p)
    BY <2>6 DEF RemoveQuarantine
  <2>7. CASE VerifyPurge(p)
    BY <2>7 DEF VerifyPurge
  <2> QED BY <1>4, <2>1, <2>2, <2>3, <2>4, <2>5, <2>6, <2>7 DEF PurgeStep
<1> QED BY <1>1, <1>2, <1>3, <1>4

(* The steps of a restore keep the task.                                   *)
LEMMA RestoreTask ==
  ASSUME Typed, NEW p \in Procs, RestoreStep(p), ~CaptureRestore(p)
  PROVE  SameTask(p) \/ Stopped(p)
<1> USE TaskStays, JobFunction DEF Refuse
<1>0. ASSUME \/ \E d : job' = [job EXCEPT ![p].done = d]
             \/ \E c : job' = [job EXCEPT ![p].cur = c]
             \/ \E m : job' = [job EXCEPT ![p].marks = m]
      PROVE  SameTask(p)
  BY <1>0 DEF SameTask, Jobs
<1>1. CASE CheckConflicts(p)
  BY <1>1 DEF CheckConflicts
<1>2. CASE WriteRestorePayload(p)
  BY <1>2 DEF WriteRestorePayload
<1>3. CASE StartRestore(p) \/ MarkRestored(p)
  BY <1>3, CheckpointEdits
<1>4. CASE RestoreText(p)
  BY <1>0, <1>4 DEF RestoreText
<1>5. CASE RereadWritten(p)
  BY <1>5, Rereads DEF SameTask
<1>6. CASE RestoreRows(p)
  BY <1>0, <1>6 DEF RestoreRows
<1>7. CASE RemoveGoals(p)
  BY <1>7 DEF RemoveGoals
<1>8. CASE UndoRestore(p)
  <2> PICK c, t : job' = [job EXCEPT ![p] = [job[p] EXCEPT !.todo = t, !.cur = c]]
    BY <1>8 DEF UndoRestore
  <2> DEFINE j == [job[p] EXCEPT !.todo = t, !.cur = c]
  <2>1. job'[p] = j
    OBVIOUS
  <2> QED BY <2>1 DEF SameTask, Jobs
<1>9. CASE UndoRestoreEnds(p)
  BY <1>9 DEF UndoRestoreEnds
<1>10. CASE MarkRows(p)
  <2>1. \/ \E m : ReleaseMarked(p, m, "committed", "require")
        \/ \E m : job' = [job EXCEPT ![p].marks = m]
    BY <1>10 DEF MarkRows
  <2> QED BY <1>0, <2>1
<1>11. CASE VerifyRestore(p)
  BY <1>11 DEF VerifyRestore
<1> QED BY <1>1, <1>2, <1>3, <1>4, <1>5, <1>6, <1>7, <1>8, <1>9, <1>10, <1>11 DEF RestoreStep

(* Every step but a read keeps the task, or ends it.                       *)
LEMMA TaskGoesOn ==
  ASSUME Typed, NEW p \in Procs, OperationStep(p) \/ Crash(p), ~Reads(p)
  PROVE  SameTask(p) \/ Stopped(p)
<1> USE TaskStays, StopLeaves, JobFunction
<1>1. CASE AcquireStep(p)
  BY <1>1 DEF AcquireStep, Reads, LockIsTaken, WriteLock, CreateJournal, Stopped
<1>2. CASE ReleaseStep(p)
  <2>1. ReleaseFails(p) => SameTask(p) \/ Stopped(p)
    <3>1. CASE Goto(p, "undo") /\ job' = [job EXCEPT ![p].todo = job[p].done]
      BY <3>1 DEF SameTask, Jobs
    <3> QED BY <3>1 DEF ReleaseFails, Stopped
  <2> QED BY <1>2, <2>1
          DEF ReleaseStep, ReleaseStage, ReleaseCheck, ReleasePayload, ReleaseUnlock, Stopped
<1>3. CASE RecoveryStep(p)
  <2>1. CASE RecoverSurface(p)
    <3>1. Stop(p) \/ \E t : job' = [job EXCEPT ![p].todo = t]
      BY <2>1 DEF RecoverSurface
    <3> QED BY <3>1 DEF SameTask, Jobs, Stopped
  <2> QED BY <1>3, <2>1
          DEF Reads, RecoveryStep, SurfacesRecovered, RecoverQuarantine, RecoverTrash, RefuseTrash,
              FinalizeStage, FinalizePayload, FinalizeUnlock, Stopped
<1>4. CASE Crash(p)
  BY <1>4 DEF Crash, Stopped
<1> QED BY <1>1, <1>2, <1>3, <1>4, DeleteTask, MoveTask, RestoreTask DEF OperationStep, Reads

(* What a process writes to a surface was there, or it has it in memory.   *)
LEMMA WritesKnown ==
  ASSUME Typed, NEW p \in Procs, Writes(p), NEW t \in Surfaces
  PROVE  live'[t].own \subseteq live[t].own \cup job[p].snap[t].own \cup job[p].bundle[t]
<1> USE JobFunction DEF Typed, DataTyped, Images
<1>0. live[t] \in Value /\ job[p].snap[t] \in Value
  BY DEF Jobs
<1> DEFINE taken == Removed(t, job[p].snap[t])
           added == Restored(p, t)
           after == StateAfter(p, t)
           known == live[t].own \cup job[p].snap[t].own \cup job[p].bundle[t]
<1>1. taken.own = {} /\ added.own \subseteq known /\ after.own \subseteq known
  BY <1>0 DEF Removed, Restored, StateAfter, After, Value
<1> HIDE DEF added, after, known, taken
<1>2. \/ live'[t].own \subseteq live[t].own
      \/ live'[t] \in {taken, added, after, job[p].snap[t]}
      \/ live'[t].own \subseteq live[t].own \cup job[p].snap[t].own \cup job[p].bundle[t]
  <2>1. CASE RemoveFromIndex(p)
    BY <2>1 DEF RemoveFromIndex, TakeOut, taken
  <2>2. CASE RemoveFromGlobalState(p)
    BY <2>2 DEF RemoveFromGlobalState, TakeOut, taken
  <2>3. CASE UndoGlobalState(p)
    BY <2>3 DEF UndoGlobalState
  <2>4. CASE RemoveFile(p)
    BY <2>4 DEF RemoveFile, TakeOut, taken
  <2>5. CASE RemoveRows(p)
    BY <2>5 DEF RemoveRows, TakeOut, taken
  <2>6. CASE RemoveLogs(p)
    BY <2>6 DEF RemoveLogs, TakeOut, taken
  <2>7. CASE UndoSurface(p)
    <3> PICK s \in First(job[p].todo, UndoRank) : live' = live \/ PutBack(s, job[p].snap[s])
      BY <2>7 DEF UndoSurface
    <3>1. CASE s = t /\ s \in Databases /\ PutBack(s, job[p].snap[s])
      <4>1. live'[t].own = live[t].own \cup job[p].snap[t].own
        BY <1>0, <3>1 DEF PutBack, WithMissing, Value
      <4> QED BY <4>1
    <3>2. CASE s = t /\ s \notin Databases /\ PutBack(s, job[p].snap[s])
      BY <3>2 DEF PutBack, WithMissing
    <3>3. CASE s # t /\ PutBack(s, job[p].snap[s])
      BY <3>3 DEF PutBack
    <3> QED BY <3>1, <3>2, <3>3
  <2>8. CASE RestoreText(p)
    BY <2>8 DEF RestoreText, added
  <2>9. CASE RestoreRows(p)
    BY <1>0, <2>9 DEF RestoreRows, Value
  <2>10. CASE RemoveGoals(p)
    BY <1>0, <2>10 DEF RemoveGoals, GoalsRemoved, Value
  <2>11. CASE UndoRestore(p)
    BY <2>11 DEF UndoRestore
  <2>12. CASE PurgeLogs(p)
    BY <1>0, <2>12 DEF PurgeLogs, Value
  <2>13. CASE RecoverSurface(p)
    <3> PICK s \in First(job[p].todo, RecoveryRank) :
          live' = live \/ live' = [live EXCEPT ![s] = Desired(p, s)]
      BY <2>13 DEF RecoverSurface
    <3>1. \/ Desired(p, t) \in {after, job[p].snap[t]}
          \/ Desired(p, t).own \subseteq live[t].own \cup job[p].snap[t].own \cup job[p].bundle[t]
      BY <1>0 DEF Desired, after, Value
    <3> QED BY <3>1
  <2> QED BY <2>1, <2>2, <2>3, <2>4, <2>5, <2>6, <2>7, <2>8, <2>9, <2>10, <2>11, <2>12, <2>13
          DEF Writes
<1> QED BY <1>1, <1>2 DEF known

(* What a process writes to a payload it has in memory.                    *)
PaysKnown(p, o) ==
  \/ payload'[o] \in {payload[o], NoPayload}
  \/ /\ \A t \in Surfaces : payload'[o].before[t] \in {job[p].snap[t], job[p].seen[t], Blank[t]}
     /\ payload'[o].moves \in {job[p].bundle, NoRecords}

(* Only some steps write payloads, and they write what they know.          *)
LEMMA PayloadKnown ==
  ASSUME Typed, NEW p \in Procs, OperationStep(p) \/ Crash(p), NEW o \in OpIds
  PROVE  PaysKnown(p, o)
<1> USE DEF disk, Typed, PaysKnown
<1>0. ASSUME NEW v, payload' = payload \/ payload' = [payload EXCEPT ![job[p].op] = v],
             \/ v = NoPayload
             \/ /\ \A t \in Surfaces : v.before[t] \in {job[p].snap[t], job[p].seen[t], Blank[t]}
                /\ v.moves \in {job[p].bundle, NoRecords}
      PROVE  PaysKnown(p, o)
  BY <1>0
<1>1. CASE WritePayload(p)
  <2> DEFINE v == [kind |-> job[p].kind, covers |-> Covered(p), before |-> BeforeImage(p),
                   moves |-> NoRecords, from |-> 0, sealed |-> ~OwnsLock(p)]
  <2>1. payload' = payload \/ payload' = [payload EXCEPT ![job[p].op] = v]
    BY <1>1 DEF WritePayload
  <2>2. v.before = BeforeImage(p) /\ v.moves = NoRecords
    OBVIOUS
  <2>3. \A t \in Surfaces : BeforeImage(p)[t] \in {job[p].snap[t], Blank[t]}
    BY DEF BeforeImage
  <2> HIDE DEF v
  <2> QED BY <1>0, <2>1, <2>2, <2>3
<1>2. CASE WriteTrashPayload(p)
  <2> DEFINE v == TrashPayload(pc[p] = "trash-seal")
  <2>1. payload' = payload \/ payload' = [payload EXCEPT ![job[p].op] = v]
    BY <1>2 DEF WriteTrashPayload
  <2>2. v.before = Blank /\ v.moves = NoRecords
    BY DEF TrashPayload
  <2> HIDE DEF v
  <2> QED BY <1>0, <2>1, <2>2
<1>3. CASE WriteCleanupPayload(p)
  <2> DEFINE v == CleanupPayload(p)
  <2>1. payload' = payload \/ payload' = [payload EXCEPT ![job[p].op] = v]
    BY <1>3 DEF WriteCleanupPayload
  <2>2. (\A t \in Surfaces : v.before[t] \in {job[p].seen[t], Blank[t]}) /\ v.moves = NoRecords
    BY DEF CleanupPayload
  <2> HIDE DEF v
  <2> QED BY <1>0, <2>1, <2>2
<1>4. CASE WriteRestorePayload(p)
  <2> DEFINE b == [s \in Surfaces |-> IF s \in job[p].todo \ Rows THEN job[p].snap[s] ELSE Blank[s]]
             v == [kind |-> job[p].kind, covers |-> job[p].todo, before |-> b, moves |-> Moves(p),
                   from |-> job[p].from, sealed |-> FALSE]
  <2>1. payload' = payload \/ payload' = [payload EXCEPT ![job[p].op] = v]
    BY <1>4 DEF WriteRestorePayload
  <2>2. v.before = b /\ v.moves = job[p].bundle /\ \A t \in Surfaces : b[t] \in {job[p].snap[t], Blank[t]}
    BY DEF Moves
  <2> HIDE DEF v, b
  <2> QED BY <1>0, <2>1, <2>2
<1>5. CASE WritePurgePayload(p)
  <2> DEFINE v == [kind |-> job[p].kind, covers |-> job[p].todo, before |-> Blank,
                   moves |-> job[p].bundle, from |-> job[p].from, sealed |-> TRUE]
  <2>1. payload' = payload \/ payload' = [payload EXCEPT ![job[p].op] = v]
    BY <1>5 DEF WritePurgePayload
  <2>2. v.before = Blank /\ v.moves = job[p].bundle
    OBVIOUS
  <2> HIDE DEF v
  <2> QED BY <1>0, <2>1, <2>2
<1>6. CASE ReleasePayload(p) \/ FinalizePayload(p)
  BY <1>0, <1>6 DEF ReleasePayload, FinalizePayload
<1>7. CASE AcquireStep(p) \/ (ReleaseStep(p) /\ ~ReleasePayload(p)) \/ Crash(p)
  BY <1>7 DEF AcquireStep, ScanRoot, CreateLock, LockIsTaken, WriteLock, CreateJournal,
              ReleaseStep, ReleaseStage, ReleaseCheck, ReleaseUnlock, Crash
<1>8. CASE DeleteStep(p) \/ UndoStep(p)
  BY <1>1, <1>8 DEF DeleteStep, EnterPrepared, CheckSelection, Capture, Recheck,
              EnterCommitting, StartSurface, MarkSurface, EnterVerifying, RemoveFromIndex,
              RemoveFromGlobalState, UndoGlobalState, RemoveFile, RemoveRows, RemoveLogs,
              UndoStep, UndoSurface, UndoEnds
<1>9. CASE TrashStep(p)
  BY <1>2, <1>9 DEF TrashStep, MakeTmp, BuildBundle, CommitTrashEntry, MarkTrashEntry, DropTrash,
              TearEntry
<1>10. CASE CleanupStep(p)
  BY <1>3, <1>10 DEF CleanupStep, CheckIndexes, RecheckCleanup, CommitCleanup, StartIndex,
              VerifyCleanup
<1>11. CASE EntryStep(p)
  BY <1>11 DEF EntryStep, ReadForRestore, ReadForPurge, EntryNotFound, PrepareEntry, CheckEntry,
              CommitEntry
<1>12. CASE RestoreStep(p)
  BY <1>4, <1>12 DEF RestoreStep, CheckConflicts, CaptureRestore, StartRestore, RestoreText,
              RereadWritten, MarkRestored, RestoreRows, RemoveGoals, UndoRestore, UndoRestoreEnds, MarkRows,
              VerifyRestore
<1>13. CASE PurgeStep(p)
  BY <1>5, <1>13 DEF PurgeStep, RecheckPurge, CheckpointPurge, PurgeLogs, QuarantineEntry,
              RemoveQuarantine, VerifyPurge
<1>14. CASE RecoveryStep(p)
  BY <1>6, <1>14 DEF RecoveryStep, BeginRecovery, RecoverSurface, SurfacesRecovered,
              RecoverQuarantine, RecoverTrash, RefuseTrash, FinalizeStage, FinalizeUnlock
<1> QED BY <1>6, <1>7, <1>8, <1>9, <1>10, <1>11, <1>12, <1>13, <1>14 DEF OperationStep

(* What a process puts into the trash it has in memory.                    *)
LEMMA EntryKnown ==
  ASSUME Typed, NEW p \in Procs, OperationStep(p) \/ Crash(p), NEW o \in OpIds, NEW t \in Surfaces
  PROVE  entry'[o].bundle[t] \subseteq entry[o].bundle[t] \cup job[p].bundle[t]
<1> USE DEF bin, Typed, BinTyped
<1>0. ASSUME NEW e, NEW i, entry' = entry \/ entry' = [entry EXCEPT ![i] = e],
             e.bundle[t] \subseteq entry[i].bundle[t] \cup job[p].bundle[t]
      PROVE  entry'[o].bundle[t] \subseteq entry[o].bundle[t] \cup job[p].bundle[t]
  BY <1>0
<1>1. NoEntry.bundle[t] = {}
  BY DEF NoEntry, NoRecords
<1>2. ASSUME NEW i, entry' = entry \/ entry' = [entry EXCEPT ![i] = NoEntry]
      PROVE  entry'[o].bundle[t] \subseteq entry[o].bundle[t] \cup job[p].bundle[t]
  BY <1>1, <1>2
<1>3. ASSUME NEW i, NEW state, entry' = entry \/ entry' = [entry EXCEPT ![i].state = state]
      PROVE  entry'[o].bundle[t] \subseteq entry[o].bundle[t] \cup job[p].bundle[t]
  <2>1. CASE entry' = [entry EXCEPT ![i].state = state] /\ i = o
    <3>1. entry[o] \in Entries
      OBVIOUS
    <3>2. entry'[o].bundle = entry[o].bundle
      BY <2>1, <3>1 DEF Entries
    <3> QED BY <3>2
  <2>2. CASE entry' = entry \/ entry'[o] = entry[o]
    BY <2>2
  <2> QED BY <1>3, <2>1, <2>2
<1>4. CASE AcquireStep(p) \/ ReleaseStep(p) \/ Crash(p)
  BY <1>4 DEF AcquireStep, ScanRoot, CreateLock, LockIsTaken, WriteLock, CreateJournal,
              ReleaseStep, ReleaseStage, ReleaseCheck, ReleasePayload, ReleaseUnlock, Crash
<1>5. CASE DeleteStep(p) \/ UndoStep(p)
  BY <1>5 DEF DeleteStep, EnterPrepared, CheckSelection, Capture, WritePayload, Recheck,
              EnterCommitting, StartSurface, MarkSurface, EnterVerifying, RemoveFromIndex,
              RemoveFromGlobalState, UndoGlobalState, RemoveFile, RemoveRows, RemoveLogs,
              UndoStep, UndoSurface, UndoEnds
<1>6. CASE TrashStep(p)
  <2>1. CASE CommitTrashEntry(p)
    <3> DEFINE e == [state |-> "complete", bundle |-> job[p].bundle]
    <3>1. entry' = entry \/ entry' = [entry EXCEPT ![job[p].op] = e]
      BY <2>1 DEF CommitTrashEntry
    <3>2. e.bundle = job[p].bundle
      OBVIOUS
    <3> HIDE DEF e
    <3> QED BY <1>0, <3>1, <3>2
  <2>2. CASE DropTrash(p)
    BY <1>2, <2>2 DEF DropTrash
  <2>3. CASE TearEntry(p)
    BY <1>3, <2>3 DEF TearEntry
  <2>4. CASE WriteTrashPayload(p) \/ MakeTmp(p) \/ BuildBundle(p) \/ MarkTrashEntry(p)
    BY <2>4 DEF WriteTrashPayload, MakeTmp, BuildBundle, MarkTrashEntry
  <2> QED BY <1>6, <2>1, <2>2, <2>3, <2>4 DEF TrashStep
<1>7. CASE CleanupStep(p) \/ EntryStep(p)
  BY <1>7 DEF CleanupStep, CheckIndexes, WriteCleanupPayload, RecheckCleanup, CommitCleanup,
              StartIndex, VerifyCleanup, EntryStep, ReadForRestore, ReadForPurge, EntryNotFound,
              PrepareEntry, CheckEntry, CommitEntry
<1>8. CASE RestoreStep(p)
  BY <1>8 DEF RestoreStep, CheckConflicts, CaptureRestore, WriteRestorePayload, StartRestore,
              RestoreText, RereadWritten, MarkRestored, RestoreRows, RemoveGoals, UndoRestore, UndoRestoreEnds,
              MarkRows, VerifyRestore
<1>9. CASE PurgeStep(p)
  <2>1. CASE QuarantineEntry(p)
    BY <1>3, <2>1 DEF QuarantineEntry
  <2>2. CASE RemoveQuarantine(p)
    BY <1>2, <2>2 DEF RemoveQuarantine
  <2>3. CASE WritePurgePayload(p) \/ RecheckPurge(p) \/ CheckpointPurge(p) \/ PurgeLogs(p)
             \/ VerifyPurge(p)
    BY <2>3 DEF WritePurgePayload, RecheckPurge, CheckpointPurge, PurgeLogs, VerifyPurge
  <2> QED BY <1>9, <2>1, <2>2, <2>3 DEF PurgeStep
<1>10. CASE RecoveryStep(p)
  <2>1. CASE RecoverQuarantine(p)
    BY <1>3, <2>1 DEF RecoverQuarantine
  <2>2. CASE RecoverTrash(p)
    BY <1>2, <2>2 DEF RecoverTrash
  <2>3. CASE ~RecoverQuarantine(p) /\ ~RecoverTrash(p)
    BY <1>10, <2>3 DEF RecoveryStep, BeginRecovery, RecoverSurface, SurfacesRecovered, RefuseTrash,
                 FinalizeStage, FinalizePayload, FinalizeUnlock
  <2> QED BY <2>1, <2>2, <2>3
<1> QED BY <1>4, <1>5, <1>6, <1>7, <1>8, <1>9, <1>10 DEF OperationStep

(* A process moves itself only.                                            *)
LEMMA OthersAreLeft ==
  ASSUME Typed, NEW p \in Procs, OperationStep(p) \/ Crash(p)
  PROVE  OthersStay(p)
<1>1. CASE AcquireStep(p) \/ ReleaseStep(p) \/ Crash(p)
  BY <1>1, JobFunction, StopLeaves
     DEF OthersStay, AcquireStep, ScanRoot, CreateLock, LockIsTaken, WriteLock, CreateJournal,
         ReleaseStep, ReleaseStage, ReleaseCheck, ReleasePayload, ReleaseUnlock, ReleaseFails,
         ReleaseAs, Crash, Goto
<1>2. CASE \/ CheckIndexes(p) \/ ReadForRestore(p) \/ ReadForPurge(p) \/ EntryNotFound(p)
           \/ BeginRecovery(p) \/ FinalizeUnlock(p)
  BY <1>2, JobFunction, StopLeaves
     DEF OthersStay, CheckIndexes, ReadForRestore, ReadForPurge, EntryNotFound, BeginRecovery,
         FinalizeUnlock, Goto
<1>3. CASE ~(\/ AcquireStep(p) \/ ReleaseStep(p) \/ Crash(p) \/ CheckIndexes(p)
             \/ ReadForRestore(p) \/ ReadForPurge(p) \/ EntryNotFound(p)
             \/ BeginRecovery(p) \/ FinalizeUnlock(p))
  <2>1. Stays(p)
    BY <1>3, DeleteStays, UndoStays, TrashStays, CleanupStays, EntryStays, RestoreStays,
       PurgeStays, RecoveryStays DEF OperationStep, EntryStep
  <2> QED BY <2>1 DEF Stays
<1> QED BY <1>1, <1>2, <1>3

(* The initial states hold first records only.                             *)
LEMMA OldBegins == Init => OldInv
<1> SUFFICES ASSUME Init PROVE OldInv
  OBVIOUS
<1> PICK k \in 0 .. InitialEntries : InitFrom(k)
  BY DEF Init
<1>1. \A s \in Surfaces : Blank[s].own = {} /\ NoRecords[s] = {} /\ Everything[s] \subseteq {0}
  BY DEF Blank, NoRecords, Everything
<1>2. OldImage(Blank) /\ OldBundle(NoRecords) /\ OldBundle(Everything)
  BY <1>1 DEF OldImage, OldBundle, Quiet
<1>3. OldImage(live)
  BY DEF InitFrom, OldImage, Quiet
<1>4. ASSUME NEW o \in OpIds PROVE OldFile(o)
  BY <1>2 DEF Init, InitFrom, OldFile, NoPayload, NoEntry
<1>5. ASSUME NEW p \in Procs PROVE OldJob(p)
  BY <1>2 DEF Init, OldJob, NoJob
<1> QED BY <1>3, <1>4, <1>5 DEF OldInv

(* What the reads take into memory holds first records only.               *)
LEMMA ReadsOld ==
  ASSUME Typed, OldInv, NEW p \in Procs, Reads(p)
  PROVE  OldJob(p)'
<1> USE JobFunction DEF OldInv
<1>0. OldImage(live) /\ OldJob(p) /\ OldImage(Blank) /\ OldBundle(NoRecords)
  BY DEF OldImage, OldBundle, Quiet, Blank, NoRecords
<1>1. CASE \E kind \in Kinds : ScanRoot(p, kind)
  <2> PICK kind \in Kinds : ScanRoot(p, kind)
    BY <1>1
  <2>1. job'[p].seen = live /\ job'[p].snap = Blank /\ job'[p].bundle = NoRecords
    BY DEF ScanRoot, NoJob
  <2> QED BY <1>0, <2>1 DEF OldJob
<1>2. CASE CreateLock(p)
  <2>1. job'[p].seen = job[p].seen /\ job'[p].snap = job[p].snap /\ job'[p].bundle = job[p].bundle
    BY <1>2 DEF CreateLock, Jobs
  <2> QED BY <1>0, <2>1 DEF OldJob
<1>3. CASE Capture(p)
  <2> DEFINE i == [live EXCEPT !["global-state"] = job[p].seen["global-state"]]
  <2>1. PrepareFails(p) \/ job' = [job EXCEPT ![p].snap = i]
    BY <1>3 DEF Capture
  <2>2. OldImage(i)
    BY <1>0 DEF OldJob, OldImage, Quiet, Typed, DataTyped, Images
  <2> HIDE DEF i
  <2>3. CASE job' = [job EXCEPT ![p].snap = i]
    <3>1. job'[p].seen = job[p].seen /\ job'[p].snap = i /\ job'[p].bundle = job[p].bundle
      BY <2>3 DEF Jobs
    <3> QED BY <1>0, <2>2, <3>1 DEF OldJob
  <2>4. CASE PrepareFails(p)
    BY <1>0, <2>4, TaskStays DEF SameTask, OldJob
  <2> QED BY <2>1, <2>3, <2>4
<1>4. CASE BuildBundle(p)
  <2> DEFINE b == Bundle(p)
  <2>1. job' = job \/ job' = [job EXCEPT ![p].bundle = b]
    BY <1>4 DEF BuildBundle, DropTmp
  <2>2. OldBundle(b)
    BY <1>0 DEF OldJob, OldImage, OldBundle, Quiet, Bundle
  <2> HIDE DEF b
  <2>3. CASE job' = [job EXCEPT ![p].bundle = b]
    <3>1. job'[p].seen = job[p].seen /\ job'[p].snap = job[p].snap /\ job'[p].bundle = b
      BY <2>3 DEF Jobs
    <3> QED BY <1>0, <2>2, <3>1 DEF OldJob
  <2> QED BY <1>0, <2>1, <2>3 DEF OldJob
<1>5. CASE WriteCleanupPayload(p)
  <2>1. CommitFails(p) \/ job' = [job EXCEPT ![p].snap = job[p].seen]
    BY <1>5 DEF WriteCleanupPayload
  <2>2. CASE job' = [job EXCEPT ![p].snap = job[p].seen]
    <3>1. job'[p].seen = job[p].seen /\ job'[p].snap = job[p].seen /\ job'[p].bundle = job[p].bundle
      BY <2>2 DEF Jobs
    <3> QED BY <1>0, <3>1 DEF OldJob
  <2>3. CASE CommitFails(p)
    BY <1>0, <2>3, TaskStays DEF SameTask, OldJob
  <2> QED BY <2>1, <2>2, <2>3
<1>6. CASE ReadForRestore(p)
  <2> PICK e \in ValidEntries :
         job' = [job EXCEPT ![p] = [job[p] EXCEPT !.from = e, !.bundle = entry[e].bundle]]
    BY <1>6 DEF ReadForRestore
  <2> DEFINE b == entry[e].bundle
             j == [job[p] EXCEPT !.from = e, !.bundle = b]
  <2>1. OldBundle(b)
    BY DEF OldFile, ValidEntries
  <2> HIDE DEF b
  <2>2. j.seen = job[p].seen /\ j.snap = job[p].snap /\ j.bundle = b
    BY DEF Jobs
  <2>3. job'[p] = j
    BY DEF b
  <2> QED BY <1>0, <2>1, <2>2, <2>3 DEF OldJob
<1>7. CASE ReadForPurge(p)
  <2> PICK e \in ValidEntries :
         job' = [job EXCEPT ![p] =
                   [job[p] EXCEPT !.from = e,
                      !.bundle = IF LogsArePurged(job[p].seen, e) THEN LogKeys ELSE NoRecords,
                      !.todo = IF LogsArePurged(job[p].seen, e) THEN {"logs"} ELSE {}]]
    BY <1>7 DEF ReadForPurge
  <2> DEFINE l == IF LogsArePurged(job[p].seen, e) THEN LogKeys ELSE NoRecords
             t == IF LogsArePurged(job[p].seen, e) THEN {"logs"} ELSE {}
             j == [job[p] EXCEPT !.from = e, !.bundle = l, !.todo = t]
  <2>1. OldBundle(l)
    BY <1>0 DEF OldImage, OldBundle, LogKeys, Quiet
  <2>2. j.seen = job[p].seen /\ j.snap = job[p].snap /\ j.bundle = l
    BY DEF Jobs
  <2>3. job'[p] = j
    OBVIOUS
  <2> QED BY <1>0, <2>1, <2>2, <2>3 DEF OldJob
<1>8. CASE CaptureRestore(p)
  <2> DEFINE j == [job[p] EXCEPT !.snap = live, !.todo = RestorePlan(p)]
  <2>1. j.seen = job[p].seen /\ j.snap = live /\ j.bundle = job[p].bundle
    BY DEF Jobs
  <2>2. job'[p] = j
    BY <1>8 DEF CaptureRestore
  <2> QED BY <1>0, <2>1, <2>2 DEF OldJob
<1>9. CASE BeginRecovery(p)
  <2>1. /\ job'[p].seen = Blank /\ job'[p].snap = payload[lock.op].before
        /\ job'[p].bundle \in {NoRecords, payload[lock.op].moves}
    BY <1>9 DEF BeginRecovery, NoJob
  <2>2. lock.op \in OpIds
    BY <1>9 DEF BeginRecovery, Readable, Typed, LockTyped, OpIds
  <2> QED BY <1>0, <2>1, <2>2 DEF OldJob, OldFile
<1> QED BY <1>1, <1>2, <1>3, <1>4, <1>5, <1>6, <1>7, <1>8, <1>9 DEF Reads

(* Every step keeps the quiet surfaces to the first records.               *)
LEMMA NextOld == Typed /\ Ownership /\ OldInv /\ [Next]_vars => OldInv'
<1> SUFFICES ASSUME Typed, Ownership, OldInv, [Next]_vars PROVE OldInv'
  OBVIOUS
<1>1. ASSUME NEW p \in Procs, OperationStep(p) \/ Crash(p) PROVE OldInv'
  <2>1. OldJob(p) /\ OldImage(live)
    BY DEF OldInv
  <2>2. OldImage(live')
    <3>1. CASE Writes(p)
      BY <2>1, <3>1, WritesKnown DEF OldImage, OldJob, OldBundle, Quiet
    <3> QED BY <1>1, <2>1, <3>1, OthersReadOnly
  <2>3. ASSUME NEW o \in OpIds PROVE OldFile(o)'
    <3>1. OldFile(o)
      BY DEF OldInv
    <3>2. OldBundle(entry'[o].bundle)
      BY <1>1, <2>1, <3>1, EntryKnown DEF OldFile, OldJob, OldBundle, Quiet
    <3>3. PaysKnown(p, o) /\ \A t \in Surfaces : Blank[t].own = {} /\ NoRecords[t] = {}
      BY <1>1, PayloadKnown DEF Blank, NoRecords
    <3>4. NoPayload.before = Blank /\ NoPayload.moves = NoRecords
      BY DEF NoPayload
    <3>5. OldImage(payload'[o].before) /\ OldBundle(payload'[o].moves)
      BY <2>1, <3>1, <3>3, <3>4 DEF PaysKnown, OldFile, OldJob, OldImage, OldBundle, Quiet
    <3> QED BY <3>2, <3>5 DEF OldFile
  <2>4. ASSUME NEW q \in Procs PROVE OldJob(q)'
    <3>1. CASE q = p
      <4>1. CASE Reads(p)
        BY <3>1, <4>1, ReadsOld
      <4>2. CASE SameTask(p)
        BY <2>1, <3>1, <4>2 DEF SameTask, OldJob
      <4>3. CASE Stopped(p)
        BY <3>1, <4>3 DEF Stopped, NoJob, OldJob, OldImage, OldBundle, Quiet, Blank, NoRecords
      <4> QED BY <1>1, <4>1, <4>2, <4>3, TaskGoesOn
    <3>2. CASE q # p
      <4>1. job'[q] = job[q]
        BY <1>1, <3>2, OthersAreLeft DEF OthersStay
      <4> QED BY <4>1 DEF OldInv, OldJob
    <3> QED BY <3>1, <3>2
  <2> QED BY <2>2, <2>3, <2>4 DEF OldInv
<1>2. CASE CodexStep
  <2> PICK s \in Surfaces : CodexAdds(s) \/ CodexChangesOthers(s)
    BY <1>2 DEF CodexStep
  <2>1. \A t \in Quiet : live'[t].own = live[t].own
    BY DEF Quiet, CodexAdds, CodexChangesOthers, Typed, DataTyped, Images, Value
  <2>2. UNCHANGED <<payload, entry, job>>
    BY DEF CodexAdds, CodexChangesOthers, disk, bin
  <2> QED BY <2>1, <2>2 DEF OldInv, OldImage, OldFile, OldJob
<1>3. CASE UNCHANGED vars
  BY <1>3 DEF vars, OldInv, OldImage, OldFile, OldJob
<1> QED BY <1>1, <1>2, <1>3 DEF Next

(* A process that does not work makes no claims on marks or captures.      *)
LEMMA IdleAhead ==
  ASSUME NEW q \in Procs, ~Working(q), pc'[q] = pc[q]
  PROVE  AheadAt(q)'
BY DEF Working, AheadAt, MarksFit, StartedFit, CaptureFits, MarkingAt, DeleteAt, CommitAt, TrashAt,
       MoveAt, EntryMadeAt

(* The one process that works keeps AheadInv.                              *)
LEMMA StepAhead ==
  ASSUME NEW p \in Procs, OthersStay(p), \A q \in Procs \ {p} : ~Working(q), AheadAt(p)',
         \A o \in OpIds : Marked(o)'
  PROVE  AheadInv'
<1>1. ASSUME NEW q \in Procs \ {p} PROVE AheadAt(q)'
  BY IdleAhead DEF OthersStay
<1> QED BY <1>1 DEF AheadInv

(* Marked is kept where surfaces only grow, get back to what was recorded  *)
(* or have their mark, and marks are only added.                           *)
Calm(o) ==
  /\ lock.op = o
  /\ payload'[o] = payload[o] \/ Strategy(payload'[o].kind) # "rollback"
  /\ journal[o].marks \subseteq journal'[o].marks
  /\ \A s \in payload[o].covers \ {"logs"} :
       \/ live[s].own \subseteq live'[s].own
       \/ payload[o].before[s].own \subseteq live'[s].own
       \/ <<s, "started">> \in journal'[o].marks
(* The calm steps keep Marked.                                             *)
LEMMA CalmMarked ==
  ASSUME \A o \in OpIds : Marked(o), \A o \in OpIds : lock'.op = o => Calm(o)
  PROVE  \A o \in OpIds : Marked(o)'
BY DEF Calm, Marked, Intact

(* An operation that is rolled forward needs no marks.                     *)
LEMMA ForwardAhead ==
  ASSUME ReleaseSucceeds, Consistent, (Typed /\ Ownership /\ JournalInv)', NEW p \in Procs,
         Working(p), ~Deletes(p), Stays(p)
  PROVE  AheadAt(p)' /\ \A o \in OpIds : Marked(o)'
<1> USE DEF Consistent
<1>0. lock.op = job[p].op /\ job[p].op \in OpIds /\ Fits(p) /\ KindFits(p)'
  BY WorkerFits DEF JournalInv, Fits
<1>1. job'[p].kind \in {job[p].kind, "none"}
  BY DEF Stays, GoesOn, NoJob
<1>2. ~Deletes(p)'
  BY <1>1 DEF Deletes
<1>3. AheadAt(p)'
  BY <1>0, <1>2 DEF AheadAt, MarksFit, StartedFit, CaptureFits, KindFits, DeleteAt, Deletes
<1>4. ASSUME NEW o \in OpIds PROVE Marked(o)'
  <2>1. CASE o = lock.op
    <3>1. payload'[o].kind \in {job[p].kind, "none"}
      BY <1>0, <2>1 DEF Stays, Fits, PayloadFits
    <3> QED BY <3>1 DEF Marked, Strategy, Deletes
  <2>2. CASE o # lock.op
    BY <2>2 DEF Stays, Marked
  <2> QED BY <2>1, <2>2
<1> QED BY <1>3, <1>4

(* What a write of the journal leaves in it.                               *)
Grows(p) == journal[job[p].op].marks \subseteq journal'[job[p].op].marks
KeepsNotes(p) ==
  /\ Grows(p)
  /\ \/ job'[p].op = job[p].op /\ journal'[job[p].op].marks \subseteq job'[p].marks
     \/ Stopped(p)
(* A journal written from memory loses no mark.                            *)
LEMMA WroteNotes ==
  ASSUME Typed, NEW p \in Procs, job[p].op \in OpIds, NEW stage, NEW m, NEW o,
         WriteJournal(p, stage, m, o), journal[job[p].op].marks \subseteq job[p].marks,
         job[p].marks \subseteq m
  PROVE  Grows(p) /\ journal'[job[p].op].marks \subseteq m
BY DEF Typed, WriteJournal, Grows

(* The steps of a delete keep what they have noted.                        *)
LEMMA DeleteNotes ==
  ASSUME Typed, NEW p \in Procs, job[p].op \in OpIds,
         journal[job[p].op].marks \subseteq job[p].marks, DeleteStep(p) \/ UndoStep(p)
  PROVE  KeepsNotes(p)
<1> USE TaskStays, StopLeaves, JobFunction DEF KeepsNotes, SameTask, disk
<1>0. ASSUME journal' = journal,
             \/ job' = job \/ CommitFails(p) \/ PrepareFails(p)
             \/ \E stage, next : ReleaseAs(p, stage, next)
             \/ \E i : job' = [job EXCEPT ![p].snap = i]
             \/ \E t : job' = [job EXCEPT ![p].todo = t]
             \/ \E d : job' = [job EXCEPT ![p].done = d]
      PROVE  KeepsNotes(p)
  BY <1>0 DEF Grows, Jobs
<1>1. CASE EnterPrepared(p)
  BY <1>1, WroteNotes DEF EnterPrepared
<1>2. CASE CheckSelection(p)
  BY <1>0, <1>2 DEF CheckSelection
<1>3. CASE Capture(p)
  BY <1>0, <1>3 DEF Capture
<1>4. CASE WritePayload(p)
  BY <1>0, <1>4 DEF WritePayload
<1>5. CASE Recheck(p)
  BY <1>0, <1>5 DEF Recheck
<1>6. CASE EnterCommitting(p)
  <2>1. \E o : WriteJournal(p, "committing", job[p].marks, o)
    BY <1>6 DEF EnterCommitting
  <2>2. CommitFails(p) \/ job' = [job EXCEPT ![p].todo = CommitPlan(p)]
    BY <1>6 DEF EnterCommitting
  <2>3. job'[p].op = job[p].op /\ job'[p].marks = job[p].marks
    BY <2>2 DEF Jobs
  <2> QED BY <2>1, <2>3, WroteNotes
<1>7. CASE StartSurface(p)
  <2> PICK s \in First(job[p].todo, CommitRank), o \in Outcome("journal") :
        /\ WriteJournal(p, "committing", StartMarks(p, s), o)
        /\ job' = [job EXCEPT ![p] =
                  [job[p] EXCEPT !.marks = StartMarks(p, s), !.done = SqliteStarted(p, s),
                                 !.cur = IF Throws(o) THEN {} ELSE {s},
                                 !.todo = IF Throws(o) THEN SqliteStarted(p, s) ELSE job[p].todo]]
    BY <1>7 DEF StartSurface
  <2>1. job'[p].op = job[p].op /\ job'[p].marks = StartMarks(p, s)
    BY Edited
  <2>2. job[p].marks \subseteq StartMarks(p, s)
    BY DEF StartMarks
  <2> QED BY <2>1, <2>2, WroteNotes
<1>8. CASE MarkSurface(p)
  <2> DEFINE m == job[p].marks \cup {<<s, "committed">> : s \in job[p].cur}
  <2> PICK o \in Outcome("journal") :
        /\ WriteJournal(p, "committing", m, o)
        /\ job' = [job EXCEPT ![p] = [job[p] EXCEPT !.marks = m, !.cur = {},
                              !.todo = IF Throws(o) THEN job[p].done ELSE job[p].todo \ job[p].cur]]
    BY <1>8 DEF MarkSurface
  <2>1. job[p].marks \subseteq m
    OBVIOUS
  <2> HIDE DEF m
  <2> DEFINE j == [job[p] EXCEPT !.marks = m, !.cur = {},
                              !.todo = IF Throws(o) THEN job[p].done ELSE job[p].todo \ job[p].cur]
  <2>2. job'[p] = j
    OBVIOUS
  <2>3. j.op = job[p].op /\ j.marks = m
    BY DEF Jobs
  <2> HIDE DEF j
  <2> QED BY <2>1, <2>2, <2>3, WroteNotes
<1>9. CASE EnterVerifying(p)
  <2>1. \E o : WriteJournal(p, "verifying", job[p].marks, o)
    BY <1>9 DEF EnterVerifying
  <2>2. Stop(p) \/ \E stage, next : ReleaseAs(p, stage, next)
    BY <1>9 DEF EnterVerifying
  <2>3. Stopped(p) \/ (job'[p].op = job[p].op /\ job'[p].marks = job[p].marks)
    BY <2>2 DEF Stopped
  <2> QED BY <2>1, <2>3, WroteNotes
<1>10. CASE RemoveFromIndex(p)
  BY <1>0, <1>10 DEF RemoveFromIndex
<1>11. CASE RemoveFromGlobalState(p)
  BY <1>0, <1>11 DEF RemoveFromGlobalState
<1>12. CASE UndoGlobalState(p)
  BY <1>0, <1>12 DEF UndoGlobalState
<1>13. CASE RemoveFile(p)
  BY <1>0, <1>13 DEF RemoveFile
<1>14. CASE RemoveRows(p)
  BY <1>0, <1>14 DEF RemoveRows
<1>15. CASE RemoveLogs(p)
  BY <1>0, <1>15 DEF RemoveLogs
<1>16. CASE UndoSurface(p)
  BY <1>0, <1>16 DEF UndoSurface
<1>17. CASE UndoEnds(p)
  BY <1>0, <1>17 DEF UndoEnds
<1> QED BY <1>1, <1>2, <1>3, <1>4, <1>5, <1>6, <1>7, <1>8, <1>9, <1>10, <1>11, <1>12, <1>13, <1>14,
           <1>15, <1>16, <1>17 DEF DeleteStep, UndoStep

(* So do those of a move to the trash.                                     *)
LEMMA TrashNotes ==
  ASSUME Typed, NEW p \in Procs, job[p].op \in OpIds,
         journal[job[p].op].marks \subseteq job[p].marks, TrashStep(p)
  PROVE  KeepsNotes(p)
<1> USE TaskStays, JobFunction DEF KeepsNotes, SameTask, disk, DropTmp, KeepEntry
<1>0. ASSUME journal' = journal,
             \/ job' = job \/ \E stage, next : ReleaseAs(p, stage, next)
             \/ \E b : job' = [job EXCEPT ![p].bundle = b]
      PROVE  KeepsNotes(p)
  BY <1>0 DEF Grows, Jobs
<1>1. CASE WriteTrashPayload(p)
  BY <1>0, <1>1 DEF WriteTrashPayload
<1>2. CASE MakeTmp(p)
  BY <1>0, <1>2 DEF MakeTmp
<1>3. CASE BuildBundle(p)
  BY <1>0, <1>3 DEF BuildBundle
<1>4. CASE CommitTrashEntry(p)
  BY <1>0, <1>4 DEF CommitTrashEntry
<1>5. CASE MarkTrashEntry(p)
  <2>1. \E o : WriteJournal(p, "committing", job[p].marks, o)
    BY <1>5 DEF MarkTrashEntry
  <2>2. job' = job \/ \E stage, next : ReleaseAs(p, stage, next)
    BY <1>5 DEF MarkTrashEntry
  <2> QED BY <2>1, <2>2, WroteNotes
<1>6. CASE DropTrash(p)
  BY <1>0, <1>6 DEF DropTrash
<1>7. CASE TearEntry(p)
  BY <1>0, <1>7 DEF TearEntry
<1> QED BY <1>1, <1>2, <1>3, <1>4, <1>5, <1>6, <1>7 DEF TrashStep

(* A removal touches the surface that has its checkpoint, or the logs.     *)
LEMMA RemovalTouches ==
  ASSUME Typed, NEW p \in Procs,
         \/ RemoveFromIndex(p) \/ RemoveFromGlobalState(p) \/ RemoveFile(p) \/ RemoveRows(p)
         \/ RemoveLogs(p),
         NEW s \in Surfaces \ {"logs"}, live'[s] # live[s]
  PROVE  pc[p] = "remove" /\ s \in job[p].cur
<1> USE DEF Typed, DataTyped, Images, TakeOut
<1>1. CASE RemoveFromIndex(p)
  BY <1>1 DEF RemoveFromIndex
<1>2. CASE RemoveFromGlobalState(p)
  BY <1>2 DEF RemoveFromGlobalState
<1>3. CASE RemoveFile(p)
  BY <1>3 DEF RemoveFile
<1>4. CASE RemoveRows(p)
  BY <1>4 DEF RemoveRows
<1>5. CASE RemoveLogs(p)
  BY <1>5 DEF RemoveLogs
<1> QED BY <1>1, <1>2, <1>3, <1>4, <1>5

(* Of first records, equal numbers are equal sets.                         *)
LEMMA AsManyOld ==
  ASSUME NEW a, NEW b, a \subseteq {0}, b \subseteq {0}, Cardinality(b) = Cardinality(a)
  PROVE  a = b
<1>1. Cardinality({}) = 0 /\ Cardinality({0}) = 1
  BY FS_EmptySet, FS_Singleton
<1>2. (a = {} \/ a = {0}) /\ (b = {} \/ b = {0})
  OBVIOUS
<1>3. 0 # 1
  OBVIOUS
<1> QED BY <1>1, <1>2, <1>3, Zenon

(* Where nothing is added to the references, as many are the same ones.    *)
LEMMA SameReferences ==
  ASSUME QuietReferences, OldInv, NEW p \in Procs, SelectionCurrent(p)
  PROVE  job[p].seen["global-state"].own = live["global-state"].own
<1>1. "global-state" \in Quiet /\ "global-state" \in Surfaces /\ "global-state" \notin Files
  BY ListsApart DEF Lists, Quiet, QuietReferences
<1>2. job[p].seen["global-state"].own \subseteq {0} /\ live["global-state"].own \subseteq {0}
  BY <1>1 DEF OldInv, OldJob, OldImage
<1>3. Cardinality(live["global-state"].own) = Cardinality(job[p].seen["global-state"].own)
  BY <1>1 DEF SelectionCurrent, SamePreview
<1> QED BY <1>2, <1>3, AsManyOld

(* The steps of a delete keep marks and captures.                          *)
LEMMA DeleteAhead ==
  ASSUME ReleaseSucceeds, QuietReferences, Consistent, OldInv, AheadInv, NEW p \in Procs,
         Deletes(p), DeleteStep(p) \/ UndoStep(p)
  PROVE  AheadAt(p)' /\ \A o \in OpIds : Marked(o)'
<1> USE JobFunction DEF Consistent
<1> DEFINE op == job[p].op
<1>0. /\ Working(p) /\ op \in OpIds /\ lock.op = op /\ lock' = lock
  BY DeleteStays, UndoStays, WorkerFits DEF Stays, Holding, Working
<1>1. pc[p] \in MarkingAt
  BY DEF DeleteStep, EnterPrepared, CheckSelection, Capture, WritePayload, Recheck,
         EnterCommitting, StartSurface, MarkSurface, EnterVerifying, RemoveFromIndex,
         RemoveFromGlobalState, UndoGlobalState, RemoveFile, RemoveRows, RemoveLogs,
         UndoStep, UndoSurface, UndoEnds, MarkingAt, DeleteAt, CommitAt, TrashAt, EntryMadeAt
<1>2. journal[op].marks \subseteq job[p].marks
  BY <1>1 DEF AheadInv, AheadAt, MarksFit
<1>3. KeepsNotes(p)
  BY <1>0, <1>2, DeleteNotes
<1>4. MarksFit(p)'
  BY <1>3 DEF KeepsNotes, MarksFit, Stopped, MarkingAt, DeleteAt, CommitAt, TrashAt, MoveAt,
              EntryMadeAt
<1>5. StartedFit(p)'
  <2>1. CASE StartSurface(p)
    <3> PICK s \in First(job[p].todo, CommitRank), o \in Outcome("journal") :
          /\ WriteJournal(p, "committing", StartMarks(p, s), o)
          /\ job' = [job EXCEPT ![p] =
                    [job[p] EXCEPT !.marks = StartMarks(p, s), !.done = SqliteStarted(p, s),
                                   !.cur = IF Throws(o) THEN {} ELSE {s},
                                   !.todo = IF Throws(o) THEN SqliteStarted(p, s) ELSE job[p].todo]]
      BY <2>1 DEF StartSurface
    <3>1. job'[p].op = op /\ job'[p].cur = IF Throws(o) THEN {} ELSE {s}
      BY Edited DEF SameTask
    <3>2. ~Throws(o) => journal'[op].marks = StartMarks(p, s)
      BY <1>0 DEF WriteJournal, Effect, Throws, Typed
    <3> QED BY <3>1, <3>2 DEF StartedFit, StartMarks
  <2>2. CASE ~StartSurface(p)
    <3>1. pc'[p] # "remove"
      BY <2>2
         DEF DeleteStep, EnterPrepared, CheckSelection, Capture, WritePayload, Recheck,
             EnterCommitting, MarkSurface, EnterVerifying, RemoveFromIndex,
             RemoveFromGlobalState, UndoGlobalState, RemoveFile, RemoveRows, RemoveLogs,
             UndoStep, UndoSurface, UndoEnds, Goto, ReleaseAs, CommitFails, PrepareFails, Stop
    <3> QED BY <3>1 DEF StartedFit
  <2> QED BY <2>1, <2>2
<1>6. CaptureFits(p)'
  <2>1. CASE CheckSelection(p)
    <3>1. pc'[p] # "payload" /\ live' = live
          /\ (pc'[p] = "capture" => SelectionCurrent(p) /\ job' = job)
      BY <2>1 DEF CheckSelection, Goto, PrepareFails, ReleaseAs, data
    <3> QED BY <3>1, SameReferences DEF CaptureFits
  <2>2. CASE Capture(p)
    <3> DEFINE i == [live EXCEPT !["global-state"] = job[p].seen["global-state"]]
    <3>1. pc[p] = "capture" /\ pc'[p] # "capture" /\ live' = live
          /\ (pc'[p] = "payload" => job' = [job EXCEPT ![p].snap = i])
      BY <2>2 DEF Capture, Goto, PrepareFails, ReleaseAs, data
    <3>2. \A s \in Surfaces : i[s].own \subseteq live[s].own
      BY <3>1 DEF AheadInv, AheadAt, CaptureFits, Typed, DataTyped, Images
    <3> HIDE DEF i
    <3>3. CASE pc'[p] = "payload"
      <4>1. job'[p].snap = i /\ Covered(p)' \subseteq Surfaces
        BY <3>1, <3>3, ListsApart DEF Jobs, Covered, Targets, Indexes
      <4> QED BY <3>1, <3>2, <4>1 DEF CaptureFits
    <3> QED BY <3>1, <3>3 DEF CaptureFits
  <2>3. CASE ~CheckSelection(p) /\ ~Capture(p)
    <3>1. pc'[p] \notin {"capture", "payload"}
      BY <2>3
         DEF DeleteStep, EnterPrepared, WritePayload, Recheck, StartSurface,
             EnterCommitting, MarkSurface, EnterVerifying, RemoveFromIndex,
             RemoveFromGlobalState, UndoGlobalState, RemoveFile, RemoveRows, RemoveLogs,
             UndoStep, UndoSurface, UndoEnds, Goto, ReleaseAs, CommitFails, PrepareFails, Stop
    <3> QED BY <3>1 DEF CaptureFits
  <2> QED BY <2>1, <2>2, <2>3
<1>7. \A o \in OpIds : Marked(o)'
  <2>1. CASE WritePayload(p)
    <3> DEFINE v == [kind |-> job[p].kind, covers |-> Covered(p), before |-> BeforeImage(p),
                     moves |-> NoRecords, from |-> 0, sealed |-> ~OwnsLock(p)]
    <3>1. (payload' = payload \/ payload' = [payload EXCEPT ![op] = v]) /\ live' = live
      BY <2>1 DEF WritePayload, data
    <3>2. v.covers = Covered(p) /\ v.before = BeforeImage(p)
      OBVIOUS
    <3>3. \A s \in Covered(p) \ {"logs"} : BeforeImage(p)[s].own \subseteq live[s].own
      <4>1. Covered(p) \subseteq Surfaces
        BY ListsApart DEF Covered, Targets, Indexes
      <4> QED BY <2>1, <4>1 DEF WritePayload, AheadInv, AheadAt, CaptureFits, BeforeImage
    <3> HIDE DEF v
    <3>4. CASE payload' = payload
      BY <1>0, <1>3, <3>1, <3>4, CalmMarked DEF Calm, AheadInv, KeepsNotes, Grows
    <3>5. CASE payload' = [payload EXCEPT ![op] = v]
      <4>1. payload'[op] = v
        BY <1>0, <3>5 DEF Typed
      <4> QED BY <1>0, <3>1, <3>2, <3>3, <4>1 DEF Marked, Intact
    <3> QED BY <3>1, <3>4, <3>5
  <2>2. CASE ~WritePayload(p)
    <3>1. payload' = payload
      BY <2>2 DEF DeleteStep, EnterPrepared, CheckSelection, Capture, Recheck,
              EnterCommitting, StartSurface, MarkSurface, EnterVerifying, RemoveFromIndex,
              RemoveFromGlobalState, UndoGlobalState, RemoveFile, RemoveRows, RemoveLogs,
              UndoStep, UndoSurface, UndoEnds, disk
    <3>2. ASSUME NEW s \in payload[op].covers \ {"logs"}
          PROVE  live[s].own \subseteq live'[s].own \/ <<s, "started">> \in journal'[op].marks
      <4>0. s \in Surfaces \ {"logs"}
        BY <1>0 DEF Typed, Payloads
      <4>1. CASE \/ RemoveFromIndex(p) \/ RemoveFromGlobalState(p) \/ RemoveFile(p)
                 \/ RemoveRows(p) \/ RemoveLogs(p)
        <5>1. CASE live'[s] # live[s]
          <6>1. <<s, "started">> \in journal[op].marks
            BY <4>0, <4>1, <5>1, RemovalTouches DEF AheadInv, AheadAt, StartedFit
          <6> QED BY <1>3, <6>1 DEF KeepsNotes, Grows
        <5> QED BY <5>1
      <4>2. CASE UndoSurface(p) \/ UndoGlobalState(p)
        BY <4>0, <4>2, UndoAdds
      <4>3. CASE \/ EnterPrepared(p) \/ CheckSelection(p) \/ Capture(p) \/ Recheck(p)
                 \/ EnterCommitting(p) \/ StartSurface(p) \/ MarkSurface(p) \/ EnterVerifying(p)
                 \/ UndoEnds(p)
        <5>1. live' = live
          BY <4>3 DEF EnterPrepared, CheckSelection, Capture, Recheck, EnterCommitting,
                  StartSurface, MarkSurface, EnterVerifying, UndoEnds, data
        <5> QED BY <5>1
      <4> QED BY <2>2, <4>1, <4>2, <4>3 DEF DeleteStep, UndoStep
    <3> QED BY <1>0, <1>3, <3>1, <3>2, CalmMarked DEF Calm, AheadInv, KeepsNotes, Grows
  <2> QED BY <2>1, <2>2
<1> QED BY <1>4, <1>5, <1>6, <1>7 DEF AheadAt

(* A process that is at none of the places the invariant speaks of.        *)
LEMMA ElsewhereAhead ==
  ASSUME NEW p \in Procs, pc'[p] \notin MarkingAt
  PROVE  AheadAt(p)'
BY DEF AheadAt, MarksFit, StartedFit, CaptureFits, MarkingAt, DeleteAt, CommitAt

(* The steps of a move to the trash keep marks and captures.               *)
LEMMA TrashAhead ==
  ASSUME ReleaseSucceeds, Consistent, AheadInv, NEW p \in Procs, Deletes(p), TrashStep(p)
  PROVE  AheadAt(p)' /\ \A o \in OpIds : Marked(o)'
<1> USE JobFunction DEF Consistent
<1> DEFINE op == job[p].op
<1>0. /\ Working(p) /\ op \in OpIds /\ lock.op = op /\ lock' = lock /\ live' = live
  BY TrashStays, WorkerFits DEF Stays, Holding, Working, TrashStep, WriteTrashPayload, MakeTmp,
     BuildBundle, CommitTrashEntry, MarkTrashEntry, DropTrash, TearEntry, data
<1>1. CASE TearEntry(p) /\ pc[p] \notin MarkingAt
  <2>1. pc'[p] \notin MarkingAt
    BY <1>1 DEF TearEntry, Goto, MarkingAt, DeleteAt, CommitAt, TrashAt, MoveAt, EntryMadeAt
  <2>2. UNCHANGED <<journal, payload>>
    BY <1>1 DEF TearEntry, disk
  <2> QED BY <1>0, <2>1, <2>2, ElsewhereAhead, CalmMarked DEF Calm, AheadInv
<1>2. CASE pc[p] \in MarkingAt
  <2>1. journal[op].marks \subseteq job[p].marks
    BY <1>2 DEF AheadInv, AheadAt, MarksFit
  <2>2. KeepsNotes(p)
    BY <1>0, <2>1, TrashNotes
  <2>3. MarksFit(p)'
    BY <2>2 DEF KeepsNotes, MarksFit, Stopped, MarkingAt, DeleteAt, CommitAt, TrashAt, MoveAt,
                EntryMadeAt
  <2>4. pc'[p] \notin {"remove", "capture", "payload"}
    BY <1>2 DEF TrashStep, WriteTrashPayload, MakeTmp, BuildBundle, CommitTrashEntry,
            MarkTrashEntry, DropTrash, TearEntry, DropTmp, KeepEntry, Goto, ReleaseAs
  <2>5. \A o \in OpIds : Marked(o)'
    <3>1. CASE WriteTrashPayload(p)
      <4> DEFINE v == TrashPayload(pc[p] = "trash-seal")
      <4>1. payload' = payload \/ payload' = [payload EXCEPT ![op] = v]
        BY <3>1 DEF WriteTrashPayload
      <4>2. v.covers = {}
        BY DEF TrashPayload
      <4> HIDE DEF v
      <4>3. CASE payload' = payload
        BY <1>0, <2>2, <4>3, CalmMarked DEF Calm, AheadInv, KeepsNotes, Grows
      <4>4. CASE payload' = [payload EXCEPT ![op] = v]
        <5>1. payload'[op].covers = {}
          BY <1>0, <4>2, <4>4 DEF Typed
        <5> QED BY <1>0, <5>1 DEF Marked
      <4> QED BY <4>1, <4>3, <4>4
    <3>2. CASE ~WriteTrashPayload(p)
      <4>1. payload' = payload
        BY <3>2 DEF TrashStep, MakeTmp, BuildBundle, CommitTrashEntry, MarkTrashEntry, DropTrash,
                TearEntry, disk
      <4> QED BY <1>0, <2>2, <4>1, CalmMarked DEF Calm, AheadInv, KeepsNotes, Grows
    <3> QED BY <3>1, <3>2
  <2> QED BY <2>3, <2>4, <2>5 DEF AheadAt, StartedFit, CaptureFits
<1>3. pc[p] \in MarkingAt \/ TearEntry(p)
  BY DEF TrashStep, WriteTrashPayload, MakeTmp, BuildBundle, CommitTrashEntry, MarkTrashEntry,
         DropTrash, MarkingAt, TrashAt, MoveAt, EntryMadeAt
<1> QED BY <1>1, <1>2, <1>3

(* The steps of a release keep marks and captures.                         *)
LEMMA ReleaseAhead ==
  ASSUME ReleaseSucceeds, Consistent, AheadInv, NEW p \in Procs, ReleaseStep(p)
  PROVE  Working(p) /\ AheadAt(p)' /\ \A o \in OpIds : Marked(o)'
<1> USE JobFunction, ReleaseIsQuiet DEF Consistent
<1> DEFINE op == job[p].op
<1>0. Working(p) /\ pc[p] # "lock-created"
  BY DEF ReleaseStep, ReleaseStage, ReleaseCheck, ReleasePayload, ReleaseUnlock, Working
<1>1. op \in OpIds /\ lock.op = op /\ lock.written /\ Fits(p)
  BY <1>0, WorkerFits, OneWorker
<1>2. pc'[p] \in {"idle", "rel-check", "rel-payload", "rel-unlock"}
  BY <1>1 DEF ReleaseStep, ReleaseStage, ReleaseCheck, ReleasePayload, ReleaseUnlock, Throws,
          OwnsLockFile, Stop, Goto
<1>3. AheadAt(p)'
  BY <1>2, ElsewhereAhead DEF MarkingAt, DeleteAt, CommitAt, TrashAt, MoveAt, EntryMadeAt
<1>4. lock'.op \in {0, op} /\ live' = live
  BY <1>1 DEF ReleaseStep, ReleaseStage, ReleaseCheck, ReleasePayload, ReleaseUnlock, disk, data,
          NoLock
<1>5. payload' = payload \/ (journal' = journal /\ payload' = [payload EXCEPT ![op] = NoPayload])
  BY <1>1 DEF ReleaseStep, ReleaseStage, ReleaseCheck, ReleasePayload, ReleaseUnlock, disk
<1>6. CASE payload' = [payload EXCEPT ![op] = NoPayload]
  <2>1. payload'[op].kind = "none"
    BY <1>1, <1>6 DEF Typed, NoPayload
  <2> QED BY <1>0, <1>1, <1>3, <1>4, <2>1 DEF Marked, Strategy, OpIds
<1>7. CASE payload' = payload
  <2>1. CASE Deletes(p)
    <3>1. Grows(p)
      <4>1. CASE ReleaseStage(p)
        <5>1. journal[op].marks \subseteq job[p].marks
          BY <2>1, <4>1 DEF AheadInv, AheadAt, MarksFit, MarkingAt, ReleaseStage
        <5> QED BY <1>1, <4>1, <5>1, WroteNotes DEF ReleaseStage
      <4>2. CASE ~ReleaseStage(p)
        <5>1. journal' = journal
          BY <4>2 DEF ReleaseStep, ReleaseCheck, ReleasePayload, ReleaseUnlock, disk
        <5> QED BY <5>1 DEF Grows
      <4> QED BY <4>1, <4>2
    <3> QED BY <1>0, <1>1, <1>3, <1>4, <1>7, <3>1, CalmMarked DEF Calm, AheadInv, Grows, OpIds
  <2>2. CASE ~Deletes(p)
    <3>1. payload[op].kind \in {job[p].kind, "none"}
      BY <1>0, <1>1 DEF Fits, PayloadFits
    <3>2. Strategy(payload'[op].kind) # "rollback"
      BY <1>7, <2>2, <3>1 DEF Strategy, Deletes
    <3> QED BY <1>0, <1>1, <1>3, <1>4, <3>2 DEF Marked, OpIds
  <2> QED BY <2>1, <2>2
<1> QED BY <1>5, <1>6, <1>7

(* A recovery that rolls back puts back what was recorded.                 *)
LEMMA RecoveryAhead ==
  ASSUME ReleaseSucceeds, Consistent, DurableInv, AheadInv, NEW p \in Procs, Deletes(p),
         RecoveryStep(p), ~BeginRecovery(p), ~FinalizeUnlock(p)
  PROVE  AheadAt(p)' /\ \A o \in OpIds : Marked(o)'
<1> USE JobFunction DEF Consistent
<1> DEFINE op == job[p].op
<1>0. /\ Working(p) /\ op \in OpIds /\ lock.op = op /\ lock' = lock
  BY RecoveryStays, WorkerFits DEF Stays, Holding, Working
<1>1. pc'[p] \notin MarkingAt
  BY DEF RecoveryStep, RecoverSurface, SurfacesRecovered, RecoverQuarantine, RecoverTrash,
         RefuseTrash, FinalizeStage, FinalizePayload, Goto, Stop, MarkingAt, DeleteAt, CommitAt,
         TrashAt, MoveAt, EntryMadeAt
<1>2. Grows(p)
  <2>1. CASE FinalizeStage(p)
    BY <1>0, <2>1 DEF FinalizeStage, WriteJournal, Grows, Typed
  <2>2. CASE ~FinalizeStage(p)
    <3>1. journal' = journal
      BY <2>2 DEF RecoveryStep, RecoverSurface, SurfacesRecovered, RecoverQuarantine, RecoverTrash,
              RefuseTrash, FinalizePayload, disk
    <3> QED BY <3>1 DEF Grows
  <2> QED BY <2>1, <2>2
<1>3. payload'[op] \in {payload[op], NoPayload}
  <2>1. payload' = payload \/ payload' = [payload EXCEPT ![op] = NoPayload]
    BY DEF RecoveryStep, RecoverSurface, SurfacesRecovered, RecoverQuarantine, RecoverTrash,
           RefuseTrash, FinalizeStage, FinalizePayload, disk
  <2> QED BY <1>0, <2>1 DEF Typed
<1>4. ASSUME NEW s \in Surfaces
      PROVE  \/ live[s].own \subseteq live'[s].own
             \/ payload[op].before[s].own \subseteq live'[s].own
  <2>1. CASE RecoverSurface(p)
    <3>1. payload[op].before = job[p].snap
      BY <2>1 DEF RecoverSurface, DurableInv, DurableAt, MovesFit
    <3>2. live[s] \in Value
      BY DEF Typed, DataTyped, Images
    <3>3. \/ live[s].own \subseteq Desired(p, s).own
          \/ payload[op].before[s].own \subseteq Desired(p, s).own
      <4>1. CASE s \in Databases
        <5>1. Desired(p, s).own = live[s].own \cup job[p].snap[s].own \cup job[p].bundle[s]
          BY <3>2, <4>1 DEF Desired, Deletes, Value
        <5> QED BY <5>1
      <4>2. CASE s \notin Databases
        <5>1. Desired(p, s) = job[p].snap[s]
          BY <4>2 DEF Desired, Deletes, Strategy
        <5> QED BY <3>1, <5>1
      <4> QED BY <4>1, <4>2
    <3> PICK t \in First(job[p].todo, RecoveryRank) :
           live' = live \/ live' = [live EXCEPT ![t] = Desired(p, t)]
      BY <2>1 DEF RecoverSurface
    <3> QED BY <3>3 DEF Typed, DataTyped, Images
  <2>2. CASE ~RecoverSurface(p)
    <3>1. live' = live
      BY <2>2 DEF RecoveryStep, SurfacesRecovered, RecoverQuarantine, RecoverTrash, RefuseTrash,
              FinalizeStage, FinalizePayload, data
    <3> QED BY <3>1
  <2> QED BY <2>1, <2>2
<1>5. payload[op].covers \subseteq Surfaces /\ Strategy(NoPayload.kind) # "rollback"
  BY <1>0 DEF Typed, Payloads, NoPayload, Strategy
<1>6. \A o \in OpIds : Marked(o)'
  BY <1>0, <1>2, <1>3, <1>4, <1>5, CalmMarked DEF Calm, AheadInv, Grows
<1> QED BY <1>1, <1>6, ElsewhereAhead

(* Steps that change nothing an operation has written.                     *)
LEMMA StillAhead ==
  ASSUME AheadInv, NEW p \in Procs, OthersStay(p), UNCHANGED <<live, lock, journal, payload>>,
         pc'[p] \notin MarkingAt
  PROVE  AheadInv'
<1>1. \A o \in OpIds : Marked(o)'
  BY DEF AheadInv, Marked, Intact
<1>2. ASSUME NEW q \in Procs \ {p} PROVE AheadAt(q)'
  BY DEF AheadInv, OthersStay, AheadAt, MarksFit, StartedFit, CaptureFits, Deletes, Covered
<1> QED BY <1>1, <1>2, ElsewhereAhead DEF AheadInv

(* An operation that has just begun has no payload to be marked.           *)
LEMMA AcquireAhead ==
  ASSUME ReleaseSucceeds, Consistent, AheadInv, NEW p \in Procs, AcquireStep(p)
  PROVE  AheadInv'
<1> USE JobFunction DEF Consistent
<1>0. OthersStay(p)
  BY OthersAreLeft DEF OperationStep
<1>1. CASE (\E kind \in Kinds : ScanRoot(p, kind)) \/ LockIsTaken(p)
  <2>1. UNCHANGED <<live, lock, journal, payload>> /\ pc'[p] \in {"scanned", "idle"}
    BY <1>1 DEF ScanRoot, LockIsTaken, data, disk, Goto, Stop
  <2> QED BY <1>0, <2>1, StillAhead DEF MarkingAt, DeleteAt, CommitAt, TrashAt, MoveAt, EntryMadeAt
<1>2. CASE CreateLock(p)
  <2>1. /\ lock'.op = ops + 1 /\ pc'[p] = "lock-created" /\ lock.op = 0 /\ ops + 1 \in OpIds
        /\ payload' = payload /\ ops + 1 \notin 1 .. ops
    BY <1>2, BoundsAssumption DEF CreateLock, LockFree, Goto, Typed, CountTyped, OpIds
  <2>2. payload[ops + 1].kind = "none"
    BY <2>1 DEF JournalInv, FileFits
  <2>3. \A q \in Procs \ {p} : ~Working(q)
    BY <2>1, OneWorker DEF Typed, CountTyped
  <2>4. \A o \in OpIds : Marked(o)'
    BY <2>1, <2>2 DEF Marked, Strategy
  <2>5. AheadAt(p)'
    BY <2>1, ElsewhereAhead DEF MarkingAt, DeleteAt, CommitAt, TrashAt, MoveAt, EntryMadeAt
  <2> QED BY <1>0, <2>3, <2>4, <2>5, StepAhead
<1>3. CASE WriteLock(p)
  <2>1. /\ lock'.op = lock.op /\ pc'[p] \in {"idle", "lock-written"}
        /\ UNCHANGED <<live, journal, payload>> /\ Working(p)
    BY <1>3 DEF WriteLock, Goto, Stop, data, Typed, LockTyped, Working
  <2>2. \A o \in OpIds : Marked(o)'
    BY <2>1 DEF AheadInv, Marked, Intact
  <2>3. AheadAt(p)'
    BY <2>1, ElsewhereAhead DEF MarkingAt, DeleteAt, CommitAt, TrashAt, MoveAt, EntryMadeAt
  <2> QED BY <1>0, <2>1, <2>2, <2>3, OneWorker, StepAhead
<1>4. CASE CreateJournal(p)
  <2>1. /\ Working(p) /\ pc[p] = "lock-written" /\ UNCHANGED <<lock, payload>>
        /\ pc'[p] \in {"idle", "acquired"}
    BY <1>4 DEF CreateJournal, Goto, Stop, Working
  <2>2. job[p].op \in OpIds /\ lock.op = job[p].op /\ FileFits(job[p].op) /\ Fits(p)
    BY <2>1, WorkerFits
  <2>3. payload[job[p].op].kind = "none"
    BY <2>1, <2>2 DEF Fits, StageFits, FileFits, LockingAt
  <2>4. \A o \in OpIds : Marked(o)'
    BY <2>1, <2>2, <2>3 DEF Marked, Strategy
  <2>5. MarksFit(p)'
    <3>1. pc'[p] = "acquired" => job' = job /\ journal'[job[p].op].marks = {}
      BY <1>4, <2>2 DEF CreateJournal, WriteJournal, Effect, Throws, Stop, Typed
    <3> QED BY <2>1, <3>1 DEF MarksFit, MarkingAt, DeleteAt, CommitAt, TrashAt, MoveAt, EntryMadeAt
  <2>6. AheadAt(p)'
    BY <2>1, <2>5 DEF AheadAt, StartedFit, CaptureFits
  <2> QED BY <1>0, <2>1, <2>4, <2>6, OneWorker, StepAhead
<1> QED BY <1>1, <1>2, <1>3, <1>4 DEF AcquireStep

(* The initial states have no operation.                                   *)
LEMMA AheadBegins == Init => AheadInv
BY DEF Init, AheadInv, AheadAt, MarksFit, StartedFit, CaptureFits, MarkingAt, DeleteAt, CommitAt,
       TrashAt, MoveAt, EntryMadeAt, Marked, NoLock, OpIds

(* Restores, purges and cleanups are not deletes.                          *)
LEMMA ForwardKinds ==
  ASSUME NEW p \in Procs, KindFits(p),
         \/ RestoreStep(p) \/ PurgeStep(p)
         \/ CleanupStep(p) /\ ~CheckIndexes(p)
         \/ EntryStep(p) /\ ~(ReadForRestore(p) \/ ReadForPurge(p) \/ EntryNotFound(p))
  PROVE  ~Deletes(p)
<1> USE DEF KindFits, Deletes, CleanupAt, RestoreBeginsAt, RestoringAt, PurgingAt
<1>1. CASE RestoreStep(p)
  BY <1>1 DEF RestoreStep, CheckConflicts, CaptureRestore, WriteRestorePayload, StartRestore,
              RestoreText, RereadWritten, MarkRestored, RestoreRows, RemoveGoals, UndoRestore, UndoRestoreEnds,
              MarkRows, VerifyRestore
<1>2. CASE PurgeStep(p)
  BY <1>2 DEF PurgeStep, WritePurgePayload, RecheckPurge, CheckpointPurge, PurgeLogs,
              QuarantineEntry, RemoveQuarantine, VerifyPurge
<1>3. CASE CleanupStep(p) /\ ~CheckIndexes(p)
  BY <1>3 DEF CleanupStep, WriteCleanupPayload, RecheckCleanup, CommitCleanup, StartIndex,
              VerifyCleanup, Cleans
<1>4. CASE EntryStep(p) /\ ~(ReadForRestore(p) \/ ReadForPurge(p) \/ EntryNotFound(p))
  BY <1>4 DEF EntryStep, PrepareEntry, CheckEntry, CommitEntry, FromTrash
<1> QED BY <1>1, <1>2, <1>3, <1>4

(* Every step keeps AheadInv.                                              *)
LEMMA NextAhead ==
  ASSUME ReleaseSucceeds, SupervisedRecovery, QuietReferences
  PROVE  Consistent /\ (Typed /\ Ownership /\ JournalInv)' /\ DurableInv /\ OldInv /\ AheadInv
           /\ [Next]_vars => AheadInv'
<1> SUFFICES ASSUME Consistent, (Typed /\ Ownership /\ JournalInv)', DurableInv, OldInv, AheadInv,
                    [Next]_vars
             PROVE  AheadInv'
  OBVIOUS
<1> USE JobFunction DEF Consistent
<1>1. ASSUME NEW p \in Procs, OperationStep(p) \/ Crash(p) PROVE AheadInv'
  <2>0. OthersStay(p)
    BY <1>1, OthersAreLeft
  <2>1. CASE AcquireStep(p)
    BY <2>1, AcquireAhead
  <2>2. CASE \/ CheckIndexes(p) \/ ReadForRestore(p) \/ ReadForPurge(p) \/ EntryNotFound(p)
             \/ Crash(p) \/ BeginRecovery(p)
    <3>1. /\ UNCHANGED <<live, lock, journal, payload>>
          /\ pc'[p] \in {"idle", "checked", "rec", "fin-stage"}
      BY <2>2 DEF CheckIndexes, ReadForRestore, ReadForPurge, EntryNotFound, Crash, BeginRecovery,
              Goto, Stop, data, disk
    <3> QED BY <2>0, <3>1, StillAhead
            DEF MarkingAt, DeleteAt, CommitAt, TrashAt, MoveAt, EntryMadeAt
  <2>3. CASE FinalizeUnlock(p)
    <3>1. /\ lock'.op \in {0, lock.op} /\ UNCHANGED <<live, journal, payload>>
          /\ pc'[p] = "idle" /\ Working(p)
      BY <2>3 DEF FinalizeUnlock, Stop, NoLock, data, Working
    <3>2. ASSUME NEW o \in OpIds PROVE Marked(o)'
      <4>1. lock'.op = o => lock.op = o
        BY <3>1 DEF OpIds
      <4> QED BY <3>1, <4>1 DEF AheadInv, Marked, Intact
    <3>3. AheadAt(p)'
      BY <3>1, ElsewhereAhead DEF MarkingAt, DeleteAt, CommitAt, TrashAt, MoveAt, EntryMadeAt
    <3> QED BY <2>0, <3>1, <3>2, <3>3, OneWorker, StepAhead
  <2>4. CASE ReleaseStep(p)
    BY <2>0, <2>4, ReleaseAhead, OneWorker, StepAhead
  <2> DEFINE Owner ==
        \/ DeleteStep(p) \/ UndoStep(p) \/ TrashStep(p) \/ RestoreStep(p) \/ PurgeStep(p)
        \/ CleanupStep(p) /\ ~CheckIndexes(p)
        \/ EntryStep(p) /\ ~(ReadForRestore(p) \/ ReadForPurge(p) \/ EntryNotFound(p))
        \/ RecoveryStep(p) /\ ~BeginRecovery(p) /\ ~FinalizeUnlock(p)
  <2>5. CASE Owner
    <3>1. Stays(p) /\ Holding(p)
      BY <2>5, DeleteStays, UndoStays, TrashStays, RestoreStays, PurgeStays, CleanupStays,
         EntryStays, RecoveryStays
    <3>2. Working(p)
      BY <3>1 DEF Holding, Working
    <3>3. AheadAt(p)' /\ \A o \in OpIds : Marked(o)'
      <4>1. CASE ~Deletes(p)
        BY <3>1, <3>2, <4>1, ForwardAhead
      <4>2. CASE Deletes(p) /\ (DeleteStep(p) \/ UndoStep(p))
        BY <4>2, DeleteAhead
      <4>3. CASE Deletes(p) /\ TrashStep(p)
        BY <4>3, TrashAhead
      <4>4. CASE Deletes(p) /\ RecoveryStep(p) /\ ~BeginRecovery(p) /\ ~FinalizeUnlock(p)
        BY <4>4, RecoveryAhead
      <4> QED BY <2>5, <3>2, <4>1, <4>2, <4>3, <4>4, ForwardKinds, WorkerFits DEF Fits
    <3> QED BY <2>0, <3>2, <3>3, OneWorker, StepAhead
  <2> QED BY <1>1, <2>1, <2>2, <2>3, <2>4, <2>5 DEF OperationStep
<1>2. CASE CodexStep
  <2> PICK t \in Surfaces : CodexAdds(t) \/ CodexChangesOthers(t)
    BY <1>2 DEF CodexStep
  <2>1. \A s \in Surfaces : live[s].own \subseteq live'[s].own
    BY DEF CodexAdds, CodexChangesOthers, Typed, DataTyped, Images, Value
  <2>2. UNCHANGED <<lock, journal, payload, pc, job>>
    BY DEF CodexAdds, CodexChangesOthers, disk
  <2>3. ASSUME NEW o \in OpIds PROVE Marked(o)'
    <3>1. payload[o].covers \subseteq Surfaces
      BY DEF Typed, Payloads
    <3> QED BY <2>1, <2>2, <3>1 DEF AheadInv, Marked, Intact
  <2>4. ASSUME NEW p \in Procs PROVE AheadAt(p)'
    <3>1. Covered(p) \subseteq Surfaces /\ "global-state" \in Surfaces
      BY ListsApart DEF Covered, Targets, Indexes, Lists
    <3>2. CaptureFits(p)'
      BY <2>1, <2>2, <3>1 DEF AheadInv, AheadAt, CaptureFits, Covered
    <3> QED BY <2>2, <3>2 DEF AheadInv, AheadAt, MarksFit, StartedFit, Deletes
  <2> QED BY <2>3, <2>4 DEF AheadInv
<1>3. CASE UNCHANGED vars
  BY <1>3 DEF vars, AheadInv, AheadAt, MarksFit, StartedFit, CaptureFits, Marked, Intact, Deletes,
              Covered
<1> QED BY <1>1, <1>2, <1>3 DEF Next

(* The journal shows every surface a delete or a move to the trash may     *)
(* have changed: once a surface holds less than the payload recorded, its  *)
(* "started" checkpoint is on disk (the checkpoints of deleteSessions      *)
(* before each removal, delete.ts:730-815).                                *)
THEOREM ChangesAreMarked ==
  ASSUME ReleaseSucceeds, SupervisedRecovery, QuietReferences
  PROVE  Spec => []WriteAhead
<1>1. Init => Consistent /\ DurableInv /\ OldInv /\ AheadInv
  BY ConsistentAlways, DurableBegins, OldBegins, AheadBegins
<1>2. Consistent /\ DurableInv /\ OldInv /\ AheadInv /\ [Next]_vars =>
        (Consistent /\ DurableInv /\ OldInv /\ AheadInv)'
  BY ConsistentAlways, NextDurable, NextOld, NextAhead DEF Consistent
<1>3. Consistent /\ AheadInv => WriteAhead
  BY DEF AheadInv, Marked, Intact, WriteAhead
<1> QED BY <1>1, <1>2, <1>3, PTL DEF Spec
=============================================================================
