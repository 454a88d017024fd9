----------------------------- MODULE LedgerProofs -----------------------------
(***************************************************************************)
(* Deletes, moves to the trash, restores, purges, index cleanups and their *)
(* recoveries implement SelectionLedger.                                   *)
(***************************************************************************)
EXTENDS RollbackProofs

(* Codex does not write the root meanwhile.                                *)
QuietCodex == ExternalSurfaces = {}

(* What a user can rely on of a surface that holds these records, as the   *)
(* operation leaves it.                                                    *)
Shows(o, s, own) ==
  IF journal[o].stage \in Final THEN own
  ELSE IF payload[o].kind \in {"delete", "trash"} THEN own \cup payload[o].before[s].own
  ELSE IF payload[o].kind = "restore" THEN own \ (payload[o].moves[s] \ payload[o].before[s].own)
  ELSE own
Shown(o, s) == Shows(o, s, live[s].own)

Gone(s) == live[s].own = {}
(* What a restore adds is there; nothing of it is.                         *)
Has(o, s)   == payload[o].moves[s] \subseteq live[s].own
Clear(o, s) == live[s].own \cap payload[o].moves[s] \subseteq payload[o].before[s].own
Commits(p) == pc[p] = "rel-stage" /\ job[p].rel.stage = "committed"
Returns(p) == pc[p] = "rel-stage" /\ job[p].rel.stage = "rolled_back"

-----------------------------------------------------------------------------
(* A delete and a move.                                                    *)
SeenAt == {"capture", "payload"} \cup PaidAt
SeenFits(p, o) ==
  pc[p] \in SeenAt \/ Commits(p) => \A s \in Surfaces : job[p].seen[s].own = Shown(o, s)
SnapAt == {"payload"} \cup PaidAt \cup {"undo-global-state", "undo"}
SnapFits(p, o) == pc[p] \in SnapAt => \A s \in Surfaces : job[p].snap[s].own = Shown(o, s)
Comes(s, T) == s \in T \/ (s = "logs" /\ "sqlite-state" \in T)
TakenFits(p) ==
  LET left == job[p].todo \ job[p].cur IN
  /\ pc[p] \in {"commit", "remove"} => \A s \in Targets(job[p].kind) : Gone(s) \/ Comes(s, job[p].todo)
  /\ pc[p] = "remove-logs" => \A s \in Targets(job[p].kind) : Gone(s) \/ s \in left \/ s = "logs"
  /\ pc[p] = "mark" => \A s \in Targets(job[p].kind) : Gone(s) \/ Comes(s, left)
  /\ pc[p] = "remove" => \E s \in Surfaces : job[p].cur = {s}
  /\ pc[p] = "remove-logs" => job[p].cur = {"sqlite-state"}
  /\ Commits(p) => \A s \in Targets(job[p].kind) : Gone(s)
BundledAt == EntryMadeAt \cup DeleteAt \cup CommittingAt
Bundled(p, o, b) ==
  \A s \in Surfaces : b[s] = IF s = "logs" THEN {}
                             ELSE IF s \in Databases THEN Shown(o, s) ELSE job[p].seen[s].own
BundleFits(p, o) ==
  job[p].kind = "trash" =>
    /\ pc[p] \in {"trash-seal", "trash-rename"} => Bundled(p, o, job[p].bundle)
    /\ pc[p] \in BundledAt \/ Commits(p) => Bundled(p, o, entry[o].bundle)
TakeFits(p, o) == Deletes(p) => SeenFits(p, o) /\ SnapFits(p, o) /\ TakenFits(p) /\ BundleFits(p, o)
TakeRecord(o) ==
  payload[o].kind \in {"delete", "trash"} =>
    /\ \A s \in Surfaces : /\ payload[o].moves[s] = {}
                           /\ s \notin payload[o].covers => payload[o].before[s].own = {}
    /\ payload[o].kind = "trash" => "logs" \notin payload[o].covers

(* A restore.                                                              *)
NamedAt  == {"checked", "acquired", "entry"} \cup LockingAt \cup RestoreBeginsAt
NamedFits(p) ==
  pc[p] \in NamedAt /\ job[p].kind = "restore" =>
    /\ entry[job[p].from].state = "complete" => entry[job[p].from].bundle = job[p].bundle
    /\ job[p].bundle["logs"] = {}
FreshFits(p) ==
  pc[p] \in LockingAt \cup MoveAt \cup {"acquired"} =>
    \A q \in Procs : pc[q] \in NamedAt /\ job[q].kind = "restore" => job[q].from # job[p].op
PackedFits(p) == pc[p] \in {"trash-seal", "trash-rename"} => job[p].bundle["logs"] = {}
StoredFits(o) == entry[o].state = "complete" => entry[o].bundle["logs"] = {}
NameInv == /\ \A p \in Procs : NamedFits(p) /\ FreshFits(p) /\ PackedFits(p)
           /\ \A o \in OpIds : StoredFits(o)

BeforeAt == {"acquired", "entry"} \cup RestoreBeginsAt
FoundFits(p) ==
  /\ pc[p] \in BeforeAt \cup {"restore-commit"} => job[p].done = {}
  /\ pc[p] \in RestoreBeginsAt => entry[job[p].from].state = "complete"
  /\ pc[p] \in {"restore-capture", "restore-payload"} => \A s \in Rows : Gone(s)
  /\ pc[p] = "restore-payload" => /\ \A s \in Surfaces : job[p].snap[s].own = live[s].own
                                  /\ job[p].todo = RestorePlan(p)
RestoreAt == {"restore", "put-back", "restore-reread", "restore-mark"}
SetsFit(p, o) ==
  LET plan == payload[o] IN
  /\ pc[p] \in RestoringAt => \A s \in plan.covers \cap Texts : plan.before[s].own = job[p].snap[s].own
  /\ pc[p] = "restore-commit" => job[p].todo = plan.covers
  /\ pc[p] \in RestoreAt => Rows \subseteq job[p].todo /\ job[p].todo \subseteq plan.covers
  /\ pc[p] \in RestoreAt \cup {"unrestore-goals"} => job[p].done \subseteq plan.covers \cap Texts
  /\ pc[p] = "unrestore" => job[p].todo \subseteq plan.covers \cap Texts
  /\ pc[p] \in RestoreAt \ {"restore"} => \E s \in plan.covers : job[p].cur = {s}
  /\ pc[p] \in {"restore-reread", "restore-mark"} => job[p].cur \subseteq Texts
  /\ pc[p] = "put-back" /\ job[p].cur \cap Rows # {} => job[p].todo \subseteq Rows
HasFits(p, o) ==
  LET plan == payload[o] IN
  /\ pc[p] \in {"restore", "put-back"} => \A s \in plan.covers : Has(o, s) \/ s \in job[p].todo
  /\ pc[p] = "put-back" /\ job[p].cur = {"sqlite-state"} => Has(o, "sqlite-goals")
  /\ pc[p] \in {"restore-reread", "restore-mark"} =>
       \A s \in plan.covers : Has(o, s) \/ s \in job[p].todo \ job[p].cur
  /\ pc[p] \in {"restored", "restore-verify"} => \A s \in Surfaces : Has(o, s)
  /\ Commits(p) /\ plan.kind = "restore" => \A s \in Surfaces : Has(o, s)
  /\ pc[p] = "rec" /\ plan.kind = "restore" =>
       /\ \A s \in plan.covers : Has(o, s) \/ s \in job[p].todo
       /\ job[p].bundle = plan.moves
  /\ pc[p] = "fin-stage" /\ Restores(o) => \A s \in Surfaces : Has(o, s)
ClearFits(p, o) ==
  /\ pc[p] = "restore-commit" => \A s \in Surfaces : Clear(o, s)
  /\ pc[p] \in {"restore", "restore-mark"} => \A s \in Surfaces : Clear(o, s) \/ s \in job[p].done
  /\ pc[p] = "restore-reread" =>
       \A s \in Surfaces : Clear(o, s) \/ s \in job[p].done \cup job[p].cur
  /\ pc[p] = "put-back" =>
       \A s \in Surfaces : \/ Clear(o, s) \/ s \in job[p].done
                           \/ s = "sqlite-goals" /\ job[p].cur = {"sqlite-state"}
  /\ pc[p] = "unrestore-goals" =>
       \A s \in Surfaces : Clear(o, s) \/ s \in job[p].done \/ s = "sqlite-goals"
  /\ pc[p] = "unrestore" => \A s \in Surfaces : Clear(o, s) \/ s \in job[p].todo \cup job[p].cur
  /\ Returns(p) /\ payload[o].kind = "restore" => \A s \in Surfaces : Clear(o, s)
AddFits(p, o) ==
  job[p].kind = "restore" => FoundFits(p) /\ SetsFit(p, o) /\ HasFits(p, o) /\ ClearFits(p, o)
AddRecord(o) ==
  LET plan == payload[o] IN
  plan.kind = "restore" =>
    /\ Rows \subseteq plan.covers /\ plan.covers \subseteq Texts \cup Rows
    /\ \A s \in Surfaces \ plan.covers : plan.moves[s] = {} /\ plan.before[s].own = {}
    /\ \A s \in Rows : plan.before[s].own = {}
    /\ journal[o].stage \notin Final =>
         entry[plan.from].state = "complete" /\ entry[plan.from].bundle = plan.moves

(* What it wrote: nobody writes between its rename and its second look.    *)
ReadAt == RestoreAt \cup {"unrestore-goals", "unrestore"}
ReadBackFits(p) ==
  /\ pc[p] \in ReadAt \ {"unrestore"} => \A s \in job[p].done : job[p].post[s] = Restored(p, s)
  /\ pc[p] = "unrestore" => \A s \in job[p].todo : job[p].post[s] = Restored(p, s)
  /\ pc[p] = "restore-reread" => \A s \in job[p].cur : live[s] = Restored(p, s)
ReadInv == \A p \in Procs : ReadBackFits(p)

(* A recovery.                                                             *)
ResultFits(p, o) == pc[p] \in ReconcileAt \cup {"fin-stage"} => job[p].rel.stage = EndStage(o)

LedgerAt(p, o) == TakeFits(p, o) /\ AddFits(p, o) /\ ResultFits(p, o)
LedgerInv == /\ \A p \in Procs, o \in OpIds : job[p].op = o => LedgerAt(p, o)
             /\ \A o \in OpIds : TakeRecord(o) /\ AddRecord(o)

-----------------------------------------------------------------------------
(* Only the operation with the lock has a payload, so that what a user can *)
(* rely on is what that operation leaves of each surface.                  *)
Paid == \A o \in OpIds : PaidOff(o)
LEMMA OwnIsShown ==
  Paid => \A s \in Surfaces : AbsOwn[s] = IF lock.op \in OpIds THEN Shown(lock.op, s) ELSE live[s].own
<1> SUFFICES ASSUME Paid, NEW s \in Surfaces
             PROVE  AbsOwn[s] = IF lock.op \in OpIds THEN Shown(lock.op, s) ELSE live[s].own
  OBVIOUS
<1> DEFINE added == UNION {payload[o].moves[s] \ payload[o].before[s].own : o \in {q \in OpIds : Restores(q)}}
           taken == UNION {payload[o].before[s].own : o \in {q \in OpIds : RollsBack(q)}}
<1>1. AbsOwn[s] = (live[s].own \ added) \cup taken
  BY DEF AbsOwn
<1>2. \A o \in OpIds : o # lock.op => ~Restores(o) /\ ~RollsBack(o)
  BY DEF Paid, PaidOff, Restores, RollsBack, Strategy
<1>3. added = IF lock.op \in OpIds /\ Restores(lock.op)
              THEN payload[lock.op].moves[s] \ payload[lock.op].before[s].own ELSE {}
  BY <1>2
<1>4. taken = IF lock.op \in OpIds /\ RollsBack(lock.op) THEN payload[lock.op].before[s].own ELSE {}
  BY <1>2
<1>5. AbsOwn[s] = IF lock.op \in OpIds
                  THEN (live[s].own \ (IF Restores(lock.op)
                                       THEN payload[lock.op].moves[s] \ payload[lock.op].before[s].own
                                       ELSE {}))
                       \cup (IF RollsBack(lock.op) THEN payload[lock.op].before[s].own ELSE {})
                  ELSE live[s].own
  <2> HIDE DEF added, taken
  <2> QED BY <1>1, <1>3, <1>4
<1> QED BY <1>5 DEF Shown, Shows, Restores, RollsBack, Strategy

LEMMA OwnOnSurfaces == AbsOwn = [s \in Surfaces |-> AbsOwn[s]]
BY DEF AbsOwn

(* Nothing changes for the user while the surfaces and the payload are the *)
(* same and the operation does not end.                                    *)
LEMMA ShownStays ==
  ASSUME NEW o, NEW s, live'[s].own = live[s].own, payload'[o] = payload[o],
         journal'[o].stage \in Final <=> journal[o].stage \in Final
  PROVE  Shown(o, s)' = Shown(o, s)
BY DEF Shown, Shows

(* Only the last journal of an operation ends it.                          *)
LEMMA EndByRelease ==
  ASSUME Typed, NEW p \in Procs, OperationStep(p) \/ Crash(p), ~ReleaseStage(p), ~FinalizeStage(p),
         NEW o \in OpIds, journal'[o].stage \in Final
  PROVE  journal[o].stage \in Final
<1>0. ASSUME NEW stage, NEW m, NEW oc, WriteJournal(p, stage, m, oc), stage \notin Final
      PROVE  journal[o].stage \in Final
  <2> DEFINE j == [stage |-> stage, marks |-> m]
  <2>1. j.stage \notin Final
    BY <1>0
  <2>2. journal' = journal \/ journal' = [journal EXCEPT ![job[p].op] = j]
    BY <1>0 DEF WriteJournal
  <2> HIDE DEF j
  <2> QED BY <2>1, <2>2 DEF Typed
<1>00. /\ "prepared" \notin Final /\ "committing" \notin Final /\ "verifying" \notin Final
  BY DEF Final
<1> USE <1>0, <1>00 DEF disk
<1>1. CASE AcquireStep(p)
  BY <1>1 DEF AcquireStep, ScanRoot, CreateLock, LockIsTaken, WriteLock, CreateJournal
<1>2. CASE DeleteStep(p)
  BY <1>2 DEF DeleteStep, EnterPrepared, CheckSelection, Capture, WritePayload, Recheck,
              EnterCommitting, StartSurface, MarkSurface, EnterVerifying, RemoveFromIndex,
              RemoveFromGlobalState, UndoGlobalState, RemoveFile, RemoveRows, RemoveLogs
<1>3. CASE UndoStep(p)
  BY <1>3 DEF UndoStep, UndoSurface, UndoEnds
<1>4. CASE TrashStep(p)
  BY <1>4 DEF TrashStep, WriteTrashPayload, MakeTmp, BuildBundle, CommitTrashEntry, MarkTrashEntry,
              DropTrash, TearEntry
<1>5. CASE CleanupStep(p)
  BY <1>5 DEF CleanupStep, CheckIndexes, WriteCleanupPayload, RecheckCleanup, CommitCleanup,
              StartIndex, VerifyCleanup
<1>6. CASE EntryStep(p)
  BY <1>6 DEF EntryStep, ReadForRestore, ReadForPurge, EntryNotFound, PrepareEntry, CheckEntry,
              CommitEntry
<1>7. CASE RestoreStep(p)
  BY <1>7 DEF RestoreStep, CheckConflicts, CaptureRestore, WriteRestorePayload, StartRestore,
              RestoreText, RereadWritten, MarkRestored, RestoreRows, RemoveGoals, UndoRestore, UndoRestoreEnds,
              MarkRows, VerifyRestore
<1>8. CASE PurgeStep(p)
  BY <1>8 DEF PurgeStep, WritePurgePayload, RecheckPurge, CheckpointPurge, PurgeLogs,
              QuarantineEntry, RemoveQuarantine, VerifyPurge
<1>9. CASE ReleaseStep(p)
  BY <1>9 DEF ReleaseStep, ReleaseCheck, ReleasePayload, ReleaseUnlock
<1>10. CASE RecoveryStep(p)
  BY <1>10 DEF RecoveryStep, BeginRecovery, RecoverSurface, SurfacesRecovered, RecoverQuarantine,
               RecoverTrash, RefuseTrash, FinalizePayload, FinalizeUnlock
<1>11. CASE Crash(p)
  BY <1>11 DEF Crash
<1> QED BY <1>1, <1>2, <1>3, <1>4, <1>5, <1>6, <1>7, <1>8, <1>9, <1>10, <1>11 DEF OperationStep

-----------------------------------------------------------------------------
(* Entries: who writes them, and what a restore knows of its own before it *)
(* has written its payload.                                                *)
BeginsAt == NamedAt \cup MoveAt
Begins(p) ==
  \/ ReadForRestore(p) \/ ReadForPurge(p) \/ CheckIndexes(p) \/ CreateLock(p) \/ WriteLock(p)
  \/ CreateJournal(p) \/ PrepareEntry(p) \/ CheckEntry(p) \/ CheckConflicts(p)
  \/ CaptureRestore(p) \/ WriteTrashPayload(p) \/ MakeTmp(p) \/ BuildBundle(p)
LEMMA BeginsBy ==
  ASSUME ReleaseSucceeds, Typed, Ownership, NEW p \in Procs, OperationStep(p) \/ Crash(p), ~Begins(p)
  PROVE  pc'[p] \notin BeginsAt
<1> USE Ways, JobFunction DEF BeginsAt, NamedAt, LockingAt, RestoreBeginsAt, MoveAt
<1>1. CASE AcquireStep(p) \/ Crash(p)
  BY <1>1 DEF AcquireStep, ScanRoot, LockIsTaken, Crash, Begins
<1>2. CASE DeleteStep(p)
  <2>1. CASE EnterPrepared(p) \/ CheckSelection(p) \/ Capture(p) \/ WritePayload(p) \/ Recheck(p)
    BY <2>1 DEF EnterPrepared, CheckSelection, Capture, WritePayload, Recheck
  <2>2. CASE EnterCommitting(p) \/ StartSurface(p) \/ MarkSurface(p) \/ EnterVerifying(p)
    BY <2>2 DEF EnterCommitting, StartSurface, MarkSurface, EnterVerifying
  <2>3. CASE RemoveFromIndex(p) \/ RemoveFromGlobalState(p) \/ UndoGlobalState(p)
    BY <2>3 DEF RemoveFromIndex, RemoveFromGlobalState, UndoGlobalState
  <2>4. CASE RemoveFile(p) \/ RemoveRows(p) \/ RemoveLogs(p)
    BY <2>4 DEF RemoveFile, RemoveRows, RemoveLogs
  <2> QED BY <1>2, <2>1, <2>2, <2>3, <2>4 DEF DeleteStep
<1>3. CASE UndoStep(p)
  BY <1>3 DEF UndoStep, UndoSurface, UndoEnds
<1>4. CASE TrashStep(p)
  BY <1>4 DEF TrashStep, CommitTrashEntry, MarkTrashEntry, DropTrash, TearEntry, Begins
<1>5. CASE CleanupStep(p)
  BY <1>5 DEF CleanupStep, WriteCleanupPayload, RecheckCleanup, CommitCleanup, StartIndex,
              VerifyCleanup, Begins
<1>6. CASE EntryStep(p)
  BY <1>6 DEF EntryStep, EntryNotFound, CommitEntry, Begins
<1>7. CASE RestoreStep(p)
  <2>1. pc'[p] \in {"idle"} \cup RestoringAt \cup {"rel-stage"}
    <3> USE DEF RestoringAt
    <3>1. CASE WriteRestorePayload(p) \/ StartRestore(p) \/ MarkRestored(p)
      BY <3>1 DEF WriteRestorePayload, StartRestore, MarkRestored
    <3>2. CASE RestoreText(p)
      BY <3>2 DEF RestoreText
    <3>3. CASE RestoreRows(p) \/ RemoveGoals(p)
      BY <3>3 DEF RestoreRows, RemoveGoals
    <3>4. CASE UndoRestore(p) \/ UndoRestoreEnds(p)
      BY <3>4 DEF UndoRestore, UndoRestoreEnds
    <3>5. CASE MarkRows(p) \/ VerifyRestore(p)
      BY <3>5 DEF MarkRows, VerifyRestore
    <3>6. CASE RereadWritten(p)
      BY <3>6, Rereads
    <3> QED BY <1>7, <3>1, <3>2, <3>3, <3>4, <3>5, <3>6 DEF RestoreStep, Begins
  <2> QED BY <2>1 DEF RestoringAt
<1>8. CASE PurgeStep(p)
  <2>1. CASE CheckpointPurge(p)
    BY <2>1 DEF CheckpointPurge
  <2>2. CASE ~CheckpointPurge(p)
    BY <1>8, <2>2 DEF PurgeStep, WritePurgePayload, RecheckPurge, PurgeLogs,
                QuarantineEntry, RemoveQuarantine, VerifyPurge
  <2> QED BY <2>1, <2>2
<1>9. CASE ReleaseStep(p)
  <2> USE ReleaseIsQuiet DEF Throws
  <2>1. CASE ReleaseStage(p)
    BY <2>1 DEF ReleaseStage
  <2>2. CASE ReleaseCheck(p)
    <3>1. Working(p) /\ pc[p] # "lock-created"
      BY <2>2 DEF ReleaseCheck, Working
    <3>2. OwnsLockFile(p)
      BY <3>1, OneWorker DEF OwnsLockFile
    <3> QED BY <2>2, <3>2 DEF ReleaseCheck
  <2>3. CASE ReleasePayload(p) \/ ReleaseUnlock(p)
    BY <2>3 DEF ReleasePayload, ReleaseUnlock
  <2> QED BY <1>9, <2>1, <2>2, <2>3 DEF ReleaseStep
<1>10. CASE RecoveryStep(p)
  BY <1>10 DEF RecoveryStep, BeginRecovery, RecoverSurface, SurfacesRecovered, RecoverQuarantine,
               RecoverTrash, RefuseTrash, FinalizeStage, FinalizePayload, FinalizeUnlock
<1> QED BY <1>1, <1>2, <1>3, <1>4, <1>5, <1>6, <1>7, <1>8, <1>9, <1>10 DEF OperationStep

(* An entry that is whole is as it was, or is the one a move has just      *)
(* renamed.                                                                *)
LEMMA EntriesStay ==
  ASSUME Typed, NEW p \in Procs, OperationStep(p) \/ Crash(p), NEW o \in OpIds,
         entry'[o].state = "complete"
  PROVE  \/ entry'[o] = entry[o]
         \/ CommitTrashEntry(p) /\ o = job[p].op /\ entry'[o].bundle = job[p].bundle
<1> USE DEF bin, disk
<1>0. /\ entry \in [OpIds -> Entries]
      /\ \A e, st : st # "complete" /\ entry' = [entry EXCEPT ![e].state = st] => entry'[o] = entry[o]
      /\ \A e : entry' = [entry EXCEPT ![e] = NoEntry] => entry'[o] = entry[o]
  BY DEF Typed, BinTyped, Entries, NoEntry
<1>1. CASE AcquireStep(p) \/ ReleaseStep(p) \/ Crash(p)
  BY <1>1 DEF AcquireStep, ScanRoot, CreateLock, LockIsTaken, WriteLock, CreateJournal,
              ReleaseStep, ReleaseStage, ReleaseCheck, ReleasePayload, ReleaseUnlock, Crash
<1>2. CASE DeleteStep(p) \/ UndoStep(p)
  BY <1>2 DEF DeleteStep, EnterPrepared, CheckSelection, Capture, WritePayload, Recheck,
              EnterCommitting, StartSurface, MarkSurface, EnterVerifying, RemoveFromIndex,
              RemoveFromGlobalState, UndoGlobalState, RemoveFile, RemoveRows, RemoveLogs,
              UndoStep, UndoSurface, UndoEnds
<1>3. CASE TrashStep(p)
  <2>1. CASE WriteTrashPayload(p) \/ MakeTmp(p) \/ BuildBundle(p) \/ MarkTrashEntry(p)
    BY <2>1 DEF WriteTrashPayload, MakeTmp, BuildBundle, MarkTrashEntry
  <2>2. CASE CommitTrashEntry(p)
    <3>1. \/ entry' = entry
          \/ entry' = [entry EXCEPT ![job[p].op] = [state |-> "complete", bundle |-> job[p].bundle]]
      BY <2>2 DEF CommitTrashEntry
    <3> QED BY <1>0, <2>2, <3>1
  <2>3. CASE DropTrash(p) \/ TearEntry(p)
    BY <1>0, <2>3 DEF DropTrash, TearEntry
  <2> QED BY <1>3, <2>1, <2>2, <2>3 DEF TrashStep
<1>4. CASE CleanupStep(p) \/ EntryStep(p)
  BY <1>4 DEF CleanupStep, CheckIndexes, WriteCleanupPayload, RecheckCleanup, CommitCleanup,
              StartIndex, VerifyCleanup, EntryStep, ReadForRestore, ReadForPurge, EntryNotFound,
              PrepareEntry, CheckEntry, CommitEntry
<1>5. CASE RestoreStep(p)
  BY <1>5 DEF RestoreStep, CheckConflicts, CaptureRestore, WriteRestorePayload, StartRestore,
              RestoreText, RereadWritten, MarkRestored, RestoreRows, RemoveGoals, UndoRestore, UndoRestoreEnds,
              MarkRows, VerifyRestore
<1>6. CASE PurgeStep(p)
  BY <1>0, <1>6 DEF PurgeStep, WritePurgePayload, RecheckPurge, CheckpointPurge, PurgeLogs,
              QuarantineEntry, RemoveQuarantine, VerifyPurge
<1>7. CASE RecoveryStep(p)
  BY <1>0, <1>7 DEF RecoveryStep, BeginRecovery, RecoverSurface, SurfacesRecovered,
              RecoverQuarantine, RecoverTrash, RefuseTrash, FinalizeStage, FinalizePayload, FinalizeUnlock
<1> QED BY <1>1, <1>2, <1>3, <1>4, <1>5, <1>6, <1>7 DEF OperationStep

(* Before an operation has its payload, a step changes nothing of its task *)
(* but reads the entry, takes the lock or captures.                        *)
SameNames(p) == /\ job'[p].kind = job[p].kind /\ job'[p].from = job[p].from
                /\ job'[p].bundle = job[p].bundle
LEMMA BeginsKeeps ==
  ASSUME Typed, NEW p \in Procs, Begins(p), pc'[p] \in BeginsAt
  PROVE  \/ CheckIndexes(p) /\ pc'[p] = "checked" /\ job'[p].kind = "cleanup-index"
         \/ ReadForPurge(p) /\ pc'[p] = "checked" /\ job'[p].kind = "purge"
         \/ ReadForRestore(p) /\ pc'[p] = "checked" /\ job'[p].kind = "restore"
         \/ /\ CreateLock(p) /\ pc'[p] = "lock-created" /\ SameNames(p) /\ job'[p].op = ops + 1
            /\ job[p].kind = "restore" => pc[p] = "checked"
         \/ /\ BuildBundle(p) /\ pc[p] = "trash-bundle" /\ pc'[p] = "trash-seal"
            /\ job'[p].op = job[p].op /\ job'[p].kind = job[p].kind /\ job'[p].bundle["logs"] = {}
         \/ /\ pc[p] \in BeginsAt \ {"checked"} /\ SameNames(p) /\ job'[p].op = job[p].op
            /\ pc'[p] \in MoveAt \cup LockingAt \cup {"acquired"} =>
                 pc[p] \in MoveAt \cup LockingAt \cup {"acquired"}
            /\ pc'[p] \notin {"trash-seal", "checked"}
            /\ pc'[p] = "trash-rename" => pc[p] = "trash-seal"
            /\ pc'[p] \in NamedAt => pc[p] \in NamedAt
<1> USE Ways, JobFunction DEF BeginsAt, NamedAt, LockingAt, RestoreBeginsAt, MoveAt, SameNames
<1>1. CASE CheckIndexes(p)
  BY <1>1 DEF CheckIndexes, Cleans
<1>2. CASE ReadForPurge(p)
  <2>1. PICK e \in ValidEntries :
          job' = [job EXCEPT ![p] =
                   [job[p] EXCEPT !.from   = e,
                                  !.bundle = IF LogsArePurged(job[p].seen, e) THEN LogKeys ELSE NoRecords,
                                  !.todo   = IF LogsArePurged(job[p].seen, e) THEN {"logs"} ELSE {}]]
    BY <1>2 DEF ReadForPurge
  <2>2. job[p].kind = "purge" /\ pc'[p] = "checked"
    BY <1>2 DEF ReadForPurge
  <2>3. job'[p].kind = job[p].kind
    BY <2>1 DEF Jobs
  <2> QED BY <1>2, <2>2, <2>3
<1>3. CASE ReadForRestore(p)
  BY <1>3 DEF ReadForRestore, Jobs
<1>4. CASE CreateLock(p)
  BY <1>4 DEF CreateLock, ReadyToLock, FromTrash, Jobs
<1>5. CASE WriteLock(p) \/ CreateJournal(p) \/ PrepareEntry(p) \/ CheckEntry(p) \/ CheckConflicts(p)
  BY <1>5 DEF WriteLock, CreateJournal, PrepareEntry, CheckEntry, CheckConflicts
<1>6. CASE CaptureRestore(p)
  BY <1>6 DEF CaptureRestore, Jobs
<1>7. CASE WriteTrashPayload(p) \/ MakeTmp(p)
  BY <1>7 DEF WriteTrashPayload, MakeTmp
<1>8. CASE BuildBundle(p)
  BY <1>8, SurfacesNamed DEF BuildBundle, Bundle, Jobs
<1> QED BY <1>1, <1>2, <1>3, <1>4, <1>5, <1>6, <1>7, <1>8 DEF Begins
LEMMA NamesBegin == Init => NameInv
BY DEF Init, InitFrom, NameInv, NamedFits, FreshFits, PackedFits, StoredFits, NoJob, NamedAt,
       BeginsAt, LockingAt, RestoreBeginsAt, MoveAt, Everything, NoEntry, NoRecords, Surfaces, Databases

LEMMA StepNames ==
  ASSUME ReleaseSucceeds, Consistent, Consistent', FromInv, FromInv', BinInv, NameInv,
         NEW p \in Procs, OperationStep(p) \/ Crash(p)
  PROVE  NameInv'
<1> USE DEF Consistent
<1>0. OthersStay(p) /\ MaxOps \in Nat /\ ops \in Nat /\ ops <= MaxOps
  BY OthersAreLeft, BoundsAssumption DEF Typed, CountTyped
<1>1. pc'[p] \in BeginsAt => Begins(p)
  BY BeginsBy
<1>2. \A o \in OpIds : entry'[o].state = "complete" =>
        \/ entry'[o] = entry[o]
        \/ /\ pc[p] = "trash-rename" /\ o = job[p].op /\ entry'[o].bundle = job[p].bundle
  BY EntriesStay DEF CommitTrashEntry
<1>3. ASSUME NEW o \in OpIds PROVE StoredFits(o)'
  BY <1>2 DEF NameInv, StoredFits, PackedFits
<1>4. PackedFits(p)'
  BY <1>1, BeginsKeeps DEF NameInv, PackedFits, BeginsAt, MoveAt, SameNames
<1>5. ASSUME NEW q \in Procs, pc[q] \in NamedAt, job[q].kind = "restore",
             entry'[job[q].from].state = "complete"
      PROVE  entry'[job[q].from] = entry[job[q].from]
  <2>1. job[q].from \in OpIds
    BY <1>0, <1>5 DEF FromInv, FromFits, NamedAt, LockingAt, RestoreBeginsAt, OpIds
  <2>2. pc[p] = "trash-rename" => job[q].from # job[p].op
    BY <1>5 DEF NameInv, FreshFits, MoveAt
  <2> QED BY <1>2, <1>5, <2>1, <2>2
<1>6. NamedFits(p)'
  <2> SUFFICES ASSUME pc'[p] \in NamedAt, job'[p].kind = "restore"
               PROVE  /\ entry'[job'[p].from].state = "complete" =>
                           entry'[job'[p].from].bundle = job'[p].bundle
                      /\ job'[p].bundle["logs"] = {}
    BY DEF NamedFits
  <2>1. CASE ReadForRestore(p)
    <3>1. PICK e \in ValidEntries :
             job' = [job EXCEPT ![p] = [job[p] EXCEPT !.from = e, !.bundle = entry[e].bundle]]
      BY <2>1 DEF ReadForRestore
    <3>2. entry' = entry
      BY <2>1 DEF ReadForRestore, bin
    <3>3. job'[p].from = e /\ job'[p].bundle = entry[e].bundle
      BY <3>1, JobFunction DEF Jobs
    <3> QED BY <3>2, <3>3 DEF ValidEntries, NameInv, StoredFits
  <2>2. CASE ~ReadForRestore(p)
    <3>1. SameNames(p) /\ pc[p] \in NamedAt /\ job[p].kind = "restore"
      BY <1>1, <2>2, BeginsKeeps DEF BeginsAt, NamedAt, MoveAt, LockingAt, RestoreBeginsAt, SameNames
    <3> QED BY <1>5, <3>1 DEF SameNames, NameInv, NamedFits
  <2> QED BY <2>1, <2>2
<1>7. ASSUME NEW q \in Procs \ {p} PROVE NamedFits(q)' /\ PackedFits(q)'
  BY <1>0, <1>5 DEF OthersStay, NameInv, NamedFits, PackedFits
<1>8. ASSUME NEW q \in Procs, pc'[q] \in LockingAt \cup MoveAt \cup {"acquired"},
             NEW r \in Procs, pc'[r] \in NamedAt, job'[r].kind = "restore"
      PROVE  job'[r].from # job'[q].op
  <2>1. CASE q = r
    BY <1>8, <2>1 DEF FromInv, FromFits, NamedAt, LockingAt, RestoreBeginsAt
  <2>2. CASE q # r /\ r = p
    <3>0. q # p /\ pc[q] = pc'[q] /\ job'[q] = job[q]
      BY <1>0, <2>2 DEF OthersStay
    <3>1. CASE ReadForRestore(p)
      <4>1. PICK e \in ValidEntries :
               job' = [job EXCEPT ![p] = [job[p] EXCEPT !.from = e, !.bundle = entry[e].bundle]]
        BY <3>1 DEF ReadForRestore
      <4>2. job'[p].from = e
        BY <4>1, JobFunction DEF Jobs
      <4>3. Working(q) /\ entry[job[q].op].state = "absent"
        BY <1>8, <3>0 DEF BinInv, BinAt, Working, LockingAt, MoveAt
      <4> QED BY <2>2, <3>0, <4>2, <4>3 DEF ValidEntries
    <3>2. CASE ~ReadForRestore(p)
      <4>1. SameNames(p) /\ pc[p] \in NamedAt /\ job[p].kind = "restore"
        BY <1>1, <1>8, <2>2, <3>2, BeginsKeeps
           DEF BeginsAt, NamedAt, MoveAt, LockingAt, RestoreBeginsAt, SameNames
      <4> QED BY <1>8, <2>2, <3>0, <4>1 DEF SameNames, NameInv, FreshFits
    <3> QED BY <3>1, <3>2
  <2>3. CASE q # r /\ r # p
    <3>0. pc[r] = pc'[r] /\ job'[r] = job[r]
      BY <1>0, <2>3 DEF OthersStay
    <3>1. CASE q # p
      <4>1. pc[q] = pc'[q] /\ job'[q] = job[q]
        BY <1>0, <3>1 DEF OthersStay
      <4> QED BY <1>8, <3>0, <4>1 DEF NameInv, FreshFits
    <3>2. CASE q = p
      <4>1. job[r].from \in 1 .. ops
        BY <1>8, <3>0 DEF FromInv, FromFits, NamedAt, LockingAt, RestoreBeginsAt
      <4>2. \/ job'[p].op = ops + 1
            \/ job'[p].op = job[p].op /\ pc[p] \in MoveAt \cup LockingAt \cup {"acquired"}
        <5>1. pc'[p] \in LockingAt \cup MoveAt \cup {"acquired"}
          BY <1>8, <3>2
        <5>2. pc'[p] \in BeginsAt /\ pc'[p] # "checked"
          BY <5>1 DEF BeginsAt, NamedAt, MoveAt, LockingAt
        <5> QED BY <1>1, <5>1, <5>2, BeginsKeeps DEF MoveAt
      <4>3. CASE job'[p].op = ops + 1
        BY <1>0, <3>0, <3>2, <4>1, <4>3
      <4>4. CASE job'[p].op = job[p].op /\ pc[p] \in MoveAt \cup LockingAt \cup {"acquired"}
        BY <1>8, <3>0, <3>2, <4>4 DEF NameInv, FreshFits
      <4> QED BY <4>2, <4>3, <4>4
    <3> QED BY <3>1, <3>2
  <2> QED BY <2>1, <2>2, <2>3
<1>9. \A q \in Procs : FreshFits(q)'
  BY <1>8 DEF FreshFits
<1> QED BY <1>3, <1>4, <1>6, <1>7, <1>9 DEF NameInv

LEMMA NextNames ==
  ASSUME ReleaseSucceeds, QuietCodex
  PROVE  Consistent /\ Consistent' /\ FromInv /\ FromInv' /\ BinInv /\ NameInv /\ [Next]_vars => NameInv'
<1>1. ~CodexStep
  BY DEF QuietCodex, CodexStep, CodexAdds, CodexChangesOthers
<1>2. CASE UNCHANGED vars
  BY <1>2 DEF vars, NameInv, NamedFits, FreshFits, PackedFits, StoredFits
<1> QED BY <1>1, <1>2, StepNames DEF Next

-----------------------------------------------------------------------------
(* What a step leaves as it is.                                            *)
Pays(p) ==
  \/ WritePayload(p) \/ WriteTrashPayload(p) \/ WriteCleanupPayload(p) \/ WriteRestorePayload(p)
  \/ WritePurgePayload(p) \/ ReleasePayload(p) \/ FinalizePayload(p)
Ends(p) == ReleaseStage(p) \/ FinalizeStage(p)

LEMMA EndsStay ==
  ASSUME ReleaseSucceeds, Consistent, NEW p \in Procs, OperationStep(p) \/ Crash(p), ~Ends(p),
         NEW o \in OpIds
  PROVE  journal'[o].stage \in Final <=> journal[o].stage \in Final
BY EndByRelease, JournalStep DEF Consistent, Ends

(* A write of a surface that shows the same changes nothing for a user.    *)
LEMMA WrittenShown ==
  ASSUME Typed, NEW o, NEW s \in Surfaces, NEW v,
         live' = live \/ live' = [live EXCEPT ![s] = v], payload' = payload,
         journal'[o].stage \in Final <=> journal[o].stage \in Final,
         Shows(o, s, v.own) = Shown(o, s), NEW t \in Surfaces
  PROVE  Shown(o, t)' = Shown(o, t)
<1>1. live'[t] = live[t] \/ (t = s /\ live'[t] = v)
  BY DEF Typed, DataTyped, Images
<1> QED BY <1>1 DEF Shown, Shows

(* A restore changes no entry.                                             *)
LEMMA RestoresKeepEntries ==
  ASSUME NEW p \in Procs, KindFits(p), job[p].kind = "restore", OperationStep(p) \/ Crash(p)
  PROVE  UNCHANGED bin
<1> USE DEF KindFits, CommitAt, DeleteAt, TrashAt, MoveAt, EntryMadeAt, CleanupAt, PurgingAt, Deletes, Cleans
<1>1. CASE AcquireStep(p) \/ ReleaseStep(p) \/ Crash(p)
  BY <1>1 DEF AcquireStep, ScanRoot, CreateLock, LockIsTaken, WriteLock, CreateJournal,
              ReleaseStep, ReleaseStage, ReleaseCheck, ReleasePayload, ReleaseUnlock, Crash
<1>2. CASE DeleteStep(p) \/ UndoStep(p)
  BY <1>2 DEF DeleteStep, EnterPrepared, CheckSelection, Capture, WritePayload, Recheck,
              EnterCommitting, StartSurface, MarkSurface, EnterVerifying, RemoveFromIndex,
              RemoveFromGlobalState, UndoGlobalState, RemoveFile, RemoveRows, RemoveLogs,
              UndoStep, UndoSurface, UndoEnds
<1>3. CASE TrashStep(p)
  BY <1>3 DEF TrashStep, WriteTrashPayload, MakeTmp, BuildBundle, CommitTrashEntry, MarkTrashEntry,
              DropTrash, TearEntry
<1>4. CASE CleanupStep(p) \/ EntryStep(p)
  BY <1>4 DEF CleanupStep, CheckIndexes, WriteCleanupPayload, RecheckCleanup, CommitCleanup,
              StartIndex, VerifyCleanup, EntryStep, ReadForRestore, ReadForPurge, EntryNotFound,
              PrepareEntry, CheckEntry, CommitEntry
<1>5. CASE RestoreStep(p)
  BY <1>5 DEF RestoreStep, CheckConflicts, CaptureRestore, WriteRestorePayload, StartRestore,
              RestoreText, RereadWritten, MarkRestored, RestoreRows, RemoveGoals, UndoRestore, UndoRestoreEnds,
              MarkRows, VerifyRestore
<1>6. CASE PurgeStep(p)
  BY <1>6 DEF PurgeStep, WritePurgePayload, RecheckPurge, CheckpointPurge, PurgeLogs,
              QuarantineEntry, RemoveQuarantine, VerifyPurge
<1>7. CASE RecoveryStep(p)
  BY <1>7 DEF RecoveryStep, BeginRecovery, RecoverSurface, SurfacesRecovered,
              RecoverQuarantine, RecoverTrash, RefuseTrash, FinalizeStage, FinalizePayload, FinalizeUnlock
<1> QED BY <1>1, <1>2, <1>3, <1>4, <1>5, <1>6, <1>7 DEF OperationStep

(* Who does not work on an operation changes no entry.                     *)
LEMMA IdleKeepEntries ==
  ASSUME Typed, NEW p \in Procs, ~Working(p), OperationStep(p) \/ Crash(p)
  PROVE  UNCHANGED bin /\ (payload' = payload)
<1> USE DEF Working
<1>1. CASE AcquireStep(p) \/ ReleaseStep(p) \/ Crash(p)
  BY <1>1 DEF AcquireStep, ScanRoot, CreateLock, LockIsTaken, WriteLock, CreateJournal, disk,
              ReleaseStep, ReleaseStage, ReleaseCheck, ReleasePayload, ReleaseUnlock, Crash
<1>2. CASE DeleteStep(p) \/ UndoStep(p)
  BY <1>2, DeleteStays, UndoStays DEF Holding
<1>3. CASE TrashStep(p)
  BY <1>3, TrashStays DEF Holding
<1>4. CASE CleanupStep(p) \/ EntryStep(p)
  BY <1>4 DEF CleanupStep, CheckIndexes, WriteCleanupPayload, RecheckCleanup, CommitCleanup, disk,
              StartIndex, VerifyCleanup, EntryStep, ReadForRestore, ReadForPurge, EntryNotFound,
              PrepareEntry, CheckEntry, CommitEntry
<1>5. CASE RestoreStep(p)
  BY <1>5, RestoreStays DEF Holding
<1>6. CASE PurgeStep(p)
  BY <1>6, PurgeStays DEF Holding
<1>7. CASE RecoveryStep(p)
  BY <1>7 DEF RecoveryStep, BeginRecovery, RecoverSurface, SurfacesRecovered, disk,
              RecoverQuarantine, RecoverTrash, RefuseTrash, FinalizeStage, FinalizePayload, FinalizeUnlock
<1> QED BY <1>1, <1>2, <1>3, <1>4, <1>5, <1>6, <1>7 DEF OperationStep

(* While its payload stays, what an operation recorded stays true.         *)
Recorded(o) == TakeRecord(o) /\ AddRecord(o)
LEMMA RecordsStay ==
  ASSUME ReleaseSucceeds, Consistent, Paid, NEW p \in Procs, OperationStep(p) \/ Crash(p),
         payload' = payload, NEW o \in OpIds, Recorded(o)
  PROVE  Recorded(o)'
<1> USE DEF Consistent
<1>1. TakeRecord(o)'
  BY DEF Recorded, TakeRecord
<1>2. AddRecord(o)'
  <2>1. payload[o].kind = "restore" => UNCHANGED entry
    <3>1. CASE ~Working(p)
      BY <3>1, IdleKeepEntries DEF bin
    <3>2. CASE Working(p) /\ payload[o].kind = "restore"
      <4>1. o = lock.op /\ lock.op = job[p].op /\ Fits(p)
        BY <3>2, WorkerFits DEF Paid, PaidOff
      <4>2. job[p].kind = "restore"
        BY <3>2, <4>1 DEF Fits, PayloadFits
      <4> QED BY <4>1, <4>2, RestoresKeepEntries DEF Fits, bin
    <3> QED BY <3>1, <3>2
  <2>2. journal[o].stage \in Final => journal'[o].stage \in Final
    BY JournalStep
  <2> QED BY <2>1, <2>2 DEF Recorded, AddRecord
<1> QED BY <1>1, <1>2 DEF Recorded

-----------------------------------------------------------------------------
(* The steps of deleteSessions.                                            *)
Sound == /\ Consistent /\ FromInv /\ BinInv /\ LogsInv /\ DurableInv /\ OldInv /\ AheadInv
         /\ RollbackInv /\ NameInv /\ LedgerInv /\ ReadInv
Knows(p, o) ==
  /\ Typed /\ Working(p) /\ o \in OpIds /\ job[p].op = o /\ lock.op = o
  /\ Fits(p) /\ DurableAt(p) /\ RollbackAt(p) /\ PaidOff(o) /\ LedgerAt(p, o) /\ Recorded(o)
  /\ BinAt(p) /\ FromFits(p) /\ LogsFit(p) /\ OldImage(live) /\ OldJob(p) /\ OldFile(o)
  /\ NamedFits(p) /\ PackedFits(p) /\ ReadBackFits(p) /\ \A q \in Procs \ {p} : ~Working(q)
LEMMA WorkerKnows ==
  ASSUME ReleaseSucceeds, Sound, NEW p \in Procs, Working(p)
  PROVE  Knows(p, job[p].op)
BY WorkerFits, OneWorker
   DEF Knows, Sound, Consistent, FromInv, BinInv, LogsInv, DurableInv, OldInv, RollbackInv, NameInv,
       LedgerInv, ReadInv, Recorded

(* What a payload shows of a surface: nothing more while it covers none,   *)
(* all it took out afterwards.                                             *)
LEMMA EmptyShows ==
  ASSUME NEW o, payload[o].kind \in {"none", "delete", "trash"}, payload[o].covers = {},
         TakeRecord(o), NEW s \in Surfaces, NEW own
  PROVE  Shows(o, s, own) = own
BY DEF Shows, TakeRecord
LEMMA TakenShows ==
  ASSUME NEW p \in Procs, NEW o, job[p].op = o, Working(p), Fits(p), Deletes(p),
         payload[o].kind # "none", pc[p] \notin LockingAt \cup ClosingAt \cup {"fin-stage"},
         NEW s, NEW own
  PROVE  Shows(o, s, own) = own \cup payload[o].before[s].own
BY DEF Shows, Fits, PayloadFits, StageFits, Deletes

(* A confirmed selection is the scanned one on every surface, as long as   *)
(* every record is one that was there from the start.                      *)
LEMMA SameSelection ==
  ASSUME QuietCodex, OldImage(live), NEW p \in Procs, OldJob(p), SelectionCurrent(p),
         NEW s \in Surfaces
  PROVE  job[p].seen[s].own = live[s].own
<1> DEFINE a == job[p].seen[s].own
           b == live[s].own
<1>2. a \in {{}, {0}} /\ b \in {{}, {0}}
  BY DEF OldJob, OldImage, Quiet, QuietCodex
<1>3. IF s \in Files THEN (b = {}) = (a = {}) ELSE Cardinality(b) = Cardinality(a)
  BY DEF SelectionCurrent, SamePreview
<1>4. Cardinality({}) = 0 /\ Cardinality({0}) = 1
  BY FS_EmptySet, FS_Singleton
<1> HIDE DEF a, b
<1>5. a = b
  BY <1>2, <1>3, <1>4
<1> QED BY <1>5 DEF a, b

(* While a delete keeps its task and shows the same, it is enough to       *)
(* follow which surfaces it has emptied.                                   *)
LEMMA TakeMoves ==
  ASSUME NEW p \in Procs, NEW o, TakeFits(p, o), Deletes(p),
         job'[p].kind = job[p].kind, job'[p].seen = job[p].seen,
         \A s \in Surfaces : Shown(o, s)' = Shown(o, s), entry'[o] = entry[o],
         SeenFits(p, o)' \/ (pc'[p] \in SeenAt => pc[p] \in SeenAt),
         \/ SnapFits(p, o)'
         \/ job'[p].snap = job[p].snap /\ (pc'[p] \in SnapAt => pc[p] \in SnapAt),
         job[p].kind = "trash" /\ pc'[p] \in BundledAt => pc[p] \in BundledAt,
         Commits(p)' => pc[p] \in SeenAt \cap BundledAt,
         pc'[p] \notin {"trash-seal", "trash-rename"},
         TakenFits(p)'
  PROVE  TakeFits(p, o)'
<1>1. SeenFits(p, o) /\ SnapFits(p, o) /\ BundleFits(p, o)
  BY DEF TakeFits
<1>3. SeenFits(p, o)'
  BY <1>1 DEF SeenFits
<1>4. SnapFits(p, o)'
  BY <1>1 DEF SnapFits
<1>5. Bundled(p, o, entry[o].bundle) => Bundled(p, o, entry[o].bundle)'
  BY DEF Bundled
<1>6. BundleFits(p, o)'
  BY <1>1, <1>5 DEF BundleFits
<1> QED BY <1>3, <1>4, <1>6 DEF TakeFits
LEMMA TakeFlow ==
  ASSUME NEW p \in Procs, NEW o, TakeFits(p, o), Deletes(p), SameTask(p),
         \A s \in Surfaces : Shown(o, s)' = Shown(o, s), entry'[o] = entry[o],
         pc'[p] \in SeenAt => pc[p] \in SeenAt,
         pc'[p] \in SnapAt => pc[p] \in SnapAt,
         job[p].kind = "trash" /\ pc'[p] \in BundledAt => pc[p] \in BundledAt,
         Commits(p)' => pc[p] \in SeenAt \cap BundledAt,
         pc'[p] \notin {"trash-seal", "trash-rename"},
         TakenFits(p)'
  PROVE  TakeFits(p, o)'
BY TakeMoves DEF SameTask

(* What a removal does.                                                    *)
Removes(p) == \/ RemoveFromIndex(p) \/ RemoveFromGlobalState(p) \/ RemoveFile(p) \/ RemoveRows(p)
              \/ RemoveLogs(p)
RemovedAt(p, s) ==
  /\ live' = live \/ live' = [live EXCEPT ![s] = Removed(s, job[p].snap[s])]
  /\ \/ s \in job[p].cur /\ pc[p] = "remove"
     \/ s = "logs" /\ pc[p] = "remove-logs"
  /\ \/ CommitFails(p)
     \/ pc'[p] = "undo-global-state" /\ job' = job
     \/ /\ live'[s].own = {} /\ SameTask(p)
        /\ job'[p].todo = job[p].todo /\ job'[p].cur = job[p].cur
        /\ pc'[p] = IF s = "sqlite-state" /\ OwnsLock(p) THEN "remove-logs" ELSE "mark"
LEMMA RemovalDoes ==
  ASSUME WritesAreClean, Typed, NEW p \in Procs, Deletes(p), KindFits(p), DurableAt(p), Removes(p)
  PROVE  \E s \in Covered(p) : RemovedAt(p, s)
<1> USE JobFunction
<1>0. /\ pc[p] = "remove" => job[p].cur \subseteq Covered(p)
      /\ pc[p] = "remove-logs" => "logs" \in Covered(p)
      /\ Covered(p) \subseteq Surfaces
      /\ "sqlite-state" \notin Files \cup Indexes /\ "logs" \notin Files
      /\ "global-state" # "sqlite-state" /\ "logs" # "sqlite-state"
  <2>1. pc[p] = "remove" => job[p].cur \subseteq Covered(p)
    BY DEF DurableAt, PlanFits, RemovingAt, Planned, Deletes, Cleans
  <2>2. "sqlite-state" \notin Files \cup Indexes /\ "logs" \notin Files
    BY ListsApart, SurfacesNamed DEF Databases
  <2>3. pc[p] = "remove-logs" => "logs" \in Covered(p)
    BY <2>2, SurfacesNamed DEF KindFits, Covered, Targets
  <2> QED BY <2>1, <2>2, <2>3, ListsApart DEF Covered, Targets, Indexes
<1>1. ASSUME NEW s, NEW d, job' = [job EXCEPT ![p].done = d]
      PROVE  SameTask(p) /\ job'[p].todo = job[p].todo /\ job'[p].cur = job[p].cur
  BY <1>1 DEF SameTask, Jobs
<1>2. ASSUME NEW s \in Surfaces, TakeOut(p, s)
      PROVE  live' = [live EXCEPT ![s] = Removed(s, job[p].snap[s])] /\ live'[s].own = {}
  <2>1. job[p].snap[s] \in Value
    BY DEF Jobs, Images
  <2>2. Removed(s, job[p].snap[s]).own = {}
    BY <2>1 DEF Removed, Value
  <2> QED BY <1>2, <2>2 DEF TakeOut, Typed, DataTyped, Images
<1>5. CASE RemoveFromIndex(p)
  <2> PICK s \in job[p].cur \cap Indexes :
        \/ CommitFails(p) /\ live' = live
        \/ \E o \in Outcome("surface") :
              /\ IF Effect(o) THEN TakeOut(p, s) ELSE live' = live
              /\ IF Throws(o) THEN CommitFails(p)
                 ELSE /\ Goto(p, "mark")
                      /\ job' = [job EXCEPT ![p].done = job[p].done \cup {s}]
    BY <1>5 DEF RemoveFromIndex
  <2>0. pc[p] = "remove" /\ s \in Covered(p) /\ s # "sqlite-state" /\ s \in Surfaces
    BY <1>0, <1>5 DEF RemoveFromIndex
  <2>1. \/ CommitFails(p) /\ live' = live
        \/ TakeOut(p, s) /\ Goto(p, "mark") /\ job' = [job EXCEPT ![p].done = job[p].done \cup {s}]
    BY CleanWrites
  <2>2. RemovedAt(p, s)
    BY <1>1, <1>2, <2>0, <2>1 DEF RemovedAt, Goto
  <2> QED BY <2>0, <2>2
<1>6. CASE RemoveFromGlobalState(p)
  <2> DEFINE s == "global-state"
  <2>0. pc[p] = "remove" /\ s \in Covered(p) /\ s # "sqlite-state" /\ s \in Surfaces /\ s \in job[p].cur
    BY <1>0, <1>6 DEF RemoveFromGlobalState
  <2>1. \/ CommitFails(p) /\ live' = live
        \/ Goto(p, "mark") /\ live' = live /\ job' = job /\ live[s].own = {}
        \/ \E o \in Outcome("surface") :
              /\ IF Effect(o) THEN TakeOut(p, s) ELSE live' = live
              /\ IF Throws(o) THEN Goto(p, "undo-global-state") /\ job' = job
                 ELSE /\ Goto(p, "mark")
                      /\ job' = [job EXCEPT ![p].done = job[p].done \cup {s}]
    BY <1>6 DEF RemoveFromGlobalState
  <2>2. \/ CommitFails(p) /\ live' = live
        \/ Goto(p, "mark") /\ live' = live /\ job' = job /\ live[s].own = {}
        \/ live' = live /\ Goto(p, "undo-global-state") /\ job' = job
        \/ TakeOut(p, s) /\ Goto(p, "mark") /\ job' = [job EXCEPT ![p].done = job[p].done \cup {s}]
    BY <2>1, CleanWrites
  <2> HIDE DEF s
  <2>3. RemovedAt(p, s)
    BY <1>1, <1>2, <2>0, <2>2, TaskStays DEF RemovedAt, Goto
  <2> QED BY <2>0, <2>3
<1>7. CASE RemoveFile(p)
  <2> PICK s \in job[p].cur \cap Files :
        \/ CommitFails(p) /\ live' = live
        \/ \E o \in FaultsAt("surface", s) :
              /\ IF Effect(o) THEN TakeOut(p, s) ELSE live' = live
              /\ IF Throws(o) THEN CommitFails(p)
                 ELSE /\ Goto(p, "mark")
                      /\ job' = [job EXCEPT ![p].done =
                                   IF job[p].snap[s].own = {} THEN job[p].done
                                                              ELSE job[p].done \cup {s}]
    BY <1>7 DEF RemoveFile
  <2>0. pc[p] = "remove" /\ s \in Covered(p) /\ s # "sqlite-state" /\ s \in Surfaces
    BY <1>0, <1>7 DEF RemoveFile
  <2>1. \/ CommitFails(p) /\ live' = live
        \/ TakeOut(p, s) /\ Goto(p, "mark") /\ \E d : job' = [job EXCEPT ![p].done = d]
    BY CleanWrites
  <2>2. RemovedAt(p, s)
    BY <1>1, <1>2, <2>0, <2>1 DEF RemovedAt, Goto
  <2> QED BY <2>0, <2>2
<1>8. CASE RemoveRows(p)
  <2> PICK s \in job[p].cur \cap Databases : \E o \in FaultsAt("surface", s) :
              /\ IF Effect(o) THEN TakeOut(p, s) ELSE live' = live
              /\ IF Throws(o) THEN CommitFails(p)
                 ELSE /\ Goto(p, IF s = "sqlite-state" /\ OwnsLock(p) THEN "remove-logs" ELSE "mark")
                      /\ job' = job
    BY <1>8 DEF RemoveRows
  <2>0. pc[p] = "remove" /\ s \in Covered(p) /\ s \in Surfaces
    BY <1>0, <1>8 DEF RemoveRows
  <2>1. \/ CommitFails(p) /\ live' = live
        \/ /\ TakeOut(p, s) /\ job' = job
           /\ Goto(p, IF s = "sqlite-state" /\ OwnsLock(p) THEN "remove-logs" ELSE "mark")
    BY CleanWrites
  <2>2. RemovedAt(p, s)
    BY <1>2, <2>0, <2>1, TaskStays DEF RemovedAt, Goto
  <2> QED BY <2>0, <2>2
<1>9. CASE RemoveLogs(p)
  <2> DEFINE s == "logs"
  <2>0. pc[p] = "remove-logs" /\ s \in Covered(p) /\ s # "sqlite-state" /\ s \in Surfaces
    BY <1>0, <1>9 DEF RemoveLogs
  <2>1. \/ CommitFails(p) /\ live' = live
        \/ \E o \in FaultsAt("surface", s) :
              /\ IF Effect(o) THEN TakeOut(p, s) ELSE live' = live
              /\ IF Throws(o) THEN CommitFails(p)
                 ELSE /\ Goto(p, "mark")
                      /\ job' = [job EXCEPT ![p].done = job[p].done \cup {s}]
    BY <1>9 DEF RemoveLogs
  <2>2. s = "logs"
    OBVIOUS
  <2> HIDE DEF s
  <2>3. \/ CommitFails(p) /\ live' = live
        \/ TakeOut(p, s) /\ Goto(p, "mark") /\ job' = [job EXCEPT ![p].done = job[p].done \cup {s}]
    BY <2>1, CleanWrites
  <2>4. RemovedAt(p, s)
    BY <1>1, <1>2, <2>0, <2>2, <2>3 DEF RemovedAt, Goto
  <2> QED BY <2>0, <2>4
<1> QED BY <1>5, <1>6, <1>7, <1>8, <1>9 DEF Removes

LEMMA RemovalTake ==
  ASSUME WritesAreClean, NEW p \in Procs, NEW o, Knows(p, o), Deletes(p), Removes(p)
  PROVE  TakeFits(p, o)' /\ \A t \in Surfaces : Shown(o, t)' = Shown(o, t)
<1> USE DEF Knows
<1> PICK s \in Covered(p) : RemovedAt(p, s)
  BY RemovalDoes DEF Fits
<1>0. s \in Surfaces
  BY ListsApart DEF Covered, Targets, Indexes
<1>1. /\ UNCHANGED <<journal, payload, entry>> /\ pc[p] \in {"remove", "remove-logs"}
  BY DEF Removes, RemoveFromIndex, RemoveFromGlobalState, RemoveFile, RemoveRows, RemoveLogs, disk, bin
<1>2. pc[p] \in PaidAt /\ pc[p] \in SeenAt \cap SnapAt \cap BundledAt /\ pc[p] \in WithPayload
      /\ pc[p] \notin LockingAt \cup ClosingAt \cup {"fin-stage"}
  BY <1>1 DEF PaidAt, CommittingAt, RemovingAt, SeenAt, SnapAt, BundledAt, WithPayload, LockingAt, ClosingAt
<1>3. /\ payload[o].before[s] = job[p].snap[s] /\ job[p].snap[s].own = Shown(o, s)
      /\ payload[o].kind # "none"
  BY <1>0, <1>2 DEF DurableAt, RemovalFits, LedgerAt, TakeFits, SnapFits, Fits, PayloadFits
<1>4. Removed(s, job[p].snap[s]).own = {}
  BY <1>0, JobFunction DEF Removed, Jobs, Images, Value
<1>5. ASSUME NEW t \in Surfaces PROVE Shown(o, t)' = Shown(o, t)
  <2>1. \A own : Shows(o, s, own) = own \cup payload[o].before[s].own
    BY <1>2, <1>3, TakenShows
  <2>2. Shows(o, s, {}) = Shown(o, s)
    BY <1>3, <2>1
  <2> QED BY <1>0, <1>1, <1>4, <2>2, WrittenShown DEF RemovedAt
<1>6. \A t \in Surfaces \ {s} : live'[t] = live[t]
  BY DEF RemovedAt, Typed, DataTyped, Images
<1>7. TakeFits(p, o) /\ TakenFits(p)
  BY DEF LedgerAt, TakeFits
<1>8. CASE CommitFails(p) \/ (pc'[p] = "undo-global-state" /\ job' = job)
  <2>1. SameTask(p) /\ pc'[p] \in {"undo", "undo-global-state"}
    BY <1>8, FailedCommit, TaskStays
  <2>2. TakenFits(p)' /\ ~Commits(p)'
    BY <2>1 DEF TakenFits, Commits
  <2> QED BY <1>1, <1>2, <1>5, <1>7, <2>1, <2>2, TakeFlow
          DEF SeenAt, SnapAt, BundledAt, PaidAt, CommittingAt, RemovingAt, EntryMadeAt, DeleteAt
<1>9. CASE ~(CommitFails(p) \/ (pc'[p] = "undo-global-state" /\ job' = job))
  <2>1. /\ live'[s].own = {} /\ SameTask(p)
        /\ job'[p].todo = job[p].todo /\ job'[p].cur = job[p].cur
        /\ pc'[p] = IF s = "sqlite-state" /\ OwnsLock(p) THEN "remove-logs" ELSE "mark"
        /\ \/ s \in job[p].cur /\ pc[p] = "remove"
           \/ s = "logs" /\ pc[p] = "remove-logs"
    BY <1>9 DEF RemovedAt
  <2>2. /\ pc[p] = "remove" => job[p].cur = {s}
        /\ pc[p] = "remove-logs" => job[p].cur = {"sqlite-state"}
    BY <1>7, <2>1 DEF TakenFits
  <2>3. job'[p].kind = job[p].kind
    BY <2>1 DEF SameTask
  <2>4. job[p].kind = "trash" => "logs" \notin Targets(job[p].kind)
    BY DEF Targets
  <2>5. ASSUME NEW t \in Targets(job[p].kind)
        PROVE  IF pc'[p] = "remove-logs"
               THEN Gone(t)' \/ t \in job[p].todo \ job[p].cur \/ t = "logs"
               ELSE Gone(t)' \/ Comes(t, job[p].todo \ job[p].cur)
    <3>0. t \in Surfaces
      BY SurfacesNamed DEF Targets
    <3>1. t = s => Gone(t)'
      BY <2>1 DEF Gone
    <3>2. t # s /\ Gone(t) => Gone(t)'
      BY <1>6, <3>0 DEF Gone
    <3>3. CASE pc[p] = "remove"
      <4>1. Gone(t) \/ Comes(t, job[p].todo)
        BY <1>7, <3>3 DEF TakenFits
      <4> QED BY <2>1, <2>2, <2>4, <3>1, <3>2, <3>3, <4>1 DEF Comes, Deletes, OwnsLock
    <3>4. CASE pc[p] = "remove-logs"
      <4>1. Gone(t) \/ t \in job[p].todo \ job[p].cur \/ t = "logs"
        BY <1>7, <3>4 DEF TakenFits
      <4> QED BY <2>1, <2>2, <3>1, <3>2, <3>4, <4>1 DEF Comes
    <3> QED BY <1>1, <3>3, <3>4
  <2>6. pc'[p] = "remove-logs" => job[p].cur = {"sqlite-state"}
    BY <2>1, <2>2
  <2>7. TakenFits(p)' /\ ~Commits(p)'
    <3>1. pc'[p] \in {"mark", "remove-logs"}
      BY <2>1
    <3> QED BY <2>1, <2>3, <2>5, <2>6, <3>1 DEF TakenFits, Commits, Comes, Gone
  <2>8. pc'[p] \in {"mark", "remove-logs"}
    BY <2>1
  <2> QED BY <1>1, <1>2, <1>5, <1>7, <2>1, <2>7, <2>8, TakeFlow
  
<1> QED BY <1>8, <1>9

(* The checkpoints of a commit.                                            *)
LEMMA CommitTake ==
  ASSUME ReleaseSucceeds, Consistent, NEW p \in Procs, NEW o, Knows(p, o), Deletes(p),
         EnterCommitting(p) \/ StartSurface(p) \/ MarkSurface(p) \/ EnterVerifying(p)
  PROVE  job'[p].op = o => TakeFits(p, o)' /\ \A t \in Surfaces : Shown(o, t)' = Shown(o, t)
<1> USE JobFunction DEF Knows
<1>0. /\ UNCHANGED <<live, payload, entry>> /\ pc[p] \in {"enter-commit", "commit", "mark"}
  BY DEF EnterCommitting, StartSurface, MarkSurface, EnterVerifying, data, bin
<1>1. pc[p] \in SeenAt \cap SnapAt \cap BundledAt \cap PaidAt /\ pc[p] \in WithPayload
      /\ pc[p] \notin LockingAt \cup ClosingAt \cup {"fin-stage"}
  BY <1>0 DEF PaidAt, CommittingAt, RemovingAt, SeenAt, SnapAt, BundledAt, WithPayload, LockingAt,
              ClosingAt, DeleteAt
<1>2. ASSUME NEW t \in Surfaces PROVE Shown(o, t)' = Shown(o, t)
  <2>1. OperationStep(p) /\ ~Ends(p)
    BY <1>0 DEF OperationStep, DeleteStep, Ends, ReleaseStage, FinalizeStage
  <2> QED BY <1>0, <2>1, EndsStay, ShownStays
<1>3. TakeFits(p, o) /\ TakenFits(p)
  BY DEF LedgerAt, TakeFits
<1>4. ASSUME SameTask(p), pc'[p] \in {"undo", "commit", "remove", "rel-stage"}, TakenFits(p)'
      PROVE  TakeFits(p, o)'
  <2>1. /\ pc'[p] \in SeenAt => pc[p] \in SeenAt
        /\ pc'[p] \in SnapAt => pc[p] \in SnapAt
        /\ pc'[p] \in BundledAt => pc[p] \in BundledAt
        /\ pc[p] \in SeenAt \cap BundledAt
        /\ pc'[p] \notin {"trash-seal", "trash-rename"}
    BY <1>1, <1>4
  <2> QED BY <1>0, <1>2, <1>3, <1>4, <2>1, TakeFlow
<1>5. ASSUME SameTask(p), pc'[p] = "undo" PROVE TakeFits(p, o)'
  BY <1>4, <1>5 DEF TakenFits, Commits
<1>6. \A t \in Targets(job[p].kind) : t \in Surfaces
  BY SurfacesNamed DEF Targets
<1>7. CASE EnterCommitting(p)
  <2>1. \/ CommitFails(p)
        \/ Goto(p, "commit") /\ job' = [job EXCEPT ![p].todo = CommitPlan(p)]
    BY <1>7 DEF EnterCommitting
  <2>2. CASE CommitFails(p)
    BY <1>2, <1>5, <2>2, FailedCommit
  <2>3. CASE Goto(p, "commit") /\ job' = [job EXCEPT ![p].todo = CommitPlan(p)]
    <3>1. SameTask(p) /\ job'[p].todo = CommitPlan(p) /\ job'[p].kind = job[p].kind /\ pc'[p] = "commit"
      BY <2>3 DEF SameTask, Jobs, Goto
    <3>2. ASSUME NEW t \in Targets(job[p].kind)
          PROVE  Gone(t)' \/ Comes(t, CommitPlan(p))
      <4>1. job[p].seen[t].own = Shown(o, t) /\ job[p].snap[t].own = Shown(o, t)
        BY <1>1, <1>3, <1>6 DEF TakeFits, SeenFits, SnapFits
      <4>2. Shown(o, t) = live[t].own \cup payload[o].before[t].own
        BY <1>1, TakenShows DEF Shown, Fits, PayloadFits
      <4>3. Shown(o, t) = {} => Gone(t)'
        BY <1>0, <4>2 DEF Gone
      <4>4. CASE t \notin Covered(p)
        BY <4>1, <4>3, <4>4 DEF Covered
      <4>5. CASE t \in Indexes /\ job[p].snap[t].own = {}
        BY <4>1, <4>3, <4>5
      <4>6. CASE t = "logs"
        <5>1. "sqlite-state" \in Targets(job[p].kind) /\ "sqlite-state" \notin Files \cup Indexes
          BY ListsApart, SurfacesNamed DEF Databases, Targets, Deletes
        <5>2. "sqlite-state" \in CommitPlan(p)
          BY <5>1 DEF CommitPlan, Covered
        <5> QED BY <4>6, <5>2 DEF Comes
      <4>7. CASE t \in CommitPlan(p)
        BY <4>7 DEF Comes
      <4> QED BY <4>4, <4>5, <4>6, <4>7 DEF CommitPlan
    <3>3. TakenFits(p)'
      BY <3>1, <3>2 DEF TakenFits, Commits, Comes, Gone
    <3> QED BY <1>2, <1>4, <3>1, <3>3
  <2> QED BY <2>1, <2>2, <2>3
<1>8. CASE StartSurface(p)
  <2> PICK s \in First(job[p].todo, CommitRank), r \in Outcome("journal") :
        /\ job' = [job EXCEPT ![p] =
                  [job[p] EXCEPT !.marks = StartMarks(p, s), !.done = SqliteStarted(p, s),
                                 !.cur = IF Throws(r) THEN {} ELSE {s},
                                 !.todo = IF Throws(r) THEN SqliteStarted(p, s) ELSE job[p].todo]]
        /\ Goto(p, IF Throws(r) THEN "undo" ELSE "remove")
    BY <1>8 DEF StartSurface
  <2>1. /\ SameTask(p) /\ job'[p].kind = job[p].kind
        /\ ~Throws(r) => job'[p].todo = job[p].todo /\ job'[p].cur = {s} /\ s \in Surfaces
        /\ pc'[p] = IF Throws(r) THEN "undo" ELSE "remove"
    BY Edited DEF SameTask, Goto, First, Jobs
  <2>2. CASE Throws(r)
    BY <1>2, <1>5, <2>1, <2>2
  <2>3. CASE ~Throws(r)
    <3>1. pc[p] = "commit"
      BY <1>8 DEF StartSurface
    <3>2. \A t \in Targets(job[p].kind) : Gone(t)' \/ Comes(t, job[p].todo)
      BY <1>0, <1>3, <3>1 DEF TakenFits, Gone
    <3>3. TakenFits(p)'
      BY <2>1, <2>3, <3>2 DEF TakenFits, Commits, Comes, Gone
    <3> QED BY <1>2, <1>4, <2>1, <2>3, <3>3
  <2> QED BY <2>2, <2>3
<1>9. CASE MarkSurface(p)
  <2> PICK r \in Outcome("journal") :
        /\ job' = [job EXCEPT ![p] =
                  [job[p] EXCEPT !.marks = job[p].marks \cup {<<s, "committed">> : s \in job[p].cur},
                                 !.cur = {},
                                 !.todo = IF Throws(r) THEN job[p].done
                                                       ELSE job[p].todo \ job[p].cur]]
        /\ Goto(p, IF Throws(r) THEN "undo" ELSE "commit")
    BY <1>9 DEF MarkSurface
  <2> DEFINE m == job[p].marks \cup {<<s, "committed">> : s \in job[p].cur}
             l == IF Throws(r) THEN job[p].done ELSE job[p].todo \ job[p].cur
             j == [job[p] EXCEPT !.marks = m, !.cur = {}, !.todo = l]
  <2>1. j.todo = l
    BY DEF Jobs
  <2>2. job'[p] = j
    OBVIOUS
  <2> HIDE DEF j, m
  <2>3. SameTask(p) /\ job'[p].todo = l /\ job'[p].kind = job[p].kind
    BY <1>9, <2>1, <2>2, CheckpointEdits DEF SameTask
  <2>5. pc'[p] = IF Throws(r) THEN "undo" ELSE "commit"
    BY DEF Goto
  <2>6. CASE Throws(r)
    BY <1>2, <1>5, <2>3, <2>5, <2>6
  <2>7. CASE ~Throws(r)
    <3>1. pc[p] = "mark"
      BY <1>9 DEF MarkSurface
    <3>2. \A t \in Targets(job[p].kind) : Gone(t)' \/ Comes(t, job[p].todo \ job[p].cur)
      BY <1>0, <1>3, <3>1 DEF TakenFits, Gone
    <3>3. TakenFits(p)'
      BY <2>3, <2>5, <2>7, <3>2 DEF TakenFits, Commits, Comes, Gone
    <3> QED BY <1>2, <1>4, <2>3, <2>5, <2>7, <3>3
  <2> QED BY <2>6, <2>7
<1>10. CASE EnterVerifying(p)
  <2>1. \/ \E stage, next : ReleaseAs(p, stage, next)
        \/ Stop(p)
    BY <1>10 DEF EnterVerifying
  <2>2. CASE Stop(p)
    BY <2>2 DEF Stop, NoJob, OpIds
  <2>3. CASE \E stage, next : ReleaseAs(p, stage, next)
    <3>1. SameTask(p) /\ pc'[p] = "rel-stage" /\ job'[p].kind = job[p].kind
      BY <2>3, TaskStays, Ways DEF SameTask
    <3>2. pc[p] = "commit" /\ job[p].todo = {}
      BY <1>10 DEF EnterVerifying
    <3>3. \A t \in Targets(job[p].kind) : Gone(t)'
      BY <1>0, <1>3, <3>2 DEF TakenFits, Gone, Comes
    <3>4. TakenFits(p)'
      BY <3>1, <3>3 DEF TakenFits, Gone
    <3> QED BY <1>2, <1>4, <3>1, <3>4
  <2> QED BY <2>1, <2>2, <2>3
<1> QED BY <1>7, <1>8, <1>9, <1>10

(* The steps up to the first removal.                                      *)
LEMMA BeginTake ==
  ASSUME ReleaseSucceeds, QuietCodex, Consistent, NEW p \in Procs, NEW o, Knows(p, o), Deletes(p),
         EnterPrepared(p) \/ CheckSelection(p) \/ Capture(p) \/ Recheck(p)
  PROVE  TakeFits(p, o)' /\ \A t \in Surfaces : Shown(o, t)' = Shown(o, t)
<1> USE JobFunction DEF Knows
<1>0. /\ UNCHANGED <<live, payload, entry>>
      /\ pc[p] \in {"acquired", "trash-deletes", "prepared", "capture", "recheck"}
  BY DEF EnterPrepared, CheckSelection, Capture, Recheck, data, disk, bin, OwnsLock
<1>2. ASSUME NEW t \in Surfaces PROVE Shown(o, t)' = Shown(o, t)
  <2>1. OperationStep(p) /\ ~Ends(p)
    BY <1>0 DEF OperationStep, DeleteStep, Ends, ReleaseStage, FinalizeStage
  <2> QED BY <1>0, <2>1, EndsStay, ShownStays
<1>3. TakeFits(p, o)
  BY DEF LedgerAt, TakeFits
<1>4. pc[p] # "recheck" => \A t \in Surfaces : Shown(o, t) = live[t].own
  <2>1. pc[p] # "recheck" => payload[o].covers = {} /\ payload[o].kind \in {"none", "delete", "trash"}
    BY <1>0 DEF RollbackAt, EndingFits, UncoveredAt, EntryMadeAt, Fits, PayloadFits, Deletes
  <2> QED BY <2>1, EmptyShows DEF Recorded, Shown
<1>5. \/ TakenFits(p)' /\ ~Commits(p)'
      \/ pc'[p] \in {"commit", "remove", "remove-logs", "mark"}
      \/ Commits(p)'
  BY DEF TakenFits, Commits
<1>6. ASSUME PrepareFails(p) PROVE TakeFits(p, o)'
  <2>1. SameTask(p) /\ pc'[p] \in {"rel-stage", "trash-drop-entry"} /\ ~Commits(p)'
    BY <1>6, TaskStays, Ways DEF PrepareFails, ReleaseAs, Commits, Goto, Jobs
  <2>2. TakenFits(p)'
    BY <1>5, <2>1
  <2>3. pc'[p] \notin SeenAt \cup SnapAt \cup BundledAt
    BY <2>1 DEF SeenAt, SnapAt, BundledAt, PaidAt, CommittingAt, RemovingAt, EntryMadeAt, DeleteAt
  <2> QED BY <1>0, <1>2, <1>3, <2>1, <2>2, <2>3, TakeFlow
<1>7. CASE EnterPrepared(p)
  <2>1. PrepareFails(p) \/ (Goto(p, "prepared") /\ job' = job)
    BY <1>7 DEF EnterPrepared
  <2>2. ASSUME Goto(p, "prepared"), job' = job PROVE TakeFits(p, o)'
    <3>1. SameTask(p) /\ pc'[p] = "prepared" /\ ~Commits(p)' /\ TakenFits(p)'
      BY <1>5, <2>2, TaskStays DEF Goto, Commits
    <3>2. pc'[p] \notin SeenAt \cup SnapAt
      BY <3>1 DEF SeenAt, SnapAt, PaidAt, CommittingAt, RemovingAt
    <3>3. job[p].kind = "trash" => pc[p] \in BundledAt
      BY <1>7 DEF EnterPrepared, OwnsLock, BundledAt, EntryMadeAt
    <3> QED BY <1>0, <1>2, <1>3, <3>1, <3>2, <3>3, TakeFlow
  <2> QED BY <1>2, <1>6, <2>1, <2>2
<1>8. CASE CheckSelection(p)
  <2>1. PrepareFails(p) \/ (SelectionCurrent(p) /\ Goto(p, "capture") /\ job' = job)
    BY <1>8 DEF CheckSelection
  <2>2. ASSUME SelectionCurrent(p), Goto(p, "capture"), job' = job PROVE TakeFits(p, o)'
    <3>1. SameTask(p) /\ pc'[p] = "capture" /\ ~Commits(p)' /\ TakenFits(p)' /\ pc[p] = "prepared"
      BY <1>5, <1>8, <2>2, TaskStays DEF Goto, Commits, CheckSelection
    <3>2. pc'[p] \notin SnapAt /\ pc[p] \in BundledAt
      BY <3>1 DEF SnapAt, PaidAt, CommittingAt, RemovingAt, BundledAt, DeleteAt
    <3>3. SeenFits(p, o)'
      BY <1>0, <1>2, <1>4, <2>2, <3>1, SameSelection DEF SeenFits
    <3> QED BY <1>0, <1>2, <1>3, <3>1, <3>2, <3>3, TakeMoves DEF SameTask
  <2> QED BY <1>2, <1>6, <2>1, <2>2
<1>9. CASE Capture(p)
  <2> DEFINE v == [live EXCEPT !["global-state"] = job[p].seen["global-state"]]
  <2>1. PrepareFails(p) \/ (Goto(p, "payload") /\ job' = [job EXCEPT ![p].snap = v])
    BY <1>9 DEF Capture
  <2>2. ASSUME Goto(p, "payload"), job' = [job EXCEPT ![p].snap = v] PROVE TakeFits(p, o)'
    <3>1. /\ job'[p].kind = job[p].kind /\ job'[p].seen = job[p].seen /\ job'[p].snap = v
          /\ pc'[p] = "payload" /\ pc[p] = "capture" /\ TakenFits(p)' /\ ~Commits(p)'
      BY <1>5, <1>9, <2>2 DEF Goto, Commits, Capture, Jobs
    <3>2. pc[p] \in BundledAt /\ pc[p] \in SeenAt
      BY <3>1 DEF SeenAt, BundledAt, DeleteAt
    <3>3. \A s \in Surfaces : job[p].seen[s].own = live[s].own
      BY <1>3, <1>4, <3>1, <3>2 DEF TakeFits, SeenFits
    <3>4. \A s \in Surfaces : v[s].own = live[s].own
      BY <3>3 DEF Typed, DataTyped, Images
    <3> HIDE DEF v
    <3>5. SnapFits(p, o)'
      BY <1>2, <1>4, <3>1, <3>4 DEF SnapFits
    <3> QED BY <1>0, <1>2, <1>3, <3>1, <3>2, <3>5, TakeMoves
  <2> QED BY <1>2, <1>6, <2>1, <2>2
<1>10. CASE Recheck(p)
  <2>1. CommitFails(p) \/ (Goto(p, "enter-commit") /\ job' = job)
    BY <1>10 DEF Recheck
  <2>2. SameTask(p) /\ pc'[p] \in {"undo", "enter-commit"} /\ ~Commits(p)' /\ TakenFits(p)'
    BY <1>5, <2>1, FailedCommit, TaskStays DEF Goto, Commits
  <2>3. pc[p] \in SeenAt \cap SnapAt \cap BundledAt
    BY <1>10 DEF Recheck, SeenAt, SnapAt, BundledAt, DeleteAt, PaidAt
  <2> QED BY <1>0, <1>2, <1>3, <2>2, <2>3, TakeFlow
<1> QED BY <1>7, <1>8, <1>9, <1>10

(* The payload holds what was shown of each surface it covers, and the     *)
(* others hold nothing.                                                    *)
LEMMA PayloadTake ==
  ASSUME ReleaseSucceeds, Consistent, NEW p \in Procs, NEW o, Knows(p, o), Deletes(p),
         WritePayload(p)
  PROVE  TakeFits(p, o)' /\ (\A t \in Surfaces : Shown(o, t)' = Shown(o, t)) /\ Recorded(o)'
<1> USE JobFunction DEF Knows
<1> DEFINE v == [kind |-> job[p].kind, covers |-> Covered(p), before |-> BeforeImage(p),
                 moves |-> NoRecords, from |-> 0, sealed |-> ~OwnsLock(p)]
<1>0. /\ UNCHANGED <<live, journal, entry>> /\ pc[p] = "payload"
      /\ payload' = payload \/ payload' = [payload EXCEPT ![o] = v]
      /\ CommitFails(p) \/ (Goto(p, "recheck") /\ job' = job)
  BY DEF WritePayload, data, bin
<1>1. \A s \in Surfaces : Shown(o, s) = live[s].own
  <2>1. payload[o].covers = {} /\ payload[o].kind \in {"none", "delete", "trash"}
    BY <1>0 DEF RollbackAt, EndingFits, UncoveredAt, Fits, PayloadFits, Deletes
  <2> QED BY <2>1, EmptyShows DEF Recorded, Shown
<1>2. TakeFits(p, o) /\ pc[p] \in SeenAt \cap SnapAt \cap BundledAt
  BY <1>0 DEF LedgerAt, SeenAt, SnapAt, BundledAt, DeleteAt
<1>3. \A s \in Surfaces : job[p].seen[s].own = live[s].own /\ job[p].snap[s].own = live[s].own
  BY <1>1, <1>2 DEF TakeFits, SeenFits, SnapFits
<1>4. ASSUME NEW s \in Surfaces
      PROVE  /\ v.before[s].own = IF s \in Covered(p) THEN live[s].own ELSE {}
             /\ v.moves[s] = {} /\ v.kind = job[p].kind /\ v.covers = Covered(p)
  BY <1>3 DEF BeforeImage, Blank, NoRecords
<1>5. payload' = payload \/ payload'[o] = v
  BY <1>0 DEF Typed
<1> HIDE DEF v
<1>6. ASSUME NEW s \in Surfaces PROVE Shown(o, s)' = Shown(o, s)
  <2>1. CASE payload' = payload
    BY <1>0, <2>1, ShownStays
  <2>2. CASE payload'[o] = v
    <3>1. journal'[o].stage \notin Final
      BY <1>0 DEF Fits, StageFits, LockingAt, ClosingAt
    <3>2. Shown(o, s)' = live[s].own
      BY <1>0, <1>4, <2>2, <3>1 DEF Shown, Shows, Deletes
    <3> QED BY <1>1, <3>2
  <2> QED BY <1>5, <2>1, <2>2
<1>7. Recorded(o)'
  <2>1. CASE payload' = payload
    BY <1>0, <2>1 DEF Recorded, TakeRecord, AddRecord
  <2>2. CASE payload'[o] = v
    <3>1. v.kind # "restore"
      BY <1>4, SurfacesNamed DEF Deletes
    <3>2. TakeRecord(o)'
      <4>1. job[p].kind = "trash" => "logs" \notin Covered(p)
        BY DEF Covered, Targets
      <4>2. v.kind = job[p].kind /\ v.covers = Covered(p)
        BY <1>4, SurfacesNamed
      <4> QED BY <1>4, <2>2, <4>1, <4>2 DEF TakeRecord
    <3> QED BY <2>2, <3>1, <3>2 DEF Recorded, AddRecord
  <2> QED BY <1>5, <2>1, <2>2
<1>8. TakeFits(p, o)'
  <2>1. SameTask(p) /\ pc'[p] \in {"undo", "recheck"}
    BY <1>0, FailedCommit, TaskStays DEF Goto
  <2>2. TakenFits(p)' /\ ~Commits(p)'
    BY <2>1 DEF TakenFits, Commits
  <2> QED BY <1>0, <1>2, <1>6, <2>1, <2>2, TakeFlow
<1> QED BY <1>6, <1>7, <1>8

(* Putting back shows what was shown.                                      *)
LEMMA UndoTake ==
  ASSUME ReleaseSucceeds, Consistent, NEW p \in Procs, NEW o, Knows(p, o), Deletes(p),
         UndoGlobalState(p) \/ UndoStep(p)
  PROVE  TakeFits(p, o)' /\ \A t \in Surfaces : Shown(o, t)' = Shown(o, t)
<1> USE JobFunction DEF Knows
<1>0. UNCHANGED <<journal, payload, entry>> /\ pc[p] \in {"undo", "undo-global-state"}
  BY DEF UndoGlobalState, UndoStep, UndoSurface, UndoEnds, disk, bin
<1>1. TakeFits(p, o) /\ pc[p] \in SnapAt /\ \A s \in Surfaces : job[p].snap[s].own = Shown(o, s)
  BY <1>0 DEF LedgerAt, SnapAt, TakeFits, SnapFits
<1>2. ASSUME NEW s \in Surfaces, payload[o].kind # "none",
             NEW v, v.own = job[p].snap[s].own \/ v.own = live[s].own \cup job[p].snap[s].own,
             live' = live \/ live' = [live EXCEPT ![s] = v], NEW t \in Surfaces
      PROVE  Shown(o, t)' = Shown(o, t)
  <2>1. \A own : Shows(o, s, own) = own \cup payload[o].before[s].own
    BY <1>0, <1>2, TakenShows DEF LockingAt, ClosingAt
  <2>2. Shows(o, s, v.own) = Shown(o, s)
    <3>1. Shows(o, s, v.own) = v.own \cup payload[o].before[s].own
      BY <2>1
    <3>2. Shown(o, s) = live[s].own \cup payload[o].before[s].own
      BY <2>1 DEF Shown
    <3>3. job[p].snap[s].own = live[s].own \cup payload[o].before[s].own
      BY <1>1, <3>2
    <3> QED BY <1>2, <3>1, <3>2, <3>3
  <2> QED BY <1>0, <1>2, <2>2, WrittenShown
<1>3. ASSUME live' = live, NEW t \in Surfaces PROVE Shown(o, t)' = Shown(o, t)
  BY <1>0, <1>3, ShownStays
<1>4. ASSUME SameTask(p), pc'[p] \in {"undo", "rel-stage", "trash-drop-entry"}, ~Commits(p)',
             \A t \in Surfaces : Shown(o, t)' = Shown(o, t)
      PROVE  TakeFits(p, o)'
  <2>1. TakenFits(p)'
    BY <1>4 DEF TakenFits
  <2>2. pc'[p] \notin SeenAt \cup BundledAt /\ pc'[p] \notin {"trash-seal", "trash-rename"}
    BY <1>4 DEF SeenAt, BundledAt, PaidAt, CommittingAt, RemovingAt, EntryMadeAt, DeleteAt
  <2> QED BY <1>0, <1>1, <1>4, <2>1, <2>2, TakeFlow
<1>5. CASE UndoGlobalState(p)
  <2>1. SameTask(p) /\ pc'[p] = "undo" /\ ~Commits(p)'
    BY <1>5, FailedCommit DEF UndoGlobalState, Commits
  <2>2. payload[o].kind # "none" /\ "global-state" \in Surfaces
    BY <1>5, SurfacesNamed DEF Fits, PayloadFits, WithPayload, UndoGlobalState
  <2>3. live' = live \/ live' = [live EXCEPT !["global-state"] = job[p].snap["global-state"]]
    BY <1>5 DEF UndoGlobalState
  <2> QED BY <1>2, <1>4, <2>1, <2>2, <2>3
<1>6. CASE UndoSurface(p)
  <2> PICK s \in First(job[p].todo, UndoRank) :
        \/ ReleaseAs(p, "recovery_required", "ignore") /\ (live' = live \/ PutBack(s, job[p].snap[s]))
        \/ /\ PutBack(s, job[p].snap[s]) \/ live' = live
           /\ pc' = pc /\ job' = [job EXCEPT ![p].todo = job[p].todo \ {s}]
    BY <1>6 DEF UndoSurface
  <2>1. s \in Surfaces /\ payload[o].kind # "none" /\ pc[p] = "undo"
    BY <1>6 DEF First, Jobs, UndoSurface, Fits, PayloadFits
  <2>2. SameTask(p) /\ pc'[p] \in {"undo", "rel-stage"} /\ ~Commits(p)'
    <3>1. CASE ReleaseAs(p, "recovery_required", "ignore")
      <4>1. SameTask(p)
        BY <3>1, TaskStays
      <4>2. pc'[p] = "rel-stage" /\ job'[p].rel.stage = "recovery_required"
        BY <3>1 DEF ReleaseAs, Goto, Jobs
      <4> QED BY <4>1, <4>2 DEF Commits
    <3>2. CASE pc' = pc /\ job' = [job EXCEPT ![p].todo = job[p].todo \ {s}]
      BY <2>1, <3>2 DEF SameTask, Jobs, Commits
    <3> QED BY <3>1, <3>2
  <2>3. live' = live \/ live' = [live EXCEPT ![s] = WithMissing(s, job[p].snap[s])]
    BY DEF PutBack
  <2>4. LET v == WithMissing(s, job[p].snap[s]) IN
        v.own = job[p].snap[s].own \/ v.own = live[s].own \cup job[p].snap[s].own
    <3>1. live[s] \in Value
      BY <2>1 DEF Typed, DataTyped, Images
    <3> QED BY <3>1 DEF WithMissing, Value
  <2>5. \A t \in Surfaces : Shown(o, t)' = Shown(o, t)
    BY <1>2, <2>1, <2>3, <2>4
  <2> QED BY <1>4, <2>2, <2>5
<1>7. CASE UndoEnds(p)
  <2>1. live' = live /\ SameTask(p)
    BY <1>7, TaskStays DEF UndoEnds, data
  <2>2. pc'[p] \in {"rel-stage", "trash-drop-entry"} /\ ~Commits(p)'
    BY <1>7 DEF UndoEnds, ReleaseAs, Goto, Jobs, Commits
  <2> QED BY <1>3, <1>4, <2>1, <2>2
<1> QED BY <1>5, <1>6, <1>7 DEF UndoStep

-----------------------------------------------------------------------------
(* What a step of the worker keeps, and one that shows the same.           *)
Carries(p, o) == (job'[p].op = o => LedgerAt(p, o)') /\ Recorded(o)'
SameShown(o)  == \A s \in Surfaces : Shown(o, s)' = Shown(o, s)
Continues(p, o) == Carries(p, o) /\ SameShown(o)

LEMMA TakeElsewhere ==
  ASSUME NEW p \in Procs, NEW o, ~Commits(p)',
         pc'[p] \notin SeenAt \cup SnapAt \cup BundledAt \cup {"trash-seal", "trash-rename"}
  PROVE  TakeFits(p, o)'
<1>1. ~Commits(p)' /\ pc'[p] \notin {"commit", "remove", "remove-logs", "mark"}
  BY DEF SeenAt, PaidAt, CommittingAt, RemovingAt
<1>2. TakenFits(p)'
  BY <1>1 DEF TakenFits
<1> QED BY <1>1, <1>2 DEF TakeFits, SeenFits, SnapFits, BundleFits
LEMMA AddElsewhere ==
  ASSUME NEW p \in Procs, NEW o, ~Commits(p)', ~Returns(p)',
         pc'[p] \notin BeforeAt \cup RestoringAt \cup {"rec", "fin-stage"}
  PROVE  AddFits(p, o)'
<1> USE DEF BeforeAt, RestoringAt, RestoreAt
<1>1. FoundFits(p)'
  BY DEF FoundFits, RestoreBeginsAt
<1>2. SetsFit(p, o)'
  BY DEF SetsFit
<1>3. HasFits(p, o)'
  BY DEF HasFits
<1>4. ClearFits(p, o)'
  BY DEF ClearFits
<1> QED BY <1>1, <1>2, <1>3, <1>4 DEF AddFits
LEMMA OtherAdds ==
  ASSUME NEW p \in Procs, NEW o, job'[p].kind # "restore"
  PROVE  AddFits(p, o)'
BY DEF AddFits
LEMMA OtherTakes ==
  ASSUME NEW p \in Procs, NEW o, job'[p].kind \notin {"delete", "trash"}
  PROVE  TakeFits(p, o)'
BY DEF TakeFits, Deletes
LEMMA ResultStays ==
  ASSUME NEW p \in Procs, NEW o, ResultFits(p, o),
         \/ pc'[p] \notin ReconcileAt \cup {"fin-stage"}
         \/ /\ pc[p] \in ReconcileAt \cup {"fin-stage"} /\ job'[p].rel = job[p].rel
            /\ journal'[o] = journal[o] /\ payload'[o] = payload[o]
  PROVE  ResultFits(p, o)'
BY DEF ResultFits, EndStage, IsFinal, Untouched

(* Most steps write no payload.                                            *)
LEMMA QuietContinues ==
  ASSUME ReleaseSucceeds, Sound, NEW p \in Procs, NEW o, Knows(p, o), OperationStep(p) \/ Crash(p),
         payload' = payload, ~Ends(p), job'[p].op = o => LedgerAt(p, o)',
         live' = live \/ \A s \in Surfaces : Shown(o, s)' = Shown(o, s)
  PROVE  Continues(p, o)
<1>2. Recorded(o)'
  BY RecordsStay DEF Sound, Knows, Paid, RollbackInv
<1>3. ASSUME NEW s \in Surfaces, live' = live PROVE Shown(o, s)' = Shown(o, s)
  BY <1>3, EndsStay, ShownStays DEF Sound, Knows
<1> QED BY <1>2, <1>3 DEF Continues, Carries, SameShown

LEMMA DeleteLedger ==
  ASSUME WritesAreClean, ReleaseSucceeds, QuietCodex, Sound, NEW p \in Procs, NEW o, Knows(p, o),
         Deletes(p), DeleteStep(p) \/ UndoStep(p)
  PROVE  Continues(p, o)
<1>0. OperationStep(p) /\ Consistent /\ Typed
  BY DEF OperationStep, Sound, Consistent
<1>1. pc'[p] \notin ReconcileAt \cup {"fin-stage"}
  <2> USE <1>0, Ways DEF ReconcileAt
  <2>1. CASE EnterPrepared(p) \/ CheckSelection(p) \/ Capture(p) \/ WritePayload(p) \/ Recheck(p)
    BY <2>1 DEF EnterPrepared, CheckSelection, Capture, WritePayload, Recheck, Goto
  <2>2. CASE EnterCommitting(p) \/ StartSurface(p) \/ MarkSurface(p) \/ EnterVerifying(p)
    BY <2>2 DEF EnterCommitting, StartSurface, MarkSurface, EnterVerifying
  <2>3. CASE RemoveFromIndex(p) \/ RemoveFromGlobalState(p) \/ UndoGlobalState(p)
    BY <2>3 DEF RemoveFromIndex, RemoveFromGlobalState, UndoGlobalState
  <2>4. CASE RemoveFile(p) \/ RemoveRows(p) \/ RemoveLogs(p)
    BY <2>4 DEF RemoveFile, RemoveRows, RemoveLogs
  <2>5. CASE UndoStep(p)
    BY <2>5 DEF UndoStep, UndoSurface, UndoEnds
  <2> QED BY <2>1, <2>2, <2>3, <2>4, <2>5 DEF DeleteStep
<1>2. ~Ends(p) /\ (WritePayload(p) \/ payload' = payload)
  <2> USE DEF Ends, ReleaseStage, FinalizeStage, disk
  <2>1. CASE EnterPrepared(p) \/ CheckSelection(p) \/ Capture(p) \/ Recheck(p)
    BY <2>1 DEF EnterPrepared, CheckSelection, Capture, Recheck
  <2>2. CASE EnterCommitting(p) \/ StartSurface(p) \/ MarkSurface(p) \/ EnterVerifying(p)
    BY <2>2 DEF EnterCommitting, StartSurface, MarkSurface, EnterVerifying
  <2>3. CASE RemoveFromIndex(p) \/ RemoveFromGlobalState(p) \/ UndoGlobalState(p)
    BY <2>3 DEF RemoveFromIndex, RemoveFromGlobalState, UndoGlobalState
  <2>4. CASE RemoveFile(p) \/ RemoveRows(p) \/ RemoveLogs(p)
    BY <2>4 DEF RemoveFile, RemoveRows, RemoveLogs
  <2>5. CASE UndoStep(p)
    BY <2>5 DEF UndoStep, UndoSurface, UndoEnds
  <2>6. CASE WritePayload(p)
    BY <2>6 DEF WritePayload
  <2> QED BY <2>1, <2>2, <2>3, <2>4, <2>5, <2>6 DEF DeleteStep
<1>3. ASSUME job'[p].op = o, TakeFits(p, o)' PROVE LedgerAt(p, o)'
  <2>1. o # 0
    BY DEF Knows, OpIds
  <2>2. Stays(p)
    BY <1>0, DeleteStays, UndoStays
  <2>3. job'[p].kind = job[p].kind
    BY <1>3, <2>1, <2>2 DEF Stays, GoesOn, NoJob
  <2>4. job'[p].kind # "restore"
    BY <2>3 DEF Deletes
  <2>5. ResultFits(p, o)'
    BY <1>1 DEF ResultFits
  <2> QED BY <1>3, <2>4, <2>5, OtherAdds DEF LedgerAt
<1>4. CASE WritePayload(p)
  BY <1>0, <1>3, <1>4, PayloadTake DEF Continues, Carries, SameShown
<1>5. CASE ~WritePayload(p)
  <2>1. /\ job'[p].op = o => TakeFits(p, o)'
        /\ live' = live \/ \A s \in Surfaces : Shown(o, s)' = Shown(o, s)
    <3>1. CASE Removes(p)
      BY <3>1, RemovalTake
    <3>2. CASE EnterCommitting(p) \/ StartSurface(p) \/ MarkSurface(p) \/ EnterVerifying(p)
      <4>1. live' = live
        BY <3>2 DEF EnterCommitting, StartSurface, MarkSurface, EnterVerifying, data
      <4> QED BY <1>0, <3>2, <4>1, CommitTake
    <3>3. CASE EnterPrepared(p) \/ CheckSelection(p) \/ Capture(p) \/ Recheck(p)
      BY <1>0, <3>3, BeginTake
    <3>4. CASE UndoGlobalState(p) \/ UndoStep(p)
      BY <1>0, <3>4, UndoTake
    <3> QED BY <1>5, <3>1, <3>2, <3>3, <3>4 DEF DeleteStep, Removes
  <2> QED BY <1>0, <1>2, <1>3, <1>5, <2>1, QuietContinues
<1> QED BY <1>4, <1>5

(* The steps of a cleanup: what it writes to an index is seen at once.     *)
LEMMA CleanupLedger ==
  ASSUME ReleaseSucceeds, Sound, NEW p \in Procs, NEW o, Knows(p, o), Cleans(p),
         CleanupStep(p) \/ DeleteStep(p) \/ UndoStep(p), ~CheckIndexes(p)
  PROVE  /\ Carries(p, o) /\ (live' = live => SameShown(o))
         /\ live' # live => payload[o].kind = "cleanup-index"
<1> USE JobFunction DEF Knows
<1>0. OperationStep(p) /\ Consistent /\ Paid
  BY DEF OperationStep, Sound, Consistent, Paid, RollbackInv
<1>1. ~Deletes(p) /\ pc[p] \notin DeleteAt \cup {"remove-logs"}
  BY DEF Cleans, Deletes, Fits, KindFits
<1>2. /\ pc'[p] \notin ReconcileAt \cup {"fin-stage"} /\ ~Ends(p)
      /\ payload' = payload \/ WriteCleanupPayload(p)
  <2> USE DEF ReconcileAt, Ends, ReleaseStage, FinalizeStage
  <2>1. CASE CleanupStep(p)
    BY <2>1 DEF CleanupStep, CheckIndexes, WriteCleanupPayload, RecheckCleanup, CommitCleanup, StartIndex,
                VerifyCleanup, CommitFails, Goto, ReleaseAs, disk
  <2>2. CASE UndoStep(p)
    BY <2>2 DEF UndoStep, UndoSurface, UndoEnds, Goto, ReleaseAs, disk, Cleans
  <2>3. CASE DeleteStep(p)
    BY <1>1, <2>3 DEF DeleteStep, EnterPrepared, CheckSelection, Capture, WritePayload, Recheck,
           EnterCommitting, StartSurface, MarkSurface, EnterVerifying, RemoveFromIndex,
           RemoveFromGlobalState, UndoGlobalState, RemoveFile, RemoveRows, RemoveLogs,
           DeleteAt, CommitFails, Goto, disk
  <2> QED BY <2>1, <2>2, <2>3
<1>3. job'[p].op = o => LedgerAt(p, o)'
  <2>1. SUFFICES ASSUME job'[p].op = o PROVE LedgerAt(p, o)'
    OBVIOUS
  <2>2. Stays(p) /\ o # 0
    BY DeleteStays, UndoStays, CleanupStays DEF OpIds
  <2>3. job'[p].kind = "cleanup-index"
    BY <2>1, <2>2 DEF Stays, GoesOn, NoJob, Cleans
  <2>4. ResultFits(p, o)'
    BY <1>2 DEF ResultFits
  <2> QED BY <2>3, <2>4, OtherAdds, OtherTakes DEF LedgerAt
<1>4. CASE WriteCleanupPayload(p)
  <2>1. /\ live' = live /\ journal' = journal
        /\ payload' = payload \/ payload' = [payload EXCEPT ![o] = CleanupPayload(p)]
    BY <1>4 DEF WriteCleanupPayload, data
  <2>2. payload[o].kind \in {"none", "cleanup-index"}
    BY DEF Fits, PayloadFits, Cleans
  <2>3. payload'[o].kind \in {"none", "cleanup-index"}
    BY <2>1, <2>2 DEF CleanupPayload, Cleans, Typed
  <2>4. Recorded(o)'
    BY <2>3 DEF Recorded, TakeRecord, AddRecord
  <2>5. \A s \in Surfaces : Shown(o, s)' = Shown(o, s)
    BY <2>1, <2>2, <2>3 DEF Shown, Shows
  <2> QED BY <1>3, <2>1, <2>4, <2>5 DEF Carries, SameShown
<1>5. CASE payload' = payload
  <2>1. Recorded(o)'
    BY <1>0, <1>5, RecordsStay
  <2>2. live' = live => SameShown(o)
    BY <1>0, <1>2, <1>5, EndsStay, ShownStays DEF SameShown
  <2>3. live' # live => payload[o].kind = "cleanup-index"
    <3>1. live' # live => Writes(p)
      BY <1>0, OthersReadOnly
    <3>2. Writes(p) => pc[p] \in WithPayload \cup {"purge-logs"} \/ (pc[p] = "undo" /\ job[p].todo # {})
      BY <1>1, WritersWork
         DEF WritingAt, WithPayload, PaidAt, CommittingAt, RemovingAt, ReconcileAt, PurgingAt, DeleteAt
    <3> QED BY <3>1, <3>2 DEF Fits, PayloadFits, WithPayload, PurgingAt, Cleans
  <2> QED BY <1>3, <2>1, <2>2, <2>3 DEF Carries
<1> QED BY <1>2, <1>4, <1>5

-----------------------------------------------------------------------------
(* The steps of moveSessionsToTrash.                                       *)
LEMMA TrashShows ==
  ASSUME NEW p \in Procs, NEW o, Knows(p, o), job[p].kind = "trash",
         pc[p] \in {"acquired"} \cup MoveAt \cup EntryMadeAt
  PROVE  /\ payload[o].kind \in {"none", "trash"} /\ payload[o].covers = {}
         /\ journal[o].stage \notin Final
         /\ \A s \in Surfaces : Shown(o, s) = live[s].own
<1> USE DEF Knows
<1>1. payload[o].kind \in {"none", "trash"} /\ payload[o].covers = {}
  BY DEF RollbackAt, EndingFits, UncoveredAt, Fits, PayloadFits
<1>2. journal[o].stage \notin Final
  BY DEF Fits, StageFits, LockingAt, ClosingAt, MoveAt, EntryMadeAt
<1> QED BY <1>1, <1>2, EmptyShows DEF Recorded, Shown

LEMMA TrashPayloadLedger ==
  ASSUME ReleaseSucceeds, Sound, NEW p \in Procs, NEW o, Knows(p, o), WriteTrashPayload(p)
  PROVE  Continues(p, o)
<1> USE JobFunction DEF Knows
<1> DEFINE v == TrashPayload(pc[p] = "trash-seal")
<1>0. /\ UNCHANGED <<live, journal, entry>> /\ pc[p] \in {"acquired", "trash-seal"} /\ job' = job
      /\ payload' = payload \/ payload' = [payload EXCEPT ![o] = v]
      /\ job[p].kind = "trash"
      /\ \/ pc'[p] \in {"trash-drop-tmp", "trash-mkdir"}
         \/ pc'[p] = "trash-rename" /\ pc[p] = "trash-seal"
  BY Ways DEF WriteTrashPayload, data, bin, DropTmp
<1>1. \A s \in Surfaces : Shown(o, s) = live[s].own
  BY <1>0, TrashShows DEF MoveAt
<1>2. journal'[o].stage \notin Final
  BY <1>0, TrashShows DEF MoveAt
<1>3. payload'[o] = payload[o] \/ payload'[o] = v
  BY <1>0 DEF Typed
<1>4. /\ v.kind = "trash" /\ v.covers = {}
      /\ \A s \in Surfaces : v.before[s].own = {} /\ v.moves[s] = {}
  BY DEF TrashPayload, Blank, NoRecords
<1> HIDE DEF v
<1>5. ASSUME NEW s \in Surfaces PROVE Shown(o, s)' = Shown(o, s)
  <2>1. CASE payload'[o] = payload[o]
    BY <1>0, <2>1, ShownStays
  <2>2. CASE payload'[o] = v
    BY <1>0, <1>1, <1>2, <1>4, <2>2 DEF Shown, Shows
  <2> QED BY <1>3, <2>1, <2>2
<1>6. Recorded(o)'
  <2>1. CASE payload'[o] = payload[o]
    BY <1>0, <2>1 DEF Recorded, TakeRecord, AddRecord
  <2>2. CASE payload'[o] = v
    BY <1>4, <2>2 DEF Recorded, TakeRecord, AddRecord
  <2> QED BY <1>3, <2>1, <2>2
<1>7. TakeFits(p, o)'
  <2>1. CASE pc'[p] \in {"trash-drop-tmp", "trash-mkdir"}
    <3>1. ~Commits(p)'
      BY <2>1 DEF Commits
    <3> QED BY <2>1, <3>1, TakeElsewhere
            DEF SeenAt, SnapAt, PaidAt, CommittingAt, RemovingAt, BundledAt, EntryMadeAt, DeleteAt
  <2>2. CASE pc'[p] = "trash-rename" /\ pc[p] = "trash-seal"
    <3>1. Bundled(p, o, job[p].bundle)
      BY <1>0, <2>2 DEF LedgerAt, TakeFits, BundleFits, Deletes
    <3>2. Bundled(p, o, job[p].bundle)'
      BY <1>0, <1>5, <3>1 DEF Bundled
    <3> QED BY <2>2, <3>2
            DEF TakeFits, SeenFits, SnapFits, TakenFits, BundleFits, Commits, SeenAt, SnapAt, PaidAt,
                CommittingAt, RemovingAt, BundledAt, EntryMadeAt, DeleteAt
  <2> QED BY <1>0, <2>1, <2>2
<1>8. AddFits(p, o)' /\ ResultFits(p, o)'
  BY <1>0, OtherAdds DEF ResultFits, ReconcileAt
<1> QED BY <1>5, <1>6, <1>7, <1>8 DEF Continues, Carries, SameShown, LedgerAt

LEMMA TrashLedger ==
  ASSUME ReleaseSucceeds, Sound, NEW p \in Procs, NEW o, Knows(p, o), TrashStep(p)
  PROVE  Continues(p, o)
<1> USE JobFunction DEF Knows
<1>0. OperationStep(p) /\ Consistent
  BY DEF OperationStep, Sound
<1>1. CASE WriteTrashPayload(p)
  BY <1>1, TrashPayloadLedger
<1>2. CASE ~WriteTrashPayload(p)
  <2>1. (live' = live /\ journal' = journal) \/ MarkTrashEntry(p)
    BY <1>2 DEF TrashStep, MakeTmp, BuildBundle, CommitTrashEntry, DropTrash, TearEntry, data, disk
  <2>2. live' = live /\ payload' = payload /\ ~Ends(p)
    BY <1>2 DEF TrashStep, MakeTmp, BuildBundle, CommitTrashEntry, MarkTrashEntry, DropTrash,
                TearEntry, data, disk, Ends, ReleaseStage, FinalizeStage
  <2>3. \A s \in Surfaces : Shown(o, s)' = Shown(o, s)
    BY <1>0, <2>2, EndsStay, ShownStays
  <2>4. TakeFits(p, o) /\ ResultFits(p, o)
    BY DEF LedgerAt
  <2>5. ASSUME pc'[p] \notin SeenAt \cup SnapAt \cup BundledAt \cup {"trash-seal", "trash-rename"}
                             \cup BeforeAt \cup RestoringAt \cup {"rec", "fin-stage"},
               ~Commits(p)', job'[p].kind # "restore" \/ ~Returns(p)', ResultFits(p, o)'
        PROVE  LedgerAt(p, o)'
    BY <2>5, TakeElsewhere, AddElsewhere, OtherAdds DEF LedgerAt
  <2>6. ASSUME job' = job, pc'[p] \in {"trash-drop-tmp", "trash-bundle", "trash-drop-entry", "purge-remove"}
        PROVE  LedgerAt(p, o)'
    BY <2>5, <2>6 DEF Commits, Returns, ResultFits, ReconcileAt, SeenAt, SnapAt, PaidAt, CommittingAt,
             RemovingAt, BundledAt, EntryMadeAt, DeleteAt, BeforeAt, RestoringAt, RestoreBeginsAt
  <2>7. ASSUME NEW stage, NEW next, ReleaseAs(p, stage, next), stage # "committed", job[p].kind = "trash"
        PROVE  LedgerAt(p, o)'
    <3>1. pc'[p] = "rel-stage" /\ job'[p].rel.stage = stage /\ job'[p].kind = "trash"
      BY <2>7 DEF ReleaseAs, Goto, Jobs
    <3> QED BY <2>5, <2>7, <3>1
            DEF Commits, ResultFits, ReconcileAt, SeenAt, SnapAt, PaidAt, CommittingAt,
                RemovingAt, BundledAt, EntryMadeAt, DeleteAt, BeforeAt, RestoringAt, RestoreBeginsAt
  <2>8. LedgerAt(p, o)'
    <3> USE DEF TrashAt, MoveAt, EntryMadeAt, KindFits, Fits
    <3>1. CASE MakeTmp(p)
      BY <2>6, <3>1, Ways DEF MakeTmp, DropTmp
    <3>2. CASE BuildBundle(p)
      <4>1. DropTmp(p) \/ (Goto(p, "trash-seal") /\ job' = [job EXCEPT ![p].bundle = Bundle(p)])
        BY <3>2 DEF BuildBundle
      <4>2. CASE DropTmp(p)
        BY <2>6, <4>2, Ways DEF DropTmp
      <4>3. CASE Goto(p, "trash-seal") /\ job' = [job EXCEPT ![p].bundle = Bundle(p)]
        <5>1. /\ pc'[p] = "trash-seal" /\ job'[p].bundle = Bundle(p) /\ job'[p].seen = job[p].seen
              /\ job'[p].kind = "trash" /\ pc[p] = "trash-bundle"
          BY <3>2, <4>3 DEF Goto, Jobs, BuildBundle
        <5>2. \A s \in Surfaces : Shown(o, s) = live[s].own
          BY <5>1, <3>2, TrashShows DEF BuildBundle
        <5>3. Bundled(p, o, job[p].bundle)'
          BY <2>3, <5>1, <5>2 DEF Bundled, Bundle
        <5>4. TakeFits(p, o)'
          BY <5>1, <5>3
            DEF TakeFits, SeenFits, SnapFits, TakenFits, BundleFits, Commits, SeenAt, SnapAt, PaidAt,
                CommittingAt, RemovingAt, BundledAt, DeleteAt
        <5> QED BY <5>1, <5>4, OtherAdds DEF LedgerAt, ResultFits, ReconcileAt
      <4> QED BY <4>1, <4>2, <4>3
    <3>3. CASE CommitTrashEntry(p)
      <4>1. \/ DropTmp(p)
            \/ /\ Goto(p, "trash-mark") /\ job' = job
               /\ entry' = [entry EXCEPT ![o] = [state |-> "complete", bundle |-> job[p].bundle]]
        BY <3>3 DEF CommitTrashEntry, Effect, Throws
      <4>2. CASE DropTmp(p)
        BY <2>6, <4>2, Ways DEF DropTmp
      <4>3. CASE /\ Goto(p, "trash-mark") /\ job' = job
                 /\ entry' = [entry EXCEPT ![o] = [state |-> "complete", bundle |-> job[p].bundle]]
        <5>1. /\ pc'[p] = "trash-mark" /\ entry'[o].bundle = job[p].bundle /\ pc[p] = "trash-rename"
              /\ job[p].kind = "trash"
          BY <3>3, <4>3 DEF Goto, CommitTrashEntry, Typed, BinTyped
        <5>2. Bundled(p, o, job[p].bundle)
          BY <2>4, <5>1 DEF TakeFits, BundleFits, Deletes
        <5>3. Bundled(p, o, entry[o].bundle)'
          BY <2>3, <4>3, <5>1, <5>2 DEF Bundled
        <5>4. TakeFits(p, o)'
          BY <5>1, <5>3
            DEF TakeFits, SeenFits, SnapFits, TakenFits, BundleFits, Commits, SeenAt, SnapAt, PaidAt,
                CommittingAt, RemovingAt
        <5> QED BY <4>3, <5>1, <5>4, OtherAdds DEF LedgerAt, ResultFits, ReconcileAt
      <4> QED BY <4>1, <4>2, <4>3
    <3>4. CASE MarkTrashEntry(p)
      <4>1. \/ KeepEntry(p)
            \/ Goto(p, "trash-deletes") /\ job' = job
        BY <3>4 DEF MarkTrashEntry
      <4>0. pc[p] = "trash-mark" /\ job[p].kind = "trash" /\ entry' = entry
        BY <3>4 DEF MarkTrashEntry, bin
      <4>2. CASE KeepEntry(p)
        BY <2>7, <4>0, <4>2 DEF KeepEntry
      <4>3. CASE Goto(p, "trash-deletes") /\ job' = job
        <5>1. pc'[p] = "trash-deletes"
          BY <4>3 DEF Goto
        <5>2. Bundled(p, o, entry[o].bundle)
          BY <2>4, <4>0 DEF TakeFits, BundleFits, Deletes, BundledAt
        <5>3. Bundled(p, o, entry[o].bundle)'
          BY <2>3, <4>0, <4>3, <5>2 DEF Bundled
        <5>4. TakeFits(p, o)'
          BY <5>1, <5>3
            DEF TakeFits, SeenFits, SnapFits, TakenFits, BundleFits, Commits, SeenAt, SnapAt, PaidAt,
                CommittingAt, RemovingAt
        <5> QED BY <4>0, <4>3, <5>1, <5>4, OtherAdds DEF LedgerAt, ResultFits, ReconcileAt
      <4> QED BY <4>1, <4>2, <4>3
    <3>5. CASE DropTrash(p)
      <4>1. \E stage \in {"recovery_required", "rolled_back"} : \E next : ReleaseAs(p, stage, next)
        BY <3>5 DEF DropTrash
      <4>2. job[p].kind = "trash"
        BY <3>5 DEF DropTrash
      <4> QED BY <2>7, <4>1, <4>2
    <3>6. CASE TearEntry(p)
      <4>1. /\ job' = job /\ pc'[p] = IF pc[p] = "rec-trash" THEN "rec-rmdir" ELSE pc[p]
            /\ pc[p] \in {"trash-drop-entry", "purge-remove", "rec-trash"} /\ journal' = journal
        BY <3>6 DEF TearEntry, Goto, disk
      <4>2. CASE pc[p] # "rec-trash"
        BY <2>6, <4>1, <4>2
      <4>3. CASE pc[p] = "rec-trash"
        <5>1. ResultFits(p, o)'
          BY <2>2, <2>4, <4>1, <4>3, ResultStays DEF ReconcileAt
        <5> QED BY <2>5, <4>1, <4>3, <5>1
          DEF Commits, Returns, SeenAt, SnapAt, PaidAt, CommittingAt,
              RemovingAt, BundledAt, DeleteAt, BeforeAt, RestoringAt, RestoreBeginsAt
      <4> QED BY <4>2, <4>3
    <3> QED BY <1>2, <3>1, <3>2, <3>3, <3>4, <3>5, <3>6 DEF TrashStep
  <2> QED BY <1>0, <2>2, <2>8, QuietContinues
<1> QED BY <1>1, <1>2

-----------------------------------------------------------------------------
(* The steps of purgeTrashEntry.  Until its journal is final nothing is    *)
(* shown but what is live.                                                 *)
LEMMA PurgeShows ==
  ASSUME NEW o, payload[o].kind \in {"none", "purge"}, NEW s
  PROVE  Shown(o, s) = live[s].own
BY DEF Shown, Shows

(* A purge and its recovery know nothing the ledger needs.                 *)
LEMMA PurgerCarries ==
  ASSUME ReleaseSucceeds, Sound, NEW p \in Procs, NEW o, Knows(p, o), OperationStep(p) \/ Crash(p),
         payload' = payload, job'[p].op = o => job'[p].kind = "purge",
         job'[p].op = o => ResultFits(p, o)'
  PROVE  Carries(p, o)
<1>1. Recorded(o)'
  BY RecordsStay DEF Sound, Knows, Paid, RollbackInv
<1>2. job'[p].op = o => LedgerAt(p, o)'
  BY OtherTakes, OtherAdds DEF LedgerAt
<1> QED BY <1>1, <1>2 DEF Carries

LEMMA PurgeLedger ==
  ASSUME ReleaseSucceeds, Sound, NEW p \in Procs, NEW o, Knows(p, o), PurgeStep(p)
  PROVE  Carries(p, o) /\ (live' = live => SameShown(o))
<1> USE JobFunction DEF Knows
<1>0. OperationStep(p) /\ Consistent
  BY DEF OperationStep, Sound
<1>1. job[p].kind = "purge" /\ payload[o].kind \in {"none", "purge"} /\ o # 0
  <2>1. pc[p] \in PurgingAt \cup {"purge-payload"}
    BY DEF PurgeStep, WritePurgePayload, RecheckPurge, CheckpointPurge, PurgeLogs, QuarantineEntry,
           RemoveQuarantine, VerifyPurge, PurgingAt
  <2> QED BY <2>1 DEF Fits, KindFits, PayloadFits, OpIds
<1>2. job'[p].op = o => job'[p].kind = "purge"
  <2>1. Stays(p)
    BY PurgeStays
  <2> QED BY <1>1, <2>1 DEF Stays, GoesOn, NoJob
<1>3. ResultFits(p, o)'
  <2>1. pc'[p] \notin ReconcileAt \cup {"fin-stage"}
    <3> USE Ways DEF ReconcileAt
    <3>1. CASE CheckpointPurge(p)
      BY <3>1 DEF CheckpointPurge
    <3>2. CASE WritePurgePayload(p) \/ RecheckPurge(p) \/ PurgeLogs(p)
      BY <3>2 DEF WritePurgePayload, RecheckPurge, PurgeLogs
    <3>3. CASE QuarantineEntry(p) \/ RemoveQuarantine(p) \/ VerifyPurge(p)
      BY <3>3 DEF QuarantineEntry, RemoveQuarantine, VerifyPurge
    <3> QED BY <3>1, <3>2, <3>3 DEF PurgeStep
  <2> QED BY <2>1 DEF ResultFits
<1>4. CASE WritePurgePayload(p)
  <2> DEFINE v == [kind |-> job[p].kind, covers |-> job[p].todo, before |-> Blank,
                   moves |-> job[p].bundle, from |-> job[p].from, sealed |-> TRUE]
  <2>1. payload' = payload \/ payload' = [payload EXCEPT ![o] = v]
    BY <1>4 DEF WritePurgePayload
  <2>2. v.kind = "purge"
    BY <1>1
  <2> HIDE DEF v
  <2>3. payload'[o].kind \in {"none", "purge"}
    BY <1>1, <2>1, <2>2 DEF Typed
  <2>4. Recorded(o)'
    BY <2>3 DEF Recorded, TakeRecord, AddRecord
  <2>5. job'[p].op = o => LedgerAt(p, o)'
    BY <1>2, <1>3, OtherTakes, OtherAdds DEF LedgerAt
  <2>6. SameShown(o)
    <3>1. \A s : Shown(o, s) = live[s].own
      BY <1>1, PurgeShows
    <3>2. \A s : Shown(o, s)' = live'[s].own
      BY <2>3 DEF Shown, Shows
    <3>3. live' = live
      BY <1>4 DEF WritePurgePayload, data
    <3> QED BY <3>1, <3>2, <3>3 DEF SameShown
  <2> QED BY <2>4, <2>5, <2>6 DEF Carries
<1>5. CASE ~WritePurgePayload(p)
  <2>1. payload' = payload /\ ~Ends(p)
    BY <1>5 DEF PurgeStep, RecheckPurge, CheckpointPurge, PurgeLogs, QuarantineEntry,
           RemoveQuarantine, VerifyPurge, disk, Ends, ReleaseStage, FinalizeStage
  <2>2. live' = live => SameShown(o)
    BY <1>0, <2>1, EndsStay, ShownStays DEF SameShown
  <2> QED BY <1>0, <1>2, <1>3, <2>1, <2>2, PurgerCarries
<1> QED BY <1>4, <1>5

-----------------------------------------------------------------------------
(* The steps of restoreTrashEntry: before the payload is written nothing   *)
(* is recorded.                                                            *)
LEMMA BeforeRestore ==
  ASSUME NEW p \in Procs, NEW o, Knows(p, o), job[p].kind = "restore", pc[p] \in BeforeAt
  PROVE  /\ payload[o].kind = "none" /\ \A s : Shown(o, s) = live[s].own
         /\ FoundFits(p) /\ job[p].done = {}
<1>1. payload[o].covers = {} /\ payload[o].kind \in {"none", "restore"}
  BY DEF Knows, RollbackAt, EndingFits, UncoveredAt, BeforeAt, RestoreBeginsAt, Fits, PayloadFits
<1>2. payload[o].kind # "restore"
  BY <1>1 DEF Knows, Recorded, AddRecord, Rows
<1>3. FoundFits(p)
  BY DEF Knows, LedgerAt, AddFits
<1> QED BY <1>1, <1>2, <1>3 DEF Shown, Shows, FoundFits

LEMMA EntryLedger ==
  ASSUME ReleaseSucceeds, Sound, NEW p \in Procs, NEW o, Knows(p, o),
         PrepareEntry(p) \/ CheckEntry(p) \/ CommitEntry(p)
  PROVE  Continues(p, o)
<1> USE JobFunction DEF Knows
<1>0. OperationStep(p) /\ Consistent
  BY DEF OperationStep, EntryStep, Sound
<1>1. /\ live' = live /\ payload' = payload /\ entry' = entry /\ ~Ends(p)
      /\ pc[p] \in {"acquired", "entry", "restore-commit", "purge-commit"}
  BY DEF PrepareEntry, CheckEntry, CommitEntry, data, disk, bin, Ends, ReleaseStage, FinalizeStage
<1>2. job[p].kind \in {"restore", "purge"}
  BY DEF PrepareEntry, CheckEntry, CommitEntry, FromTrash, Fits, KindFits, PurgingAt, RestoringAt
<1>3. \/ Refuse(p)
      \/ pc[p] = "acquired" /\ Goto(p, "entry") /\ job' = job
      \/ /\ pc[p] = "entry" /\ EntryIsCurrent(p) /\ job' = job
         /\ Goto(p, IF job[p].kind = "restore" THEN "conflicts" ELSE "purge-payload")
      \/ /\ pc[p] \in {"restore-commit", "purge-commit"} /\ job' = job
         /\ Goto(p, IF pc[p] = "restore-commit" THEN "restore" ELSE "purge-start")
  BY DEF PrepareEntry, CheckEntry, CommitEntry
<1>4. job'[p].kind = job[p].kind /\ (job' = job \/ Refuse(p))
  BY <1>3 DEF Refuse, ReleaseAs, Jobs
<1>5. pc'[p] \in {"rel-stage", "entry", "conflicts", "purge-payload", "restore", "purge-start"}
  BY <1>3, Ways
<1>6. ResultFits(p, o)'
  BY <1>5 DEF ResultFits, ReconcileAt
<1>7. TakeFits(p, o)'
  BY <1>2, <1>4, OtherTakes
<1>8. AddFits(p, o)'
  <2>1. CASE job[p].kind # "restore"
    BY <1>4, <2>1, OtherAdds
  <2>2. CASE job[p].kind = "restore" /\ Refuse(p)
    <3>1. pc'[p] = "rel-stage" /\ job'[p].rel.stage = "rolled_back"
      BY <2>2 DEF Refuse, ReleaseAs, Goto, Jobs
    <3>2. payload[o].kind = "restore" => \A s \in Surfaces : Clear(o, s)
      <4>1. CASE pc[p] \in BeforeAt
        BY <2>2, <4>1, BeforeRestore
      <4>2. CASE pc[p] \notin BeforeAt
        <5>1. pc[p] = "restore-commit"
          BY <1>1, <2>2, <4>2 DEF BeforeAt, Fits, KindFits, PurgingAt
        <5> QED BY <2>2, <5>1 DEF LedgerAt, AddFits, ClearFits
      <4> QED BY <4>1, <4>2
    <3>3. payload'[o].kind = "restore" => \A s \in Surfaces : Clear(o, s)'
      BY <1>1, <3>2 DEF Clear
    <3> QED BY <3>1, <3>3 DEF AddFits, FoundFits, SetsFit, HasFits, ClearFits, BeforeAt, RestoreBeginsAt,
               RestoringAt, RestoreAt, Commits, Returns
  <2>3. CASE job[p].kind = "restore" /\ ~Refuse(p) /\ pc[p] \in {"acquired", "entry"}
    <3>1. job[p].done = {} /\ job' = job
      BY <1>3, <2>3, BeforeRestore DEF BeforeAt
    <3>2. /\ pc'[p] \in {"entry", "conflicts"}
          /\ pc'[p] = "conflicts" => entry[job[p].from].state = "complete"
      BY <1>3, <2>3, Ways DEF EntryIsCurrent
    <3> QED BY <1>1, <3>1, <3>2
            DEF AddFits, FoundFits, SetsFit, HasFits, ClearFits, BeforeAt, RestoreBeginsAt,
               RestoringAt, RestoreAt, Commits, Returns
  <2>4. CASE job[p].kind = "restore" /\ ~Refuse(p) /\ pc[p] \in {"restore-commit", "purge-commit"}
    <3>1. pc[p] = "restore-commit" /\ pc'[p] = "restore" /\ job' = job
      BY <1>3, <2>4, Ways DEF Fits, KindFits, PurgingAt
    <3>2. /\ FoundFits(p) /\ SetsFit(p, o) /\ ClearFits(p, o) /\ payload[o].kind = "restore"
      BY <2>4, <3>1 DEF LedgerAt, AddFits, Fits, PayloadFits, WithPayload, RestoringAt
    <3>3. SetsFit(p, o)'
      <4>1. job[p].todo = payload[o].covers /\ Rows \subseteq payload[o].covers /\ job[p].done = {}
        BY <3>1, <3>2 DEF SetsFit, Recorded, AddRecord, FoundFits
      <4>2. \A s \in payload[o].covers \cap Texts : payload[o].before[s].own = job[p].snap[s].own
        BY <3>1, <3>2 DEF SetsFit, RestoringAt
      <4> QED BY <1>1, <3>1, <4>1, <4>2 DEF SetsFit, RestoreAt
    <3>4. HasFits(p, o)' /\ ClearFits(p, o)' /\ FoundFits(p)'
      BY <1>1, <3>1, <3>2 DEF HasFits, ClearFits, FoundFits, SetsFit, Clear, BeforeAt, RestoreBeginsAt,
             Commits, Returns
    <3> QED BY <3>3, <3>4 DEF AddFits
  <2> QED BY <1>1, <2>1, <2>2, <2>3, <2>4
<1> QED BY <1>0, <1>1, <1>6, <1>7, <1>8, QuietContinues DEF LedgerAt
(* What a restore knows once its payload is written.                       *)
LEMMA RestoreFacts ==
  ASSUME NEW p \in Procs, NEW o, Knows(p, o), pc[p] \in RestoringAt
  PROVE  LET plan == payload[o] IN
         /\ job[p].kind = "restore" /\ plan.kind = "restore" /\ journal[o].stage \notin Final
         /\ Rows \subseteq plan.covers /\ plan.covers \subseteq Texts \cup Rows
         /\ \A s \in Surfaces \ plan.covers : plan.moves[s] = {} /\ plan.before[s].own = {}
         /\ \A s \in Rows : plan.before[s].own = {}
         /\ \A s \in plan.covers \cap Texts : plan.before[s].own = job[p].snap[s].own
         /\ pc[p] \in AddingAt => plan.moves = job[p].bundle
         /\ \A s, own : Shows(o, s, own) = own \ (plan.moves[s] \ plan.before[s].own)
         /\ AddFits(p, o) /\ SetsFit(p, o) /\ HasFits(p, o) /\ ClearFits(p, o) /\ ResultFits(p, o)
<1> USE DEF Knows
<1>1. job[p].kind = "restore" /\ payload[o].kind = "restore"
  BY DEF Fits, KindFits, PayloadFits, WithPayload
<1>2. journal[o].stage \notin Final
  BY DEF Fits, StageFits, RestoringAt, LockingAt, ClosingAt
<1>3. AddRecord(o)
  BY DEF Recorded
<1>4. AddFits(p, o) /\ SetsFit(p, o) /\ HasFits(p, o) /\ ClearFits(p, o) /\ ResultFits(p, o)
  BY <1>1 DEF LedgerAt, AddFits
<1>5. pc[p] \in AddingAt => payload[o].moves = job[p].bundle
  BY DEF DurableAt, MovesFit
<1>6. \A s \in payload[o].covers \cap Texts : payload[o].before[s].own = job[p].snap[s].own
  BY <1>4 DEF SetsFit
<1>7. \A s, own : Shows(o, s, own) = own \ (payload[o].moves[s] \ payload[o].before[s].own)
  BY <1>1, <1>2 DEF Shows
<1> QED BY <1>1, <1>2, <1>3, <1>4, <1>5, <1>6, <1>7 DEF AddRecord

(* What follows from a step of a restore that keeps the payload.           *)
LEMMA RestoreContinues ==
  ASSUME ReleaseSucceeds, Sound, NEW p \in Procs, NEW o, Knows(p, o), RestoreStep(p),
         payload' = payload, job'[p].kind = "restore", AddFits(p, o)',
         pc'[p] \notin ReconcileAt \cup {"fin-stage"},
         live' = live \/ SameShown(o)
  PROVE  Continues(p, o)
<1>1. OperationStep(p) /\ ~Ends(p)
  <2>1. pc[p] \notin {"rel-stage", "fin-stage"}
    BY DEF RestoreStep, CheckConflicts, CaptureRestore, WriteRestorePayload, StartRestore, RestoreText,
           RereadWritten, MarkRestored, RestoreRows, RemoveGoals, UndoRestore, UndoRestoreEnds, MarkRows, VerifyRestore
  <2> QED BY <2>1 DEF OperationStep, Ends, ReleaseStage, FinalizeStage
<1>2. LedgerAt(p, o)'
  BY OtherTakes DEF LedgerAt, ResultFits
<1> QED BY <1>1, <1>2, QuietContinues DEF SameShown

(* Where a commit of a restore turns back.                                 *)
LEMMA RestoreFailed ==
  ASSUME Typed, NEW p \in Procs, NEW stuck, RestoreFails(p, stuck)
  PROVE  SameTask(p) /\ pc'[p] = "unrestore" /\ job'[p].todo = job[p].done /\ job'[p].cur = stuck
BY JobFunction, TaskStays DEF RestoreFails, Goto, Jobs
LEMMA TurnsBack ==
  ASSUME NEW p \in Procs, NEW o, Knows(p, o), pc[p] \in RestoreAt \cup {"unrestore-goals"},
         payload' = payload, SameTask(p), pc'[p] = "unrestore", job'[p].todo = job[p].done,
         \A s \in Surfaces : Clear(o, s)' \/ s \in job[p].done \cup job'[p].cur
  PROVE  AddFits(p, o)'
<1>1. pc[p] \in RestoringAt
  BY DEF RestoringAt, RestoreAt
<1>2. SetsFit(p, o)'
  <2>1. \A s \in payload[o].covers \cap Texts : payload[o].before[s].own = job[p].snap[s].own
    BY <1>1, RestoreFacts
  <2>2. job[p].done \subseteq payload[o].covers \cap Texts
    BY <1>1, RestoreFacts DEF SetsFit
  <2> QED BY <2>1, <2>2 DEF SetsFit, SameTask, RestoreAt
<1>3. FoundFits(p)' /\ HasFits(p, o)' /\ ClearFits(p, o)'
  BY DEF FoundFits, HasFits, ClearFits, BeforeAt, RestoreBeginsAt, Commits, Returns
<1> QED BY <1>2, <1>3 DEF AddFits

LEMMA RestoreBeginsLedger ==
  ASSUME ReleaseSucceeds, Sound, NEW p \in Procs, NEW o, Knows(p, o), CheckConflicts(p) \/ CaptureRestore(p)
  PROVE  Continues(p, o)
<1> USE JobFunction DEF Knows
<1>0. RestoreStep(p) /\ live' = live /\ payload' = payload /\ entry' = entry
      /\ pc[p] \in {"conflicts", "restore-capture"} /\ job[p].kind = "restore"
  BY DEF RestoreStep, CheckConflicts, CaptureRestore, data, disk, bin, Fits, KindFits, RestoreBeginsAt
<1>1. /\ payload[o].kind = "none" /\ FoundFits(p) /\ job[p].done = {}
      /\ entry[job[p].from].state = "complete"
  BY <1>0, BeforeRestore DEF BeforeAt, RestoreBeginsAt, FoundFits
<1>2. CASE Refuse(p)
  <2>1. pc'[p] = "rel-stage" /\ job'[p].kind = "restore"
    BY <1>0, <1>2 DEF Refuse, ReleaseAs, Goto, Jobs
  <2>2. AddFits(p, o)'
    BY <1>0, <1>1, <2>1 DEF AddFits, FoundFits, SetsFit, HasFits, ClearFits, BeforeAt, RestoreBeginsAt,
               RestoringAt, RestoreAt, Commits, Returns
  <2> QED BY <1>0, <2>1, <2>2, RestoreContinues DEF ReconcileAt
<1>3. CASE NoConflicts(p) /\ Goto(p, "restore-capture") /\ job' = job
  <2>1. pc'[p] = "restore-capture" /\ \A s \in Rows : Gone(s)
    BY <1>3 DEF NoConflicts, Gone, Goto
  <2>2. AddFits(p, o)'
    BY <1>0, <1>1, <1>3, <2>1 DEF AddFits, FoundFits, SetsFit, HasFits, ClearFits, BeforeAt, RestoreBeginsAt,
               RestoringAt, RestoreAt, Commits, Returns, Gone
  <2> QED BY <1>0, <1>3, <2>1, <2>2, RestoreContinues DEF ReconcileAt
<1>4. CASE CaptureRestore(p)
  <2>1. /\ pc'[p] = "restore-payload" /\ job'[p].kind = "restore" /\ job'[p].done = {}
        /\ job'[p].from = job[p].from /\ job'[p].snap = live /\ job'[p].todo = RestorePlan(p)
        /\ job'[p].bundle = job[p].bundle /\ pc[p] = "restore-capture"
    BY <1>0, <1>1, <1>4 DEF CaptureRestore, Goto, Jobs
  <2>2. RestorePlan(p)' = RestorePlan(p)
    BY <2>1 DEF RestorePlan
  <2>3. \A s \in Rows : Gone(s)
    BY <1>1, <2>1 DEF FoundFits
  <2>4. FoundFits(p)'
    BY <1>0, <1>1, <2>1, <2>2, <2>3 DEF FoundFits, BeforeAt, RestoreBeginsAt, Gone
  <2>5. AddFits(p, o)'
    BY <2>1, <2>4 DEF AddFits, SetsFit, HasFits, ClearFits, RestoringAt, RestoreAt, Commits, Returns
  <2> QED BY <1>0, <2>1, <2>5, RestoreContinues DEF ReconcileAt
<1> QED BY <1>2, <1>3, <1>4 DEF CheckConflicts

LEMMA RestorePayloadLedger ==
  ASSUME ReleaseSucceeds, Sound, NEW p \in Procs, NEW o, Knows(p, o), WriteRestorePayload(p)
  PROVE  Continues(p, o)
<1> USE JobFunction DEF Knows
<1> DEFINE v == [kind |-> job[p].kind, covers |-> job[p].todo,
                 before |-> [s \in Surfaces |-> IF s \in job[p].todo \ Rows
                                                THEN job[p].snap[s] ELSE Blank[s]],
                 moves |-> Moves(p), from |-> job[p].from, sealed |-> FALSE]
<1>0. /\ UNCHANGED <<live, journal, entry>> /\ pc[p] = "restore-payload"
      /\ payload' = payload \/ payload' = [payload EXCEPT ![o] = v]
      /\ \/ Refuse(p)
         \/ Goto(p, "restore-commit") /\ job' = job /\ payload' = [payload EXCEPT ![o] = v]
  BY DEF WriteRestorePayload, data, bin, Effect, Throws
<1>1. job[p].kind = "restore" /\ journal[o].stage \notin Final
  BY <1>0 DEF Fits, KindFits, RestoreBeginsAt, StageFits, LockingAt, ClosingAt
<1>2. /\ payload[o].kind = "none" /\ job[p].done = {} /\ \A s : Shown(o, s) = live[s].own
      /\ entry[job[p].from].state = "complete" /\ job[p].todo = RestorePlan(p)
      /\ \A s \in Rows : Gone(s)
      /\ \A s \in Surfaces : job[p].snap[s].own = live[s].own
  BY <1>0, <1>1, BeforeRestore DEF BeforeAt, RestoreBeginsAt, FoundFits
<1>3. entry[job[p].from].bundle = job[p].bundle /\ job[p].bundle["logs"] = {}
  BY <1>0, <1>1, <1>2 DEF NamedFits, NamedAt, RestoreBeginsAt
<1>4. /\ Rows \subseteq RestorePlan(p) /\ RestorePlan(p) \subseteq Texts \cup Rows
      /\ \A s \in Surfaces \ RestorePlan(p) : job[p].bundle[s] = {}
      /\ Rows \cap Texts = {}
  <2>1. Rows \cap Texts = {} /\ Databases = Rows \cup {"logs"}
    BY ListsApart DEF Rows, Databases, Texts
  <2>2. Surfaces = Texts \cup Databases
    BY DEF Surfaces, Texts
  <2> QED BY <1>3, <2>1, <2>2 DEF RestorePlan, Texts
<1>5. /\ v.kind = "restore" /\ v.covers = RestorePlan(p) /\ v.moves = job[p].bundle
      /\ v.from = job[p].from
      /\ \A s \in Surfaces : v.before[s].own = IF s \in RestorePlan(p) \cap Texts THEN live[s].own ELSE {}
  BY <1>1, <1>2, <1>4 DEF Moves, Blank
<1>6. payload'[o] = payload[o] \/ payload'[o] = v
  BY <1>0 DEF Typed
<1>6a. ~Refuse(p) => payload'[o] = v
  BY <1>0 DEF Typed
<1> HIDE DEF v
<1>7. ASSUME NEW s \in Surfaces PROVE live[s].own \cap v.moves[s] \subseteq v.before[s].own
  <2>1. CASE s \in RestorePlan(p) \cap Texts
    BY <1>5, <2>1
  <2>2. CASE s \in Rows
    BY <1>2, <2>2 DEF Gone
  <2>3. CASE s \notin RestorePlan(p)
    BY <1>4, <1>5, <2>3
  <2> QED BY <1>4, <2>1, <2>2, <2>3
<1>8. SameShown(o)
  <2>1. CASE payload'[o] = payload[o]
    BY <1>0, <2>1, ShownStays DEF SameShown
  <2>2. CASE payload'[o] = v
    <3>1. ASSUME NEW s \in Surfaces PROVE Shown(o, s)' = Shown(o, s)
      <4>1. Shown(o, s)' = live[s].own \ (v.moves[s] \ v.before[s].own)
        BY <1>0, <1>1, <1>5, <2>2 DEF Shown, Shows
      <4> QED BY <1>2, <1>7, <4>1
    <3> QED BY <3>1 DEF SameShown
  <2> QED BY <1>6, <2>1, <2>2
<1>9. Recorded(o)'
  <2>1. CASE payload'[o] = payload[o]
    BY <1>0, <2>1 DEF Recorded, TakeRecord, AddRecord
  <2>2. CASE payload'[o] = v
    <3>1. /\ payload'[o].kind = "restore" /\ payload'[o].covers = RestorePlan(p)
          /\ payload'[o].moves = job[p].bundle /\ payload'[o].from = job[p].from
          /\ \A s \in Surfaces : payload'[o].before[s].own =
                                   IF s \in RestorePlan(p) \cap Texts THEN live[s].own ELSE {}
      BY <1>5, <2>2
    <3>2. /\ Rows \subseteq Surfaces
          /\ entry'[job[p].from].state = "complete" /\ entry'[job[p].from].bundle = job[p].bundle
      BY <1>0, <1>2, <1>3 DEF Rows, Surfaces, Databases
    <3>3. AddRecord(o)'
      BY <1>4, <3>1, <3>2 DEF AddRecord
    <3> QED BY <3>1, <3>3 DEF Recorded, TakeRecord
  <2> QED BY <1>6, <2>1, <2>2
<1>10. /\ job'[p].kind = "restore" /\ job'[p].done = {} /\ job'[p].snap = job[p].snap
       /\ job'[p].todo = job[p].todo
       /\ IF Refuse(p) THEN pc'[p] = "rel-stage" /\ job'[p].rel.stage = "rolled_back"
                       ELSE pc'[p] = "restore-commit"
  BY <1>0, <1>1, <1>2 DEF Refuse, ReleaseAs, Goto, Jobs
<1>11. payload'[o].kind = "restore" => \A s \in Surfaces : Clear(o, s)'
  BY <1>0, <1>2, <1>6, <1>7 DEF Clear
<1>12. AddFits(p, o)'
  <2>1. CASE Refuse(p)
    BY <1>10, <1>11, <2>1 DEF AddFits, FoundFits, SetsFit, HasFits, ClearFits, BeforeAt, RestoreBeginsAt,
               RestoringAt, RestoreAt, Commits, Returns
  <2>2. CASE ~Refuse(p)
    <3>1. /\ payload'[o].kind = "restore" /\ payload'[o].covers = job[p].todo
          /\ \A s \in payload'[o].covers \cap Texts : payload'[o].before[s].own = job[p].snap[s].own
      <4>1. Texts \subseteq Surfaces
        BY DEF Texts, Surfaces
      <4> QED BY <1>2, <1>5, <1>6a, <2>2, <4>1
    <3>2. SetsFit(p, o)'
      BY <1>10, <2>2, <3>1 DEF SetsFit, RestoreAt
    <3> QED BY <1>10, <1>11, <2>2, <3>1, <3>2
            DEF AddFits, FoundFits, HasFits, ClearFits, BeforeAt, RestoreBeginsAt, Commits, Returns
  <2> QED BY <2>1, <2>2
<1>13. LedgerAt(p, o)'
  BY <1>10, <1>12, OtherTakes DEF LedgerAt, ResultFits, ReconcileAt
<1> QED BY <1>8, <1>9, <1>13 DEF Continues, Carries
(* A write of a restore shows the same if it changes only what the restore *)
(* adds.                                                                   *)
LEMMA AddedShown ==
  ASSUME ReleaseSucceeds, Sound, NEW p \in Procs, NEW o, Knows(p, o), RestoreStep(p),
         pc[p] \in RestoringAt, payload' = payload, journal' = journal,
         NEW s \in Surfaces, NEW v, live' = live \/ live' = [live EXCEPT ![s] = v],
         LET a == payload[o].moves[s] \ payload[o].before[s].own IN v.own \ a = live[s].own \ a
  PROVE  SameShown(o)
<1>1. Shows(o, s, v.own) = v.own \ (payload[o].moves[s] \ payload[o].before[s].own)
  BY RestoreFacts
<1>2. Shown(o, s) = live[s].own \ (payload[o].moves[s] \ payload[o].before[s].own)
  BY RestoreFacts DEF Shown
<1>3. Shows(o, s, v.own) = Shown(o, s)
  BY <1>1, <1>2
<1> QED BY <1>3, WrittenShown DEF SameShown, Knows

(* The checkpoints of a restore.                                           *)
LEMMA MarkLedger ==
  ASSUME ReleaseSucceeds, Sound, NEW p \in Procs, NEW o, Knows(p, o), StartRestore(p) \/ MarkRestored(p)
  PROVE  Continues(p, o)
<1> USE JobFunction DEF Knows
<1>0. /\ RestoreStep(p) /\ live' = live /\ payload' = payload /\ entry' = entry
      /\ pc[p] = IF StartRestore(p) THEN "restore" ELSE "restore-mark"
  BY DEF RestoreStep, StartRestore, MarkRestored, data, bin
<1>1. SameTask(p) /\ pc[p] \in RestoreAt /\ pc[p] \in RestoringAt
  BY <1>0, CheckpointEdits DEF RestoreAt, RestoringAt
<1>2. job[p].kind = "restore" /\ job'[p].kind = "restore"
  BY <1>1, RestoreFacts DEF SameTask
<1>3. ASSUME pc'[p] = "unrestore", job'[p].todo = job[p].done PROVE Continues(p, o)
  <2>1. \A s \in Surfaces : Clear(o, s) \/ s \in job[p].done
    BY <1>0, <1>1, RestoreFacts DEF ClearFits
  <2>2. \A s \in Surfaces : Clear(o, s)' \/ s \in job[p].done \cup job'[p].cur
    BY <1>0, <2>1 DEF Clear
  <2>3. AddFits(p, o)'
    BY <1>0, <1>1, <1>3, <2>2, TurnsBack
  <2> QED BY <1>0, <1>2, <1>3, <2>3, RestoreContinues DEF ReconcileAt
<1>4. /\ \A s \in payload[o].covers \cap Texts : payload[o].before[s].own = job[p].snap[s].own
      /\ Rows \subseteq job[p].todo /\ job[p].todo \subseteq payload[o].covers
      /\ job[p].done \subseteq payload[o].covers \cap Texts
      /\ \A s \in Surfaces : Clear(o, s) \/ s \in job[p].done
      /\ payload[o].covers \subseteq Texts \cup Rows /\ Rows \cap Texts = {}
  BY <1>0, <1>1, RestoreFacts, ListsApart DEF SetsFit, ClearFits, Rows, Texts, Databases
<1>5. ASSUME NEW s \in job[p].todo, NEW m, s \in First(job[p].todo, RestoreRank),
             StartRestore(p), pc'[p] = "put-back",
             job'[p].cur = {s}, job'[p].todo = job[p].todo, job'[p].done = job[p].done
      PROVE  AddFits(p, o)'
  <2>1. \A t \in job[p].todo : RestoreRank[s] <= RestoreRank[t]
    BY <1>5 DEF First
  <2>2. /\ \A t \in Texts : t \in Surfaces /\ RestoreRank[t] \in {1, 2, 3, 4, 5}
        /\ Rows \subseteq Surfaces /\ RestoreRank["sqlite-goals"] = 6 /\ RestoreRank["sqlite-state"] = 7
    <3>1. /\ "sqlite-goals" \in Surfaces \ (Lists \cup Files)
          /\ "sqlite-state" \in Surfaces \ (Lists \cup Files)
          /\ Lists \subseteq Surfaces /\ Files \subseteq Surfaces
      BY ListsApart DEF Surfaces, Databases
    <3>2. RestoreRank["sqlite-goals"] = 6 /\ RestoreRank["sqlite-state"] = 7
      BY <3>1 DEF RestoreRank, Files, Lists
    <3>3. \A t \in Lists : RestoreRank[t] \in {3, 4, 5}
      BY <3>1, ListsApart DEF RestoreRank, Files, Lists
    <3>4. \A t \in Files : RestoreRank[t] \in {1, 2}
      BY <3>1, FilesAssumption DEF RestoreRank, Files, Lists, Databases
    <3> QED BY <3>1, <3>2, <3>3, <3>4 DEF Texts, Rows
  <2>3. s \in Rows => job[p].todo \subseteq Rows /\ s # "sqlite-state"
    BY <1>4, <2>1, <2>2 DEF Rows
  <2>4. SetsFit(p, o)'
    BY <1>0, <1>1, <1>4, <1>5, <2>3 DEF SetsFit, RestoreAt, SameTask
  <2>5. \A t \in payload[o].covers : Has(o, t) \/ t \in job[p].todo
    BY <1>0, <1>1, <1>5, RestoreFacts DEF HasFits
  <2>6. HasFits(p, o)'
    BY <1>0, <1>5, <2>3, <2>5 DEF HasFits, Has, Commits, Rows
  <2>7. ClearFits(p, o)'
    BY <1>0, <1>4, <1>5 DEF ClearFits, Clear, Returns
  <2> QED BY <1>5, <2>4, <2>6, <2>7 DEF AddFits, FoundFits, BeforeAt, RestoreBeginsAt
<1>6. CASE StartRestore(p)
  <2> PICK s \in First(job[p].todo, RestoreRank), r \in Outcome("journal") :
        LET marks == job[p].marks \cup {<<x, "started">> : x \in IF s \in Rows THEN Rows ELSE {s}} IN
        /\ job' = [job EXCEPT ![p] =
                  [job[p] EXCEPT !.marks = marks,
                                 !.cur  = IF Throws(r) THEN {} ELSE {s},
                                 !.todo = IF Throws(r) THEN job[p].done ELSE job[p].todo]]
        /\ Goto(p, IF Throws(r) THEN "unrestore" ELSE "put-back")
    BY <1>6 DEF StartRestore
  <2>1. /\ job'[p].cur = IF Throws(r) THEN {} ELSE {s}
        /\ job'[p].todo = IF Throws(r) THEN job[p].done ELSE job[p].todo
        /\ job'[p].done = job[p].done
        /\ pc'[p] = IF Throws(r) THEN "unrestore" ELSE "put-back"
    BY DEF Goto, Jobs
  <2>2. CASE Throws(r)
    BY <1>3, <2>1, <2>2
  <2>3. CASE ~Throws(r)
    <3>1. s \in job[p].todo
      BY DEF First
    <3>2. AddFits(p, o)'
      BY <1>5, <1>6, <2>1, <2>3, <3>1
    <3> QED BY <1>0, <1>2, <2>1, <2>3, <3>2, RestoreContinues DEF ReconcileAt
  <2> QED BY <2>2, <2>3
<1>7. CASE MarkRestored(p)
  <2> PICK r \in Outcome("journal") :
        /\ job' = [job EXCEPT ![p] =
                  [job[p] EXCEPT !.marks = job[p].marks \cup {<<s, "committed">> : s \in job[p].cur},
                                 !.cur = {},
                                 !.todo = IF Throws(r) THEN job[p].done
                                                       ELSE job[p].todo \ job[p].cur]]
        /\ Goto(p, IF Throws(r) THEN "unrestore" ELSE "restore")
    BY <1>7 DEF MarkRestored
  <2> DEFINE m == job[p].marks \cup {<<s, "committed">> : s \in job[p].cur}
             l == IF Throws(r) THEN job[p].done ELSE job[p].todo \ job[p].cur
             j == [job[p] EXCEPT !.marks = m, !.cur = {}, !.todo = l]
  <2>0. j.todo = l /\ j.done = job[p].done
    BY DEF Jobs
  <2>00. job'[p] = j
    OBVIOUS
  <2> HIDE DEF j, m
  <2>1. /\ job'[p].todo = l /\ job'[p].done = job[p].done
        /\ pc'[p] = IF Throws(r) THEN "unrestore" ELSE "restore"
    BY <2>0, <2>00 DEF Goto
  <2>2. CASE Throws(r)
    BY <1>3, <2>1, <2>2
  <2>3. CASE ~Throws(r)
    <3>1. job[p].cur \subseteq Texts /\ \A t \in payload[o].covers : Has(o, t) \/ t \in job[p].todo \ job[p].cur
      BY <1>0, <1>7, <1>1, RestoreFacts DEF SetsFit, HasFits, MarkRestored
    <3>2. SetsFit(p, o)'
      BY <1>0, <1>1, <1>4, <2>1, <2>3, <3>1 DEF SetsFit, RestoreAt, SameTask
    <3>3. HasFits(p, o)'
      BY <1>0, <2>1, <2>3, <3>1 DEF HasFits, Has, Commits
    <3>4. ClearFits(p, o)'
      BY <1>0, <1>4, <2>1, <2>3 DEF ClearFits, Clear, Returns
    <3>5. AddFits(p, o)'
      BY <2>1, <2>3, <3>2, <3>3, <3>4 DEF AddFits, FoundFits, BeforeAt, RestoreBeginsAt
    <3> QED BY <1>0, <1>2, <2>1, <2>3, <3>5, RestoreContinues DEF ReconcileAt
  <2> QED BY <2>2, <2>3
<1> QED BY <1>6, <1>7
(* What the write of a file or a list may do.                              *)
TextWays(p, s) ==
  \/ /\ s \in Indexes /\ job[p].bundle[s] = {}
     /\ Goto(p, "restore-mark") /\ live' = live /\ job' = job
  \/ RestoreFails(p, {}) /\ live' = live
  \/ /\ live[s] = job[p].snap[s] /\ NothingToAdd(p, s)
     /\ Goto(p, "restore-mark") /\ live' = live /\ job' = job
  \/ /\ live[s] = job[p].snap[s]
     /\ live' = [live EXCEPT ![s] = Restored(p, s)]
     /\ Goto(p, "restore-reread") /\ job' = job
LEMMA TextDoes ==
  ASSUME WritesAreClean, NEW p \in Procs, RestoreText(p)
  PROVE  \E s \in job[p].cur \ Rows : TextWays(p, s)
<1> PICK s \in job[p].cur \ Rows :
       IF s \in Indexes /\ job[p].bundle[s] = {}
       THEN Goto(p, "restore-mark") /\ UNCHANGED <<live, faults, job>>
       ELSE IF ~StillCaptured(p, s)
       THEN RestoreFails(p, {}) /\ UNCHANGED <<live, faults>>
       ELSE IF NothingToAdd(p, s)
       THEN Goto(p, "restore-mark") /\ UNCHANGED <<live, faults, job>>
       ELSE \E o \in Outcome("surface") :
              /\ live' = IF Effect(o) THEN [live EXCEPT ![s] = Restored(p, s)] ELSE live
              /\ Count(o)
              /\ IF Throws(o) THEN RestoreFails(p, {})
                 ELSE Goto(p, "restore-reread") /\ job' = job
  BY DEF RestoreText
<1>1. \A o \in Outcome("surface") : o \in {"ok", "before"}
  BY DEF Outcome, WritesAreClean
<1>2. CASE s \in Indexes /\ job[p].bundle[s] = {}
  BY <1>2 DEF TextWays
<1>3. CASE ~(s \in Indexes /\ job[p].bundle[s] = {}) /\ ~StillCaptured(p, s)
  BY <1>3 DEF TextWays
<1>4. CASE ~(s \in Indexes /\ job[p].bundle[s] = {}) /\ StillCaptured(p, s) /\ NothingToAdd(p, s)
  BY <1>4 DEF TextWays, StillCaptured
<1>5. CASE ~(s \in Indexes /\ job[p].bundle[s] = {}) /\ StillCaptured(p, s) /\ ~NothingToAdd(p, s)
  <2> PICK o \in Outcome("surface") :
        /\ live' = IF Effect(o) THEN [live EXCEPT ![s] = Restored(p, s)] ELSE live
        /\ Count(o)
        /\ IF Throws(o) THEN RestoreFails(p, {})
           ELSE Goto(p, "restore-reread") /\ job' = job
    BY <1>5
  <2>1. CASE o = "ok"
    BY <1>5, <2>1 DEF TextWays, StillCaptured, Effect, Throws
  <2>2. CASE o = "before"
    BY <1>5, <2>2 DEF TextWays, Effect, Throws
  <2> QED BY <1>1, <2>1, <2>2
<1> QED BY <1>2, <1>3, <1>4, <1>5

(* The write of a file or a list.                                          *)
LEMMA TextLedger ==
  ASSUME WritesAreClean, ReleaseSucceeds, QuietCodex, Sound, NEW p \in Procs, NEW o, Knows(p, o), RestoreText(p)
  PROVE  Continues(p, o)
<1> USE JobFunction DEF Knows
<1>0. /\ RestoreStep(p) /\ payload' = payload /\ journal' = journal /\ pc[p] = "put-back"
      /\ pc[p] \in RestoringAt /\ pc[p] \in RestoreAt /\ pc[p] \in AddingAt
  BY DEF RestoreStep, RestoreText, disk, RestoringAt, RestoreAt, AddingAt
<1> PICK s \in job[p].cur \ Rows : TextWays(p, s)
  BY TextDoes
<1>1. /\ job[p].kind = "restore" /\ payload[o].covers \subseteq Texts \cup Rows
      /\ payload[o].moves = job[p].bundle
      /\ \A t \in payload[o].covers \cap Texts : payload[o].before[t].own = job[p].snap[t].own
      /\ Rows \subseteq job[p].todo /\ job[p].todo \subseteq payload[o].covers
      /\ job[p].done \subseteq payload[o].covers \cap Texts
      /\ \A t \in payload[o].covers : Has(o, t) \/ t \in job[p].todo
      /\ Rows \cap Texts = {} /\ Texts \subseteq Surfaces
  BY <1>0, RestoreFacts, ListsApart DEF SetsFit, HasFits, Rows, Texts, Databases, Surfaces
<1>2. job[p].cur = {s} /\ s \in payload[o].covers \cap Texts /\ s \in Surfaces
  <2>1. SetsFit(p, o)
    BY <1>0, RestoreFacts
  <2>2. \E t \in payload[o].covers : job[p].cur = {t}
    BY <1>0, <2>1 DEF SetsFit
  <2> QED BY <1>1, <2>2
<1>3. \A t \in Surfaces : Clear(o, t) \/ t \in job[p].done
  <2>1. ClearFits(p, o)
    BY <1>0, RestoreFacts
  <2>2. job[p].cur # {"sqlite-state"}
    BY <1>2 DEF Rows
  <2> QED BY <1>0, <2>1, <2>2 DEF ClearFits
<1>4. ASSUME SameTask(p), job'[p].cur = job[p].cur, job'[p].todo = job[p].todo,
             job'[p].done = job[p].done, \A t \in Surfaces \ {s} : live'[t] = live[t], Has(o, s)',
             pc'[p] = "restore-reread" \/ (pc'[p] = "restore-mark" /\ live' = live)
      PROVE  AddFits(p, o)' /\ job'[p].kind = "restore"
  <2>1. SetsFit(p, o)'
    BY <1>0, <1>1, <1>2, <1>4 DEF SetsFit, RestoreAt, SameTask
  <2>2. HasFits(p, o)'
    <3>1. \A t \in payload[o].covers : Has(o, t)' \/ t \in job'[p].todo \ job'[p].cur
      BY <1>0, <1>1, <1>2, <1>4 DEF Has, Rows, Surfaces, Databases
    <3> QED BY <1>0, <1>4, <3>1 DEF HasFits, Commits
  <2>3. ClearFits(p, o)'
    <3>1. \A t \in Surfaces \ {s} : Clear(o, t)' \/ t \in job'[p].done
      BY <1>0, <1>2, <1>3, <1>4 DEF Clear
    <3>2. pc'[p] = "restore-mark" => Clear(o, s)' \/ s \in job'[p].done
      BY <1>0, <1>2, <1>3, <1>4 DEF Clear
    <3> QED BY <1>2, <1>4, <3>1, <3>2 DEF ClearFits, Returns
  <2> QED BY <1>1, <1>4, <2>1, <2>2, <2>3 DEF AddFits, FoundFits, BeforeAt, RestoreBeginsAt, SameTask
<1>5. CASE RestoreFails(p, {}) /\ live' = live
  <2>1. SameTask(p) /\ pc'[p] = "unrestore" /\ job'[p].todo = job[p].done
    BY <1>5, RestoreFailed
  <2>2. \A t \in Surfaces : Clear(o, t)' \/ t \in job[p].done \cup job'[p].cur
    BY <1>0, <1>3, <1>5 DEF Clear
  <2>3. AddFits(p, o)' /\ job'[p].kind = "restore"
    BY <1>0, <1>1, <2>1, <2>2, TurnsBack DEF SameTask
  <2> QED BY <1>0, <1>5, <2>1, <2>3, RestoreContinues DEF ReconcileAt
<1>6. ASSUME Goto(p, "restore-mark"), live' = live, job' = job, Has(o, s)
      PROVE  Continues(p, o)
  <2>1. SameTask(p) /\ pc'[p] = "restore-mark"
    BY <1>6, TaskStays DEF Goto
  <2>2. Has(o, s)'
    BY <1>0, <1>6 DEF Has
  <2>3. AddFits(p, o)' /\ job'[p].kind = "restore"
    BY <1>4, <1>6, <2>1, <2>2
  <2> QED BY <1>0, <1>6, <2>1, <2>3, RestoreContinues DEF ReconcileAt
<1>7. ASSUME live[s] = job[p].snap[s], NothingToAdd(p, s) PROVE Has(o, s)
  <2>1. CASE s \in Files
    <3>1. live[s].own # {} /\ live[s].own \subseteq {0} /\ payload[o].moves[s] \subseteq {0}
      BY <1>2, <1>7, <2>1 DEF NothingToAdd, OldImage, OldFile, OldBundle, Quiet, QuietCodex
    <3> QED BY <3>1 DEF Has
  <2>2. CASE s \notin Files
    BY <1>1, <1>7, <2>2 DEF NothingToAdd, Has
  <2> QED BY <2>1, <2>2
<1>8. CASE /\ live[s] = job[p].snap[s]
           /\ live' = [live EXCEPT ![s] = Restored(p, s)]
           /\ Goto(p, "restore-reread") /\ job' = job
  <2>1. SameTask(p) /\ pc'[p] = "restore-reread"
    BY <1>8, TaskStays DEF Goto
  <2>2. Restored(p, s).own = live[s].own \cup payload[o].moves[s]
    <3>1. job[p].snap[s] \in Value
      BY <1>2, <1>8 DEF Typed, DataTyped, Images
    <3> QED BY <1>1, <1>8, <3>1 DEF Restored, After, Value
  <2>3. live'[s] = Restored(p, s) /\ \A t \in Surfaces \ {s} : live'[t] = live[t]
    BY <1>2, <1>8 DEF Typed, DataTyped, Images
  <2>4. Has(o, s)'
    BY <1>0, <2>2, <2>3 DEF Has
  <2>5. AddFits(p, o)' /\ job'[p].kind = "restore"
    BY <1>4, <1>8, <2>1, <2>3, <2>4
  <2>6. payload[o].before[s].own = live[s].own
    BY <1>1, <1>2, <1>8
  <2>7. LET a == payload[o].moves[s] \ payload[o].before[s].own IN Restored(p, s).own \ a = live[s].own \ a
    BY <2>2, <2>6
  <2>8. SameShown(o)
    BY <1>0, <1>2, <1>8, <2>7, AddedShown
  <2> QED BY <1>0, <2>1, <2>5, <2>8, RestoreContinues DEF ReconcileAt
<1>9. ASSUME s \in Indexes, job[p].bundle[s] = {} PROVE Has(o, s)
  BY <1>1, <1>9 DEF Has
<1> QED BY <1>5, <1>6, <1>7, <1>8, <1>9 DEF TextWays
(* The second look at what was written.                                    *)
LEMMA RereadLedger ==
  ASSUME ReleaseSucceeds, Sound, NEW p \in Procs, NEW o, Knows(p, o), RereadWritten(p)
  PROVE  Continues(p, o)
<1> USE JobFunction DEF Knows
<1>0. /\ RestoreStep(p) /\ live' = live /\ payload' = payload /\ pc[p] = "restore-reread"
      /\ pc[p] \in RestoringAt /\ pc[p] \in RestoreAt /\ SameTask(p)
  BY Rereads DEF RestoreStep, data, disk, RestoringAt, RestoreAt, SameTask
<1> PICK s \in job[p].cur :
       \/ /\ pc'[p] = "restore-mark" /\ job'[p].done = job[p].done \cup {s}
          /\ job'[p].cur = job[p].cur /\ job'[p].todo = job[p].todo
       \/ /\ pc'[p] = "unrestore" /\ job'[p].cur = {s} /\ job'[p].todo = job[p].done
  BY Rereads
<1>1. /\ job[p].kind = "restore" /\ SetsFit(p, o) /\ HasFits(p, o) /\ ClearFits(p, o)
      /\ \A t \in payload[o].covers \cap Texts : payload[o].before[t].own = job[p].snap[t].own
  BY <1>0, RestoreFacts
<1>2. job[p].cur = {s} /\ s \in payload[o].covers \cap Texts
  BY <1>0, <1>1 DEF SetsFit, RestoreAt
<1>3. \A t \in Surfaces : Clear(o, t) \/ t \in job[p].done \cup {s}
  BY <1>0, <1>1, <1>2 DEF ClearFits
<1>4. \A t \in Surfaces : Clear(o, t)' \/ t \in job[p].done \cup {s}
  BY <1>0, <1>3 DEF Clear
<1>5. CASE pc'[p] = "unrestore"
  <2>1. AddFits(p, o)'
    BY <1>0, <1>4, <1>5, TurnsBack
  <2> QED BY <1>0, <1>1, <1>5, <2>1, RestoreContinues DEF ReconcileAt, SameTask
<1>6. CASE pc'[p] = "restore-mark"
  <2>1. /\ job'[p].done = job[p].done \cup {s} /\ job'[p].cur = job[p].cur
        /\ job'[p].todo = job[p].todo
    BY <1>6
  <2>2. SetsFit(p, o)'
    BY <1>0, <1>1, <1>2, <1>6, <2>1 DEF SetsFit, RestoreAt, SameTask
  <2>3. HasFits(p, o)'
    BY <1>0, <1>1, <1>6, <2>1 DEF HasFits, Has, Commits
  <2>4. ClearFits(p, o)'
    BY <1>4, <1>6, <2>1 DEF ClearFits, Returns
  <2>5. AddFits(p, o)'
    BY <1>6, <2>2, <2>3, <2>4 DEF AddFits, FoundFits, BeforeAt, RestoreBeginsAt
  <2> QED BY <1>0, <1>1, <1>6, <2>5, RestoreContinues DEF ReconcileAt, SameTask
<1> QED BY <1>5, <1>6
(* What is known where a restore puts back the rows.                       *)
LEMMA RowFacts ==
  ASSUME NEW p \in Procs, NEW o, Knows(p, o), pc[p] = "put-back", NEW s \in job[p].cur \cap Rows
  PROVE  /\ job[p].kind = "restore" /\ payload[o].moves = job[p].bundle
         /\ job[p].cur = {s} /\ s \in Surfaces /\ payload[o].before[s].own = {}
         /\ \A t \in payload[o].covers \cap Texts : payload[o].before[t].own = job[p].snap[t].own
         /\ Rows \subseteq job[p].todo /\ job[p].todo \subseteq payload[o].covers
         /\ job[p].todo \subseteq Rows /\ job[p].done \subseteq payload[o].covers \cap Texts
         /\ \A t \in Surfaces \ Rows : Has(o, t)
         /\ s = "sqlite-state" => Has(o, "sqlite-goals")
         /\ \A t \in Surfaces : Clear(o, t) \/ t \in job[p].done \/ (s = "sqlite-state" /\ t = "sqlite-goals")
<1>1. pc[p] \in RestoringAt /\ pc[p] \in RestoreAt /\ pc[p] \in AddingAt
  BY DEF RestoringAt, RestoreAt, AddingAt
<1>2. /\ SetsFit(p, o) /\ HasFits(p, o) /\ ClearFits(p, o) /\ payload[o].moves = job[p].bundle
      /\ job[p].kind = "restore"
      /\ \A t \in Surfaces \ payload[o].covers : payload[o].moves[t] = {}
      /\ \A t \in Rows : payload[o].before[t].own = {}
  BY <1>1, RestoreFacts
<1>3. job[p].cur = {s} /\ job[p].todo \subseteq Rows /\ job[p].todo \subseteq payload[o].covers
  BY <1>1, <1>2 DEF SetsFit
<1>4. \A t \in Surfaces \ Rows : Has(o, t)
  <2>1. \A t \in payload[o].covers : Has(o, t) \/ t \in job[p].todo
    BY <1>2 DEF HasFits
  <2> QED BY <1>2, <1>3, <2>1 DEF Has
<1>5. s = "sqlite-state" => Has(o, "sqlite-goals")
  BY <1>2, <1>3 DEF HasFits
<1>6. \A t \in Surfaces : Clear(o, t) \/ t \in job[p].done \/ (s = "sqlite-state" /\ t = "sqlite-goals")
  <2>1. job[p].cur = {"sqlite-state"} => s = "sqlite-state"
    BY <1>3
  <2>2. \A t \in Surfaces : \/ Clear(o, t) \/ t \in job[p].done
                             \/ (t = "sqlite-goals" /\ job[p].cur = {"sqlite-state"})
    BY <1>2 DEF ClearFits
  <2> QED BY <2>1, <2>2
<1>7. /\ \A t \in payload[o].covers \cap Texts : payload[o].before[t].own = job[p].snap[t].own
      /\ Rows \subseteq job[p].todo /\ job[p].done \subseteq payload[o].covers \cap Texts
  BY <1>1, <1>2 DEF SetsFit
<1>8. s \in Surfaces
  BY DEF Rows, Surfaces, Databases
<1> QED BY <1>2, <1>3, <1>4, <1>5, <1>6, <1>7, <1>8

(* What the insert of rows may do.                                         *)
RowWays(p, s) ==
  \/ s = "sqlite-goals" /\ live' = live /\ RestoreFails(p, {})
  \/ s = "sqlite-state" /\ live' = live /\ Goto(p, "unrestore-goals") /\ job' = job
  \/ /\ live' = [live EXCEPT ![s] = [live[s] EXCEPT !.own = live[s].own \cup job[p].bundle[s]]]
     /\ \/ s = "sqlite-goals" /\ pc' = pc /\ job' = [job EXCEPT ![p].cur = {"sqlite-state"}]
        \/ s = "sqlite-state" /\ Goto(p, "restored") /\ job' = job
LEMMA RowsDo ==
  ASSUME WritesAreClean, NEW p \in Procs, RestoreRows(p)
  PROVE  \E s \in job[p].cur \cap Rows : RowWays(p, s)
<1> PICK s \in job[p].cur \cap Rows :
       \E o \in IF job[p].bundle[s] \cap live[s].own = {} THEN FaultsAt("surface", s) ELSE {"before"} :
       /\ live' = IF Effect(o) THEN [live EXCEPT ![s].own = live[s].own \cup job[p].bundle[s]]
                               ELSE live
       /\ faults' = IF Throws(o) /\ job[p].bundle[s] \cap live[s].own = {} THEN faults + 1 ELSE faults
       /\ CASE Throws(o) /\ s = "sqlite-goals"  -> RestoreFails(p, {})
            [] Throws(o) /\ s = "sqlite-state"  -> Goto(p, "unrestore-goals") /\ job' = job
            [] ~Throws(o) /\ s = "sqlite-goals" ->
                 pc' = pc /\ job' = [job EXCEPT ![p].cur = {"sqlite-state"}]
            [] OTHER                            -> Goto(p, "restored") /\ job' = job
  BY DEF RestoreRows
<1> PICK o \in IF job[p].bundle[s] \cap live[s].own = {} THEN FaultsAt("surface", s) ELSE {"before"} :
       /\ live' = IF Effect(o) THEN [live EXCEPT ![s].own = live[s].own \cup job[p].bundle[s]]
                               ELSE live
       /\ CASE Throws(o) /\ s = "sqlite-goals"  -> RestoreFails(p, {})
            [] Throws(o) /\ s = "sqlite-state"  -> Goto(p, "unrestore-goals") /\ job' = job
            [] ~Throws(o) /\ s = "sqlite-goals" ->
                 pc' = pc /\ job' = [job EXCEPT ![p].cur = {"sqlite-state"}]
            [] OTHER                            -> Goto(p, "restored") /\ job' = job
  OBVIOUS
<1>1. Throws(o) = ~Effect(o)
  <2>1. CASE o \in FaultsAt("surface", s)
    BY <2>1, CleanWrites
  <2>2. CASE o = "before"
    BY <2>2 DEF Throws, Effect
  <2> QED BY <2>1, <2>2
<1>2. s \in {"sqlite-goals", "sqlite-state"}
  BY DEF Rows
<1>3. CASE Throws(o) /\ s = "sqlite-goals"
  BY <1>1, <1>3 DEF RowWays
<1>4. CASE Throws(o) /\ s = "sqlite-state"
  BY <1>1, <1>4 DEF RowWays
<1>5. CASE ~Throws(o) /\ s = "sqlite-goals"
  BY <1>1, <1>5 DEF RowWays
<1>6. CASE ~Throws(o) /\ s = "sqlite-state"
  BY <1>1, <1>6 DEF RowWays
<1> QED BY <1>2, <1>3, <1>4, <1>5, <1>6

LEMMA RowsLedger ==
  ASSUME WritesAreClean, ReleaseSucceeds, Sound, NEW p \in Procs, NEW o, Knows(p, o), RestoreRows(p)
  PROVE  Continues(p, o)
<1> USE JobFunction DEF Knows
<1>0. /\ RestoreStep(p) /\ payload' = payload /\ journal' = journal /\ pc[p] = "put-back"
      /\ pc[p] \in RestoringAt /\ pc[p] \in RestoreAt
  BY DEF RestoreStep, RestoreRows, disk, RestoringAt, RestoreAt
<1> PICK s \in job[p].cur \cap Rows : RowWays(p, s)
  BY RowsDo
<1> DEFINE M == payload[o].moves
<1>1. /\ job[p].kind = "restore" /\ M = job[p].bundle
      /\ job[p].cur = {s} /\ s \in Surfaces /\ payload[o].before[s].own = {}
      /\ \A t \in payload[o].covers \cap Texts : payload[o].before[t].own = job[p].snap[t].own
      /\ Rows \subseteq job[p].todo /\ job[p].todo \subseteq payload[o].covers
      /\ job[p].todo \subseteq Rows /\ job[p].done \subseteq payload[o].covers \cap Texts
      /\ \A t \in Surfaces \ Rows : Has(o, t)
      /\ s = "sqlite-state" => Has(o, "sqlite-goals")
      /\ \A t \in Surfaces : Clear(o, t) \/ t \in job[p].done \/ (s = "sqlite-state" /\ t = "sqlite-goals")
  BY <1>0, RowFacts
<1>2. CASE s = "sqlite-goals" /\ live' = live /\ RestoreFails(p, {})
  <2>1. SameTask(p) /\ pc'[p] = "unrestore" /\ job'[p].todo = job[p].done
    BY <1>2, RestoreFailed
  <2>2. \A t \in Surfaces : Clear(o, t)' \/ t \in job[p].done \cup job'[p].cur
    BY <1>0, <1>1, <1>2 DEF Clear
  <2>3. AddFits(p, o)' /\ job'[p].kind = "restore"
    BY <1>0, <1>1, <2>1, <2>2, TurnsBack DEF SameTask
  <2> QED BY <1>0, <1>2, <2>1, <2>3, RestoreContinues DEF ReconcileAt
<1>3. CASE s = "sqlite-state" /\ live' = live /\ Goto(p, "unrestore-goals") /\ job' = job
  <2>1. pc'[p] = "unrestore-goals"
    BY <1>3 DEF Goto
  <2>2. SetsFit(p, o)'
    BY <1>0, <1>1, <1>3, <2>1 DEF SetsFit, RestoreAt
  <2>3. \A t \in Surfaces : Clear(o, t)' \/ t \in job'[p].done \/ t = "sqlite-goals"
    BY <1>0, <1>1, <1>3 DEF Clear
  <2>4. ClearFits(p, o)'
    BY <2>1, <2>3 DEF ClearFits, Returns
  <2>5. HasFits(p, o)' /\ FoundFits(p)'
    BY <2>1 DEF HasFits, FoundFits, BeforeAt, RestoreBeginsAt, Commits
  <2>6. AddFits(p, o)' /\ job'[p].kind = "restore"
    BY <1>1, <1>3, <2>2, <2>4, <2>5 DEF AddFits
  <2> QED BY <1>0, <1>3, <2>1, <2>6, RestoreContinues DEF ReconcileAt
<1>4. CASE /\ live' = [live EXCEPT ![s] = [live[s] EXCEPT !.own = live[s].own \cup job[p].bundle[s]]]
           /\ \/ s = "sqlite-goals" /\ pc' = pc /\ job' = [job EXCEPT ![p].cur = {"sqlite-state"}]
              \/ s = "sqlite-state" /\ Goto(p, "restored") /\ job' = job
  <2> DEFINE v == [live[s] EXCEPT !.own = live[s].own \cup job[p].bundle[s]]
  <2>1. v.own = live[s].own \cup M[s]
    <3>1. live[s] \in Value
      BY <1>1 DEF Typed, DataTyped, Images
    <3> QED BY <1>1, <3>1 DEF Value
  <2>2. live'[s] = v /\ \A t \in Surfaces \ {s} : live'[t] = live[t]
    BY <1>1, <1>4 DEF Typed, DataTyped, Images
  <2>3. live' = [live EXCEPT ![s] = v]
    BY <1>4
  <2> HIDE DEF v
  <2>4. SameShown(o)
    <3>1. LET a == payload[o].moves[s] \ payload[o].before[s].own IN v.own \ a = live[s].own \ a
      BY <1>1, <2>1
    <3> QED BY <1>0, <1>1, <2>3, <3>1, AddedShown
  <2>5. \A t \in Surfaces : (t = s => Has(o, t)') /\ (t # s => Has(o, t)' = Has(o, t) /\ Clear(o, t)' = Clear(o, t))
    BY <1>0, <2>1, <2>2 DEF Has, Clear
  <2>6. CASE s = "sqlite-goals" /\ pc' = pc /\ job' = [job EXCEPT ![p].cur = {"sqlite-state"}]
    <3>1. /\ SameTask(p) /\ pc'[p] = "put-back" /\ job'[p].cur = {"sqlite-state"}
          /\ job'[p].todo = job[p].todo /\ job'[p].done = job[p].done
      BY <1>0, <2>6 DEF Jobs, SameTask
    <3>2. SetsFit(p, o)'
      BY <1>0, <1>1, <3>1 DEF SetsFit, RestoreAt, Rows, SameTask
    <3>3. \A t \in payload[o].covers : Has(o, t)' \/ t \in job'[p].todo
      BY <1>0, <1>1, <2>5, <2>6, <3>1, RestoreFacts, ListsApart DEF Rows, Texts, Surfaces, Databases
    <3>4. HasFits(p, o)'
      BY <1>0, <1>1, <2>5, <2>6, <3>1, <3>3 DEF HasFits, Commits
    <3>5. ClearFits(p, o)'
      BY <1>0, <1>1, <2>5, <2>6, <3>1 DEF ClearFits, Returns
    <3>6. AddFits(p, o)' /\ job'[p].kind = "restore"
      BY <1>1, <3>1, <3>2, <3>4, <3>5 DEF AddFits, FoundFits, BeforeAt, RestoreBeginsAt, SameTask
    <3> QED BY <1>0, <2>4, <3>1, <3>6, RestoreContinues DEF ReconcileAt
  <2>7. CASE s = "sqlite-state" /\ Goto(p, "restored") /\ job' = job
    <3>1. pc'[p] = "restored"
      BY <2>7 DEF Goto
    <3>2. \A t \in Surfaces : Has(o, t)'
      BY <1>1, <2>5, <2>7 DEF Rows
    <3>3. SetsFit(p, o)'
      BY <1>0, <1>1, <2>7, <3>1 DEF SetsFit, RestoreAt
    <3>4. HasFits(p, o)'
      BY <3>1, <3>2 DEF HasFits, Commits
    <3>5. AddFits(p, o)' /\ job'[p].kind = "restore"
      BY <1>1, <2>7, <3>1, <3>3, <3>4 DEF AddFits, FoundFits, ClearFits, Returns, BeforeAt, RestoreBeginsAt
    <3> QED BY <1>0, <2>4, <3>1, <3>5, RestoreContinues DEF ReconcileAt
  <2> QED BY <1>4, <2>6, <2>7
<1> QED BY <1>2, <1>3, <1>4 DEF RowWays
(* The restored goals are taken out again.                                 *)
LEMMA GoalsLedger ==
  ASSUME ReleaseSucceeds, Sound, NEW p \in Procs, NEW o, Knows(p, o), RemoveGoals(p)
  PROVE  Continues(p, o)
<1> USE JobFunction DEF Knows
<1> PICK s : s = "sqlite-goals"
  OBVIOUS
<1> DEFINE v == GoalsRemoved(p, s)
<1>0. /\ RestoreStep(p) /\ payload' = payload /\ journal' = journal
      /\ pc[p] = "unrestore-goals" /\ pc[p] \in RestoringAt /\ pc[p] \in AddingAt
  BY DEF RestoreStep, RemoveGoals, disk, RestoringAt, AddingAt
<1>1. /\ job[p].kind = "restore" /\ payload[o].moves = job[p].bundle
      /\ s \in Surfaces /\ payload[o].before[s].own = {} /\ live[s] \in Value
      /\ \A t \in Surfaces : Clear(o, t) \/ t \in job[p].done \/ t = s
  <2>1. s \in Surfaces /\ s \in Rows
    BY DEF Rows, Surfaces, Databases
  <2> QED BY <1>0, <2>1, RestoreFacts DEF ClearFits, Typed, DataTyped, Images
<1>2. v.own = live[s].own \ payload[o].moves[s]
  BY <1>1 DEF GoalsRemoved, Value
<1> HIDE DEF v
<1>3. \/ live' = [live EXCEPT ![s] = v]
      \/ live' = live /\ RestoreFails(p, {s})
  BY DEF RemoveGoals, Effect, Throws, v
<1>4. RestoreFails(p, {s}) \/ RestoreFails(p, {})
  BY DEF RemoveGoals
<1>5. /\ SameTask(p) /\ pc'[p] = "unrestore" /\ job'[p].todo = job[p].done
      /\ job'[p].cur = {s} \/ live' = [live EXCEPT ![s] = v]
  BY <1>3, <1>4, RestoreFailed
<1>6. \A t \in Surfaces : Clear(o, t)' \/ t \in job[p].done \cup job'[p].cur
  <2>1. ASSUME NEW t \in Surfaces PROVE live'[t] = live[t] \/ (t = s /\ live'[t] = v)
    BY <1>3 DEF Typed, DataTyped, Images
  <2>2. live' = [live EXCEPT ![s] = v] => live'[s].own \cap payload[o].moves[s] = {}
    BY <1>1, <1>2 DEF Typed, DataTyped, Images
  <2>3. Clear(o, s)' \/ s \in job'[p].cur
    BY <1>0, <1>5, <2>2 DEF Clear
  <2>4. ASSUME NEW t \in Surfaces, t # s PROVE Clear(o, t)' = Clear(o, t)
    BY <1>0, <2>1, <2>4 DEF Clear
  <2> QED BY <1>1, <2>3, <2>4
<1>7. AddFits(p, o)' /\ job'[p].kind = "restore"
  BY <1>0, <1>1, <1>5, <1>6, TurnsBack DEF SameTask
<1>8. LET a == payload[o].moves[s] \ payload[o].before[s].own IN v.own \ a = live[s].own \ a
  BY <1>1, <1>2
<1>9. SameShown(o)
  BY <1>0, <1>1, <1>3, <1>8, AddedShown
<1> QED BY <1>0, <1>5, <1>7, <1>9, RestoreContinues DEF ReconcileAt

(* The rollback of what a restore wrote.                                   *)
LEMMA UndoneLedger ==
  ASSUME ReleaseSucceeds, Sound, NEW p \in Procs, NEW o, Knows(p, o), UndoRestore(p)
  PROVE  Continues(p, o)
<1> USE JobFunction DEF Knows
<1>0. /\ RestoreStep(p) /\ payload' = payload /\ journal' = journal /\ pc' = pc
      /\ pc[p] = "unrestore" /\ pc[p] \in RestoringAt /\ pc[p] \in AddingAt
  BY DEF RestoreStep, UndoRestore, disk, RestoringAt, AddingAt
<1> PICK s \in {x \in job[p].todo : \A y \in job[p].todo : RestoreRank[y] <= RestoreRank[x]} :
       \E r \in IF live[s] = job[p].post[s] THEN Outcome("undo") ELSE {"before"} :
         /\ live' = IF Effect(r) THEN [live EXCEPT ![s] = job[p].snap[s]] ELSE live
         /\ job' = [job EXCEPT ![p] =
                    [job[p] EXCEPT !.todo = job[p].todo \ {s},
                                   !.cur  = IF Throws(r) THEN job[p].cur \cup {s} ELSE job[p].cur]]
  BY DEF UndoRestore
<1> PICK r \in IF live[s] = job[p].post[s] THEN Outcome("undo") ELSE {"before"} :
       /\ live' = IF Effect(r) THEN [live EXCEPT ![s] = job[p].snap[s]] ELSE live
       /\ job' = [job EXCEPT ![p] =
                    [job[p] EXCEPT !.todo = job[p].todo \ {s},
                                   !.cur  = IF Throws(r) THEN job[p].cur \cup {s} ELSE job[p].cur]]
  OBVIOUS
<1>1. /\ job[p].kind = "restore" /\ payload[o].moves = job[p].bundle
      /\ \A t \in payload[o].covers \cap Texts : payload[o].before[t].own = job[p].snap[t].own
      /\ job[p].todo \subseteq payload[o].covers \cap Texts
      /\ \A t \in Surfaces : Clear(o, t) \/ t \in job[p].todo \cup job[p].cur
  BY <1>0, RestoreFacts DEF SetsFit, ClearFits
<1>2. /\ s \in job[p].todo /\ s \in Surfaces /\ payload[o].before[s].own = job[p].snap[s].own
      /\ job[p].snap[s] \in Value
  BY <1>1 DEF Jobs, Images
<1>3. /\ SameTask(p) /\ job'[p].todo = job[p].todo \ {s}
      /\ job'[p].cur = IF Throws(r) THEN job[p].cur \cup {s} ELSE job[p].cur
  <2> DEFINE c == IF Throws(r) THEN job[p].cur \cup {s} ELSE job[p].cur
             j == [job[p] EXCEPT !.todo = job[p].todo \ {s}, !.cur = c]
  <2>1. j.todo = job[p].todo \ {s} /\ j.cur = c
    BY DEF Jobs
  <2>2. /\ j.kind = job[p].kind /\ j.op = job[p].op /\ j.seen = job[p].seen
        /\ j.snap = job[p].snap /\ j.bundle = job[p].bundle
    BY DEF Jobs
  <2>3. job'[p] = j
    OBVIOUS
  <2> HIDE DEF j
  <2> QED BY <2>1, <2>2, <2>3 DEF SameTask
<1>4. Effect(r) \/ (Throws(r) /\ live' = live)
  BY DEF Effect, Throws
<1>5. ASSUME NEW t \in Surfaces
      PROVE  live'[t] = live[t] \/ (t = s /\ Effect(r) /\ live'[t] = job[p].snap[t])
  BY <1>2 DEF Typed, DataTyped, Images
<1>6. \A t \in Surfaces : Clear(o, t)' \/ t \in job'[p].todo \cup job'[p].cur
  <2>1. ASSUME NEW t \in Surfaces, t # s PROVE Clear(o, t)' = Clear(o, t)
    BY <1>0, <1>5, <2>1 DEF Clear
  <2>2. Clear(o, s)' \/ s \in job'[p].cur
    <3>1. CASE Throws(r)
      BY <1>3, <3>1
    <3>2. CASE ~Throws(r)
      <4>1. live'[s] = job[p].snap[s]
        BY <1>2, <1>4, <3>2 DEF Typed, DataTyped, Images
      <4> QED BY <1>0, <1>2, <4>1 DEF Clear
    <3> QED BY <3>1, <3>2
  <2> QED BY <1>1, <1>3, <2>1, <2>2
<1>7. AddFits(p, o)' /\ job'[p].kind = "restore"
  <2>1. SetsFit(p, o)'
    BY <1>0, <1>1, <1>3 DEF SetsFit, SameTask, RestoreAt
  <2>2. FoundFits(p)' /\ HasFits(p, o)' /\ ClearFits(p, o)'
    BY <1>0, <1>6 DEF FoundFits, HasFits, ClearFits, BeforeAt, RestoreBeginsAt, Commits, Returns
  <2> QED BY <1>1, <1>3, <2>1, <2>2 DEF AddFits, SameTask
<1>8. SameShown(o)
  <2>1. CASE Effect(r)
    <3>1. live' = [live EXCEPT ![s] = job[p].snap[s]]
      BY <2>1
    <3>2. live[s] = Restored(p, s)
      BY <1>0, <1>2, <2>1 DEF Effect, ReadBackFits
    <3>3. live[s].own = payload[o].before[s].own \cup payload[o].moves[s]
      BY <1>1, <1>2, <3>2 DEF Restored, After, Value
    <3>4. LET a == payload[o].moves[s] \ payload[o].before[s].own
          IN job[p].snap[s].own \ a = live[s].own \ a
      BY <1>2, <3>3
    <3> QED BY <1>0, <1>2, <3>1, <3>4, AddedShown
  <2>2. CASE ~Effect(r)
    <3>1. live' = live
      BY <2>2
    <3> QED BY <1>0, <3>1, ShownStays DEF SameShown
  <2> QED BY <2>1, <2>2
<1> QED BY <1>0, <1>7, <1>8, RestoreContinues DEF ReconcileAt

(* The end of a rollback, and the checkpoints of a restore that stays.     *)
LEMMA RestoreEndsLedger ==
  ASSUME ReleaseSucceeds, Sound, NEW p \in Procs, NEW o, Knows(p, o),
         UndoRestoreEnds(p) \/ MarkRows(p) \/ VerifyRestore(p)
  PROVE  Continues(p, o)
<1> USE JobFunction DEF Knows
<1>0. /\ RestoreStep(p) /\ live' = live /\ payload' = payload
      /\ pc[p] = IF UndoRestoreEnds(p) THEN "unrestore"
                 ELSE IF MarkRows(p) THEN "restored" ELSE "restore-verify"
      /\ pc[p] \in RestoringAt
  BY DEF RestoreStep, UndoRestoreEnds, MarkRows, VerifyRestore, data, disk, RestoringAt
<1>1. job[p].kind = "restore" /\ SetsFit(p, o) /\ HasFits(p, o) /\ ClearFits(p, o)
  BY <1>0, RestoreFacts
<1>2. ASSUME SameTask(p), pc'[p] = "rel-stage", job'[p].rel.stage = "committed" => \A s \in Surfaces : Has(o, s),
             job'[p].rel.stage = "rolled_back" => \A s \in Surfaces : Clear(o, s)
      PROVE  Continues(p, o)
  <2>1. SetsFit(p, o)' /\ FoundFits(p)'
    BY <1>2 DEF SetsFit, FoundFits, RestoringAt, RestoreAt, BeforeAt, RestoreBeginsAt
  <2>2. HasFits(p, o)'
    BY <1>0, <1>2 DEF HasFits, Has, Commits
  <2>3. ClearFits(p, o)'
    BY <1>0, <1>2 DEF ClearFits, Clear, Returns
  <2>4. AddFits(p, o)' /\ job'[p].kind = "restore"
    BY <1>1, <1>2, <2>1, <2>2, <2>3 DEF AddFits, SameTask
  <2> QED BY <1>0, <1>2, <2>4, RestoreContinues DEF ReconcileAt
<1>3. CASE UndoRestoreEnds(p)
  <2>1. /\ SameTask(p) /\ pc'[p] = "rel-stage"
        /\ job'[p].rel.stage = IF job[p].cur = {} THEN "rolled_back" ELSE "recovery_required"
    BY <1>3, TaskStays DEF UndoRestoreEnds, ReleaseAs, Goto, Jobs
  <2>2. job[p].cur = {} => \A s \in Surfaces : Clear(o, s)
    BY <1>1, <1>3 DEF UndoRestoreEnds, ClearFits
  <2> QED BY <1>2, <2>1, <2>2
<1>4. CASE VerifyRestore(p)
  <2>1. PICK n \in {"require", "insist"} : ReleaseAs(p, "committed", n)
    BY <1>4 DEF VerifyRestore
  <2>2. SameTask(p) /\ pc'[p] = "rel-stage" /\ job'[p].rel.stage = "committed"
    BY <2>1, TaskStays DEF ReleaseAs, Goto, Jobs
  <2>3. \A s \in Surfaces : Has(o, s)
    BY <1>1, <1>4 DEF VerifyRestore, HasFits
  <2> QED BY <1>2, <2>2, <2>3
<1>5. CASE MarkRows(p)
  <2> DEFINE marks == job[p].marks \cup {<<s, "committed">> : s \in Rows}
  <2>1. \/ ReleaseMarked(p, marks, "committed", "require")
        \/ Goto(p, "restore-verify") /\ job' = [job EXCEPT ![p].marks = marks]
    BY <1>5 DEF MarkRows
  <2> HIDE DEF marks
  <2>2. \A s \in Surfaces : Has(o, s)
    BY <1>1, <1>5 DEF MarkRows, HasFits
  <2>3. CASE ReleaseMarked(p, marks, "committed", "require")
    <3>1. SameTask(p)
      BY <2>3, TaskStays
    <3>2. pc'[p] = "rel-stage" /\ job'[p].rel.stage = "committed"
      BY <2>3 DEF ReleaseMarked, Goto, Jobs
    <3> QED BY <1>2, <2>2, <3>1, <3>2
  <2>4. CASE Goto(p, "restore-verify") /\ job' = [job EXCEPT ![p].marks = marks]
    <3>1. SameTask(p) /\ pc'[p] = "restore-verify"
      BY <2>4 DEF SameTask, Goto, Jobs
    <3>2. \A s \in payload[o].covers \cap Texts : payload[o].before[s].own = job'[p].snap[s].own
      BY <1>0, <1>1, <3>1 DEF SetsFit, SameTask
    <3>3. SetsFit(p, o)' /\ FoundFits(p)'
      BY <1>0, <3>1, <3>2 DEF SetsFit, FoundFits, RestoreAt, BeforeAt, RestoreBeginsAt
    <3>4. HasFits(p, o)' /\ ClearFits(p, o)'
      BY <1>0, <2>2, <3>1 DEF HasFits, ClearFits, Has, Commits, Returns
    <3>5. AddFits(p, o)' /\ job'[p].kind = "restore"
      BY <1>1, <3>1, <3>3, <3>4 DEF AddFits, SameTask
    <3> QED BY <1>0, <3>1, <3>5, RestoreContinues DEF ReconcileAt
  <2> QED BY <2>1, <2>3, <2>4
<1> QED BY <1>3, <1>4, <1>5

(* A restore.                                                              *)
LEMMA RestoreLedger ==
  ASSUME WritesAreClean, ReleaseSucceeds, QuietCodex, Sound, NEW p \in Procs, NEW o, Knows(p, o), RestoreStep(p)
  PROVE  Continues(p, o)
BY RestoreBeginsLedger, RestorePayloadLedger, MarkLedger, TextLedger, RereadLedger, RowsLedger, GoalsLedger,
   UndoneLedger, RestoreEndsLedger
   DEF RestoreStep
-----------------------------------------------------------------------------
(* The ends of an operation.                                               *)

(* A stop, and a step that leads elsewhere, ask nothing of the process.    *)
LEMMA StopsCarrying ==
  ASSUME Typed, NEW p \in Procs, NEW o \in OpIds, Stop(p), Recorded(o)'
  PROVE  Carries(p, o)
<1>1. job'[p].op = 0 /\ 0 \notin OpIds
  BY StopLeaves DEF NoJob, OpIds
<1> QED BY <1>1 DEF Carries
LEMMA ElsewhereLedger ==
  ASSUME NEW p \in Procs, NEW o,
         pc'[p] \in ClosingAt \cup {"lock-created", "lock-written", "idle", "scanned", "checked"}
  PROVE  LedgerAt(p, o)'
<1>1. ~Commits(p)' /\ ~Returns(p)'
  BY DEF Commits, Returns, ClosingAt
<1>2. /\ pc'[p] \notin SeenAt \cup SnapAt \cup BundledAt \cup {"trash-seal", "trash-rename"}
      /\ pc'[p] \notin BeforeAt \cup RestoringAt \cup {"rec", "fin-stage"}
      /\ pc'[p] \notin ReconcileAt \cup {"fin-stage"}
  BY DEF ClosingAt, SeenAt, SnapAt, BundledAt, PaidAt, CommittingAt, RemovingAt, EntryMadeAt, DeleteAt,
         BeforeAt, RestoreBeginsAt, RestoringAt, ReconcileAt
<1> QED BY <1>1, <1>2, TakeElsewhere, AddElsewhere DEF LedgerAt, ResultFits
LEMMA ElsewhereCarries ==
  ASSUME NEW p \in Procs, NEW o, Recorded(o)',
         pc'[p] \in ClosingAt \cup {"lock-written", "idle", "scanned", "checked"}
  PROVE  Carries(p, o)
BY ElsewhereLedger DEF Carries

(* No payload, nothing recorded; a final journal, nothing to settle.       *)
LEMMA NothingRecorded ==
  ASSUME NEW o, payload'[o] = NoPayload
  PROVE  Recorded(o)'
<1>1. payload'[o].kind = "none"
  BY DEF NoPayload
<1> QED BY <1>1 DEF Recorded, TakeRecord, AddRecord
LEMMA SettledShows ==
  ASSUME NEW o, journal[o].stage \in Final \/ payload[o].kind \in {"none", "purge"}, NEW s
  PROVE  Shown(o, s) = live[s].own
BY DEF Shown, Shows

(* An operation that ends as rolled back ends with what it showed.         *)
LEMMA ReturnedShows ==
  ASSUME NEW o, TakeRecord(o), payload[o].kind \in {"delete", "trash"} => Whole(o),
         payload[o].kind = "restore" => \A s \in Surfaces : Clear(o, s),
         payload[o].kind \in AllKinds \cup {"none"}, NEW s \in Surfaces
  PROVE  Shown(o, s) = live[s].own
<1>1. CASE journal[o].stage \in Final \/ payload[o].kind \in {"none", "purge"}
  BY <1>1, SettledShows
<1>2. CASE payload[o].kind \in {"delete", "trash"} /\ journal[o].stage \notin Final
  <2>1. payload[o].before[s].own \subseteq live[s].own
    BY <1>2 DEF Whole, Intact, TakeRecord
  <2> QED BY <1>2, <2>1 DEF Shown, Shows
<1>3. CASE payload[o].kind = "restore" /\ journal[o].stage \notin Final
  BY <1>3 DEF Shown, Shows, Clear
<1>4. CASE payload[o].kind = "cleanup-index"
  BY <1>4 DEF Shown, Shows
<1> QED BY <1>1, <1>2, <1>3, <1>4 DEF AllKinds

(* The kinds of payloads.                                                  *)
LEMMA PayloadKinds ==
  ASSUME Ownership, NEW o \in OpIds
  PROVE  payload[o].kind \in AllKinds \cup {"none"}
BY SwitchesAssumption DEF Ownership, UndoIsCleanup

(* lock.release.                                                           *)
LEMMA ReleaseLedger ==
  ASSUME ReleaseSucceeds, Sound, NEW p \in Procs, NEW o, Knows(p, o), ReleaseStep(p)
  PROVE  /\ Carries(p, o) /\ live' = live
         /\ ~Commits(p) => SameShown(o)
<1> USE JobFunction, ReleaseIsQuiet DEF Knows
<1>0. /\ live' = live /\ OperationStep(p) /\ Consistent /\ Paid /\ FileFits(o)
      /\ pc[p] \in {"rel-stage", "rel-check", "rel-payload", "rel-unlock"}
  BY WorkerFits
     DEF ReleaseStep, ReleaseStage, ReleaseCheck, ReleasePayload, ReleaseUnlock, data, OperationStep,
         Sound, Paid, RollbackInv, Consistent
<1>1. payload' = payload => Recorded(o)'
  BY <1>0, RecordsStay
<1>2. CASE ReleaseStage(p)
  <2>1. /\ payload' = payload /\ pc[p] = "rel-stage"
        /\ journal' = [journal EXCEPT ![job[p].op] = [stage |-> job[p].rel.stage, marks |-> job[p].marks]]
        /\ IF job[p].rel.stage = "recovery_required" THEN Stop(p) ELSE pc'[p] = "rel-check"
    BY <1>2 DEF ReleaseStage, WriteJournal, Effect, Throws, Goto
  <2>2. Carries(p, o)
    BY <1>1, <2>1, StopsCarrying, ElsewhereCarries DEF ClosingAt
  <2>3. journal'[o].stage = job[p].rel.stage /\ journal[o].stage \notin Final
    BY <2>1 DEF Typed, Fits, StageFits, LockingAt, ClosingAt
  <2>4. ASSUME ~Commits(p), NEW s \in Surfaces PROVE Shown(o, s)' = Shown(o, s)
    <3>1. CASE job[p].rel.stage = "recovery_required"
      <4>1. journal'[o].stage \notin Final
        BY <2>3, <3>1 DEF Final
      <4> QED BY <1>0, <2>1, <2>3, <4>1, ShownStays
    <3>2. CASE job[p].rel.stage = "rolled_back"
      <4>1. payload[o].kind \in {"delete", "trash"} => Whole(o)
        BY <2>1, <3>2 DEF RollbackAt, EndingFits, GivenBack
      <4>2. payload[o].kind = "restore" => \A t \in Surfaces : Clear(o, t)
        <5>1. payload[o].kind = "restore" => job[p].kind = "restore"
          BY DEF Fits, PayloadFits
        <5> QED BY <2>1, <3>2, <5>1 DEF LedgerAt, AddFits, ClearFits, Returns
      <4>3. Shown(o, s) = live[s].own
        BY <1>0, <4>1, <4>2, PayloadKinds, ReturnedShows DEF Recorded, Consistent
      <4>4. Shown(o, s)' = live'[s].own
        BY <2>3, <3>2 DEF Shown, Shows, Final
      <4> QED BY <1>0, <4>3, <4>4
    <3>3. job[p].rel.stage \in {"rolled_back", "recovery_required"}
      BY <2>1, <2>4 DEF Commits, Fits, StageFits, Final
    <3> QED BY <3>1, <3>2, <3>3
  <2> QED BY <1>0, <2>2, <2>4 DEF SameShown
<1>3. journal[o].stage \in Final \/ ReleaseStage(p)
  BY <1>0 DEF ReleaseStep, ReleaseStage, ReleaseCheck, ReleasePayload, ReleaseUnlock, Fits, StageFits, ClosingAt
<1>4. ~ReleaseStage(p) => journal' = journal
  BY DEF ReleaseStep, ReleaseCheck, ReleasePayload, ReleaseUnlock, disk
<1>5. ~ReleaseStage(p) => SameShown(o)
  BY <1>0, <1>3, <1>4 DEF SameShown, Shown, Shows
<1>6. CASE ReleaseCheck(p)
  <2>1. OwnsLockFile(p)
    BY <1>0, <1>6, OneWorker DEF OwnsLockFile, ReleaseCheck, Consistent
  <2>2. payload' = payload /\ pc'[p] = "rel-payload"
    BY <1>6, <2>1 DEF ReleaseCheck, disk, Goto
  <2> QED BY <1>0, <1>1, <1>5, <1>6, <2>2, ElsewhereCarries DEF ClosingAt, ReleaseCheck, ReleaseStage
<1>7. CASE ReleasePayload(p)
  <2>1. payload'[o] = NoPayload /\ pc'[p] = "rel-unlock"
    BY <1>7 DEF ReleasePayload, Effect, Throws, Goto, Typed
  <2> QED BY <1>0, <1>5, <1>7, <2>1, NothingRecorded, ElsewhereCarries DEF ClosingAt, ReleasePayload, ReleaseStage
<1>8. CASE ReleaseUnlock(p)
  <2>1. payload' = payload /\ Stop(p)
    BY <1>8 DEF ReleaseUnlock, Throws
  <2> QED BY <1>0, <1>1, <1>5, <1>8, <2>1, StopsCarrying DEF ReleaseUnlock, ReleaseStage
<1> QED BY <1>2, <1>6, <1>7, <1>8 DEF ReleaseStep
(* What a recovery knows of its payload.                                   *)
LEMMA RecoveryFacts ==
  ASSUME Ownership, NEW p \in Procs, NEW o, Knows(p, o), pc[p] = "rec"
  PROVE  LET plan == payload[o] IN
         /\ job[p].kind = plan.kind /\ plan.kind \in AllKinds
         /\ journal[o].stage \notin Final
         /\ plan.before = job[p].snap
         /\ \A s \in Surfaces : job[p].bundle[s] \subseteq plan.moves[s]
         /\ plan.kind = "restore" => job[p].bundle = plan.moves
         /\ AddFits(p, o) /\ ResultFits(p, o)
<1> USE DEF Knows
<1>1. job[p].kind = payload[o].kind /\ payload[o].kind # "none" /\ journal[o].stage \notin Final
  BY DEF Fits, PayloadFits, StageFits, WithPayload, ReconcileAt, LockingAt, ClosingAt
<1>2. payload[o].kind \in AllKinds
  BY <1>1, PayloadKinds
<1>3. AddFits(p, o) /\ ResultFits(p, o)
  BY DEF LedgerAt
<1>4. payload[o].kind = "restore" => job[p].bundle = payload[o].moves
  BY <1>1, <1>3 DEF AddFits, HasFits
<1> QED BY <1>1, <1>2, <1>3, <1>4 DEF DurableAt, MovesFit

(* What a recovery makes of a surface shows the same, and a restore's has  *)
(* all it adds.                                                            *)
LEMMA DesiredShows ==
  ASSUME Ownership, NEW p \in Procs, NEW o, Knows(p, o), pc[p] = "rec",
         job[p].kind \notin {"purge", "cleanup-index"},
         NEW s \in Surfaces, KnownState(p, s)
  PROVE  /\ Shows(o, s, Desired(p, s).own) = Shown(o, s)
         /\ job[p].kind = "restore" => payload[o].moves[s] \subseteq Desired(p, s).own
<1> DEFINE plan == payload[o]
           B == plan.before[s].own
           M == plan.moves[s]
<1> USE JobFunction DEF Knows
<1>0. /\ job[p].kind = plan.kind /\ plan.kind \in {"delete", "trash", "restore"}
      /\ journal[o].stage \notin Final /\ plan.before = job[p].snap
      /\ job[p].bundle[s] \subseteq M /\ (plan.kind = "restore" => job[p].bundle = plan.moves)
  BY RecoveryFacts DEF AllKinds
<1>1. /\ live[s] \in Value /\ plan.before[s] \in Value
  BY <1>0 DEF Typed, DataTyped, Images, Jobs
<1>2. s \in Databases => s \notin Texts
  BY ListsApart DEF Databases, Texts
<1>3. s \in Databases \/ live[s] \in {plan.before[s], StateAfter(p, s)}
  BY <1>0 DEF KnownState
<1>4. CASE plan.kind \in {"delete", "trash"}
  <2>1. M = {} /\ job[p].bundle[s] = {}
    BY <1>0, <1>4 DEF Recorded, TakeRecord
  <2>2. \A own : Shows(o, s, own) = own \cup B
    BY <1>0, <1>4 DEF Shows
  <2>3. CASE s \in Databases
    <3>0. Desired(p, s).own = live[s].own \cup job[p].snap[s].own \cup job[p].bundle[s]
      BY <1>1, <2>3 DEF Desired, Value
    <3>1. Desired(p, s).own = live[s].own \cup B
      BY <1>0, <2>1, <3>0
    <3>2. Shows(o, s, Desired(p, s).own) = (live[s].own \cup B) \cup B
      BY <2>2, <3>1
    <3>3. Shown(o, s) = live[s].own \cup B
      BY <2>2 DEF Shown
    <3>4. job[p].kind # "restore"
      BY <1>0, <1>4
    <3> QED BY <3>2, <3>3, <3>4
  <2>4. CASE s \notin Databases
    <3>1. Desired(p, s) = plan.before[s]
      BY <1>0, <1>4, <2>4 DEF Desired, Strategy
    <3>2. Removed(s, plan.before[s]).own = {} /\ StateAfter(p, s) = Removed(s, plan.before[s])
      BY <1>0, <1>1, <1>4 DEF StateAfter, After, Removed, Value
    <3>3. live[s].own = B \/ live[s].own = {}
      BY <1>3, <2>4, <3>2
    <3>4. Shows(o, s, Desired(p, s).own) = B \cup B
      BY <2>2, <3>1
    <3>5. Shown(o, s) = live[s].own \cup B
      BY <2>2 DEF Shown
    <3>6. job[p].kind # "restore"
      BY <1>0, <1>4
    <3> QED BY <3>3, <3>4, <3>5, <3>6
  <2> QED BY <2>3, <2>4
<1>5. CASE plan.kind = "restore"
  <2>1. job[p].bundle = plan.moves /\ AddRecord(o)
    BY <1>0, <1>5 DEF Recorded
  <2>2. \A own : Shows(o, s, own) = own \ (M \ B)
    BY <1>0, <1>5 DEF Shows
  <2>3. CASE s \in Databases
    <3>1. Desired(p, s).own = live[s].own \cup B \cup M
      BY <1>0, <1>1, <1>5, <2>1, <2>3 DEF Desired, Value
    <3>2. B = {}
      BY <1>2, <1>5, <2>1, <2>3 DEF AddRecord, Rows
    <3>3. Shows(o, s, Desired(p, s).own) = (live[s].own \cup M) \ M
      BY <2>2, <3>1, <3>2
    <3>4. Shown(o, s) = live[s].own \ M
      BY <2>2, <3>2 DEF Shown
    <3> QED BY <3>1, <3>3, <3>4
  <2>4. CASE s \notin Databases
    <3>1. StateAfter(p, s).own = B \cup M
      BY <1>0, <1>1, <1>5, <2>1 DEF StateAfter, After, Value
    <3>2. Desired(p, s) = StateAfter(p, s)
      BY <1>0, <1>5, <2>4 DEF Desired, Strategy
    <3>3. live[s].own = B \/ live[s].own = B \cup M
      BY <1>3, <2>4, <3>1
    <3>4. (B \cup M) \ (M \ B) = B /\ B \ (M \ B) = B
      OBVIOUS
    <3>5. Shown(o, s) = B /\ Shows(o, s, Desired(p, s).own) = B
      BY <2>2, <3>1, <3>2, <3>3, <3>4 DEF Shown
    <3> QED BY <3>1, <3>2, <3>5
  <2> QED BY <2>3, <2>4
<1> QED BY <1>0, <1>4, <1>5

(* A recovery visits the surfaces.                                         *)
LEMMA SurfaceLedger ==
  ASSUME ReleaseSucceeds, Sound, NEW p \in Procs, NEW o, Knows(p, o), RecoverSurface(p)
  PROVE  /\ Carries(p, o)
         /\ live' = live \/ job[p].kind \notin {"purge", "cleanup-index"} => SameShown(o)
<1> USE JobFunction DEF Knows
<1>0. /\ UNCHANGED <<journal, payload, entry>> /\ pc[p] = "rec" /\ OperationStep(p)
      /\ Consistent /\ Ownership /\ Paid
  BY DEF RecoverSurface, disk, bin, OperationStep, RecoveryStep, Sound, Consistent, Paid, RollbackInv
<1>1. Recorded(o)'
  BY <1>0, RecordsStay
<1>2. /\ job[p].kind = payload[o].kind /\ AddFits(p, o) /\ ResultFits(p, o)
  BY <1>0, RecoveryFacts
<1>3. PICK s \in First(job[p].todo, RecoveryRank) :
        \/ Stop(p) /\ live' = live
        \/ /\ KnownState(p, s) /\ (live' = live \/ live' = [live EXCEPT ![s] = Desired(p, s)])
           /\ \/ Stop(p)
              \/ /\ live' = [live EXCEPT ![s] = Desired(p, s)]
                 /\ pc' = pc /\ job' = [job EXCEPT ![p].todo = job[p].todo \ {s}]
  BY DEF RecoverSurface, Effect, Throws
<1>4. s \in job[p].todo /\ s \in Surfaces
  BY DEF First, Jobs
<1>5. job[p].kind \notin {"purge", "cleanup-index"} => SameShown(o)
  <2>1. ASSUME job[p].kind \notin {"purge", "cleanup-index"}, KnownState(p, s)
        PROVE  Shows(o, s, Desired(p, s).own) = Shown(o, s)
    BY <1>0, <1>4, <2>1, DesiredShows
  <2>2. ASSUME live' = live, NEW t \in Surfaces PROVE Shown(o, t)' = Shown(o, t)
    BY <1>0, <2>2, ShownStays
  <2>3. ASSUME job[p].kind \notin {"purge", "cleanup-index"}, KnownState(p, s),
               live' = live \/ live' = [live EXCEPT ![s] = Desired(p, s)], NEW t \in Surfaces
        PROVE  Shown(o, t)' = Shown(o, t)
    BY <1>0, <1>4, <2>1, <2>3, WrittenShown
  <2> QED BY <1>3, <2>2, <2>3 DEF SameShown
<1>6. live' = live => SameShown(o)
  BY <1>0, ShownStays DEF SameShown
<1>7. CASE Stop(p)
  BY <1>1, <1>5, <1>6, <1>7, StopsCarrying
<1>8. CASE /\ KnownState(p, s) /\ live' = [live EXCEPT ![s] = Desired(p, s)]
           /\ pc' = pc /\ job' = [job EXCEPT ![p].todo = job[p].todo \ {s}]
  <2>1. /\ pc'[p] = "rec" /\ SameTask(p) /\ job'[p].todo = job[p].todo \ {s} /\ job'[p].rel = job[p].rel
    BY <1>0, <1>8 DEF Jobs, SameTask
  <2>2. ASSUME NEW t \in Surfaces PROVE live'[t] = IF t = s THEN Desired(p, s) ELSE live[t]
    BY <1>8 DEF Typed, DataTyped, Images
  <2>3. job[p].kind = "restore" => payload[o].moves[s] \subseteq Desired(p, s).own
    BY <1>0, <1>4, <1>8, DesiredShows
  <2>4. ASSUME job[p].kind = "restore" PROVE HasFits(p, o)'
    <3>1. /\ \A t \in payload[o].covers : Has(o, t) \/ t \in job[p].todo
          /\ job[p].bundle = payload[o].moves
      BY <1>0, <1>2, <2>4 DEF AddFits, HasFits
    <3>2. payload[o].covers \subseteq Surfaces
      BY <1>2, <2>4, SurfacesNamed DEF Recorded, AddRecord, Texts, Rows, Surfaces, Databases
    <3>3. Has(o, s)'
      BY <1>0, <1>4, <2>2, <2>3, <2>4 DEF Has
    <3>4. \A t \in Surfaces \ {s} : Has(o, t)' = Has(o, t)
      BY <1>0, <2>2 DEF Has
    <3>5. \A t \in payload[o].covers : Has(o, t)' \/ t \in job'[p].todo
      BY <2>1, <3>1, <3>2, <3>3, <3>4
    <3> QED BY <1>0, <2>1, <3>1, <3>5 DEF HasFits, SameTask, Commits
  <2>5. AddFits(p, o)'
    BY <2>1, <2>4 DEF AddFits, FoundFits, SetsFit, ClearFits, SameTask, BeforeAt, RestoreBeginsAt,
               RestoringAt, RestoreAt, Returns
  <2>6. TakeFits(p, o)'
    <3>1. pc'[p] \notin SeenAt \cup SnapAt \cup BundledAt \cup {"trash-seal", "trash-rename"} /\ ~Commits(p)'
      BY <2>1 DEF SeenAt, SnapAt, BundledAt, PaidAt, CommittingAt, RemovingAt, EntryMadeAt, DeleteAt, Commits
    <3> QED BY <3>1, TakeElsewhere
  <2>7. ResultFits(p, o)'
    BY <1>0, <1>2, <2>1, ResultStays DEF ReconcileAt
  <2> QED BY <1>1, <1>5, <1>6, <2>5, <2>6, <2>7 DEF Carries, LedgerAt
<1> QED BY <1>3, <1>7, <1>8
(* The surfaces are reconciled, and the trash is.                          *)
LEMMA TrashRecoveryLedger ==
  ASSUME ReleaseSucceeds, Sound, NEW p \in Procs, NEW o, Knows(p, o),
         SurfacesRecovered(p) \/ RecoverQuarantine(p) \/ RecoverTrash(p) \/ RefuseTrash(p)
  PROVE  Continues(p, o)
<1> USE JobFunction DEF Knows
<1>0. /\ live' = live /\ UNCHANGED <<journal, payload>> /\ OperationStep(p) /\ ~Ends(p)
      /\ pc[p] \in ReconcileAt /\ (SurfacesRecovered(p) => pc[p] = "rec")
      /\ (~SurfacesRecovered(p) => pc[p] \in {"rec-trash", "rec-rmdir"})
  BY DEF SurfacesRecovered, RecoverQuarantine, RecoverTrash, RefuseTrash, data, disk, OperationStep,
         RecoveryStep, Ends, ReleaseStage, FinalizeStage, ReconcileAt
<1>1. \/ Stop(p)
      \/ job' = job /\ pc'[p] = pc[p] /\ ~SurfacesRecovered(p)
      \/ job' = job /\ pc'[p] = "fin-stage" /\ ~SurfacesRecovered(p)
      \/ job' = job /\ pc'[p] = "rec-trash" /\ SurfacesRecovered(p) /\ job[p].kind \in {"trash", "purge"}
      \/ job' = job /\ pc'[p] = "fin-stage" /\ SurfacesRecovered(p) /\ job[p].kind \notin {"trash", "purge"}
  BY DEF SurfacesRecovered, RecoverQuarantine, RecoverTrash, RefuseTrash, ReconcilesTrash, Goto
<1>2. CASE Stop(p)
  <2>1. job'[p].op # o
    BY <1>2, StopLeaves DEF NoJob, OpIds
  <2> QED BY <1>0, <2>1, QuietContinues
<1>3. CASE ~Stop(p)
  <2>1. /\ job' = job /\ pc'[p] \in {"rec-trash", "rec-rmdir", "fin-stage"}
        /\ (pc'[p] = "fin-stage" /\ SurfacesRecovered(p)) \/ job[p].kind # "restore"
    BY <1>0, <1>1, <1>3 DEF Fits, KindFits
  <2>2. TakeFits(p, o)'
    <3>1. pc'[p] \notin SeenAt \cup SnapAt \cup BundledAt \cup {"trash-seal", "trash-rename"} /\ ~Commits(p)'
      BY <2>1 DEF SeenAt, SnapAt, BundledAt, PaidAt, CommittingAt, RemovingAt, EntryMadeAt, DeleteAt, Commits
    <3> QED BY <3>1, TakeElsewhere
  <2>3. ResultFits(p, o)'
    BY <1>0, <2>1, ResultStays DEF ReconcileAt, LedgerAt
  <2>4. AddFits(p, o)'
    <3>1. CASE job[p].kind # "restore"
      BY <2>1, <3>1, OtherAdds
    <3>2. CASE job[p].kind = "restore"
      <4>1. pc'[p] = "fin-stage" /\ SurfacesRecovered(p) /\ pc[p] = "rec" /\ job[p].todo = {}
        BY <1>0, <2>1, <3>2 DEF SurfacesRecovered
      <4>2. HasFits(p, o) /\ payload[o].kind = "restore" /\ AddRecord(o)
        BY <3>2, <4>1 DEF LedgerAt, AddFits, Fits, PayloadFits, WithPayload, ReconcileAt, Recorded
      <4>3. \A s \in Surfaces : Has(o, s)
        BY <4>1, <4>2 DEF HasFits, AddRecord, Has
      <4> QED BY <1>0, <4>1, <4>3
              DEF AddFits, FoundFits, SetsFit, HasFits, ClearFits, BeforeAt, RestoreBeginsAt, RestoringAt,
                  RestoreAt, Commits, Returns, Has
    <3> QED BY <3>1, <3>2
  <2> QED BY <1>0, <2>2, <2>3, <2>4, QuietContinues DEF LedgerAt
<1> QED BY <1>2, <1>3

(* finalizeInterruptedMutation.                                            *)
LEMMA FinalizeLedger ==
  ASSUME ReleaseSucceeds, Sound, NEW p \in Procs, NEW o, Knows(p, o),
         FinalizeStage(p) \/ FinalizePayload(p) \/ FinalizeUnlock(p)
  PROVE  /\ Carries(p, o) /\ live' = live
         /\ ~(FinalizeStage(p) /\ Restores(o)) => SameShown(o)
<1> USE JobFunction DEF Knows
<1>0. /\ live' = live /\ OperationStep(p) /\ Consistent /\ Ownership /\ Paid
      /\ pc[p] \in {"fin-stage", "fin-payload", "fin-unlock"} /\ (FinalizeStage(p) <=> pc[p] = "fin-stage")
  BY DEF FinalizeStage, FinalizePayload, FinalizeUnlock, data, disk, OperationStep, RecoveryStep,
         Sound, Consistent, Paid, RollbackInv
<1>1. /\ payload' = payload \/ payload'[o] = NoPayload
      /\ FinalizeStage(p) => payload' = payload
  BY DEF FinalizeStage, FinalizePayload, FinalizeUnlock, Typed
<1>2. Recorded(o)'
  BY <1>0, <1>1, RecordsStay, NothingRecorded
<1>3. Stop(p) \/ pc'[p] \in ClosingAt
  BY DEF FinalizeStage, FinalizePayload, FinalizeUnlock, Goto, ClosingAt
<1>4. Carries(p, o)
  BY <1>2, <1>3, StopsCarrying, ElsewhereCarries
<1>5. CASE ~FinalizeStage(p)
  <2>1. journal[o].stage \in Final /\ journal' = journal
    BY <1>0, <1>5 DEF Fits, StageFits, ClosingAt, FinalizePayload, FinalizeUnlock
  <2>2. SameShown(o)
    BY <1>0, <2>1 DEF SameShown, Shown, Shows
  <2> QED BY <1>0, <1>4, <2>2
<1>6. ASSUME FinalizeStage(p), ~Restores(o), NEW s \in Surfaces PROVE Shown(o, s)' = Shown(o, s)
  <2>1. job[p].rel.stage = EndStage(o) /\ job[p].rel.stage \in Final
    BY <1>0, <1>6 DEF LedgerAt, ResultFits, Fits, StageFits
  <2>2. journal' = journal \/ journal'[o].stage = EndStage(o)
    <3>1. \/ journal' = journal
          \/ journal' = [journal EXCEPT ![o] = [stage |-> job[p].rel.stage, marks |-> journal[o].marks]]
      BY <1>6 DEF FinalizeStage, WriteJournal
    <3> QED BY <2>1, <3>1 DEF Typed
  <2>3. CASE journal' = journal
    BY <1>0, <1>1, <1>6, <2>3, ShownStays
  <2>4. CASE journal'[o].stage = EndStage(o)
    <3>1. Shown(o, s)' = live[s].own
      BY <1>0, <2>1, <2>4 DEF Shown, Shows
    <3>2. payload[o].kind \in {"delete", "trash"} => IsFinal(o) \/ EndStage(o) = "rolled_back"
      BY DEF EndStage, Strategy
    <3>3. payload[o].kind \in {"delete", "trash"} => IsFinal(o) \/ Whole(o)
      BY <1>0, <1>6, <2>1, <3>2 DEF RollbackAt, EndingFits, GivenBack
    <3>4. CASE IsFinal(o)
      BY <3>1, <3>4, SettledShows DEF IsFinal
    <3>5. CASE ~IsFinal(o)
      <4>1. payload[o].kind # "restore"
        BY <1>6, <3>5 DEF Restores, IsFinal
      <4> QED BY <1>0, <3>1, <3>3, <3>5, <4>1, PayloadKinds, ReturnedShows DEF Recorded
    <3> QED BY <3>4, <3>5
  <2> QED BY <2>2, <2>3, <2>4
<1> QED BY <1>0, <1>4, <1>5, <1>6 DEF SameShown

(* An operation with a lock, and a recovery, begin.                        *)
LEMMA RecoveryBeginsLedger ==
  ASSUME ReleaseSucceeds, Sound, NEW p \in Procs, BeginRecovery(p), NEW o \in OpIds
  PROVE  (job'[p].op = o => LedgerAt(p, o)') /\ UNCHANGED <<live, lock, journal, payload, entry, tmp>>
<1> USE JobFunction DEF Sound, Consistent
<1>0. /\ UNCHANGED <<live, lock, journal, payload, entry, tmp>> /\ job'[p].op = lock.op
      /\ pc'[p] = IF ~IsFinal(lock.op) /\ ~Untouched(lock.op) THEN "rec" ELSE "fin-stage"
      /\ job'[p].kind = payload[lock.op].kind
      /\ job'[p].bundle = IF ProtectsLogs(lock.op) THEN NoRecords ELSE payload[lock.op].moves
      /\ job'[p].todo = IF ~IsFinal(lock.op) /\ ~Untouched(lock.op) THEN payload[lock.op].covers ELSE {}
      /\ job'[p].rel.stage = EndStage(lock.op)
  BY DEF BeginRecovery, data, disk, bin, Goto, Typed, NoJob
<1> SUFFICES ASSUME lock.op = o PROVE LedgerAt(p, o)'
  BY <1>0
<1>1. TakeFits(p, o)'
  <2>1. pc'[p] \notin SeenAt \cup SnapAt \cup BundledAt \cup {"trash-seal", "trash-rename"} /\ ~Commits(p)'
    BY <1>0 DEF SeenAt, SnapAt, BundledAt, PaidAt, CommittingAt, RemovingAt, EntryMadeAt, DeleteAt, Commits
  <2> QED BY <2>1, TakeElsewhere
<1>2. ResultFits(p, o)'
  BY <1>0 DEF ResultFits, EndStage, IsFinal, Untouched
<1>3. AddFits(p, o)'
  <2>1. SUFFICES ASSUME payload[o].kind = "restore" PROVE HasFits(p, o)'
    BY <1>0 DEF AddFits, FoundFits, SetsFit, ClearFits, BeforeAt, RestoreBeginsAt, RestoringAt, RestoreAt, Returns
  <2>2. job'[p].bundle = payload[o].moves
    BY <1>0, <2>1 DEF ProtectsLogs
  <2>3. pc'[p] = "rec" => job'[p].todo = payload[o].covers
    BY <1>0
  <2>4. pc'[p] = "fin-stage" => ~Restores(o)'
    BY <1>0, <2>1 DEF Restores, IsFinal, Untouched
  <2> QED BY <1>0, <2>2, <2>3, <2>4 DEF HasFits, Commits
<1> QED BY <1>1, <1>2, <1>3 DEF LedgerAt
-----------------------------------------------------------------------------
(* LedgerInv.                                                              *)

(* What a process knows stays true while nothing it looks at changes.      *)
LEMMA LedgerKept ==
  ASSUME NEW q \in Procs, NEW o \in OpIds, LedgerAt(q, o), UNCHANGED <<live, journal, payload, entry>>,
         pc'[q] = pc[q], job'[q] = job[q]
  PROVE  LedgerAt(q, o)'
<1>1. /\ \A s : Shown(o, s)' = Shown(o, s) /\ Has(o, s)' = Has(o, s) /\ Clear(o, s)' = Clear(o, s)
      /\ \A s : Gone(s)' = Gone(s)
      /\ Commits(q)' = Commits(q) /\ Returns(q)' = Returns(q) /\ Restores(o)' = Restores(o)
  BY DEF Shown, Shows, Has, Clear, Gone, Commits, Returns, Restores
<1>2. TakeFits(q, o)'
  <2>1. SUFFICES ASSUME Deletes(q) PROVE SeenFits(q, o)' /\ SnapFits(q, o)' /\ TakenFits(q)' /\ BundleFits(q, o)'
    BY DEF TakeFits, Deletes
  <2>2. SeenFits(q, o) /\ SnapFits(q, o) /\ TakenFits(q) /\ BundleFits(q, o)
    BY <2>1 DEF LedgerAt, TakeFits
  <2>3. SeenFits(q, o)' /\ SnapFits(q, o)'
    BY <1>1, <2>2 DEF SeenFits, SnapFits
  <2>4. TakenFits(q)'
    BY <1>1, <2>2 DEF TakenFits
  <2>5. \A b : Bundled(q, o, b)' = Bundled(q, o, b)
    BY <1>1 DEF Bundled
  <2>6. BundleFits(q, o)'
    BY <1>1, <2>2, <2>5 DEF BundleFits
  <2> QED BY <2>3, <2>4, <2>6
<1>3. AddFits(q, o)'
  <2>1. SUFFICES ASSUME job[q].kind = "restore"
        PROVE  FoundFits(q)' /\ SetsFit(q, o)' /\ HasFits(q, o)' /\ ClearFits(q, o)'
    BY DEF AddFits
  <2>2. FoundFits(q) /\ SetsFit(q, o) /\ HasFits(q, o) /\ ClearFits(q, o)
    BY <2>1 DEF LedgerAt, AddFits
  <2>3. FoundFits(q)'
    <3>1. RestorePlan(q)' = RestorePlan(q)
      BY DEF RestorePlan
    <3> QED BY <1>1, <2>2, <3>1 DEF FoundFits
  <2>4. SetsFit(q, o)'
    BY <2>2 DEF SetsFit
  <2>5. HasFits(q, o)'
    BY <1>1, <2>2 DEF HasFits
  <2>6. ClearFits(q, o)'
    BY <1>1, <2>2 DEF ClearFits
  <2> QED BY <2>3, <2>4, <2>5, <2>6
<1>4. ResultFits(q, o)'
  BY DEF LedgerAt, ResultFits, EndStage, IsFinal, Untouched
<1> QED BY <1>2, <1>3, <1>4 DEF LedgerAt

(* An operation begins.                                                    *)
LEMMA BeginningLedger ==
  ASSUME ReleaseSucceeds, Sound, NEW p \in Procs, NEW o, Knows(p, o), WriteLock(p) \/ CreateJournal(p)
  PROVE  Continues(p, o)
<1> USE JobFunction DEF Knows
<1>0. /\ live' = live /\ payload' = payload /\ OperationStep(p) /\ ~Ends(p)
      /\ pc[p] \in {"lock-created", "lock-written"}
  BY DEF WriteLock, CreateJournal, data, OperationStep, AcquireStep, Ends, ReleaseStage, FinalizeStage
<1>1. \/ Stop(p)
      \/ pc'[p] \in {"lock-written", "acquired"} /\ job' = job
  BY DEF WriteLock, CreateJournal, Goto
<1>2. CASE Stop(p)
  <2>1. job'[p].op # o
    BY <1>2, StopLeaves DEF NoJob, OpIds
  <2> QED BY <1>0, <2>1, QuietContinues
<1>3. CASE pc'[p] = "lock-written"
  BY <1>0, <1>3, ElsewhereLedger, QuietContinues
<1>4. CASE pc'[p] = "acquired" /\ job' = job
  <2>1. job[p].done = {}
    BY <1>0 DEF Fits, DoneFits, EarlyAt, LockingAt
  <2>2. AddFits(p, o)'
    BY <1>4, <2>1 DEF AddFits, FoundFits, SetsFit, HasFits, ClearFits, RestoreBeginsAt, RestoringAt, RestoreAt,
               Commits, Returns
  <2>3. TakeFits(p, o)'
    <3>1. pc'[p] \notin SeenAt \cup SnapAt \cup BundledAt \cup {"trash-seal", "trash-rename"} /\ ~Commits(p)'
      BY <1>4 DEF SeenAt, SnapAt, BundledAt, PaidAt, CommittingAt, RemovingAt, EntryMadeAt, DeleteAt, Commits
    <3> QED BY <3>1, TakeElsewhere
  <2>4. ResultFits(p, o)'
    BY <1>4 DEF ResultFits, ReconcileAt
  <2> QED BY <1>0, <2>2, <2>3, <2>4, QuietContinues DEF LedgerAt
<1> QED BY <1>1, <1>2, <1>3, <1>4

(* The steps a user can see: the last journal of an operation that stays,  *)
(* and what a purge deletes.                                               *)
Settles(p, o) ==
  \/ ReleaseStage(p) /\ Commits(p)
  \/ FinalizeStage(p) /\ Restores(o)
  \/ live' # live /\ payload[o].kind \in {"purge", "cleanup-index"}
LEMMA WorkLedger ==
  ASSUME WritesAreClean, ReleaseSucceeds, QuietCodex, Sound, NEW p \in Procs, Working(p),
         OperationStep(p) \/ Crash(p), NEW o, o = job[p].op
  PROVE  Carries(p, o) /\ (SameShown(o) \/ Settles(p, o))
<1>0. Knows(p, o) /\ KindFits(p) /\ Ownership
  BY WorkerKnows DEF Knows, Fits, Sound, Consistent
<1>1. CASE AcquireStep(p)
  <2>1. ~((\E kind \in Kinds : ScanRoot(p, kind)) \/ CreateLock(p) \/ LockIsTaken(p))
    BY DEF Working, ScanRoot, CreateLock, LockIsTaken, ReadyToLock
  <2> QED BY <1>0, <1>1, <2>1, BeginningLedger DEF AcquireStep, Continues
<1>2. CASE Crash(p)
  <2>1. job'[p].op # o
    BY <1>0, <1>2, StopLeaves DEF Crash, NoJob, OpIds, Knows
  <2>2. live' = live /\ payload' = payload /\ journal' = journal /\ entry' = entry
    BY <1>2 DEF Crash, data, disk, bin
  <2>3. SameShown(o)
    BY <2>2, ShownStays DEF SameShown
  <2>4. Recorded(o)'
    BY <1>0, <2>2 DEF Knows, Recorded, TakeRecord, AddRecord
  <2> QED BY <2>1, <2>3, <2>4 DEF Carries
<1>3. CASE DeleteStep(p) \/ UndoStep(p) \/ CleanupStep(p)
  <2>1. ~CheckIndexes(p)
    BY DEF Working, CheckIndexes
  <2>2. Cleans(p) \/ (Deletes(p) /\ (DeleteStep(p) \/ UndoStep(p)))
    BY <1>0, <1>3, TakersOnly
  <2> QED BY <1>0, <1>3, <2>1, <2>2, DeleteLedger, CleanupLedger DEF Continues, Settles
<1>4. CASE TrashStep(p)
  BY <1>0, <1>4, TrashLedger DEF Continues
<1>5. CASE EntryStep(p)
  <2>1. ~(ReadForRestore(p) \/ ReadForPurge(p) \/ EntryNotFound(p))
    BY DEF Working, ReadForRestore, ReadForPurge, EntryNotFound
  <2> QED BY <1>0, <1>5, <2>1, EntryLedger DEF EntryStep, Continues
<1>6. CASE RestoreStep(p)
  BY <1>0, <1>6, RestoreLedger DEF Continues
<1>7. CASE PurgeStep(p)
  <2>1. Carries(p, o) /\ (live' = live => SameShown(o))
    BY <1>0, <1>7, PurgeLedger
  <2>2. live' # live => payload[o].kind = "purge"
    <3>1. PurgeStep(p) /\ live' # live => PurgeLogs(p)
      BY DEF PurgeStep, WritePurgePayload, RecheckPurge, CheckpointPurge, PurgeLogs,
              QuarantineEntry, RemoveQuarantine, VerifyPurge, data
    <3>2. PurgeLogs(p) => payload[o].kind = "purge"
      BY <1>0 DEF PurgeLogs, Knows, Fits, PayloadFits, KindFits, WithPayload, PurgingAt
    <3> QED BY <1>7, <3>1, <3>2
  <2> QED BY <2>1, <2>2 DEF Settles
<1>8. CASE ReleaseStep(p)
  <2>1. ~ReleaseStage(p) => ~Commits(p)
    BY <1>8 DEF ReleaseStep, ReleaseCheck, ReleasePayload, ReleaseUnlock, Commits
  <2> QED BY <1>0, <1>8, <2>1, ReleaseLedger DEF Settles
<1>9. CASE RecoverSurface(p)
  BY <1>0, <1>9, SurfaceLedger, RecoveryFacts DEF Settles, RecoverSurface
<1>10. CASE SurfacesRecovered(p) \/ RecoverQuarantine(p) \/ RecoverTrash(p) \/ RefuseTrash(p)
  BY <1>0, <1>10, TrashRecoveryLedger DEF Continues
<1>11. CASE FinalizeStage(p) \/ FinalizePayload(p) \/ FinalizeUnlock(p)
  BY <1>0, <1>11, FinalizeLedger DEF Settles
<1>12. ~BeginRecovery(p)
  BY DEF Working, BeginRecovery
<1> QED BY <1>1, <1>2, <1>3, <1>4, <1>5, <1>6, <1>7, <1>8, <1>9, <1>10, <1>11, <1>12
        DEF OperationStep, RecoveryStep
(* A process that works goes on with its operation or lets go of it.       *)
LEMMA WorkersStay ==
  ASSUME Typed, NEW p \in Procs, Working(p), OperationStep(p) \/ Crash(p)
  PROVE  job'[p].op \in {job[p].op, 0}
<1> USE JobFunction, StopLeaves DEF NoJob
<1>1. CASE AcquireStep(p)
  <2>1. ~((\E kind \in Kinds : ScanRoot(p, kind)) \/ CreateLock(p) \/ LockIsTaken(p))
    BY DEF Working, ScanRoot, CreateLock, LockIsTaken, ReadyToLock
  <2> QED BY <1>1, <2>1 DEF AcquireStep, WriteLock, CreateJournal
<1>2. CASE ReleaseStep(p)
  <2>1. ASSUME NEW stage, NEW next, ReleaseAs(p, stage, next) PROVE job'[p].op = job[p].op
    BY <2>1 DEF ReleaseAs, Jobs
  <2>2. ASSUME NEW todo, job' = [job EXCEPT ![p].todo = todo] PROVE job'[p].op = job[p].op
    BY <2>2 DEF Jobs
  <2>3. ReleaseFails(p) => job'[p].op \in {job[p].op, 0}
    BY <2>1, <2>2 DEF ReleaseFails
  <2> QED BY <1>2, <2>3 DEF ReleaseStep, ReleaseStage, ReleaseCheck, ReleasePayload, ReleaseUnlock
<1>3. CASE Crash(p) \/ FinalizeUnlock(p)
  BY <1>3 DEF Crash, FinalizeUnlock
<1>4. ~(\/ CheckIndexes(p) \/ ReadForRestore(p) \/ ReadForPurge(p) \/ EntryNotFound(p) \/ BeginRecovery(p))
  BY DEF Working, CheckIndexes, ReadForRestore, ReadForPurge, EntryNotFound, BeginRecovery
<1>5. CASE ~(AcquireStep(p) \/ ReleaseStep(p) \/ Crash(p) \/ FinalizeUnlock(p))
  <2>1. Stays(p)
    BY <1>4, <1>5, DeleteStays, UndoStays, TrashStays, CleanupStays, EntryStays, RestoreStays,
       PurgeStays, RecoveryStays DEF OperationStep, EntryStep
  <2> QED BY <2>1 DEF Stays, GoesOn
<1> QED BY <1>1, <1>2, <1>3, <1>5

(* One that does not begins a recovery, or changes nothing anyone can see. *)
LEMMA IdlersWait ==
  ASSUME Typed, NEW p \in Procs, ~Working(p), OperationStep(p) \/ Crash(p),
         ~BeginRecovery(p)
  PROVE  /\ UNCHANGED <<live, journal>>
         /\ pc'[p] \in {"idle", "scanned", "checked", "lock-created"}
<1> USE JobFunction, StopLeaves DEF Working, Goto
<1>1. CASE AcquireStep(p) \/ ReleaseStep(p) \/ Crash(p)
  BY <1>1 DEF AcquireStep, ScanRoot, CreateLock, LockIsTaken, WriteLock, CreateJournal, data, disk,
              ReleaseStep, ReleaseStage, ReleaseCheck, ReleasePayload, ReleaseUnlock, Crash
<1>2. CASE DeleteStep(p) \/ UndoStep(p)
  BY <1>2, DeleteStays, UndoStays DEF Holding
<1>3. CASE TrashStep(p)
  BY <1>3, TrashStays DEF Holding
<1>4. CASE CleanupStep(p)
  BY <1>4, CleanupStays DEF Holding, CheckIndexes, data, disk
<1>5. CASE EntryStep(p)
  BY <1>5 DEF EntryStep, ReadForRestore, ReadForPurge, EntryNotFound, PrepareEntry, CheckEntry,
              CommitEntry, data, disk
<1>6. CASE RestoreStep(p)
  BY <1>6, RestoreStays DEF Holding
<1>7. CASE PurgeStep(p)
  BY <1>7, PurgeStays DEF Holding
<1>8. CASE RecoveryStep(p)
  BY <1>8, RecoveryStays DEF Holding, FinalizeUnlock
<1> QED BY <1>1, <1>2, <1>3, <1>4, <1>5, <1>6, <1>7, <1>8 DEF OperationStep

LEMMA LedgerBegins == Init => LedgerInv
<1> SUFFICES ASSUME Init PROVE LedgerInv
  OBVIOUS
<1>1. ASSUME NEW o \in OpIds PROVE TakeRecord(o) /\ AddRecord(o)
  BY DEF Init, TakeRecord, AddRecord, NoPayload
<1>2. \A p \in Procs : job[p].op \notin OpIds
  BY DEF Init, NoJob, OpIds
<1> QED BY <1>1, <1>2 DEF LedgerInv

(* One step keeps LedgerInv.                                               *)
LEMMA StepLedger ==
  ASSUME WritesAreClean, ReleaseSucceeds, QuietCodex, Sound, Paid',
         NEW p \in Procs, OperationStep(p) \/ Crash(p)
  PROVE  LedgerInv'
<1>0. Typed /\ Ownership /\ Consistent /\ Paid /\ OthersStay(p) /\ LedgerInv
  BY OthersAreLeft DEF Sound, Consistent, RollbackInv, Paid
<1>1. ASSUME NEW q \in Procs, ~Working(q), pc'[q] = pc[q], NEW o \in OpIds PROVE LedgerAt(q, o)'
  BY <1>1, ElsewhereLedger DEF Working
<1>2. CASE Working(p)
  <2> PICK o \in OpIds : o = job[p].op /\ lock.op = o
    BY <1>0, <1>2, WorkerKnows DEF Knows
  <2>1. Carries(p, o) /\ lock.op = o /\ \A q \in Procs \ {p} : ~Working(q)
    BY <1>0, <1>2, WorkLedger, WorkerKnows DEF Knows
  <2>2. lock'.op \in {o, 0}
    <3>1. ~CreateLock(p)
      BY <1>2 DEF CreateLock, ReadyToLock, Working
    <3>2. ReleaseUnlock(p) \/ FinalizeUnlock(p) => lock' \in {lock, NoLock}
      BY DEF ReleaseUnlock, FinalizeUnlock
    <3> QED BY <1>0, <3>1, <3>2, LockChanges DEF NoLock
  <2>3. ASSUME NEW x \in OpIds PROVE Recorded(x)'
    <3>1. CASE x = o
      BY <2>1, <3>1 DEF Carries
    <3>2. CASE x # o
      <4>1. payload'[x].kind = "none"
        BY <1>0, <2>2, <3>2 DEF Paid, PaidOff, OpIds
      <4> QED BY <4>1 DEF Recorded, TakeRecord, AddRecord
    <3> QED BY <3>1, <3>2
  <2>4. ASSUME NEW q \in Procs, NEW x \in OpIds, job'[q].op = x PROVE LedgerAt(q, x)'
    <3>1. CASE q = p
      <4>1. x = o
        BY <1>0, <1>2, <2>4, <3>1, WorkersStay DEF OpIds
      <4> QED BY <2>1, <2>4, <3>1, <4>1 DEF Carries
    <3>2. CASE q # p
      BY <1>0, <1>1, <2>1, <3>2 DEF OthersStay
    <3> QED BY <3>1, <3>2
  <2> QED BY <2>3, <2>4 DEF LedgerInv, Recorded
<1>3. CASE ~Working(p)
  <2>0. UNCHANGED <<live, journal, payload, entry>>
    BY <1>0, <1>3, IdlersWait, IdleKeepEntries DEF BeginRecovery, data, disk, bin
  <2>1. ASSUME NEW x \in OpIds PROVE Recorded(x)'
    BY <1>0, <2>0, RecordsStay DEF LedgerInv, Recorded
  <2>2. ASSUME NEW q \in Procs, NEW x \in OpIds, job'[q].op = x PROVE LedgerAt(q, x)'
    <3>1. CASE q = p /\ BeginRecovery(p)
      BY <2>2, <3>1, RecoveryBeginsLedger
    <3>2. CASE q = p /\ ~BeginRecovery(p)
      BY <1>0, <1>3, <3>2, IdlersWait, ElsewhereLedger
    <3>3. CASE q # p
      <4>1. pc'[q] = pc[q] /\ job'[q] = job[q]
        BY <1>0, <3>3 DEF OthersStay
      <4> QED BY <1>0, <2>0, <2>2, <4>1, LedgerKept DEF LedgerInv
    <3> QED BY <3>1, <3>2, <3>3
  <2> QED BY <2>1, <2>2 DEF LedgerInv, Recorded
<1> QED BY <1>2, <1>3

LEMMA NextLedger ==
  ASSUME WritesAreClean, ReleaseSucceeds, QuietCodex
  PROVE  Sound /\ Paid' /\ [Next]_vars => LedgerInv'
<1>1. ~CodexStep
  BY DEF QuietCodex, CodexStep, CodexAdds, CodexChangesOthers
<1>2. ASSUME Sound, UNCHANGED vars PROVE LedgerInv'
  <2>1. UNCHANGED <<live, journal, payload, entry, pc, job>>
    BY <1>2 DEF vars, data, disk, bin
  <2>2. ASSUME NEW q \in Procs, NEW x \in OpIds, job'[q].op = x PROVE LedgerAt(q, x)'
    BY <1>2, <2>1, <2>2, LedgerKept DEF Sound, LedgerInv
  <2>3. ASSUME NEW x \in OpIds PROVE Recorded(x)'
    BY <1>2, <2>1 DEF Sound, LedgerInv, Recorded, TakeRecord, AddRecord
  <2> QED BY <2>2, <2>3 DEF LedgerInv, Recorded
<1> QED BY <1>1, <1>2, StepLedger DEF Next

(* Where a restore stands among its writes only its own steps lead.        *)
LEMMA ReadBy ==
  ASSUME ReleaseSucceeds, Typed, Ownership, NEW p \in Procs, OperationStep(p) \/ Crash(p),
         ~RestoreStep(p), ~CommitEntry(p)
  PROVE  pc'[p] \notin ReadAt
<1> USE Ways, JobFunction DEF ReadAt, RestoreAt
<1>1. CASE AcquireStep(p) \/ Crash(p)
  BY <1>1 DEF AcquireStep, ScanRoot, CreateLock, LockIsTaken, WriteLock, CreateJournal, Crash
<1>2. CASE DeleteStep(p)
  <2>1. CASE EnterPrepared(p) \/ CheckSelection(p) \/ Capture(p) \/ WritePayload(p) \/ Recheck(p)
    BY <2>1 DEF EnterPrepared, CheckSelection, Capture, WritePayload, Recheck
  <2>2. CASE EnterCommitting(p) \/ StartSurface(p) \/ MarkSurface(p) \/ EnterVerifying(p)
    BY <2>2 DEF EnterCommitting, StartSurface, MarkSurface, EnterVerifying
  <2>3. CASE RemoveFromIndex(p) \/ RemoveFromGlobalState(p) \/ UndoGlobalState(p)
    BY <2>3 DEF RemoveFromIndex, RemoveFromGlobalState, UndoGlobalState
  <2>4. CASE RemoveFile(p) \/ RemoveRows(p) \/ RemoveLogs(p)
    BY <2>4 DEF RemoveFile, RemoveRows, RemoveLogs
  <2> QED BY <1>2, <2>1, <2>2, <2>3, <2>4 DEF DeleteStep
<1>3. CASE UndoStep(p)
  BY <1>3 DEF UndoStep, UndoSurface, UndoEnds
<1>4. CASE TrashStep(p)
  BY <1>4 DEF TrashStep, WriteTrashPayload, MakeTmp, BuildBundle, CommitTrashEntry, MarkTrashEntry,
              DropTrash, TearEntry
<1>5. CASE CleanupStep(p)
  BY <1>5 DEF CleanupStep, CheckIndexes, WriteCleanupPayload, RecheckCleanup, CommitCleanup,
              StartIndex, VerifyCleanup
<1>6. CASE EntryStep(p)
  BY <1>6 DEF EntryStep, ReadForRestore, ReadForPurge, EntryNotFound, PrepareEntry, CheckEntry
<1>7. CASE PurgeStep(p)
  <2>1. CASE CheckpointPurge(p)
    BY <2>1 DEF CheckpointPurge
  <2>2. CASE ~CheckpointPurge(p)
    BY <1>7, <2>2 DEF PurgeStep, WritePurgePayload, RecheckPurge, PurgeLogs,
                QuarantineEntry, RemoveQuarantine, VerifyPurge
  <2> QED BY <2>1, <2>2
<1>8. CASE ReleaseStep(p)
  <2> USE ReleaseIsQuiet DEF Throws
  <2>1. CASE ReleaseStage(p)
    BY <2>1 DEF ReleaseStage
  <2>2. CASE ReleaseCheck(p)
    <3>1. Working(p) /\ pc[p] # "lock-created"
      BY <2>2 DEF ReleaseCheck, Working
    <3>2. OwnsLockFile(p)
      BY <3>1, OneWorker DEF OwnsLockFile
    <3> QED BY <2>2, <3>2 DEF ReleaseCheck
  <2>3. CASE ReleasePayload(p) \/ ReleaseUnlock(p)
    BY <2>3 DEF ReleasePayload, ReleaseUnlock
  <2> QED BY <1>8, <2>1, <2>2, <2>3 DEF ReleaseStep
<1>9. CASE RecoveryStep(p)
  BY <1>9 DEF RecoveryStep, BeginRecovery, RecoverSurface, SurfacesRecovered, RecoverQuarantine,
              RecoverTrash, RefuseTrash, FinalizeStage, FinalizePayload, FinalizeUnlock
<1> QED BY <1>1, <1>2, <1>3, <1>4, <1>5, <1>6, <1>7, <1>8, <1>9 DEF OperationStep

(* What it has read back stays what it wrote while it writes on, and what  *)
(* a rollback still has to undo is part of that.                           *)
SameWrites(p) ==
  job'[p].snap = job[p].snap /\ job'[p].bundle = job[p].bundle /\ job'[p].post = job[p].post
LEMMA ReadGoesOn ==
  ASSUME NEW p \in Procs, ReadBackFits(p), SameWrites(p), pc[p] \in ReadAt, pc'[p] # "restore-reread",
         pc[p] = "unrestore" => pc'[p] = "unrestore" /\ job'[p].todo \subseteq job[p].todo,
         pc[p] # "unrestore" => job'[p].done = job[p].done,
         pc[p] # "unrestore" /\ pc'[p] = "unrestore" => job'[p].todo = job[p].done
  PROVE  ReadBackFits(p)'
<1>1. \A s : Restored(p, s)' = Restored(p, s)
  BY DEF Restored, SameWrites
<1> QED BY <1>1 DEF ReadBackFits, SameWrites, ReadAt, RestoreAt

LEMMA ReadWorks ==
  ASSUME WritesAreClean, ReleaseSucceeds, Sound, NEW p \in Procs, NEW o, Knows(p, o), RestoreStep(p)
  PROVE  ReadBackFits(p)'
<1> USE JobFunction DEF Knows
<1>0. ASSUME NEW stuck, RestoreFails(p, stuck)
      PROVE  /\ SameWrites(p) /\ pc'[p] = "unrestore" /\ job'[p].done = job[p].done
             /\ job'[p].todo = job[p].done
  BY <1>0 DEF RestoreFails, Goto, Jobs, SameWrites
<1>1. ASSUME pc'[p] \notin ReadAt PROVE ReadBackFits(p)'
  BY <1>1 DEF ReadBackFits, ReadAt, RestoreAt
<1>2. CASE CheckConflicts(p) \/ CaptureRestore(p) \/ WriteRestorePayload(p)
  <2>1. pc'[p] \notin ReadAt
    BY <1>2, Ways DEF CheckConflicts, CaptureRestore, WriteRestorePayload, ReadAt, RestoreAt
  <2> QED BY <1>1, <2>1
<1>3. CASE UndoRestoreEnds(p) \/ MarkRows(p) \/ VerifyRestore(p)
  <2>1. pc'[p] \notin ReadAt
    BY <1>3, Ways DEF UndoRestoreEnds, MarkRows, VerifyRestore, ReadAt, RestoreAt
  <2> QED BY <1>1, <2>1
<1>4. CASE StartRestore(p)
  <2> PICK s \in First(job[p].todo, RestoreRank), r \in Outcome("journal") :
        LET marks == job[p].marks \cup {<<x, "started">> : x \in IF s \in Rows THEN Rows ELSE {s}} IN
        /\ job' = [job EXCEPT ![p] =
                  [job[p] EXCEPT !.marks = marks,
                                 !.cur  = IF Throws(r) THEN {} ELSE {s},
                                 !.todo = IF Throws(r) THEN job[p].done ELSE job[p].todo]]
        /\ Goto(p, IF Throws(r) THEN "unrestore" ELSE "put-back")
    BY <1>4 DEF StartRestore
  <2> DEFINE marks == job[p].marks \cup {<<x, "started">> : x \in IF s \in Rows THEN Rows ELSE {s}}
             c == IF Throws(r) THEN {} ELSE {s}
             l == IF Throws(r) THEN job[p].done ELSE job[p].todo
             j == [job[p] EXCEPT !.marks = marks, !.cur = c, !.todo = l]
  <2>1. /\ j.snap = job[p].snap /\ j.bundle = job[p].bundle /\ j.post = job[p].post
        /\ j.done = job[p].done /\ j.todo = l
    BY DEF Jobs
  <2>2. job'[p] = j
    OBVIOUS
  <2> HIDE DEF j
  <2>3. pc[p] = "restore" /\ (pc'[p] = "put-back" \/ (pc'[p] = "unrestore" /\ l = job[p].done))
    BY <1>4 DEF StartRestore, Goto
  <2> QED BY <2>1, <2>2, <2>3, ReadGoesOn DEF ReadAt, RestoreAt, SameWrites
<1>5. CASE MarkRestored(p)
  <2> PICK marks, l :
        /\ job' = [job EXCEPT ![p] = [job[p] EXCEPT !.marks = marks, !.cur = {}, !.todo = l]]
        /\ (Goto(p, "unrestore") /\ l = job[p].done) \/ Goto(p, "restore")
    BY <1>5 DEF MarkRestored
  <2> DEFINE j == [job[p] EXCEPT !.marks = marks, !.cur = {}, !.todo = l]
  <2>1. /\ j.snap = job[p].snap /\ j.bundle = job[p].bundle /\ j.post = job[p].post
        /\ j.done = job[p].done /\ j.todo = l
    BY DEF Jobs
  <2>2. job'[p] = j
    OBVIOUS
  <2> HIDE DEF j
  <2>3. pc[p] = "restore-mark" /\ (pc'[p] = "restore" \/ (pc'[p] = "unrestore" /\ l = job[p].done))
    BY <1>5 DEF MarkRestored, Goto
  <2> QED BY <2>1, <2>2, <2>3, ReadGoesOn DEF ReadAt, RestoreAt, SameWrites
<1>6. CASE RestoreText(p)
  <2> PICK s \in job[p].cur \ Rows : TextWays(p, s)
    BY <1>6, TextDoes
  <2>1. pc[p] = "put-back"
    BY <1>6 DEF RestoreText
  <2>2. CASE RestoreFails(p, {})
    BY <1>0, <2>1, <2>2, ReadGoesOn DEF ReadAt, RestoreAt
  <2>3. CASE Goto(p, "restore-mark") /\ job' = job
    <3>1. SameWrites(p) /\ pc'[p] = "restore-mark" /\ job'[p].done = job[p].done
      BY <2>3 DEF Goto, SameWrites
    <3> QED BY <2>1, <3>1, ReadGoesOn DEF ReadAt, RestoreAt
  <2>4. CASE live' = [live EXCEPT ![s] = Restored(p, s)] /\ Goto(p, "restore-reread") /\ job' = job
    <3>1. job[p].cur = {s} /\ s \in Surfaces
      BY <2>1, RestoreFacts, ListsApart
         DEF SetsFit, RestoreAt, RestoringAt, Rows, Texts, Databases, Surfaces
    <3>2. live'[s] = Restored(p, s) /\ pc'[p] = "restore-reread"
      BY <2>4, <3>1 DEF Typed, DataTyped, Images, Goto
    <3>3. \A t : Restored(p, t)' = Restored(p, t)
      BY <2>4 DEF Restored
    <3> QED BY <2>1, <2>4, <3>1, <3>2, <3>3 DEF ReadBackFits, ReadAt, RestoreAt
  <2> QED BY <2>2, <2>3, <2>4 DEF TextWays
<1>7. CASE RereadWritten(p)
  <2>1. /\ pc[p] = "restore-reread" /\ live' = live /\ job'[p].snap = job[p].snap
        /\ job'[p].bundle = job[p].bundle
    BY <1>7, Rereads DEF data
  <2> PICK s \in job[p].cur :
         \/ /\ pc'[p] = "restore-mark" /\ job'[p].done = job[p].done \cup {s}
            /\ job'[p].post = [job[p].post EXCEPT ![s] = live[s]]
         \/ /\ pc'[p] = "unrestore" /\ job'[p].done = job[p].done
            /\ job'[p].todo = job[p].done /\ job'[p].post = job[p].post
    BY <1>7, Rereads
  <2>2. CASE pc'[p] = "unrestore"
    BY <2>1, <2>2, ReadGoesOn DEF ReadAt, RestoreAt, SameWrites
  <2>3. CASE pc'[p] = "restore-mark"
    <3>1. s \in Surfaces /\ job[p].post \in Images
      BY DEF Jobs
    <3>2. \A t \in job'[p].done : job'[p].post[t] = Restored(p, t)
      BY <2>1, <2>3, <3>1 DEF ReadBackFits, ReadAt, RestoreAt, Images, Jobs
    <3>3. \A t : Restored(p, t)' = Restored(p, t)
      BY <2>1 DEF Restored
    <3> QED BY <2>3, <3>2, <3>3 DEF ReadBackFits
  <2> QED BY <2>2, <2>3
<1>8. CASE RestoreRows(p)
  <2>1. /\ pc[p] = "put-back"
        /\ \/ RestoreFails(p, {})
           \/ Goto(p, "unrestore-goals") /\ job' = job
           \/ pc' = pc /\ job' = [job EXCEPT ![p].cur = {"sqlite-state"}]
           \/ Goto(p, "restored")
    BY <1>8 DEF RestoreRows
  <2>2. CASE RestoreFails(p, {})
    BY <1>0, <2>1, <2>2, ReadGoesOn DEF ReadAt, RestoreAt
  <2>3. CASE Goto(p, "unrestore-goals") /\ job' = job
    <3>1. SameWrites(p) /\ pc'[p] = "unrestore-goals" /\ job'[p].done = job[p].done
      BY <2>3 DEF Goto, SameWrites
    <3> QED BY <2>1, <3>1, ReadGoesOn DEF ReadAt, RestoreAt
  <2>4. CASE pc' = pc /\ job' = [job EXCEPT ![p].cur = {"sqlite-state"}]
    <3>1. SameWrites(p) /\ job'[p].done = job[p].done
      BY <2>4 DEF Jobs, SameWrites
    <3> QED BY <2>1, <2>4, <3>1, ReadGoesOn DEF ReadAt, RestoreAt
  <2>5. CASE Goto(p, "restored")
    BY <1>1, <2>5 DEF Goto, ReadAt, RestoreAt
  <2> QED BY <2>1, <2>2, <2>3, <2>4, <2>5
<1>9. CASE RemoveGoals(p)
  <2>1. pc[p] = "unrestore-goals" /\ \E stuck : RestoreFails(p, stuck)
    BY <1>9 DEF RemoveGoals
  <2> QED BY <1>0, <2>1, ReadGoesOn DEF ReadAt, RestoreAt
<1>10. CASE UndoRestore(p)
  <2> PICK s, c : job' = [job EXCEPT ![p] = [job[p] EXCEPT !.todo = job[p].todo \ {s}, !.cur = c]]
    BY <1>10 DEF UndoRestore
  <2> DEFINE j == [job[p] EXCEPT !.todo = job[p].todo \ {s}, !.cur = c]
  <2>1. /\ j.snap = job[p].snap /\ j.bundle = job[p].bundle /\ j.post = job[p].post
        /\ j.todo = job[p].todo \ {s}
    BY DEF Jobs
  <2>2. job'[p] = j
    OBVIOUS
  <2> HIDE DEF j
  <2>3. pc[p] = "unrestore" /\ pc'[p] = "unrestore"
    BY <1>10 DEF UndoRestore
  <2> QED BY <2>1, <2>2, <2>3, ReadGoesOn DEF ReadAt, SameWrites
<1> QED BY <1>2, <1>3, <1>4, <1>5, <1>6, <1>7, <1>8, <1>9, <1>10 DEF RestoreStep

LEMMA ReadsBegin == Init => ReadInv
BY DEF Init, ReadInv, ReadBackFits, ReadAt, RestoreAt
LEMMA StepRead ==
  ASSUME WritesAreClean, ReleaseSucceeds, Sound, NEW p \in Procs, OperationStep(p) \/ Crash(p)
  PROVE  ReadInv'
<1>0. Typed /\ Ownership /\ OthersStay(p) /\ \A q \in Procs : ReadBackFits(q)
  BY OthersAreLeft DEF Sound, Consistent, ReadInv
<1>1. ASSUME NEW q \in Procs, pc'[q] \notin ReadAt PROVE ReadBackFits(q)'
  BY <1>1 DEF ReadBackFits, ReadAt, RestoreAt
<1>2. ASSUME NEW q \in Procs, q # p PROVE ReadBackFits(q)'
  <2>1. CASE pc[q] \in ReadAt
    <3>1. Working(q) /\ ~Working(p)
      BY <1>0, <1>2, <2>1, OneWorker DEF Working, ReadAt, RestoreAt
    <3>2. live' = live
      BY <1>0, <3>1, IdlersWait, IdleKeepEntries DEF BeginRecovery, data, disk, bin
    <3>3. pc'[q] = pc[q] /\ job'[q] = job[q]
      BY <1>0, <1>2 DEF OthersStay
    <3> QED BY <1>0, <3>2, <3>3 DEF ReadBackFits, Restored
  <2>2. CASE pc[q] \notin ReadAt
    BY <1>0, <1>1, <1>2, <2>2 DEF OthersStay
  <2> QED BY <2>1, <2>2
<1>3. ReadBackFits(p)'
  <2>1. CASE ~RestoreStep(p) /\ ~CommitEntry(p)
    BY <1>0, <1>1, <2>1, ReadBy
  <2>2. CASE RestoreStep(p) \/ CommitEntry(p)
    <3>1. Working(p)
      BY <2>2 DEF RestoreStep, CheckConflicts, CaptureRestore, WriteRestorePayload, StartRestore,
             RestoreText, RereadWritten, MarkRestored, RestoreRows, RemoveGoals, UndoRestore,
             UndoRestoreEnds, MarkRows, VerifyRestore, CommitEntry, Working
    <3>2. Knows(p, job[p].op)
      BY <3>1, WorkerKnows
    <3>3. CASE RestoreStep(p)
      BY <3>2, <3>3, ReadWorks
    <3>4. CASE CommitEntry(p) /\ pc'[p] \in ReadAt
      <4>1. pc[p] = "restore-commit" /\ pc'[p] = "restore" /\ job' = job
        BY <1>0, <3>4, Ways, JobFunction DEF CommitEntry, ReadAt, RestoreAt
      <4>2. job[p].done = {}
        BY <3>2, <4>1, RestoreFacts DEF RestoringAt, AddFits, FoundFits
      <4> QED BY <4>1, <4>2 DEF ReadBackFits
    <3> QED BY <1>1, <2>2, <3>3, <3>4
  <2> QED BY <2>1, <2>2
<1> QED BY <1>2, <1>3 DEF ReadInv
LEMMA NextRead ==
  ASSUME WritesAreClean, ReleaseSucceeds, QuietCodex
  PROVE  Sound /\ [Next]_vars => ReadInv'
<1>1. ~CodexStep
  BY DEF QuietCodex, CodexStep, CodexAdds, CodexChangesOthers
<1>2. Sound /\ UNCHANGED vars => ReadInv'
  BY DEF Sound, ReadInv, ReadBackFits, Restored, vars, data
<1> QED BY <1>1, <1>2, StepRead DEF Next

(* Everything the proofs of this module know is kept by every step.        *)
LEMMA SoundAlways ==
  ASSUME ReleaseSucceeds, SupervisedRecovery, QuietCodex, WritesAreClean, RenamesAreClean
  PROVE  /\ Init => Sound
         /\ Sound /\ [Next]_vars => Sound'
<1>0. QuietReferences /\ QuietScan
  BY DEF QuietCodex, QuietReferences, QuietScan
<1>1. Init => Sound
  BY ConsistentAlways, FromBegins, BinBegins, LogsBegin, DurableBegins, OldBegins, AheadBegins,
     RollbackBegins, NamesBegin, LedgerBegins, ReadsBegin DEF Sound
<1>2. ASSUME Sound, [Next]_vars PROVE Sound'
  <2>1. Consistent'
    BY <1>2, ConsistentAlways DEF Sound
  <2>2. FromInv' /\ BinInv' /\ LogsInv' /\ DurableInv'
    BY <1>0, <1>2, NextFrom, NextBin, NextLogs, NextDurable DEF Sound
  <2>3. OldInv'
    BY <1>2, NextOld DEF Sound, Consistent
  <2>4. AheadInv'
    BY <1>0, <1>2, <2>1, NextAhead DEF Sound, Consistent
  <2>5. RollbackInv'
    BY <1>2, NextRollback DEF Sound
  <2>6. NameInv'
    BY <1>2, <2>1, <2>2, NextNames DEF Sound
  <2>7. Paid'
    BY <2>5 DEF RollbackInv, Paid
  <2>8. LedgerInv'
    BY <1>2, <2>7, NextLedger
  <2>9. ReadInv'
    BY <1>2, NextRead
  <2> QED BY <2>1, <2>2, <2>3, <2>4, <2>5, <2>6, <2>8, <2>9 DEF Sound
<1> QED BY <1>1, <1>2

-----------------------------------------------------------------------------
(* Cleanups.  The records of an index once the error handler has put back  *)
(* what is still in T; both indexes have some, or neither does.            *)
Cleanup(o)    == payload[o].kind = "cleanup-index" /\ journal[o].stage \notin Final
Back(p, T, s) == IF s \in T THEN job[p].snap[s].own ELSE live[s].own
InStep(p, T)  == Back(p, T, "session-index") = {} <=> Back(p, T, "history") = {}
Cleared(T)    == \A s \in Indexes : Gone(s) \/ s \in T
CommitsAt     == {"commit", "remove", "mark"}
CleanFits(p) ==
  Cleans(p) =>
    /\ pc[p] # "undo-global-state"
    /\ pc[p] \in CleanupAt => job[p].done = {} /\ InStep(p, {})
    /\ pc[p] \in CommitsAt => job[p].done \subseteq Indexes /\ InStep(p, job[p].done)
    /\ pc[p] \in {"commit", "remove"} => Cleared(job[p].todo)
    /\ pc[p] = "mark" => Cleared(job[p].todo \ job[p].cur)
    /\ pc[p] = "remove" => \E s \in Indexes : job[p].cur = {s}
    /\ pc[p] = "undo" => job[p].todo \subseteq Indexes /\ InStep(p, job[p].todo)
    /\ Commits(p) => Cleared({})
    /\ Returns(p) => InStep(p, {})
    /\ pc[p] = "rec" => job[p].todo \subseteq Indexes /\ Cleared(job[p].todo)
    /\ pc[p] = "fin-stage" /\ Cleanup(job[p].op) => Cleared({})
CleanRecord(o) == payload[o].kind = "cleanup-index" => payload[o].covers = Indexes
CleanInv == (\A p \in Procs : CleanFits(p)) /\ (\A o \in OpIds : CleanRecord(o))

LEMMA IndexNames ==
  /\ Indexes \subseteq Surfaces /\ Indexes \subseteq Lists /\ Indexes \cap Databases = {}
  /\ "session-index" \in Indexes /\ "history" \in Indexes
  /\ "session-index" \in Surfaces /\ "history" \in Surfaces
BY DEF Indexes, Lists, Databases, Surfaces

CleanAt == CleanupAt \cup CommitsAt \cup {"undo-global-state", "undo", "rel-stage", "rec", "fin-stage"}
LEMMA CleanElsewhere ==
  ASSUME NEW p \in Procs, pc'[p] \notin CleanAt \/ job'[p].kind # "cleanup-index"
  PROVE  CleanFits(p)'
<1>1. CASE job'[p].kind # "cleanup-index"
  BY <1>1 DEF CleanFits, Cleans
<1>2. CASE pc'[p] \notin CleanAt
  BY <1>2 DEF CleanFits, CleanAt, CommitsAt, Commits, Returns
<1> QED BY <1>1, <1>2

(* An error: the handler starts to undo what is flagged as done.           *)
LEMMA CleanUndoes ==
  ASSUME Typed, NEW p \in Procs, live' = live, pc'[p] = "undo", job'[p].snap = job[p].snap,
         job'[p].todo = job[p].done, job[p].done \subseteq Indexes, InStep(p, job[p].done)
  PROVE  CleanFits(p)'
BY DEF CleanFits, CleanupAt, CommitsAt, InStep, Back, Commits, Returns
LEMMA CleanFails ==
  ASSUME Typed, NEW p \in Procs, live' = live, CommitFails(p), job[p].done \subseteq Indexes,
         InStep(p, job[p].done)
  PROVE  CleanFits(p)'
<1> USE JobFunction
<1>1. pc'[p] = "undo" /\ job'[p].snap = job[p].snap /\ job'[p].todo = job[p].done
  BY DEF CommitFails, Goto, Jobs
<1> QED BY <1>1, CleanUndoes
LEMMA CleanReleases ==
  ASSUME Typed, NEW p \in Procs, NEW stage, NEW next, ReleaseAs(p, stage, next),
         stage = "committed" => Cleared({})', stage = "rolled_back" => InStep(p, {})'
  PROVE  CleanFits(p)'
<1> USE JobFunction
<1>1. pc'[p] = "rel-stage" /\ job'[p].rel.stage = stage
  BY DEF ReleaseAs, Goto, Jobs
<1> QED BY <1>1 DEF CleanFits, CleanupAt, CommitsAt, Commits, Returns

(* The payload, and the checks before the first write.                     *)
LEMMA CleanBegins ==
  ASSUME Typed, NEW p \in Procs, KindFits(p), CleanFits(p),
         pc[p] = "acquired" => job[p].done = {} /\ InStep(p, {}),
         WriteCleanupPayload(p) \/ RecheckCleanup(p) \/ CommitCleanup(p)
  PROVE  CleanFits(p)'
<1> USE JobFunction
<1>1. live' = live /\ Cleans(p)
  BY DEF WriteCleanupPayload, RecheckCleanup, CommitCleanup, data, KindFits, CleanupAt, Cleans
<1>2. job[p].done = {} /\ InStep(p, {})
  BY <1>1 DEF WriteCleanupPayload, RecheckCleanup, CommitCleanup, CleanFits, CleanupAt
<1>3. CASE CommitFails(p)
  BY <1>1, <1>2, <1>3, CleanFails
<1>4. CASE pc'[p] \in CleanupAt /\ job'[p].done = {}
  <2>1. InStep(p, {})'
    BY <1>1, <1>2 DEF InStep, Back
  <2> QED BY <1>4, <2>1 DEF CleanFits, CommitsAt, Commits, Returns, CleanupAt
<1>5. CASE pc'[p] = "commit" /\ job'[p].done = {} /\ job'[p].todo = Indexes
  <2>1. InStep(p, {})' /\ Cleared(Indexes)'
    BY <1>1, <1>2 DEF InStep, Back, Cleared
  <2> QED BY <1>5, <2>1 DEF CleanFits, CommitsAt, Commits, Returns, CleanupAt
<1>6. CASE WriteCleanupPayload(p)
  BY <1>2, <1>3, <1>4, <1>6 DEF WriteCleanupPayload, Goto, Jobs, CleanupAt
<1>7. CASE RecheckCleanup(p)
  BY <1>2, <1>3, <1>4, <1>7 DEF RecheckCleanup, Goto, CleanupAt
<1>8. CASE CommitCleanup(p)
  BY <1>2, <1>3, <1>5, <1>8 DEF CommitCleanup, Goto, Jobs
<1> QED BY <1>6, <1>7, <1>8

(* The steps between two writes, and the writes.                           *)
LEMMA CleanStarts ==
  ASSUME Typed, NEW p \in Procs, CleanFits(p), Cleans(p), PlanFits(p), StartIndex(p)
  PROVE  CleanFits(p)'
<1> USE JobFunction
<1>1. live' = live /\ pc[p] = "commit" /\ Cleans(p)
  BY DEF StartIndex, data
<1>2. /\ job[p].done \subseteq Indexes /\ InStep(p, job[p].done) /\ Cleared(job[p].todo)
      /\ job[p].todo \subseteq Indexes
  BY <1>1 DEF CleanFits, CommitsAt, PlanFits, CommittingAt, Planned
<1>3. PICK s, m, r :
        /\ s \in First(job[p].todo, CommitRank)
        /\ job' = [job EXCEPT ![p] = [job[p] EXCEPT !.marks = m, !.cur = IF Throws(r) THEN {} ELSE {s},
                                          !.todo = IF Throws(r) THEN job[p].done ELSE job[p].todo]]
        /\ Goto(p, IF Throws(r) THEN "undo" ELSE "remove")
  BY DEF StartIndex
<1>4. /\ job'[p].snap = job[p].snap /\ job'[p].done = job[p].done
      /\ job'[p].todo = (IF Throws(r) THEN job[p].done ELSE job[p].todo)
      /\ job'[p].cur = (IF Throws(r) THEN {} ELSE {s})
      /\ pc'[p] = IF Throws(r) THEN "undo" ELSE "remove"
  BY <1>3 DEF Jobs, Goto
<1>5. CASE Throws(r)
  BY <1>1, <1>2, <1>4, <1>5, CleanUndoes
<1>6. CASE ~Throws(r)
  <2>1. InStep(p, job[p].done)' /\ Cleared(job[p].todo)' /\ s \in Indexes
    BY <1>1, <1>2, <1>3, <1>4, <1>6 DEF InStep, Back, Cleared, Gone, First
  <2> QED BY <1>2, <1>4, <1>6, <2>1 DEF CleanFits, CommitsAt, Commits, Returns, CleanupAt
<1> QED BY <1>5, <1>6

LEMMA CleanMarks ==
  ASSUME Typed, NEW p \in Procs, CleanFits(p), Cleans(p), MarkSurface(p)
  PROVE  CleanFits(p)'
<1> USE JobFunction
<1>1. live' = live /\ pc[p] = "mark" /\ Cleans(p)
  BY DEF MarkSurface, data
<1>2. /\ job[p].done \subseteq Indexes /\ InStep(p, job[p].done) /\ Cleared(job[p].todo \ job[p].cur)
  BY <1>1 DEF CleanFits, CommitsAt
<1>3. PICK m, r :
        /\ job' = [job EXCEPT ![p] = [job[p] EXCEPT !.marks = m, !.cur = {},
                                          !.todo = IF Throws(r) THEN job[p].done ELSE job[p].todo \ job[p].cur]]
        /\ Goto(p, IF Throws(r) THEN "undo" ELSE "commit")
  BY DEF MarkSurface
<1>4. /\ job'[p].snap = job[p].snap /\ job'[p].done = job[p].done
      /\ job'[p].todo = (IF Throws(r) THEN job[p].done ELSE job[p].todo \ job[p].cur)
      /\ pc'[p] = IF Throws(r) THEN "undo" ELSE "commit"
  BY <1>3 DEF Jobs, Goto
<1>5. CASE Throws(r)
  BY <1>1, <1>2, <1>4, <1>5, CleanUndoes
<1>6. CASE ~Throws(r)
  <2>1. InStep(p, job[p].done)' /\ Cleared(job[p].todo)'
    BY <1>1, <1>2, <1>4, <1>6 DEF InStep, Back, Cleared, Gone
  <2> QED BY <1>2, <1>4, <1>6, <2>1 DEF CleanFits, CommitsAt, Commits, Returns, CleanupAt
<1> QED BY <1>5, <1>6

LEMMA CleanVerifies ==
  ASSUME Typed, NEW p \in Procs, CleanFits(p), VerifyCleanup(p)
  PROVE  CleanFits(p)'
<1> USE JobFunction
<1>1. live' = live /\ pc[p] = "commit" /\ Cleans(p) /\ job[p].todo = {}
  BY DEF VerifyCleanup, data
<1>2. job[p].done \subseteq Indexes /\ InStep(p, job[p].done) /\ Cleared({})
  BY <1>1 DEF CleanFits, CommitsAt
<1>3. CASE CommitFails(p)
  BY <1>1, <1>2, <1>3, CleanFails
<1>4. CASE ReleaseAs(p, "committed", "undo")
  <2>1. Cleared({})'
    BY <1>1, <1>2 DEF Cleared, Gone
  <2> QED BY <1>4, <2>1, CleanReleases
<1> QED BY <1>3, <1>4 DEF VerifyCleanup

(* An index is rewritten while it is as captured: what was there can be    *)
(* put back.                                                               *)
LEMMA CleanRemoves ==
  ASSUME WritesAreClean, Typed, NEW p \in Procs, CleanFits(p), Cleans(p), RemoveFromIndex(p)
  PROVE  CleanFits(p)'
<1> USE JobFunction
<1>0. pc[p] = "remove" /\ live \in [Surfaces -> Value]
  BY DEF RemoveFromIndex, Typed, DataTyped, Images
<1>1. /\ job[p].done \subseteq Indexes /\ InStep(p, job[p].done) /\ Cleared(job[p].todo)
  BY <1>0 DEF CleanFits, CommitsAt
<1>2. PICK s \in Indexes : job[p].cur = {s}
  BY <1>0 DEF CleanFits
<1>3. CASE CommitFails(p) /\ live' = live
  BY <1>1, <1>3, CleanFails
<1>4. CASE /\ StillCaptured(p, s) /\ TakeOut(p, s) /\ Goto(p, "mark")
           /\ job' = [job EXCEPT ![p].done = job[p].done \cup {s}]
  <2> DEFINE v == Removed(s, job[p].snap[s])
  <2>1. v.own = {} /\ s \in Surfaces /\ live[s] = job[p].snap[s]
    BY <1>4, IndexNames DEF Removed, StillCaptured
  <2>2. live' = [live EXCEPT ![s] = v]
    BY <1>4 DEF TakeOut
  <2> HIDE DEF v
  <2>3. live'[s].own = {} /\ \A t \in Surfaces \ {s} : live'[t] = live[t]
    BY <1>0, <2>1, <2>2
  <2>4. /\ pc'[p] = "mark" /\ job'[p].snap = job[p].snap /\ job'[p].done = job[p].done \cup {s}
        /\ job'[p].todo = job[p].todo /\ job'[p].cur = {s}
    BY <1>2, <1>4 DEF Goto, Jobs
  <2>5. Indexes \subseteq Surfaces /\ {"session-index", "history"} \subseteq Surfaces
    BY IndexNames
  <2>6. Cleared(job[p].todo \ job[p].cur)'
    BY <1>1, <2>3, <2>4, <2>5 DEF Cleared, Gone
  <2>7. \A t \in Surfaces : Back(p, job[p].done, t)' = Back(p, job[p].done, t)
    BY <2>1, <2>3, <2>4 DEF Back
  <2>8. InStep(p, job[p].done)'
    BY <1>1, <2>5, <2>7 DEF InStep
  <2> QED BY <1>1, <2>4, <2>6, <2>8 DEF CleanFits, CommitsAt, Commits, Returns, CleanupAt
<1>5. \A r \in Outcome("surface") : Effect(r) <=> ~Throws(r)
  BY DEF WritesAreClean, Outcome, Effect, Throws
<1> QED BY <1>2, <1>3, <1>4, <1>5 DEF RemoveFromIndex

LEMMA CleanUndone ==
  ASSUME Typed, NEW p \in Procs, CleanFits(p), Cleans(p), UndoStep(p)
  PROVE  CleanFits(p)'
<1> USE JobFunction
<1>0. pc[p] = "undo" /\ live \in [Surfaces -> Value]
  BY DEF UndoStep, UndoSurface, UndoEnds, Typed, DataTyped, Images
<1>1. job[p].todo \subseteq Indexes /\ InStep(p, job[p].todo)
  BY <1>0 DEF CleanFits
<1>2. CASE UndoEnds(p)
  <2>1. live' = live /\ job[p].todo = {} /\ ReleaseAs(p, "rolled_back", "require")
    BY <1>2 DEF UndoEnds, data, Cleans
  <2>2. InStep(p, {})'
    BY <1>1, <2>1 DEF InStep, Back
  <2> QED BY <2>1, <2>2, CleanReleases
<1>3. CASE UndoSurface(p)
  <2>1. CASE ReleaseAs(p, "recovery_required", "ignore")
    BY <2>1, CleanReleases
  <2>2. ASSUME NEW s \in First(job[p].todo, UndoRank), PutBack(s, job[p].snap[s]), pc' = pc,
               job' = [job EXCEPT ![p].todo = job[p].todo \ {s}]
        PROVE  CleanFits(p)'
    <3>1. s \in job[p].todo /\ s \in Indexes /\ s \in Surfaces /\ s \notin Databases
      BY <1>1, <2>2, IndexNames DEF First
    <3>2. live' = [live EXCEPT ![s] = job[p].snap[s]]
      BY <2>2, <3>1 DEF PutBack, WithMissing
    <3>3. live'[s] = job[p].snap[s] /\ \A t \in Surfaces \ {s} : live'[t] = live[t]
      BY <1>0, <3>1, <3>2
    <3>4. pc'[p] = "undo" /\ job'[p].snap = job[p].snap /\ job'[p].todo = job[p].todo \ {s}
      BY <1>0, <2>2 DEF Jobs
    <3>5. \A t \in Surfaces : Back(p, job[p].todo, t)' = Back(p, job[p].todo, t)
      BY <3>1, <3>3, <3>4 DEF Back
    <3>6. InStep(p, job[p].todo)'
      BY <1>1, <3>5, IndexNames DEF InStep
    <3> QED BY <1>1, <3>4, <3>6 DEF CleanFits, CommitsAt, Commits, Returns, CleanupAt
  <2> QED BY <1>3, <2>1, <2>2 DEF UndoSurface, Effect, Throws
<1> QED BY <1>2, <1>3 DEF UndoStep

(* Elsewhere nothing is asked.                                             *)
LEMMA CleanIdles ==
  ASSUME NEW p \in Procs,
         pc'[p] \in {"idle", "scanned", "checked"} \cup LockingAt \cup ClosingAt
                    \cup {"acquired", "entry", "conflicts", "purge-payload", "rec-trash", "rec-rmdir"}
  PROVE  CleanFits(p)'
<1>1. pc'[p] \notin CleanAt
  BY DEF CleanAt, CleanupAt, CommitsAt, LockingAt, ClosingAt
<1> QED BY <1>1, CleanElsewhere

(* A recovery rewrites what is left.                                       *)
LEMMA CleanRecovers ==
  ASSUME ReleaseSucceeds, Typed, NEW p \in Procs, Fits(p), CleanFits(p), Cleans(p), RecoveryStep(p), Working(p)
  PROVE  CleanFits(p)'
<1> USE JobFunction
<1>0. live \in [Surfaces -> Value]
  BY DEF Typed, DataTyped, Images
<1>1. CASE RecoverSurface(p)
  <2>1. pc[p] = "rec" /\ job[p].todo \subseteq Indexes /\ Cleared(job[p].todo)
    BY <1>1 DEF RecoverSurface, CleanFits
  <2>2. CASE Stop(p)
    BY <2>2, StopLeaves, CleanIdles
  <2>3. ASSUME NEW s \in First(job[p].todo, RecoveryRank), live' = [live EXCEPT ![s] = Desired(p, s)], pc' = pc,
               job' = [job EXCEPT ![p].todo = job[p].todo \ {s}]
        PROVE  CleanFits(p)'
    <3>1. s \in job[p].todo /\ s \in Indexes /\ s \in Surfaces /\ s \in Lists /\ s \notin Databases
      BY <2>1, <2>3, IndexNames DEF First
    <3>2. Desired(p, s) = Removed(s, job[p].snap[s])
      BY <3>1 DEF Desired, Cleans, Strategy, StateAfter, After
    <3>3. Desired(p, s).own = {}
      BY <3>1, <3>2 DEF Removed
    <3>4. live'[s].own = {} /\ \A t \in Surfaces \ {s} : live'[t] = live[t]
      BY <1>0, <2>3, <3>1, <3>3
    <3>5. pc'[p] = "rec" /\ job'[p].todo = job[p].todo \ {s}
      BY <2>1, <2>3 DEF Jobs
    <3>6. Cleared(job[p].todo)'
      BY <2>1, <3>1, <3>4, <3>5, IndexNames DEF Cleared, Gone
    <3> QED BY <2>1, <3>5, <3>6 DEF CleanFits, CommitsAt, Commits, Returns, CleanupAt
  <2> QED BY <1>1, <2>2, <2>3 DEF RecoverSurface, Effect, Throws
<1>2. CASE SurfacesRecovered(p)
  <2>1. live' = live /\ pc[p] = "rec" /\ job[p].todo = {} /\ job' = job /\ pc'[p] = "fin-stage"
    BY <1>2 DEF SurfacesRecovered, data, Goto, ReconcilesTrash, Cleans
  <2>2. Cleared({})'
    BY <2>1 DEF CleanFits, Cleared, Gone
  <2> QED BY <2>1, <2>2 DEF CleanFits, CommitsAt, Commits, Returns, CleanupAt
<1>3. CASE \/ FinalizeStage(p) \/ FinalizePayload(p) \/ FinalizeUnlock(p)
  <2>1. pc'[p] \in {"idle"} \cup ClosingAt
    BY <1>3, StopLeaves DEF FinalizeStage, FinalizePayload, FinalizeUnlock, Goto, ClosingAt
  <2> QED BY <2>1, CleanIdles
<1>4. ~(RecoverQuarantine(p) \/ RecoverTrash(p) \/ RefuseTrash(p) \/ BeginRecovery(p))
  BY DEF RecoverQuarantine, RecoverTrash, RefuseTrash, BeginRecovery, Fits, KindFits, Cleans, Working
<1> QED BY <1>1, <1>2, <1>3, <1>4 DEF RecoveryStep

LEMMA CleanReturns ==
  ASSUME Typed, Ownership, NEW p \in Procs, BeginRecovery(p), \A o \in OpIds : CleanRecord(o)
  PROVE  CleanFits(p)'
<1> USE JobFunction
<1> PICK o : o = lock.op
  OBVIOUS
<1>0. o \in OpIds
  BY BoundsAssumption DEF BeginRecovery, Readable, Ownership, OwnOperation, OpIds, Typed, CountTyped
<1>1. /\ live' = live /\ journal' = journal /\ payload' = payload
      /\ job'[p].kind = payload[o].kind /\ job'[p].op = o
      /\ pc'[p] = IF ~IsFinal(o) /\ ~Untouched(o) THEN "rec" ELSE "fin-stage"
      /\ pc'[p] = "rec" => job'[p].todo = payload[o].covers
  BY DEF BeginRecovery, data, disk, Goto
<1>2. CASE payload[o].kind # "cleanup-index"
  BY <1>1, <1>2, CleanElsewhere
<1>3. CASE payload[o].kind = "cleanup-index" /\ pc'[p] = "rec"
  <2>1. job'[p].todo = Indexes
    BY <1>0, <1>1, <1>3 DEF CleanRecord
  <2>2. Cleared(job[p].todo)'
    BY <2>1 DEF Cleared
  <2> QED BY <1>3, <2>1, <2>2 DEF CleanFits, CommitsAt, Commits, Returns, CleanupAt
<1>4. CASE payload[o].kind = "cleanup-index" /\ pc'[p] = "fin-stage"
  <2>1. ~Cleanup(job[p].op)'
    BY <1>1, <1>4 DEF Cleanup, IsFinal, Untouched
  <2> QED BY <1>4, <2>1 DEF CleanFits, CommitsAt, Commits, Returns, CleanupAt
<1> QED BY <1>1, <1>2, <1>3, <1>4

(* Where it leads to take the lock and to let go of it.                    *)
LEMMA LocksLead ==
  ASSUME ReleaseSucceeds, Typed, Ownership, NEW p \in Procs, Working(p),
         AcquireStep(p) \/ ReleaseStep(p) \/ Crash(p) \/ FinalizeUnlock(p)
  PROVE  pc'[p] \in {"idle", "lock-written", "acquired"} \cup ClosingAt
<1> USE JobFunction
<1>1. CASE AcquireStep(p) \/ Crash(p) \/ FinalizeUnlock(p)
  <2>1. ~((\E kind \in Kinds : ScanRoot(p, kind)) \/ CreateLock(p) \/ LockIsTaken(p))
    BY DEF Working, ScanRoot, CreateLock, LockIsTaken, ReadyToLock
  <2> QED BY <1>1, <2>1, StopLeaves DEF AcquireStep, WriteLock, CreateJournal, Crash, FinalizeUnlock, Goto
<1>2. CASE ReleaseStep(p)
  <2>1. OwnsLockFile(p) \/ ~ReleaseCheck(p)
    BY OneWorker DEF OwnsLockFile, ReleaseCheck
  <2> QED BY <1>2, <2>1, ReleaseIsQuiet, StopLeaves
          DEF ReleaseStep, ReleaseStage, ReleaseCheck, ReleasePayload, ReleaseUnlock, Throws, Goto, ClosingAt
<1> QED BY <1>1, <1>2

(* An operation of another kind does not turn into a cleanup.              *)
LEMMA OthersPass ==
  ASSUME ReleaseSucceeds, Typed, Ownership, NEW p \in Procs, Working(p), ~Cleans(p),
         OperationStep(p) \/ Crash(p)
  PROVE  \/ job'[p].kind # "cleanup-index"
         \/ pc'[p] \in {"idle", "lock-written", "acquired"} \cup ClosingAt
<1>1. CASE AcquireStep(p) \/ ReleaseStep(p) \/ Crash(p) \/ FinalizeUnlock(p)
  BY <1>1, LocksLead
<1>2. CASE ~(AcquireStep(p) \/ ReleaseStep(p) \/ Crash(p) \/ FinalizeUnlock(p))
  <2>1. ~(\/ CheckIndexes(p) \/ ReadForRestore(p) \/ ReadForPurge(p) \/ EntryNotFound(p) \/ BeginRecovery(p))
    BY DEF Working, CheckIndexes, ReadForRestore, ReadForPurge, EntryNotFound, BeginRecovery
  <2>2. Stays(p)
    BY <1>2, <2>1, DeleteStays, UndoStays, TrashStays, CleanupStays, EntryStays, RestoreStays,
       PurgeStays, RecoveryStays DEF OperationStep, EntryStep
  <2> QED BY <2>2 DEF Stays, GoesOn, Cleans
<1> QED BY <1>1, <1>2

(* A cleanup does nothing with the trash.                                  *)
LEMMA OnlyCleans ==
  ASSUME NEW p \in Procs, Working(p), KindFits(p), Cleans(p)
  PROVE  ~(TrashStep(p) \/ EntryStep(p) \/ RestoreStep(p) \/ PurgeStep(p))
<1> USE DEF Cleans, KindFits
<1>1. ~TrashStep(p)
  BY DEF TrashStep, WriteTrashPayload, MakeTmp, BuildBundle, CommitTrashEntry, MarkTrashEntry, DropTrash,
         TearEntry, TrashAt, MoveAt, EntryMadeAt, PurgingAt
<1>2. ~EntryStep(p)
  BY DEF EntryStep, ReadForRestore, ReadForPurge, EntryNotFound, PrepareEntry, CheckEntry, CommitEntry, FromTrash,
         RestoringAt, PurgingAt, Working
<1>3. ~RestoreStep(p)
  BY DEF RestoreStep, CheckConflicts, CaptureRestore, WriteRestorePayload, StartRestore, RestoreText,
         RereadWritten, MarkRestored, RestoreRows, RemoveGoals, UndoRestore, UndoRestoreEnds, MarkRows, VerifyRestore,
         RestoreBeginsAt, RestoringAt
<1>4. ~PurgeStep(p)
  BY DEF PurgeStep, WritePurgePayload, RecheckPurge, CheckpointPurge, PurgeLogs, QuarantineEntry,
         RemoveQuarantine, VerifyPurge, PurgingAt
<1> QED BY <1>1, <1>2, <1>3, <1>4

(* A cleanup that does something else than to prepare, commit or recover.  *)
LEMMA CleanWorks ==
  ASSUME WritesAreClean, ReleaseSucceeds, Sound, NEW p \in Procs, Working(p), CleanFits(p), Cleans(p),
         pc[p] = "acquired" => InStep(p, {}), OperationStep(p) \/ Crash(p)
  PROVE  CleanFits(p)'
<1>0. Typed /\ Ownership /\ Fits(p) /\ PlanFits(p) /\ Knows(p, job[p].op)
  BY WorkerKnows DEF Sound, Consistent, Knows, DurableAt
<1>1. KindFits(p) /\ (pc[p] = "acquired" => job[p].done = {})
  BY <1>0 DEF Fits, DoneFits, EarlyAt
<1> USE JobFunction
<1>2. CASE AcquireStep(p) \/ ReleaseStep(p) \/ Crash(p)
  BY <1>0, <1>2, LocksLead, CleanIdles DEF LockingAt
<1>3. CASE CleanupStep(p)
  <2>1. ~CheckIndexes(p)
    BY DEF Working, CheckIndexes
  <2> QED BY <1>0, <1>1, <1>3, <2>1, CleanBegins, CleanStarts, CleanVerifies DEF CleanupStep
<1>4. CASE UndoStep(p)
  BY <1>0, <1>4, CleanUndone
<1>5. CASE DeleteStep(p)
  <2>1. ~Deletes(p) /\ pc[p] \notin DeleteAt \cup {"remove-logs", "undo-global-state"}
    BY <1>1 DEF Cleans, Deletes, KindFits, CleanFits
  <2>2. pc[p] = "remove" =>
          job[p].cur \cap Files = {} /\ job[p].cur \cap Databases = {} /\ "global-state" \notin job[p].cur
    BY IndexNames, FilesAssumption DEF CleanFits, Indexes
  <2>3. RemoveFromIndex(p) \/ MarkSurface(p)
    BY <1>5, <2>1, <2>2 DEF DeleteStep, EnterPrepared, CheckSelection, Capture, WritePayload, Recheck, EnterCommitting,
           StartSurface, EnterVerifying, RemoveFromGlobalState, UndoGlobalState, RemoveFile, RemoveRows,
           RemoveLogs, DeleteAt
  <2> QED BY <1>0, <2>3, CleanRemoves, CleanMarks
<1>6. CASE RecoveryStep(p)
  BY <1>0, <1>6, CleanRecovers
<1>7. ~(TrashStep(p) \/ EntryStep(p) \/ RestoreStep(p) \/ PurgeStep(p))
  BY <1>1, OnlyCleans
<1> QED BY <1>2, <1>3, <1>4, <1>5, <1>6, <1>7 DEF OperationStep

(* Nothing a cleanup's fitness speaks of changes.                          *)
LEMMA CleanKept ==
  ASSUME NEW q \in Procs, CleanFits(q), pc'[q] = pc[q], job'[q] = job[q], live' = live,
         journal' = journal, payload' = payload
  PROVE  CleanFits(q)'
<1>1. \A T : InStep(q, T)' <=> InStep(q, T)
  BY DEF InStep, Back
<1>2. \A T : Cleared(T)' <=> Cleared(T)
  BY DEF Cleared, Gone
<1>3. Cleanup(job[q].op)' <=> Cleanup(job[q].op)
  BY DEF Cleanup
<1> QED BY <1>1, <1>2, <1>3 DEF CleanFits, Cleans, Commits, Returns

LEMMA CleanStep ==
  ASSUME WritesAreClean, ReleaseSucceeds, Sound, CleanInv, NEW p \in Procs, OperationStep(p) \/ Crash(p),
         pc[p] = "acquired" /\ Cleans(p) => InStep(p, {})
  PROVE  \A q \in Procs : CleanFits(q)'
<1>0. Typed /\ Ownership /\ OthersStay(p)
  BY OthersAreLeft DEF Sound, Consistent
<1>1. CASE Working(p)
  <2>1. ASSUME NEW q \in Procs \ {p} PROVE CleanFits(q)'
    <3>1. pc'[q] \in {"idle", "scanned", "checked"}
      BY <1>0, <1>1, OneWorker DEF OthersStay, Working
    <3> QED BY <3>1, CleanIdles
  <2>2. CleanFits(p)'
    <3>1. CASE Cleans(p)
      BY <1>1, <3>1, CleanWorks DEF CleanInv
    <3>2. CASE ~Cleans(p)
      BY <1>0, <1>1, <3>2, OthersPass, CleanElsewhere, CleanIdles DEF LockingAt
    <3> QED BY <3>1, <3>2
  <2> QED BY <2>1, <2>2
<1>2. CASE ~Working(p)
  <2>0. UNCHANGED <<live, journal, payload>>
    BY <1>0, <1>2, IdlersWait, IdleKeepEntries DEF BeginRecovery, data, disk, bin
  <2>1. ASSUME NEW q \in Procs \ {p} PROVE CleanFits(q)'
    BY <1>0, <2>0, CleanKept DEF OthersStay, CleanInv
  <2>2. CleanFits(p)'
    <3>1. CASE BeginRecovery(p)
      BY <1>0, <3>1, CleanReturns DEF CleanInv
    <3>2. CASE ~BeginRecovery(p)
      BY <1>0, <1>2, <3>2, IdlersWait, CleanIdles DEF LockingAt
    <3> QED BY <3>1, <3>2
  <2> QED BY <2>1, <2>2
<1> QED BY <1>1, <1>2

(* What a payload covers.                                                  *)
LEMMA RecordStep ==
  ASSUME Typed, NEW p \in Procs, KindFits(p), OperationStep(p) \/ Crash(p), NEW o \in OpIds, CleanRecord(o)
  PROVE  CleanRecord(o)'
<1>0. ASSUME NEW w, payload' = payload \/ payload' = [payload EXCEPT ![job[p].op] = w],
             w.kind = "cleanup-index" => w.covers = Indexes
      PROVE  CleanRecord(o)'
  BY <1>0 DEF CleanRecord, Typed
<1>1. ASSUME NEW w, payload' = payload \/ payload' = [payload EXCEPT ![job[p].op] = w], w.kind # "cleanup-index"
      PROVE  CleanRecord(o)'
  BY <1>0, <1>1
<1>2. CASE ReleasePayload(p) \/ FinalizePayload(p)
  <2>1. NoPayload.kind # "cleanup-index"
    BY DEF NoPayload
  <2> QED BY <1>1, <1>2, <2>1 DEF ReleasePayload, FinalizePayload
<1>3. CASE WriteCleanupPayload(p)
  <2>1. CleanupPayload(p).covers = Indexes
    BY DEF CleanupPayload
  <2> QED BY <1>0, <1>3, <2>1 DEF WriteCleanupPayload
<1>4. CASE WritePayload(p) \/ WriteRestorePayload(p) \/ WritePurgePayload(p)
  <2>1. job[p].kind # "cleanup-index"
    BY <1>4 DEF WritePayload, WriteRestorePayload, WritePurgePayload, KindFits, DeleteAt, RestoreBeginsAt
  <2>2. payload'[o] = payload[o] \/ payload'[o].kind = job[p].kind
    <3>1. CASE WritePayload(p)
      BY <3>1 DEF WritePayload, Typed
    <3>2. CASE WriteRestorePayload(p)
      BY <3>2 DEF WriteRestorePayload, Typed
    <3>3. CASE WritePurgePayload(p)
      BY <3>3 DEF WritePurgePayload, Typed
    <3> QED BY <1>4, <3>1, <3>2, <3>3
  <2> QED BY <2>1, <2>2 DEF CleanRecord
<1>6. CASE WriteTrashPayload(p)
  <2>1. \A x : TrashPayload(x).kind # "cleanup-index"
    BY DEF TrashPayload
  <2> QED BY <1>1, <1>6, <2>1 DEF WriteTrashPayload
<1>5. CASE payload' = payload
  BY <1>5 DEF CleanRecord
<1> QED BY <1>2, <1>3, <1>4, <1>5, <1>6, PayloadWriters

-----------------------------------------------------------------------------
(* Where nothing fails a cleanup has nothing to put back: from its second  *)
(* look under the lock until it rewrites it, an index is what it scanned.  *)
NoFaults   == FaultPoints = {}
Plain(v)   == \A s \in Indexes : v[s].ext = 0
PlainInv   == Plain(live) /\ \A p \in Procs : Plain(job[p].seen)
Found(p, T) == \A s \in T : live[s] = job[p].snap[s]
HeldFits(p) ==
  Cleans(p) =>
    /\ pc[p] = "cleanup-recheck" => job[p].snap = job[p].seen
    /\ pc[p] = "cleanup-commit" => Found(p, Indexes)
    /\ pc[p] \in {"commit", "remove"} => Found(p, job[p].todo)
    /\ pc[p] = "mark" => Found(p, job[p].todo \ job[p].cur)
    /\ pc[p] = "remove" => job[p].cur \subseteq job[p].todo
    /\ pc[p] = "undo" => job[p].todo = {}
HeldInv == PlainInv /\ (NoFaults => \A p \in Procs : HeldFits(p))

HeldAt == {"cleanup-recheck", "cleanup-commit", "undo"} \cup CommitsAt
LEMMA HeldElsewhere ==
  ASSUME NEW p \in Procs, pc'[p] \notin HeldAt \/ job'[p].kind # "cleanup-index"
  PROVE  HeldFits(p)'
<1>1. CASE job'[p].kind # "cleanup-index"
  BY <1>1 DEF HeldFits, Cleans
<1>2. CASE pc'[p] \notin HeldAt
  BY <1>2 DEF HeldFits, HeldAt, CommitsAt
<1> QED BY <1>1, <1>2

(* Nothing fails.                                                          *)
LEMMA AllGoesWell ==
  ASSUME NoFaults, NEW point, NEW r \in Outcome(point)
  PROVE  ~Throws(r) /\ Effect(r)
BY DEF NoFaults, FaultPoints, Outcome, Throws, Effect

(* The texts it compares hold as many rows, and the same ones.             *)
LEMMA SameRows ==
  ASSUME QuietCodex, OldInv, PlainInv, Typed, NEW p \in Procs, CleanupCurrent(p), NEW s \in Indexes
  PROVE  live[s] = job[p].seen[s]
<1> USE JobFunction
<1>1. s \in Quiet /\ s \in Surfaces
  BY IndexNames DEF Quiet, QuietCodex
<1>2. job[p].seen[s].own \subseteq {0} /\ live[s].own \subseteq {0}
  BY <1>1 DEF OldInv, OldJob, OldImage
<1>3. live[s].own = job[p].seen[s].own
  BY <1>2, AsManyOld DEF CleanupCurrent
<1>4. live[s].ext = 0 /\ job[p].seen[s].ext = 0
  BY DEF PlainInv, Plain
<1>5. live[s] \in Value /\ job[p].seen[s] \in Value
  BY <1>1 DEF Typed, DataTyped, Images, Jobs
<1> QED BY <1>3, <1>4, <1>5 DEF Value

(* The payload, and the checks before the first write.                     *)
LEMMA HeldBegins ==
  ASSUME NoFaults, QuietCodex, OldInv, PlainInv, Typed, NEW p \in Procs, HeldFits(p), Cleans(p),
         pc[p] \in CleanupAt => job[p].done = {},
         WriteCleanupPayload(p) \/ RecheckCleanup(p) \/ CommitCleanup(p)
  PROVE  HeldFits(p)'
<1> USE JobFunction
<1>1. live' = live
  BY DEF WriteCleanupPayload, RecheckCleanup, CommitCleanup, data
<1>2. CASE WriteCleanupPayload(p)
  <2>1. pc'[p] = "cleanup-recheck" /\ job' = [job EXCEPT ![p].snap = job[p].seen]
    BY <1>2, AllGoesWell DEF WriteCleanupPayload, Goto
  <2>2. job'[p].snap = job[p].seen /\ job'[p].seen = job[p].seen
    BY <2>1 DEF Jobs
  <2> QED BY <2>1, <2>2 DEF HeldFits
<1>3. CASE RecheckCleanup(p)
  <2>1. pc[p] = "cleanup-recheck" /\ job[p].snap = job[p].seen /\ job[p].done = {}
    BY <1>3 DEF RecheckCleanup, HeldFits, CleanupAt
  <2>2. CASE CommitFails(p)
    <3>1. pc'[p] = "undo" /\ job'[p].todo = {}
      BY <2>1, <2>2 DEF CommitFails, Goto, Jobs
    <3> QED BY <3>1 DEF HeldFits
  <2>3. CASE CleanupCurrent(p) /\ pc'[p] = "cleanup-commit" /\ job' = job
    <3>1. Found(p, Indexes)'
      BY <1>1, <2>1, <2>3, SameRows DEF Found
    <3> QED BY <2>3, <3>1 DEF HeldFits
  <2> QED BY <1>3, <2>2, <2>3 DEF RecheckCleanup, Goto
<1>4. CASE CommitCleanup(p)
  <2>1. pc[p] = "cleanup-commit" /\ Found(p, Indexes)
    BY <1>4 DEF CommitCleanup, HeldFits
  <2>2. pc'[p] = "commit" /\ job' = [job EXCEPT ![p].todo = Indexes]
    BY <1>4, AllGoesWell DEF CommitCleanup, Goto
  <2>3. job'[p].snap = job[p].snap /\ job'[p].todo = Indexes
    BY <2>2 DEF Jobs
  <2>4. Found(p, Indexes)'
    BY <1>1, <2>1, <2>3 DEF Found
  <2> QED BY <2>2, <2>3, <2>4 DEF HeldFits
<1> QED BY <1>2, <1>3, <1>4

(* The steps between two writes, and the writes.                           *)
LEMMA HeldGoesOn ==
  ASSUME NoFaults, Typed, NEW p \in Procs, HeldFits(p), CleanFits(p), Cleans(p),
         StartIndex(p) \/ MarkSurface(p) \/ VerifyCleanup(p) \/ RemoveFromIndex(p) \/ UndoStep(p)
  PROVE  HeldFits(p)'
<1> USE JobFunction
<1>0. live \in [Surfaces -> Value]
  BY DEF Typed, DataTyped, Images
<1>1. CASE StartIndex(p)
  <2>1. live' = live /\ Found(p, job[p].todo)
    BY <1>1 DEF StartIndex, data, HeldFits
  <2>2. PICK s, m, r :
          /\ s \in First(job[p].todo, CommitRank) /\ r \in Outcome("journal")
          /\ job' = [job EXCEPT ![p] = [job[p] EXCEPT !.marks = m, !.cur = IF Throws(r) THEN {} ELSE {s},
                                            !.todo = IF Throws(r) THEN job[p].done ELSE job[p].todo]]
          /\ Goto(p, IF Throws(r) THEN "undo" ELSE "remove")
    BY <1>1 DEF StartIndex
  <2>3. ~Throws(r)
    BY <2>2, AllGoesWell
  <2>4. job'[p].snap = job[p].snap /\ job'[p].todo = job[p].todo /\ job'[p].cur = {s} /\ pc'[p] = "remove"
    BY <2>2, <2>3 DEF Jobs, Goto
  <2>5. Found(p, job[p].todo)' /\ s \in job[p].todo
    BY <2>1, <2>2, <2>4 DEF Found, First
  <2> QED BY <2>4, <2>5 DEF HeldFits
<1>2. CASE MarkSurface(p)
  <2>1. live' = live /\ Found(p, job[p].todo \ job[p].cur)
    BY <1>2 DEF MarkSurface, data, HeldFits
  <2>2. PICK m, r :
          /\ r \in Outcome("journal")
          /\ job' = [job EXCEPT ![p] = [job[p] EXCEPT !.marks = m, !.cur = {},
                                            !.todo = IF Throws(r) THEN job[p].done ELSE job[p].todo \ job[p].cur]]
          /\ Goto(p, IF Throws(r) THEN "undo" ELSE "commit")
    BY <1>2 DEF MarkSurface
  <2>3. ~Throws(r)
    BY <2>2, AllGoesWell
  <2>4. job'[p].snap = job[p].snap /\ job'[p].todo = job[p].todo \ job[p].cur /\ pc'[p] = "commit"
    BY <2>2, <2>3 DEF Jobs, Goto
  <2>5. Found(p, job[p].todo)'
    BY <2>1, <2>4 DEF Found
  <2> QED BY <2>4, <2>5 DEF HeldFits
<1>3. CASE VerifyCleanup(p)
  <2>1. ReleaseAs(p, "committed", "undo")
    BY <1>3, AllGoesWell DEF VerifyCleanup
  <2>2. pc'[p] = "rel-stage"
    BY <2>1 DEF ReleaseAs, Goto
  <2> QED BY <2>2, HeldElsewhere DEF HeldAt, CommitsAt
<1>4. CASE RemoveFromIndex(p)
  <2>1. pc[p] = "remove" /\ Found(p, job[p].todo) /\ job[p].cur \subseteq job[p].todo
    BY <1>4 DEF RemoveFromIndex, HeldFits
  <2>2. PICK s \in Indexes : job[p].cur = {s}
    BY <2>1 DEF CleanFits
  <2>3. StillCaptured(p, s)
    BY <2>1, <2>2 DEF Found, StillCaptured
  <2>4. /\ TakeOut(p, s) /\ Goto(p, "mark")
        /\ job' = [job EXCEPT ![p].done = job[p].done \cup {s}]
    BY <1>4, <2>2, <2>3, AllGoesWell DEF RemoveFromIndex
  <2>5. \A t \in Surfaces \ {s} : live'[t] = live[t]
    BY <1>0, <2>4 DEF TakeOut
  <2>6. /\ pc'[p] = "mark" /\ job'[p].snap = job[p].snap
        /\ job'[p].todo = job[p].todo /\ job'[p].cur = {s}
    BY <2>2, <2>4 DEF Goto, Jobs
  <2>7. \A t \in (job[p].todo \ {s}) \cap Surfaces : live'[t] = job'[p].snap[t]
    BY <2>1, <2>5, <2>6 DEF Found
  <2>8. job[p].todo \subseteq Surfaces
    BY DEF Typed, JobTyped, Jobs
  <2>9. Found(p, job[p].todo \ job[p].cur)'
    BY <2>6, <2>7, <2>8 DEF Found
  <2> QED BY <2>6, <2>9 DEF HeldFits
<1>5. CASE UndoStep(p)
  <2>1. job[p].todo = {}
    BY <1>5 DEF UndoStep, UndoSurface, UndoEnds, HeldFits
  <2>2. ReleaseAs(p, "rolled_back", "require")
    BY <1>5, <2>1 DEF UndoStep, UndoSurface, UndoEnds, First, Cleans
  <2>3. pc'[p] = "rel-stage"
    BY <2>2 DEF ReleaseAs, Goto
  <2> QED BY <2>3, HeldElsewhere DEF HeldAt, CommitsAt
<1> QED BY <1>1, <1>2, <1>3, <1>4, <1>5

(* A cleanup at work.                                                      *)
LEMMA HeldWorks ==
  ASSUME NoFaults, QuietCodex, ReleaseSucceeds, Sound, PlainInv, NEW p \in Procs, Working(p),
         CleanFits(p), HeldFits(p), Cleans(p), OperationStep(p) \/ Crash(p)
  PROVE  HeldFits(p)'
<1>0. Typed /\ Ownership /\ OldInv /\ Fits(p) /\ Knows(p, job[p].op)
  BY WorkerKnows DEF Sound, Consistent, Knows
<1>1. KindFits(p) /\ (pc[p] \in CleanupAt => job[p].done = {})
  BY <1>0 DEF Fits, CleanFits
<1> USE JobFunction
<1>2. CASE AcquireStep(p) \/ ReleaseStep(p) \/ Crash(p)
  <2>1. pc'[p] \notin HeldAt
    BY <1>0, <1>2, LocksLead DEF HeldAt, CommitsAt, ClosingAt
  <2> QED BY <2>1, HeldElsewhere
<1>3. CASE CleanupStep(p)
  <2>1. ~CheckIndexes(p)
    BY DEF Working, CheckIndexes
  <2> QED BY <1>0, <1>1, <1>3, <2>1, HeldBegins, HeldGoesOn DEF CleanupStep
<1>4. CASE UndoStep(p)
  BY <1>0, <1>4, HeldGoesOn
<1>5. CASE DeleteStep(p)
  <2>1. ~Deletes(p) /\ pc[p] \notin DeleteAt \cup {"remove-logs", "undo-global-state"}
    BY <1>1 DEF Cleans, Deletes, KindFits, CleanFits
  <2>2. pc[p] = "remove" =>
          job[p].cur \cap Files = {} /\ job[p].cur \cap Databases = {} /\ "global-state" \notin job[p].cur
    BY IndexNames, FilesAssumption DEF CleanFits, Indexes
  <2>3. RemoveFromIndex(p) \/ MarkSurface(p)
    BY <1>5, <2>1, <2>2 DEF DeleteStep, EnterPrepared, CheckSelection, Capture, WritePayload, Recheck, EnterCommitting,
           StartSurface, EnterVerifying, RemoveFromGlobalState, UndoGlobalState, RemoveFile, RemoveRows,
           RemoveLogs, DeleteAt
  <2> QED BY <1>0, <2>3, HeldGoesOn
<1>6. CASE RecoveryStep(p)
  <2>1. pc'[p] = pc[p] \/ pc'[p] \in {"idle", "fin-stage", "rec-trash", "rec-rmdir"} \cup ClosingAt
    BY <1>0, <1>6, StopLeaves
       DEF RecoveryStep, RecoverSurface, SurfacesRecovered, FinalizeStage, FinalizePayload, FinalizeUnlock,
           RecoverQuarantine, RecoverTrash, RefuseTrash, BeginRecovery, Working, Goto, ClosingAt
  <2>2. pc[p] \notin HeldAt
    BY <1>6 DEF RecoveryStep, RecoverSurface, SurfacesRecovered, FinalizeStage, FinalizePayload, FinalizeUnlock,
           RecoverQuarantine, RecoverTrash, RefuseTrash, BeginRecovery, Working, HeldAt, CommitsAt
  <2> QED BY <2>1, <2>2, HeldElsewhere DEF HeldAt, CommitsAt, ClosingAt
<1>7. ~(TrashStep(p) \/ EntryStep(p) \/ RestoreStep(p) \/ PurgeStep(p))
  BY <1>1, OnlyCleans
<1> QED BY <1>2, <1>3, <1>4, <1>5, <1>6, <1>7 DEF OperationStep

(* Whatever is done next to it.                                            *)
LEMMA HeldKept ==
  ASSUME NEW q \in Procs, HeldFits(q), pc'[q] = pc[q], job'[q] = job[q], live' = live
  PROVE  HeldFits(q)'
BY DEF HeldFits, Cleans, Found
LEMMA PlainKept ==
  ASSUME Typed, ReadInv, PlainInv, NEW p \in Procs, OperationStep(p) \/ Crash(p)
  PROVE  PlainInv'
<1>0. /\ Plain(Blank) /\ Plain(live) /\ Plain(job[p].seen) /\ Indexes \subseteq Lists
      /\ \A s : ~Adopted(p, s)
  BY IndexNames DEF PlainInv, Plain, Blank, ReadInv, ReadBackFits, Adopted
<1>1. Plain(live')
  <2>1. CASE Writes(p)
    BY <1>0, <2>1, WritesKeepForeign DEF Plain
  <2>2. CASE ~Writes(p)
    BY <1>0, <2>2, OthersReadOnly
  <2> QED BY <2>1, <2>2
<1>2. ASSUME NEW q \in Procs PROVE Plain(job'[q].seen)
  <2>1. CASE q = p
    BY <1>0, <2>1, SeenIsLive
  <2>2. CASE q # p
    BY <2>2, OthersAreLeft DEF OthersStay, PlainInv
  <2> QED BY <2>1, <2>2
<1> QED BY <1>1, <1>2 DEF PlainInv
LEMMA HeldInit == Init => HeldInv
<1> SUFFICES ASSUME Init PROVE HeldInv
  OBVIOUS
<1>1. Plain(live)
  BY IndexNames DEF Init, InitFrom, Plain
<1>2. \A p \in Procs : Plain(job[p].seen) /\ HeldFits(p)
  BY IndexNames DEF Init, NoJob, Blank, Plain, HeldFits, Cleans
<1> QED BY <1>1, <1>2 DEF HeldInv, PlainInv

LEMMA HeldStep ==
  ASSUME QuietCodex, ReleaseSucceeds, Sound, CleanInv, HeldInv, NEW p \in Procs, OperationStep(p) \/ Crash(p)
  PROVE  HeldInv'
<1>0. Typed /\ Ownership /\ PlainInv /\ PlainInv' /\ OthersStay(p)
  BY OthersAreLeft, PlainKept DEF Sound, Consistent, HeldInv
<1>1. ASSUME NoFaults, NEW q \in Procs PROVE HeldFits(q)'
  <2>0. HeldFits(q) /\ HeldFits(p) /\ CleanFits(p)
    BY <1>1 DEF HeldInv, CleanInv
  <2>1. CASE q # p /\ Working(p)
    <3>1. pc'[q] \in {"idle", "scanned", "checked"}
      BY <1>0, <2>1, OneWorker DEF OthersStay, Working
    <3> QED BY <3>1, HeldElsewhere DEF HeldAt, CommitsAt, CleanupAt
  <2>2. CASE q # p /\ ~Working(p)
    <3>1. live' = live
      BY <1>0, <2>2, IdlersWait, IdleKeepEntries DEF BeginRecovery, data, disk, bin
    <3> QED BY <1>0, <2>0, <2>2, <3>1, HeldKept DEF OthersStay
  <2>3. CASE q = p /\ Working(p) /\ Cleans(p)
    BY <1>0, <1>1, <2>0, <2>3, HeldWorks
  <2>4. CASE q = p /\ Working(p) /\ ~Cleans(p)
    <3>1. job'[p].kind # "cleanup-index" \/ pc'[p] \notin HeldAt
      BY <1>0, <2>4, OthersPass DEF HeldAt, CommitsAt, ClosingAt
    <3> QED BY <2>4, <3>1, HeldElsewhere
  <2>5. CASE q = p /\ ~Working(p)
    <3>1. BeginRecovery(p) => pc'[p] \in {"rec", "fin-stage"}
      BY <1>0, JobFunction DEF BeginRecovery, Goto
    <3>2. pc'[p] \notin HeldAt
      BY <1>0, <2>5, <3>1, IdlersWait DEF HeldAt, CommitsAt
    <3> QED BY <2>5, <3>2, HeldElsewhere
  <2> QED BY <2>1, <2>2, <2>3, <2>4, <2>5
<1> QED BY <1>0, <1>1 DEF HeldInv

-----------------------------------------------------------------------------
(* How an operation ends: the process that works on it writes its last     *)
(* journal, or a recovery does, and nothing else changes.                  *)
EndsAs(p, o) ==
  \/ ReleaseStage(p) /\ pc[p] = "rel-stage" /\ journal'[o].stage = job[p].rel.stage
  \/ FinalizeStage(p) /\ pc[p] = "fin-stage" /\ journal'[o].stage = EndStage(o)
LEMMA OperationEnds ==
  ASSUME ReleaseSucceeds, Sound, NEW p \in Procs, OperationStep(p) \/ Crash(p), NEW o \in OpIds,
         journal[o].stage \notin Final, journal'[o].stage \in Final
  PROVE  /\ Knows(p, o) /\ EndsAs(p, o)
         /\ live' = live /\ payload' = payload /\ entry' = entry
<1>0. Typed
  BY DEF Sound, Consistent
<1>1. Ends(p)
  BY <1>0, EndByRelease DEF Ends
<1>2. Working(p) /\ live' = live /\ payload' = payload /\ entry' = entry
  BY <1>1 DEF Ends, ReleaseStage, FinalizeStage, Working, data, disk, bin
<1>3. Knows(p, job[p].op)
  BY <1>2, WorkerKnows
<1>4. o = job[p].op /\ journal'[o].stage = job[p].rel.stage
  <2>1. \E m : \/ journal' = journal
               \/ journal' = [journal EXCEPT ![job[p].op] = [stage |-> job[p].rel.stage, marks |-> m]]
    BY <1>1 DEF Ends, ReleaseStage, FinalizeStage, WriteJournal
  <2> QED BY <1>0, <2>1 DEF Typed
<1>5. pc[p] = "fin-stage" => job[p].rel.stage = EndStage(o)
  BY <1>3, <1>4 DEF Knows, LedgerAt, ResultFits
<1> QED BY <1>1, <1>2, <1>3, <1>4, <1>5 DEF EndsAs, Ends, ReleaseStage, FinalizeStage

LEMMA RestoreEndsWhole ==
  ASSUME ReleaseSucceeds, Sound, NEW p \in Procs, OperationStep(p) \/ Crash(p), NEW o \in OpIds,
         payload[o].kind = "restore", journal[o].stage \notin Final, NEW s \in Surfaces
  PROVE  /\ journal'[o].stage = "committed" => entry[payload[o].from].bundle[s] \subseteq live'[s].own
         /\ journal'[o].stage = "rolled_back" =>
              live'[s].own \cap payload[o].moves[s] \subseteq payload[o].before[s].own
<1>0. CASE journal'[o].stage \notin Final
  BY <1>0 DEF Final
<1>1. CASE journal'[o].stage \in Final
  <2>1. Knows(p, o) /\ EndsAs(p, o) /\ live' = live
    BY <1>1, OperationEnds
  <2>2. job[p].op = o /\ AddFits(p, o) /\ AddRecord(o)
    BY <2>1 DEF Knows, LedgerAt, Recorded
  <2>3. entry[payload[o].from].bundle = payload[o].moves
    BY <2>2 DEF AddRecord
  <2>4. pc[p] = "rel-stage" \/ pc[p] = "fin-stage" => job[p].kind = "restore"
    BY <2>1 DEF Knows, Fits, PayloadFits, WithPayload, ReconcileAt, PurgingAt, ClosingAt
  <2>5. CASE ReleaseStage(p) /\ pc[p] = "rel-stage" /\ journal'[o].stage = job[p].rel.stage
    BY <2>1, <2>2, <2>3, <2>4, <2>5 DEF AddFits, HasFits, ClearFits, Commits, Returns, Has, Clear
  <2>6. CASE FinalizeStage(p) /\ pc[p] = "fin-stage" /\ journal'[o].stage = EndStage(o)
    <3>1. EndStage(o) = "committed" /\ Restores(o)
      BY DEF EndStage, IsFinal, Untouched, Strategy, Restores
    <3> QED BY <2>1, <2>2, <2>3, <2>4, <2>6, <3>1 DEF AddFits, HasFits, Has
  <2> QED BY <2>1, <2>5, <2>6 DEF EndsAs
<1> QED BY <1>0, <1>1

(* A restore ends with all of its entry or with nothing of it, whichever   *)
(* process ends it and whatever failed or was killed on the way: the       *)
(* committed journal of restoreTrashEntry or of its recovery is written    *)
(* when every record of the entry is live, a rolled back one when all that *)
(* was put back is gone again (trash.ts:1607-1718, recovery.ts:689-785).   *)
THEOREM RestoresAreWhole ==
  ASSUME ReleaseSucceeds, SupervisedRecovery, QuietCodex, WritesAreClean, RenamesAreClean
  PROVE  Spec => RestoreIsWhole
<1> DEFINE Step ==
      \A o \in OpIds : payload[o].kind = "restore" /\ journal[o].stage \notin Final =>
       /\ journal'[o].stage = "committed" =>
            \A s \in Surfaces : entry[payload[o].from].bundle[s] \subseteq live'[s].own
       /\ journal'[o].stage = "rolled_back" =>
            \A s \in payload[o].covers :
              live'[s].own \cap payload[o].moves[s] \subseteq payload[o].before[s].own
<1>1. Init => Sound
  BY SoundAlways
<1>2. Sound /\ [Next]_vars => Sound'
  BY SoundAlways
<1>3. ASSUME Sound, [Next]_vars PROVE [Step]_vars
  <2>1. ~CodexStep
    BY DEF QuietCodex, CodexStep, CodexAdds, CodexChangesOthers
  <2>2. ASSUME NEW p \in Procs, OperationStep(p) \/ Crash(p) PROVE Step
    <3>1. \A o \in OpIds : payload[o].covers \subseteq Surfaces
      BY <1>3 DEF Sound, Consistent, Typed, Payloads
    <3> QED BY <1>3, <2>2, <3>1, RestoreEndsWhole
  <2> QED BY <1>3, <2>1, <2>2 DEF Next
<1> QED BY <1>1, <1>2, <1>3, PTL DEF Spec, RestoreIsWhole
-----------------------------------------------------------------------------
(* What a step does to the ledger.  The entries of the trash: only a move  *)
(* that has not ended and a purge change one, and nothing else with it.    *)
EntryAt == {"trash-rename", "trash-drop-entry", "rec-trash", "rec-rmdir", "purge-quarantine", "purge-remove"}
LEMMA EntryMoves ==
  ASSUME Typed, NEW p \in Procs, KindFits(p), OperationStep(p) \/ Crash(p), NEW o \in OpIds,
         entry'[o] # entry[o]
  PROVE  /\ UNCHANGED <<live, lock, journal, payload>>
         /\ pc[p] \in EntryAt
         /\ \/ job[p].kind = "trash" /\ o = job[p].op
            \/ job[p].kind = "purge" /\ o = job[p].from
<1> USE DEF bin, disk, data
<1>0. /\ entry \in [OpIds -> Entries]
      /\ \A e, st : entry' = [entry EXCEPT ![e].state = st] => e = o
      /\ \A e, v : entry' = [entry EXCEPT ![e] = v] => e = o
  BY DEF Typed, BinTyped, Entries
<1>1. CASE AcquireStep(p) \/ ReleaseStep(p) \/ Crash(p)
  BY <1>1 DEF AcquireStep, ScanRoot, CreateLock, LockIsTaken, WriteLock, CreateJournal,
              ReleaseStep, ReleaseStage, ReleaseCheck, ReleasePayload, ReleaseUnlock, Crash
<1>2. CASE DeleteStep(p) \/ UndoStep(p)
  BY <1>2 DEF DeleteStep, EnterPrepared, CheckSelection, Capture, WritePayload, Recheck,
              EnterCommitting, StartSurface, MarkSurface, EnterVerifying, RemoveFromIndex,
              RemoveFromGlobalState, UndoGlobalState, RemoveFile, RemoveRows, RemoveLogs,
              UndoStep, UndoSurface, UndoEnds
<1>3. CASE CommitTrashEntry(p) \/ DropTrash(p)
  <2>1. pc[p] \in TrashAt
    BY <1>3 DEF CommitTrashEntry, DropTrash, TrashAt, MoveAt, EntryMadeAt
  <2>2. CASE CommitTrashEntry(p)
    <3>1. \E v : entry' = entry \/ entry' = [entry EXCEPT ![job[p].op] = v]
      BY <2>2 DEF CommitTrashEntry
    <3> QED BY <1>0, <2>1, <2>2, <3>1 DEF CommitTrashEntry, EntryAt, KindFits
  <2>3. CASE DropTrash(p)
    <3>1. entry' = entry \/ (pc[p] = "trash-drop-entry" /\ entry' = [entry EXCEPT ![job[p].op] = NoEntry])
      BY <2>3 DEF DropTrash
    <3> QED BY <1>0, <2>1, <2>3, <3>1 DEF DropTrash, EntryAt, KindFits
  <2> QED BY <1>3, <2>2, <2>3
<1>4. CASE TearEntry(p)
  <2>1. o = EntryOf(p) /\ pc[p] \in {"trash-drop-entry", "purge-remove", "rec-trash"}
    BY <1>0, <1>4 DEF TearEntry
  <2>2. job[p].kind \in {"trash", "purge"}
    BY <2>1 DEF KindFits, TrashAt, PurgingAt
  <2> QED BY <1>4, <2>1, <2>2 DEF TearEntry, EntryAt, EntryOf
<1>5. CASE \/ WriteTrashPayload(p) \/ MakeTmp(p) \/ BuildBundle(p) \/ MarkTrashEntry(p)
           \/ CleanupStep(p) \/ EntryStep(p)
  BY <1>5 DEF WriteTrashPayload, MakeTmp, BuildBundle, MarkTrashEntry,
              CleanupStep, CheckIndexes, WriteCleanupPayload, RecheckCleanup, CommitCleanup,
              StartIndex, VerifyCleanup, EntryStep, ReadForRestore, ReadForPurge, EntryNotFound,
              PrepareEntry, CheckEntry, CommitEntry
<1>6. CASE RestoreStep(p)
  BY <1>6 DEF RestoreStep, CheckConflicts, CaptureRestore, WriteRestorePayload, StartRestore,
              RestoreText, RereadWritten, MarkRestored, RestoreRows, RemoveGoals, UndoRestore, UndoRestoreEnds,
              MarkRows, VerifyRestore
<1>7. CASE PurgeStep(p)
  <2>1. CASE QuarantineEntry(p) \/ RemoveQuarantine(p)
    <3>1. o = job[p].from
      BY <1>0, <2>1 DEF QuarantineEntry, RemoveQuarantine
    <3> QED BY <2>1, <3>1 DEF QuarantineEntry, RemoveQuarantine, EntryAt, KindFits, PurgingAt
  <2>2. CASE ~(QuarantineEntry(p) \/ RemoveQuarantine(p))
    BY <1>7, <2>2 DEF PurgeStep, WritePurgePayload, RecheckPurge, CheckpointPurge, PurgeLogs, VerifyPurge
  <2> QED BY <2>1, <2>2
<1>8. CASE RecoverQuarantine(p)
  BY <1>0, <1>8 DEF RecoverQuarantine, EntryAt
<1>9. CASE RecoverTrash(p)
  <2>1. o = EntryOf(p) /\ pc[p] \in {"rec-trash", "rec-rmdir"}
    BY <1>0, <1>9 DEF RecoverTrash
  <2>2. job[p].kind \in {"trash", "purge"}
    BY <2>1 DEF KindFits
  <2> QED BY <1>9, <2>1, <2>2 DEF RecoverTrash, EntryAt, EntryOf
<1>10. CASE RecoveryStep(p) /\ ~RecoverQuarantine(p) /\ ~RecoverTrash(p)
  BY <1>10 DEF RecoveryStep, BeginRecovery, RecoverSurface, SurfacesRecovered, RefuseTrash,
               FinalizeStage, FinalizePayload, FinalizeUnlock
<1> QED BY <1>1, <1>2, <1>3, <1>4, <1>5, <1>6, <1>7, <1>8, <1>9, <1>10 DEF OperationStep, TrashStep
(* An entry a user can rely on.                                            *)
Reliable(o) == entry[o].state = "complete" /\ journal[o].stage = "committed"
BinByEntries == AbsBin = {entry[o].bundle : o \in {q \in OpIds : Reliable(q)}}
LEMMA BinIsReliable == BinByEntries
BY DEF BinByEntries, AbsBin, ValidEntries, Reliable
LEMMA BinWasReliable == BinByEntries'
BY BinIsReliable, PTL

LEMMA BinStays ==
  ASSUME \A o \in OpIds : (Reliable(o)' <=> Reliable(o)), \A o \in OpIds : Reliable(o) => entry'[o] = entry[o]
  PROVE  AbsBin' = AbsBin
<1>1. AbsBin' = {entry'[o].bundle : o \in {q \in OpIds : Reliable(q)'}}
  BY BinWasReliable DEF BinByEntries
<1>2. {q \in OpIds : Reliable(q)'} = {q \in OpIds : Reliable(q)}
  OBVIOUS
<1>3. \A o \in {q \in OpIds : Reliable(q)} : entry'[o].bundle = entry[o].bundle
  OBVIOUS
<1> QED BY <1>1, <1>2, <1>3, BinIsReliable DEF BinByEntries

LEMMA BinLoses ==
  ASSUME NEW o \in OpIds, ~Reliable(o)', \A x \in OpIds \ {o} : (Reliable(x)' <=> Reliable(x)) /\ entry'[x] = entry[x]
  PROVE  AbsBin' = AbsBin \/ \E b \in AbsBin : AbsBin' = AbsBin \ {b}
<1> DEFINE others == {entry[x].bundle : x \in {q \in OpIds \ {o} : Reliable(q)}}
<1>1. AbsBin' = others
  <2>1. AbsBin' = {entry'[x].bundle : x \in {q \in OpIds : Reliable(q)'}}
    BY BinWasReliable DEF BinByEntries
  <2>2. {q \in OpIds : Reliable(q)'} = {q \in OpIds \ {o} : Reliable(q)}
    OBVIOUS
  <2> QED BY <2>1, <2>2
<1>2. AbsBin = IF Reliable(o) THEN others \cup {entry[o].bundle} ELSE others
  BY BinIsReliable DEF BinByEntries
<1> QED BY <1>1, <1>2

(* A purge that takes an entry out of the trash, and what it says of it.   *)
Forgets(o) ==
  /\ lock.op = o /\ payload[o].kind = "purge"
  /\ entry'[payload[o].from].state # entry[payload[o].from].state
LEMMA BinMoves ==
  ASSUME ReleaseSucceeds, Sound, Typed', NEW p \in Procs, OperationStep(p) \/ Crash(p), entry' # entry
  PROVE  /\ AbsOwn' = AbsOwn
         /\ \/ AbsBin' = AbsBin
            \/ \E o \in OpIds, b \in AbsBin : Forgets(o) /\ AbsBin' = AbsBin \ {b}
<1>0. Typed /\ KindFits(p)
  BY DEF Sound, Consistent, JournalInv, Fits
<1>1. PICK e \in OpIds : entry'[e] # entry[e]
  BY <1>0 DEF Typed, BinTyped
<1>2. /\ UNCHANGED <<live, lock, journal, payload>> /\ pc[p] \in EntryAt
      /\ \/ job[p].kind = "trash" /\ e = job[p].op
         \/ job[p].kind = "purge" /\ e = job[p].from
  BY <1>0, <1>1, EntryMoves
<1>3. \A x \in OpIds \ {e} : entry'[x] = entry[x]
  BY <1>0, <1>2, EntryMoves
<1>4. AbsOwn' = AbsOwn
  <2>1. \A o \in OpIds : Restores(o)' = Restores(o) /\ RollsBack(o)' = RollsBack(o)
    BY <1>2 DEF Restores, RollsBack
  <2> QED BY <1>2, <2>1 DEF AbsOwn
<1>5. \A x \in OpIds \ {e} : (Reliable(x)' <=> Reliable(x))
  BY <1>2, <1>3 DEF Reliable
<1>6. Working(p) /\ pc[p] \notin LockingAt \cup ClosingAt \cup {"fin-stage"}
  BY <1>2 DEF Working, EntryAt, LockingAt, ClosingAt
<1> PICK o : o = job[p].op
  OBVIOUS
<1>7. Knows(p, o)
  BY <1>6, WorkerKnows
<1>8. CASE job[p].kind = "trash" /\ e = job[p].op
  <2>1. journal[e].stage \notin Final
    BY <1>6, <1>7, <1>8 DEF Knows, Fits, StageFits
  <2>2. ~Reliable(e) /\ ~Reliable(e)'
    BY <1>2, <2>1 DEF Reliable, Final
  <2>3. \A x \in OpIds : (Reliable(x)' <=> Reliable(x)) /\ (Reliable(x) => entry'[x] = entry[x])
    BY <1>3, <1>5, <2>2
  <2> QED BY <1>4, <2>3, BinStays
<1>9. CASE job[p].kind = "purge" /\ e = job[p].from
  <2>1. entry'[e].state # "complete"
    <3>1. ~CommitTrashEntry(p)
      BY <1>0, <1>9 DEF CommitTrashEntry, KindFits, TrashAt, MoveAt
    <3> QED BY <1>0, <1>1, <3>1, EntriesStay
  <2>2. ~Reliable(e)'
    BY <2>1 DEF Reliable
  <2>3. payload[o].kind = "purge" /\ payload[o].from = e
    <3>1. pc[p] \in PurgingAt \cup ReconcileAt
      BY <1>0, <1>2, <1>9 DEF EntryAt, PurgingAt, ReconcileAt, KindFits, TrashAt, MoveAt, EntryMadeAt
    <3> QED BY <1>6, <1>7, <1>9, <3>1 DEF Knows, Fits, PayloadFits, WithPayload, FromFits
  <2>4. CASE entry[e].state = "complete"
    <3>1. Forgets(o) /\ o \in OpIds
      BY <1>7, <2>1, <2>3, <2>4 DEF Forgets, Knows
    <3> QED BY <1>3, <1>4, <1>5, <2>2, <3>1, BinLoses
  <2>5. CASE entry[e].state # "complete"
    <3>1. ~Reliable(e)
      BY <2>5 DEF Reliable
    <3>2. \A x \in OpIds : (Reliable(x)' <=> Reliable(x)) /\ (Reliable(x) => entry'[x] = entry[x])
      BY <1>3, <1>5, <2>2, <3>1
    <3> QED BY <1>4, <3>2, BinStays
  <2> QED BY <2>4, <2>5
<1> QED BY <1>2, <1>8, <1>9

(* The surfaces: what a user can rely on is what the pending operation     *)
(* shows of them.                                                          *)
OwnByOperation ==
  /\ \A o \in OpIds : Paid /\ lock.op = o => \A s \in Surfaces : AbsOwn[s] = Shown(o, s)
  /\ AbsOwn = [s \in Surfaces |-> AbsOwn[s]]
LEMMA OwnShown == OwnByOperation
BY OwnIsShown, OwnOnSurfaces DEF OwnByOperation
LEMMA OwnShownNext == OwnByOperation'
BY OwnShown, PTL
LEMMA OwnFree == Paid /\ lock.op = 0 => \A s \in Surfaces : AbsOwn[s] = live[s].own
BY OwnIsShown DEF OpIds

LEMMA OwnStays ==
  ASSUME Paid, Paid', NEW o \in OpIds, lock.op = o, lock'.op = o, SameShown(o)
  PROVE  AbsOwn' = AbsOwn
<1>1. \A s \in Surfaces : AbsOwn[s] = Shown(o, s)
  BY OwnShown DEF OwnByOperation
<1>2. /\ \A s \in Surfaces : AbsOwn'[s] = Shown(o, s)'
      /\ AbsOwn' = [s \in Surfaces |-> AbsOwn'[s]]
  BY OwnShownNext DEF OwnByOperation
<1>4. \A s \in Surfaces : AbsOwn'[s] = AbsOwn[s]
  BY <1>1, <1>2 DEF SameShown
<1> QED BY <1>2, <1>4, OwnOnSurfaces

(* Nothing changes where neither surfaces nor files do.                    *)
LEMMA LedgerRests ==
  ASSUME UNCHANGED <<live, journal, payload, entry>>
  PROVE  AbsOwn' = AbsOwn /\ AbsBin' = AbsBin
<1>1. \A o \in OpIds : Restores(o)' = Restores(o) /\ RollsBack(o)' = RollsBack(o) /\ (Reliable(o)' <=> Reliable(o))
  BY DEF Restores, RollsBack, Reliable
<1>2. AbsOwn' = AbsOwn
  BY <1>1 DEF AbsOwn
<1> QED BY <1>1, <1>2, BinStays
(* What the steps of SelectionLedger are here: a delete commits, a move to *)
(* the trash commits, a restore commits, a purge deletes the logs, a purge *)
(* takes the entry away.                                                   *)
Empties(o) == /\ payload[o].kind = "delete" /\ RollsBack(o) /\ journal'[o].stage = "committed"
              /\ \A s \in Surfaces : AbsOwn'[s] = {}
              /\ AbsBin' = AbsBin
Bins(o)    == /\ lock.op = o /\ payload[o].kind = "trash"
              /\ \A s \in Surfaces : AbsOwn'[s] = IF s = "logs" THEN AbsOwn[s] ELSE {}
              /\ AbsBin' = AbsBin \cup {[s \in Surfaces |-> IF s = "logs" THEN {} ELSE AbsOwn[s]]}
GivesBack  == \E b \in AbsBin : /\ \A s \in Surfaces : AbsOwn'[s] = AbsOwn[s] \cup b[s]
                                /\ AbsBin' = AbsBin
DropsLogs(o) ==
  /\ lock.op = o /\ payload[o].kind = "purge"
  /\ \A s \in SessionFiles \cup Indexes \cup {"sqlite-state"} : AbsOwn[s] = {}
  /\ ValidEntries \subseteq {payload[o].from}
  /\ \A s \in Surfaces : AbsOwn'[s] = IF s = "logs" THEN {} ELSE AbsOwn[s]
  /\ AbsBin' = AbsBin
DropsEntry(o) == Forgets(o) /\ AbsOwn' = AbsOwn /\ \E b \in AbsBin : AbsBin' = AbsBin \ {b}
(* An index cleanup writes an index, or puts back what it took out: the    *)
(* latter only after a failure.                                            *)
Cleaning(o) ==
  /\ lock.op = o /\ Cleanup(o)
  /\ \A s \in Surfaces \ Indexes : AbsOwn'[s] = AbsOwn[s]
  /\ NoFaults => \A s \in Indexes : AbsOwn'[s] \subseteq AbsOwn[s]
  /\ AbsBin' = AbsBin
Rests      == AbsOwn' = AbsOwn /\ AbsBin' = AbsBin

LEMMA BinGains ==
  ASSUME NEW o \in OpIds, Reliable(o)', \A x \in OpIds \ {o} : (Reliable(x)' <=> Reliable(x)),
         entry' = entry, ~Reliable(o)
  PROVE  AbsBin' = AbsBin \cup {entry[o].bundle}
<1>1. AbsBin' = {entry'[x].bundle : x \in {q \in OpIds : Reliable(q)'}}
  BY BinWasReliable DEF BinByEntries
<1>2. {q \in OpIds : Reliable(q)'} = {q \in OpIds : Reliable(q)} \cup {o}
  OBVIOUS
<1> QED BY <1>1, <1>2, BinIsReliable DEF BinByEntries

(* How a commit looks to the user.                                         *)
LEMMA OwnCommitted ==
  ASSUME Paid, Paid', NEW o \in OpIds, lock.op = o, lock' = lock, live' = live,
         journal'[o].stage \in Final, NEW s \in Surfaces
  PROVE  AbsOwn[s] = Shown(o, s) /\ AbsOwn'[s] = live[s].own
<1>1. AbsOwn'[s] = Shown(o, s)'
  BY OwnShownNext DEF OwnByOperation
<1>2. Shown(o, s)' = live[s].own
  BY DEF Shown, Shows
<1> QED BY <1>1, <1>2, OwnShown DEF OwnByOperation

(* The entry a restore takes its records from is one a user can rely on.   *)
LEMMA SourceIsReliable ==
  ASSUME Sound, NEW o \in OpIds, lock.op = o, payload[o].kind = "restore", journal[o].stage \notin Final
  PROVE  payload[o].moves \in AbsBin
<1>1. /\ AddRecord(o) /\ PayFrom(o) /\ ops \in Nat /\ ops <= MaxOps
  BY DEF Sound, LedgerInv, FromInv, Consistent, Typed, CountTyped
<1> PICK e : e = payload[o].from
  OBVIOUS
<1>2. e \in 1 .. ops /\ e # o /\ entry[e].state = "complete" /\ entry[e].bundle = payload[o].moves
  BY <1>1 DEF AddRecord, PayFrom
<1>3. e \in OpIds
  BY <1>1, <1>2, BoundsAssumption DEF OpIds
<1>4. Reliable(e)
  BY <1>2, <1>3 DEF Sound, BinInv, BinFits, MovesTo, Pending, Reliable
<1> QED BY <1>2, <1>3, <1>4, BinIsReliable DEF BinByEntries

LEMMA CommitMaps ==
  ASSUME ReleaseSucceeds, Sound, Paid', NEW p \in Procs, OperationStep(p) \/ Crash(p), NEW o \in OpIds,
         journal[o].stage \notin Final, journal'[o].stage = "committed"
  PROVE  Rests \/ Empties(o) \/ Bins(o) \/ GivesBack
<1>0. /\ Knows(p, o) /\ EndsAs(p, o) /\ live' = live /\ payload' = payload /\ entry' = entry
      /\ Consistent /\ BinInv /\ Paid
  BY OperationEnds DEF Final, Sound, Paid, RollbackInv
<1>1. lock' = lock /\ \A x \in OpIds \ {o} : journal'[x] = journal[x]
  <2>1. \E stage, m : \/ journal' = journal
                      \/ journal' = [journal EXCEPT ![o] = [stage |-> stage, marks |-> m]]
    BY <1>0 DEF EndsAs, ReleaseStage, FinalizeStage, WriteJournal, Knows
  <2>2. lock' = lock
    BY <1>0 DEF EndsAs, ReleaseStage, FinalizeStage
  <2> QED BY <1>0, <2>1, <2>2 DEF Knows, Typed
<1>2. \A s \in Surfaces : AbsOwn[s] = Shown(o, s) /\ AbsOwn'[s] = live[s].own
  BY <1>0, <1>1, OwnCommitted DEF Knows, Final
<1>3. \A x \in OpIds \ {o} : (Reliable(x)' <=> Reliable(x))
  BY <1>0, <1>1 DEF Reliable
<1>4. ~Reliable(o)
  BY DEF Reliable, Final
<1>5. ASSUME job[p].kind # "trash" PROVE AbsBin' = AbsBin
  <2>1. ~Reliable(o)'
    <3>1. entry[o].state = "absent"
      BY <1>0, <1>5, NothingMoved DEF Knows
    <3> QED BY <1>0, <3>1 DEF Reliable
  <2>2. \A x \in OpIds : (Reliable(x)' <=> Reliable(x)) /\ (Reliable(x) => entry'[x] = entry[x])
    BY <1>0, <1>3, <1>4, <2>1
  <2> QED BY <2>2, BinStays
<1>6. ASSUME job[p].kind # "trash", payload[o].kind \notin {"delete", "trash", "restore"} PROVE Rests
  <2>1. \A s \in Surfaces : AbsOwn'[s] = AbsOwn[s]
    BY <1>2, <1>6 DEF Shown, Shows
  <2>2. AbsOwn' = [s \in Surfaces |-> AbsOwn'[s]]
    BY OwnShownNext DEF OwnByOperation
  <2> QED BY <1>5, <1>6, <2>1, <2>2, OwnOnSurfaces DEF Rests
<1>7. ASSUME job[p].kind # "trash", payload[o].kind = "restore", \A s \in Surfaces : Has(o, s)
      PROVE  GivesBack
  <2>1. payload[o].moves \in AbsBin
    BY <1>0, <1>7, SourceIsReliable DEF Knows
  <2>2. ASSUME NEW s \in Surfaces PROVE AbsOwn'[s] = AbsOwn[s] \cup payload[o].moves[s]
    BY <1>2, <1>7 DEF Shown, Shows, Has
  <2> QED BY <1>5, <1>7, <2>1, <2>2 DEF GivesBack
<1>8. CASE ReleaseStage(p) /\ Commits(p)
  <2>0. payload[o].kind \in {"none", job[p].kind} /\ LedgerAt(p, o) /\ Recorded(o)
    BY <1>0 DEF Knows, Fits, PayloadFits
  <2>1. CASE job[p].kind = "delete"
    <3>1. \A s \in Surfaces : AbsOwn'[s] = {}
      BY <1>2, <1>8, <2>0, <2>1 DEF LedgerAt, TakeFits, Deletes, TakenFits, Targets, Gone
    <3>2. payload[o].kind = "delete" => RollsBack(o)
      BY DEF RollsBack, Strategy
    <3> QED BY <1>5, <1>6, <2>0, <2>1, <3>1, <3>2 DEF Empties
  <2>2. CASE job[p].kind = "trash"
    <3>1. TakeFits(p, o) /\ Deletes(p)
      BY <2>0, <2>2 DEF LedgerAt, Deletes
    <3>2. \A s \in Surfaces : job[p].seen[s].own = AbsOwn[s]
      BY <1>2, <1>8, <3>1 DEF TakeFits, SeenFits
    <3>3. ASSUME NEW s \in Surfaces PROVE AbsOwn'[s] = IF s = "logs" THEN AbsOwn[s] ELSE {}
      <4>1. CASE s # "logs"
        BY <1>2, <1>8, <2>2, <3>1, <4>1 DEF TakeFits, TakenFits, Targets, Gone
      <4>2. CASE s = "logs"
        <5>1. Shown(o, s) = live[s].own
          <6>1. payload[o].kind = "trash" => payload[o].before[s].own = {}
            BY <2>0, <4>2 DEF Recorded, TakeRecord
          <6> QED BY <2>0, <2>2, <6>1 DEF Shown, Shows
        <5> QED BY <1>2, <4>2, <5>1
      <4> QED BY <4>1, <4>2
    <3>4. entry[o].bundle = [s \in Surfaces |-> IF s = "logs" THEN {} ELSE AbsOwn[s]]
      <4>1. entry[o].bundle = [s \in Surfaces |-> entry[o].bundle[s]]
        BY <1>0 DEF Knows, Typed, BinTyped, Entries, Bundles
      <4>2. Bundled(p, o, entry[o].bundle)
        BY <1>8, <2>2, <3>1 DEF TakeFits, BundleFits
      <4>3. \A s \in Surfaces : entry[o].bundle[s] = IF s = "logs" THEN {} ELSE AbsOwn[s]
        BY <1>2, <3>2, <4>2 DEF Bundled
      <4> QED BY <4>1, <4>3
    <3>5. Reliable(o)'
      <4>1. entry[o].state = "complete"
        BY <1>0, <1>8, <2>2 DEF Knows, BinAt, Commits
      <4> QED BY <1>0, <4>1 DEF Reliable
    <3>6. AbsBin' = AbsBin \cup {entry[o].bundle}
      BY <1>0, <1>3, <1>4, <3>5, BinGains
    <3>7. lock.op = o /\ payload[o].kind = "trash"
      <4>1. entry[o].state # "absent" /\ FileFits(o)
        BY <1>0, <1>8, <2>2 DEF Knows, BinAt, Commits, Consistent, JournalInv
      <4> QED BY <1>0, <2>0, <2>2, <4>1 DEF Knows, FileFits
    <3> QED BY <3>3, <3>4, <3>6, <3>7 DEF Bins
  <2>3. CASE job[p].kind = "restore"
    BY <1>6, <1>7, <1>8, <2>0, <2>3 DEF LedgerAt, AddFits, HasFits
  <2>4. CASE job[p].kind \notin {"delete", "trash", "restore"}
    BY <1>6, <2>0, <2>4
  <2> QED BY <2>1, <2>2, <2>3, <2>4
<1>9. CASE FinalizeStage(p) /\ pc[p] = "fin-stage" /\ EndStage(o) = "committed"
  <2>1. payload[o].kind \notin {"none", "delete", "trash"}
    <3>1. ~Untouched(o) /\ Strategy(payload[o].kind) = "rollforward"
      BY <1>9 DEF EndStage, IsFinal, Final
    <3>2. payload[o].kind # "none"
      <4>1. FileFits(o) /\ journal[o].stage \in Stages
        BY <1>0 DEF Consistent, JournalInv, Typed, Journals
      <4> QED BY <3>1, <4>1 DEF Untouched, FileFits, Stages, Final
    <3> QED BY <3>1, <3>2 DEF Strategy
  <2>2. job[p].kind = payload[o].kind /\ AddFits(p, o)
    BY <1>0, <2>1 DEF Knows, Fits, PayloadFits, LedgerAt
  <2>3. payload[o].kind = "restore" => \A s \in Surfaces : Has(o, s)
    BY <1>9, <2>2 DEF AddFits, HasFits, Restores
  <2> QED BY <1>6, <1>7, <2>1, <2>2, <2>3
<1> QED BY <1>0, <1>8, <1>9 DEF EndsAs, Commits
(* A purge deletes its logs at once.                                       *)
LEMMA PurgeMaps ==
  ASSUME ReleaseSucceeds, QuietCodex, Sound, Sound', NEW p \in Procs, OperationStep(p) \/ Crash(p),
         NEW o, Knows(p, o), live' # live, payload[o].kind = "purge", lock'.op = o, AbsBin' = AbsBin
  PROVE  Rests \/ DropsLogs(o)
<1> USE JobFunction DEF Knows
<1>0. /\ Consistent /\ FromInv /\ LogsInv /\ Paid /\ Paid'
      /\ live \in Images /\ OldImage(live)' /\ Surfaces = Quiet
  BY DEF Sound, Consistent, Paid, RollbackInv, Typed, DataTyped, OldInv, QuietCodex, Quiet
<1>1. Writes(p)
  BY OthersReadOnly
<1>2. payload' = payload /\ job[p].kind = "purge" /\ pc[p] \in WritingAt \cup {"undo", "purge-logs"}
  BY <1>1, WritersWork DEF Fits, PayloadFits
<1>3. PurgeLogs(p) \/ RecoverSurface(p)
  BY <1>1, <1>2 DEF Writes, RemoveFromIndex, RemoveFromGlobalState, UndoGlobalState, RemoveFile,
                    RemoveRows, RemoveLogs, UndoSurface, RestoreText, RestoreRows, RemoveGoals, UndoRestore,
                    Fits, KindFits, CommitAt, RestoringAt, KindFits, UndoIsCleanup
<1>4. /\ \A s \in Surfaces \ {"logs"} : live'[s].own = live[s].own
      /\ live'["logs"].own \subseteq live["logs"].own
  <2>1. CASE PurgeLogs(p)
    <3>1. live' = [live EXCEPT !["logs"].own = {}]
      BY <2>1 DEF PurgeLogs
    <3> QED BY <1>0, <3>1, SurfacesNamed DEF Images, Value
  <2>2. CASE RecoverSurface(p)
    <3> PICK s \in First(job[p].todo, RecoveryRank) : live' = [live EXCEPT ![s] = Desired(p, s)]
      BY <2>2 DEF RecoverSurface
    <3>1. s = "logs" /\ s \in Surfaces
      BY <1>2, SurfacesNamed DEF First, LogsFit
    <3>2. Desired(p, s).own = live[s].own \ job[p].bundle[s]
      BY <1>0, <1>2, <3>1 DEF Desired, Images, Value
    <3> QED BY <1>0, <3>1, <3>2 DEF Images
  <2> QED BY <1>3, <2>1, <2>2
<1>5. \A s \in Surfaces : AbsOwn[s] = live[s].own /\ AbsOwn'[s] = live'[s].own
  <2>1. \A s \in Surfaces : AbsOwn[s] = Shown(o, s)
    BY <1>0, OwnShown DEF OwnByOperation
  <2>2. \A s \in Surfaces : AbsOwn'[s] = Shown(o, s)'
    BY <1>0, OwnShownNext DEF OwnByOperation
  <2> QED BY <1>2, <2>1, <2>2 DEF Shown, Shows
<1>6. CASE live'["logs"].own = live["logs"].own
  <2>1. \A s \in Surfaces : AbsOwn'[s] = AbsOwn[s]
    BY <1>4, <1>5, <1>6
  <2>2. AbsOwn' = [s \in Surfaces |-> AbsOwn'[s]]
    BY OwnShownNext DEF OwnByOperation
  <2> QED BY <2>1, <2>2, OwnOnSurfaces DEF Rests
<1>7. ASSUME NEW r \in live["logs"].own, r \notin live'["logs"].own PROVE DropsLogs(o)
  <2>1. LogsArePurged(live, payload[o].from)
    BY <1>0, <1>7, LogsDeleted
  <2>2. \A s \in SessionFiles \cup Indexes \cup {"sqlite-state"} : AbsOwn[s] = {}
    BY <1>5, <2>1, SurfacesNamed DEF LogsArePurged, SessionKnown
  <2>3. live'["logs"].own = {}
    <3>1. live["logs"].own \subseteq {0}
      BY <1>0, SurfacesNamed DEF OldImage
    <3> QED BY <1>4, <1>7, <3>1
  <2>4. \A s \in Surfaces : AbsOwn'[s] = IF s = "logs" THEN {} ELSE AbsOwn[s]
    BY <1>4, <1>5, <2>3
  <2> QED BY <2>1, <2>2, <2>4 DEF LogsArePurged, DropsLogs
<1> QED BY <1>4, <1>6, <1>7

(* What a cleanup writes when nothing fails holds no record that was not   *)
(* there.                                                                  *)
LEMMA OnlyClears ==
  ASSUME NoFaults, Typed, NEW p \in Procs, CleanFits(p), HeldFits(p), Writes(p),
         job[p].kind = "cleanup-index", pc[p] = "undo" => job[p].todo # {},
         pc[p] \in {"commit", "remove", "mark", "undo-global-state", "undo", "rec"}, NEW t \in Indexes
  PROVE  live'[t].own \subseteq live[t].own
<1> USE JobFunction
<1>0. /\ live \in [Surfaces -> Value] /\ Cleans(p) /\ pc[p] \in {"remove", "rec"} /\ t \in Surfaces
  BY IndexNames DEF Typed, DataTyped, Images, Cleans, CleanFits, HeldFits, Writes, RemoveFromIndex,
     RemoveFromGlobalState, UndoGlobalState, RemoveFile, RemoveRows, RemoveLogs, UndoSurface, RestoreText,
     RestoreRows, RemoveGoals, UndoRestore, PurgeLogs, RecoverSurface
<1>1. \A s \in Indexes : \A v : Removed(s, v).own = {}
  BY IndexNames DEF Removed
<1>2. ASSUME NEW s \in Indexes, NEW v, v.own = {}, live' = live \/ live' = [live EXCEPT ![s] = v]
      PROVE  live'[t].own \subseteq live[t].own
  BY <1>0, <1>2
<1>3. CASE pc[p] = "remove"
  <2>1. job[p].cur \subseteq Indexes
    BY <1>0, <1>3 DEF CleanFits
  <2>2. job[p].cur \cap Files = {} /\ job[p].cur \cap Databases = {} /\ "global-state" \notin job[p].cur
    BY <2>1, IndexNames, FilesAssumption DEF Indexes
  <2>3. RemoveFromIndex(p)
    BY <1>3, <2>2 DEF Writes, RemoveFromGlobalState, UndoGlobalState, RemoveFile, RemoveRows, RemoveLogs,
       UndoSurface, RestoreText, RestoreRows, RemoveGoals, UndoRestore, PurgeLogs, RecoverSurface
  <2>4. \E s \in Indexes : \E v : v = Removed(s, job[p].snap[s]) /\ (live' = live \/ live' = [live EXCEPT ![s] = v])
    BY <2>3 DEF RemoveFromIndex, TakeOut
  <2> QED BY <1>1, <1>2, <2>4
<1>4. CASE pc[p] = "rec"
  <2>1. job[p].todo \subseteq Indexes /\ RecoverSurface(p)
    BY <1>0, <1>4 DEF CleanFits, Writes, RemoveFromIndex, RemoveFromGlobalState, UndoGlobalState, RemoveFile,
       RemoveRows, RemoveLogs, RestoreText, RestoreRows, RemoveGoals, UndoRestore, PurgeLogs, UndoSurface
  <2>2. \A s \in Indexes : Desired(p, s) = Removed(s, job[p].snap[s])
    BY <1>0, IndexNames DEF Desired, Cleans, Strategy, StateAfter, After
  <2>3. \E s \in Indexes : \E v : v = Desired(p, s) /\ (live' = live \/ live' = [live EXCEPT ![s] = v])
    BY <2>1 DEF RecoverSurface, First
  <2> QED BY <1>1, <1>2, <2>2, <2>3
<1> QED BY <1>0, <1>3, <1>4

(* A cleanup at work leaves all but the indexes alone.                     *)
LEMMA CleanupMaps ==
  ASSUME ReleaseSucceeds, Sound, Sound', NEW p \in Procs, CleanFits(p), NoFaults => HeldFits(p),
         OperationStep(p) \/ Crash(p), NEW o, Knows(p, o), live' # live,
         payload[o].kind = "cleanup-index", lock'.op = o, AbsBin' = AbsBin
  PROVE  Cleaning(o)
<1> USE JobFunction DEF Knows
<1>0. Consistent /\ Paid /\ Paid'
  BY DEF Sound, Consistent, Paid, RollbackInv
<1>1. Writes(p)
  BY OthersReadOnly
<1>2. /\ payload' = payload /\ job[p].kind = "cleanup-index"
      /\ pc[p] \in WritingAt \cup {"undo", "purge-logs"} /\ (pc[p] = "undo" => job[p].todo # {})
  BY <1>1, WritersWork DEF Fits, PayloadFits
<1>3. ~Deletes(p) /\ pc[p] \in {"commit", "remove", "mark", "undo-global-state", "undo", "rec"}
  BY <1>2 DEF Deletes, Fits, KindFits, WritingAt, PaidAt, CommittingAt, RemovingAt, DeleteAt, PurgingAt
<1>4. ASSUME NEW t \in Surfaces \ Indexes PROVE live'[t] = live[t]
  <2>0. /\ live \in [Surfaces -> Value] /\ Cleans(p) /\ pc[p] \in {"remove", "undo", "rec"}
    BY <1>0, <1>1, <1>2, <1>3 DEF Consistent, Typed, DataTyped, Images, Cleans, CleanFits, Writes, RemoveFromIndex,
       RemoveFromGlobalState, UndoGlobalState, RemoveFile, RemoveRows, RemoveLogs, UndoSurface, RestoreText,
       RestoreRows, RemoveGoals, UndoRestore, PurgeLogs, RecoverSurface
  <2>1. CASE pc[p] = "remove"
    <3>1. job[p].cur \subseteq Indexes
      BY <2>0, <2>1 DEF CleanFits
    <3>2. job[p].cur \cap Files = {} /\ job[p].cur \cap Databases = {} /\ "global-state" \notin job[p].cur
      BY <3>1, IndexNames, FilesAssumption DEF Indexes
    <3>3. RemoveFromIndex(p)
      BY <1>1, <2>1, <3>2 DEF Writes, RemoveFromGlobalState, UndoGlobalState, RemoveFile, RemoveRows, RemoveLogs,
         UndoSurface, RestoreText, RestoreRows, RemoveGoals, UndoRestore, PurgeLogs, RecoverSurface
    <3>4. \E s \in job[p].cur : \E v : live' = live \/ live' = [live EXCEPT ![s] = v]
      BY <3>3 DEF RemoveFromIndex, TakeOut
    <3> QED BY <2>0, <3>1, <3>4
  <2>2. CASE pc[p] = "undo"
    <3>1. job[p].todo \subseteq Indexes /\ UndoSurface(p)
      BY <1>1, <2>0, <2>2 DEF CleanFits, Writes, RemoveFromIndex, RemoveFromGlobalState, UndoGlobalState, RemoveFile,
         RemoveRows, RemoveLogs, RestoreText, RestoreRows, RemoveGoals, UndoRestore, PurgeLogs, RecoverSurface
    <3>2. \E s \in job[p].todo : \E v : live' = live \/ live' = [live EXCEPT ![s] = v]
      BY <3>1 DEF UndoSurface, PutBack, First
    <3> QED BY <2>0, <3>1, <3>2
  <2>3. CASE pc[p] = "rec"
    <3>1. job[p].todo \subseteq Indexes /\ RecoverSurface(p)
      BY <1>1, <2>0, <2>3 DEF CleanFits, Writes, RemoveFromIndex, RemoveFromGlobalState, UndoGlobalState, RemoveFile,
         RemoveRows, RemoveLogs, RestoreText, RestoreRows, RemoveGoals, UndoRestore, PurgeLogs, UndoSurface
    <3>2. \E s \in job[p].todo : \E v : live' = live \/ live' = [live EXCEPT ![s] = v]
      BY <3>1 DEF RecoverSurface, First
    <3> QED BY <2>0, <3>1, <3>2
  <2> QED BY <2>0, <2>1, <2>2, <2>3
<1>5. ASSUME NEW t \in Surfaces \ Indexes PROVE AbsOwn'[t] = AbsOwn[t]
  <2>1. AbsOwn[t] = Shown(o, t) /\ AbsOwn'[t] = Shown(o, t)'
    BY <1>0, OwnShown, OwnShownNext DEF OwnByOperation
  <2>2. live'[t] = live[t]
    BY <1>4
  <2> QED BY <1>2, <2>1, <2>2 DEF Shown, Shows
<1>6. journal[o].stage \notin Final
  BY <1>3 DEF Fits, StageFits, LockingAt, ClosingAt
<1>7. ASSUME NoFaults, NEW t \in Indexes PROVE AbsOwn'[t] \subseteq AbsOwn[t]
  <2>1. live'[t].own \subseteq live[t].own
    BY <1>0, <1>1, <1>2, <1>3, <1>7, OnlyClears DEF Consistent
  <2>2. AbsOwn[t] = Shown(o, t) /\ AbsOwn'[t] = Shown(o, t)'
    BY <1>0, OwnShown, OwnShownNext, IndexNames DEF OwnByOperation
  <2> QED BY <1>2, <2>1, <2>2 DEF Shown, Shows
<1> QED BY <1>5, <1>6, <1>7 DEF Cleaning, Cleanup

(* Every step of a process is one of the ledger's, or none.                *)
Mutates ==
  \/ Rests \/ GivesBack
  \/ \E o \in OpIds : Empties(o) \/ Bins(o) \/ DropsLogs(o) \/ DropsEntry(o) \/ Cleaning(o)
LEMMA StepMaps ==
  ASSUME WritesAreClean, ReleaseSucceeds, QuietCodex, Sound, Sound', CleanInv, HeldInv,
         NEW p \in Procs, OperationStep(p) \/ Crash(p)
  PROVE  Mutates
<1> USE DEF Mutates
<1>0. Typed /\ Typed' /\ Consistent /\ Ownership /\ Paid /\ Paid'
  BY DEF Sound, Consistent, Paid, RollbackInv
<1>1. CASE entry' # entry
  BY <1>0, <1>1, BinMoves DEF Rests, DropsEntry
<1>2. CASE \E o \in OpIds : journal[o].stage \notin Final /\ journal'[o].stage = "committed"
  BY <1>0, <1>2, CommitMaps
<1>3. CASE entry' = entry /\ \A o \in OpIds : journal'[o].stage = "committed" => journal[o].stage \in Final
  <2>1. AbsBin' = AbsBin
    <3>1. \A x \in OpIds : (journal'[x].stage = "committed" <=> journal[x].stage = "committed")
      BY <1>0, <1>3, JournalStep DEF Final
    <3>2. \A x \in OpIds : (Reliable(x)' <=> Reliable(x)) /\ (Reliable(x) => entry'[x] = entry[x])
      BY <1>3, <3>1 DEF Reliable
    <3> QED BY <3>2, BinStays
  <2>2. CASE ~Working(p)
    <3>1. UNCHANGED <<live, journal, payload, entry>>
      BY <1>0, <2>2, IdlersWait, IdleKeepEntries DEF BeginRecovery, data, disk, bin
    <3> QED BY <3>1, LedgerRests DEF Rests
  <2>3. CASE Working(p)
    <3> PICK o : o = job[p].op
      OBVIOUS
    <3>1. Knows(p, o) /\ (SameShown(o) \/ Settles(p, o))
      BY <2>3, WorkerKnows, WorkLedger
    <3>2. CASE lock'.op # o
      <4>1. ~CreateLock(p)
        BY <2>3 DEF CreateLock, ReadyToLock, Working
      <4>2. ReleaseUnlock(p) \/ FinalizeUnlock(p)
        BY <1>0, <3>1, <3>2, <4>1, LockChanges DEF Knows
      <4>3. UNCHANGED <<live, journal, payload, entry>>
        BY <4>2 DEF ReleaseUnlock, FinalizeUnlock, data, bin
      <4> QED BY <4>3, LedgerRests DEF Rests
    <3>3. CASE lock'.op = o /\ SameShown(o)
      BY <1>0, <2>1, <3>1, <3>3, OwnStays DEF Knows, Rests
    <3>4. ~(ReleaseStage(p) /\ Commits(p))
      <4>1. ASSUME ReleaseStage(p), Commits(p) PROVE FALSE
        <5>1. journal[o].stage \notin Final
          BY <3>1, <4>1 DEF Commits, Knows, Fits, StageFits, LockingAt, ClosingAt
        <5>2. \E m : journal' = [journal EXCEPT ![o] = [stage |-> "committed", marks |-> m]]
          BY <4>1, ReleaseIsQuiet DEF ReleaseStage, Commits, WriteJournal, Effect
        <5>3. journal'[o].stage = "committed"
          BY <3>1, <5>2 DEF Knows, Typed
        <5> QED BY <1>3, <3>1, <5>1, <5>3 DEF Knows
      <4> QED BY <4>1
    <3>5. CASE FinalizeStage(p) /\ Restores(o)
      <4>1. \/ journal' = journal
            \/ journal' = [journal EXCEPT ![o] = [stage |-> job[p].rel.stage, marks |-> journal[o].marks]]
        BY <3>5 DEF FinalizeStage, WriteJournal
      <4>2. job[p].rel.stage = "committed" /\ journal[o].stage \notin Final
        <5>1. job[p].rel.stage = EndStage(o)
          BY <3>1, <3>5 DEF Knows, LedgerAt, ResultFits, FinalizeStage
        <5> QED BY <3>5, <5>1 DEF EndStage, IsFinal, Untouched, Strategy, Restores
      <4>3. journal' = journal
        BY <1>3, <3>1, <4>1, <4>2 DEF Knows, Typed
      <4>4. UNCHANGED <<live, payload, entry>>
        BY <3>5 DEF FinalizeStage, data, bin
      <4> QED BY <4>3, <4>4, LedgerRests DEF Rests
    <3>6. CASE lock'.op = o /\ live' # live /\ payload[o].kind = "purge"
      BY <2>1, <3>1, <3>6, PurgeMaps DEF Knows
    <3>7. CASE lock'.op = o /\ live' # live /\ payload[o].kind = "cleanup-index"
      BY <2>1, <3>1, <3>7, CleanupMaps DEF Knows, CleanInv, HeldInv
    <3> QED BY <3>1, <3>2, <3>3, <3>4, <3>5, <3>6, <3>7 DEF Settles
  <2> QED BY <2>2, <2>3
<1> QED BY <1>1, <1>2, <1>3 DEF Final
-----------------------------------------------------------------------------
(* The ledger.                                                             *)
LEMMA OwnOld ==
  ASSUME QuietCodex, Sound, NEW s \in Surfaces
  PROVE  AbsOwn[s] \subseteq {0}
<1>1. live[s].own \subseteq {0} /\ \A o \in OpIds : payload[o].before[s].own \subseteq {0}
  BY DEF Sound, OldInv, OldFile, OldImage, QuietCodex, Quiet
<1> QED BY <1>1 DEF AbsOwn

LEMMA LedgerInit == Init => Ledger!Init
<1> SUFFICES ASSUME Init PROVE Ledger!Init
  OBVIOUS
<1> PICK k \in 0 .. InitialEntries : InitFrom(k)
  BY DEF Init
<1>1. \A o \in OpIds : ~Restores(o) /\ ~RollsBack(o)
  BY DEF Init, NoPayload, Restores, RollsBack, Strategy
<1>2. AbsOwn = [s \in Surfaces |-> live[s].own]
  BY <1>1 DEF AbsOwn
<1>3. CASE k = 0
  <2>1. \A o \in OpIds : ~Reliable(o)
    BY <1>3 DEF InitFrom, Reliable, NoEntry, OpIds
  <2>2. AbsBin = {}
    BY <2>1, BinIsReliable DEF BinByEntries
  <2>3. AbsOwn = [s \in Surfaces |-> {0}]
    BY <1>2, <1>3 DEF InitFrom
  <2> QED BY <2>2, <2>3 DEF Ledger!Init, Ledger!Live
<1>4. CASE k # 0
  <2>1. 1 \in OpIds /\ 1 <= k
    BY <1>4, BoundsAssumption DEF OpIds
  <2>2. \A o \in OpIds : (Reliable(o) <=> o <= k) /\ (o <= k => entry[o].bundle = Everything)
    BY DEF InitFrom, Reliable, NoEntry, NoJournal
  <2>3. AbsBin = {Everything}
    BY <2>1, <2>2, BinIsReliable DEF BinByEntries
  <2>4. Everything = Ledger!NotLogs({0})
    BY DEF Everything, Ledger!NotLogs
  <2>5. AbsOwn = [s \in Surfaces |-> IF s = "logs" THEN {0} ELSE {}]
    BY <1>2, <1>4 DEF InitFrom
  <2>6. AbsOwn = [Ledger!NotLogs({}) EXCEPT !["logs"] = {0}]
    BY <2>5 DEF Ledger!NotLogs
  <2> QED BY <2>3, <2>4, <2>6 DEF Ledger!Init, Ledger!Trashed
<1> QED BY <1>3, <1>4

(* Each step of the ledger.                                                *)
LEMMA MapsToLedger ==
  ASSUME QuietCodex, Sound,
         \/ GivesBack
         \/ \E o \in OpIds : \/ Empties(o) \/ Bins(o) \/ DropsLogs(o) \/ DropsEntry(o)
                            \/ (NoFaults /\ Cleaning(o))
  PROVE  Ledger!Next
<1>0. 0 \in Records /\ AbsOwn' = [s \in Surfaces |-> AbsOwn'[s]]
  BY OwnShownNext, BoundsAssumption DEF OwnByOperation, Records
<1>1. ASSUME NEW s \in Surfaces PROVE Ledger!UpTo(0, AbsOwn[s]) = AbsOwn[s]
  BY OwnOld DEF Ledger!UpTo
<1>2. ASSUME NEW o \in OpIds, Bins(o) PROVE Ledger!Next
  <2> DEFINE b == [s \in Surfaces |-> IF s = "logs" THEN {} ELSE AbsOwn[s]]
  <2>1. AbsOwn' = Ledger!Without(0, Surfaces \ {"logs"})
    BY <1>0, <1>1, <1>2 DEF Bins, Ledger!Without
  <2>2. b = [s \in Surfaces |-> IF s \in Surfaces \ {"logs"} THEN Ledger!UpTo(0, AbsOwn[s]) ELSE {}]
    BY <1>1
  <2>3. AbsBin' = AbsBin \cup {b}
    BY <1>2 DEF Bins
  <2> HIDE DEF b
  <2>4. Ledger!Trash(0)
    BY <2>1, <2>2, <2>3 DEF Ledger!Trash
  <2> QED BY <1>0, <2>4 DEF Ledger!Next
<1>3. CASE GivesBack
  <2> PICK b \in AbsBin : (\A s \in Surfaces : AbsOwn'[s] = AbsOwn[s] \cup b[s]) /\ AbsBin' = AbsBin
    BY <1>3 DEF GivesBack
  <2>1. Ledger!Restore(b)
    BY <1>0 DEF Ledger!Restore
  <2> QED BY <2>1 DEF Ledger!Next
<1>4. ASSUME NEW o \in OpIds, Empties(o) PROVE Ledger!Next
  <2>1. AbsOwn' = Ledger!Without(0, Surfaces)
    BY <1>0, <1>1, <1>4 DEF Empties, Ledger!Without
  <2>2. Ledger!Delete(0)
    BY <1>4, <2>1 DEF Empties, Ledger!Delete
  <2> QED BY <1>0, <2>2 DEF Ledger!Next
<1>5. ASSUME NEW o \in OpIds, DropsLogs(o) PROVE Ledger!Next
  <2>1. Cardinality(AbsBin) <= 1
    <3>1. ValidEntries \subseteq {payload[o].from}
      BY <1>5 DEF DropsLogs
    <3>2. AbsBin = {} \/ \E b : AbsBin = {b}
      <4>1. AbsBin \subseteq {entry[payload[o].from].bundle}
        BY <3>1 DEF AbsBin
      <4> QED BY <4>1
    <3>3. CASE AbsBin = {}
      <4>1. Cardinality(AbsBin) = 0
        BY <3>3, FS_EmptySet, Zenon
      <4> QED BY <4>1
    <3>4. CASE \E b : AbsBin = {b}
      <4> PICK b : AbsBin = {b}
        BY <3>4
      <4>1. Cardinality({b}) = 1
        BY FS_Singleton, Zenon
      <4> QED BY <4>1
    <3> QED BY <3>2, <3>3, <3>4, Zenon
  <2>2. AbsOwn' = [AbsOwn EXCEPT !["logs"] = {}]
    BY <1>0, <1>5, OwnOnSurfaces DEF DropsLogs
  <2>3. AbsBin' = AbsBin /\ \A s \in SessionFiles \cup Indexes \cup {"sqlite-state"} : AbsOwn[s] = {}
    BY <1>5 DEF DropsLogs
  <2>4. Ledger!Cardinality(AbsBin) = Cardinality(AbsBin)
    BY DEF Cardinality, Ledger!Cardinality
  <2>5. Ledger!ForgetLogs
    BY <2>1, <2>2, <2>3, <2>4, Zenon DEF Ledger!ForgetLogs
  <2> QED BY <2>5 DEF Ledger!Next
<1>6. ASSUME NEW o \in OpIds, DropsEntry(o) PROVE Ledger!Next
  <2> PICK b \in AbsBin : AbsBin' = AbsBin \ {b} /\ AbsOwn' = AbsOwn
    BY <1>6 DEF DropsEntry
  <2>1. Ledger!ForgetEntry(b)
    BY DEF Ledger!ForgetEntry
  <2> QED BY <2>1 DEF Ledger!Next
<1>7. ASSUME NEW o \in OpIds, NoFaults, Cleaning(o) PROVE Ledger!Next
  <2> DEFINE T == {s \in Indexes : AbsOwn'[s] # AbsOwn[s]}
  <2>1. ASSUME NEW s \in Surfaces PROVE AbsOwn'[s] = IF s \in T THEN AbsOwn[s] \ AbsOwn[s] ELSE AbsOwn[s]
    <3>1. CASE s \in T
      <4>1. AbsOwn'[s] \subseteq AbsOwn[s] /\ AbsOwn[s] \subseteq {0} /\ AbsOwn'[s] # AbsOwn[s]
        BY <1>7, <3>1, OwnOld DEF Cleaning
      <4> QED BY <3>1, <4>1
    <3>2. CASE s \notin T
      BY <1>7, <3>2 DEF Cleaning
    <3> QED BY <3>1, <3>2
  <2>2. T \in SUBSET Indexes
    OBVIOUS
  <2> HIDE DEF T
  <2>3. AbsOwn' = Ledger!Without(0, T)
    BY <1>0, <1>1, <2>1 DEF Ledger!Without
  <2>4. Ledger!Cleanup(0)
    BY <1>7, <2>2, <2>3 DEF Cleaning, Ledger!Cleanup
  <2> QED BY <1>0, <2>4 DEF Ledger!Next
<1> QED BY <1>2, <1>3, <1>4, <1>5, <1>6, <1>7

(* Every step, whoever takes it.                                           *)
LEMMA NextMaps ==
  ASSUME WritesAreClean, ReleaseSucceeds, QuietCodex, Sound, Sound', CleanInv, HeldInv, [Next]_vars
  PROVE  Mutates
<1>1. ~CodexStep
  BY DEF QuietCodex, CodexStep, CodexAdds, CodexChangesOthers
<1>2. CASE UNCHANGED vars
  <2>1. UNCHANGED <<live, journal, payload, entry>>
    BY <1>2 DEF vars, data, disk, bin
  <2> QED BY <2>1, LedgerRests DEF Rests, Mutates
<1> QED BY <1>1, <1>2, StepMaps DEF Next

-----------------------------------------------------------------------------
(* The session index and the history lose and get back the selection       *)
(* together, in every entry, and for the user but in the middle of a       *)
(* cleanup.                                                                *)
Agrees(f) == f["session-index"] = {} <=> f["history"] = {}
Halfway   == \E o \in OpIds : Cleanup(o)
AgreeInv  == (Halfway \/ Agrees(AbsOwn)) /\ \A b \in AbsBin : Agrees(b)
WholeInv  == Sound /\ CleanInv /\ HeldInv /\ AgreeInv

LEMMA AgreeInit == Init => AgreeInv
<1> SUFFICES ASSUME Ledger!Init PROVE AgreeInv
  BY LedgerInit
<1>1. {"session-index", "history"} \subseteq Surfaces /\ "logs" \notin {"session-index", "history"}
  BY IndexNames
<1>2. CASE Ledger!Live
  BY <1>1, <1>2 DEF Ledger!Live, AgreeInv, Agrees
<1>3. CASE Ledger!Trashed
  BY <1>1, <1>3 DEF Ledger!Trashed, Ledger!NotLogs, AgreeInv, Agrees
<1> QED BY <1>2, <1>3 DEF Ledger!Init
LEMMA CleanInit == Init => CleanInv
BY DEF Init, CleanInv, CleanFits, Cleans, CleanRecord, NoJob, NoPayload

(* Steps that are not a cleanup's keep the indexes together.               *)
LEMMA AgreeStep ==
  ASSUME Paid, AgreeInv, Mutates
  PROVE  (Halfway \/ Agrees(AbsOwn)') /\ \A b \in AbsBin' : Agrees(b)
<1>0. {"session-index", "history"} \subseteq Surfaces /\ "logs" \notin {"session-index", "history"}
  BY IndexNames
<1> DEFINE h == "history"
           i == "session-index"
           Kept2 == (Halfway \/ Agrees(AbsOwn)') /\ \A b \in AbsBin' : Agrees(b)
<1>1. CASE Rests
  BY <1>1 DEF Rests, AgreeInv, Agrees
<1>2. ASSUME NEW o \in OpIds, Bins(o) PROVE Kept2
  <2> DEFINE b == [x \in Surfaces |-> IF x = "logs" THEN {} ELSE AbsOwn[x]]
  <2>1. AbsBin' = AbsBin \cup {b} /\ AbsOwn'[h] = {} /\ AbsOwn'[i] = {}
    BY <1>0, <1>2 DEF Bins
  <2>2. b[h] = AbsOwn[h] /\ b[i] = AbsOwn[i]
    BY <1>0
  <2>3. ~Halfway
    BY <1>2 DEF Bins, Halfway, Cleanup, Paid, PaidOff
  <2> HIDE DEF b
  <2> QED BY <2>1, <2>2, <2>3 DEF AgreeInv, Agrees
<1>3. CASE GivesBack
  <2> PICK b \in AbsBin : (\A s \in Surfaces : AbsOwn'[s] = AbsOwn[s] \cup b[s]) /\ AbsBin' = AbsBin
    BY <1>3 DEF GivesBack
  <2>1. AbsOwn'[h] = AbsOwn[h] \cup b[h] /\ AbsOwn'[i] = AbsOwn[i] \cup b[i]
    BY <1>0
  <2>2. (Halfway \/ Agrees(AbsOwn)) /\ Agrees(b)
    BY DEF AgreeInv
  <2>3. Halfway \/ Agrees(AbsOwn)'
    BY <2>1, <2>2 DEF Agrees
  <2> QED BY <2>3 DEF AgreeInv
<1>4. ASSUME NEW o \in OpIds, Empties(o) PROVE Kept2
  <2>1. AbsBin' = AbsBin /\ AbsOwn'[h] = {} /\ AbsOwn'[i] = {}
    BY <1>0, <1>4 DEF Empties
  <2> QED BY <2>1 DEF AgreeInv, Agrees
<1>5. ASSUME NEW o \in OpIds, DropsLogs(o) PROVE Kept2
  <2>1. AbsBin' = AbsBin /\ AbsOwn'[h] = AbsOwn[h] /\ AbsOwn'[i] = AbsOwn[i]
    BY <1>0, <1>5 DEF DropsLogs
  <2> QED BY <2>1 DEF AgreeInv, Agrees
<1>6. ASSUME NEW o \in OpIds, DropsEntry(o) PROVE Kept2
  <2>1. AbsBin' \subseteq AbsBin /\ AbsOwn' = AbsOwn
    BY <1>6 DEF DropsEntry
  <2> QED BY <2>1 DEF AgreeInv, Agrees
<1>7. ASSUME NEW o \in OpIds, Cleaning(o) PROVE Kept2
  BY <1>7 DEF Cleaning, Halfway, AgreeInv
<1> QED BY <1>1, <1>2, <1>3, <1>4, <1>5, <1>6, <1>7 DEF Mutates

(* A cleanup gives its payload away only when it has ended.                *)
LEMMA CleanupLasts ==
  ASSUME ReleaseSucceeds, Sound, CleanInv, NEW p \in Procs, OperationStep(p) \/ Crash(p),
         NEW o \in OpIds, Cleanup(o)
  PROVE  payload'[o].kind = "cleanup-index"
<1>0. Typed /\ Consistent /\ Paid
  BY DEF Sound, Consistent, RollbackInv, Paid
<1>1. CASE payload' = payload
  BY <1>1 DEF Cleanup
<1>2. CASE Pays(p)
  <2>1. Working(p)
    BY <1>2 DEF Pays, Working, WritePayload, WriteTrashPayload, WriteCleanupPayload, WriteRestorePayload,
       WritePurgePayload, ReleasePayload, FinalizePayload
  <2>2. Knows(p, job[p].op) /\ o = job[p].op
    BY <1>0, <2>1, WorkerKnows DEF Knows, Paid, PaidOff, Cleanup
  <2>3. Cleans(p) /\ payload[o].covers # {}
    BY <2>2, IndexNames DEF Knows, Fits, PayloadFits, Cleanup, Cleans, CleanInv, CleanRecord
  <2>4. pc[p] \notin UncoveredAt \cup ClosingAt
    BY <2>2, <2>3 DEF Knows, RollbackAt, EndingFits, Fits, StageFits, Cleanup
  <2>5. FALSE
    BY <1>2, <2>2, <2>3, <2>4 DEF Pays, WritePayload, WriteTrashPayload, WriteCleanupPayload, WriteRestorePayload,
       WritePurgePayload, ReleasePayload, FinalizePayload, UncoveredAt, ClosingAt, MoveAt
  <2> QED BY <2>5
<1> QED BY <1>1, <1>2, PayloadWriters DEF Pays

(* It ends with both indexes cleared, or with both as they were.           *)
LEMMA CleanupEnds ==
  ASSUME ReleaseSucceeds, Sound, CleanInv, Paid', NEW p \in Procs, OperationStep(p) \/ Crash(p),
         NEW o \in OpIds, Cleanup(o), ~Cleanup(o)'
  PROVE  Agrees(AbsOwn)'
<1>0. Typed /\ Consistent /\ Paid
  BY DEF Sound, Consistent, RollbackInv, Paid
<1>1. journal[o].stage \notin Final /\ journal'[o].stage \in Final
  BY CleanupLasts DEF Cleanup
<1>2. Knows(p, o) /\ EndsAs(p, o) /\ live' = live
  BY <1>1, OperationEnds
<1>3. lock' = lock
  BY <1>2 DEF EndsAs, ReleaseStage, FinalizeStage
<1>4. \A s \in Surfaces : AbsOwn'[s] = live[s].own
  BY <1>0, <1>1, <1>2, <1>3, OwnCommitted DEF Knows
<1>5. CleanFits(p) /\ Cleans(p) /\ job[p].op = o
  BY <1>2 DEF CleanInv, Knows, Fits, PayloadFits, Cleanup, Cleans
<1>6. Cleared({}) \/ InStep(p, {})
  BY <1>1, <1>2, <1>5 DEF EndsAs, CleanFits, Commits, Returns, Final
<1>7. live["session-index"].own = {} <=> live["history"].own = {}
  BY <1>6, IndexNames DEF Cleared, Gone, InStep, Back
<1> QED BY <1>4, <1>7, IndexNames DEF Agrees

(* Before its payload is on disk nothing is half done.                     *)
LEMMA CleanupBegins ==
  ASSUME ReleaseSucceeds, WholeInv, NEW p \in Procs, pc[p] = "acquired", Cleans(p)
  PROVE  InStep(p, {})
<1>0. Paid /\ Knows(p, job[p].op) /\ AgreeInv /\ CleanInv
  BY WorkerKnows DEF WholeInv, Sound, RollbackInv, Paid, Working
<1> PICK o \in OpIds : o = job[p].op /\ lock.op = o
  BY <1>0 DEF Knows
<1>1. payload[o].kind = "none"
  BY <1>0, IndexNames DEF Knows, RollbackAt, EndingFits, UncoveredAt, Fits, PayloadFits, Cleans, CleanInv, CleanRecord
<1>2. ~Halfway
  BY <1>0, <1>1 DEF Halfway, Cleanup, Paid, PaidOff
<1>3. \A s \in Surfaces : AbsOwn[s] = live[s].own
  BY <1>0, <1>1, OwnShown, SettledShows DEF OwnByOperation
<1> QED BY <1>0, <1>2, <1>3, IndexNames DEF AgreeInv, Agrees, InStep, Back

(* Every step keeps all of it.                                             *)
LEMMA WholeAlways ==
  ASSUME ReleaseSucceeds, SupervisedRecovery, QuietCodex, WritesAreClean, RenamesAreClean
  PROVE  /\ Init => WholeInv
         /\ WholeInv /\ [Next]_vars => WholeInv' /\ Mutates
<1>1. Init => WholeInv
  BY SoundAlways, CleanInit, HeldInit, AgreeInit DEF WholeInv
<1>2. ASSUME WholeInv, [Next]_vars PROVE WholeInv' /\ Mutates
  <2>1. Sound /\ Sound' /\ CleanInv /\ HeldInv /\ AgreeInv /\ Paid /\ Paid'
    BY <1>2, SoundAlways DEF WholeInv, Sound, RollbackInv, Paid
  <2>2. Mutates
    BY <1>2, <2>1, NextMaps
  <2>3. (Halfway \/ Agrees(AbsOwn)') /\ \A b \in AbsBin' : Agrees(b)
    BY <2>1, <2>2, AgreeStep
  <2>4. CASE UNCHANGED vars
    <3>1. UNCHANGED <<live, journal, payload, pc, job>>
      BY <2>4 DEF vars, data, disk, bin
    <3>2. CleanInv'
      BY <2>1, <3>1, CleanKept DEF CleanInv, CleanRecord
    <3>3. Halfway' <=> Halfway
      BY <3>1 DEF Halfway, Cleanup
    <3>4. HeldInv'
      BY <2>1, <3>1, HeldKept DEF HeldInv, PlainInv, Plain
    <3> QED BY <2>1, <2>2, <2>3, <3>2, <3>3, <3>4 DEF WholeInv, AgreeInv
  <2>5. ASSUME NEW p \in Procs, OperationStep(p) \/ Crash(p) PROVE WholeInv' /\ Mutates
    <3>0. Typed /\ KindFits(p)
      BY <2>1 DEF Sound, Consistent, JournalInv, Fits
    <3>1. \A q \in Procs : CleanFits(q)'
      BY <1>2, <2>1, <2>5, CleanStep, CleanupBegins
    <3>2. \A o \in OpIds : CleanRecord(o)'
      BY <2>1, <2>5, <3>0, RecordStep DEF CleanInv
    <3>3. Halfway' \/ Agrees(AbsOwn)'
      BY <2>1, <2>3, <2>5, CleanupEnds DEF Halfway
    <3>4. HeldInv'
      BY <2>1, <2>5, HeldStep
    <3> QED BY <2>1, <2>2, <2>3, <3>1, <3>2, <3>3, <3>4 DEF WholeInv, CleanInv, AgreeInv
  <2>6. ~CodexStep
    BY DEF QuietCodex, CodexStep, CodexAdds, CodexChangesOthers
  <2> QED BY <1>2, <2>4, <2>5, <2>6 DEF Next
<1> QED BY <1>1, <1>2

(* Every behaviour of the processes is one of SelectionLedger: a delete or *)
(* a move to the trash, with all its journals, payloads, writes to one     *)
(* surface after the other, failures, crashes and recoveries, looks to the *)
(* user like one step that removes the selection from all its surfaces     *)
(* (and puts it into the trash), or like none; a restore like one that     *)
(* brings it all back; a purge like one that forgets the logs and one that *)
(* forgets the entry; an index cleanup like one for each index, as long as *)
(* none of its writes fails (deleteSessions and moveSessionsToTrash,       *)
(* restoreTrashEntry, purgeTrashEntry, cleanupSessionIndexes,              *)
(* recoverInterruptedOperation).                                           *)
THEOREM MutationsAreAtomic ==
  ASSUME ReleaseSucceeds, SupervisedRecovery, QuietCodex, WritesAreClean, RenamesAreClean,
         NoCleanups \/ NoFaults
  PROVE  Spec => Atomic
<1>1. Init => WholeInv /\ Ledger!Init
  BY WholeAlways, LedgerInit
<1>2. WholeInv /\ [Next]_vars => WholeInv'
  BY WholeAlways
<1>3. WholeInv /\ [Next]_vars => [Ledger!Next]_<<AbsOwn, AbsBin>>
  <2>1. ASSUME WholeInv, NEW o \in OpIds, Cleaning(o) PROVE NoFaults
    <3>1. Ownership /\ payload[o].kind = "cleanup-index"
      BY <2>1 DEF WholeInv, Sound, Consistent, Cleaning, Cleanup
    <3>2. ~NoCleanups
      BY <3>1 DEF NoCleanups, Ownership, UndoIsCleanup
    <3> QED BY <3>2
  <2>2. WholeInv => Sound
    BY DEF WholeInv
  <2> QED BY <2>1, <2>2, WholeAlways, MapsToLedger DEF Mutates, Rests
<1> QED BY <1>1, <1>2, <1>3, PTL DEF Spec, Atomic, Ledger!Spec
-----------------------------------------------------------------------------
(* What the ledger shows is what is kept: a record is on its surface, can  *)
(* be rolled back or is in a whole entry exactly when the user still owns  *)
(* it or could restore it.                                                 *)
Owned(s, r) == r \in AbsOwn[s] \/ \E b \in AbsBin : r \in b[s]
OwnedIsKept == \A s \in Surfaces, r \in Records : Owned(s, r) => Kept(s, r)

LEMMA LedgerIsKept == OwnedIsKept
<1> SUFFICES ASSUME NEW s \in Surfaces, NEW r \in Records, Owned(s, r)
             PROVE  Kept(s, r)
  BY DEF OwnedIsKept
<1>1. CASE r \in AbsOwn[s]
  <2>1. r \in live[s].own \/ \E o \in OpIds : RollsBack(o) /\ r \in payload[o].before[s].own
    BY <1>1 DEF AbsOwn
  <2> QED BY <2>1 DEF Kept
<1>2. CASE \E b \in AbsBin : r \in b[s]
  <2>1. \E o \in OpIds : Reliable(o) /\ r \in entry[o].bundle[s]
    BY <1>2, BinIsReliable DEF BinByEntries
  <2> QED BY <2>1 DEF Kept, Reliable
<1> QED BY <1>1, <1>2 DEF Owned
LEMMA LedgerIsKeptNext == OwnedIsKept'
BY LedgerIsKept, PTL

(* A record that a pending restore has put on its surface is still in the  *)
(* entry it was taken from.                                                *)
LEMMA KeptIsLedger ==
  ASSUME Sound, NEW s \in Surfaces, NEW r, Kept(s, r)
  PROVE  Owned(s, r)
<1>1. CASE r \in live[s].own /\ r \notin AbsOwn[s]
  <2>1. PICK o \in OpIds : Restores(o) /\ r \in payload[o].moves[s]
    BY <1>1 DEF AbsOwn
  <2>2. lock.op = o
    BY <2>1 DEF Sound, RollbackInv, PaidOff, Restores
  <2>3. payload[o].moves \in AbsBin
    BY <2>1, <2>2, SourceIsReliable DEF Restores
  <2> QED BY <2>1, <2>3 DEF Owned
<1>2. CASE \E o \in OpIds : RollsBack(o) /\ r \in payload[o].before[s].own
  <2>1. r \in AbsOwn[s]
    BY <1>2 DEF AbsOwn
  <2> QED BY <2>1 DEF Owned
<1>3. CASE \E o \in OpIds : Reliable(o) /\ r \in entry[o].bundle[s]
  <2>1. \E b \in AbsBin : r \in b[s]
    BY <1>3, BinIsReliable DEF BinByEntries
  <2> QED BY <2>1 DEF Owned
<1> QED BY <1>1, <1>2, <1>3 DEF Kept, Owned, Reliable

(* What each step of the ledger takes away.                                *)
LEMMA LedgerLoses ==
  ASSUME NEW s \in Surfaces, NEW r, Owned(s, r), Mutates
  PROVE  Owned(s, r)' \/ \E o \in OpIds : LosesForGood(o, s)
<1>0. AbsOwn = [x \in Surfaces |-> AbsOwn[x]]
  BY OwnOnSurfaces
<1>1. CASE Rests
  BY <1>1 DEF Rests, Owned
<1>2. ASSUME NEW o \in OpIds, Bins(o) PROVE Owned(s, r)'
  <2> DEFINE b == [x \in Surfaces |-> IF x = "logs" THEN {} ELSE AbsOwn[x]]
  <2>1. b \in AbsBin' /\ AbsBin \subseteq AbsBin' /\ AbsOwn'[s] = IF s = "logs" THEN AbsOwn[s] ELSE {}
    BY <1>2 DEF Bins
  <2>2. b[s] = IF s = "logs" THEN {} ELSE AbsOwn[s]
    OBVIOUS
  <2> HIDE DEF b
  <2> QED BY <2>1, <2>2 DEF Owned
<1>3. CASE GivesBack
  <2>1. AbsBin' = AbsBin /\ AbsOwn[s] \subseteq AbsOwn'[s]
    BY <1>3 DEF GivesBack
  <2> QED BY <2>1 DEF Owned
<1>4. ASSUME NEW o \in OpIds, Empties(o) PROVE LosesForGood(o, s)
  BY <1>4 DEF Empties, LosesForGood
<1>5. ASSUME NEW o \in OpIds, DropsLogs(o) PROVE Owned(s, r)' \/ LosesForGood(o, s)
  <2>1. CASE s = "logs"
    BY <1>5, <2>1 DEF DropsLogs, LosesForGood
  <2>2. CASE s # "logs"
    <3>1. AbsOwn'[s] = AbsOwn[s] /\ AbsBin' = AbsBin
      BY <1>5, <2>2 DEF DropsLogs
    <3> QED BY <3>1 DEF Owned
  <2> QED BY <2>1, <2>2
<1>6. ASSUME NEW o \in OpIds, DropsEntry(o) PROVE LosesForGood(o, s)
  BY <1>6 DEF DropsEntry, Forgets, LosesForGood
<1>7. ASSUME NEW o \in OpIds, Cleaning(o) PROVE Owned(s, r)' \/ LosesForGood(o, s)
  BY <1>7 DEF Cleaning, Cleanup, LosesForGood, Owned
<1> QED BY <1>1, <1>2, <1>3, <1>4, <1>5, <1>6, <1>7 DEF Mutates

(* No step but the commit of a delete, and a cleanup and a purge at work,  *)
(* loses a record: whatever fails or crashes between two writes, each is   *)
(* on its surface, in the payload a recovery brings it back from, or in a  *)
(* whole entry of the trash (trash.ts:1080-1430, recovery.ts:689-785).     *)
THEOREM OnlyTheseLose ==
  ASSUME ReleaseSucceeds, SupervisedRecovery, QuietCodex, WritesAreClean, RenamesAreClean
  PROVE  Spec => NothingElseIsLost
<1> DEFINE Step == \A s \in Surfaces, r \in Records :
                     Kept(s, r) => Kept(s, r)' \/ \E o \in OpIds : LosesForGood(o, s)
<1>1. Init => WholeInv
  BY WholeAlways
<1>2. WholeInv /\ [Next]_vars => WholeInv'
  BY WholeAlways
<1>3. ASSUME WholeInv, [Next]_vars PROVE Step
  <2> SUFFICES ASSUME NEW s \in Surfaces, NEW r \in Records, Kept(s, r)
               PROVE  Kept(s, r)' \/ \E o \in OpIds : LosesForGood(o, s)
    OBVIOUS
  <2>1. Owned(s, r)
    BY <1>3, KeptIsLedger DEF WholeInv
  <2>2. Owned(s, r)' \/ \E o \in OpIds : LosesForGood(o, s)
    BY <1>3, <2>1, WholeAlways, LedgerLoses
  <2> QED BY <2>2, LedgerIsKeptNext DEF OwnedIsKept
<1> QED BY <1>1, <1>2, <1>3, PTL DEF Spec, NothingElseIsLost

-----------------------------------------------------------------------------
(* With no operation pending, the session index names a session exactly    *)
(* when the history does, after any number of moves, restores, deletes,    *)
(* purges, index cleanups, failed writes, crashes and recoveries: each     *)
(* writes the two files one after the other (delete.ts:705-760 and         *)
(* 952-1066, trash.ts:1607-1718).                                          *)
THEOREM IndexesStayTogether ==
  ASSUME ReleaseSucceeds, SupervisedRecovery, QuietCodex, WritesAreClean, RenamesAreClean
  PROVE  Spec => []IndexesAgree
<1>1. Init => WholeInv
  BY WholeAlways
<1>2. WholeInv /\ [Next]_vars => WholeInv'
  BY WholeAlways
<1>3. ASSUME WholeInv PROVE IndexesAgree
  <2> SUFFICES ASSUME lock.op = 0
               PROVE  live["session-index"].own = {} <=> live["history"].own = {}
    BY DEF IndexesAgree
  <2>1. Paid /\ AgreeInv
    BY <1>3 DEF WholeInv, Sound, RollbackInv, Paid
  <2>2. ~Halfway
    BY <2>1 DEF Halfway, Cleanup, Paid, PaidOff, OpIds
  <2> QED BY <2>1, <2>2, OwnFree, IndexNames DEF AgreeInv, Agrees
<1> QED BY <1>1, <1>2, <1>3, PTL DEF Spec
=============================================================================
