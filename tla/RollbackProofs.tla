--------------------------- MODULE RollbackProofs ---------------------------
(***************************************************************************)
(* What the rollbacks put back, for every set of processes and files and   *)
(* every bound: an operation that ends as rolled back has returned all it  *)
(* recorded, whether its own error handler undid it or a recovery did.     *)
(* The conditions are those of what leaves the surfaces, and two more: a   *)
(* write that reports an error did not take effect, and no cleanups.       *)
(* Second part: what a killed operation leaves is what a recovery of it    *)
(* knows how to handle.  There, errors of writes may lie.                  *)
(***************************************************************************)
EXTENDS DurabilityProofs, TrashProofs

(* A write of a surface that reports an error did not take effect.         *)
WritesAreClean == "surface" \notin LateFaults
(* No cleanups: one takes its before-image ahead of the lock, and when it  *)
(* finds it stale it ends as rolled back without having changed anything.  *)
NoCleanups == "cleanup-index" \notin Kinds

(* What was recorded of the surfaces is there.  A cleanup makes no such    *)
(* promise: it records what was there before it held the lock.             *)
Whole(o) == \A s \in payload[o].covers : Intact(o, s)
GivenBack(o) == payload[o].kind # "cleanup-index" => Whole(o)

(* Where nothing of the surfaces is recorded yet.                          *)
UncoveredAt == {"lock-created", "lock-written", "acquired", "entry", "conflicts", "restore-capture",
                "restore-payload", "purge-payload", "trash-drop-tmp",
                "prepared", "capture", "payload"}
               \cup MoveAt \cup EntryMadeAt

(* A delete: a surface is as captured, or the process knows it changed it. *)
TakingFits(p) ==
  LET o == job[p].op IN
  /\ Deletes(p) /\ pc[p] \in PaidAt \cup {"undo-global-state"} =>
       /\ payload[o].covers = Covered(p)
       /\ \A s \in Covered(p) : /\ payload[o].before[s] = job[p].snap[s]
                                /\ Intact(o, s) \/ s \in job[p].done
  /\ Deletes(p) /\ pc[p] = "undo" =>
       \A s \in payload[o].covers : /\ payload[o].before[s] = job[p].snap[s]
                                    /\ Intact(o, s) \/ s \in job[p].todo
(* Before a transaction runs, both databases are among what is undone.     *)
RowsFit(p) ==
  pc[p] = "remove" /\ Deletes(p) /\ job[p].cur \cap Databases # {} =>
    {"sqlite-goals", "sqlite-state"} \subseteq job[p].done
(* In a recovery it is as recorded, or still to be visited.                *)
ReturningFits(p) ==
  LET o == job[p].op IN
  pc[p] = "rec" => IF Deletes(p) THEN \A s \in payload[o].covers : Intact(o, s) \/ s \in job[p].todo
                                 ELSE job[p].rel.stage # "rolled_back"
(* A restore works on surfaces as it found them.                           *)
AddingFits(p) ==
  LET o == job[p].op IN
  /\ pc[p] = "restore-payload" => \A s \in Surfaces : job[p].snap[s].own \subseteq live[s].own
  /\ pc[p] \in RestoringAt => /\ Whole(o)
                              /\ \A s \in Surfaces : payload[o].before[s].own \subseteq job[p].snap[s].own
                              /\ \A s \in Rows : payload[o].before[s].own = {}
(* Before it releases as rolled back everything is there again.            *)
EndingFits(p) ==
  LET o == job[p].op IN
  /\ pc[p] \in UncoveredAt => payload[o].covers = {}
  /\ pc[p] = "trash-drop-entry" => Whole(o)
  /\ pc[p] \in {"rel-stage", "rec-trash", "rec-rmdir", "fin-stage"} /\ job[p].rel.stage = "rolled_back"
       => GivenBack(o)
  /\ pc[p] \in {"rel-unlock", "fin-unlock"} => payload[o].kind = "none"
RollbackAt(p) == TakingFits(p) /\ RowsFit(p) /\ ReturningFits(p) /\ AddingFits(p) /\ EndingFits(p)

(* Files of an operation.                                                  *)
PaidOff(o) ==
  /\ o # lock.op => payload[o].kind = "none"
  /\ payload[o].kind = "none" => payload[o].covers = {}
  /\ payload[o].kind = "purge" => \A s \in Surfaces : payload[o].before[s].own = {}
  /\ journal[o].stage = "rolled_back" => GivenBack(o)
RollbackInv == (\A p \in Procs : RollbackAt(p)) /\ (\A o \in OpIds : PaidOff(o))

(* Where the invariant says nothing.                                       *)
SpokenAt == UncoveredAt \cup PaidAt \cup RestoringAt
            \cup {"undo-global-state", "undo", "rec", "trash-drop-entry", "rel-stage",
                  "rec-trash", "rec-rmdir", "fin-stage", "rel-unlock", "fin-unlock"}

(* A process that is elsewhere, or does not work, is asked nothing.        *)
LEMMA ElsewhereRollback ==
  ASSUME NEW p \in Procs, pc'[p] \notin SpokenAt
  PROVE  RollbackAt(p)'
BY DEF RollbackAt, TakingFits, RowsFit, ReturningFits, AddingFits, EndingFits, SpokenAt, UncoveredAt,
       PaidAt, CommittingAt, RemovingAt

LEMMA IdleRollback ==
  ASSUME NEW q \in Procs, ~Working(q), pc'[q] = pc[q]
  PROVE  RollbackAt(q)'
BY ElsewhereRollback
   DEF Working, SpokenAt, UncoveredAt, PaidAt, CommittingAt, RemovingAt, RestoringAt, MoveAt, EntryMadeAt

(* The one process that works keeps RollbackInv.                           *)
LEMMA StepRollback ==
  ASSUME NEW p \in Procs, OthersStay(p), \A q \in Procs \ {p} : ~Working(q), RollbackAt(p)',
         \A o \in OpIds : PaidOff(o)'
  PROVE  RollbackInv'
BY IdleRollback DEF RollbackInv, OthersStay

(* An operation that does not hold the lock has nothing on record.         *)
LEMMA OthersPaid ==
  ASSUME NEW o \in OpIds, PaidOff(o), o # lock.op, payload'[o] = payload[o]
  PROVE  PaidOff(o)'
BY DEF PaidOff, Whole, GivenBack

(* Steps that do not end an operation do not write its outcome.            *)
LEMMA OutcomeByRelease ==
  ASSUME Typed, NEW p \in Procs, OperationStep(p) \/ Crash(p), ~ReleaseStage(p), ~FinalizeStage(p),
         NEW o \in OpIds, journal'[o].stage = "rolled_back"
  PROVE  journal[o].stage = "rolled_back"
<1>0. ASSUME NEW stage, NEW m, NEW oc, WriteJournal(p, stage, m, oc), stage # "rolled_back"
      PROVE  journal[o].stage = "rolled_back"
  <2> DEFINE j == [stage |-> stage, marks |-> m]
  <2>1. j.stage # "rolled_back"
    BY <1>0
  <2>2. journal' = journal \/ journal' = [journal EXCEPT ![job[p].op] = j]
    BY <1>0 DEF WriteJournal
  <2> HIDE DEF j
  <2> QED BY <2>1, <2>2 DEF Typed
<1> USE <1>0 DEF disk
<1>1. CASE AcquireStep(p)
  BY <1>1 DEF AcquireStep, ScanRoot, CreateLock, LockIsTaken, WriteLock, CreateJournal
<1>2. CASE DeleteStep(p)
  BY <1>2 DEF DeleteStep, EnterPrepared, CheckSelection, Capture, WritePayload, Recheck,
              EnterCommitting, StartSurface, MarkSurface, EnterVerifying, RemoveFromIndex,
              RemoveFromGlobalState, UndoGlobalState, RemoveFile, RemoveRows, RemoveLogs
<1>3. CASE UndoStep(p)
  BY <1>3 DEF UndoStep, UndoSurface, UndoEnds
<1>4. CASE TrashStep(p)
  BY <1>4 DEF TrashStep, WriteTrashPayload, MakeTmp, BuildBundle, CommitTrashEntry, MarkTrashEntry,
              DropTrash, TearEntry
<1>5. CASE CleanupStep(p)
  BY <1>5 DEF CleanupStep, CheckIndexes, WriteCleanupPayload, RecheckCleanup, CommitCleanup,
              StartIndex, VerifyCleanup
<1>6. CASE EntryStep(p)
  BY <1>6 DEF EntryStep, ReadForRestore, ReadForPurge, EntryNotFound, PrepareEntry, CheckEntry,
              CommitEntry
<1>7. CASE RestoreStep(p)
  BY <1>7 DEF RestoreStep, CheckConflicts, CaptureRestore, WriteRestorePayload, StartRestore,
              RestoreText, RereadWritten, MarkRestored, RestoreRows, RemoveGoals, UndoRestore, UndoRestoreEnds,
              MarkRows, VerifyRestore
<1>8. CASE PurgeStep(p)
  BY <1>8 DEF PurgeStep, WritePurgePayload, RecheckPurge, CheckpointPurge, PurgeLogs,
              QuarantineEntry, RemoveQuarantine, VerifyPurge
<1>9. CASE ReleaseStep(p)
  BY <1>9 DEF ReleaseStep, ReleaseCheck, ReleasePayload, ReleaseUnlock
<1>10. CASE RecoveryStep(p)
  BY <1>10 DEF RecoveryStep, BeginRecovery, RecoverSurface, SurfacesRecovered, RecoverQuarantine,
               RecoverTrash, RefuseTrash, FinalizePayload, FinalizeUnlock
<1>11. CASE Crash(p)
  BY <1>11 DEF Crash
<1> QED BY <1>1, <1>2, <1>3, <1>4, <1>5, <1>6, <1>7, <1>8, <1>9, <1>10, <1>11 DEF OperationStep

(* An operation with nothing on record, and a process that is not between  *)
(* removals.                                                               *)
LEMMA EmptyRollback ==
  ASSUME NEW p \in Procs, job'[p].op = job[p].op, payload'[job[p].op].covers = {},
         pc'[p] \notin PaidAt \cup RestoringAt
                        \cup {"undo-global-state", "rec", "restore-payload", "rel-unlock", "fin-unlock"}
  PROVE  RollbackAt(p)'
BY DEF RollbackAt, TakingFits, RowsFit, ReturningFits, AddingFits, EndingFits, Whole, GivenBack,
       PaidAt, CommittingAt, RemovingAt

(* A process that is about to report an end, or a rollback.                *)
EndsAt == {"rel-stage", "trash-drop-entry", "rec-trash", "rec-rmdir", "fin-stage"}
LEMMA EndingRollback ==
  ASSUME NEW p \in Procs, job'[p].op = job[p].op, pc'[p] \in EndsAt,
         \/ \A s \in payload'[job[p].op].covers :
              payload'[job[p].op].before[s].own \subseteq live'[s].own
         \/ /\ pc'[p] # "trash-drop-entry"
            /\ job'[p].rel.stage # "rolled_back" \/ payload'[job[p].op].kind = "cleanup-index"
  PROVE  RollbackAt(p)'
BY DEF RollbackAt, TakingFits, RowsFit, ReturningFits, AddingFits, EndingFits, Whole, GivenBack, Intact, EndsAt,
       UncoveredAt, PaidAt, CommittingAt, RemovingAt, RestoringAt, MoveAt, EntryMadeAt

(* A delete goes on with its commit, or begins to undo what it knows.      *)
TakingAt == PaidAt \cup {"undo-global-state"}
LEMMA TakingRollback ==
  ASSUME NEW p \in Procs, Deletes(p), TakingFits(p), pc[p] \in TakingAt, SameTask(p),
         payload' = payload,
         \/ /\ pc'[p] \in TakingAt
            /\ \A s \in Covered(p) : live[s].own \subseteq live'[s].own \/ s \in job'[p].done
            /\ job[p].done \subseteq job'[p].done
            /\ pc'[p] = "remove" => RowsFit(p)'
         \/ /\ pc'[p] = "undo"
            /\ \A s \in Covered(p) : live[s].own \subseteq live'[s].own \/ s \in job'[p].todo
            /\ job[p].done \subseteq job'[p].todo
  PROVE  RollbackAt(p)'
<1>1. Covered(p)' = Covered(p)
  BY DEF Covered, SameTask
<1>2. /\ payload[job[p].op].covers = Covered(p)
      /\ \A s \in Covered(p) : /\ payload[job[p].op].before[s] = job[p].snap[s]
                               /\ Intact(job[p].op, s) \/ s \in job[p].done
  BY DEF TakingFits, TakingAt
<1>3. TakingFits(p)'
  <2>1. /\ job'[p].op = job[p].op /\ job'[p].snap = job[p].snap
    BY DEF SameTask
  <2>2. CASE pc'[p] \in TakingAt
    <3>1. pc'[p] # "undo"
      BY <2>2 DEF TakingAt, PaidAt, CommittingAt, RemovingAt
    <3> QED BY <1>1, <1>2, <2>1, <2>2, <3>1 DEF TakingFits, TakingAt, Intact
  <2>3. CASE pc'[p] = "undo"
    <3>1. pc'[p] \notin TakingAt
      BY <2>3 DEF TakingAt, PaidAt, CommittingAt, RemovingAt
    <3> QED BY <1>1, <1>2, <2>1, <2>3, <3>1 DEF TakingFits, TakingAt, Intact
  <2> QED BY <2>2, <2>3
<1>4. pc'[p] \in {"recheck", "enter-commit", "commit", "remove", "remove-logs", "mark",
                  "undo-global-state", "undo"}
  BY DEF TakingAt, PaidAt, CommittingAt, RemovingAt
<1> QED BY <1>3, <1>4
        DEF RollbackAt, RowsFit, ReturningFits, AddingFits, EndingFits, UncoveredAt, RestoringAt,
            MoveAt, EntryMadeAt

(* The steps of an operation that has not ended keep what its files say.   *)
LEMMA WorkingPaid ==
  ASSUME ReleaseSucceeds, Consistent, NEW p \in Procs, Working(p), RollbackInv,
         pc[p] \notin ClosingAt \cup {"fin-stage"}, OperationStep(p) \/ Crash(p),
         ~ReleaseStage(p), ~FinalizeStage(p), lock'.op = lock.op,
         \/ payload' = payload
         \/ \E v : /\ payload' = [payload EXCEPT ![job[p].op] = v] /\ v.kind # "none"
                   /\ v.kind = "purge" => \A s \in Surfaces : v.before[s].own = {}
  PROVE  \A o \in OpIds : PaidOff(o)'
<1> DEFINE op == job[p].op
<1>1. op \in OpIds /\ Fits(p) /\ lock.op = op
  BY WorkerFits DEF Consistent
<1>2. journal'[op].stage # "rolled_back"
  BY <1>1, OutcomeByRelease DEF Consistent, Fits, StageFits, Final
<1>3. /\ \A o \in OpIds \ {op} : payload'[o] = payload[o]
      /\ \/ payload'[op] = payload[op]
         \/ /\ payload'[op].kind # "none"
            /\ payload'[op].kind = "purge" => \A s \in Surfaces : payload'[op].before[s].own = {}
  <2>1. CASE payload' = payload
    BY <2>1
  <2>2. CASE payload' # payload
    <3> PICK v : /\ payload' = [payload EXCEPT ![op] = v] /\ v.kind # "none"
                 /\ v.kind = "purge" => \A s \in Surfaces : v.before[s].own = {}
      BY <2>2
    <3>1. /\ payload'[op] = v
          /\ \A o \in OpIds \ {op} : payload'[o] = payload[o]
      BY <1>1 DEF Consistent, Typed
    <3> QED BY <3>1
  <2> QED BY <2>1, <2>2
<1> SUFFICES ASSUME NEW o \in OpIds PROVE PaidOff(o)'
  OBVIOUS
<1>4. CASE o # op
  BY <1>1, <1>3, <1>4, OthersPaid DEF RollbackInv
<1>5. CASE o = op /\ payload'[op] = payload[op]
  BY <1>1, <1>2, <1>5 DEF RollbackInv, PaidOff
<1>6. CASE /\ o = op /\ payload'[op].kind # "none"
           /\ payload'[op].kind = "purge" => \A s \in Surfaces : payload'[op].before[s].own = {}
  BY <1>1, <1>2, <1>6 DEF PaidOff
<1> QED BY <1>3, <1>4, <1>5, <1>6

(* Where an error of a commit leads.                                       *)
LEMMA FailedCommit ==
  ASSUME Typed, NEW p \in Procs, CommitFails(p)
  PROVE  SameTask(p) /\ pc'[p] = "undo" /\ job'[p].todo = job[p].done
BY JobFunction, TaskStays DEF CommitFails, Goto, Jobs

(* A surface write either has its effect or throws.                        *)
LEMMA CleanWrites ==
  ASSUME WritesAreClean, NEW s, NEW o \in Outcome("surface") \cup FaultsAt("surface", s)
  PROVE  Throws(o) = ~Effect(o)
BY DEF WritesAreClean, Outcome, FaultsAt, Throws, Effect

(* The removals change one surface, which the process takes note of.       *)
LEMMA RemovalRollback ==
  ASSUME WritesAreClean, Typed, NEW p \in Procs, Deletes(p), DurableAt(p), RollbackAt(p),
         \/ RemoveFromIndex(p) \/ RemoveFromGlobalState(p) \/ RemoveFile(p) \/ RemoveRows(p)
         \/ RemoveLogs(p)
  PROVE  RollbackAt(p)'
<1> USE JobFunction
<1>0. pc[p] \in TakingAt /\ payload' = payload /\ TakingFits(p) /\ Covered(p) \subseteq Surfaces
  BY ListsApart DEF RemoveFromIndex, RemoveFromGlobalState, RemoveFile, RemoveRows, RemoveLogs, disk,
         TakingAt, PaidAt, CommittingAt, RemovingAt, RollbackAt, Covered, Targets, Indexes
<1>1. ASSUME CommitFails(p), live' = live PROVE RollbackAt(p)'
  BY <1>0, <1>1, FailedCommit, TakingRollback
<1>2. ASSUME NEW s \in Surfaces, NEW d, NEW l \in {"mark", "remove-logs", "undo-global-state"},
             Goto(p, l), SameTask(p), job'[p].done = d, job[p].done \subseteq d,
             \A t \in Surfaces \ {s} : live'[t] = live[t],
             live[s].own \subseteq live'[s].own \/ s \in d
      PROVE  RollbackAt(p)'
  <2>1. pc'[p] = l /\ pc'[p] \in TakingAt /\ pc'[p] # "remove"
    BY <1>2 DEF Goto, TakingAt, PaidAt, CommittingAt, RemovingAt
  <2> QED BY <1>0, <1>2, <2>1, TakingRollback
<1>3. ASSUME NEW s, NEW d, job' = [job EXCEPT ![p].done = d]
      PROVE  SameTask(p) /\ job'[p].done = d
  BY <1>3 DEF SameTask, Jobs
<1>4. \A s, t \in Surfaces : TakeOut(p, s) /\ t # s => live'[t] = live[t]
  BY DEF TakeOut, Typed, DataTyped, Images
<1>5. CASE RemoveFromIndex(p)
  <2> PICK s \in job[p].cur \cap Indexes :
        \/ CommitFails(p) /\ live' = live
        \/ \E o \in Outcome("surface") :
              /\ IF Effect(o) THEN TakeOut(p, s) ELSE live' = live
              /\ IF Throws(o) THEN CommitFails(p)
                 ELSE /\ Goto(p, "mark")
                      /\ job' = [job EXCEPT ![p].done = job[p].done \cup {s}]
    BY <1>5 DEF RemoveFromIndex
  <2>1. s \in Surfaces
    BY ListsApart
  <2>2. CASE CommitFails(p) /\ live' = live
    BY <1>1, <2>2
  <2>3. CASE ~(CommitFails(p) /\ live' = live)
    <3>1. /\ TakeOut(p, s) \/ live' = live
          /\ Goto(p, "mark") /\ job' = [job EXCEPT ![p].done = job[p].done \cup {s}]
      BY <2>3, CleanWrites
    <3>2. SameTask(p) /\ job'[p].done = job[p].done \cup {s}
      BY <1>3, <3>1
    <3>3. \A t \in Surfaces \ {s} : live'[t] = live[t]
      BY <1>4, <2>1, <3>1
    <3> QED BY <1>2, <2>1, <3>1, <3>2, <3>3
  <2> QED BY <2>2, <2>3
<1>6. CASE RemoveFromGlobalState(p)
  <2> DEFINE s == "global-state"
  <2>1. s \in Surfaces
    BY ListsApart DEF Lists
  <2>2. \/ CommitFails(p) /\ live' = live
        \/ Goto(p, "mark") /\ live' = live /\ job' = job
        \/ \E o \in Outcome("surface") :
              /\ IF Effect(o) THEN TakeOut(p, s) ELSE live' = live
              /\ IF Throws(o) THEN Goto(p, "undo-global-state") /\ job' = job
                 ELSE /\ Goto(p, "mark")
                      /\ job' = [job EXCEPT ![p].done = job[p].done \cup {s}]
    BY <1>6 DEF RemoveFromGlobalState
  <2>3. CASE CommitFails(p) /\ live' = live
    BY <1>1, <2>3
  <2>4. ASSUME job' = job, live' = live, NEW l \in {"mark", "undo-global-state"}, Goto(p, l)
        PROVE  RollbackAt(p)'
    BY <1>2, <2>1, <2>4, TaskStays
  <2>5. ASSUME TakeOut(p, s) \/ live' = live, Goto(p, "mark"),
               job' = [job EXCEPT ![p].done = job[p].done \cup {s}]
        PROVE  RollbackAt(p)'
    BY <1>2, <1>3, <1>4, <2>1, <2>5
  <2> HIDE DEF s
  <2> QED BY <2>2, <2>3, <2>4, <2>5, CleanWrites
<1>7. CASE RemoveFile(p)
  <2> PICK s \in job[p].cur \cap Files :
        \/ CommitFails(p) /\ live' = live
        \/ /\ (live[s].own = {}) = (job[p].snap[s].own = {})
           /\ \E o \in FaultsAt("surface", s) :
              /\ IF Effect(o) THEN TakeOut(p, s) ELSE live' = live
              /\ IF Throws(o) THEN CommitFails(p)
                 ELSE /\ Goto(p, "mark")
                      /\ job' = [job EXCEPT ![p].done =
                                   IF job[p].snap[s].own = {} THEN job[p].done
                                                              ELSE job[p].done \cup {s}]
    BY <1>7 DEF RemoveFile
  <2>1. s \in Surfaces
    BY DEF Surfaces
  <2>2. CASE CommitFails(p) /\ live' = live
    BY <1>1, <2>2
  <2>3. CASE ~(CommitFails(p) /\ live' = live)
    <3> DEFINE d == IF job[p].snap[s].own = {} THEN job[p].done ELSE job[p].done \cup {s}
    <3>1. /\ TakeOut(p, s) \/ live' = live
          /\ Goto(p, "mark") /\ job' = [job EXCEPT ![p].done = d]
          /\ live[s].own = {} \/ s \in d
          /\ job[p].done \subseteq d
      BY <2>3, CleanWrites
    <3> HIDE DEF d
    <3> QED BY <1>2, <1>3, <1>4, <2>1, <3>1
  <2> QED BY <2>2, <2>3
<1>8. CASE RemoveRows(p)
  <2> PICK s \in job[p].cur \cap Databases : \E o \in FaultsAt("surface", s) :
              /\ IF Effect(o) THEN TakeOut(p, s) ELSE live' = live
              /\ IF Throws(o) THEN CommitFails(p)
                 ELSE /\ Goto(p, IF s = "sqlite-state" /\ OwnsLock(p) THEN "remove-logs" ELSE "mark")
                      /\ job' = job
    BY <1>8 DEF RemoveRows
  <2> PICK o \in FaultsAt("surface", s) :
              /\ IF Effect(o) THEN TakeOut(p, s) ELSE live' = live
              /\ IF Throws(o) THEN CommitFails(p)
                 ELSE /\ Goto(p, IF s = "sqlite-state" /\ OwnsLock(p) THEN "remove-logs" ELSE "mark")
                      /\ job' = job
    OBVIOUS
  <2>1. s \in Surfaces /\ s \in job[p].done
    <3>1. pc[p] = "remove" /\ s \in job[p].cur
      BY <1>8 DEF RemoveRows
    <3>2. s # "logs"
      BY <3>1 DEF DurableAt, PlanFits, RemovingAt, Planned, Cleans, Deletes
    <3> QED BY <3>1, <3>2 DEF RollbackAt, RowsFit, Databases, Surfaces
  <2>2. CASE Throws(o)
    BY <1>1, <2>2, CleanWrites
  <2>3. CASE ~Throws(o)
    <3>1. /\ TakeOut(p, s) \/ live' = live
          /\ job' = job
          /\ Goto(p, "mark") \/ Goto(p, "remove-logs")
      BY <2>3
    <3>2. SameTask(p)
      BY <3>1, TaskStays
    <3> QED BY <1>2, <1>4, <2>1, <3>1, <3>2
  <2> QED BY <2>2, <2>3
<1>9. CASE RemoveLogs(p)
  <2> DEFINE s == "logs"
  <2>1. s \in Surfaces
    BY DEF Surfaces, Databases
  <2>2. \/ CommitFails(p) /\ live' = live
        \/ \E o \in FaultsAt("surface", s) :
              /\ IF Effect(o) THEN TakeOut(p, s) ELSE live' = live
              /\ IF Throws(o) THEN CommitFails(p)
                 ELSE /\ Goto(p, "mark")
                      /\ job' = [job EXCEPT ![p].done = job[p].done \cup {s}]
    BY <1>9 DEF RemoveLogs
  <2>3. ASSUME TakeOut(p, s) \/ live' = live, Goto(p, "mark"),
               job' = [job EXCEPT ![p].done = job[p].done \cup {s}]
        PROVE  RollbackAt(p)'
    BY <1>2, <1>3, <1>4, <2>1, <2>3
  <2> HIDE DEF s
  <2> QED BY <1>1, <2>2, <2>3, CleanWrites
<1> QED BY <1>5, <1>6, <1>7, <1>8, <1>9

(* The steps of a commit keep track of what they changed.                  *)
LEMMA CommitRollback ==
  ASSUME Typed, NEW p \in Procs, Deletes(p), RollbackAt(p),
         \/ Recheck(p) \/ EnterCommitting(p) \/ StartSurface(p) \/ MarkSurface(p)
         \/ UndoGlobalState(p)
  PROVE  RollbackAt(p)'
<1> USE JobFunction
<1>0. pc[p] \in TakingAt /\ payload' = payload /\ TakingFits(p) /\ Covered(p) \subseteq Surfaces
  BY ListsApart DEF Recheck, EnterCommitting, StartSurface, MarkSurface, UndoGlobalState, disk,
         TakingAt, PaidAt, CommittingAt, RemovingAt, RollbackAt, Covered, Targets, Indexes
<1>1. ASSUME CommitFails(p), \A s \in Surfaces : live[s].own \subseteq live'[s].own
      PROVE  RollbackAt(p)'
  BY <1>0, <1>1, FailedCommit, TakingRollback
<1>2. ASSUME NEW l \in {"enter-commit", "commit"}, Goto(p, l), SameTask(p), live' = live,
             job'[p].done = job[p].done
      PROVE  RollbackAt(p)'
  BY <1>0, <1>2, TakingRollback DEF Goto, TakingAt, PaidAt, CommittingAt, RemovingAt
<1>3. CASE Recheck(p)
  <2>1. live' = live /\ (CommitFails(p) \/ (Goto(p, "enter-commit") /\ job' = job))
    BY <1>3 DEF Recheck, data
  <2> QED BY <1>1, <1>2, <2>1, TaskStays
<1>4. CASE EnterCommitting(p)
  <2>1. live' = live
    BY <1>4 DEF EnterCommitting, data
  <2>2. \/ CommitFails(p)
        \/ Goto(p, "commit") /\ job' = [job EXCEPT ![p].todo = CommitPlan(p)]
    BY <1>4 DEF EnterCommitting
  <2>3. ASSUME NEW t, job' = [job EXCEPT ![p].todo = t]
        PROVE  SameTask(p) /\ job'[p].done = job[p].done
    BY <2>3 DEF SameTask, Jobs
  <2> QED BY <1>1, <1>2, <2>1, <2>2, <2>3
<1>5. CASE StartSurface(p)
  <2> PICK s \in First(job[p].todo, CommitRank), o \in Outcome("journal") :
        /\ job' = [job EXCEPT ![p] =
                  [job[p] EXCEPT !.marks = StartMarks(p, s), !.done = SqliteStarted(p, s),
                                 !.cur = IF Throws(o) THEN {} ELSE {s},
                                 !.todo = IF Throws(o) THEN SqliteStarted(p, s) ELSE job[p].todo]]
        /\ Goto(p, IF Throws(o) THEN "undo" ELSE "remove")
    BY <1>5 DEF StartSurface
  <2>1. /\ SameTask(p) /\ job'[p].cur = (IF Throws(o) THEN {} ELSE {s})
        /\ job'[p].done = SqliteStarted(p, s)
        /\ Throws(o) => job'[p].todo = SqliteStarted(p, s)
    BY Edited
  <2>2. live' = live
    BY <1>5 DEF StartSurface, data
  <2>3. job[p].done \subseteq SqliteStarted(p, s)
    BY DEF SqliteStarted
  <2>4. ~Throws(o) => RowsFit(p)'
    BY <2>1 DEF RowsFit, SqliteStarted
  <2>5. pc'[p] = IF Throws(o) THEN "undo" ELSE "remove"
    BY DEF Goto
  <2> QED BY <1>0, <2>1, <2>2, <2>3, <2>4, <2>5, TakingRollback
          DEF TakingAt, PaidAt, CommittingAt, RemovingAt
<1>6. CASE MarkSurface(p)
  <2> PICK o \in Outcome("journal") :
        /\ job' = [job EXCEPT ![p] =
                  [job[p] EXCEPT !.marks = job[p].marks \cup {<<s, "committed">> : s \in job[p].cur},
                                 !.cur = {},
                                 !.todo = IF Throws(o) THEN job[p].done
                                                       ELSE job[p].todo \ job[p].cur]]
        /\ Goto(p, IF Throws(o) THEN "undo" ELSE "commit")
    BY <1>6 DEF MarkSurface
  <2> DEFINE m == job[p].marks \cup {<<s, "committed">> : s \in job[p].cur}
             t == IF Throws(o) THEN job[p].done ELSE job[p].todo \ job[p].cur
             j == [job[p] EXCEPT !.marks = m, !.cur = {}, !.todo = t]
  <2>1. /\ j.kind = job[p].kind /\ j.op = job[p].op /\ j.seen = job[p].seen
        /\ j.snap = job[p].snap /\ j.bundle = job[p].bundle /\ j.done = job[p].done /\ j.todo = t
    BY DEF Jobs
  <2>2. job'[p] = j
    OBVIOUS
  <2> HIDE DEF j, m
  <2>3. SameTask(p) /\ job'[p].done = job[p].done /\ (Throws(o) => job'[p].todo = job[p].done)
    BY <2>1, <2>2 DEF SameTask
  <2>4. live' = live
    BY <1>6 DEF MarkSurface, data
  <2>5. pc'[p] = IF Throws(o) THEN "undo" ELSE "commit"
    BY DEF Goto
  <2> QED BY <1>0, <2>3, <2>4, <2>5, TakingRollback DEF TakingAt, PaidAt, CommittingAt, RemovingAt
<1>7. CASE UndoGlobalState(p)
  BY <1>1, <1>7, UndoAdds DEF UndoGlobalState
<1> QED BY <1>3, <1>4, <1>5, <1>6, <1>7

(* The steps up to the payload: nothing is on record, then all of it.      *)
LEMMA BeginRollback ==
  ASSUME Typed, AheadInv, NEW p \in Procs, Deletes(p), RollbackAt(p), job[p].op \in OpIds,
         EnterPrepared(p) \/ CheckSelection(p) \/ Capture(p) \/ WritePayload(p)
  PROVE  RollbackAt(p)'
<1> USE JobFunction
<1> DEFINE op == job[p].op
<1>0. payload[op].covers = {}
  BY DEF EnterPrepared, CheckSelection, Capture, WritePayload, OwnsLock, Deletes,
         RollbackAt, EndingFits, UncoveredAt, EntryMadeAt
<1>1. ASSUME PrepareFails(p), payload' = payload PROVE RollbackAt(p)'
  <2>1. pc'[p] \in {"rel-stage", "trash-drop-entry"} /\ job'[p].op = op
    BY <1>1, TaskStays DEF PrepareFails, ReleaseAs, Goto, SameTask
  <2> QED BY <1>0, <1>1, <2>1, EmptyRollback
          DEF PaidAt, CommittingAt, RemovingAt, RestoringAt
<1>2. ASSUME NEW l \in {"prepared", "capture", "payload"}, Goto(p, l), payload' = payload,
             job'[p].op = op
      PROVE  RollbackAt(p)'
  BY <1>0, <1>2, EmptyRollback DEF Goto, PaidAt, CommittingAt, RemovingAt, RestoringAt
<1>3. CASE EnterPrepared(p)
  BY <1>1, <1>2, <1>3 DEF EnterPrepared
<1>4. CASE CheckSelection(p)
  BY <1>1, <1>2, <1>4 DEF CheckSelection, disk
<1>5. CASE Capture(p)
  <2>1. payload' = payload
    BY <1>5 DEF Capture, disk
  <2>2. PrepareFails(p) \/ (Goto(p, "payload") /\ \E i : job' = [job EXCEPT ![p].snap = i])
    BY <1>5 DEF Capture
  <2>3. ASSUME NEW i, job' = [job EXCEPT ![p].snap = i]
        PROVE  job'[p].op = op
    BY <2>3 DEF Jobs
  <2> QED BY <1>1, <1>2, <2>1, <2>2, <2>3
<1>6. CASE WritePayload(p)
  <2> DEFINE v == [kind |-> job[p].kind, covers |-> Covered(p), before |-> BeforeImage(p),
                   moves |-> NoRecords, from |-> 0, sealed |-> ~OwnsLock(p)]
  <2>1. /\ v.covers = Covered(p)
        /\ \A s \in Covered(p) : v.before[s] = job[p].snap[s]
    <3>1. v.before = BeforeImage(p) /\ v.covers = Covered(p)
      OBVIOUS
    <3>2. Covered(p) \subseteq Surfaces
      BY ListsApart DEF Covered, Targets, Indexes
    <3>3. \A s \in Covered(p) : BeforeImage(p)[s] = job[p].snap[s]
      BY <3>2 DEF BeforeImage
    <3> HIDE DEF v
    <3> QED BY <3>1, <3>3
  <2> PICK o \in Outcome("payload") :
        /\ payload' = IF Effect(o) THEN [payload EXCEPT ![op] = v] ELSE payload
        /\ IF Throws(o) THEN CommitFails(p) ELSE Goto(p, "recheck") /\ job' = job
    BY <1>6 DEF WritePayload
  <2> HIDE DEF v
  <2>2. /\ pc'[p] = "undo" \/ (pc'[p] = "recheck" /\ Effect(o))
        /\ SameTask(p) /\ live' = live
    BY <1>6, FailedCommit, TaskStays DEF WritePayload, data, Goto, Throws, Effect
  <2>3. Covered(p)' = Covered(p) /\ job'[p].op = op /\ job'[p].snap = job[p].snap
    BY <2>2 DEF Covered, SameTask
  <2>4. CASE ~Effect(o)
    BY <1>0, <2>2, <2>3, <2>4, EmptyRollback DEF PaidAt, CommittingAt, RemovingAt, RestoringAt
  <2>5. CASE Effect(o)
    <3>1. payload'[op] = v
      BY <2>5 DEF Typed
    <3>2. \A s \in Covered(p) : job[p].snap[s].own \subseteq live[s].own
      BY <1>6 DEF WritePayload, AheadInv, AheadAt, CaptureFits
    <3>3. /\ payload'[op].covers = Covered(p)
          /\ \A s \in Covered(p) : /\ payload'[op].before[s] = job[p].snap[s]
                                   /\ payload'[op].before[s].own \subseteq live'[s].own
      BY <2>1, <2>2, <3>1, <3>2
    <3>4. TakingFits(p)'
      BY <2>3, <3>3 DEF TakingFits, Intact
    <3> QED BY <2>2, <3>4
            DEF RollbackAt, RowsFit, ReturningFits, AddingFits, EndingFits, UncoveredAt, RestoringAt,
                MoveAt, EntryMadeAt
  <2> QED BY <2>4, <2>5
<1> QED BY <1>3, <1>4, <1>5, <1>6

(* The rollback of a delete puts back, one after the other.                *)
LEMMA UndoRollback ==
  ASSUME Typed, NEW p \in Procs, Deletes(p), RollbackAt(p), job[p].op \in OpIds, UndoStep(p)
  PROVE  RollbackAt(p)'
<1> USE JobFunction
<1> DEFINE op == job[p].op
<1>0. /\ payload' = payload /\ payload[op].covers \subseteq Surfaces /\ pc[p] = "undo"
      /\ \A s \in payload[op].covers : /\ payload[op].before[s] = job[p].snap[s]
                                       /\ Intact(op, s) \/ s \in job[p].todo
  BY DEF UndoStep, UndoSurface, UndoEnds, disk, RollbackAt, TakingFits, Typed, Payloads
<1>1. CASE UndoSurface(p)
  <2> PICK s \in First(job[p].todo, UndoRank) :
        \/ ReleaseAs(p, "recovery_required", "ignore")
        \/ PutBack(s, job[p].snap[s]) /\ pc' = pc /\ job' = [job EXCEPT ![p].todo = job[p].todo \ {s}]
    BY <1>1 DEF UndoSurface, Effect, Throws
  <2>1. CASE ReleaseAs(p, "recovery_required", "ignore")
    <3>1. pc'[p] = "rel-stage" /\ job'[p].op = op /\ job'[p].rel.stage = "recovery_required"
      BY <2>1 DEF ReleaseAs, Goto, Jobs
    <3> QED BY <3>1, EndingRollback DEF EndsAt
  <2>2. CASE PutBack(s, job[p].snap[s]) /\ pc' = pc
             /\ job' = [job EXCEPT ![p].todo = job[p].todo \ {s}]
    <3>1. SameTask(p) /\ job'[p].todo = job[p].todo \ {s}
      BY <2>2 DEF SameTask, Jobs
    <3>2. s \in Surfaces => job[p].snap[s].own \subseteq live'[s].own
      <4>1. ASSUME s \in Surfaces
            PROVE  live'[s] = WithMissing(s, job[p].snap[s])
        BY <2>2, <4>1 DEF PutBack, Typed, DataTyped, Images
      <4>2. ASSUME s \in Surfaces
            PROVE  job[p].snap[s].own \subseteq WithMissing(s, job[p].snap[s]).own
        <5>1. live[s] \in Value
          BY <4>2 DEF Typed, DataTyped, Images
        <5> QED BY <5>1 DEF WithMissing, Value
      <4> QED BY <4>1, <4>2
    <3>3. \A t \in Surfaces : live[t].own \subseteq live'[t].own
      BY <1>1, UndoAdds
    <3>4. \A t \in payload[op].covers : /\ payload[op].before[t] = job[p].snap[t]
                                        /\ payload[op].before[t].own \subseteq live'[t].own
                                             \/ t \in job'[p].todo
      BY <1>0, <3>1, <3>2, <3>3 DEF Intact
    <3>5. TakingFits(p)'
      BY <1>0, <2>2, <3>1, <3>4 DEF TakingFits, SameTask, Intact, PaidAt, CommittingAt, RemovingAt
    <3> QED BY <1>0, <2>2, <3>5
            DEF RollbackAt, RowsFit, ReturningFits, AddingFits, EndingFits, UncoveredAt, RestoringAt,
                MoveAt, EntryMadeAt
  <2> QED BY <2>1, <2>2
<1>2. CASE UndoEnds(p)
  <2>1. job[p].todo = {} /\ live' = live /\ pc'[p] \in {"rel-stage", "trash-drop-entry"}
        /\ job'[p].op = op
    BY <1>2, TaskStays DEF UndoEnds, data, Goto, ReleaseAs, SameTask
  <2> QED BY <1>0, <2>1, EndingRollback DEF EndsAt, Intact
<1> QED BY <1>1, <1>2 DEF UndoStep

(* The steps of deleteSessions keep RollbackInv.                           *)
LEMMA DeleteRollback ==
  ASSUME WritesAreClean, ReleaseSucceeds, Consistent, DurableInv, AheadInv, RollbackInv,
         NEW p \in Procs, Deletes(p), DeleteStep(p) \/ UndoStep(p)
  PROVE  Working(p) /\ RollbackAt(p)' /\ \A o \in OpIds : PaidOff(o)'
<1> USE JobFunction DEF Consistent
<1> DEFINE op == job[p].op
<1>0. /\ Working(p) /\ op \in OpIds /\ lock' = lock /\ RollbackAt(p) /\ DurableAt(p)
      /\ pc[p] \notin {"rel-stage", "fin-stage"} \cup ClosingAt
  <2>1. Stays(p) /\ Holding(p)
    BY DeleteStays, UndoStays
  <2>2. pc[p] \notin {"rel-stage", "fin-stage"} \cup ClosingAt
    BY DEF DeleteStep, EnterPrepared, CheckSelection, Capture, WritePayload, Recheck,
           EnterCommitting, StartSurface, MarkSurface, EnterVerifying, RemoveFromIndex,
           RemoveFromGlobalState, UndoGlobalState, RemoveFile, RemoveRows, RemoveLogs,
           UndoStep, UndoSurface, UndoEnds, ClosingAt, OwnsLock
  <2>3. Working(p)
    BY <2>1 DEF Holding, Working
  <2> QED BY <2>1, <2>2, <2>3, WorkerFits DEF Stays, RollbackInv, DurableInv
<1>1. RollbackAt(p)'
  <2>1. CASE EnterVerifying(p)
    <3>1. \/ ReleaseAs(p, "committed", "again") \/ ReleaseAs(p, "committed", "require")
          \/ ReleaseAs(p, "recovery_required", "ignore") \/ Stop(p)
      BY <2>1 DEF EnterVerifying
    <3>2. \/ pc'[p] = "idle"
          \/ /\ pc'[p] = "rel-stage" /\ job'[p].op = op
             /\ job'[p].rel.stage \in {"committed", "recovery_required"}
      BY <3>1 DEF ReleaseAs, Stop, Goto, Jobs
    <3>3. CASE pc'[p] = "idle"
      BY <3>3, ElsewhereRollback
         DEF SpokenAt, UncoveredAt, PaidAt, CommittingAt, RemovingAt, RestoringAt, MoveAt, EntryMadeAt
    <3> QED BY <3>2, <3>3, EndingRollback DEF EndsAt
  <2>2. CASE UndoStep(p)
    BY <1>0, <2>2, UndoRollback
  <2>3. CASE EnterPrepared(p) \/ CheckSelection(p) \/ Capture(p) \/ WritePayload(p)
    BY <1>0, <2>3, BeginRollback
  <2>4. CASE \/ RemoveFromIndex(p) \/ RemoveFromGlobalState(p) \/ RemoveFile(p) \/ RemoveRows(p)
             \/ RemoveLogs(p)
    BY <1>0, <2>4, RemovalRollback
  <2>5. CASE \/ Recheck(p) \/ EnterCommitting(p) \/ StartSurface(p) \/ MarkSurface(p)
             \/ UndoGlobalState(p)
    BY <1>0, <2>5, CommitRollback
  <2> QED BY <2>1, <2>2, <2>3, <2>4, <2>5 DEF DeleteStep
<1>2. \/ payload' = payload
      \/ \E v : payload' = [payload EXCEPT ![op] = v] /\ v.kind \notin {"none", "purge"}
  <2>1. CASE WritePayload(p)
    <3> DEFINE v == [kind |-> job[p].kind, covers |-> Covered(p), before |-> BeforeImage(p),
                     moves |-> NoRecords, from |-> 0, sealed |-> ~OwnsLock(p)]
    <3>1. payload' = payload \/ payload' = [payload EXCEPT ![op] = v]
      BY <2>1 DEF WritePayload
    <3>2. v.kind \notin {"none", "purge"}
      BY DEF Deletes
    <3> HIDE DEF v
    <3> QED BY <3>1, <3>2
  <2>2. CASE ~WritePayload(p)
    BY <2>2 DEF DeleteStep, EnterPrepared, CheckSelection, Capture, Recheck,
           EnterCommitting, StartSurface, MarkSurface, EnterVerifying, RemoveFromIndex,
           RemoveFromGlobalState, UndoGlobalState, RemoveFile, RemoveRows, RemoveLogs,
           UndoStep, UndoSurface, UndoEnds, disk
  <2> QED BY <2>1, <2>2
<1>3. OperationStep(p) /\ ~ReleaseStage(p) /\ ~FinalizeStage(p)
  BY <1>0 DEF OperationStep, ReleaseStage, FinalizeStage
<1> QED BY <1>0, <1>1, <1>2, <1>3, WorkingPaid

(* The steps of a move to the trash, and what removes a trash entry,       *)
(* change no surface.                                                      *)
LEMMA TrashRollback ==
  ASSUME ReleaseSucceeds, Consistent, RollbackInv, NEW p \in Procs, TrashStep(p)
  PROVE  Working(p) /\ RollbackAt(p)' /\ \A o \in OpIds : PaidOff(o)'
<1> USE DEF Consistent
<1> DEFINE op == job[p].op
<1>0. /\ Working(p) /\ op \in OpIds /\ lock' = lock /\ live' = live /\ RollbackAt(p)
      /\ pc[p] \notin {"rel-stage", "fin-stage"} \cup ClosingAt
  <2>1. Stays(p) /\ Holding(p)
    BY TrashStays
  <2>2. Working(p) /\ live' = live
    BY <2>1 DEF Holding, Working, TrashStep, WriteTrashPayload, MakeTmp, BuildBundle,
                CommitTrashEntry, MarkTrashEntry, DropTrash, TearEntry, data
  <2>3. pc[p] \notin {"rel-stage", "fin-stage"} \cup ClosingAt
    BY DEF TrashStep, WriteTrashPayload, MakeTmp, BuildBundle, CommitTrashEntry, MarkTrashEntry,
           DropTrash, TearEntry, ClosingAt
  <2> QED BY <2>1, <2>2, <2>3, WorkerFits DEF Stays, RollbackInv
<1>1. \/ payload' = payload
      \/ \E v : payload' = [payload EXCEPT ![op] = v] /\ v.kind = "trash" /\ v.covers = {}
  <2>1. CASE WriteTrashPayload(p)
    <3> DEFINE v == TrashPayload(pc[p] = "trash-seal")
    <3>1. payload' = payload \/ payload' = [payload EXCEPT ![op] = v]
      BY <2>1 DEF WriteTrashPayload
    <3>2. v.kind = "trash" /\ v.covers = {}
      BY DEF TrashPayload
    <3> HIDE DEF v
    <3> QED BY <3>1, <3>2
  <2>2. CASE ~WriteTrashPayload(p)
    BY <2>2 DEF TrashStep, MakeTmp, BuildBundle, CommitTrashEntry, MarkTrashEntry, DropTrash,
                TearEntry, disk
  <2> QED BY <2>1, <2>2
<1>2. CASE TearEntry(p)
  <2>1. /\ job' = job /\ payload' = payload
        /\ pc'[p] = IF pc[p] = "rec-trash" THEN "rec-rmdir" ELSE pc[p]
        /\ pc[p] \in {"trash-drop-entry", "purge-remove", "rec-trash"}
    BY <1>2, JobFunction DEF TearEntry, disk, Goto
  <2>2. RollbackAt(p)'
    <3>1. CASE pc[p] = "purge-remove"
      BY <2>1, <3>1, ElsewhereRollback
         DEF SpokenAt, UncoveredAt, PaidAt, CommittingAt, RemovingAt, RestoringAt, MoveAt, EntryMadeAt
    <3>2. CASE pc[p] # "purge-remove"
      <4>1. /\ pc[p] = "trash-drop-entry" => Whole(op)
            /\ job[p].rel.stage = "rolled_back" => GivenBack(op)
        BY <1>0, <2>1, <3>2 DEF RollbackAt, EndingFits, GivenBack
      <4> QED BY <1>0, <2>1, <3>2, <4>1, EndingRollback DEF EndsAt, Whole, GivenBack, Intact
    <3> QED BY <3>1, <3>2
  <2>3. OperationStep(p) /\ ~ReleaseStage(p) /\ ~FinalizeStage(p)
    BY <1>0 DEF OperationStep, ReleaseStage, FinalizeStage
  <2> QED BY <1>0, <2>1, <2>2, <2>3, WorkingPaid
<1>3. CASE ~TearEntry(p)
  <2>1. job'[p].op = op
    BY <1>3, TaskStays, JobFunction DEF TrashStep, WriteTrashPayload, MakeTmp, BuildBundle, CommitTrashEntry,
         MarkTrashEntry, DropTrash, DropTmp, KeepEntry, SameTask, Jobs
  <2>2. pc'[p] \in {"trash-drop-tmp", "trash-rename", "trash-mkdir", "trash-bundle", "trash-seal",
                    "trash-mark", "trash-deletes", "rel-stage"}
    BY <1>3, JobFunction DEF TrashStep, WriteTrashPayload, MakeTmp, BuildBundle, CommitTrashEntry,
         MarkTrashEntry, DropTrash, DropTmp, KeepEntry, Goto, ReleaseAs
  <2>3. RollbackAt(p)'
    <3>1. CASE pc[p] = "trash-drop-entry"
      <4>1. pc'[p] = "rel-stage" /\ payload' = payload
        BY <1>3, <3>1, JobFunction DEF TrashStep, WriteTrashPayload, MakeTmp, BuildBundle,
             CommitTrashEntry, MarkTrashEntry, DropTrash, Goto, ReleaseAs, disk
      <4>2. Whole(op)
        BY <1>0, <3>1 DEF RollbackAt, EndingFits
      <4> QED BY <1>0, <2>1, <4>1, <4>2, EndingRollback DEF EndsAt, Whole, GivenBack, Intact
    <3>2. CASE pc[p] # "trash-drop-entry"
      <4>1. pc[p] \in UncoveredAt
        BY <1>3, <3>2 DEF TrashStep, WriteTrashPayload, MakeTmp, BuildBundle, CommitTrashEntry,
             MarkTrashEntry, DropTrash, UncoveredAt, MoveAt, EntryMadeAt
      <4>2. payload'[op].covers = {}
        BY <1>0, <1>1, <4>1 DEF RollbackAt, EndingFits, Typed
      <4> QED BY <2>1, <2>2, <4>2, EmptyRollback DEF PaidAt, CommittingAt, RemovingAt, RestoringAt
    <3> QED BY <3>1, <3>2
  <2>4. OperationStep(p) /\ ~ReleaseStage(p) /\ ~FinalizeStage(p)
    BY <1>0 DEF OperationStep, ReleaseStage, FinalizeStage
  <2> QED BY <1>0, <1>1, <2>3, <2>4, WorkingPaid
<1> QED BY <1>2, <1>3

(* A purge has nothing of a surface on record.                             *)
LEMMA PurgeWhole ==
  ASSUME NEW o \in OpIds, PaidOff(o), payload[o].kind \in {"none", "purge"},
         payload[o].covers \subseteq Surfaces
  PROVE  Whole(o)
BY DEF PaidOff, Whole, GivenBack, Intact

(* The checks of a trash entry change no surface.                          *)
LEMMA EntryRollback ==
  ASSUME ReleaseSucceeds, Consistent, RollbackInv, NEW p \in Procs,
         PrepareEntry(p) \/ CheckEntry(p) \/ CommitEntry(p)
  PROVE  Working(p) /\ RollbackAt(p)' /\ \A o \in OpIds : PaidOff(o)'
<1> USE DEF Consistent
<1> DEFINE op == job[p].op
<1>0. /\ pc[p] \in {"acquired", "entry", "restore-commit", "purge-commit"}
      /\ UNCHANGED <<live, lock, payload>>
  BY DEF PrepareEntry, CheckEntry, CommitEntry, data, disk
<1>1. /\ Working(p) /\ op \in OpIds /\ RollbackAt(p) /\ Fits(p)
      /\ payload[op].covers \subseteq Surfaces /\ PaidOff(op)
  BY <1>0, WorkerFits DEF Working, RollbackInv, Typed, Payloads
<1>2. /\ job'[p].op = op
      /\ pc'[p] \in {"entry", "conflicts", "purge-payload", "restore", "purge-start", "rel-stage"}
      /\ pc'[p] = "restore" => pc[p] = "restore-commit" /\ job' = job
  BY JobFunction DEF PrepareEntry, CheckEntry, CommitEntry, Refuse, ReleaseAs, Goto, Jobs
<1>3. RollbackAt(p)'
  <2>1. CASE pc[p] \in {"acquired", "entry"}
    <3>1. payload'[op].covers = {}
      BY <1>0, <1>1, <2>1 DEF RollbackAt, EndingFits, UncoveredAt
    <3>2. pc'[p] \in {"entry", "conflicts", "purge-payload", "rel-stage"}
      BY <2>1, JobFunction DEF PrepareEntry, CheckEntry, CommitEntry, Refuse, ReleaseAs, Goto
    <3> QED BY <1>2, <3>1, <3>2, EmptyRollback DEF PaidAt, CommittingAt, RemovingAt, RestoringAt
  <2>2. CASE pc'[p] = "purge-start"
    BY <2>2, ElsewhereRollback
       DEF SpokenAt, UncoveredAt, PaidAt, CommittingAt, RemovingAt, RestoringAt, MoveAt, EntryMadeAt
  <2>3. CASE pc'[p] = "restore"
    BY <1>0, <1>1, <1>2, <2>3
       DEF RollbackAt, TakingFits, RowsFit, ReturningFits, AddingFits, EndingFits, UncoveredAt,
           PaidAt, CommittingAt, RemovingAt, RestoringAt, MoveAt, EntryMadeAt, Whole, GivenBack, Intact
  <2>4. CASE pc'[p] = "rel-stage" /\ pc[p] \in {"restore-commit", "purge-commit"}
    <3>1. Whole(op)
      <4>1. CASE pc[p] = "restore-commit"
        BY <1>1, <4>1 DEF RollbackAt, AddingFits, RestoringAt
      <4>2. CASE pc[p] = "purge-commit"
        BY <1>1, <4>2, PurgeWhole DEF Fits, PayloadFits, KindFits, PurgingAt
      <4> QED BY <2>4, <4>1, <4>2
    <3> QED BY <1>0, <1>2, <2>4, <3>1, EndingRollback DEF EndsAt, Whole, GivenBack, Intact
  <2>5. pc[p] \in {"restore-commit", "purge-commit"}
          => pc'[p] \in {"restore", "purge-start", "rel-stage"}
    BY JobFunction DEF PrepareEntry, CheckEntry, CommitEntry, Refuse, ReleaseAs, Goto
  <2> QED BY <1>0, <2>1, <2>2, <2>3, <2>4, <2>5
<1>4. /\ OperationStep(p) /\ ~ReleaseStage(p) /\ ~FinalizeStage(p)
      /\ pc[p] \notin ClosingAt \cup {"fin-stage"}
  BY <1>0 DEF OperationStep, EntryStep, ReleaseStage, FinalizeStage, ClosingAt
<1> QED BY <1>0, <1>1, <1>3, <1>4, WorkingPaid

(* A restore that goes on adds to what it found, or puts it back as it     *)
(* was, which is not less than what was recorded.                          *)
LEMMA AddingRollback ==
  ASSUME NEW p \in Procs, RollbackAt(p), pc[p] \in RestoringAt, SameTask(p), payload' = payload,
         payload[job[p].op].covers \subseteq Surfaces,
         \A s \in Surfaces : \/ live[s].own \subseteq live'[s].own
                             \/ payload[job[p].op].before[s].own \subseteq live'[s].own,
         pc'[p] \in RestoringAt \cup {"rel-stage"}
  PROVE  RollbackAt(p)'
<1> DEFINE op == job[p].op
<1>1. /\ job'[p].op = op /\ job'[p].snap = job[p].snap
  BY DEF SameTask
<1>2. /\ \A s \in payload[op].covers : payload[op].before[s].own \subseteq live[s].own
      /\ \A s \in Surfaces : payload[op].before[s].own \subseteq job[p].snap[s].own
      /\ \A s \in Rows : payload[op].before[s].own = {}
  BY DEF RollbackAt, AddingFits, Whole, GivenBack, Intact
<1>3. \A s \in payload[op].covers : payload[op].before[s].own \subseteq live'[s].own
  BY <1>2
<1>4. CASE pc'[p] = "rel-stage"
  BY <1>1, <1>3, <1>4, EndingRollback DEF EndsAt
<1>5. CASE pc'[p] \in RestoringAt
  <2>1. AddingFits(p)'
    BY <1>1, <1>2, <1>3, <1>5 DEF AddingFits, Whole, GivenBack, Intact, RestoringAt
  <2> QED BY <1>5, <2>1
          DEF RollbackAt, TakingFits, RowsFit, ReturningFits, EndingFits, UncoveredAt,
              PaidAt, CommittingAt, RemovingAt, RestoringAt, MoveAt, EntryMadeAt
<1> QED BY <1>4, <1>5

(* The writes of a restore and of its rollback.                            *)
LEMMA RestoreWrites ==
  ASSUME Typed, NEW p \in Procs, RollbackAt(p), pc[p] \in RestoringAt, RestoreStep(p),
         NEW s \in Surfaces
  PROVE  live[s].own \subseteq live'[s].own \/ payload[job[p].op].before[s].own \subseteq live'[s].own
<1>0. /\ payload[job[p].op].before[s].own \subseteq job[p].snap[s].own
      /\ s \in Rows => payload[job[p].op].before[s].own = {}
  BY DEF RollbackAt, AddingFits
<1>1. live \in [Surfaces -> Value] /\ live[s] \in Value
  BY DEF Typed, DataTyped, Images
<1>2. CASE RestoreText(p)
  <2> PICK t \in job[p].cur \ Rows :
        live' = live \/ (StillCaptured(p, t) /\ live' = [live EXCEPT ![t] = Restored(p, t)])
    BY <1>2 DEF RestoreText
  <2>1. CASE live' = live
    BY <2>1
  <2>2. CASE StillCaptured(p, t) /\ live' = [live EXCEPT ![t] = Restored(p, t)]
    <3>1. s = t => live'[s] = [live[s] EXCEPT !.own = live[s].own \cup job[p].bundle[s]]
      BY <1>1, <2>2 DEF StillCaptured, Restored, After
    <3>2. s # t => live'[s] = live[s]
      BY <1>1, <2>2
    <3> QED BY <1>1, <3>1, <3>2 DEF Value
  <2> QED BY <2>1, <2>2
<1>3. CASE RestoreRows(p)
  <2> PICK t \in job[p].cur \cap Rows :
        live' = live \/ live' = [live EXCEPT ![t].own = live[t].own \cup job[p].bundle[t]]
    BY <1>3 DEF RestoreRows
  <2> QED BY <1>1 DEF Value
<1>4. CASE RemoveGoals(p)
  <2>1. \/ live' = live
        \/ live' = [live EXCEPT !["sqlite-goals"] = GoalsRemoved(p, "sqlite-goals")]
    BY <1>4 DEF RemoveGoals
  <2> QED BY <1>0, <1>1, <2>1 DEF Rows
<1>5. CASE UndoRestore(p)
  <2> PICK t : live' = live \/ live' = [live EXCEPT ![t] = job[p].snap[t]]
    BY <1>5 DEF UndoRestore
  <2> QED BY <1>0, <1>1
<1>6. CASE ~(RestoreText(p) \/ RestoreRows(p) \/ RemoveGoals(p) \/ UndoRestore(p))
  BY <1>6 DEF RestoreStep, CheckConflicts, CaptureRestore, WriteRestorePayload, StartRestore,
              RereadWritten, MarkRestored, UndoRestoreEnds, MarkRows, VerifyRestore, data
<1> QED BY <1>2, <1>3, <1>4, <1>5, <1>6

(* The steps of a restore keep RollbackInv.                                *)
LEMMA RestoreRollback ==
  ASSUME ReleaseSucceeds, Consistent, RollbackInv, NEW p \in Procs, RestoreStep(p)
  PROVE  Working(p) /\ RollbackAt(p)' /\ \A o \in OpIds : PaidOff(o)'
<1> USE DEF Consistent
<1> DEFINE op == job[p].op
           b == [s \in Surfaces |-> IF s \in job[p].todo \ Rows THEN job[p].snap[s] ELSE Blank[s]]
           v == [kind |-> job[p].kind, covers |-> job[p].todo, before |-> b, moves |-> Moves(p),
                 from |-> job[p].from, sealed |-> FALSE]
<1>0. /\ pc[p] \in {"conflicts", "restore-capture", "restore-payload"} \cup RestoringAt
      /\ lock' = lock
  BY DEF RestoreStep, CheckConflicts, CaptureRestore, WriteRestorePayload, StartRestore,
         RestoreText, RereadWritten, MarkRestored, RestoreRows, RemoveGoals, UndoRestore, UndoRestoreEnds,
         MarkRows, VerifyRestore, RestoringAt, disk
<1>1. /\ Working(p) /\ op \in OpIds /\ RollbackAt(p) /\ Fits(p)
      /\ payload[op].covers \subseteq Surfaces
  BY <1>0, WorkerFits DEF Working, RollbackInv, Typed, Payloads, RestoringAt
<1>2. /\ v.kind = "restore" /\ v.covers = job[p].todo
      /\ \A s \in Surfaces : /\ v.before[s].own \subseteq job[p].snap[s].own
                             /\ s \in Rows => v.before[s].own = {}
  <2>1. job[p].kind = "restore"
    BY <1>0, <1>1 DEF Fits, KindFits, RestoreBeginsAt
  <2>2. v.before = b /\ v.kind = job[p].kind /\ v.covers = job[p].todo
    OBVIOUS
  <2>3. \A s \in Surfaces : Blank[s].own = {}
    BY DEF Blank
  <2>4. \A s \in Surfaces : b[s] = IF s \in job[p].todo \ Rows THEN job[p].snap[s] ELSE Blank[s]
    OBVIOUS
  <2> HIDE DEF v, b
  <2> QED BY <2>1, <2>2, <2>3, <2>4
<1>3. payload' = payload \/ (WriteRestorePayload(p) /\ payload' = [payload EXCEPT ![op] = v])
  BY DEF RestoreStep, CheckConflicts, CaptureRestore, WriteRestorePayload, StartRestore,
         RestoreText, RereadWritten, MarkRestored, RestoreRows, RemoveGoals, UndoRestore, UndoRestoreEnds,
         MarkRows, VerifyRestore, disk
<1> HIDE DEF v, b
<1>4. RollbackAt(p)'
  <2>1. CASE CheckConflicts(p)
    <3>1. /\ pc'[p] \in {"restore-capture", "rel-stage"} /\ job'[p].op = op /\ payload' = payload
          /\ pc[p] = "conflicts"
      BY <2>1, JobFunction DEF CheckConflicts, Refuse, ReleaseAs, Goto, Jobs, disk
    <3> QED BY <1>1, <3>1, EmptyRollback
            DEF RollbackAt, EndingFits, UncoveredAt, PaidAt, CommittingAt, RemovingAt, RestoringAt
  <2>2. CASE CaptureRestore(p)
    <3> DEFINE j == [job[p] EXCEPT !.snap = live, !.todo = RestorePlan(p)]
    <3>1. /\ j.op = op /\ j.snap = live /\ j.kind = job[p].kind
      BY JobFunction DEF Jobs
    <3>2. /\ pc'[p] = "restore-payload" /\ job'[p] = j /\ payload' = payload /\ live' = live
          /\ pc[p] = "restore-capture"
      BY <2>2, JobFunction DEF CaptureRestore, Goto, disk, data
    <3> HIDE DEF j
    <3>3. payload'[job'[p].op].covers = {}
      BY <1>1, <3>1, <3>2 DEF RollbackAt, EndingFits, UncoveredAt
    <3> QED BY <3>1, <3>2, <3>3
            DEF RollbackAt, TakingFits, RowsFit, ReturningFits, AddingFits, EndingFits, UncoveredAt,
                PaidAt, CommittingAt, RemovingAt, RestoringAt, MoveAt, EntryMadeAt
  <2>3. CASE WriteRestorePayload(p)
    <3>1. \/ pc'[p] = "restore-commit" /\ job' = job /\ payload' = [payload EXCEPT ![op] = v]
          \/ pc'[p] = "rel-stage" /\ job'[p].op = op
      BY <1>3, <2>3, JobFunction
         DEF WriteRestorePayload, Refuse, ReleaseAs, Goto, Jobs, Effect, Throws, v, b
    <3>2. pc[p] = "restore-payload" /\ live' = live
      BY <2>3 DEF WriteRestorePayload, data
    <3>3. /\ payload[op].covers = {} /\ \A s \in Surfaces : job[p].snap[s].own \subseteq live'[s].own
      BY <1>1, <3>2 DEF RollbackAt, EndingFits, AddingFits, UncoveredAt
    <3>4. job[p].todo \subseteq Surfaces
      BY JobFunction DEF Jobs
    <3>5. payload'[op] = v \/ payload' = payload
      BY <1>1, <1>3 DEF Typed
    <3>6. \A s \in payload'[op].covers : payload'[op].before[s].own \subseteq live'[s].own
      BY <1>2, <3>3, <3>4, <3>5
    <3>7. CASE pc'[p] = "rel-stage" /\ job'[p].op = op
      BY <3>6, <3>7, EndingRollback DEF EndsAt
    <3>8. CASE pc'[p] = "restore-commit" /\ job' = job /\ payload' = [payload EXCEPT ![op] = v]
      <4>1. payload'[op] = v
        BY <1>1, <3>8 DEF Typed
      <4>2. Rows \subseteq Surfaces
        BY SurfacesNamed DEF Rows
      <4> QED BY <1>2, <3>6, <3>8, <4>1, <4>2
              DEF RollbackAt, TakingFits, RowsFit, ReturningFits, AddingFits, EndingFits, UncoveredAt,
                  PaidAt, CommittingAt, RemovingAt, RestoringAt, MoveAt, EntryMadeAt, Whole, GivenBack, Intact
    <3> QED BY <3>1, <3>7, <3>8
  <2>4. CASE pc[p] \in RestoringAt
    <3>1. pc'[p] \in RestoringAt \cup {"rel-stage"}
      BY <2>4, JobFunction
         DEF RestoreStep, CheckConflicts, CaptureRestore, WriteRestorePayload, StartRestore,
             RestoreText, RereadWritten, MarkRestored, RestoreRows, RemoveGoals, UndoRestore, UndoRestoreEnds,
             MarkRows, VerifyRestore, RestoringAt, RestoreFails, ReleaseAs, ReleaseMarked, Goto
    <3>2. payload' = payload /\ ~CaptureRestore(p)
      BY <1>3, <2>4 DEF WriteRestorePayload, CaptureRestore, RestoringAt
    <3>3. SameTask(p)
      BY <3>1, <3>2, RestoreTask DEF Stopped, RestoringAt
    <3> QED BY <1>1, <2>4, <3>1, <3>2, <3>3, RestoreWrites, AddingRollback
  <2>5. pc[p] \in RestoringAt \/ CheckConflicts(p) \/ CaptureRestore(p) \/ WriteRestorePayload(p)
    BY DEF RestoreStep, StartRestore,
           RestoreText, RereadWritten, MarkRestored, RestoreRows, RemoveGoals, UndoRestore, UndoRestoreEnds,
           MarkRows, VerifyRestore, RestoringAt
  <2> QED BY <2>1, <2>2, <2>3, <2>4, <2>5
<1>5. /\ OperationStep(p) /\ ~ReleaseStage(p) /\ ~FinalizeStage(p)
      /\ pc[p] \notin ClosingAt \cup {"fin-stage"}
  BY <1>0 DEF OperationStep, ReleaseStage, FinalizeStage, ClosingAt, RestoringAt
<1>6. payload' = payload \/ (payload' = [payload EXCEPT ![op] = v] /\ v.kind = "restore")
  BY <1>2, <1>3
<1> QED BY <1>0, <1>1, <1>4, <1>5, <1>6, WorkingPaid

(* The steps of a purge keep RollbackInv.                                  *)
LEMMA PurgeRollback ==
  ASSUME ReleaseSucceeds, Consistent, RollbackInv, NEW p \in Procs, PurgeStep(p)
  PROVE  Working(p) /\ RollbackAt(p)' /\ \A o \in OpIds : PaidOff(o)'
<1> USE DEF Consistent
<1> DEFINE op == job[p].op
           v == [kind |-> job[p].kind, covers |-> job[p].todo, before |-> Blank,
                 moves |-> job[p].bundle, from |-> job[p].from, sealed |-> TRUE]
<1>0. pc[p] \in PurgingAt \cup {"purge-payload"} /\ lock' = lock
  BY DEF PurgeStep, WritePurgePayload, RecheckPurge, CheckpointPurge, PurgeLogs, QuarantineEntry,
         RemoveQuarantine, VerifyPurge, PurgingAt, disk
<1>1. /\ Working(p) /\ op \in OpIds /\ Fits(p) /\ PaidOff(op)
      /\ job[p].kind = "purge" /\ payload[op].kind \in {"none", "purge"}
  <2>1. Working(p)
    BY <1>0 DEF Working, PurgingAt
  <2>2. op \in OpIds /\ Fits(p)
    BY <2>1, WorkerFits
  <2>3. job[p].kind = "purge"
    BY <1>0, <2>2 DEF Fits, KindFits
  <2> QED BY <2>1, <2>2, <2>3 DEF Fits, PayloadFits, RollbackInv
<1>2. /\ v.kind = "purge" /\ \A s \in Surfaces : v.before[s].own = {}
      /\ v.covers \subseteq Surfaces
  <2>1. v.before = Blank /\ v.kind = job[p].kind /\ v.covers = job[p].todo
    OBVIOUS
  <2>2. \A s \in Surfaces : Blank[s].own = {}
    BY DEF Blank
  <2>3. job[p].todo \subseteq Surfaces
    BY JobFunction DEF Jobs
  <2> HIDE DEF v
  <2> QED BY <1>1, <2>1, <2>2, <2>3
<1>3. payload' = payload \/ payload' = [payload EXCEPT ![op] = v]
  BY DEF PurgeStep, WritePurgePayload, RecheckPurge, CheckpointPurge, PurgeLogs, QuarantineEntry,
         RemoveQuarantine, VerifyPurge, disk
<1> HIDE DEF v
<1>4. \A s \in payload'[op].covers : payload'[op].before[s].own = {}
  <2>1. \A s \in payload[op].covers : payload[op].before[s].own = {}
    BY <1>1 DEF PaidOff, Typed, Payloads
  <2>2. payload'[op] = v \/ payload' = payload
    BY <1>1, <1>3 DEF Typed
  <2> QED BY <1>2, <2>1, <2>2
<1>5. pc'[p] \in PurgingAt \cup {"rel-stage"} /\ job'[p].op = op
  <2>1. CASE CheckpointPurge(p)
    <3>1. \/ ReleaseMarked(p, PurgeMarks(p), "recovery_required", "ignore")
          \/ /\ pc'[p] \in {"purge-logs", "purge-quarantine", "purge-remove", "purge-verify"}
             /\ job' = [job EXCEPT ![p].marks = PurgeMarks(p)]
      BY <2>1, JobFunction DEF CheckpointPurge, Goto
    <3>2. job' = [job EXCEPT ![p].marks = PurgeMarks(p)] => job'[p].op = op
      BY JobFunction DEF Jobs
    <3> QED BY <3>1, <3>2, MarkedLeaves DEF PurgingAt
  <2>2. CASE ~CheckpointPurge(p)
    BY <2>2, JobFunction
       DEF PurgeStep, WritePurgePayload, RecheckPurge, PurgeLogs, QuarantineEntry,
           RemoveQuarantine, VerifyPurge, PurgeFails, Refuse, ReleaseAs, Goto, Jobs, PurgingAt
  <2> QED BY <2>1, <2>2
<1>6. RollbackAt(p)'
  <2>1. CASE pc'[p] = "rel-stage"
    BY <1>4, <1>5, <2>1, EndingRollback DEF EndsAt
  <2>2. CASE pc'[p] \in PurgingAt
    BY <2>2, ElsewhereRollback
       DEF SpokenAt, UncoveredAt, PaidAt, CommittingAt, RemovingAt, RestoringAt, MoveAt, EntryMadeAt,
           PurgingAt
  <2> QED BY <1>5, <2>1, <2>2
<1>7. /\ OperationStep(p) /\ ~ReleaseStage(p) /\ ~FinalizeStage(p)
      /\ pc[p] \notin ClosingAt \cup {"fin-stage"}
  BY <1>0 DEF OperationStep, ReleaseStage, FinalizeStage, ClosingAt, PurgingAt
<1> QED BY <1>0, <1>1, <1>2, <1>3, <1>6, <1>7, WorkingPaid

(* Writing the end of an operation, or removing its payload and its lock.  *)
LEMMA ClosingPaid ==
  ASSUME ReleaseSucceeds, Consistent, NEW p \in Procs, Working(p), RollbackInv, live' = live,
         LET op == job[p].op IN
         \/ /\ UNCHANGED <<lock, payload>>
            /\ \A o \in OpIds \ {op} : journal'[o] = journal[o]
            /\ journal'[op].stage = "rolled_back" => journal[op].stage = "rolled_back" \/ GivenBack(op)
         \/ UNCHANGED <<lock, journal>> /\ payload' = [payload EXCEPT ![op] = NoPayload]
         \/ UNCHANGED <<payload, journal>> /\ payload[op].kind = "none"
  PROVE  \A o \in OpIds : PaidOff(o)'
<1> DEFINE op == job[p].op
<1>1. op \in OpIds /\ lock.op = op
  BY WorkerFits DEF Consistent
<1> SUFFICES ASSUME NEW o \in OpIds PROVE PaidOff(o)'
  OBVIOUS
<1>2. PaidOff(o)
  BY DEF RollbackInv
<1>3. CASE /\ UNCHANGED <<lock, payload>>
           /\ \A q \in OpIds \ {op} : journal'[q] = journal[q]
           /\ journal'[op].stage = "rolled_back" => journal[op].stage = "rolled_back" \/ GivenBack(op)
  BY <1>2, <1>3 DEF PaidOff, Whole, GivenBack, Intact
<1>4. CASE UNCHANGED <<lock, journal>> /\ payload' = [payload EXCEPT ![op] = NoPayload]
  <2>1. payload'[o] = IF o = op THEN NoPayload ELSE payload[o]
    BY <1>1, <1>4 DEF Consistent, Typed
  <2>2. NoPayload.kind = "none" /\ NoPayload.covers = {}
    BY DEF NoPayload
  <2> QED BY <1>2, <1>4, <2>1, <2>2 DEF PaidOff, Whole, GivenBack, Intact
<1>5. CASE UNCHANGED <<payload, journal>> /\ payload[op].kind = "none"
  BY <1>1, <1>2, <1>5 DEF PaidOff, Whole, GivenBack, Intact
<1> QED BY <1>3, <1>4, <1>5

(* The steps of a release keep RollbackInv.                                *)
LEMMA ReleaseRollback ==
  ASSUME ReleaseSucceeds, Consistent, RollbackInv, NEW p \in Procs, ReleaseStep(p)
  PROVE  Working(p) /\ RollbackAt(p)' /\ \A o \in OpIds : PaidOff(o)'
<1> USE JobFunction, ReleaseIsQuiet DEF Consistent
<1> DEFINE op == job[p].op
<1>0. Working(p) /\ pc[p] # "lock-created" /\ live' = live
  BY DEF ReleaseStep, ReleaseStage, ReleaseCheck, ReleasePayload, ReleaseUnlock, Working, data
<1>1. op \in OpIds /\ lock.op = op /\ lock.written /\ RollbackAt(p)
  BY <1>0, WorkerFits, OneWorker DEF RollbackInv
<1>2. pc'[p] \in {"idle", "rel-check", "rel-payload", "rel-unlock"} /\ (pc'[p] # "idle" => job' = job)
  BY <1>1 DEF ReleaseStep, ReleaseStage, ReleaseCheck, ReleasePayload, ReleaseUnlock, Throws,
          OwnsLockFile, Stop, Goto
<1>3. RollbackAt(p)'
  <2>1. CASE pc'[p] = "rel-unlock"
    <3>1. payload' = [payload EXCEPT ![op] = NoPayload]
      BY <1>1, <2>1 DEF ReleaseStep, ReleaseStage, ReleaseCheck, ReleasePayload, ReleaseUnlock, Throws,
              Effect, OwnsLockFile, Stop, Goto
    <3>2. payload'[op].kind = "none"
      BY <1>1, <3>1 DEF Typed, NoPayload
    <3> QED BY <1>2, <2>1, <3>2
            DEF RollbackAt, TakingFits, RowsFit, ReturningFits, AddingFits, EndingFits, UncoveredAt,
                PaidAt, CommittingAt, RemovingAt, RestoringAt, MoveAt, EntryMadeAt
  <2>2. CASE pc'[p] # "rel-unlock"
    BY <1>2, <2>2, ElsewhereRollback
       DEF SpokenAt, UncoveredAt, PaidAt, CommittingAt, RemovingAt, RestoringAt, MoveAt, EntryMadeAt
  <2> QED BY <2>1, <2>2
<1>4. CASE ReleaseStage(p)
  <2>1. /\ UNCHANGED <<lock, payload>> /\ pc[p] = "rel-stage"
        /\ journal' = [journal EXCEPT ![op] = [stage |-> job[p].rel.stage, marks |-> job[p].marks]]
    BY <1>4 DEF ReleaseStage, WriteJournal, Effect
  <2>2. /\ \A o \in OpIds \ {op} : journal'[o] = journal[o]
        /\ journal'[op].stage = job[p].rel.stage
    BY <1>1, <2>1 DEF Typed
  <2>3. job[p].rel.stage = "rolled_back" => GivenBack(op)
    BY <1>1, <2>1 DEF RollbackAt, EndingFits
  <2> QED BY <1>0, <1>3, <2>1, <2>2, <2>3, ClosingPaid
<1>5. CASE ReleaseCheck(p)
  BY <1>0, <1>3, <1>5, ClosingPaid DEF ReleaseCheck, disk
<1>6. CASE ReleasePayload(p)
  BY <1>0, <1>3, <1>6, ClosingPaid DEF ReleasePayload, Effect
<1>7. CASE ReleaseUnlock(p)
  <2>1. payload[op].kind = "none"
    BY <1>1, <1>7 DEF ReleaseUnlock, RollbackAt, EndingFits
  <2> QED BY <1>0, <1>3, <1>7, <2>1, ClosingPaid DEF ReleaseUnlock
<1> QED BY <1>4, <1>5, <1>6, <1>7 DEF ReleaseStep

(* A recovery visits every surface on record before it reports an end.     *)
LEMMA RecoveryRollback ==
  ASSUME ReleaseSucceeds, Consistent, DurableInv, RollbackInv, NEW p \in Procs,
         RecoveryStep(p), ~BeginRecovery(p)
  PROVE  Working(p) /\ RollbackAt(p)' /\ \A o \in OpIds : PaidOff(o)'
<1> USE DEF Consistent
<1> DEFINE op == job[p].op
<1>0. pc[p] \in ReconcileAt \cup {"fin-stage", "fin-payload", "fin-unlock"}
  BY DEF RecoveryStep, RecoverSurface, SurfacesRecovered, RecoverQuarantine, RecoverTrash,
         RefuseTrash, FinalizeStage, FinalizePayload, FinalizeUnlock, ReconcileAt
<1>1. Working(p) /\ op \in OpIds /\ RollbackAt(p) /\ payload[op].covers \subseteq Surfaces
  BY <1>0, WorkerFits DEF Working, RollbackInv, Typed, Payloads, ReconcileAt
<1>2. ASSUME pc'[p] = "idle" PROVE RollbackAt(p)'
  BY <1>2, ElsewhereRollback
     DEF SpokenAt, UncoveredAt, PaidAt, CommittingAt, RemovingAt, RestoringAt, MoveAt, EntryMadeAt
<1>3. ASSUME UNCHANGED <<live, payload>>, job' = job, pc'[p] \in {"rec-trash", "rec-rmdir", "fin-stage"},
             job[p].rel.stage = "rolled_back" => GivenBack(op)
      PROVE  RollbackAt(p)'
  BY <1>3, EndingRollback DEF EndsAt, Whole, GivenBack, Intact
<1>4. ASSUME UNCHANGED <<lock, payload>>, RollbackAt(p)', pc[p] \in ReconcileAt, RecoveryStep(p)
      PROVE  Working(p) /\ RollbackAt(p)' /\ \A o \in OpIds : PaidOff(o)'
  BY <1>1, <1>4, WorkingPaid DEF OperationStep, ReleaseStage, FinalizeStage, ClosingAt, ReconcileAt
<1>5. CASE RecoverSurface(p)
  <2>1. pc[p] = "rec" /\ UNCHANGED <<lock, payload>> /\ payload[op].before = job[p].snap
    BY <1>5 DEF RecoverSurface, DurableInv, DurableAt, MovesFit, disk
  <2> PICK s \in First(job[p].todo, RecoveryRank) :
        \/ Stop(p)
        \/ /\ live' = [live EXCEPT ![s] = Desired(p, s)]
           /\ pc' = pc /\ job' = [job EXCEPT ![p].todo = job[p].todo \ {s}]
    BY <1>5 DEF RecoverSurface, Throws, Effect
  <2>2. CASE Stop(p)
    <3>1. pc'[p] = "idle"
      BY <2>2, JobFunction DEF Stop
    <3> QED BY <1>2, <1>4, <2>1, <3>1 DEF ReconcileAt
  <2>3. CASE /\ live' = [live EXCEPT ![s] = Desired(p, s)]
             /\ pc' = pc /\ job' = [job EXCEPT ![p].todo = job[p].todo \ {s}]
    <3>1. /\ job'[p].op = op /\ job'[p].kind = job[p].kind /\ job'[p].todo = job[p].todo \ {s}
          /\ job'[p].rel = job[p].rel
      BY <2>3, JobFunction DEF Jobs
    <3>2. RollbackAt(p)'
      <4>1. CASE ~Deletes(p)
        BY <1>1, <2>1, <2>3, <3>1, <4>1
           DEF RollbackAt, TakingFits, RowsFit, ReturningFits, AddingFits, EndingFits, UncoveredAt,
               PaidAt, CommittingAt, RemovingAt, RestoringAt, MoveAt, EntryMadeAt, Deletes
      <4>2. CASE Deletes(p)
        <5>1. \A t \in Surfaces \ {s} : live'[t] = live[t]
          BY <2>3 DEF Typed, DataTyped, Images
        <5>2. s \in Surfaces => payload[op].before[s].own \subseteq live'[s].own
          <6> SUFFICES ASSUME s \in Surfaces PROVE payload[op].before[s].own \subseteq live'[s].own
            OBVIOUS
          <6>1. live'[s] = Desired(p, s) /\ live[s] \in Value
            BY <2>3 DEF Typed, DataTyped, Images
          <6>2. CASE s \in Databases
            <7>1. Desired(p, s).own = live[s].own \cup job[p].snap[s].own \cup job[p].bundle[s]
              BY <4>2, <6>1, <6>2 DEF Desired, Deletes, Value
            <7> QED BY <2>1, <6>1, <7>1
          <6>3. CASE s \notin Databases
            <7>1. Desired(p, s) = job[p].snap[s]
              BY <4>2, <6>3 DEF Desired, Deletes, Strategy
            <7> QED BY <2>1, <6>1, <7>1
          <6> QED BY <6>2, <6>3
        <5>3. \A t \in payload[op].covers :
                payload[op].before[t].own \subseteq live[t].own \/ t \in job[p].todo
          BY <1>1, <2>1, <4>2 DEF RollbackAt, ReturningFits, Intact
        <5>4. \A t \in payload[op].covers :
                payload[op].before[t].own \subseteq live'[t].own \/ t \in job'[p].todo
          BY <1>1, <3>1, <5>1, <5>2, <5>3
        <5>5. ReturningFits(p)'
          BY <2>1, <2>3, <3>1, <4>2, <5>4 DEF ReturningFits, Deletes, Intact
        <5> QED BY <2>1, <2>3, <5>5
                DEF RollbackAt, TakingFits, RowsFit, AddingFits, EndingFits, UncoveredAt,
                    PaidAt, CommittingAt, RemovingAt, RestoringAt, MoveAt, EntryMadeAt
      <4> QED BY <4>1, <4>2
    <3> QED BY <1>4, <2>1, <3>2 DEF ReconcileAt
  <2> QED BY <2>2, <2>3
<1>6. CASE SurfacesRecovered(p)
  <2>1. /\ pc[p] = "rec" /\ job[p].todo = {} /\ UNCHANGED <<live, lock, payload>> /\ job' = job
        /\ pc'[p] \in {"rec-trash", "fin-stage"}
    BY <1>6, JobFunction DEF SurfacesRecovered, Goto, data, disk
  <2>2. job[p].rel.stage = "rolled_back" => GivenBack(op)
    BY <1>1, <2>1 DEF RollbackAt, ReturningFits, Whole, GivenBack, Deletes
  <2> QED BY <1>3, <1>4, <2>1, <2>2 DEF ReconcileAt
<1>7. CASE RecoverQuarantine(p) \/ RecoverTrash(p) \/ RefuseTrash(p)
  <2>1. /\ pc[p] \in {"rec-trash", "rec-rmdir"} /\ UNCHANGED <<live, lock, payload>>
        /\ pc'[p] = "idle" \/ (job' = job /\ pc'[p] \in {"rec-trash", "rec-rmdir", "fin-stage"})
    BY <1>7, JobFunction DEF RecoverQuarantine, RecoverTrash, RefuseTrash, Goto, Stop, data, disk
  <2>2. job[p].rel.stage = "rolled_back" => GivenBack(op)
    BY <1>1, <2>1 DEF RollbackAt, EndingFits
  <2>3. RollbackAt(p)'
    BY <1>2, <1>3, <2>1, <2>2
  <2> QED BY <1>4, <2>1, <2>3 DEF ReconcileAt
<1>8. CASE FinalizeStage(p)
  <2>1. /\ pc[p] = "fin-stage" /\ UNCHANGED <<live, lock, payload>>
        /\ pc'[p] \in {"idle", "fin-payload"}
        /\ \/ journal' = journal
           \/ journal' = [journal EXCEPT ![op] = [stage |-> job[p].rel.stage, marks |-> journal[op].marks]]
    BY <1>8, JobFunction DEF FinalizeStage, WriteJournal, Goto, Stop, data
  <2>2. /\ \A o \in OpIds \ {op} : journal'[o] = journal[o]
        /\ journal'[op].stage = "rolled_back" => journal[op].stage = "rolled_back" \/ GivenBack(op)
    <3>1. job[p].rel.stage = "rolled_back" => GivenBack(op)
      BY <1>1, <2>1 DEF RollbackAt, EndingFits
    <3>2. /\ \A o \in OpIds \ {op} : journal'[o] = journal[o]
          /\ journal'[op].stage \in {journal[op].stage, job[p].rel.stage}
      BY <1>1, <2>1 DEF Typed
    <3> QED BY <3>1, <3>2
  <2>3. RollbackAt(p)'
    BY <2>1, ElsewhereRollback
       DEF SpokenAt, UncoveredAt, PaidAt, CommittingAt, RemovingAt, RestoringAt, MoveAt, EntryMadeAt
  <2> QED BY <1>1, <2>1, <2>2, <2>3, ClosingPaid
<1>9. CASE FinalizePayload(p)
  <2>1. /\ UNCHANGED <<live, lock, journal>>
        /\ payload' = payload \/ payload' = [payload EXCEPT ![op] = NoPayload]
        /\ \/ pc'[p] = "idle"
           \/ pc'[p] = "fin-unlock" /\ job' = job /\ payload' = [payload EXCEPT ![op] = NoPayload]
    BY <1>9, JobFunction DEF FinalizePayload, Goto, Stop, Throws, Effect, data
  <2>2. RollbackAt(p)'
    <3>1. CASE pc'[p] = "fin-unlock" /\ job' = job /\ payload' = [payload EXCEPT ![op] = NoPayload]
      <4>1. payload'[op].kind = "none"
        BY <1>1, <3>1 DEF Typed, NoPayload
      <4> QED BY <3>1, <4>1
              DEF RollbackAt, TakingFits, RowsFit, ReturningFits, AddingFits, EndingFits, UncoveredAt,
                  PaidAt, CommittingAt, RemovingAt, RestoringAt, MoveAt, EntryMadeAt
    <3> QED BY <1>2, <2>1, <3>1
  <2> QED BY <1>1, <2>1, <2>2, ClosingPaid
<1>10. CASE FinalizeUnlock(p)
  <2>1. pc[p] = "fin-unlock" /\ UNCHANGED <<live, journal, payload>> /\ pc'[p] = "idle"
    BY <1>10, JobFunction DEF FinalizeUnlock, Stop, data
  <2>2. payload[op].kind = "none"
    BY <1>1, <2>1 DEF RollbackAt, EndingFits
  <2> QED BY <1>1, <1>2, <2>1, <2>2, ClosingPaid
<1> QED BY <1>5, <1>6, <1>7, <1>8, <1>9, <1>10 DEF RecoveryStep

(* A recovery that begins is alone with the files it found.                *)
LEMMA BeginningPaid ==
  ASSUME ReleaseSucceeds, SupervisedRecovery, Consistent, RollbackInv, NEW p \in Procs,
         BeginRecovery(p), RollbackAt(p)'
  PROVE  RollbackInv'
<1>1. UNCHANGED <<live, lock, journal, payload>> /\ OthersStay(p)
  BY OthersAreLeft DEF BeginRecovery, data, disk, OperationStep, RecoveryStep, Consistent
<1>2. \A q \in Procs \ {p} : ~Working(q)
  <2>1. ASSUME NEW q \in Procs, Working(q) PROVE FALSE
    <3>1. lock.op = job[q].op /\ Active(q)
      BY <2>1, OneWorker DEF Consistent, Working, Active
    <3> QED BY <3>1 DEF BeginRecovery, Unattended
  <2> QED BY <2>1
<1>3. \A o \in OpIds : PaidOff(o)'
  BY <1>1 DEF RollbackInv, PaidOff, Whole, GivenBack, Intact
<1> QED BY <1>1, <1>2, <1>3, StepRollback

(* A recovery that begins finds everything back, or will look at it.       *)
LEMMA BeginningRollback ==
  ASSUME ReleaseSucceeds, SupervisedRecovery, Consistent, RollbackInv, NEW p \in Procs,
         BeginRecovery(p)
  PROVE  RollbackInv'
<1> USE DEF Consistent
<1> DEFINE o == lock.op
<1>1. /\ o \in OpIds /\ UNCHANGED <<live, lock, journal, payload>> /\ PaidOff(o)
      /\ payload[o].covers \subseteq Surfaces
  BY BoundsAssumption
     DEF BeginRecovery, Readable, Typed, LockTyped, data, disk, RollbackInv, Payloads, OpIds,
         Ownership, OwnOperation, CountTyped
<1>2. /\ job'[p].op = o /\ job'[p].kind = payload[o].kind
      /\ job'[p].todo = IF pc'[p] = "rec" THEN payload[o].covers ELSE {}
      /\ job'[p].rel.stage = EndStage(o)
      /\ pc'[p] = IF ~IsFinal(o) /\ ~Untouched(o) THEN "rec" ELSE "fin-stage"
  <2> DEFINE r == [stage |-> EndStage(o), next |-> "none"]
             t == IF ~IsFinal(o) /\ ~Untouched(o) THEN payload[o].covers ELSE {}
             j == [NoJob EXCEPT !.kind = payload[o].kind, !.op = o, !.snap = payload[o].before,
                             !.from = payload[o].from,
                             !.bundle = IF ProtectsLogs(o) THEN NoRecords ELSE payload[o].moves,
                             !.marks = journal[o].marks, !.todo = t, !.rel = r]
  <2>1. /\ j.op = o /\ j.kind = payload[o].kind /\ j.todo = t /\ j.rel = r
    BY DEF NoJob
  <2>2. /\ job'[p] = j
        /\ pc'[p] = IF ~IsFinal(o) /\ ~Untouched(o) THEN "rec" ELSE "fin-stage"
    BY JobFunction DEF BeginRecovery, Goto
  <2>3. r.stage = EndStage(o)
    OBVIOUS
  <2> HIDE DEF j, r
  <2> QED BY <2>1, <2>2, <2>3
<1>3. CASE pc'[p] = "fin-stage"
  <2>1. job'[p].rel.stage = "rolled_back" => GivenBack(o)
    <3>1. CASE IsFinal(o)
      BY <1>1, <1>2, <3>1 DEF EndStage, PaidOff
    <3>2. CASE Untouched(o)
      BY <1>1, <3>2 DEF Untouched, PaidOff, Whole, GivenBack
    <3> QED BY <1>2, <1>3, <3>1, <3>2
  <2>2. RollbackAt(p)'
    BY <1>1, <1>2, <1>3, <2>1
       DEF RollbackAt, TakingFits, RowsFit, ReturningFits, AddingFits, EndingFits, UncoveredAt,
           PaidAt, CommittingAt, RemovingAt, RestoringAt, MoveAt, EntryMadeAt, Whole, GivenBack, Intact
  <2> QED BY <1>1, <2>2, BeginningPaid
<1>4. CASE pc'[p] = "rec"
  <2>1. EndStage(o) = IF Strategy(payload[o].kind) = "rollforward" THEN "committed" ELSE "rolled_back"
    BY <1>2, <1>4 DEF EndStage
  <2>2. ReturningFits(p)'
    BY <1>1, <1>2, <1>4, <2>1 DEF ReturningFits, Deletes, Strategy
  <2>3. RollbackAt(p)'
    BY <1>4, <2>2 DEF RollbackAt, TakingFits, RowsFit, AddingFits, EndingFits, UncoveredAt,
       PaidAt, CommittingAt, RemovingAt, RestoringAt, MoveAt, EntryMadeAt
  <2> QED BY <1>1, <2>3, BeginningPaid
<1> QED BY <1>2, <1>3, <1>4

(* Steps that change nothing an operation has written.                     *)
LEMMA StillRollback ==
  ASSUME RollbackInv, NEW p \in Procs, OthersStay(p), UNCHANGED <<live, lock, journal, payload>>,
         pc'[p] \notin SpokenAt
  PROVE  RollbackInv'
<1>1. \A o \in OpIds : PaidOff(o)'
  BY DEF RollbackInv, PaidOff, Whole, GivenBack, Intact
<1>2. ASSUME NEW q \in Procs \ {p} PROVE RollbackAt(q)'
  <2>1. RollbackAt(q) /\ pc'[q] = pc[q] /\ job'[q] = job[q]
    BY DEF RollbackInv, OthersStay
  <2>2. Covered(q)' = Covered(q) /\ Deletes(q)' = Deletes(q)
    BY <2>1 DEF Covered, Deletes
  <2>3. TakingFits(q)'
    BY <2>1, <2>2 DEF RollbackAt, TakingFits, Intact
  <2>4. RowsFit(q)' /\ ReturningFits(q)' /\ AddingFits(q)' /\ EndingFits(q)'
    BY <2>1, <2>2 DEF RollbackAt, RowsFit, ReturningFits, AddingFits, EndingFits, Whole, GivenBack, Intact
  <2> QED BY <2>3, <2>4 DEF RollbackAt
<1> QED BY <1>1, <1>2, ElsewhereRollback DEF RollbackInv

(* An operation that has just begun has nothing on record.                 *)
LEMMA AcquireRollback ==
  ASSUME ReleaseSucceeds, Consistent, RollbackInv, NEW p \in Procs, AcquireStep(p)
  PROVE  RollbackInv'
<1> USE JobFunction DEF Consistent
<1> DEFINE op == job[p].op
<1>0. OthersStay(p)
  BY OthersAreLeft DEF OperationStep
<1>1. CASE (\E kind \in Kinds : ScanRoot(p, kind)) \/ LockIsTaken(p)
  <2>1. UNCHANGED <<live, lock, journal, payload>> /\ pc'[p] \in {"scanned", "idle"}
    BY <1>1 DEF ScanRoot, LockIsTaken, data, disk, Goto, Stop
  <2> QED BY <1>0, <2>1, StillRollback
          DEF SpokenAt, UncoveredAt, PaidAt, CommittingAt, RemovingAt, RestoringAt, MoveAt, EntryMadeAt
<1>2. CASE CreateLock(p)
  <2>1. /\ lock'.op = ops + 1 /\ pc'[p] = "lock-created" /\ lock.op = 0 /\ ops + 1 \in OpIds
        /\ UNCHANGED <<live, journal, payload>> /\ job'[p].op = ops + 1
    BY <1>2, BoundsAssumption DEF CreateLock, LockFree, Goto, Typed, CountTyped, OpIds, Jobs, data
  <2>2. \A q \in Procs \ {p} : ~Working(q)
    BY <2>1, OneWorker DEF Typed, CountTyped
  <2>3. \A o \in OpIds : payload[o].kind = "none" /\ payload[o].covers = {}
    BY <2>1 DEF RollbackInv, PaidOff, OpIds
  <2>4. \A o \in OpIds : PaidOff(o)'
    BY <2>1, <2>3 DEF PaidOff, Whole, GivenBack
  <2>5. RollbackAt(p)'
    BY <2>1, <2>3
       DEF RollbackAt, TakingFits, RowsFit, ReturningFits, AddingFits, EndingFits, UncoveredAt,
           PaidAt, CommittingAt, RemovingAt, RestoringAt, MoveAt, EntryMadeAt
  <2> QED BY <1>0, <2>2, <2>4, <2>5, StepRollback
<1>3. CASE WriteLock(p) \/ CreateJournal(p)
  <2>1. /\ lock'.op = lock.op /\ UNCHANGED <<live, payload>> /\ Working(p)
        /\ pc[p] \in {"lock-created", "lock-written"}
        /\ pc'[p] = "idle" \/ (job' = job /\ pc'[p] \in {"lock-written", "acquired"})
    BY <1>3 DEF WriteLock, CreateJournal, Goto, Stop, data, Typed, LockTyped, Working
  <2>2. op \in OpIds /\ RollbackAt(p)
    BY <2>1, WorkerFits DEF RollbackInv
  <2>3. RollbackAt(p)'
    <3>1. CASE pc'[p] = "idle"
      BY <3>1, ElsewhereRollback
         DEF SpokenAt, UncoveredAt, PaidAt, CommittingAt, RemovingAt, RestoringAt, MoveAt, EntryMadeAt
    <3>2. CASE job' = job /\ pc'[p] \in {"lock-written", "acquired"}
      <4>1. payload'[op].covers = {}
        BY <2>1, <2>2 DEF RollbackAt, EndingFits, UncoveredAt
      <4> QED BY <3>2, <4>1, EmptyRollback DEF PaidAt, CommittingAt, RemovingAt, RestoringAt
    <3> QED BY <2>1, <3>1, <3>2
  <2>4. \A o \in OpIds : PaidOff(o)'
    BY <1>3, <2>1, WorkingPaid
       DEF OperationStep, AcquireStep, ReleaseStage, FinalizeStage, ClosingAt
  <2> QED BY <1>0, <2>1, <2>3, <2>4, OneWorker, StepRollback
<1> QED BY <1>1, <1>2, <1>3 DEF AcquireStep

(* What Codex writes takes nothing away.                                   *)
LEMMA CodexRollback ==
  ASSUME ReleaseSucceeds, Consistent, RollbackInv, CodexStep
  PROVE  RollbackInv'
<1>0. Typed
  BY DEF Consistent
<1> PICK t \in Surfaces : CodexAdds(t) \/ CodexChangesOthers(t)
  BY DEF CodexStep
<1>1. \A s \in Surfaces : live[s].own \subseteq live'[s].own
  BY <1>0 DEF CodexAdds, CodexChangesOthers, Typed, DataTyped, Images, Value
<1>2. UNCHANGED <<lock, journal, payload, pc, job>>
  BY DEF CodexAdds, CodexChangesOthers, disk
<1>3. \A o \in OpIds, s \in Surfaces : Intact(o, s) => Intact(o, s)'
  BY <1>1, <1>2 DEF Intact
<1>4. \A o \in OpIds : payload[o].covers \subseteq Surfaces
  BY <1>0 DEF Typed, Payloads
<1>5. \A o \in OpIds : PaidOff(o)'
  BY <1>2, <1>3, <1>4 DEF RollbackInv, PaidOff, Whole, GivenBack
<1>6. ASSUME NEW p \in Procs, Working(p) PROVE RollbackAt(p)'
  <2> DEFINE op == job[p].op
  <2>1. op \in OpIds /\ RollbackAt(p)
    BY <1>6, WorkerFits DEF RollbackInv, Consistent
  <2>2. /\ Whole(op) => Whole(op)'
        /\ Covered(p) \subseteq Surfaces /\ payload[op].covers \subseteq Surfaces
    BY <1>2, <1>3, <1>4, <2>1, ListsApart DEF Whole, Covered, Targets, Indexes
  <2>3. Covered(p)' = Covered(p) /\ Deletes(p)' = Deletes(p)
    BY <1>2 DEF Covered, Deletes
  <2>4. TakingFits(p)'
    BY <1>1, <1>2, <2>1, <2>2, <2>3 DEF RollbackAt, TakingFits, Intact
  <2>5. RowsFit(p)' /\ EndingFits(p)'
    BY <1>2, <2>1, <2>2, <2>3 DEF RollbackAt, RowsFit, EndingFits, GivenBack
  <2>6. ReturningFits(p)' /\ AddingFits(p)'
    BY <1>1, <1>2, <2>1, <2>2, <2>3 DEF RollbackAt, ReturningFits, AddingFits, Intact
  <2> QED BY <2>4, <2>5, <2>6 DEF RollbackAt
<1>7. ASSUME NEW p \in Procs, ~Working(p) PROVE RollbackAt(p)'
  BY <1>2, <1>7, IdleRollback
<1> QED BY <1>5, <1>6, <1>7 DEF RollbackInv

(* The initial states have nothing on record.                              *)
LEMMA RollbackBegins == Init => RollbackInv
<1> SUFFICES ASSUME Init PROVE RollbackInv
  OBVIOUS
<1>1. NoPayload.kind = "none" /\ NoPayload.covers = {}
  BY DEF NoPayload
<1>2. ASSUME NEW o \in OpIds PROVE PaidOff(o)
  BY <1>1 DEF Init, PaidOff, Whole, GivenBack
<1>3. ASSUME NEW p \in Procs PROVE RollbackAt(p)
  BY DEF Init, RollbackAt, TakingFits, RowsFit, ReturningFits, AddingFits, EndingFits, UncoveredAt,
         PaidAt, CommittingAt, RemovingAt, RestoringAt, MoveAt, EntryMadeAt
<1> QED BY <1>2, <1>3 DEF RollbackInv

(* The steps of a cleanup: nothing but its payload is at stake.            *)
LEMMA CleanupRollback ==
  ASSUME ReleaseSucceeds, Consistent, RollbackInv, NEW p \in Procs, Cleans(p), ~CheckIndexes(p),
         CleanupStep(p) \/ DeleteStep(p) \/ UndoStep(p)
  PROVE  Working(p) /\ RollbackAt(p)' /\ \A o \in OpIds : PaidOff(o)'
<1> USE JobFunction DEF Consistent
<1> DEFINE op == job[p].op
<1>0. /\ Working(p) /\ op \in OpIds /\ lock' = lock /\ Fits(p) /\ Stays(p)
      /\ pc[p] \notin {"rel-stage", "fin-stage"} \cup ClosingAt
  <2>1. Stays(p) /\ Holding(p)
    BY DeleteStays, UndoStays, CleanupStays
  <2>2. Working(p)
    BY <2>1 DEF Holding, Working
  <2>3. Fits(p)
    BY <2>2, WorkerFits
  <2>4. pc[p] \notin {"rel-stage", "fin-stage"} \cup ClosingAt
    BY DEF CleanupStep, WriteCleanupPayload, RecheckCleanup, CommitCleanup, StartIndex, VerifyCleanup,
           DeleteStep, EnterPrepared, CheckSelection, Capture, WritePayload, Recheck,
           EnterCommitting, StartSurface, MarkSurface, EnterVerifying, RemoveFromIndex,
           RemoveFromGlobalState, UndoGlobalState, RemoveFile, RemoveRows, RemoveLogs,
           UndoStep, UndoSurface, UndoEnds, ClosingAt, OwnsLock, Deletes, Cleans
  <2> QED BY <2>1, <2>2, <2>3, <2>4, WorkerFits DEF Stays
<1>1. ~Deletes(p) /\ pc[p] \notin DeleteAt \cup {"remove-logs"}
  BY <1>0 DEF Cleans, Deletes, Fits, KindFits
<1>2. /\ pc'[p] \in {"idle", "cleanup-recheck", "cleanup-commit", "commit", "remove", "mark",
                      "undo-global-state", "remove-logs", "undo", "rel-stage"}
      /\ payload' = payload \/ payload' = [payload EXCEPT ![op] = CleanupPayload(p)]
  <2>1. CASE CleanupStep(p)
    BY <2>1 DEF CleanupStep, WriteCleanupPayload, RecheckCleanup, CommitCleanup, StartIndex,
                VerifyCleanup, CommitFails, Goto, ReleaseAs, disk
  <2>2. CASE UndoStep(p)
    BY <2>2 DEF UndoStep, UndoSurface, UndoEnds, Goto, ReleaseAs, disk, Cleans
  <2>3. CASE DeleteStep(p)
    BY <1>1, <2>3 DEF DeleteStep, EnterPrepared, CheckSelection, Capture, WritePayload, Recheck,
           EnterCommitting, StartSurface, MarkSurface, EnterVerifying, RemoveFromIndex,
           RemoveFromGlobalState, UndoGlobalState, RemoveFile, RemoveRows, RemoveLogs,
           DeleteAt, CommitFails, Goto, disk
  <2> QED BY <2>1, <2>2, <2>3
<1>3. \A o \in OpIds : PaidOff(o)'
  <2>1. OperationStep(p) /\ ~ReleaseStage(p) /\ ~FinalizeStage(p)
    BY <1>0 DEF OperationStep, ReleaseStage, FinalizeStage
  <2>2. CleanupPayload(p).kind = "cleanup-index"
    BY DEF CleanupPayload, Cleans
  <2> QED BY <1>0, <1>2, <2>1, <2>2, WorkingPaid
<1>4. ASSUME pc'[p] = "idle" PROVE RollbackAt(p)'
  <2>1. "idle" \notin SpokenAt
    BY DEF SpokenAt, UncoveredAt, PaidAt, CommittingAt, RemovingAt, RestoringAt, MoveAt, EntryMadeAt
  <2> QED BY <1>4, <2>1, ElsewhereRollback
<1>5. ASSUME pc'[p] # "idle" PROVE RollbackAt(p)'
  <2>1. job'[p].op = op /\ job'[p].kind = "cleanup-index"
    BY <1>0, <1>5 DEF Stays, GoesOn, Cleans
  <2>2. ~Deletes(p)'
    BY <2>1 DEF Deletes
  <2>3. payload'[op].kind \in {"none", "cleanup-index"}
    BY <1>0 DEF Stays, Fits, PayloadFits, Cleans
  <2>4. GivenBack(job[p].op)'
    BY <1>0, <1>3, <2>1, <2>3 DEF PaidOff, GivenBack, Whole
  <2> QED BY <1>2, <1>5, <2>1, <2>2, <2>4
          DEF RollbackAt, TakingFits, RowsFit, ReturningFits, AddingFits, EndingFits, UncoveredAt,
              PaidAt, CommittingAt, RemovingAt, RestoringAt, MoveAt, EntryMadeAt
<1> QED BY <1>0, <1>3, <1>4, <1>5

(* Commits and their rollbacks are those of deletes, moves and cleanups.   *)
LEMMA TakersOnly ==
  ASSUME NEW p \in Procs, KindFits(p)
  PROVE  /\ DeleteStep(p) \/ UndoStep(p) => (Deletes(p) \/ Cleans(p)) /\ ~CheckIndexes(p)
         /\ CleanupStep(p) => Cleans(p)
BY DEF KindFits, Deletes, Cleans, DeleteAt, CommitAt, CleanupAt, CheckIndexes, CleanupStep,
       WriteCleanupPayload, RecheckCleanup, CommitCleanup, StartIndex, VerifyCleanup, DeleteStep,
       EnterPrepared, CheckSelection, Capture, WritePayload, Recheck, EnterCommitting, StartSurface,
       MarkSurface, EnterVerifying, RemoveFromIndex, RemoveFromGlobalState, UndoGlobalState,
       RemoveFile, RemoveRows, RemoveLogs, UndoStep, UndoSurface, UndoEnds

(* Every step keeps RollbackInv.                                           *)
LEMMA NextRollback ==
  ASSUME ReleaseSucceeds, SupervisedRecovery, WritesAreClean
  PROVE  Consistent /\ DurableInv /\ AheadInv /\ RollbackInv /\ [Next]_vars => RollbackInv'
<1> SUFFICES ASSUME Consistent, DurableInv, AheadInv, RollbackInv, [Next]_vars PROVE RollbackInv'
  OBVIOUS
<1> USE DEF Consistent
<1>1. ASSUME NEW p \in Procs, OperationStep(p) \/ Crash(p) PROVE RollbackInv'
  <2>0. OthersStay(p) /\ KindFits(p)
    BY <1>1, OthersAreLeft DEF JournalInv, Fits
  <2>1. CASE AcquireStep(p)
    BY <2>1, AcquireRollback
  <2>2. CASE ReadForRestore(p) \/ ReadForPurge(p) \/ EntryNotFound(p) \/ CheckIndexes(p) \/ Crash(p)
    <3>1. UNCHANGED <<live, lock, journal, payload>> /\ pc'[p] \in {"idle", "checked"}
      BY <2>2, JobFunction
         DEF ReadForRestore, ReadForPurge, EntryNotFound, CheckIndexes, Crash, Goto, Stop, data, disk
    <3> QED BY <2>0, <3>1, StillRollback
            DEF SpokenAt, UncoveredAt, PaidAt, CommittingAt, RemovingAt, RestoringAt, MoveAt, EntryMadeAt
  <2>3. CASE BeginRecovery(p)
    BY <2>3, BeginningRollback
  <2>4. ASSUME Working(p) /\ RollbackAt(p)' /\ \A o \in OpIds : PaidOff(o)'
        PROVE  RollbackInv'
    BY <2>0, <2>4, OneWorker, StepRollback
  <2>5. CASE Deletes(p) /\ (DeleteStep(p) \/ UndoStep(p))
    BY <2>4, <2>5, DeleteRollback
  <2>6. CASE TrashStep(p)
    BY <2>4, <2>6, TrashRollback
  <2>7. CASE EntryStep(p) /\ ~(ReadForRestore(p) \/ ReadForPurge(p) \/ EntryNotFound(p))
    BY <2>4, <2>7, EntryRollback DEF EntryStep
  <2>8. CASE RestoreStep(p)
    BY <2>4, <2>8, RestoreRollback
  <2>9. CASE PurgeStep(p)
    BY <2>4, <2>9, PurgeRollback
  <2>10. CASE ReleaseStep(p)
    BY <2>4, <2>10, ReleaseRollback
  <2>11. CASE RecoveryStep(p) /\ ~BeginRecovery(p)
    BY <2>4, <2>11, RecoveryRollback
  <2>12. CASE Cleans(p) /\ (CleanupStep(p) \/ DeleteStep(p) \/ UndoStep(p)) /\ ~CheckIndexes(p)
    BY <2>4, <2>12, CleanupRollback
  <2>13. /\ DeleteStep(p) \/ UndoStep(p) => (Deletes(p) \/ Cleans(p)) /\ ~CheckIndexes(p)
         /\ CleanupStep(p) => Cleans(p)
    BY <2>0, TakersOnly
  <2> QED BY <1>1, <2>1, <2>2, <2>3, <2>5, <2>6, <2>7, <2>8, <2>9, <2>10, <2>11, <2>12,
              <2>13 DEF OperationStep
<1>2. CASE CodexStep
  BY <1>2, CodexRollback
<1>3. CASE UNCHANGED vars
  BY <1>3 DEF vars, RollbackInv, RollbackAt, TakingFits, RowsFit, ReturningFits, AddingFits, EndingFits,
              PaidOff, Whole, GivenBack, Intact, Deletes, Covered
<1> QED BY <1>1, <1>2, <1>3 DEF Next

(* An operation that ended as rolled back left every surface it recorded   *)
(* with all that the record holds, for as long as the record is there: no  *)
(* rollback, by the operation's own handler or by a recovery, reports that *)
(* it is done before it is (the handlers of deleteSessions,                *)
(* delete.ts:838-897, and of a restore, trash.ts:1621-1718; the recovery,  *)
(* recovery.ts:287-408 and 689-785).                                       *)
THEOREM RollbacksAreWhole ==
  ASSUME ReleaseSucceeds, SupervisedRecovery, QuietReferences, WritesAreClean, NoCleanups
  PROVE  Spec => []RolledBackIsWhole
<1>1. Init => Consistent /\ DurableInv /\ OldInv /\ AheadInv /\ RollbackInv
  BY ConsistentAlways, DurableBegins, OldBegins, AheadBegins, RollbackBegins
<1>2. Consistent /\ DurableInv /\ OldInv /\ AheadInv /\ RollbackInv /\ [Next]_vars =>
        (Consistent /\ DurableInv /\ OldInv /\ AheadInv /\ RollbackInv)'
  BY ConsistentAlways, NextDurable, NextOld, NextAhead, NextRollback DEF Consistent
<1>3. Consistent /\ RollbackInv => RolledBackIsWhole
  BY DEF NoCleanups, Consistent, Ownership, UndoIsCleanup, RollbackInv, PaidOff, Whole, GivenBack, Intact, RolledBackIsWhole
<1> QED BY <1>1, <1>2, <1>3, PTL DEF Spec

-----------------------------------------------------------------------------
(* Recoveries succeed.  Codex writes no text a recovery would compare, and *)
(* no entry is seen half removed.                                          *)
QuietTexts == ExternalSurfaces \cap (Lists \cup Files) = {}
RemovalsAreWhole == ~TornRemoval

Texts == Lists \cup Files
(* A text is in one of the two states the payload names, and a purge names *)
(* no text.                                                                *)
Known(o, s) ==
  live[s] \in {payload[o].before[s],
               After(payload[o].kind, s, payload[o].before[s], payload[o].moves[s])}
KnownFile(o) ==
  /\ lock.op = o /\ payload[o].kind \notin {"none", "cleanup-index"} =>
       \A s \in payload[o].covers \cap Texts : Known(o, s)
  /\ payload[o].kind = "purge" => payload[o].covers \subseteq {"logs"}
(* An entry is removed as a whole, is that of the pending operation or of  *)
(* one that has ended, goes into quarantine only when that one has, and is *)
(* there only if the payload of the move has the hash of it.               *)
StoredFile(o) ==
  /\ entry[o].state # "torn"
  /\ entry[o].state # "absent" => journal[o].stage \in Final \/ lock.op = o
  /\ entry[o].state = "quarantined" => journal[o].stage \in Final
  /\ entry[o].state = "complete" /\ payload[o].kind = "trash" => payload[o].sealed

(* Where a process works with what its payload says of the texts.          *)
WritingAt == PaidAt \cup RestoringAt \cup {"undo-global-state", "rec"}
Matches(p) ==
  LET plan == payload[job[p].op] IN
  \A s \in plan.covers \cap Texts :
    plan.before[s] = job[p].snap[s] /\ (job[p].kind = "restore" => plan.moves[s] = job[p].bundle[s])
Compares(p) == job[p].kind \in {"delete", "trash", "restore"}
TextsFit(p) ==
  Compares(p) => /\ pc[p] \in WritingAt => Matches(p)
                 /\ pc[p] = "undo" => job[p].todo = {} \/ Matches(p)
(* What was captured of the texts is what is there.                        *)
CaughtFits(p) ==
  /\ pc[p] = "capture" => job[p].seen["global-state"] = live["global-state"]
  /\ pc[p] \in {"payload", "restore-payload"} => \A s \in Texts : job[p].snap[s] = live[s]
(* A purge names no surface but the logs.                                  *)
NamingAt == {"checked", "lock-created", "lock-written", "acquired", "entry", "purge-payload"}
NamesFit(p) == pc[p] \in NamingAt /\ job[p].kind = "purge" => job[p].todo \subseteq {"logs"}
(* The entry of an operation appears after its payload has the hash.       *)
SealFits(p) ==
  /\ pc[p] \in {"lock-created", "lock-written", "acquired"} => entry[job[p].op].state = "absent"
  /\ pc[p] = "trash-rename" => payload[job[p].op].sealed
KnowsAt(p) == TextsFit(p) /\ CaughtFits(p) /\ NamesFit(p) /\ SealFits(p)
(* Nothing foreign in the global state changes, on disk or in memory.      *)
ForeignFits ==
  /\ live["global-state"].ext = 0
  /\ \A p \in Procs : job[p].seen["global-state"].ext = 0 /\ job[p].snap["global-state"].ext = 0
  /\ \A o \in OpIds : payload[o].before["global-state"].ext = 0
KnownInv ==
  /\ \A o \in OpIds : KnownFile(o) /\ StoredFile(o)
  /\ \A p \in Procs : KnowsAt(p)
  /\ ForeignFits

(* The initial states satisfy KnownInv.                                    *)
LEMMA KnownBegins == Init => KnownInv
<1> SUFFICES ASSUME Init PROVE KnownInv
  OBVIOUS
<1> PICK k \in 0 .. InitialEntries : InitFrom(k)
  BY DEF Init
<1>1. ASSUME NEW o \in OpIds PROVE KnownFile(o) /\ StoredFile(o)
  BY DEF Init, InitFrom, KnownFile, StoredFile, NoLock, NoPayload, NoEntry, NoJournal, Final
<1>2. ASSUME NEW p \in Procs PROVE KnowsAt(p)
  BY DEF Init, KnowsAt, TextsFit, CaughtFits, NamesFit, SealFits, WritingAt, PaidAt, CommittingAt,
         RemovingAt, RestoringAt, NamingAt
<1>3. "global-state" \in Surfaces
  BY ListsApart DEF Lists
<1>4. ForeignFits
  BY <1>3 DEF Init, InitFrom, ForeignFits, NoJob, NoPayload, Blank
<1> QED BY <1>1, <1>2, <1>4 DEF KnownInv

(* How a step changes the entry of an operation.                           *)
LEMMA EntryChanges ==
  ASSUME Typed, RemovalsAreWhole, NEW p \in Procs, OperationStep(p) \/ Crash(p), NEW o \in OpIds
  PROVE  \/ entry'[o].state \in {entry[o].state, "absent"}
         \/ CommitTrashEntry(p) /\ o = job[p].op /\ entry'[o].state = "complete"
         \/ /\ QuarantineEntry(p) \/ RecoverQuarantine(p)
            /\ o = job[p].from /\ entry[o].state = "complete" /\ entry'[o].state = "quarantined"
<1> USE DEF bin, Typed, BinTyped
<1>1. CASE AcquireStep(p) \/ ReleaseStep(p) \/ Crash(p)
  BY <1>1 DEF AcquireStep, ScanRoot, CreateLock, LockIsTaken, WriteLock, CreateJournal,
              ReleaseStep, ReleaseStage, ReleaseCheck, ReleasePayload, ReleaseUnlock, Crash
<1>2. CASE DeleteStep(p) \/ UndoStep(p)
  BY <1>2 DEF DeleteStep, EnterPrepared, CheckSelection, Capture, WritePayload, Recheck,
              EnterCommitting, StartSurface, MarkSurface, EnterVerifying, RemoveFromIndex,
              RemoveFromGlobalState, UndoGlobalState, RemoveFile, RemoveRows, RemoveLogs,
              UndoStep, UndoSurface, UndoEnds
<1>3. ASSUME NEW i, entry' = entry \/ entry' = [entry EXCEPT ![i] = NoEntry]
      PROVE  entry'[o].state \in {entry[o].state, "absent"}
  <2>1. NoEntry.state = "absent"
    BY DEF NoEntry
  <2> QED BY <1>3, <2>1
<1>4. ASSUME NEW i, NEW state, entry' = entry \/ entry' = [entry EXCEPT ![i].state = state]
      PROVE  entry'[o].state = entry[o].state \/ (o = i /\ entry'[o].state = state)
  <2>1. entry[o] \in Entries
    OBVIOUS
  <2> QED BY <1>4, <2>1 DEF Entries
<1>5. CASE TrashStep(p)
  <2>1. CASE CommitTrashEntry(p)
    <3> DEFINE e == [state |-> "complete", bundle |-> job[p].bundle]
    <3>1. entry' = entry \/ entry' = [entry EXCEPT ![job[p].op] = e]
      BY <2>1 DEF CommitTrashEntry
    <3>2. e.state = "complete"
      OBVIOUS
    <3> HIDE DEF e
    <3> QED BY <2>1, <3>1, <3>2
  <2>2. CASE DropTrash(p)
    BY <1>3, <2>2 DEF DropTrash
  <2>3. CASE WriteTrashPayload(p) \/ MakeTmp(p) \/ BuildBundle(p) \/ MarkTrashEntry(p)
    BY <2>3 DEF WriteTrashPayload, MakeTmp, BuildBundle, MarkTrashEntry
  <2>4. ~TearEntry(p)
    BY DEF TearEntry, RemovalsAreWhole
  <2> QED BY <1>5, <2>1, <2>2, <2>3, <2>4 DEF TrashStep
<1>6. CASE CleanupStep(p) \/ EntryStep(p)
  BY <1>6 DEF CleanupStep, CheckIndexes, WriteCleanupPayload, RecheckCleanup, CommitCleanup,
              StartIndex, VerifyCleanup, EntryStep, ReadForRestore, ReadForPurge, EntryNotFound,
              PrepareEntry, CheckEntry, CommitEntry
<1>7. CASE RestoreStep(p)
  BY <1>7 DEF RestoreStep, CheckConflicts, CaptureRestore, WriteRestorePayload, StartRestore,
              RestoreText, RereadWritten, MarkRestored, RestoreRows, RemoveGoals, UndoRestore, UndoRestoreEnds,
              MarkRows, VerifyRestore
<1>8. CASE PurgeStep(p)
  <2>1. CASE QuarantineEntry(p)
    <3>1. \/ entry' = entry
          \/ /\ entry' = [entry EXCEPT ![job[p].from].state = "quarantined"]
             /\ entry[job[p].from].state = "complete"
      BY <2>1 DEF QuarantineEntry, EntryIsCurrent, Effect
    <3> QED BY <1>4, <2>1, <3>1
  <2>2. CASE RemoveQuarantine(p)
    BY <1>3, <2>2 DEF RemoveQuarantine
  <2>3. CASE WritePurgePayload(p) \/ RecheckPurge(p) \/ CheckpointPurge(p) \/ PurgeLogs(p)
             \/ VerifyPurge(p)
    BY <2>3 DEF WritePurgePayload, RecheckPurge, CheckpointPurge, PurgeLogs, VerifyPurge
  <2> QED BY <1>8, <2>1, <2>2, <2>3 DEF PurgeStep
<1>9. CASE RecoveryStep(p)
  <2>1. CASE RecoverQuarantine(p)
    <3>1. /\ entry[job[p].from].state = "complete"
          /\ \/ entry' = entry
             \/ entry' = [entry EXCEPT ![job[p].from].state = "quarantined"]
      BY <2>1 DEF RecoverQuarantine
    <3> QED BY <1>4, <2>1, <3>1
  <2>2. CASE RecoverTrash(p)
    BY <1>3, <2>2 DEF RecoverTrash
  <2>3. CASE ~RecoverQuarantine(p) /\ ~RecoverTrash(p)
    BY <1>9, <2>3 DEF RecoveryStep, BeginRecovery, RecoverSurface, SurfacesRecovered, RefuseTrash,
                 FinalizeStage, FinalizePayload, FinalizeUnlock
  <2> QED BY <2>1, <2>2, <2>3
<1> QED BY <1>1, <1>2, <1>5, <1>6, <1>7, <1>8, <1>9 DEF OperationStep

(* The steps that write a payload.                                         *)
LEMMA PayloadWriters ==
  ASSUME NEW p \in Procs, OperationStep(p) \/ Crash(p),
         ~WritePayload(p), ~WriteTrashPayload(p), ~WriteCleanupPayload(p), ~WriteRestorePayload(p),
         ~WritePurgePayload(p), ~ReleasePayload(p), ~FinalizePayload(p)
  PROVE  payload' = payload
<1> USE DEF disk
<1>1. CASE AcquireStep(p) \/ ReleaseStep(p) \/ Crash(p)
  BY <1>1 DEF AcquireStep, ScanRoot, CreateLock, LockIsTaken, WriteLock, CreateJournal,
              ReleaseStep, ReleaseStage, ReleaseCheck, ReleaseUnlock, Crash
<1>2. CASE DeleteStep(p) \/ UndoStep(p)
  BY <1>2 DEF DeleteStep, EnterPrepared, CheckSelection, Capture, Recheck,
              EnterCommitting, StartSurface, MarkSurface, EnterVerifying, RemoveFromIndex,
              RemoveFromGlobalState, UndoGlobalState, RemoveFile, RemoveRows, RemoveLogs,
              UndoStep, UndoSurface, UndoEnds
<1>3. CASE TrashStep(p)
  BY <1>3 DEF TrashStep, MakeTmp, BuildBundle, CommitTrashEntry, MarkTrashEntry, DropTrash,
              TearEntry
<1>4. CASE CleanupStep(p)
  BY <1>4 DEF CleanupStep, CheckIndexes, RecheckCleanup, CommitCleanup, StartIndex, VerifyCleanup
<1>5. CASE EntryStep(p)
  BY <1>5 DEF EntryStep, ReadForRestore, ReadForPurge, EntryNotFound, PrepareEntry, CheckEntry,
              CommitEntry
<1>6. CASE RestoreStep(p)
  BY <1>6 DEF RestoreStep, CheckConflicts, CaptureRestore, StartRestore, RestoreText,
              RereadWritten, MarkRestored, RestoreRows, RemoveGoals, UndoRestore, UndoRestoreEnds, MarkRows,
              VerifyRestore
<1>7. CASE PurgeStep(p)
  BY <1>7 DEF PurgeStep, RecheckPurge, CheckpointPurge, PurgeLogs, QuarantineEntry,
              RemoveQuarantine, VerifyPurge
<1>8. CASE RecoveryStep(p)
  BY <1>8 DEF RecoveryStep, BeginRecovery, RecoverSurface, SurfacesRecovered,
              RecoverQuarantine, RecoverTrash, RefuseTrash, FinalizeStage, FinalizeUnlock
<1> QED BY <1>1, <1>2, <1>3, <1>4, <1>5, <1>6, <1>7, <1>8 DEF OperationStep

(* Only a step that acquires or ends an operation changes whose the lock   *)
(* is.                                                                     *)
LEMMA LockChanges ==
  ASSUME Typed, NEW p \in Procs, OperationStep(p) \/ Crash(p),
         ~CreateLock(p), ~ReleaseUnlock(p), ~FinalizeUnlock(p)
  PROVE  lock'.op = lock.op
<1> USE DEF disk
<1>1. CASE AcquireStep(p) \/ ReleaseStep(p) \/ Crash(p)
  BY <1>1 DEF Typed, LockTyped, AcquireStep, ScanRoot, LockIsTaken, WriteLock, CreateJournal,
              ReleaseStep, ReleaseStage, ReleaseCheck, ReleasePayload, Crash
<1>2. CASE DeleteStep(p) \/ UndoStep(p)
  BY <1>2 DEF DeleteStep, EnterPrepared, CheckSelection, Capture, WritePayload, Recheck,
              EnterCommitting, StartSurface, MarkSurface, EnterVerifying, RemoveFromIndex,
              RemoveFromGlobalState, UndoGlobalState, RemoveFile, RemoveRows, RemoveLogs,
              UndoStep, UndoSurface, UndoEnds
<1>3. CASE TrashStep(p)
  BY <1>3 DEF TrashStep, WriteTrashPayload, MakeTmp, BuildBundle, CommitTrashEntry, MarkTrashEntry,
              DropTrash, TearEntry
<1>4. CASE CleanupStep(p)
  BY <1>4 DEF CleanupStep, CheckIndexes, WriteCleanupPayload, RecheckCleanup, CommitCleanup,
              StartIndex, VerifyCleanup
<1>5. CASE EntryStep(p)
  BY <1>5 DEF EntryStep, ReadForRestore, ReadForPurge, EntryNotFound, PrepareEntry, CheckEntry,
              CommitEntry
<1>6. CASE RestoreStep(p)
  BY <1>6 DEF RestoreStep, CheckConflicts, CaptureRestore, WriteRestorePayload, StartRestore,
              RestoreText, RereadWritten, MarkRestored, RestoreRows, RemoveGoals, UndoRestore, UndoRestoreEnds,
              MarkRows, VerifyRestore
<1>7. CASE PurgeStep(p)
  BY <1>7 DEF PurgeStep, WritePurgePayload, RecheckPurge, CheckpointPurge, PurgeLogs,
              QuarantineEntry, RemoveQuarantine, VerifyPurge
<1>8. CASE RecoveryStep(p)
  BY <1>8 DEF RecoveryStep, BeginRecovery, RecoverSurface, SurfacesRecovered, RecoverQuarantine,
              RecoverTrash, RefuseTrash, FinalizeStage, FinalizePayload
<1> QED BY <1>1, <1>2, <1>3, <1>4, <1>5, <1>6, <1>7, <1>8 DEF OperationStep

(* Whoever makes the payload of a move while its entry is there puts the   *)
(* hash of it in.                                                          *)
LEMMA SealsStay ==
  ASSUME ReleaseSucceeds, Consistent, KnownInv, NEW p \in Procs, OperationStep(p) \/ Crash(p),
         NEW o \in OpIds, payload'[o].kind = "trash", entry[o].state = "complete"
  PROVE  payload'[o].sealed
<1> USE DEF Consistent
<1>0. payload[o].kind = "trash" => payload[o].sealed
  BY DEF KnownInv, StoredFile
<1>1. ASSUME Working(p)
      PROVE  job[p].op \in OpIds /\ KindFits(p) /\ KnowsAt(p) /\ payload \in [OpIds -> Payloads]
  BY <1>1, WorkerFits DEF Fits, KnownInv, Typed
<1>2. ASSUME Working(p), NEW v, v.kind = "trash" => v.sealed,
             payload' = payload \/ payload' = [payload EXCEPT ![job[p].op] = v]
      PROVE  payload'[o].sealed
  BY <1>0, <1>1, <1>2
<1>3. CASE WritePayload(p)
  <2> DEFINE v == [kind |-> job[p].kind, covers |-> Covered(p), before |-> BeforeImage(p),
                   moves |-> NoRecords, from |-> 0, sealed |-> ~OwnsLock(p)]
  <2>1. /\ payload' = payload \/ payload' = [payload EXCEPT ![job[p].op] = v]
        /\ Working(p)
    BY <1>3 DEF WritePayload, Working
  <2>2. v.kind = job[p].kind /\ v.sealed = ~OwnsLock(p)
    OBVIOUS
  <2>3. v.kind = "trash" => v.sealed
    BY <2>2 DEF OwnsLock
  <2> HIDE DEF v
  <2> QED BY <1>2, <2>1, <2>3
<1>4. CASE WriteTrashPayload(p)
  <2> DEFINE v == TrashPayload(pc[p] = "trash-seal")
  <2>1. /\ payload' = payload \/ payload' = [payload EXCEPT ![job[p].op] = v]
        /\ Working(p) /\ pc[p] \in {"acquired", "trash-seal"}
    BY <1>4 DEF WriteTrashPayload, Working
  <2>2. CASE pc[p] = "trash-seal"
    <3>1. v.sealed
      BY <2>2 DEF TrashPayload
    <3> HIDE DEF v
    <3> QED BY <1>2, <2>1, <3>1
  <2>3. CASE pc[p] = "acquired"
    <3>1. entry[job[p].op].state = "absent"
      BY <1>1, <2>1, <2>3 DEF KnowsAt, SealFits
    <3>2. payload'[o] = payload[o]
      BY <1>1, <2>1, <3>1
    <3> QED BY <1>0, <3>2
  <2> QED BY <2>1, <2>2, <2>3
<1>5. CASE WriteCleanupPayload(p)
  <2>1. /\ payload' = payload \/ payload' = [payload EXCEPT ![job[p].op] = CleanupPayload(p)]
        /\ Working(p) /\ job[p].kind = "cleanup-index"
    BY <1>5 DEF WriteCleanupPayload, Working, Cleans
  <2>2. CleanupPayload(p).kind = job[p].kind
    BY DEF CleanupPayload
  <2> QED BY <1>2, <2>1, <2>2
<1>6. CASE WriteRestorePayload(p)
  <2> DEFINE b == [s \in Surfaces |-> IF s \in job[p].todo \ Rows THEN job[p].snap[s] ELSE Blank[s]]
             v == [kind |-> job[p].kind, covers |-> job[p].todo, before |-> b, moves |-> Moves(p),
                   from |-> job[p].from, sealed |-> FALSE]
  <2>1. /\ payload' = payload \/ payload' = [payload EXCEPT ![job[p].op] = v]
        /\ Working(p) /\ pc[p] = "restore-payload"
    BY <1>6 DEF WriteRestorePayload, Working
  <2>2. v.kind = "restore"
    BY <1>1, <2>1 DEF KindFits, RestoreBeginsAt
  <2> HIDE DEF v
  <2> QED BY <1>2, <2>1, <2>2
<1>7. CASE WritePurgePayload(p)
  <2> DEFINE v == [kind |-> job[p].kind, covers |-> job[p].todo, before |-> Blank,
                   moves |-> job[p].bundle, from |-> job[p].from, sealed |-> TRUE]
  <2>1. /\ payload' = payload \/ payload' = [payload EXCEPT ![job[p].op] = v]
        /\ Working(p)
    BY <1>7 DEF WritePurgePayload, Working
  <2>2. v.sealed
    OBVIOUS
  <2> HIDE DEF v
  <2> QED BY <1>2, <2>1, <2>2
<1>8. CASE ReleasePayload(p) \/ FinalizePayload(p)
  <2>1. /\ payload' = payload \/ payload' = [payload EXCEPT ![job[p].op] = NoPayload]
        /\ Working(p)
    BY <1>8 DEF ReleasePayload, FinalizePayload, Working
  <2>2. NoPayload.kind # "trash"
    BY DEF NoPayload
  <2> QED BY <1>2, <2>1, <2>2
<1> QED BY <1>0, <1>3, <1>4, <1>5, <1>6, <1>7, <1>8, PayloadWriters

(* What lies in the trash stays as recoveries can handle it.               *)
LEMMA StoredStays ==
  ASSUME ReleaseSucceeds, RemovalsAreWhole, Consistent, FromInv, KnownInv,
         NEW p \in Procs, OperationStep(p) \/ Crash(p), NEW o \in OpIds
  PROVE  StoredFile(o)'
<1> USE DEF Consistent
<1>0. StoredFile(o) /\ o # 0
  BY DEF KnownInv, OpIds
<1>1. journal[o].stage \in Final => journal'[o].stage \in Final
  BY JournalStep
<1>2. ASSUME Working(p)
      PROVE  job[p].op \in OpIds /\ Fits(p) /\ KnowsAt(p) /\ FromFits(p) /\ lock.op = job[p].op
  BY <1>2, WorkerFits DEF KnownInv, FromInv
<1>3. lock.op = o => lock'.op = o \/ journal[o].stage \in Final
  <2>1. CASE CreateLock(p)
    BY <1>0, <2>1 DEF CreateLock, LockFree
  <2>2. CASE ReleaseUnlock(p) \/ FinalizeUnlock(p)
    <3>1. pc[p] \in ClosingAt /\ Working(p)
      BY <2>2 DEF ReleaseUnlock, FinalizeUnlock, ClosingAt, Working
    <3> QED BY <1>2, <3>1 DEF Fits, StageFits
  <2> QED BY <2>1, <2>2, LockChanges
<1>4. CASE entry'[o].state \in {entry[o].state, "absent"}
  BY <1>0, <1>1, <1>3, <1>4, SealsStay DEF StoredFile
<1>5. CASE CommitTrashEntry(p) /\ o = job[p].op /\ entry'[o].state = "complete"
  <2>1. Working(p) /\ pc[p] = "trash-rename" /\ UNCHANGED <<lock, payload>>
    BY <1>5 DEF CommitTrashEntry, Working, disk
  <2> QED BY <1>2, <1>5, <2>1 DEF StoredFile, KnowsAt, SealFits
<1>6. CASE /\ QuarantineEntry(p) \/ RecoverQuarantine(p)
           /\ o = job[p].from /\ entry[o].state = "complete" /\ entry'[o].state = "quarantined"
  <2>1. Working(p) /\ pc[p] \in {"purge-quarantine", "rec-trash"}
        /\ (pc[p] = "rec-trash" => job[p].kind = "purge")
    BY <1>6 DEF QuarantineEntry, RecoverQuarantine, Working
  <2>2. job[p].kind = "purge"
    BY <1>2, <2>1 DEF Fits, KindFits, PurgingAt
  <2>3. o # lock.op
    BY <1>2, <1>6, <2>1, <2>2 DEF FromFits
  <2> QED BY <1>0, <1>1, <1>6, <2>3 DEF StoredFile
<1> QED BY <1>4, <1>5, <1>6, EntryChanges

(* What a process writes to a text: what it captured of it, or the state   *)
(* its payload intends.                                                    *)
LEMMA TextsWritten ==
  ASSUME Typed, NEW p \in Procs, KindFits(p), Writes(p), job[p].kind # "purge", NEW t \in Texts
  PROVE  live'[t] \in {live[t], job[p].snap[t], StateAfter(p, t)}
<1> USE ListsApart, JobFunction DEF Typed, DataTyped, Images
<1>0. /\ t \in Surfaces /\ t \notin Databases /\ t # "logs"
      /\ DOMAIN live = Surfaces
  BY DEF Texts, Surfaces, Databases
<1> DEFINE taken == Removed(t, job[p].snap[t])
           added == Restored(p, t)
           after == StateAfter(p, t)
<1>1. pc[p] \in {"remove", "remove-logs", "undo-global-state"} => after = taken
  BY DEF KindFits, CommitAt, StateAfter, After
<1>2. pc[p] \in RestoringAt => after = added
  BY DEF KindFits, StateAfter, Restored
<1> HIDE DEF taken, added, after
<1>3. CASE RemoveFromIndex(p)
  <2>1. live'[t] \in {live[t], taken}
    BY <1>0, <1>3 DEF RemoveFromIndex, TakeOut, taken
  <2> QED BY <1>1, <1>3, <2>1 DEF RemoveFromIndex, after
<1>4. CASE RemoveFromGlobalState(p)
  <2>1. live'[t] \in {live[t], taken}
    BY <1>0, <1>4 DEF RemoveFromGlobalState, TakeOut, taken
  <2> QED BY <1>1, <1>4, <2>1 DEF RemoveFromGlobalState, after
<1>5. CASE UndoGlobalState(p)
  BY <1>0, <1>5 DEF UndoGlobalState
<1>6. CASE RemoveFile(p)
  <2>1. live'[t] \in {live[t], taken}
    BY <1>0, <1>6 DEF RemoveFile, TakeOut, taken
  <2> QED BY <1>1, <1>6, <2>1 DEF RemoveFile, after
<1>7. CASE RemoveRows(p)
  BY <1>0, <1>7 DEF RemoveRows, TakeOut
<1>8. CASE RemoveLogs(p)
  BY <1>0, <1>8 DEF RemoveLogs, TakeOut
<1>9. CASE UndoSurface(p)
  <2> PICK s \in First(job[p].todo, UndoRank) : live' = live \/ PutBack(s, job[p].snap[s])
    BY <1>9 DEF UndoSurface
  <2> QED BY <1>0 DEF PutBack, WithMissing
<1>10. CASE RestoreText(p)
  <2>1. live'[t] \in {live[t], added} /\ pc[p] \in RestoringAt
    BY <1>0, <1>10 DEF RestoreText, added, RestoringAt
  <2> QED BY <1>2, <2>1 DEF after
<1>11. CASE RestoreRows(p)
  BY <1>0, <1>11 DEF RestoreRows, Rows, Databases
<1>12. CASE RemoveGoals(p)
  BY <1>0, <1>12 DEF RemoveGoals, Databases
<1>13. CASE UndoRestore(p)
  BY <1>0, <1>13 DEF UndoRestore
<1>14. CASE PurgeLogs(p)
  BY <1>0, <1>14 DEF PurgeLogs
<1>15. CASE RecoverSurface(p)
  <2> PICK s \in First(job[p].todo, RecoveryRank) :
        live' = live \/ live' = [live EXCEPT ![s] = Desired(p, s)]
    BY <1>15 DEF RecoverSurface
  <2>1. Desired(p, t) \in {after, job[p].snap[t]}
    BY <1>0 DEF Desired, after
  <2> QED BY <1>0, <2>1 DEF after
<1> QED BY <1>3, <1>4, <1>5, <1>6, <1>7, <1>8, <1>9, <1>10, <1>11, <1>12, <1>13, <1>14, <1>15
        DEF Writes

(* A process that writes a surface has its payload.                        *)
LEMMA WritersWork ==
  ASSUME NEW p \in Procs, Writes(p)
  PROVE  /\ Working(p) /\ UNCHANGED <<lock, payload>>
         /\ pc[p] \in WritingAt \cup {"undo", "purge-logs"} /\ (pc[p] = "undo" => job[p].todo # {})
BY DEF Writes, RemoveFromIndex, RemoveFromGlobalState, UndoGlobalState, RemoveFile, RemoveRows,
       RemoveLogs, UndoSurface, RestoreText, RestoreRows, RemoveGoals, UndoRestore, PurgeLogs,
       RecoverSurface, Working, disk, WritingAt, PaidAt, CommittingAt, RemovingAt, RestoringAt, First

(* A payload says what its writer knows of the texts.                      *)
LEMMA PayloadFresh ==
  ASSUME ReleaseSucceeds, Consistent, KnownInv, NEW p \in Procs, Working(p), job[p].op \in OpIds,
         KindFits(p), KnowsAt(p),
         \/ WritePayload(p) \/ WriteTrashPayload(p) \/ WriteCleanupPayload(p)
         \/ WriteRestorePayload(p) \/ WritePurgePayload(p) \/ ReleasePayload(p)
         \/ FinalizePayload(p)
  PROVE  /\ UNCHANGED <<live, lock>>
         /\ \/ payload' = payload
            \/ \E v : /\ payload' = [payload EXCEPT ![job[p].op] = v]
                      /\ \/ v.kind \in {"none", "cleanup-index"}
                         \/ v.kind = "purge" /\ v.covers \subseteq {"logs"}
                         \/ /\ v.kind # "purge"
                            /\ \A s \in v.covers \cap Texts : v.before[s] = live[s]
<1> USE DEF Consistent, data, disk
<1>0. \A s \in Texts : s \in Surfaces /\ s \notin Databases
  BY ListsApart DEF Texts, Surfaces, Databases
<1>1. CASE WritePayload(p)
  <2> DEFINE v == [kind |-> job[p].kind, covers |-> Covered(p), before |-> BeforeImage(p),
                   moves |-> NoRecords, from |-> 0, sealed |-> ~OwnsLock(p)]
  <2>1. /\ payload' = payload \/ payload' = [payload EXCEPT ![job[p].op] = v]
        /\ pc[p] = "payload" /\ UNCHANGED <<live, lock>>
    BY <1>1 DEF WritePayload
  <2>2. v.kind = job[p].kind /\ v.covers = Covered(p) /\ v.before = BeforeImage(p)
    OBVIOUS
  <2>3. job[p].kind # "purge"
    BY <2>1 DEF KindFits, DeleteAt
  <2>4. \A s \in Covered(p) \cap Texts : BeforeImage(p)[s] = live[s]
    BY <1>0, <2>1 DEF BeforeImage, KnowsAt, CaughtFits
  <2> HIDE DEF v
  <2> QED BY <2>1, <2>2, <2>3, <2>4
<1>2. CASE WriteTrashPayload(p)
  <2> DEFINE v == TrashPayload(pc[p] = "trash-seal")
  <2>1. /\ payload' = payload \/ payload' = [payload EXCEPT ![job[p].op] = v]
        /\ UNCHANGED <<live, lock>>
    BY <1>2 DEF WriteTrashPayload
  <2>2. v.kind # "purge" /\ v.covers = {}
    BY DEF TrashPayload
  <2> HIDE DEF v
  <2> QED BY <2>1, <2>2
<1>3. CASE WriteCleanupPayload(p)
  <2>1. /\ payload' = payload \/ payload' = [payload EXCEPT ![job[p].op] = CleanupPayload(p)]
        /\ UNCHANGED <<live, lock>> /\ job[p].kind = "cleanup-index"
    BY <1>3 DEF WriteCleanupPayload, Cleans
  <2>2. CleanupPayload(p).kind = job[p].kind
    BY DEF CleanupPayload
  <2> QED BY <2>1, <2>2
<1>4. CASE WriteRestorePayload(p)
  <2> DEFINE b == [s \in Surfaces |-> IF s \in job[p].todo \ Rows THEN job[p].snap[s] ELSE Blank[s]]
             v == [kind |-> job[p].kind, covers |-> job[p].todo, before |-> b, moves |-> Moves(p),
                   from |-> job[p].from, sealed |-> FALSE]
  <2>1. /\ payload' = payload \/ payload' = [payload EXCEPT ![job[p].op] = v]
        /\ pc[p] = "restore-payload" /\ UNCHANGED <<live, lock>>
    BY <1>4 DEF WriteRestorePayload
  <2>2. v.kind = job[p].kind /\ v.covers = job[p].todo /\ v.before = b
    OBVIOUS
  <2>3. job[p].kind # "purge"
    BY <2>1 DEF KindFits, RestoreBeginsAt
  <2>4. \A s \in job[p].todo \cap Texts : b[s] = live[s]
    BY <1>0, <2>1 DEF KnowsAt, CaughtFits, Rows, Databases
  <2> HIDE DEF v, b
  <2> QED BY <2>1, <2>2, <2>3, <2>4
<1>5. CASE WritePurgePayload(p)
  <2> DEFINE v == [kind |-> job[p].kind, covers |-> job[p].todo, before |-> Blank,
                   moves |-> job[p].bundle, from |-> job[p].from, sealed |-> TRUE]
  <2>1. /\ payload' = payload \/ payload' = [payload EXCEPT ![job[p].op] = v]
        /\ pc[p] = "purge-payload" /\ UNCHANGED <<live, lock>>
    BY <1>5 DEF WritePurgePayload
  <2>2. v.kind = job[p].kind /\ v.covers = job[p].todo
    OBVIOUS
  <2>3. job[p].kind = "purge" /\ job[p].todo \subseteq {"logs"}
    BY <2>1 DEF KindFits, KnowsAt, NamesFit, NamingAt
  <2> HIDE DEF v
  <2> QED BY <2>1, <2>2, <2>3
<1>6. CASE ReleasePayload(p) \/ FinalizePayload(p)
  <2>1. /\ payload' = payload \/ payload' = [payload EXCEPT ![job[p].op] = NoPayload]
        /\ UNCHANGED <<live, lock>>
    BY <1>6 DEF ReleasePayload, FinalizePayload
  <2>2. NoPayload.kind = "none"
    BY DEF NoPayload
  <2> QED BY <2>1, <2>2
<1> QED BY <1>1, <1>2, <1>3, <1>4, <1>5, <1>6

(* Every step leaves the texts as the payload of the lock's owner says.    *)
LEMMA KnownStays ==
  ASSUME ReleaseSucceeds, Consistent, KnownInv, NEW p \in Procs, OperationStep(p) \/ Crash(p),
         NEW o \in OpIds
  PROVE  KnownFile(o)'
<1> USE DEF Consistent
<1>0. KnownFile(o) /\ o # 0 /\ payload \in [OpIds -> Payloads]
  BY DEF KnownInv, OpIds, Typed
<1>1. ASSUME Working(p)
      PROVE  job[p].op \in OpIds /\ Fits(p) /\ KindFits(p) /\ KnowsAt(p) /\ lock.op = job[p].op
  BY <1>1, WorkerFits DEF KnownInv, Fits
<1>2. CASE Writes(p)
  <2>1. /\ Working(p) /\ UNCHANGED <<lock, payload>>
        /\ pc[p] \in WritingAt \cup {"undo", "purge-logs"} /\ (pc[p] = "undo" => job[p].todo # {})
    BY <1>2, WritersWork
  <2> SUFFICES ASSUME lock.op = o, payload[o].kind \notin {"none", "cleanup-index"},
                      NEW s \in payload[o].covers \cap Texts
               PROVE  Known(o, s)'
    BY <1>0, <2>1 DEF KnownFile
  <2>2. job[p].op = o /\ Known(o, s)
    BY <1>0, <1>1, <2>1 DEF KnownFile
  <2>3. payload[o].kind = job[p].kind
    BY <1>1, <2>1, <2>2 DEF Fits, PayloadFits
  <2>4. job[p].kind # "purge"
    BY <1>0, <2>3, ListsApart DEF KnownFile, Texts, Databases
  <2>5. pc[p] # "purge-logs" /\ Compares(p)
    <3>1. job[p].kind \in AllKinds
      BY <1>0, <2>3 DEF Payloads
    <3> QED BY <1>1, <2>1, <2>3, <2>4, <3>1 DEF KindFits, PurgingAt, Compares, AllKinds
  <2>6. Matches(p)
    BY <1>1, <2>1, <2>5 DEF KnowsAt, TextsFit
  <2>7. /\ payload[o].before[s] = job[p].snap[s]
        /\ job[p].kind = "restore" => payload[o].moves[s] = job[p].bundle[s]
    BY <2>2, <2>6 DEF Matches
  <2>8. After(payload[o].kind, s, payload[o].before[s], payload[o].moves[s]) = StateAfter(p, s)
    BY <2>3, <2>7 DEF After, StateAfter
  <2>9. live'[s] \in {live[s], job[p].snap[s], StateAfter(p, s)}
    BY <1>1, <1>2, <2>1, <2>4, TextsWritten
  <2> QED BY <2>1, <2>2, <2>7, <2>8, <2>9 DEF Known
<1>3. CASE ~Writes(p) /\ payload' = payload
  <2>1. live' = live
    BY <1>3, OthersReadOnly
  <2>2. lock'.op = o => lock.op = o \/ payload[o].kind = "none"
    <3>1. CASE CreateLock(p)
      <4>1. lock'.op = ops + 1 /\ ops \in Nat
        BY <3>1 DEF CreateLock, Typed, CountTyped
      <4>2. ops + 1 \in OpIds => payload[ops + 1].kind = "none"
        BY <4>1 DEF JournalInv, FileFits
      <4> QED BY <4>1, <4>2
    <3>2. CASE ReleaseUnlock(p) \/ FinalizeUnlock(p)
      BY <1>0, <3>2 DEF ReleaseUnlock, FinalizeUnlock, NoLock
    <3> QED BY <3>1, <3>2, LockChanges
  <2> QED BY <1>0, <1>3, <2>1, <2>2 DEF KnownFile, Known
<1>4. CASE \/ WritePayload(p) \/ WriteTrashPayload(p) \/ WriteCleanupPayload(p)
           \/ WriteRestorePayload(p) \/ WritePurgePayload(p) \/ ReleasePayload(p)
           \/ FinalizePayload(p)
  <2>0. Working(p)
    BY <1>4 DEF WritePayload, WriteTrashPayload, WriteCleanupPayload, WriteRestorePayload,
                WritePurgePayload, ReleasePayload, FinalizePayload, Working
  <2>1. /\ UNCHANGED <<live, lock>>
        /\ \/ payload' = payload
           \/ \E v : /\ payload' = [payload EXCEPT ![job[p].op] = v]
                     /\ \/ v.kind \in {"none", "cleanup-index"}
                        \/ v.kind = "purge" /\ v.covers \subseteq {"logs"}
                        \/ /\ v.kind # "purge"
                           /\ \A s \in v.covers \cap Texts : v.before[s] = live[s]
    BY <1>1, <1>4, <2>0, PayloadFresh
  <2>2. CASE payload'[o] = payload[o]
    BY <1>0, <2>1, <2>2 DEF KnownFile, Known
  <2>3. CASE payload'[o] # payload[o]
    <3> PICK v : /\ payload' = [payload EXCEPT ![job[p].op] = v]
                 /\ \/ v.kind \in {"none", "cleanup-index"}
                    \/ v.kind = "purge" /\ v.covers \subseteq {"logs"}
                    \/ /\ v.kind # "purge"
                       /\ \A s \in v.covers \cap Texts : v.before[s] = live[s]
      BY <2>1, <2>3
    <3>1. payload'[o] = v
      BY <1>0, <2>3
    <3>2. CASE v.kind \in {"none", "cleanup-index"}
      BY <3>1, <3>2 DEF KnownFile
    <3>3. CASE v.kind = "purge" /\ v.covers \subseteq {"logs"}
      <4>1. v.covers \cap Texts = {}
        BY <3>3, ListsApart DEF Texts, Databases
      <4> QED BY <3>1, <3>3, <4>1 DEF KnownFile
    <3>4. CASE v.kind # "purge" /\ \A s \in v.covers \cap Texts : v.before[s] = live[s]
      BY <2>1, <3>1, <3>4 DEF KnownFile, Known
    <3> QED BY <3>2, <3>3, <3>4
  <2> QED BY <2>2, <2>3
<1> QED BY <1>2, <1>3, <1>4, PayloadWriters

(* Where the invariant asks something of a process.                        *)
SpeaksAt == WritingAt \cup NamingAt
            \cup {"undo", "capture", "payload", "restore-payload", "trash-rename"}
LEMMA ElsewhereKnows ==
  ASSUME NEW p \in Procs, pc'[p] \notin SpeaksAt
  PROVE  KnowsAt(p)'
BY DEF KnowsAt, TextsFit, CaughtFits, NamesFit, SealFits, SpeaksAt, NamingAt

(* A step after which nothing new is asked of its process.                 *)
Leads(p) ==
  \/ pc'[p] \notin SpeaksAt
  \/ pc'[p] \in WritingAt \cup {"undo"} /\ ~Compares(p)'
  \/ pc'[p] = "undo" /\ job'[p].todo = {}
  \/ /\ SameTask(p) /\ payload' = payload
     /\ \/ pc[p] \in WritingAt /\ pc'[p] \in WritingAt \cup {"undo"}
        \/ pc[p] = "undo" /\ pc'[p] = "undo" /\ job'[p].todo \subseteq job[p].todo
LEMMA LeadsKnows ==
  ASSUME NEW p \in Procs, KnowsAt(p), Leads(p)
  PROVE  KnowsAt(p)'
<1>1. ASSUME pc'[p] \in WritingAt \cup {"undo"}, TextsFit(p)' PROVE KnowsAt(p)'
  BY <1>1 DEF KnowsAt, CaughtFits, NamesFit, SealFits, NamingAt, WritingAt, PaidAt, CommittingAt,
              RemovingAt, RestoringAt
<1>2. "undo" \notin WritingAt
  BY DEF WritingAt, PaidAt, CommittingAt, RemovingAt, RestoringAt
<1>3. CASE SameTask(p) /\ payload' = payload
  <2>1. Compares(p)' = Compares(p) /\ Matches(p)' = Matches(p)
    BY <1>3 DEF SameTask, Compares, Matches
  <2>2. CASE pc[p] \in WritingAt /\ pc'[p] \in WritingAt \cup {"undo"}
    BY <1>1, <2>1, <2>2 DEF KnowsAt, TextsFit
  <2>3. CASE pc[p] = "undo" /\ pc'[p] = "undo" /\ job'[p].todo \subseteq job[p].todo
    BY <1>1, <1>2, <2>1, <2>3 DEF KnowsAt, TextsFit
  <2>4. CASE pc'[p] \notin SpeaksAt
    BY <2>4, ElsewhereKnows
  <2>5. CASE pc'[p] \in WritingAt \cup {"undo"} /\ ~Compares(p)'
    BY <1>1, <2>5 DEF TextsFit
  <2>6. CASE pc'[p] = "undo" /\ job'[p].todo = {}
    BY <1>1, <1>2, <2>6 DEF TextsFit
  <2> QED BY <2>2, <2>3, <2>4, <2>5, <2>6 DEF Leads
<1>4. CASE pc'[p] \notin SpeaksAt
  BY <1>4, ElsewhereKnows
<1>5. CASE pc'[p] \in WritingAt \cup {"undo"} /\ ~Compares(p)'
  BY <1>1, <1>5 DEF TextsFit
<1>6. CASE pc'[p] = "undo" /\ job'[p].todo = {}
  BY <1>1, <1>2, <1>6 DEF TextsFit
<1> QED BY <1>3, <1>4, <1>5, <1>6 DEF Leads

(* Where each way to leave a step leads.                                   *)
LEMMA Ways ==
  ASSUME Typed, NEW p \in Procs
  PROVE  /\ Stop(p) => pc'[p] = "idle"
         /\ \A l : Goto(p, l) => pc'[p] = l
         /\ \A stage, next : ReleaseAs(p, stage, next) => pc'[p] = "rel-stage"
         /\ \A m, stage, next : ReleaseMarked(p, m, stage, next) => pc'[p] = "rel-stage"
         /\ CommitFails(p) => pc'[p] = "undo" /\ job'[p].todo = job[p].done
         /\ PrepareFails(p) => pc'[p] \in {"rel-stage", "trash-drop-entry"}
         /\ \A stuck : RestoreFails(p, stuck) => pc'[p] = "unrestore"
         /\ Refuse(p) => pc'[p] = "rel-stage"
         /\ PurgeFails(p) => pc'[p] = "rel-stage"
         /\ DropTmp(p) => pc'[p] = "trash-drop-tmp"
         /\ KeepEntry(p) => pc'[p] = "rel-stage"
<1> USE JobFunction DEF Goto
<1>1. Stop(p) => pc'[p] = "idle"
  BY DEF Stop
<1>2. \A stage, next : ReleaseAs(p, stage, next) => pc'[p] = "rel-stage"
  BY DEF ReleaseAs
<1>3. \A m, stage, next : ReleaseMarked(p, m, stage, next) => pc'[p] = "rel-stage"
  BY DEF ReleaseMarked
<1>4. CommitFails(p) => pc'[p] = "undo" /\ job'[p].todo = job[p].done
  BY FailedCommit
<1>5. PrepareFails(p) => pc'[p] \in {"rel-stage", "trash-drop-entry"}
  BY <1>2 DEF PrepareFails
<1>6. \A stuck : RestoreFails(p, stuck) => pc'[p] = "unrestore"
  BY DEF RestoreFails
<1>7. Refuse(p) => pc'[p] = "rel-stage"
  BY <1>2 DEF Refuse
<1>8. PurgeFails(p) => pc'[p] = "rel-stage"
  BY <1>2 DEF PurgeFails
<1>9. DropTmp(p) => pc'[p] = "trash-drop-tmp"
  BY DEF DropTmp
<1>10. KeepEntry(p) => pc'[p] = "rel-stage"
  BY <1>2 DEF KeepEntry
<1>11. \A l : Goto(p, l) => pc'[p] = l
  OBVIOUS
<1> QED BY <1>1, <1>2, <1>3, <1>4, <1>5, <1>6, <1>7, <1>8, <1>9, <1>10, <1>11

(* A delete that has its payload, and its rollback.                        *)
LEMMA DeleteLeads ==
  ASSUME Typed, NEW p \in Procs, DeleteStep(p) \/ UndoStep(p),
         ~CheckSelection(p), ~Capture(p), ~WritePayload(p)
  PROVE  Leads(p)
<1> USE Ways DEF disk
<1>1. CASE EnterPrepared(p)
  <2>1. pc'[p] \in {"prepared", "rel-stage", "trash-drop-entry"}
    BY <1>1 DEF EnterPrepared
  <2> QED BY <2>1 DEF Leads, SpeaksAt, WritingAt, PaidAt, CommittingAt, RemovingAt, RestoringAt,
                      NamingAt
<1>2. CASE ~EnterPrepared(p)
  <2>1. payload' = payload
    BY <1>2 DEF DeleteStep, UndoStep, Recheck, EnterCommitting, StartSurface, MarkSurface,
                EnterVerifying, RemoveFromIndex, RemoveFromGlobalState, UndoGlobalState, RemoveFile,
                RemoveRows, RemoveLogs, UndoSurface, UndoEnds
  <2>2. SameTask(p) \/ pc'[p] = "idle"
    BY DeleteTask DEF Stopped
  <2> DEFINE After1 == {"idle", "rel-stage", "trash-drop-entry", "enter-commit", "commit", "remove",
                        "remove-logs", "mark", "undo-global-state", "undo"}
  <2>3. CASE UndoStep(p)
    <3>1. CASE UndoSurface(p)
      <4>1. /\ pc[p] = "undo"
            /\ \/ pc'[p] = "rel-stage"
               \/ pc' = pc /\ \E s : job' = [job EXCEPT ![p].todo = job[p].todo \ {s}]
        BY <3>1 DEF UndoSurface
      <4>2. CASE pc'[p] = "rel-stage"
        BY <4>2 DEF Leads, SpeaksAt, WritingAt, PaidAt, CommittingAt, RemovingAt, RestoringAt,
                    NamingAt
      <4>3. CASE pc' = pc /\ \E s : job' = [job EXCEPT ![p].todo = job[p].todo \ {s}]
        <5>1. job'[p].todo \subseteq job[p].todo
          BY <4>3, JobFunction DEF Jobs
        <5> QED BY <2>1, <2>2, <4>1, <4>3, <5>1 DEF Leads
      <4> QED BY <4>1, <4>2, <4>3
    <3>2. CASE UndoEnds(p)
      <4>1. pc'[p] \in {"rel-stage", "trash-drop-entry"}
        BY <3>2 DEF UndoEnds
      <4> QED BY <4>1 DEF Leads, SpeaksAt, WritingAt, PaidAt, CommittingAt, RemovingAt, RestoringAt,
                          NamingAt
    <3> QED BY <2>3, <3>1, <3>2 DEF UndoStep
  <2>4. CASE DeleteStep(p)
    <3>1. pc[p] \in WritingAt
      BY <1>2, <2>4
         DEF DeleteStep, Recheck, EnterCommitting, StartSurface, MarkSurface, EnterVerifying,
             RemoveFromIndex, RemoveFromGlobalState, UndoGlobalState, RemoveFile, RemoveRows,
             RemoveLogs, WritingAt, PaidAt, CommittingAt, RemovingAt
    <3>2. pc'[p] \in After1
      <4>1. CASE Recheck(p) \/ EnterCommitting(p) \/ EnterVerifying(p)
        BY <4>1 DEF Recheck, EnterCommitting, EnterVerifying
      <4>2. CASE StartSurface(p) \/ MarkSurface(p)
        BY <4>2 DEF StartSurface, MarkSurface
      <4>3. CASE RemoveFromIndex(p)
        BY <4>3 DEF RemoveFromIndex
      <4>4. CASE RemoveFromGlobalState(p)
        BY <4>4 DEF RemoveFromGlobalState
      <4>5. CASE UndoGlobalState(p)
        BY <4>5 DEF UndoGlobalState
      <4>6. CASE RemoveFile(p)
        BY <4>6 DEF RemoveFile
      <4>7. CASE RemoveRows(p)
        BY <4>7 DEF RemoveRows
      <4>8. CASE RemoveLogs(p)
        BY <4>8 DEF RemoveLogs
      <4> QED BY <1>2, <2>4, <4>1, <4>2, <4>3, <4>4, <4>5, <4>6, <4>7, <4>8 DEF DeleteStep
    <3>3. pc'[p] \in WritingAt \cup {"undo"} \/ pc'[p] \notin SpeaksAt
      BY <3>2 DEF SpeaksAt, WritingAt, PaidAt, CommittingAt, RemovingAt, RestoringAt, NamingAt
    <3>4. pc'[p] = "idle" => pc'[p] \notin SpeaksAt
      BY DEF SpeaksAt, WritingAt, PaidAt, CommittingAt, RemovingAt, RestoringAt, NamingAt
    <3> QED BY <2>1, <2>2, <3>1, <3>3, <3>4 DEF Leads
  <2> QED BY <2>3, <2>4
<1> QED BY <1>1, <1>2

(* Where the invariant asks nothing.                                       *)
UnspokenAt ==
  {"idle", "scanned", "conflicts", "restore-capture", "prepared", "cleanup-recheck",
   "cleanup-commit", "trash-mkdir", "trash-bundle", "trash-seal", "trash-mark", "trash-deletes",
   "trash-drop-tmp", "trash-drop-entry", "purge-recheck", "purge-commit", "purge-start",
   "purge-logs", "purge-logged", "purge-quarantine", "purge-quarantined", "purge-remove",
   "purge-removed", "purge-verify", "rel-stage", "rel-check", "rel-payload", "rel-unlock",
   "rec-trash", "rec-rmdir", "fin-stage", "fin-payload", "fin-unlock"}
LEMMA Unspoken == UnspokenAt \cap SpeaksAt = {}
BY DEF UnspokenAt, SpeaksAt, WritingAt, PaidAt, CommittingAt, RemovingAt, RestoringAt, NamingAt

(* A move to the trash, but for its payloads, and a purge.                 *)
LEMMA MoveLeads ==
  ASSUME Typed, RemovalsAreWhole, NEW p \in Procs,
         (TrashStep(p) /\ ~WriteTrashPayload(p)) \/ PurgeStep(p)
  PROVE  Leads(p)
<1> USE Ways
<1>1. pc'[p] \in UnspokenAt
  <2> USE DEF UnspokenAt
  <2>1. CASE TrashStep(p) /\ ~WriteTrashPayload(p)
    <3>1. CASE MakeTmp(p) \/ BuildBundle(p)
      BY <3>1 DEF MakeTmp, BuildBundle
    <3>2. CASE CommitTrashEntry(p) \/ MarkTrashEntry(p)
      BY <3>2 DEF CommitTrashEntry, MarkTrashEntry
    <3>3. CASE DropTrash(p)
      BY <3>3 DEF DropTrash
    <3> QED BY <2>1, <3>1, <3>2, <3>3 DEF TrashStep, TearEntry, RemovalsAreWhole
  <2>2. CASE PurgeStep(p)
    <3>1. CASE WritePurgePayload(p) \/ RecheckPurge(p)
      BY <3>1 DEF WritePurgePayload, RecheckPurge
    <3>2. CASE CheckpointPurge(p)
      BY <3>2 DEF CheckpointPurge
    <3>3. CASE PurgeLogs(p)
      BY <3>3 DEF PurgeLogs
    <3>4. CASE QuarantineEntry(p) \/ RemoveQuarantine(p) \/ VerifyPurge(p)
      BY <3>4 DEF QuarantineEntry, RemoveQuarantine, VerifyPurge
    <3> QED BY <2>2, <3>1, <3>2, <3>3, <3>4 DEF PurgeStep
  <2> QED BY <2>1, <2>2
<1> QED BY <1>1, Unspoken DEF Leads

(* An index cleanup that has looked at the indexes.                        *)
LEMMA CleanupLeads ==
  ASSUME Typed, NEW p \in Procs, KindFits(p), CleanupStep(p), ~CheckIndexes(p)
  PROVE  Leads(p)
<1> USE Ways, JobFunction
<1>1. job[p].kind = "cleanup-index"
  BY DEF CleanupStep, WriteCleanupPayload, RecheckCleanup, CommitCleanup, StartIndex, VerifyCleanup,
         KindFits, CleanupAt, Cleans
<1>2. ~Compares(p)'
  <2>1. CASE WriteCleanupPayload(p)
    <3>1. CASE CommitFails(p)
      BY <1>1, <3>1, TaskStays DEF SameTask, Compares
    <3>2. CASE job' = [job EXCEPT ![p].snap = job[p].seen]
      <4>1. job'[p].kind = job[p].kind
        BY <3>2 DEF Jobs
      <4> QED BY <1>1, <4>1 DEF Compares
    <3> QED BY <2>1, <3>1, <3>2 DEF WriteCleanupPayload
  <2>2. CASE ~WriteCleanupPayload(p)
    <3>1. pc[p] \in {"cleanup-recheck", "cleanup-commit", "commit"}
      BY <2>2 DEF CleanupStep, RecheckCleanup, CommitCleanup, StartIndex, VerifyCleanup
    <3>2. ~Reads(p)
      BY <2>2, <3>1 DEF Reads, ScanRoot, CreateLock, ReadyToLock, Capture, BuildBundle,
                        ReadForRestore, ReadForPurge, CaptureRestore, BeginRecovery
    <3>3. SameTask(p) \/ Stopped(p)
      BY <3>2, MoveTask
    <3> QED BY <1>1, <3>3 DEF SameTask, Stopped, Compares, NoJob
  <2> QED BY <2>1, <2>2
<1>3. pc'[p] \in WritingAt \cup {"undo"} \cup UnspokenAt
  <2> USE DEF UnspokenAt, WritingAt, PaidAt, CommittingAt, RemovingAt
  <2>1. CASE WriteCleanupPayload(p) \/ RecheckCleanup(p)
    BY <2>1 DEF WriteCleanupPayload, RecheckCleanup
  <2>2. CASE CommitCleanup(p) \/ StartIndex(p)
    BY <2>2 DEF CommitCleanup, StartIndex
  <2>3. CASE VerifyCleanup(p)
    BY <2>3 DEF VerifyCleanup
  <2> QED BY <2>1, <2>2, <2>3 DEF CleanupStep
<1> QED BY <1>1, <1>2, <1>3, Unspoken DEF Leads, Compares

(* A restore that has its payload.                                         *)
LEMMA RestoreLeads ==
  ASSUME Typed, NEW p \in Procs, KindFits(p), RestoreStep(p), ~CaptureRestore(p),
         ~WriteRestorePayload(p)
  PROVE  Leads(p)
<1> USE Ways
<1>1. payload' = payload
  BY DEF RestoreStep, CheckConflicts, StartRestore, RestoreText, RereadWritten, MarkRestored, RestoreRows,
         RemoveGoals, UndoRestore, UndoRestoreEnds, MarkRows, VerifyRestore, disk
<1>2. SameTask(p) \/ pc'[p] = "idle"
  BY RestoreTask DEF Stopped
<1>3. pc[p] \in WritingAt \/ CheckConflicts(p)
  BY DEF RestoreStep, StartRestore, RestoreText, RereadWritten, MarkRestored, RestoreRows, RemoveGoals,
         UndoRestore, UndoRestoreEnds, MarkRows, VerifyRestore, WritingAt, RestoringAt
<1>4. pc'[p] \in UnspokenAt \/ (pc'[p] \in RestoringAt /\ pc[p] \in WritingAt)
  <2> USE DEF UnspokenAt, RestoringAt
  <2>1. CASE CheckConflicts(p)
    BY <2>1 DEF CheckConflicts
  <2>2. CASE StartRestore(p) \/ MarkRestored(p)
    BY <1>3, <2>2 DEF StartRestore, MarkRestored, CheckConflicts
  <2>3. CASE RestoreText(p)
    BY <1>3, <2>3 DEF RestoreText, CheckConflicts
  <2>4. CASE RestoreRows(p) \/ RemoveGoals(p)
    BY <1>3, <2>4 DEF RestoreRows, RemoveGoals, CheckConflicts
  <2>5. CASE UndoRestore(p) \/ UndoRestoreEnds(p)
    BY <1>3, <2>5 DEF UndoRestore, UndoRestoreEnds, CheckConflicts
  <2>6. CASE MarkRows(p) \/ VerifyRestore(p)
    BY <1>3, <2>6 DEF MarkRows, VerifyRestore, CheckConflicts
  <2>7. CASE RereadWritten(p)
    BY <1>3, <2>7, Rereads DEF CheckConflicts
  <2> QED BY <2>1, <2>2, <2>3, <2>4, <2>5, <2>6, <2>7 DEF RestoreStep
<1>5. RestoringAt \subseteq WritingAt /\ "idle" \in UnspokenAt
  BY DEF WritingAt, UnspokenAt
<1> QED BY <1>1, <1>2, <1>4, <1>5, Unspoken DEF Leads

(* A release, where releases succeed.                                      *)
LEMMA ReleaseLeads ==
  ASSUME ReleaseSucceeds, Typed, Ownership, NEW p \in Procs, ReleaseStep(p)
  PROVE  Leads(p)
<1> USE Ways, ReleaseIsQuiet DEF Throws
<1>1. pc'[p] \in UnspokenAt
  <2> USE DEF UnspokenAt
  <2>1. CASE ReleaseStage(p)
    BY <2>1 DEF ReleaseStage
  <2>2. CASE ReleaseCheck(p)
    <3>1. Working(p) /\ pc[p] # "lock-created"
      BY <2>2 DEF ReleaseCheck, Working
    <3>2. OwnsLockFile(p)
      BY <3>1, OneWorker DEF OwnsLockFile
    <3> QED BY <2>2, <3>2 DEF ReleaseCheck
  <2>3. CASE ReleasePayload(p)
    BY <2>3 DEF ReleasePayload
  <2>4. CASE ReleaseUnlock(p)
    BY <2>4 DEF ReleaseUnlock
  <2> QED BY <2>1, <2>2, <2>3, <2>4 DEF ReleaseStep
<1> QED BY <1>1, Unspoken DEF Leads

(* A recovery that has begun.                                              *)
LEMMA RecoveryLeads ==
  ASSUME Typed, NEW p \in Procs, RecoveryStep(p), ~BeginRecovery(p)
  PROVE  Leads(p)
<1> USE Ways, JobFunction
<1>1. CASE RecoverSurface(p)
  <2>1. pc[p] = "rec" /\ payload' = payload
    BY <1>1 DEF RecoverSurface, disk
  <2>2. \/ pc'[p] = "idle"
        \/ pc' = pc /\ \E s : job' = [job EXCEPT ![p].todo = job[p].todo \ {s}]
    BY <1>1 DEF RecoverSurface
  <2>3. CASE pc' = pc /\ \E s : job' = [job EXCEPT ![p].todo = job[p].todo \ {s}]
    <3>1. SameTask(p)
      BY <2>3 DEF SameTask, Jobs
    <3>2. pc[p] \in WritingAt /\ pc'[p] \in WritingAt
      BY <2>1, <2>3 DEF WritingAt
    <3> QED BY <2>1, <3>1, <3>2 DEF Leads
  <2>4. CASE pc'[p] = "idle"
    BY <2>4, Unspoken DEF Leads, UnspokenAt
  <2> QED BY <2>2, <2>3, <2>4
<1>2. CASE SurfacesRecovered(p) \/ RefuseTrash(p)
  <2>1. pc'[p] \in UnspokenAt
    BY <1>2 DEF SurfacesRecovered, RefuseTrash, UnspokenAt
  <2> QED BY <2>1, Unspoken DEF Leads
<1>3. CASE RecoverQuarantine(p) \/ RecoverTrash(p)
  <2>1. pc'[p] \in UnspokenAt
    BY <1>3 DEF RecoverQuarantine, RecoverTrash, UnspokenAt
  <2> QED BY <2>1, Unspoken DEF Leads
<1>4. CASE FinalizeStage(p) \/ FinalizePayload(p) \/ FinalizeUnlock(p)
  <2>1. pc'[p] \in UnspokenAt
    BY <1>4 DEF FinalizeStage, FinalizePayload, FinalizeUnlock, UnspokenAt
  <2> QED BY <2>1, Unspoken DEF Leads
<1> QED BY <1>1, <1>2, <1>3, <1>4 DEF RecoveryStep

(* Beginnings and ends of an operation, and the checkpoint of an entry.    *)
LEMMA OutsideLeads ==
  ASSUME Typed, NEW p \in Procs,
         \/ (\E kind \in Kinds : ScanRoot(p, kind)) \/ LockIsTaken(p) \/ EntryNotFound(p)
         \/ Crash(p) \/ CommitEntry(p)
  PROVE  Leads(p)
<1> USE Ways
<1>1. CASE CommitEntry(p)
  <2>1. payload' = payload
    BY <1>1 DEF CommitEntry
  <2>2. \/ pc'[p] \in UnspokenAt
        \/ job' = job /\ pc[p] = "restore-commit" /\ pc'[p] = "restore"
    BY <1>1 DEF CommitEntry, UnspokenAt
  <2>3. job' = job => SameTask(p)
    BY TaskStays
  <2>4. {"restore-commit", "restore"} \subseteq WritingAt
    BY DEF WritingAt, RestoringAt
  <2> QED BY <2>1, <2>2, <2>3, <2>4, Unspoken DEF Leads
<1>2. CASE \/ (\E kind \in Kinds : ScanRoot(p, kind)) \/ LockIsTaken(p) \/ EntryNotFound(p)
           \/ Crash(p)
  <2>1. pc'[p] \in UnspokenAt
    BY <1>2 DEF ScanRoot, LockIsTaken, EntryNotFound, Crash, UnspokenAt
  <2> QED BY <2>1, Unspoken DEF Leads
<1> QED BY <1>1, <1>2

(* The plan of a selection that is still current captures what is there.   *)
LEMMA SelectionKnows ==
  ASSUME QuietTexts, Typed, OldInv, ForeignFits, NEW p \in Procs, KnowsAt(p),
         CheckSelection(p)
  PROVE  KnowsAt(p)'
<1> USE Ways, JobFunction
<1>1. CASE PrepareFails(p)
  BY <1>1, LeadsKnows, Unspoken DEF Leads, UnspokenAt
<1>2. CASE ~PrepareFails(p)
  <2> DEFINE a == job[p].seen["global-state"]
             b == live["global-state"]
  <2>1. SelectionCurrent(p) /\ pc'[p] = "capture" /\ job' = job /\ live' = live
    BY <1>2 DEF CheckSelection, data
  <2>2. "global-state" \in Lists /\ "global-state" \in Surfaces
    BY ListsApart DEF Lists
  <2>3. QuietReferences
    BY <2>2 DEF QuietTexts, QuietReferences
  <2>4. a.own = b.own
    BY <2>1, <2>3, SameReferences
  <2>5. a.ext = b.ext
    BY DEF ForeignFits
  <2>6. a \in Value /\ b \in Value
    BY <2>2 DEF Typed, DataTyped, Jobs, Images
  <2> HIDE DEF a, b
  <2>7. a = b
    BY <2>4, <2>5, <2>6 DEF Value
  <2>8. CaughtFits(p)'
    BY <2>1, <2>7 DEF CaughtFits, a, b
  <2> QED BY <2>1, <2>8 DEF KnowsAt, TextsFit, NamesFit, SealFits, WritingAt, PaidAt, CommittingAt,
                            RemovingAt, RestoringAt, NamingAt
<1> QED BY <1>1, <1>2

(* What a delete captures is what is there.                                *)
LEMMA CaptureKnows ==
  ASSUME Typed, NEW p \in Procs, KnowsAt(p), Capture(p)
  PROVE  KnowsAt(p)'
<1> USE Ways, JobFunction
<1>1. CASE PrepareFails(p)
  BY <1>1, LeadsKnows, Unspoken DEF Leads, UnspokenAt
<1>2. CASE ~PrepareFails(p)
  <2> DEFINE image == [live EXCEPT !["global-state"] = job[p].seen["global-state"]]
  <2>1. /\ pc[p] = "capture" /\ pc'[p] = "payload" /\ live' = live
        /\ job' = [job EXCEPT ![p].snap = image]
    BY <1>2 DEF Capture, data
  <2>2. \A s \in Texts : image[s] = live[s]
    BY <2>1, ListsApart DEF KnowsAt, CaughtFits, Texts, Surfaces, Typed, DataTyped, Images
  <2> HIDE DEF image
  <2>3. job'[p].snap = image
    BY <2>1 DEF Jobs
  <2>4. CaughtFits(p)'
    BY <2>1, <2>2, <2>3 DEF CaughtFits
  <2> QED BY <2>1, <2>4 DEF KnowsAt, TextsFit, NamesFit, SealFits, WritingAt, PaidAt, CommittingAt,
                            RemovingAt, RestoringAt, NamingAt
<1> QED BY <1>1, <1>2

(* The payload of a delete says what the delete goes by.                   *)
LEMMA PayloadKnows ==
  ASSUME Typed, NEW p \in Procs, job[p].op \in OpIds, KindFits(p), DoneFits(p), KnowsAt(p),
         WritePayload(p)
  PROVE  KnowsAt(p)'
<1> USE Ways, JobFunction
<1>0. pc[p] = "payload"
  BY DEF WritePayload
<1>1. CASE CommitFails(p)
  <2>1. job[p].done = {}
    BY <1>0 DEF DoneFits, EarlyAt
  <2> QED BY <1>1, <2>1, LeadsKnows DEF Leads
<1>2. CASE ~CommitFails(p)
  <2> DEFINE v == [kind |-> job[p].kind, covers |-> Covered(p), before |-> BeforeImage(p),
                   moves |-> NoRecords, from |-> 0, sealed |-> ~OwnsLock(p)]
  <2>1. /\ payload' = [payload EXCEPT ![job[p].op] = v]
        /\ pc'[p] = "recheck" /\ job' = job
    BY <1>2 DEF WritePayload, Throws, Effect
  <2>2. v.covers = Covered(p) /\ v.before = BeforeImage(p)
    OBVIOUS
  <2>3. job[p].kind # "restore"
    BY <1>0 DEF KindFits, DeleteAt
  <2>4. \A s \in Covered(p) \cap Texts : BeforeImage(p)[s] = job[p].snap[s]
    BY DEF BeforeImage, Texts, Surfaces
  <2> HIDE DEF v
  <2>5. payload'[job'[p].op] = v
    BY <2>1 DEF Typed
  <2>6. Matches(p)'
    BY <2>1, <2>2, <2>3, <2>4, <2>5 DEF Matches
  <2> QED BY <2>1, <2>6 DEF KnowsAt, TextsFit, CaughtFits, NamesFit, SealFits, NamingAt
<1> QED BY <1>1, <1>2

(* The entry of a move is made after its payload has the hash of it.       *)
LEMMA TrashPayloadKnows ==
  ASSUME Typed, NEW p \in Procs, job[p].op \in OpIds, KnowsAt(p), WriteTrashPayload(p)
  PROVE  KnowsAt(p)'
<1> USE Ways, JobFunction
<1>1. CASE pc'[p] \in UnspokenAt
  BY <1>1, LeadsKnows, Unspoken DEF Leads
<1>2. CASE pc'[p] \notin UnspokenAt
  <2> DEFINE v == TrashPayload(TRUE)
  <2>1. /\ payload' = [payload EXCEPT ![job[p].op] = v]
        /\ pc'[p] = "trash-rename" /\ job' = job
    BY <1>2 DEF WriteTrashPayload, Throws, Effect, UnspokenAt
  <2>2. v.sealed
    BY DEF TrashPayload
  <2> HIDE DEF v
  <2>3. payload'[job'[p].op].sealed
    BY <2>1, <2>2 DEF Typed
  <2> QED BY <2>1, <2>3 DEF KnowsAt, TextsFit, CaughtFits, NamesFit, SealFits, WritingAt, PaidAt,
                            CommittingAt, RemovingAt, RestoringAt, NamingAt
<1> QED BY <1>1, <1>2

(* What a restore captures is what is there, and its payload says so.      *)
LEMMA RestoreKnows ==
  ASSUME Typed, NEW p \in Procs, job[p].op \in OpIds, KnowsAt(p),
         CaptureRestore(p) \/ WriteRestorePayload(p)
  PROVE  KnowsAt(p)'
<1> USE Ways, JobFunction
<1>1. CASE CaptureRestore(p)
  <2>1. pc'[p] = "restore-payload" /\ live' = live
    BY <1>1 DEF CaptureRestore, data
  <2>2. job'[p].snap = live
    BY <1>1 DEF CaptureRestore, Jobs
  <2>3. CaughtFits(p)'
    BY <2>1, <2>2 DEF CaughtFits
  <2> QED BY <2>1, <2>3 DEF KnowsAt, TextsFit, NamesFit, SealFits, WritingAt, PaidAt, CommittingAt,
                            RemovingAt, RestoringAt, NamingAt
<1>2. CASE WriteRestorePayload(p) /\ pc'[p] \in UnspokenAt
  BY <1>2, LeadsKnows, Unspoken DEF Leads
<1>3. CASE WriteRestorePayload(p) /\ pc'[p] \notin UnspokenAt
  <2> DEFINE b == [s \in Surfaces |-> IF s \in job[p].todo \ Rows THEN job[p].snap[s] ELSE Blank[s]]
             v == [kind |-> job[p].kind, covers |-> job[p].todo, before |-> b, moves |-> Moves(p),
                   from |-> job[p].from, sealed |-> FALSE]
  <2>1. /\ payload' = [payload EXCEPT ![job[p].op] = v]
        /\ pc'[p] = "restore-commit" /\ job' = job
    BY <1>3 DEF WriteRestorePayload, Throws, Effect, UnspokenAt
  <2>2. v.covers = job[p].todo /\ v.before = b /\ v.moves = job[p].bundle
    BY DEF Moves
  <2>3. \A s \in job[p].todo \cap Texts : b[s] = job[p].snap[s]
    BY ListsApart DEF Texts, Surfaces, Rows, Databases
  <2> HIDE DEF v, b
  <2>4. payload'[job'[p].op] = v
    BY <2>1 DEF Typed
  <2>5. Matches(p)'
    BY <2>1, <2>2, <2>3, <2>4 DEF Matches
  <2> QED BY <2>1, <2>5 DEF KnowsAt, TextsFit, CaughtFits, NamesFit, SealFits, NamingAt
<1> QED BY <1>1, <1>2, <1>3

(* What an operation is told before it has the lock.                       *)
LEMMA ChecksKnow ==
  ASSUME Typed, NEW p \in Procs, KnowsAt(p),
         ReadForRestore(p) \/ ReadForPurge(p) \/ CheckIndexes(p)
  PROVE  KnowsAt(p)'
<1> USE Ways, JobFunction
<1>1. CASE pc'[p] \in UnspokenAt
  BY <1>1, LeadsKnows, Unspoken DEF Leads
<1>2. ASSUME pc'[p] = "checked", NamesFit(p)' PROVE KnowsAt(p)'
  BY <1>2 DEF KnowsAt, TextsFit, CaughtFits, SealFits, WritingAt, PaidAt, CommittingAt,
              RemovingAt, RestoringAt
<1>3. CASE ReadForRestore(p)
  <2>1. pc'[p] = "checked"
    BY <1>3 DEF ReadForRestore
  <2>2. job'[p].kind = "restore"
    BY <1>3 DEF ReadForRestore, Jobs
  <2> QED BY <1>2, <2>1, <2>2 DEF NamesFit
<1>4. CASE ReadForPurge(p)
  <2>1. pc'[p] = "checked"
    BY <1>4 DEF ReadForPurge
  <2>2. PICK e \in ValidEntries :
         job' = [job EXCEPT ![p] =
                   [job[p] EXCEPT !.from = e,
                      !.bundle = IF LogsArePurged(job[p].seen, e) THEN LogKeys ELSE NoRecords,
                      !.todo = IF LogsArePurged(job[p].seen, e) THEN {"logs"} ELSE {}]]
    BY <1>4 DEF ReadForPurge
  <2> DEFINE l == IF LogsArePurged(job[p].seen, e) THEN LogKeys ELSE NoRecords
             t == IF LogsArePurged(job[p].seen, e) THEN {"logs"} ELSE {}
             j == [job[p] EXCEPT !.from = e, !.bundle = l, !.todo = t]
  <2>3. j.todo \subseteq {"logs"}
    BY DEF Jobs
  <2>4. job'[p] = j
    BY <2>2
  <2>5. job'[p].todo \subseteq {"logs"}
    BY <2>3, <2>4
  <2> QED BY <1>2, <2>1, <2>5 DEF NamesFit
<1>5. CASE CheckIndexes(p) /\ pc'[p] \notin UnspokenAt
  <2>1. pc'[p] = "checked" /\ job' = job /\ job[p].kind = "cleanup-index"
    BY <1>5 DEF CheckIndexes, UnspokenAt, Cleans
  <2> QED BY <1>2, <2>1 DEF NamesFit
<1> QED BY <1>1, <1>3, <1>4, <1>5

(* An operation that acquires the lock has neither payload nor entry.      *)
LEMMA AcquireKnows ==
  ASSUME Typed, JournalInv, NEW p \in Procs, KnowsAt(p),
         CreateLock(p) \/ WriteLock(p) \/ CreateJournal(p) \/ PrepareEntry(p) \/ CheckEntry(p)
  PROVE  KnowsAt(p)'
<1> USE Ways, JobFunction
<1>1. CASE pc'[p] \in UnspokenAt
  BY <1>1, LeadsKnows, Unspoken DEF Leads
<1>2. ASSUME pc'[p] \in NamingAt, NamesFit(p)', SealFits(p)' PROVE KnowsAt(p)'
  BY <1>2 DEF KnowsAt, TextsFit, CaughtFits, WritingAt, PaidAt, CommittingAt,
              RemovingAt, RestoringAt, NamingAt
<1>3. CASE CreateLock(p)
  <2>1. /\ pc'[p] = "lock-created" /\ entry' = entry /\ ops + 1 \in OpIds
        /\ pc[p] = "checked" \/ job[p].kind # "purge"
    BY <1>3, BoundsAssumption DEF CreateLock, ReadyToLock, FromTrash, bin, OpIds, Typed, CountTyped
  <2>2. job'[p].op = ops + 1 /\ job'[p].kind = job[p].kind /\ job'[p].todo = job[p].todo
    BY <1>3 DEF CreateLock, Jobs
  <2>3. entry[ops + 1].state = "absent"
    <3>1. ops + 1 \notin 1 .. ops
      BY DEF Typed, CountTyped
    <3> QED BY <2>1, <3>1 DEF JournalInv, FileFits
  <2>4. NamesFit(p)'
    BY <2>1, <2>2 DEF KnowsAt, NamesFit, NamingAt
  <2>5. SealFits(p)'
    BY <2>1, <2>2, <2>3 DEF SealFits
  <2> QED BY <1>2, <2>1, <2>4, <2>5 DEF NamingAt
<1>4. CASE WriteLock(p) \/ CreateJournal(p) \/ PrepareEntry(p)
  <2>1. \/ pc'[p] \in UnspokenAt
        \/ /\ pc[p] = "lock-created" /\ pc'[p] = "lock-written" /\ job' = job /\ entry' = entry
        \/ /\ pc[p] = "lock-written" /\ pc'[p] = "acquired" /\ job' = job /\ entry' = entry
        \/ /\ pc[p] = "acquired" /\ pc'[p] = "entry" /\ job' = job
    BY <1>4 DEF WriteLock, CreateJournal, PrepareEntry, UnspokenAt, bin
  <2> QED BY <1>1, <1>2, <2>1 DEF KnowsAt, NamesFit, SealFits, NamingAt
<1>5. CASE CheckEntry(p) /\ pc'[p] \notin UnspokenAt
  <2>1. pc[p] = "entry" /\ pc'[p] = "purge-payload" /\ job' = job
    BY <1>5 DEF CheckEntry, UnspokenAt
  <2> QED BY <1>2, <2>1 DEF KnowsAt, NamesFit, SealFits, NamingAt
<1> QED BY <1>1, <1>3, <1>4, <1>5

(* A recovery goes by the payload.                                         *)
LEMMA BeginKnows ==
  ASSUME Typed, NEW p \in Procs, KnowsAt(p), BeginRecovery(p)
  PROVE  KnowsAt(p)'
<1> DEFINE o == lock.op
           plan == payload[lock.op]
           begun == [NoJob EXCEPT !.kind = plan.kind, !.op = o, !.snap = plan.before,
                       !.from = plan.from,
                       !.bundle = IF ProtectsLogs(o) THEN NoRecords ELSE plan.moves,
                       !.marks = journal[o].marks,
                       !.todo = IF ~IsFinal(o) /\ ~Untouched(o) THEN plan.covers ELSE {},
                       !.rel = [stage |-> EndStage(o), next |-> "none"]]
<1>1. /\ pc'[p] \in {"rec", "fin-stage"} /\ payload' = payload
      /\ job' = [job EXCEPT ![p] = begun]
  BY Ways DEF BeginRecovery, disk
<1>2. /\ begun.kind = plan.kind /\ begun.op = o /\ begun.snap = plan.before
      /\ begun.bundle = IF ProtectsLogs(o) THEN NoRecords ELSE plan.moves
  BY DEF NoJob
<1> HIDE DEF begun
<1>3. job'[p] = begun
  BY <1>1, JobFunction
<1>4. plan.kind = "restore" => begun.bundle = plan.moves
  BY <1>2 DEF ProtectsLogs
<1>5. Matches(p)'
  BY <1>1, <1>2, <1>3, <1>4 DEF Matches
<1> QED BY <1>1, <1>5 DEF KnowsAt, TextsFit, CaughtFits, NamesFit, SealFits, NamingAt

(* A process that takes a step still knows what it goes by.                *)
LEMMA StepKnows ==
  ASSUME ReleaseSucceeds, QuietTexts, RemovalsAreWhole, Consistent, OldInv,
         KnownInv, NEW p \in Procs, OperationStep(p) \/ Crash(p)
  PROVE  KnowsAt(p)'
<1> USE DEF Consistent
<1>1. KnowsAt(p) /\ ForeignFits /\ KindFits(p) /\ DoneFits(p)
  BY DEF KnownInv, JournalInv, Fits
<1>2. ASSUME Leads(p) PROVE KnowsAt(p)'
  BY <1>1, <1>2, LeadsKnows
<1>3. Working(p) => job[p].op \in OpIds
  BY WorkerFits
<1>4. CASE AcquireStep(p) \/ Crash(p)
  BY <1>1, <1>2, <1>4, OutsideLeads, AcquireKnows DEF AcquireStep
<1>5. CASE DeleteStep(p) \/ UndoStep(p)
  <2>1. WritePayload(p) => Working(p)
    BY DEF WritePayload, Working
  <2> QED BY <1>1, <1>2, <1>3, <1>5, <2>1, SelectionKnows, CaptureKnows, PayloadKnows, DeleteLeads
<1>6. CASE TrashStep(p) \/ PurgeStep(p)
  <2>1. WriteTrashPayload(p) => Working(p)
    BY DEF WriteTrashPayload, Working
  <2> QED BY <1>1, <1>2, <1>3, <1>6, <2>1, TrashPayloadKnows, MoveLeads
<1>7. CASE CleanupStep(p)
  BY <1>1, <1>2, <1>7, ChecksKnow, CleanupLeads
<1>8. CASE EntryStep(p)
  BY <1>1, <1>2, <1>8, ChecksKnow, AcquireKnows, OutsideLeads DEF EntryStep
<1>9. CASE RestoreStep(p)
  <2>1. WriteRestorePayload(p) \/ CaptureRestore(p) => Working(p)
    BY DEF WriteRestorePayload, CaptureRestore, Working
  <2> QED BY <1>1, <1>2, <1>3, <1>9, <2>1, RestoreKnows, RestoreLeads
<1>10. CASE ReleaseStep(p)
  BY <1>2, <1>10, ReleaseLeads
<1>11. CASE RecoveryStep(p)
  BY <1>1, <1>2, <1>11, BeginKnows, RecoveryLeads
<1> QED BY <1>4, <1>5, <1>6, <1>7, <1>8, <1>9, <1>10, <1>11 DEF OperationStep

(* So does a process that waits: while it works nobody else does, and who  *)
(* does not work changes none of what it goes by.                          *)
LEMMA OthersKnow ==
  ASSUME ReleaseSucceeds, RemovalsAreWhole, Consistent, KnownInv,
         NEW p \in Procs, OperationStep(p) \/ Crash(p), NEW q \in Procs \ {p}
  PROVE  KnowsAt(q)'
<1> USE DEF Consistent
<1>0. KnowsAt(q) /\ pc'[q] = pc[q] /\ job'[q] = job[q]
  BY OthersAreLeft DEF KnownInv, OthersStay
<1>1. CASE ~Working(q)
  BY <1>0, <1>1 DEF KnowsAt, TextsFit, CaughtFits, NamesFit, SealFits, Working, WritingAt, PaidAt,
                    CommittingAt, RemovingAt, RestoringAt
<1>2. CASE Working(q)
  <2>1. ~Working(p) /\ job[q].op \in OpIds
    BY <1>2, OneWorker, WorkerFits
  <2>2. live' = live
    BY <2>1, OthersReadOnly, WritersWork
  <2>3. payload' = payload
    BY <2>1, PayloadWriters
       DEF Working, WritePayload, WriteTrashPayload, WriteCleanupPayload, WriteRestorePayload,
           WritePurgePayload, ReleasePayload, FinalizePayload
  <2>4. entry[job[q].op].state = "absent" => entry'[job[q].op].state = "absent"
    BY <2>1, EntryChanges DEF Working, CommitTrashEntry, QuarantineEntry, RecoverQuarantine
  <2>5. TextsFit(q)'
    BY <1>0, <2>3 DEF KnowsAt, TextsFit, Compares, Matches
  <2>6. CaughtFits(q)' /\ NamesFit(q)' /\ SealFits(q)'
    BY <1>0, <2>2, <2>3, <2>4 DEF KnowsAt, CaughtFits, NamesFit, SealFits
  <2> QED BY <2>5, <2>6 DEF KnowsAt
<1> QED BY <1>1, <1>2

(* What a process has seen is what is there when it looks.                 *)
LEMMA SeenIsLive ==
  ASSUME Typed, NEW p \in Procs, OperationStep(p) \/ Crash(p)
  PROVE  job'[p].seen \in {job[p].seen, live, Blank}
<1> USE JobFunction
<1>1. CASE ~Reads(p)
  BY <1>1, TaskGoesOn DEF SameTask, Stopped, NoJob
<1>2. CASE \E kind \in Kinds : ScanRoot(p, kind)
  BY <1>2 DEF ScanRoot, NoJob
<1>3. CASE CreateLock(p)
  BY <1>3 DEF CreateLock, Jobs
<1>4. CASE Capture(p)
  <2>1. CASE PrepareFails(p)
    BY <2>1, TaskStays DEF SameTask
  <2> QED BY <1>4, <2>1 DEF Capture, Jobs
<1>5. CASE BuildBundle(p)
  BY <1>5 DEF BuildBundle, DropTmp, Jobs
<1>6. CASE WriteCleanupPayload(p)
  <2>1. CASE CommitFails(p)
    BY <2>1, TaskStays DEF SameTask
  <2>2. CASE job' = [job EXCEPT ![p].snap = job[p].seen]
    BY <2>2 DEF Jobs
  <2> QED BY <1>6, <2>1, <2>2 DEF WriteCleanupPayload
<1>7. CASE ReadForRestore(p)
  BY <1>7 DEF ReadForRestore, Jobs
<1>8. CASE ReadForPurge(p)
  BY <1>8 DEF ReadForPurge, Jobs
<1>9. CASE CaptureRestore(p)
  BY <1>9 DEF CaptureRestore, Jobs
<1>10. CASE BeginRecovery(p)
  BY <1>10 DEF BeginRecovery, NoJob
<1> QED BY <1>1, <1>2, <1>3, <1>4, <1>5, <1>6, <1>7, <1>8, <1>9, <1>10 DEF Reads

(* What it has captured is what it has seen, what is there, or what the    *)
(* payload holds.                                                          *)
LEMMA SnapIsKnown ==
  ASSUME Typed, NEW p \in Procs, OperationStep(p) \/ Crash(p)
  PROVE  \/ job'[p].snap["global-state"] \in
              {job[p].snap["global-state"], job[p].seen["global-state"], live["global-state"],
               Blank["global-state"]}
         \/ lock.op \in OpIds /\ job'[p].snap = payload[lock.op].before
<1> USE JobFunction
<1>0. "global-state" \in Surfaces
  BY ListsApart DEF Lists
<1>1. CASE ~Reads(p)
  BY <1>1, TaskGoesOn DEF SameTask, Stopped, NoJob
<1>2. CASE \E kind \in Kinds : ScanRoot(p, kind)
  BY <1>2 DEF ScanRoot, NoJob
<1>3. CASE CreateLock(p)
  BY <1>3 DEF CreateLock, Jobs
<1>4. CASE Capture(p)
  <2>1. CASE PrepareFails(p)
    BY <2>1, TaskStays DEF SameTask
  <2> DEFINE i == [live EXCEPT !["global-state"] = job[p].seen["global-state"]]
  <2>2. CASE job' = [job EXCEPT ![p].snap = i]
    <3>1. i["global-state"] = job[p].seen["global-state"]
      BY <1>0 DEF Typed, DataTyped, Images
    <3> HIDE DEF i
    <3>2. job'[p].snap = i
      BY <2>2 DEF Jobs
    <3> QED BY <3>1, <3>2
  <2> QED BY <1>4, <2>1, <2>2 DEF Capture
<1>5. CASE BuildBundle(p)
  BY <1>5 DEF BuildBundle, DropTmp, Jobs
<1>6. CASE WriteCleanupPayload(p)
  <2>1. CASE CommitFails(p)
    BY <2>1, TaskStays DEF SameTask
  <2>2. CASE job' = [job EXCEPT ![p].snap = job[p].seen]
    BY <2>2 DEF Jobs
  <2> QED BY <1>6, <2>1, <2>2 DEF WriteCleanupPayload
<1>7. CASE ReadForRestore(p)
  BY <1>7 DEF ReadForRestore, Jobs
<1>8. CASE ReadForPurge(p)
  BY <1>8 DEF ReadForPurge, Jobs
<1>9. CASE CaptureRestore(p)
  BY <1>9 DEF CaptureRestore, Jobs
<1>10. CASE BeginRecovery(p)
  <2>1. job'[p].snap = payload[lock.op].before
    BY <1>10 DEF BeginRecovery, NoJob
  <2>2. lock.op \in OpIds
    BY <1>10 DEF BeginRecovery, Readable, Typed, LockTyped, OpIds
  <2> QED BY <2>1, <2>2
<1> QED BY <1>1, <1>2, <1>3, <1>4, <1>5, <1>6, <1>7, <1>8, <1>9, <1>10 DEF Reads

(* Nothing foreign in the global state changes on disk or in memory.       *)
LEMMA ForeignStays ==
  ASSUME Typed, ForeignFits, NEW p \in Procs, OperationStep(p) \/ Crash(p)
  PROVE  ForeignFits'
<1> USE JobFunction
<1>0. "global-state" \in Lists /\ "global-state" \in Surfaces
  BY ListsApart DEF Lists
<1>1. Blank["global-state"].ext = 0 /\ NoPayload.before = Blank
  BY <1>0 DEF Blank, NoPayload
<1>2. live'["global-state"].ext = 0
  <2>1. CASE Adopted(p, "global-state") /\ Writes(p)
    <3>1. UndoRestore(p)
      BY <2>1 DEF Adopted, Writes, RemoveFromIndex, RemoveFromGlobalState, UndoGlobalState,
             RemoveFile, RemoveRows, RemoveLogs, UndoSurface, RestoreText, RestoreRows,
             RemoveGoals, PurgeLogs, RecoverSurface
    <3> PICK s : live' = live \/ live' = [live EXCEPT ![s] = job[p].snap[s]]
      BY <3>1 DEF UndoRestore
    <3> QED BY <1>0 DEF ForeignFits, Typed, DataTyped, Images
  <2>2. CASE ~Writes(p)
    BY <2>2, OthersReadOnly DEF ForeignFits
  <2> QED BY <1>0, <2>1, <2>2, WritesKeepForeign DEF ForeignFits
<1>3. ASSUME NEW q \in Procs
      PROVE  job'[q].seen["global-state"].ext = 0 /\ job'[q].snap["global-state"].ext = 0
  <2>1. CASE q = p
    <3>1. job'[p].seen["global-state"].ext = 0
      BY <1>1, SeenIsLive DEF ForeignFits
    <3>2. job'[p].snap["global-state"].ext = 0
      BY <1>1, SnapIsKnown DEF ForeignFits
    <3> QED BY <2>1, <3>1, <3>2
  <2>2. CASE q # p
    BY <2>2, OthersAreLeft DEF OthersStay, ForeignFits
  <2> QED BY <2>1, <2>2
<1>4. ASSUME NEW o \in OpIds PROVE payload'[o].before["global-state"].ext = 0
  <2>1. PaysKnown(p, o)
    BY PayloadKnown
  <2> QED BY <1>0, <1>1, <2>1 DEF PaysKnown, ForeignFits
<1> QED BY <1>2, <1>3, <1>4 DEF ForeignFits

(* What Codex writes is no text a recovery compares.                       *)
LEMMA CodexKnows ==
  ASSUME QuietTexts, Typed, KnownInv, CodexStep
  PROVE  KnownInv'
<1> PICK t \in Surfaces : CodexAdds(t) \/ CodexChangesOthers(t)
  BY DEF CodexStep
<1>1. t \in ExternalSurfaces /\ t \notin Texts
  BY DEF CodexAdds, CodexChangesOthers, QuietTexts, Texts
<1>2. /\ UNCHANGED <<lock, journal, payload, entry, pc, job>>
      /\ \A s \in Texts : live'[s] = live[s] /\ wrote'[s] = wrote[s]
  BY <1>1 DEF CodexAdds, CodexChangesOthers, disk, bin, Texts, Surfaces, Typed, DataTyped, Images
<1>3. "global-state" \in Texts
  BY DEF Texts, Lists
<1>4. ASSUME NEW o \in OpIds PROVE KnownFile(o)' /\ StoredFile(o)'
  BY <1>2 DEF KnownInv, KnownFile, Known, StoredFile
<1>5. ASSUME NEW q \in Procs PROVE KnowsAt(q)'
  BY <1>2, <1>3 DEF KnownInv, KnowsAt, TextsFit, Compares, Matches, CaughtFits, NamesFit, SealFits
<1>6. ForeignFits'
  BY <1>2, <1>3 DEF KnownInv, ForeignFits
<1> QED BY <1>4, <1>5, <1>6 DEF KnownInv

(* Every step keeps what a recovery will find as it can handle it.         *)
LEMMA NextKnown ==
  ASSUME ReleaseSucceeds, QuietTexts, RemovalsAreWhole
  PROVE  Consistent /\ FromInv /\ OldInv /\ KnownInv /\ [Next]_vars => KnownInv'
<1> SUFFICES ASSUME Consistent, FromInv, OldInv, KnownInv, [Next]_vars
             PROVE  KnownInv'
  OBVIOUS
<1>0. Typed
  BY DEF Consistent
<1>1. ASSUME NEW p \in Procs, OperationStep(p) \/ Crash(p) PROVE KnownInv'
  <2>1. \A o \in OpIds : KnownFile(o)' /\ StoredFile(o)'
    BY <1>1, KnownStays, StoredStays
  <2>2. \A q \in Procs : KnowsAt(q)'
    BY <1>1, StepKnows, OthersKnow
  <2>3. ForeignFits'
    BY <1>0, <1>1, ForeignStays DEF KnownInv
  <2> QED BY <2>1, <2>2, <2>3 DEF KnownInv
<1>2. CASE CodexStep
  BY <1>0, <1>2, CodexKnows
<1>3. CASE UNCHANGED vars
  BY <1>3 DEF vars, KnownInv, KnownFile, Known, StoredFile, KnowsAt, TextsFit, Compares, Matches,
              CaughtFits, NamesFit, SealFits, ForeignFits
<1> QED BY <1>1, <1>2, <1>3 DEF Next

(* Whatever a delete, move, restore or purge that was killed left, a       *)
(* recovery of it finds every text in one of the two states the payload    *)
(* names, the entry of a move absent or sealed by that payload and the     *)
(* entry of a purge whole, in quarantine or gone, so that none of its      *)
(* comparisons refuses (reconcileRecoveryFiles and reconcileRecoveryTrash, *)
(* recovery.ts:287-308 and 457-536).                                       *)
THEOREM RecoveriesSucceed ==
  ASSUME ReleaseSucceeds, SupervisedRecovery, QuietTexts, RemovalsAreWhole
  PROVE  Spec => []RecoveryWillSucceed
<1>1. Init => Consistent /\ FromInv /\ OldInv /\ KnownInv
  BY ConsistentAlways, FromBegins, OldBegins, KnownBegins
<1>2. Consistent /\ FromInv /\ OldInv /\ KnownInv /\ [Next]_vars =>
        (Consistent /\ FromInv /\ OldInv /\ KnownInv)'
  <2> SUFFICES ASSUME Consistent, FromInv, OldInv, KnownInv, [Next]_vars
               PROVE  (Consistent /\ FromInv /\ OldInv /\ KnownInv)'
    OBVIOUS
  <2>1. Consistent' /\ FromInv' /\ KnownInv'
    BY ConsistentAlways, NextFrom, NextKnown
  <2>2. OldInv'
    BY NextOld DEF Consistent
  <2> QED BY <2>1, <2>2
<1>3. Consistent /\ FromInv /\ KnownInv => RecoveryWillSucceed
  <2> SUFFICES ASSUME Consistent, FromInv, KnownInv, Readable, journal[lock.op].stage \notin Final,
                      payload[lock.op].kind \notin {"none", "cleanup-index"}
               PROVE  LET o == lock.op
                          plan == payload[o]
                      IN
                      /\ \A s \in plan.covers \ Databases :
                           live[s] \in {plan.before[s],
                                        After(plan.kind, s, plan.before[s], plan.moves[s])}
                      /\ plan.kind = "trash" =>
                           entry[o].state = "absent" \/ (entry[o].state = "complete" /\ plan.sealed)
                      /\ plan.kind = "purge" =>
                           entry[plan.from].state \in {"absent", "complete", "quarantined"}
    BY DEF RecoveryWillSucceed
  <2> DEFINE o == lock.op
             plan == payload[o]
  <2>0. Typed /\ o \in OpIds
    BY DEF Consistent, Typed, LockTyped, Readable, OpIds
  <2>1. plan.covers \ Databases \subseteq Texts
    BY <2>0 DEF Typed, Payloads, Texts, Surfaces
  <2>2. \A s \in plan.covers \ Databases : Known(o, s)
    BY <2>0, <2>1 DEF KnownInv, KnownFile
  <2>3. ASSUME NEW i \in OpIds
        PROVE  entry[i].state \in {"absent", "complete", "quarantined"} /\ StoredFile(i)
    BY <2>0 DEF Typed, BinTyped, Entries, KnownInv, StoredFile
  <2>4. plan.kind = "trash" =>
          entry[o].state = "absent" \/ (entry[o].state = "complete" /\ plan.sealed)
    BY <2>0, <2>3 DEF StoredFile
  <2>5. plan.kind = "purge" => plan.from \in OpIds
    BY <2>0, BoundsAssumption DEF FromInv, PayFrom, OpIds, Typed, CountTyped
  <2>6. plan.kind = "purge" => entry[plan.from].state \in {"absent", "complete", "quarantined"}
    BY <2>3, <2>5
  <2> QED BY <2>2, <2>4, <2>6 DEF Known
<1> QED BY <1>1, <1>2, <1>3, PTL DEF Spec
=============================================================================
