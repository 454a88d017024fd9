---------------------------- MODULE OperationLock ----------------------------
(***************************************************************************)
(* Acquiring and releasing the one operation lock of a Codex root          *)
(* (acquireMutationLock and the lock object it returns), the scan a run    *)
(* starts from, and what may happen to a process or to the root at any     *)
(* moment: the process is killed, Codex writes.                            *)
(***************************************************************************)
EXTENDS MutationStore

(* A session exists for the scan when a rollout file, an index or history  *)
(* line, or a thread row names it.                                         *)
SessionKnown(image) ==
  \E s \in SessionFiles \cup Indexes \cup {"sqlite-state"} : image[s].own # {}

(* The entries readTrashEntries accepts: a directory with its manifest.    *)
ValidEntries == {e \in OpIds : entry[e].state = "complete"}
FromTrash(kind) == kind \in {"restore", "purge"}

(* A run scans the root.  The user picks sessions of its preview, or an    *)
(* entry of the trash.                                                     *)
ScanRoot(p, kind) ==
  /\ pc[p] = "idle"
  /\ kind \in Kinds
  /\ IF FromTrash(kind) THEN ValidEntries # {} ELSE SessionKnown(live)
  /\ Goto(p, "scanned")
  /\ job' = [job EXCEPT ![p] = [NoJob EXCEPT !.kind = kind, !.seen = live]]
  /\ UNCHANGED <<data, disk, bin, ops, faults, crashes>>

(* Before it takes the lock a cleanup compares the indexes with its scan,  *)
(* a restore or a purge reads the entry.                                   *)
ReadyToLock(p) ==
  pc[p] = IF job[p].kind = "cleanup-index" \/ FromTrash(job[p].kind) THEN "checked" ELSE "scanned"

(* Mutant: the lock file opened without the exclusive flag.                *)
LockReused == TRUE
(* The exclusive flag of open: it fails if the file exists.                *)
LockFree == lock.op = 0

(* open(".operation.lock", "wx"): the file exists, still empty, or the     *)
(* open fails because it existed already.                                  *)
CreateLock(p) ==
  /\ ReadyToLock(p)
  /\ LockFree
  /\ ops < MaxOps
  /\ ops'  = ops + 1
  /\ lock' = [op |-> ops + 1, written |-> FALSE]
  /\ job'  = [job EXCEPT ![p].op = ops + 1]
  /\ Goto(p, "lock-created")
  /\ UNCHANGED <<data, journal, payload, bin, faults, crashes>>

LockIsTaken(p) ==
  /\ ReadyToLock(p)
  /\ ~LockFree
  /\ Stop(p)
  /\ UNCHANGED <<data, disk, bin, ops, faults, crashes>>

(* The owner is written into the lock file and flushed.                    *)
WriteLock(p) ==
  /\ pc[p] = "lock-created"
  /\ \E o \in Outcome("lock") :
       /\ lock' = [lock EXCEPT !.written = Effect(o)]
       /\ Count(o)
       /\ IF Throws(o) THEN Stop(p) ELSE Goto(p, "lock-written") /\ job' = job
  /\ UNCHANGED <<data, journal, payload, bin, ops, crashes>>

(* The first setStage("prepared") creates the journal.                     *)
CreateJournal(p) ==
  /\ pc[p] = "lock-written"
  /\ \E o \in Outcome("lock") :
       /\ WriteJournal(p, "prepared", {}, o)
       /\ Count(o)
       /\ IF Throws(o) THEN Stop(p) ELSE Goto(p, "acquired") /\ job' = job
  /\ UNCHANGED <<data, lock, payload, bin, ops, crashes>>

AcquireStep(p) ==
  \/ \E kind \in Kinds : ScanRoot(p, kind)
  \/ CreateLock(p) \/ LockIsTaken(p) \/ WriteLock(p) \/ CreateJournal(p)

-----------------------------------------------------------------------------
(* What the caller does when lock.release throws.                          *)
ReleaseFails(p) ==
  LET next == job[p].rel.next IN
  CASE next = "require" -> ReleaseAs(p, "recovery_required", "ignore")
    [] next = "again"   -> ReleaseAs(p, "committed", "ignore")
    [] next = "insist"  -> ReleaseAs(p, "committed", "require")
    [] next = "undo"    -> /\ Goto(p, "undo")
                           /\ job' = [job EXCEPT ![p].todo = job[p].done]
    [] OTHER            -> Stop(p)

ReleaseStage(p) ==
  /\ pc[p] = "rel-stage"
  /\ \E o \in Outcome("release") :
       /\ WriteJournal(p, job[p].rel.stage, job[p].marks, o)
       /\ Count(o)
       /\ IF Throws(o) THEN ReleaseFails(p)
          ELSE IF job[p].rel.stage = "recovery_required" THEN Stop(p)
          ELSE Goto(p, "rel-check") /\ job' = job
  /\ UNCHANGED <<data, lock, payload, bin, ops, crashes>>

(* The lock must still be there and name this operation.                   *)
OwnsLockFile(p) == lock.op = job[p].op /\ lock.written

ReleaseCheck(p) ==
  /\ pc[p] = "rel-check"
  /\ IF OwnsLockFile(p)
     THEN Goto(p, "rel-payload") /\ job' = job
     ELSE ReleaseFails(p)
  /\ UNCHANGED <<data, disk, bin, ops, faults, crashes>>

ReleasePayload(p) ==
  /\ pc[p] = "rel-payload"
  /\ \E o \in Outcome("release") :
       /\ payload' = IF Effect(o) THEN [payload EXCEPT ![job[p].op] = NoPayload] ELSE payload
       /\ Count(o)
       /\ IF Throws(o) THEN ReleaseFails(p) ELSE Goto(p, "rel-unlock") /\ job' = job
  /\ UNCHANGED <<data, lock, journal, bin, ops, crashes>>

(* rm(lock, {force}) removes whatever lock is there, then the directory    *)
(* is flushed.                                                             *)
ReleaseUnlock(p) ==
  /\ pc[p] = "rel-unlock"
  /\ \E o \in Outcome("release") :
       /\ lock' = IF Effect(o) THEN NoLock ELSE lock
       /\ Count(o)
       /\ IF Throws(o) THEN ReleaseFails(p) ELSE Stop(p)
  /\ UNCHANGED <<data, journal, payload, bin, ops, crashes>>

ReleaseStep(p) ==
  ReleaseStage(p) \/ ReleaseCheck(p) \/ ReleasePayload(p) \/ ReleaseUnlock(p)

-----------------------------------------------------------------------------
(* A process is killed: what it held in memory is lost.                    *)
Crash(p) ==
  /\ Active(p)
  /\ crashes < MaxCrashes
  /\ crashes' = crashes + 1
  /\ Stop(p)
  /\ UNCHANGED <<data, disk, bin, ops, faults>>

(* Codex itself adds a record of the selection to a surface (a rollout     *)
(* only grows in place) or changes what else a list holds.                 *)
CodexAdds(s) ==
  /\ s \in ExternalSurfaces
  /\ clock < MaxWrites
  /\ s \in Files => live[s].own # {}
  /\ clock' = clock + 1
  /\ live'  = [live  EXCEPT ![s].own = @ \cup {clock + 1}]
  /\ wrote' = [wrote EXCEPT ![s].own = @ \cup {clock + 1}]
  /\ UNCHANGED <<disk, bin, pc, job, ops, faults, crashes>>

CodexChangesOthers(s) ==
  /\ s \in ExternalSurfaces \cap Lists
  /\ clock < MaxWrites
  /\ clock' = clock + 1
  /\ live'  = [live  EXCEPT ![s].ext = clock + 1]
  /\ wrote' = [wrote EXCEPT ![s].ext = clock + 1]
  /\ UNCHANGED <<disk, bin, pc, job, ops, faults, crashes>>

CodexStep == \E s \in Surfaces : CodexAdds(s) \/ CodexChangesOthers(s)
=============================================================================
