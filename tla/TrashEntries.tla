----------------------------- MODULE TrashEntries -----------------------------
(***************************************************************************)
(* How restoreTrashEntry and purgeTrashEntry (src/src/core/trash.ts) find  *)
(* the entry they work on: readTrashEntries and resolveTrashEntry before   *)
(* the lock, the same entry checked again under the lock.                  *)
(***************************************************************************)
EXTENDS DeleteSessions

(* A restore takes the bundle into memory.                                 *)
ReadForRestore(p) ==
  /\ pc[p] = "scanned"
  /\ job[p].kind = "restore"
  /\ \E e \in ValidEntries :
       /\ Goto(p, "checked")
       /\ job' = [job EXCEPT ![p] = [job[p] EXCEPT !.from = e, !.bundle = entry[e].bundle]]
  /\ UNCHANGED <<data, disk, bin, ops, faults, crashes>>

(* A purge takes the dedicated logs along, unless the session is live or   *)
(* another entry can bring it back; it fixes the keys of the rows now.     *)
LogsArePurged(image, e) == ~SessionKnown(image) /\ ValidEntries \subseteq {e}
LogKeys == [s \in Surfaces |-> IF s = "logs" THEN live[s].own ELSE {}]

ReadForPurge(p) ==
  /\ pc[p] = "scanned"
  /\ job[p].kind = "purge"
  /\ \E e \in ValidEntries :
       LET logs == LogsArePurged(job[p].seen, e) IN
       /\ Goto(p, "checked")
       /\ job' = [job EXCEPT ![p] =
                    [job[p] EXCEPT !.from   = e,
                                   !.bundle = IF logs THEN LogKeys ELSE NoRecords,
                                   !.todo   = IF logs THEN {"logs"} ELSE {}]]
  /\ UNCHANGED <<data, disk, bin, ops, faults, crashes>>

(* The entry the user named is gone by now.                                *)
EntryNotFound(p) ==
  /\ pc[p] = "scanned"
  /\ FromTrash(job[p].kind)
  /\ ValidEntries = {}
  /\ Stop(p)
  /\ UNCHANGED <<data, disk, bin, ops, faults, crashes>>

(* Errors before the commit: nothing was changed, and an error of the      *)
(* release itself is dropped.                                              *)
Refuse(p) == ReleaseAs(p, "rolled_back", "ignore")

PrepareEntry(p) ==
  /\ pc[p] = "acquired"
  /\ FromTrash(job[p].kind)
  /\ \E o \in Outcome("journal") :
       /\ WriteJournal(p, "prepared", job[p].marks, o)
       /\ Count(o)
       /\ IF Throws(o) THEN Refuse(p) ELSE Goto(p, "entry") /\ job' = job
  /\ UNCHANGED <<data, lock, payload, bin, ops, crashes>>

(* Mutant: the entry is trusted as it was read before the lock.            *)
EntryTrusted(p) == job[p].from # 0
(* The directory is the one that was read and its manifest has the hash.   *)
EntryIsCurrent(p) == entry[job[p].from].state = "complete"

CheckEntry(p) ==
  /\ pc[p] = "entry"
  /\ IF EntryIsCurrent(p)
     THEN Goto(p, IF job[p].kind = "restore" THEN "conflicts" ELSE "purge-payload") /\ job' = job
     ELSE Refuse(p)
  /\ UNCHANGED <<data, disk, bin, ops, faults, crashes>>

(* setStage("committing").                                                 *)
CommitEntry(p) ==
  /\ pc[p] \in {"restore-commit", "purge-commit"}
  /\ \E o \in Outcome("journal") :
       /\ WriteJournal(p, "committing", job[p].marks, o)
       /\ Count(o)
       /\ IF Throws(o) THEN Refuse(p)
          ELSE Goto(p, IF pc[p] = "restore-commit" THEN "restore" ELSE "purge-start") /\ job' = job
  /\ UNCHANGED <<data, lock, payload, bin, ops, crashes>>

EntryStep(p) ==
  \/ ReadForRestore(p) \/ ReadForPurge(p) \/ EntryNotFound(p)
  \/ PrepareEntry(p) \/ CheckEntry(p) \/ CommitEntry(p)
=============================================================================
