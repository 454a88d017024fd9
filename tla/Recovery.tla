------------------------------ MODULE Recovery ------------------------------
(***************************************************************************)
(* recoverInterruptedOperation (src/src/core/recovery.ts) and              *)
(* finalizeInterruptedMutation (src/src/core/mutation-safety.ts).          *)
(* Recovery takes no lock of its own and cannot tell whether the owner of  *)
(* the lock still runs; it may itself be killed and run again.             *)
(***************************************************************************)
EXTENDS MoveToTrash, RestoreTrash, PurgeTrash

RecoveryRank ==
  [s \in Surfaces |-> CASE s \in SessionFiles     -> 1
                        [] s \in ShellSnapshots   -> 2
                        [] s = "session-index"    -> 3
                        [] s = "history"          -> 4
                        [] s = "global-state"     -> 5
                        [] s = "sqlite-state"     -> 6
                        [] s = "sqlite-goals"     -> 7
                        [] OTHER                  -> 8]

Unattended(o) == \A q \in Procs : Active(q) => job[q].op # o

(* What readInterruptedMutation and the branches of                        *)
(* recoverInterruptedOperation make of the files under .operations.        *)
Readable   == lock.op # 0 /\ lock.written
IsFinal(o) == journal[o].stage \in Final
(* Mutant: a pending operation without a journal is not "untouched".       *)
UntouchedJournaled(o) == journal[o].stage = "prepared" /\ payload[o].kind = "none"
Untouched(o) == journal[o].stage \in {"none", "prepared"} /\ payload[o].kind = "none"
(* Mutant: only operations that entered "committing" are recovered.        *)
HasPayloadCommitting(o) == journal[o].stage \notin {"none", "prepared"} /\ payload[o].kind # "none"
HasPayload(o) == journal[o].stage # "none" /\ payload[o].kind # "none"
Recoverable(o) == IsFinal(o) \/ Untouched(o) \/ HasPayload(o)

(* Mutant: an operation with a final journal is rolled back all the same.  *)
AlwaysRolledBack(o) == IF Recoverable(o) THEN "rolled_back" ELSE "recovery_required"
(* The stage a recovery ends an operation with.                            *)
EndStage(o) ==
  IF IsFinal(o) THEN journal[o].stage
  ELSE IF ~Untouched(o) /\ Strategy(payload[o].kind) = "rollforward" THEN "committed"
  ELSE "rolled_back"

(* Mutant: the logs of a purge are deleted without looking who needs them. *)
ProtectsNothing(o) == payload[o].kind = "none"
(* protectedPurgeLogTargets: the sessions of a purge are live again, or    *)
(* another valid entry holds them.                                         *)
ProtectsLogs(o) == payload[o].kind = "purge" /\ ~LogsArePurged(live, payload[o].from)

BeginRecovery(p) ==
  LET o == lock.op
      plan == payload[o]
      reconciles == ~IsFinal(o) /\ ~Untouched(o)
  IN
  /\ pc[p] = "idle"
  /\ Readable
  /\ SupervisedRecovery => Unattended(o)
  /\ Recoverable(o)
  /\ Goto(p, IF reconciles THEN "rec" ELSE "fin-stage")
  /\ job' = [job EXCEPT ![p] =
               [NoJob EXCEPT !.kind = plan.kind, !.op = o, !.snap = plan.before,
                             !.from = plan.from,
                             !.bundle = IF ProtectsLogs(o) THEN NoRecords ELSE plan.moves,
                             !.marks = journal[o].marks,
                             !.todo = IF reconciles THEN plan.covers ELSE {},
                             !.rel = [stage |-> EndStage(o), next |-> "none"]]]
  /\ UNCHANGED <<data, disk, bin, ops, faults, crashes>>

(* The two states of a file or a list the payload knows.                   *)
StateAfter(p, s) == After(job[p].kind, s, job[p].snap[s], job[p].bundle[s])
KnownState(p, s) == s \notin Databases => live[s] \in {job[p].snap[s], StateAfter(p, s)}
(* Mutant: the rows of the databases are not part of the reconciliation.   *)
DesiredFilesOnly(p, s) ==
  IF s \in Databases THEN live[s]
  ELSE IF Strategy(job[p].kind) = "rollforward" THEN StateAfter(p, s) ELSE job[p].snap[s]
(* reconcileRecoveryFiles and reconcileRecoverySqlite: a file that is      *)
(* neither the recorded before nor the intended after is left alone and    *)
(* the recovery refused; missing rows are inserted, and the log rows a     *)
(* purge fixed are deleted.                                                *)
Desired(p, s) ==
  IF job[p].kind = "purge"
  THEN [live[s] EXCEPT !.own = live[s].own \ job[p].bundle[s]]
  ELSE IF s \in Databases
  THEN [live[s] EXCEPT !.own = live[s].own \cup job[p].snap[s].own \cup job[p].bundle[s]]
  ELSE IF Strategy(job[p].kind) = "rollforward" THEN StateAfter(p, s) ELSE job[p].snap[s]

RecoverSurface(p) ==
  /\ pc[p] = "rec"
  /\ \E s \in First(job[p].todo, RecoveryRank) :
       IF ~KnownState(p, s) THEN Stop(p) /\ UNCHANGED <<live, faults>>
       ELSE \E o \in Outcome("recover") :
              /\ live' = IF Effect(o) THEN [live EXCEPT ![s] = Desired(p, s)] ELSE live
              /\ Count(o)
              /\ IF Throws(o) THEN Stop(p)
                 ELSE pc' = pc /\ job' = [job EXCEPT ![p].todo = @ \ {s}]
  /\ UNCHANGED <<wrote, clock, disk, bin, ops, crashes>>

(* Mutant: recovery reconciles the surfaces but forgets the trash.         *)
NeverReconcilesTrash(p) == job[p].kind = "none"
(* A move to the trash and a purge have a trash entry to reconcile too.    *)
ReconcilesTrash(p) == job[p].kind \in {"trash", "purge"}

SurfacesRecovered(p) ==
  /\ pc[p] = "rec"
  /\ job[p].todo = {}
  /\ Goto(p, IF ReconcilesTrash(p) THEN "rec-trash" ELSE "fin-stage")
  /\ UNCHANGED <<data, disk, bin, job, ops, faults, crashes>>

(* reconcileRecoveryTrash: the entry is renamed or removed only if its     *)
(* manifest is the one the payload holds the hash of.                      *)
RecoverQuarantine(p) ==
  /\ pc[p] = "rec-trash"
  /\ job[p].kind = "purge"
  /\ entry[job[p].from].state = "complete"
  /\ \E r \in Outcome("recover") :
       /\ entry' = IF Effect(r) THEN [entry EXCEPT ![job[p].from].state = "quarantined"] ELSE entry
       /\ Count(r)
       /\ IF Throws(r) THEN Stop(p) ELSE pc' = pc /\ job' = job
  /\ UNCHANGED <<data, disk, tmp, ops, crashes>>

RecoverTrash(p) ==
  LET o == job[p].op
      e == EntryOf(p)
  IN
  /\ \/ pc[p] = "rec-trash" /\ entry[e].state # "torn"
                            /\ (entry[e].state = "complete" =>
                                  job[p].kind = "trash" /\ payload[o].sealed)
     \/ pc[p] = "rec-rmdir"
  /\ \E r \in Outcome("recover") \cap {"ok", "before"} :
       /\ entry' = IF Effect(r) THEN [entry EXCEPT ![e] = NoEntry] ELSE entry
       /\ tmp'   = IF Effect(r) THEN [tmp   EXCEPT ![o] = FALSE]   ELSE tmp
       /\ Count(r)
       /\ IF Throws(r) THEN Stop(p) ELSE Goto(p, "fin-stage") /\ job' = job
  /\ UNCHANGED <<data, disk, ops, crashes>>

RefuseTrash(p) ==
  LET e == EntryOf(p) IN
  /\ pc[p] = "rec-trash"
  /\ entry[e].state = "torn" \/ (entry[e].state = "complete" /\ ~payload[job[p].op].sealed)
  /\ Stop(p)
  /\ UNCHANGED <<data, disk, bin, ops, faults, crashes>>

(* finalizeInterruptedMutation: the operation is read again, then the      *)
(* final journal, the payload and the lock, in this order.                 *)
FinalizeStage(p) ==
  LET o == job[p].op IN
  /\ pc[p] = "fin-stage"
  /\ IF ~Readable \/ lock.op # o \/ (journal[o].stage = "none" /\ payload[o].kind # "none")
     THEN Stop(p) /\ UNCHANGED <<journal, faults>>
     ELSE \E r \in Outcome("recover") :
            /\ WriteJournal(p, job[p].rel.stage, journal[o].marks, r)
            /\ Count(r)
            /\ IF Throws(r) THEN Stop(p) ELSE Goto(p, "fin-payload") /\ job' = job
  /\ UNCHANGED <<data, lock, payload, bin, ops, crashes>>

FinalizePayload(p) ==
  /\ pc[p] = "fin-payload"
  /\ \E r \in Outcome("recover") :
       /\ payload' = IF Effect(r) THEN [payload EXCEPT ![job[p].op] = NoPayload] ELSE payload
       /\ Count(r)
       /\ IF Throws(r) THEN Stop(p) ELSE Goto(p, "fin-unlock") /\ job' = job
  /\ UNCHANGED <<data, lock, journal, bin, ops, crashes>>

FinalizeUnlock(p) ==
  /\ pc[p] = "fin-unlock"
  /\ \E r \in Outcome("recover") :
       /\ lock' = IF Effect(r) THEN NoLock ELSE lock
       /\ Count(r)
       /\ Stop(p)
  /\ UNCHANGED <<data, journal, payload, bin, ops, crashes>>

RecoveryStep(p) ==
  \/ BeginRecovery(p) \/ RecoverSurface(p) \/ SurfacesRecovered(p)
  \/ RecoverQuarantine(p) \/ RecoverTrash(p)
  \/ RefuseTrash(p) \/ FinalizeStage(p) \/ FinalizePayload(p) \/ FinalizeUnlock(p)
=============================================================================
