--------------------------- MODULE SessionMutations ---------------------------
(***************************************************************************)
(* All mutations of one Codex root together: processes that delete, move   *)
(* to the trash, restore, purge, clean indexes and recover, Codex writing  *)
(* next to them, system calls that fail and processes that are killed.     *)
(***************************************************************************)
EXTENDS Recovery, IndexCleanup

(* The selection is live, or moves to the trash and restores have left it  *)
(* in k entries of the trash.                                              *)
Everything == [s \in Surfaces |-> IF s = "logs" THEN {} ELSE {0}]
InitFrom(k) ==
  /\ live    = [s \in Surfaces |-> [own |-> IF k = 0 \/ s = "logs" THEN {0} ELSE {}, ext |-> 0]]
  /\ journal = [o \in OpIds |-> IF o <= k THEN [stage |-> "committed", marks |-> {}]
                                          ELSE NoJournal]
  /\ entry   = [o \in OpIds |-> IF o <= k THEN [state |-> "complete", bundle |-> Everything]
                                          ELSE NoEntry]
Init ==
  /\ \E k \in 0 .. InitialEntries : InitFrom(k)
  /\ wrote   = [s \in Surfaces |-> [own |-> {0}, ext |-> 0]]
  /\ lock    = NoLock
  /\ payload = [o \in OpIds |-> NoPayload]
  /\ tmp     = [o \in OpIds |-> FALSE]
  /\ pc      = [p \in Procs |-> "idle"]
  /\ job     = [p \in Procs |-> NoJob]
  /\ ops = InitialEntries /\ clock = 0 /\ faults = 0 /\ crashes = 0

OperationStep(p) ==
  \/ AcquireStep(p) \/ DeleteStep(p) \/ UndoStep(p) \/ TrashStep(p) \/ CleanupStep(p)
  \/ EntryStep(p) \/ RestoreStep(p) \/ PurgeStep(p) \/ ReleaseStep(p) \/ RecoveryStep(p)

Next == \/ \E p \in Procs : OperationStep(p) \/ Crash(p)
        \/ CodexStep

Spec == Init /\ [][Next]_vars

(* A running process keeps running, and somebody recovers what is left     *)
(* behind.  Nobody is obliged to start an operation.                       *)
Fairness ==
  /\ \A p \in Procs : WF_vars(Active(p) /\ OperationStep(p))
  /\ SF_vars(\E p \in Procs : BeginRecovery(p))
FairSpec == Spec /\ Fairness

-----------------------------------------------------------------------------
Locations ==
  {"idle", "scanned", "checked", "lock-created", "lock-written", "acquired",
   "prepared", "capture", "payload", "recheck", "enter-commit", "commit", "remove",
   "remove-logs", "undo-global-state", "mark", "undo",
   "trash-mkdir", "trash-bundle", "trash-seal", "trash-rename", "trash-mark",
   "trash-deletes", "trash-drop-tmp", "trash-drop-entry",
   "cleanup-recheck", "cleanup-commit",
   "entry", "conflicts", "restore-capture", "restore-payload", "restore-commit", "restore",
   "put-back", "restore-reread", "restore-mark", "restored", "restore-verify", "unrestore", "unrestore-goals",
   "purge-payload", "purge-recheck", "purge-commit", "purge-start", "purge-logs", "purge-logged",
   "purge-quarantine", "purge-quarantined", "purge-remove", "purge-removed", "purge-verify",
   "rel-stage", "rel-check", "rel-payload", "rel-unlock",
   "rec", "rec-trash", "rec-rmdir", "fin-stage", "fin-payload", "fin-unlock"}

Images   == [Surfaces -> Value]
Bundles  == [Surfaces -> SUBSET Records]
Releases == [stage : Stages, next : {"none", "ignore", "require", "again", "insist", "undo"}]
Jobs     == [kind : AllKinds \cup {"none"}, op : 0 .. MaxOps, from : 0 .. MaxOps, seen : Images, snap : Images,
             bundle : Bundles, todo : SUBSET Surfaces, done : SUBSET Surfaces,
             cur : SUBSET Surfaces, marks : SUBSET Marks, post : Images, rel : Releases]

(* The type of every variable.                                             *)
TypeOK ==
  /\ live    \in Images
  /\ wrote   \in Images
  /\ lock    \in [op : 0 .. MaxOps, written : BOOLEAN]
  /\ journal \in [OpIds -> [stage : Stages, marks : SUBSET Marks]]
  /\ payload \in [OpIds -> [kind : AllKinds \cup {"none"}, covers : SUBSET Surfaces,
                            before : Images, moves : Bundles, from : 0 .. MaxOps,
                            sealed : BOOLEAN]]
  /\ entry   \in [OpIds -> [state : {"absent", "complete", "quarantined", "torn"},
                            bundle : Bundles]]
  /\ tmp     \in [OpIds -> BOOLEAN]
  /\ pc      \in [Procs -> Locations]
  /\ job     \in [Procs -> Jobs]
  /\ ops \in 0 .. MaxOps /\ clock \in Records
  /\ faults \in 0 .. MaxFaults /\ crashes \in 0 .. MaxCrashes

(* The locations from which a process writes something only the holder of  *)
(* the lock may write.                                                     *)
Holding(p) == pc[p] \notin {"idle", "scanned", "checked", "rel-stage", "rel-check"}

(* Exclusive lock (SAFETY.md:83): a process that is about to write managed *)
(* data, the journal of a recovered operation, or to remove a payload or   *)
(* the lock file finds the lock naming its own operation, and no other     *)
(* process works on that operation.                                        *)
ExclusiveOwner ==
  \A p \in Procs :
    Holding(p) => /\ lock.op = job[p].op
                  /\ \A q \in Procs \ {p} : Active(q) => job[q].op # job[p].op

(* A surface whose rollback would write over something Codex wrote between *)
(* the rename of a restore and its re-read, which the restore took for its *)
(* own (trash.ts:146-159).                                                 *)
Adopted(p, s) == pc[p] = "unrestore" /\ s \in job[p].todo /\ job[p].post[s] # Restored(p, s)

(* Records change hands only with a durable copy: every record that leaves *)
(* a surface is in the recovery payload of the operation that holds the    *)
(* lock, as what was there before it or as what it moves (delete.ts:703-731*)
(* before 736, trash.ts:1462-1499 and 1805).  The one exception is a       *)
(* record a restore adopted and its rollback takes out.                    *)
BeforeImageDurable ==
  [][\A s \in Surfaces : \A r \in live[s].own \ live'[s].own :
       \/ lock.op # 0 /\ r \in payload[lock.op].before[s].own \cup payload[lock.op].moves[s]
       \/ \E p \in Procs : Adopted(p, s) /\ r \notin Restored(p, s).own]_vars

(* Whatever an operation, its rollback or a recovery does to a list, the   *)
(* lines and keys of other sessions stay as they are or become the ones    *)
(* Codex wrote last.  The exception is the same as above.                  *)
ForeignDataKept ==
  [][\A s \in Lists : live'[s].ext # live[s].ext =>
       live'[s].ext = wrote'[s].ext \/ \E p \in Procs : Adopted(p, s)]_vars

(* An operation whose recovery would put back what it took out.            *)
RollsBack(o) == journal[o].stage \notin Final /\ Strategy(payload[o].kind) = "rollback"

(* A dead operation that wrote its lock can be recovered: the files under  *)
(* .operations are ones recoverInterruptedOperation accepts.               *)
AlwaysRecoverable ==
  (Readable /\ Unattended(lock.op)) => Recoverable(lock.op)

(* The same up to the contents: recovery will find each surface in a state *)
(* it recognises, and a trash entry it may remove.  (A cleanup reads its   *)
(* before-image ahead of the lock and promises this only if nothing        *)
(* changed until it holds it.)                                             *)
RecoveryWillSucceed ==
  LET o == lock.op
      plan == payload[o]
  IN
  (/\ Readable /\ Unattended(o) /\ journal[o].stage \notin Final
   /\ plan.kind \notin {"none", "cleanup-index"}) =>
     /\ \A s \in plan.covers \ Databases :
          live[s] \in {plan.before[s], After(plan.kind, s, plan.before[s], plan.moves[s])}
     /\ plan.kind = "trash" =>
          entry[o].state = "absent" \/ (entry[o].state = "complete" /\ plan.sealed)
     /\ plan.kind = "purge" => entry[plan.from].state \in {"absent", "complete", "quarantined"}

(* A surface of a pending operation that no longer is what the payload     *)
(* recorded has its "started" checkpoint in the journal on disk, so that   *)
(* recovery-status never shows less than what happened.                    *)
WriteAhead ==
  \A o \in OpIds : lock.op = o /\ payload[o].kind # "none" /\ journal[o].stage \notin Final =>
    \A s \in {x \in payload[o].covers \ {"logs"} : Strategy(payload[o].kind) = "rollback"} :
      (payload[o].before[s].own \ live[s].own) # {} => <<s, "started">> \in journal[o].marks

(* When nothing is pending, the trash holds whole entries of committed     *)
(* moves and nothing else: no temporary directory, no quarantine.          *)
TrashMatchesJournal ==
  lock.op = 0 =>
    \A o \in OpIds : /\ entry[o].state \in {"absent", "complete"} /\ ~tmp[o]
                     /\ entry[o].state # "absent" => journal[o].stage = "committed"

(* An operation that ends as rolled back has put back every record it took *)
(* out, before it gives its recovery payload away (README.md:154).         *)
RolledBackIsWhole ==
  \A o \in OpIds : journal[o].stage = "rolled_back" =>
    \A s \in payload[o].covers : payload[o].before[s].own \subseteq live[s].own

(* With no operation pending, the session index and the history agree      *)
(* about the selection: both name it, or neither does.                     *)
IndexesAgree ==
  lock.op = 0 => (live["session-index"].own = {} <=> live["history"].own = {})

(* An operation that never got past "prepared" is not carried out: a       *)
(* failure before commit performs no mutation (README.md:154).             *)
PreparedPerformsNothing ==
  [][\A o \in OpIds : journal[o].stage = "prepared" => journal'[o].stage # "committed"]_vars

(* An operation that reported its end never changes its mind.              *)
OutcomeIsFinal ==
  [][\A o \in OpIds : journal[o].stage \in Final => journal'[o].stage = journal[o].stage]_vars

(* Only a delete as it commits, an index cleanup at work and a purge that  *)
(* deletes its logs or renames its entry lose anything for good: every     *)
(* other step leaves each record of the selection on its surface, in the   *)
(* payload of an operation that would be rolled back, or in the whole      *)
(* trash entry of a committed move.                                        *)
Kept(s, r) ==
  \/ r \in live[s].own
  \/ \E o \in OpIds : RollsBack(o) /\ r \in payload[o].before[s].own
  \/ \E o \in OpIds : /\ journal[o].stage = "committed" /\ entry[o].state = "complete"
                      /\ r \in entry[o].bundle[s]
LosesForGood(o, s) ==
  \/ payload[o].kind = "delete" /\ RollsBack(o) /\ journal'[o].stage = "committed"
  \/ payload[o].kind = "cleanup-index" /\ lock.op = o /\ s \in Indexes
  \/ /\ payload[o].kind = "purge" /\ lock.op = o
     /\ s = "logs" \/ entry'[payload[o].from].state # entry[payload[o].from].state
NothingElseIsLost ==
  [][\A s \in Surfaces, r \in Records :
       Kept(s, r) => Kept(s, r)' \/ \E o \in OpIds : LosesForGood(o, s)]_vars

(* A restore ends with all of its entry or with nothing of it, whichever   *)
(* process ends it: committed, every record of the entry is live; rolled   *)
(* back, what was put back is gone (trash.ts:1607-1718).                   *)
RestoreIsWhole ==
  [][\A o \in OpIds : payload[o].kind = "restore" /\ journal[o].stage \notin Final =>
       /\ journal'[o].stage = "committed" =>
            \A s \in Surfaces : entry[payload[o].from].bundle[s] \subseteq live'[s].own
       /\ journal'[o].stage = "rolled_back" =>
            \A s \in payload[o].covers :
              live'[s].own \cap payload[o].moves[s] \subseteq payload[o].before[s].own]_vars

(* The logs a purge or its recovery deletes are those of sessions nobody   *)
(* can still want them for: no surface the scan looks at names the         *)
(* selection, and no other valid entry could bring it back                 *)
(* (trash.ts:1748-1755 and 1834-1857, recovery.ts:409-455).                *)
PurgeSparesLogs ==
  [][\A r \in live["logs"].own \ live'["logs"].own :
       payload[lock.op].kind = "purge" => LogsArePurged(live, payload[lock.op].from)]_vars

(* What a user can rely on while operations run: the selection's records   *)
(* that a rollback would bring back count as present, those a restore has  *)
(* put back only once it has committed, and a trash entry counts from the  *)
(* commit of its operation until it leaves the trash.                      *)
Restores(o) == journal[o].stage \notin Final /\ payload[o].kind = "restore"
AbsOwn ==
  [s \in Surfaces |->
     (live[s].own \ UNION {payload[o].moves[s] \ payload[o].before[s].own
                            : o \in {q \in OpIds : Restores(q)}})
     \cup UNION {payload[o].before[s].own : o \in {q \in OpIds : RollsBack(q)}}]
AbsBin ==
  {entry[o].bundle : o \in {q \in ValidEntries : journal[q].stage = "committed"}}
Ledger == INSTANCE SelectionLedger WITH
            own <- AbsOwn, bin <- AbsBin, IndexSurfaces <- Indexes, LogSurface <- "logs",
            KnownBy <- SessionFiles \cup Indexes \cup {"sqlite-state"}, Ticks <- Records
(* Every behaviour is one of SelectionLedger.                              *)
Atomic == Ledger!Spec

(* An operation whose lock was written ends sooner or later, by its own    *)
(* process or by a recovery, and lets go of the lock.                      *)
LockIsReleased == (lock.op # 0 /\ lock.written) ~> (lock.op = 0)

(* Interrupted mutations block further writes until recovery completes     *)
(* (README.md:75): whatever lock is left behind can be recovered.          *)
EveryLockIsReleased == (lock.op # 0) ~> (lock.op = 0)
=============================================================================
