----------------------------- MODULE RestoreTrash -----------------------------
(***************************************************************************)
(* restoreTrashEntry (src/src/core/trash.ts) under its lock: refuse if     *)
(* anything of the sessions is live, capture the surfaces, make the states *)
(* before and after durable, put the bundle back surface by surface, and   *)
(* on an error take out again what is known to have been written.  The     *)
(* entry stays in the trash, and logs are never put back.                  *)
(***************************************************************************)
EXTENDS TrashEntries

RestoreRank ==
  [s \in Surfaces |-> CASE s \in SessionFiles     -> 1
                        [] s \in ShellSnapshots   -> 2
                        [] s = "session-index"    -> 3
                        [] s = "history"          -> 4
                        [] s = "global-state"     -> 5
                        [] s = "sqlite-goals"     -> 6
                        [] OTHER                  -> 7]
Rows == {"sqlite-goals", "sqlite-state"}

(* assertNoRestoreConflicts: files and rows as they are now, lines and     *)
(* references as the scan saw them.                                        *)
NoConflicts(p) ==
  /\ \A f \in Files : job[p].bundle[f] # {} => live[f].own = {}
  /\ \A s \in Rows : live[s].own = {}
  /\ \A s \in Lists : job[p].seen[s].own = {}

CheckConflicts(p) ==
  /\ pc[p] = "conflicts"
  /\ IF NoConflicts(p) THEN Goto(p, "restore-capture") /\ job' = job ELSE Refuse(p)
  /\ UNCHANGED <<data, disk, bin, ops, faults, crashes>>

(* Surfaces with something to restore; the lists are always rewritten or   *)
(* at least compared.                                                      *)
RestorePlan(p) == {f \in Files : job[p].bundle[f] # {}} \cup Lists \cup Rows

CaptureRestore(p) ==
  /\ pc[p] = "restore-capture"
  /\ Goto(p, "restore-payload")
  /\ job' = [job EXCEPT ![p] = [job[p] EXCEPT !.snap = live, !.todo = RestorePlan(p)]]
  /\ UNCHANGED <<data, disk, bin, ops, faults, crashes>>

(* Mutant: the payload records what a restore adds to files only.          *)
MovesFilesOnly(p) == [s \in Surfaces |-> IF s \in Files THEN job[p].bundle[s] ELSE {}]
(* What the payload lets a recovery add to each surface.                   *)
Moves(p) == job[p].bundle

WriteRestorePayload(p) ==
  /\ pc[p] = "restore-payload"
  /\ \E o \in Outcome("payload") :
       /\ payload' =
            IF Effect(o)
            THEN [payload EXCEPT ![job[p].op] =
                    [kind |-> job[p].kind, covers |-> job[p].todo,
                     before |-> [s \in Surfaces |-> IF s \in job[p].todo \ Rows
                                                    THEN job[p].snap[s] ELSE Blank[s]],
                     moves |-> Moves(p), from |-> job[p].from, sealed |-> FALSE]]
            ELSE payload
       /\ Count(o)
       /\ IF Throws(o) THEN Refuse(p) ELSE Goto(p, "restore-commit") /\ job' = job
  /\ UNCHANGED <<data, lock, journal, bin, ops, crashes>>

(* Errors while the commit is in progress; `stuck` holds what the rollback *)
(* cannot take out.                                                        *)
RestoreFails(p, stuck) ==
  /\ Goto(p, "unrestore")
  /\ job' = [job EXCEPT ![p] = [job[p] EXCEPT !.todo = job[p].done, !.cur = stuck]]

(* checkpoint(s, "started"); both databases share one.                     *)
StartRestore(p) ==
  /\ pc[p] = "restore"
  /\ \E s \in First(job[p].todo, RestoreRank) :
       LET marks == job[p].marks \cup
                      {<<x, "started">> : x \in IF s \in Rows THEN Rows ELSE {s}}
       IN \E o \in Outcome("journal") :
            /\ WriteJournal(p, "committing", marks, o)
            /\ Count(o)
            /\ job' = [job EXCEPT ![p] =
                         [job[p] EXCEPT !.marks = marks,
                                        !.cur  = IF Throws(o) THEN {} ELSE {s},
                                        !.todo = IF Throws(o) THEN job[p].done ELSE job[p].todo]]
            /\ Goto(p, IF Throws(o) THEN "unrestore" ELSE "put-back")
  /\ UNCHANGED <<data, lock, payload, bin, ops, crashes>>

Restored(p, s) == After("restore", s, job[p].snap[s], job[p].bundle[s])
(* A file that was there, lines and references that are there already.     *)
NothingToAdd(p, s) ==
  IF s \in Files THEN job[p].snap[s].own # {} ELSE job[p].bundle[s] \subseteq job[p].snap[s].own

(* writeStoredFileIfMissing, appendJsonlRecords and                        *)
(* restoreGlobalStateReferences.  The write is flagged once the call       *)
(* returns: one that throws after its rename is not rolled back.           *)
RestoreText(p) ==
  /\ pc[p] = "put-back"
  /\ \E s \in job[p].cur \ Rows :
       IF s \in Indexes /\ job[p].bundle[s] = {}
       THEN Goto(p, "restore-mark") /\ UNCHANGED <<live, faults, job>>
       ELSE IF ~StillCaptured(p, s)
       THEN RestoreFails(p, {}) /\ UNCHANGED <<live, faults>>
       ELSE IF NothingToAdd(p, s)
       THEN Goto(p, "restore-mark") /\ UNCHANGED <<live, faults, job>>
       ELSE \E o \in Outcome("surface") :
              /\ live' = IF Effect(o) THEN [live EXCEPT ![s] = Restored(p, s)] ELSE live
              /\ Count(o)
              /\ IF Throws(o) THEN RestoreFails(p, {})
                 ELSE Goto(p, "restore-reread") /\ job' = job
  /\ UNCHANGED <<wrote, clock, disk, bin, ops, crashes>>

(* markSnapshotWritten reads the surface again and takes what it finds for *)
(* what the restore wrote, a line Codex wrote since the rename included.   *)
(* A write of Codex in the middle of the re-read makes it fail, as a       *)
(* failing system call does: a flagged write the rollback refuses.         *)
RereadWritten(p) ==
  /\ pc[p] = "restore-reread"
  /\ \E s \in job[p].cur :
       \/ \E o \in Outcome("surface") \ {"after"} :
            /\ Count(o)
            /\ IF Throws(o) THEN RestoreFails(p, {s})
               ELSE /\ Goto(p, "restore-mark")
                    /\ job' = [job EXCEPT ![p] = [job[p] EXCEPT
                                 !.done = job[p].done \cup {s},
                                 !.post = [job[p].post EXCEPT ![s] = live[s]]]]
       \/ live[s] # Restored(p, s) /\ RestoreFails(p, {s}) /\ faults' = faults
  /\ UNCHANGED <<data, disk, bin, ops, crashes>>

(* checkpoint(s, "committed") of a file or a list.                         *)
MarkRestored(p) ==
  /\ pc[p] = "restore-mark"
  /\ LET marks == job[p].marks \cup {<<s, "committed">> : s \in job[p].cur} IN
     \E o \in Outcome("journal") :
       /\ WriteJournal(p, "committing", marks, o)
       /\ Count(o)
       /\ job' = [job EXCEPT ![p] =
                    [job[p] EXCEPT !.marks = marks, !.cur = {},
                                   !.todo = IF Throws(o) THEN job[p].done
                                                         ELSE job[p].todo \ job[p].cur]]
       /\ Goto(p, IF Throws(o) THEN "unrestore" ELSE "restore")
  /\ UNCHANGED <<data, lock, payload, bin, ops, crashes>>

(* restoreSqliteRecords: one transaction for each database, the goals      *)
(* first; an insert of a row that is there fails.  From the end of the     *)
(* second one on the restore counts as committed.                          *)
RestoreRows(p) ==
  /\ pc[p] = "put-back"
  /\ \E s \in job[p].cur \cap Rows :
     \E o \in IF job[p].bundle[s] \cap live[s].own = {} THEN FaultsAt("surface", s) ELSE {"before"} :
       /\ live' = IF Effect(o) THEN [live EXCEPT ![s].own = live[s].own \cup job[p].bundle[s]]
                               ELSE live
       /\ faults' = IF Throws(o) /\ job[p].bundle[s] \cap live[s].own = {} THEN faults + 1 ELSE faults
       /\ CASE Throws(o) /\ s = "sqlite-goals"  -> RestoreFails(p, {})
            [] Throws(o) /\ s = "sqlite-state"  -> Goto(p, "unrestore-goals") /\ job' = job
            [] ~Throws(o) /\ s = "sqlite-goals" ->
                 pc' = pc /\ job' = [job EXCEPT ![p].cur = {"sqlite-state"}]
            [] OTHER                            -> Goto(p, "restored") /\ job' = job
  /\ UNCHANGED <<wrote, clock, disk, bin, ops, crashes>>

(* Mutant: the goals stay when the state database fails.                   *)
GoalsKept(p, s) == live[s]
(* removeRestoredRowsIfUnchanged.                                          *)
GoalsRemoved(p, s) == [live[s] EXCEPT !.own = live[s].own \ job[p].bundle[s]]

RemoveGoals(p) ==
  LET s == "sqlite-goals" IN
  /\ pc[p] = "unrestore-goals"
  /\ \E o \in FaultsAt("undo", s) :
       /\ live' = IF Effect(o) THEN [live EXCEPT ![s] = GoalsRemoved(p, s)] ELSE live
       /\ Count(o)
       /\ RestoreFails(p, IF Throws(o) THEN {s} ELSE {})
  /\ UNCHANGED <<wrote, clock, disk, bin, ops, crashes>>

(* rollbackFileSnapshots: in reverse, going on after an error, and only    *)
(* over the bytes that were read back after the write.                     *)
UndoRestore(p) ==
  /\ pc[p] = "unrestore"
  /\ \E s \in {x \in job[p].todo : \A y \in job[p].todo : RestoreRank[y] <= RestoreRank[x]} :
     \E o \in IF live[s] = job[p].post[s] THEN Outcome("undo") ELSE {"before"} :
       /\ live' = IF Effect(o) THEN [live EXCEPT ![s] = job[p].snap[s]] ELSE live
       /\ faults' = IF Throws(o) /\ live[s] = job[p].post[s] THEN faults + 1 ELSE faults
       /\ job' = [job EXCEPT ![p] =
                    [job[p] EXCEPT !.todo = job[p].todo \ {s},
                                   !.cur  = IF Throws(o) THEN job[p].cur \cup {s} ELSE job[p].cur]]
       /\ pc' = pc
  /\ UNCHANGED <<wrote, clock, disk, bin, ops, crashes>>

UndoRestoreEnds(p) ==
  /\ pc[p] = "unrestore"
  /\ job[p].todo = {}
  /\ ReleaseAs(p, IF job[p].cur = {} THEN "rolled_back" ELSE "recovery_required", "ignore")
  /\ UNCHANGED <<data, disk, bin, ops, faults, crashes>>

(* checkpoint("sqlite", "committed"); errors from here on do not undo.     *)
MarkRows(p) ==
  /\ pc[p] = "restored"
  /\ LET marks == job[p].marks \cup {<<s, "committed">> : s \in Rows} IN
     \E o \in Outcome("journal") :
       /\ WriteJournal(p, "committing", marks, o)
       /\ Count(o)
       /\ IF Throws(o) THEN ReleaseMarked(p, marks, "committed", "require")
          ELSE Goto(p, "restore-verify") /\ job' = [job EXCEPT ![p].marks = marks]
  /\ UNCHANGED <<data, lock, payload, bin, ops, crashes>>

(* What the verification reads again: the rows, the files and lists it     *)
(* wrote, the manifest.                                                    *)
RestoreHolds(p) ==
  /\ \A s \in Rows : job[p].bundle[s] \subseteq live[s].own
  /\ \A s \in job[p].done : live[s] = job[p].post[s]
  /\ EntryIsCurrent(p)

VerifyRestore(p) ==
  /\ pc[p] = "restore-verify"
  /\ \E o \in Outcome("journal") :
       /\ WriteJournal(p, "verifying", job[p].marks, o)
       /\ Count(o)
       /\ ReleaseAs(p, "committed", IF Throws(o) \/ ~RestoreHolds(p) THEN "require" ELSE "insist")
  /\ UNCHANGED <<data, lock, payload, bin, ops, crashes>>

RestoreStep(p) ==
  \/ CheckConflicts(p) \/ CaptureRestore(p) \/ WriteRestorePayload(p) \/ StartRestore(p)
  \/ RestoreText(p) \/ RereadWritten(p) \/ MarkRestored(p) \/ RestoreRows(p) \/ RemoveGoals(p)
  \/ UndoRestore(p) \/ UndoRestoreEnds(p) \/ MarkRows(p) \/ VerifyRestore(p)
=============================================================================
