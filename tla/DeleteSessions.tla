--------------------------- MODULE DeleteSessions ---------------------------
(***************************************************************************)
(* deleteSessions (src/src/core/delete.ts): the permanent delete, which    *)
(* owns its lock, and the second half of a move to the trash, which runs   *)
(* under the lock moveSessionsToTrash holds.  The function captures what   *)
(* it is about to remove, makes it durable in the recovery payload, checks *)
(* the selection again, removes the surfaces one by one, and on an error   *)
(* puts back those it knows it changed.                                    *)
(***************************************************************************)
EXTENDS OperationLock

Deletes(p)  == job[p].kind \in {"delete", "trash"}
OwnsLock(p) == job[p].kind = "delete"

CommitRank ==
  [s \in Surfaces |-> CASE s = "session-index"    -> 1
                        [] s = "history"          -> 2
                        [] s = "global-state"     -> 3
                        [] s \in SessionFiles     -> 4
                        [] s \in ShellSnapshots   -> 5
                        [] s = "sqlite-goals"     -> 6
                        [] s = "sqlite-state"     -> 7
                        [] OTHER                  -> 8]
UndoRank ==
  [s \in Surfaces |-> CASE s = "logs"             -> 1
                        [] s = "sqlite-state"     -> 2
                        [] s = "sqlite-goals"     -> 3
                        [] s = "global-state"     -> 4
                        [] s = "history"          -> 5
                        [] s = "session-index"    -> 6
                        [] OTHER                  -> 7]

(* The preview shows how many rows and references each surface holds and   *)
(* which files exist; a second scan must show the same.                    *)
SamePreview(a, b) ==
  \A s \in Surfaces :
    IF s \in Files THEN (a[s].own = {}) = (b[s].own = {})
                   ELSE Cardinality(a[s].own) = Cardinality(b[s].own)
SelectionCurrent(p) == SessionKnown(live) /\ SamePreview(live, job[p].seen)

(* Errors before the payload is written: no mutation took place.           *)
PrepareFails(p) ==
  IF OwnsLock(p) THEN ReleaseAs(p, "rolled_back", "ignore")
                 ELSE Goto(p, "trash-drop-entry") /\ job' = job
(* Errors of the commit block: undo what is flagged as done.               *)
CommitFails(p) ==
  /\ Goto(p, "undo")
  /\ job' = [job EXCEPT ![p].todo = job[p].done, ![p].cur = {}]

EnterPrepared(p) ==
  /\ Deletes(p)
  /\ pc[p] = IF OwnsLock(p) THEN "acquired" ELSE "trash-deletes"
  /\ \E o \in Outcome("journal") :
       /\ WriteJournal(p, "prepared", job[p].marks, o)
       /\ Count(o)
       /\ IF Throws(o) THEN PrepareFails(p) ELSE Goto(p, "prepared") /\ job' = job
  /\ UNCHANGED <<data, lock, payload, bin, ops, crashes>>

CheckSelection(p) ==
  /\ pc[p] = "prepared"
  /\ IF SelectionCurrent(p) THEN Goto(p, "capture") /\ job' = job ELSE PrepareFails(p)
  /\ UNCHANGED <<data, disk, bin, ops, faults, crashes>>

(* Files must be the scanned ones byte for byte, the global state is the   *)
(* text of the scan, indexes and rows are read again.                      *)
Capture(p) ==
  /\ pc[p] = "capture"
  /\ IF \A f \in Files : live[f].own # {} => live[f] = job[p].seen[f]
     THEN /\ Goto(p, "payload")
          /\ job' = [job EXCEPT ![p].snap =
                       [live EXCEPT !["global-state"] = job[p].seen["global-state"]]]
     ELSE PrepareFails(p)
  /\ UNCHANGED <<data, disk, bin, ops, faults, crashes>>

(* The surfaces the payload records: every target the scan found.          *)
Covered(p) ==
  {s \in Targets(job[p].kind) : s \in Files => job[p].seen[s].own # {}}

(* Mutant: shell snapshots left out of the payload's contents.             *)
ImageWithoutShells(p) ==
  [s \in Surfaces |-> IF s \in Covered(p) \ ShellSnapshots THEN job[p].snap[s] ELSE Blank[s]]
(* Mutant: the payload records the text the operation is about to write.   *)
ImageAfter(p) ==
  [s \in Surfaces |-> IF s \in Covered(p) THEN Removed(s, job[p].snap[s]) ELSE Blank[s]]
(* What the payload says of each surface before the operation.             *)
BeforeImage(p) ==
  [s \in Surfaces |-> IF s \in Covered(p) THEN job[p].snap[s] ELSE Blank[s]]

WritePayload(p) ==
  /\ pc[p] = "payload"
  /\ \E o \in Outcome("payload") :
       /\ payload' =
            IF Effect(o)
            THEN [payload EXCEPT ![job[p].op] =
                    [kind |-> job[p].kind, covers |-> Covered(p),
                     before |-> BeforeImage(p), moves |-> NoRecords, from |-> 0,
                     sealed |-> ~OwnsLock(p)]]
            ELSE payload
       /\ Count(o)
       /\ IF Throws(o) THEN CommitFails(p) ELSE Goto(p, "recheck") /\ job' = job
  /\ UNCHANGED <<data, lock, journal, bin, ops, crashes>>

(* Nothing was changed yet, and the last check before the first write.     *)
Recheck(p) ==
  /\ pc[p] = "recheck"
  /\ IF SelectionCurrent(p) THEN Goto(p, "enter-commit") /\ job' = job ELSE CommitFails(p)
  /\ UNCHANGED <<data, disk, bin, ops, faults, crashes>>

(* Surfaces a commit visits: an index without rows of the selection is     *)
(* skipped, the logs go with the state rows.                               *)
CommitPlan(p) ==
  {s \in Covered(p) \ {"logs"} : s \in Indexes => job[p].snap[s].own # {}}

EnterCommitting(p) ==
  /\ pc[p] = "enter-commit"
  /\ \E o \in Outcome("journal") :
       /\ WriteJournal(p, "committing", job[p].marks, o)
       /\ Count(o)
       /\ IF Throws(o) THEN CommitFails(p)
          ELSE /\ Goto(p, "commit")
               /\ job' = [job EXCEPT ![p].todo = CommitPlan(p)]
  /\ UNCHANGED <<data, lock, payload, bin, ops, crashes>>

(* Mutant: the surface is written before its "started" checkpoint.         *)
NoMarks(p, s) == job[p].marks
(* Mutant: a checkpoint status that is not registered for the surface.     *)
PlannedMarks(p, s) == job[p].marks \cup {<<s, "planned">>}
StartMarks(p, s) == job[p].marks \cup {<<s, "started">>}

(* Mutant: the rollback only reconciles the database it was working on.    *)
OneDatabaseStarted(p, s) == job[p].done \cup ({s} \cap {"sqlite-state"})
(* From the first database on, an error makes the rollback reconcile both  *)
(* databases (sqliteMutationStarted).                                      *)
SqliteStarted(p, s) ==
  job[p].done \cup IF s \in Databases THEN {"sqlite-goals", "sqlite-state"} ELSE {}

(* checkpoint(s, "started")                                                *)
StartSurface(p) ==
  /\ pc[p] = "commit"
  /\ Deletes(p)
  /\ \E s \in First(job[p].todo, CommitRank) :
       LET marks == StartMarks(p, s)
           done  == SqliteStarted(p, s)
       IN \E o \in Outcome("journal") :
            /\ WriteJournal(p, "committing", marks, o)
            /\ Count(o)
            /\ job' = [job EXCEPT ![p] =
                         [@ EXCEPT !.marks = marks, !.done = done,
                                   !.cur = IF Throws(o) THEN {} ELSE {s},
                                   !.todo = IF Throws(o) THEN done ELSE job[p].todo]]
            /\ Goto(p, IF Throws(o) THEN "undo" ELSE "remove")
  /\ UNCHANGED <<data, lock, payload, bin, ops, crashes>>

(* Mutant: the index is replaced without comparing it with the capture.    *)
NotCompared(p, s) == s \in Surfaces
(* The surface without the selection, computed from what was captured; a   *)
(* compare-and-replace writes it only over what was captured.              *)
TakeOut(p, s)       == live' = [live EXCEPT ![s] = Removed(s, job[p].snap[s])]
StillCaptured(p, s) == live[s] = job[p].snap[s]
FaultsAt(point, s) ==
  IF s \in Lists THEN Outcome(point) ELSE Outcome(point) \cap {"ok", "before"}

(* atomicWriteManagedTextIfUnchanged on an index: the flag is set only     *)
(* when the call returns.                                                  *)
RemoveFromIndex(p) ==
  /\ pc[p] = "remove"
  /\ \E s \in job[p].cur \cap Indexes :
       IF ~StillCaptured(p, s)
       THEN CommitFails(p) /\ UNCHANGED <<live, faults>>
       ELSE \E o \in Outcome("surface") :
              /\ IF Effect(o) THEN TakeOut(p, s) ELSE live' = live
              /\ Count(o)
              /\ IF Throws(o) THEN CommitFails(p)
                 ELSE /\ Goto(p, "mark")
                      /\ job' = [job EXCEPT ![p].done = @ \cup {s}]
  /\ UNCHANGED <<wrote, clock, disk, bin, ops, crashes>>

(* removeGlobalStateReferences: compared with the text of the scan,        *)
(* written only if it holds references, and on a failed write it tries to  *)
(* put its own text back before it throws.                                 *)
RemoveFromGlobalState(p) ==
  LET s == "global-state" IN
  /\ pc[p] = "remove"
  /\ s \in job[p].cur
  /\ IF ~StillCaptured(p, s)
     THEN CommitFails(p) /\ UNCHANGED <<live, faults>>
     ELSE IF live[s].own = {}
     THEN Goto(p, "mark") /\ UNCHANGED <<live, faults, job>>
     ELSE \E o \in Outcome("surface") :
            /\ IF Effect(o) THEN TakeOut(p, s) ELSE live' = live
            /\ Count(o)
            /\ IF Throws(o) THEN Goto(p, "undo-global-state") /\ job' = job
               ELSE /\ Goto(p, "mark")
                    /\ job' = [job EXCEPT ![p].done = @ \cup {s}]
  /\ UNCHANGED <<wrote, clock, disk, bin, ops, crashes>>

UndoGlobalState(p) ==
  LET s == "global-state" IN
  /\ pc[p] = "undo-global-state"
  /\ \E o \in Outcome("undo") :
       /\ live' = IF Effect(o) /\ live[s] = Removed(s, job[p].snap[s])
                  THEN [live EXCEPT ![s] = job[p].snap[s]] ELSE live
       /\ Count(o)
       /\ CommitFails(p)
  /\ UNCHANGED <<wrote, clock, disk, bin, ops, crashes>>

(* rm of a session or snapshot file after revalidateManagedPath: the path  *)
(* must still exist or be missing as captured and be the same inode; its   *)
(* bytes are not compared.                                                 *)
RemoveFile(p) ==
  /\ pc[p] = "remove"
  /\ \E s \in job[p].cur \cap Files :
       IF (live[s].own = {}) # (job[p].snap[s].own = {})
       THEN CommitFails(p) /\ UNCHANGED <<live, faults>>
       ELSE \E o \in FaultsAt("surface", s) :
              /\ IF Effect(o) THEN TakeOut(p, s) ELSE live' = live
              /\ Count(o)
              /\ IF Throws(o) THEN CommitFails(p)
                 ELSE /\ Goto(p, "mark")
                      /\ job' = [job EXCEPT ![p].done =
                                   IF job[p].snap[s].own = {} THEN @ ELSE @ \cup {s}]
  /\ UNCHANGED <<wrote, clock, disk, bin, ops, crashes>>

(* deleteGoalRows, deleteStateRows: one transaction, all rows of the ids.  *)
RemoveRows(p) ==
  /\ pc[p] = "remove"
  /\ \E s \in job[p].cur \cap Databases : \E o \in FaultsAt("surface", s) :
       /\ IF Effect(o) THEN TakeOut(p, s) ELSE live' = live
       /\ Count(o)
       /\ IF Throws(o) THEN CommitFails(p)
          ELSE /\ Goto(p, IF s = "sqlite-state" /\ OwnsLock(p) THEN "remove-logs" ELSE "mark")
               /\ job' = job
  /\ UNCHANGED <<wrote, clock, disk, bin, ops, crashes>>

(* deleteDedicatedLogRows: only if the rows are the captured ones.         *)
RemoveLogs(p) ==
  LET s == "logs" IN
  /\ pc[p] = "remove-logs"
  /\ IF ~StillCaptured(p, s)
     THEN CommitFails(p) /\ UNCHANGED <<live, faults>>
     ELSE \E o \in FaultsAt("surface", s) :
            /\ IF Effect(o) THEN TakeOut(p, s) ELSE live' = live
            /\ Count(o)
            /\ IF Throws(o) THEN CommitFails(p)
               ELSE /\ Goto(p, "mark")
                    /\ job' = [job EXCEPT ![p].done = @ \cup {s}]
  /\ UNCHANGED <<wrote, clock, disk, bin, ops, crashes>>

(* checkpoint(s, "committed")                                              *)
MarkSurface(p) ==
  /\ pc[p] = "mark"
  /\ LET marks == job[p].marks \cup {<<s, "committed">> : s \in job[p].cur} IN
     \E o \in Outcome("journal") :
       /\ WriteJournal(p, "committing", marks, o)
       /\ Count(o)
       /\ job' = [job EXCEPT ![p] =
                    [@ EXCEPT !.marks = marks, !.cur = {},
                              !.todo = IF Throws(o) THEN job[p].done
                                                    ELSE job[p].todo \ job[p].cur]]
       /\ Goto(p, IF Throws(o) THEN "undo" ELSE "commit")
  /\ UNCHANGED <<data, lock, payload, bin, ops, crashes>>

(* setStage("verifying") stands outside every try block of the function:   *)
(* if it throws, a delete ends with its lock in place.  The verification   *)
(* reads only; the release that follows it is tried twice by a delete.     *)
EnterVerifying(p) ==
  /\ pc[p] = "commit"
  /\ Deletes(p)
  /\ job[p].todo = {}
  /\ \E o \in Outcome("journal") :
       /\ WriteJournal(p, "verifying", job[p].marks, o)
       /\ Count(o)
       /\ IF ~Throws(o)
          THEN ReleaseAs(p, "committed", IF OwnsLock(p) THEN "again" ELSE "require")
          ELSE IF OwnsLock(p) THEN Stop(p) ELSE ReleaseAs(p, "recovery_required", "ignore")
  /\ UNCHANGED <<data, lock, payload, bin, ops, crashes>>

-----------------------------------------------------------------------------
(* The rollback: lists are rewritten and files created only if they are    *)
(* what the commit left, rows are inserted where they are missing.         *)
Undoable(p, s) ==
  CASE s \in Lists     -> live[s] = Removed(s, job[p].snap[s])
    [] s \in Files     -> live[s].own = {}
    [] s = "logs"      -> live[s].own \cap job[p].snap[s].own = {}
    [] OTHER           -> TRUE
WithMissing(s, v) ==
  IF s \in Databases THEN [live[s] EXCEPT !.own = live[s].own \cup v.own] ELSE v
PutBack(s, v) == live' = [live EXCEPT ![s] = WithMissing(s, v)]

UndoSurface(p) ==
  /\ pc[p] = "undo"
  /\ \E s \in First(job[p].todo, UndoRank) :
       IF ~Undoable(p, s)
       THEN ReleaseAs(p, "recovery_required", "ignore") /\ UNCHANGED <<live, faults>>
       ELSE \E o \in FaultsAt("undo", s) :
              /\ IF Effect(o) THEN PutBack(s, job[p].snap[s]) ELSE live' = live
              /\ Count(o)
              /\ IF Throws(o) THEN ReleaseAs(p, "recovery_required", "ignore")
                 ELSE pc' = pc /\ job' = [job EXCEPT ![p].todo = @ \ {s}]
  /\ UNCHANGED <<wrote, clock, disk, bin, ops, crashes>>

UndoEnds(p) ==
  /\ pc[p] = "undo"
  /\ job[p].todo = {}
  /\ IF job[p].kind = "trash" THEN Goto(p, "trash-drop-entry") /\ job' = job
                              ELSE ReleaseAs(p, "rolled_back", "require")
  /\ UNCHANGED <<data, disk, bin, ops, faults, crashes>>

UndoStep(p) == UndoSurface(p) \/ UndoEnds(p)

DeleteStep(p) ==
  \/ EnterPrepared(p) \/ CheckSelection(p) \/ Capture(p) \/ WritePayload(p) \/ Recheck(p)
  \/ EnterCommitting(p) \/ StartSurface(p) \/ MarkSurface(p) \/ EnterVerifying(p)
  \/ RemoveFromIndex(p) \/ RemoveFromGlobalState(p) \/ UndoGlobalState(p)
  \/ RemoveFile(p) \/ RemoveRows(p) \/ RemoveLogs(p)
=============================================================================
