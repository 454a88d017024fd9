---------------------------- MODULE IndexCleanup ----------------------------
(***************************************************************************)
(* cleanupSessionIndexes and rewriteSessionIndexes                         *)
(* (src/src/core/delete.ts): remove the selection from the session index   *)
(* and the history only.  The operation is rolled forward by recovery, yet *)
(* rolled back by its own error handler, and commits inside the try block  *)
(* whose handler undoes it.                                                *)
(***************************************************************************)
EXTENDS DeleteSessions

Cleans(p) == job[p].kind = "cleanup-index"

SameIndexes(p) == \A s \in Indexes : live[s] = job[p].seen[s]

(* The preview of the selected rows, on a fresh scan.                      *)
CleanupCurrent(p) ==
  /\ SessionKnown(live)
  /\ \A s \in Indexes : Cardinality(live[s].own) = Cardinality(job[p].seen[s].own)

(* Before the lock: a fresh scan shows the same rows, both texts are those *)
(* of the scan.                                                            *)
CheckIndexes(p) ==
  /\ pc[p] = "scanned"
  /\ Cleans(p)
  /\ IF CleanupCurrent(p) /\ SameIndexes(p) THEN Goto(p, "checked") /\ job' = job ELSE Stop(p)
  /\ UNCHANGED <<data, disk, bin, ops, faults, crashes>>

(* Mutant: the history's text is left out of the payload.                  *)
PayloadWithoutHistory(p) ==
  [kind |-> job[p].kind, covers |-> {"session-index"}, moves |-> NoRecords, from |-> 0,
   sealed |-> FALSE,
   before |-> [Blank EXCEPT !["session-index"] = job[p].seen["session-index"]]]
(* The payload: both texts of the scan.                                    *)
CleanupPayload(p) ==
  [kind |-> job[p].kind, covers |-> Indexes, moves |-> NoRecords, from |-> 0, sealed |-> FALSE,
   before |-> [s \in Surfaces |-> IF s \in Indexes THEN job[p].seen[s] ELSE Blank[s]]]

WriteCleanupPayload(p) ==
  /\ pc[p] = "acquired"
  /\ Cleans(p)
  /\ \E o \in Outcome("payload") :
       /\ payload' = IF Effect(o) THEN [payload EXCEPT ![job[p].op] = CleanupPayload(p)]
                                  ELSE payload
       /\ Count(o)
       /\ IF Throws(o) THEN CommitFails(p)
          ELSE /\ Goto(p, "cleanup-recheck")
               /\ job' = [job EXCEPT ![p].snap = job[p].seen]
  /\ UNCHANGED <<data, lock, journal, bin, ops, crashes>>

RecheckCleanup(p) ==
  /\ pc[p] = "cleanup-recheck"
  /\ IF CleanupCurrent(p) THEN Goto(p, "cleanup-commit") /\ job' = job ELSE CommitFails(p)
  /\ UNCHANGED <<data, disk, bin, ops, faults, crashes>>

CommitCleanup(p) ==
  /\ pc[p] = "cleanup-commit"
  /\ \E o \in Outcome("journal") :
       /\ WriteJournal(p, "committing", job[p].marks, o)
       /\ Count(o)
       /\ IF Throws(o) THEN CommitFails(p)
          ELSE Goto(p, "commit") /\ job' = [job EXCEPT ![p].todo = Indexes]
  /\ UNCHANGED <<data, lock, payload, bin, ops, crashes>>

(* checkpoint(s, "started"); the write itself is RemoveFromIndex.          *)
StartIndex(p) ==
  /\ pc[p] = "commit"
  /\ Cleans(p)
  /\ \E s \in First(job[p].todo, CommitRank) : \E o \in Outcome("journal") :
       LET marks == StartMarks(p, s) IN
       /\ WriteJournal(p, "committing", marks, o)
       /\ Count(o)
       /\ job' = [job EXCEPT ![p] =
                    [@ EXCEPT !.marks = marks,
                              !.cur   = IF Throws(o) THEN {} ELSE {s},
                              !.todo  = IF Throws(o) THEN job[p].done ELSE job[p].todo]]
       /\ Goto(p, IF Throws(o) THEN "undo" ELSE "remove")
  /\ UNCHANGED <<data, lock, payload, bin, ops, crashes>>

(* Verification and release("committed") stand in the try block: if they   *)
(* throw, the handler rolls the rewritten indexes back.                    *)
VerifyCleanup(p) ==
  /\ pc[p] = "commit"
  /\ Cleans(p)
  /\ job[p].todo = {}
  /\ \E o \in Outcome("journal") :
       /\ WriteJournal(p, "verifying", job[p].marks, o)
       /\ Count(o)
       /\ IF Throws(o) THEN CommitFails(p) ELSE ReleaseAs(p, "committed", "undo")
  /\ UNCHANGED <<data, lock, payload, bin, ops, crashes>>

CleanupStep(p) ==
  \/ CheckIndexes(p) \/ WriteCleanupPayload(p) \/ RecheckCleanup(p) \/ CommitCleanup(p)
  \/ StartIndex(p) \/ VerifyCleanup(p)
=============================================================================
