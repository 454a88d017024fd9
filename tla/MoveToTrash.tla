----------------------------- MODULE MoveToTrash -----------------------------
(***************************************************************************)
(* moveSessionsToTrash (src/src/core/trash.ts): copy the selection into a  *)
(* temporary directory, rename it to a trash entry, then run               *)
(* deleteSessions under the same lock, and commit both together.           *)
(***************************************************************************)
EXTENDS DeleteSessions

(* Payload that covers no surface yet, only the two trash paths; sealed    *)
(* once it holds the hash of the manifest.                                 *)
TrashPayload(sealed) ==
  [kind |-> "trash", covers |-> {}, before |-> Blank, moves |-> NoRecords, from |-> 0,
   sealed |-> sealed]

(* The catch block, before and after the rename of the entry.              *)
DropTmp(p)   == Goto(p, "trash-drop-tmp") /\ job' = job
KeepEntry(p) == ReleaseAs(p, "recovery_required", "ignore")

WriteTrashPayload(p) ==
  /\ job[p].kind = "trash"
  /\ pc[p] \in {"acquired", "trash-seal"}
  /\ LET sealed == pc[p] = "trash-seal" IN
     \E o \in Outcome("payload") :
       /\ payload' = IF Effect(o) THEN [payload EXCEPT ![job[p].op] = TrashPayload(sealed)]
                                  ELSE payload
       /\ Count(o)
       /\ IF Throws(o) THEN DropTmp(p)
          ELSE Goto(p, IF sealed THEN "trash-rename" ELSE "trash-mkdir") /\ job' = job
  /\ UNCHANGED <<data, lock, journal, bin, ops, crashes>>

(* setStage("prepared") and the temporary directory.                       *)
MakeTmp(p) ==
  /\ pc[p] = "trash-mkdir"
  /\ \E o \in Outcome("trash") :
       /\ tmp' = IF Effect(o) THEN [tmp EXCEPT ![job[p].op] = TRUE] ELSE tmp
       /\ Count(o)
       /\ IF Throws(o) THEN DropTmp(p) ELSE Goto(p, "trash-bundle") /\ job' = job
  /\ UNCHANGED <<data, disk, entry, ops, crashes>>

(* Mutant: the goals database is not exported into the bundle.             *)
BundleWithoutGoals(p) ==
  [s \in Surfaces |-> IF s \in {"logs", "sqlite-goals"} THEN {}
                      ELSE IF s \in Databases THEN live[s].own ELSE job[p].seen[s].own]
(* buildTrashBundle reads rows again, takes index lines, history lines and *)
(* global-state references from the scan, and leaves the dedicated logs    *)
(* where they are; the files it copies must be the scanned ones.           *)
Bundle(p) ==
  [s \in Surfaces |-> IF s = "logs" THEN {}
                      ELSE IF s \in Databases THEN live[s].own ELSE job[p].seen[s].own]

BuildBundle(p) ==
  /\ pc[p] = "trash-bundle"
  /\ IF \A f \in Files : job[p].seen[f].own # {} => live[f] = job[p].seen[f]
     THEN /\ Goto(p, "trash-seal")
          /\ job' = [job EXCEPT ![p].bundle = Bundle(p)]
     ELSE DropTmp(p)
  /\ UNCHANGED <<data, disk, bin, ops, faults, crashes>>

CommitTrashEntry(p) ==
  /\ pc[p] = "trash-rename"
  /\ \E o \in Outcome("trash") :
       /\ IF Effect(o)
          THEN /\ entry' = [entry EXCEPT ![job[p].op] =
                              [state |-> "complete", bundle |-> job[p].bundle]]
               /\ tmp'   = [tmp EXCEPT ![job[p].op] = FALSE]
          ELSE UNCHANGED bin
       /\ Count(o)
       /\ IF Throws(o) THEN DropTmp(p) ELSE Goto(p, "trash-mark") /\ job' = job
  /\ UNCHANGED <<data, disk, ops, crashes>>

(* setStage("committing") and checkpoint("trash-entry", "committed").      *)
MarkTrashEntry(p) ==
  /\ pc[p] = "trash-mark"
  /\ \E o \in Outcome("journal") :
       /\ WriteJournal(p, "committing", job[p].marks, o)
       /\ Count(o)
       /\ IF Throws(o) THEN KeepEntry(p) ELSE Goto(p, "trash-deletes") /\ job' = job
  /\ UNCHANGED <<data, lock, payload, bin, ops, crashes>>

(* A failure before the rename removes the temporary directory, a failed   *)
(* or rolled back delete after it removes the entry; only then is the      *)
(* operation released as rolled back.  Where nothing is there, nothing is  *)
(* removed and nothing can fail.                                           *)
TrashThere(o) == tmp[o] \/ entry[o].state # "absent"
DropTrash(p) ==
  /\ pc[p] \in {"trash-drop-tmp", "trash-drop-entry"}
  /\ \E o \in IF TrashThere(job[p].op) THEN Outcome("trash") \cap {"ok", "before"} ELSE {"ok"} :
       /\ IF ~Effect(o) THEN UNCHANGED bin
          ELSE IF pc[p] = "trash-drop-tmp"
          THEN tmp' = [tmp EXCEPT ![job[p].op] = FALSE] /\ entry' = entry
          ELSE entry' = [entry EXCEPT ![job[p].op] = NoEntry] /\ tmp' = tmp
       /\ Count(o)
       /\ IF Throws(o) THEN ReleaseAs(p, "recovery_required", "ignore")
                       ELSE ReleaseAs(p, "rolled_back", "require")
  /\ UNCHANGED <<data, disk, ops, crashes>>

(* rm -r unlinks the manifest before it has removed the directory.  A      *)
(* purge removes the entry it works on, a move to the trash its own.       *)
EntryOf(p) == IF job[p].kind = "purge" THEN job[p].from ELSE job[p].op
TearEntry(p) ==
  /\ TornRemoval
  /\ pc[p] \in {"trash-drop-entry", "purge-remove", "rec-trash"}
  /\ entry[EntryOf(p)].state = IF job[p].kind = "purge" THEN "quarantined" ELSE "complete"
  /\ pc[p] = "rec-trash" => payload[job[p].op].sealed
  /\ entry' = [entry EXCEPT ![EntryOf(p)].state = "torn"]
  /\ Goto(p, IF pc[p] = "rec-trash" THEN "rec-rmdir" ELSE pc[p])
  /\ UNCHANGED <<data, disk, tmp, job, ops, faults, crashes>>

TrashStep(p) ==
  \/ WriteTrashPayload(p) \/ MakeTmp(p) \/ BuildBundle(p) \/ CommitTrashEntry(p)
  \/ MarkTrashEntry(p) \/ DropTrash(p) \/ TearEntry(p)
=============================================================================
