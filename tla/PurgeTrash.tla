------------------------------ MODULE PurgeTrash ------------------------------
(***************************************************************************)
(* purgeTrashEntry (src/src/core/trash.ts) under its lock: fix the log     *)
(* rows to delete, check again that nothing needs them, delete them, move  *)
(* the entry out of the trash and remove it.  Once the commit has started  *)
(* an error is left to recovery, which rolls forward.                      *)
(***************************************************************************)
EXTENDS TrashEntries

WritePurgePayload(p) ==
  /\ pc[p] = "purge-payload"
  /\ \E o \in Outcome("payload") :
       /\ payload' =
            IF Effect(o)
            THEN [payload EXCEPT ![job[p].op] =
                    [kind |-> job[p].kind, covers |-> job[p].todo, before |-> Blank,
                     moves |-> job[p].bundle, from |-> job[p].from, sealed |-> TRUE]]
            ELSE payload
       /\ Count(o)
       /\ IF Throws(o) THEN Refuse(p) ELSE Goto(p, "purge-recheck") /\ job' = job
  /\ UNCHANGED <<data, lock, journal, bin, ops, crashes>>

(* A fresh scan and a fresh list of the trash: the sessions whose logs are *)
(* to go did not become live or gain another entry.                        *)
StillPurgeable(p) == job[p].todo = {} \/ LogsArePurged(live, job[p].from)

RecheckPurge(p) ==
  /\ pc[p] = "purge-recheck"
  /\ IF StillPurgeable(p) THEN Goto(p, "purge-commit") /\ job' = job ELSE Refuse(p)
  /\ UNCHANGED <<data, disk, bin, ops, faults, crashes>>

PurgeFails(p) == ReleaseAs(p, "recovery_required", "ignore")

(* The checkpoints before, between and after the three changes; two of     *)
(* them meet where one change ends and the next begins.                    *)
PurgeMarks(p) ==
  job[p].marks \cup (CASE pc[p] = "purge-start"  -> {<<"logs", "started">>}
                       [] pc[p] = "purge-logged" -> {<<"logs", "committed">>}
                       [] OTHER                  -> {})
CheckpointPurge(p) ==
  /\ pc[p] \in {"purge-start", "purge-logged", "purge-quarantined", "purge-removed"}
  /\ \E o \in Outcome("journal") :
       /\ WriteJournal(p, "committing", PurgeMarks(p), o)
       /\ Count(o)
       /\ IF Throws(o) THEN ReleaseMarked(p, PurgeMarks(p), "recovery_required", "ignore")
          ELSE /\ Goto(p, CASE pc[p] = "purge-start"       -> "purge-logs"
                            [] pc[p] = "purge-logged"      -> "purge-quarantine"
                            [] pc[p] = "purge-quarantined" -> "purge-remove"
                            [] OTHER                       -> "purge-verify")
               /\ job' = [job EXCEPT ![p].marks = PurgeMarks(p)]
  /\ UNCHANGED <<data, lock, payload, bin, ops, crashes>>

(* deleteDedicatedLogRows: the rows must still be the ones fixed before.   *)
PurgeLogs(p) ==
  LET s == "logs" IN
  /\ pc[p] = "purge-logs"
  /\ IF s \in job[p].todo /\ live[s].own # job[p].bundle[s]
     THEN PurgeFails(p) /\ UNCHANGED <<live, faults>>
     ELSE \E o \in FaultsAt("surface", s) :
            /\ live' = IF Effect(o) /\ s \in job[p].todo
                       THEN [live EXCEPT ![s].own = {}] ELSE live
            /\ Count(o)
            /\ IF Throws(o) THEN PurgeFails(p) ELSE Goto(p, "purge-logged") /\ job' = job
  /\ UNCHANGED <<wrote, clock, disk, bin, ops, crashes>>

(* The rename to .operations/<op>.purge.                                   *)
QuarantineEntry(p) ==
  /\ pc[p] = "purge-quarantine"
  /\ \E o \in IF EntryIsCurrent(p) THEN Outcome("trash") ELSE {"before"} :
       /\ entry' = IF Effect(o) THEN [entry EXCEPT ![job[p].from].state = "quarantined"] ELSE entry
       /\ faults' = IF Throws(o) /\ EntryIsCurrent(p) THEN faults + 1 ELSE faults
       /\ IF Throws(o) THEN PurgeFails(p) ELSE Goto(p, "purge-quarantined") /\ job' = job
  /\ UNCHANGED <<data, disk, tmp, ops, crashes>>

RemoveQuarantine(p) ==
  /\ pc[p] = "purge-remove"
  /\ \E o \in Outcome("trash") \cap {"ok", "before"} :
       /\ entry' = IF Effect(o) THEN [entry EXCEPT ![job[p].from] = NoEntry] ELSE entry
       /\ Count(o)
       /\ IF Throws(o) THEN PurgeFails(p) ELSE Goto(p, "purge-removed") /\ job' = job
  /\ UNCHANGED <<data, disk, tmp, ops, crashes>>

(* setStage("verifying"), a verification that reads only, and the release. *)
VerifyPurge(p) ==
  /\ pc[p] = "purge-verify"
  /\ \E o \in Outcome("journal") :
       /\ WriteJournal(p, "verifying", job[p].marks, o)
       /\ Count(o)
       /\ ReleaseAs(p, "committed", IF Throws(o) THEN "require" ELSE "insist")
  /\ UNCHANGED <<data, lock, payload, bin, ops, crashes>>

PurgeStep(p) ==
  \/ WritePurgePayload(p) \/ RecheckPurge(p) \/ CheckpointPurge(p) \/ PurgeLogs(p)
  \/ QuarantineEntry(p) \/ RemoveQuarantine(p) \/ VerifyPurge(p)
=============================================================================
