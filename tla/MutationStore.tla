---------------------------- MODULE MutationStore ----------------------------
(***************************************************************************)
(* The durable state a mutation of a Codex root works on, and the          *)
(* operation lock, journal and recovery payload that every mutation goes   *)
(* through (src/src/core/mutation-safety.ts).                              *)
(*                                                                         *)
(* The selection of sessions a user confirmed is one selection: a surface  *)
(* is abstracted to the selection's own records in it and a version of     *)
(* everything else the surface holds.  A record is the tick of the         *)
(* external clock at which Codex wrote it, 0 for those there from the      *)
(* start.                                                                  *)
(***************************************************************************)
EXTENDS Naturals, FiniteSets

CONSTANTS
  Procs,               \* processes of this tool (CLI runs, MCP servers)
  SessionFiles,        \* rollout files of the selection
  ShellSnapshots,      \* shell snapshot files of the selection
  Kinds,               \* the operations users may start
  InitialEntries,      \* bound: trash entries the selection may start in
  MaxOps,              \* bound: operations that acquire the lock
  MaxWrites,           \* bound: writes by Codex itself
  MaxFaults,           \* bound: system calls that fail
  MaxCrashes,          \* bound: processes killed
  EarlyFaults,         \* where system calls may fail without any effect
  LateFaults,          \* where they may take effect and then fail
  ExternalSurfaces,    \* the surfaces Codex writes while operations run
  SupervisedRecovery,  \* recovery is started only once the owner is gone
  TornRemoval          \* a recursive removal may be seen half done

Lists     == {"session-index", "history", "global-state"}
Indexes   == {"session-index", "history"}
Databases == {"sqlite-goals", "sqlite-state", "logs"}
Files     == SessionFiles \cup ShellSnapshots
Surfaces  == Lists \cup Databases \cup Files

AllKinds  == {"delete", "trash", "cleanup-index", "restore", "purge"}
AllPoints == {"lock", "journal", "payload", "surface", "undo", "trash",
              "release", "recover"}
FaultPoints == EarlyFaults \cup LateFaults

ASSUME BoundsAssumption ==
  /\ InitialEntries \in 0 .. MaxOps
  /\ MaxOps \in Nat /\ MaxWrites \in Nat /\ MaxFaults \in Nat /\ MaxCrashes \in Nat
ASSUME FilesAssumption ==
  /\ SessionFiles \cap ShellSnapshots = {}
  /\ Files \cap (Lists \cup Databases) = {}
ASSUME SwitchesAssumption ==
  /\ Kinds \subseteq AllKinds
  /\ FaultPoints \subseteq AllPoints
  /\ ExternalSurfaces \subseteq Surfaces
  /\ SupervisedRecovery \in BOOLEAN
  /\ TornRemoval \in BOOLEAN

VARIABLES
  live,     \* the surfaces as they are on disk
  wrote,    \* history: all records and the last foreign version Codex wrote
  lock,     \* .codex-sessions-trash/.operation.lock; op 0 means no such file
  journal,  \* .operations/<op>.json of each operation
  payload,  \* .operations/<op>.recovery.json of each operation
  entry,    \* the trash entry of each operation
  tmp,      \* the temporary trash directory of each operation
  pc,       \* where each process is
  job,      \* what each process holds in memory
  ops, clock, faults, crashes

data   == <<live, wrote, clock>>
disk   == <<lock, journal, payload>>
bin    == <<entry, tmp>>
vars   == <<live, wrote, lock, journal, payload, entry, tmp, pc, job,
            ops, clock, faults, crashes>>

OpIds   == 1 .. MaxOps
Records == 0 .. MaxWrites
Value   == [own : SUBSET Records, ext : Records]
Stages  == {"none", "prepared", "committing", "verifying", "committed",
            "rolled_back", "recovery_required"}
Final   == {"committed", "rolled_back"}
Marks   == Surfaces \X {"started", "committed"}

NoLock    == [op |-> 0, written |-> FALSE]
NoJournal == [stage |-> "none", marks |-> {}]
Blank     == [s \in Surfaces |-> [own |-> {}, ext |-> 0]]
NoRecords == [s \in Surfaces |-> {}]
NoPayload == [kind |-> "none", covers |-> {}, before |-> Blank, moves |-> NoRecords,
              from |-> 0, sealed |-> FALSE]
NoEntry   == [state |-> "absent", bundle |-> NoRecords]
NoRelease == [stage |-> "none", next |-> "none"]
NoJob     == [kind |-> "none", op |-> 0, from |-> 0, seen |-> Blank, snap |-> Blank,
              bundle |-> NoRecords, todo |-> {}, done |-> {}, cur |-> {},
              marks |-> {}, post |-> Blank, rel |-> NoRelease]

(* What is left of a surface once the selection is removed from it: a      *)
(* rewritten list keeps everything else, a file or the rows are gone.      *)
Removed(s, v) == IF s \in Lists THEN [v EXCEPT !.own = {}] ELSE [own |-> {}, ext |-> 0]

(* Surfaces an operation removes the selection from.  Moving to the trash  *)
(* retains the dedicated logs.                                             *)
Targets(kind) == CASE kind = "delete"        -> Surfaces
                   [] kind = "trash"         -> Surfaces \ {"logs"}
                   [] kind = "cleanup-index" -> Indexes
                   [] OTHER                  -> {}
Strategy(kind) == IF kind \in {"delete", "trash"} THEN "rollback" ELSE "rollforward"

(* What the payload of an operation calls the state after it: a restore    *)
(* adds the records it moves out of the trash.                             *)
After(kind, s, before, moves) ==
  IF kind = "restore" THEN [before EXCEPT !.own = before.own \cup moves] ELSE Removed(s, before)

-----------------------------------------------------------------------------
(* Failing system calls.  "ok" succeeds; "before" throws and leaves the    *)
(* disk as it was; "after" throws although the effect is on disk (a        *)
(* directory sync or a check after a rename that fails).                   *)
Outcome(point) ==
  {"ok"} \cup IF faults = MaxFaults THEN {}
              ELSE {o \in {"before", "after"} :
                      point \in IF o = "before" THEN EarlyFaults ELSE LateFaults}
Effect(o) == o # "before"
Throws(o) == o # "ok"
Count(o)  == faults' = IF Throws(o) THEN faults + 1 ELSE faults

First(S, Rank) == {s \in S : \A t \in S : Rank[s] <= Rank[t]}

Active(p)  == pc[p] # "idle"
Stop(p)    == /\ pc'  = [pc EXCEPT ![p] = "idle"]
              /\ job' = [job EXCEPT ![p] = NoJob]
Goto(p, l) == pc' = [pc EXCEPT ![p] = l]

(* setStage and checkpoint rewrite the whole journal from memory.          *)
WriteJournal(p, stage, marks, o) ==
  journal' = IF Effect(o)
             THEN [journal EXCEPT ![job[p].op] = [stage |-> stage, marks |-> marks]]
             ELSE journal

(* lock.release(stage): `next` is what the caller's catch does if it       *)
(* throws.                                                                 *)
ReleaseAs(p, stage, next) ==
  /\ Goto(p, "rel-stage")
  /\ job' = [job EXCEPT ![p].rel = [stage |-> stage, next |-> next]]

(* The same after a checkpoint that threw: it is in the journal in memory. *)
ReleaseMarked(p, marks, stage, next) ==
  /\ Goto(p, "rel-stage")
  /\ job' = [job EXCEPT ![p] = [job[p] EXCEPT !.marks = marks,
                                             !.rel = [stage |-> stage, next |-> next]]]
=============================================================================
