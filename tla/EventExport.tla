----------------------------- MODULE EventExport -----------------------------
(***************************************************************************)
(* writeCanonicalSessionEventsFile (src/src/core/session-events.ts):       *)
(* command line runs that stream all events of a rollout into an output    *)
(* file, the same path for each of them, while Codex writes the rollout.   *)
(* The file is created exclusively, filled while the rollout is read, and  *)
(* removed again if anything fails; a run that dies removes nothing.       *)
(***************************************************************************)
EXTENDS RolloutSource

CONSTANTS
  Exporters,   \* command line runs
  MaxDeaths    \* bound: runs that die

VARIABLES
  output,   \* the file at the output path: whose it is and what it holds
  run,      \* where each run is
  deaths

export == <<output, run, deaths>>

NoOne    == "no one"
ASSUME ExportAssumption == MaxDeaths \in Nat /\ NoOne \notin Exporters
NoOutput == [of |-> NoOne, holds |-> {}]
NoRun    == [state |-> "idle", version |-> 0, size |-> 0, pos |-> 0, ord |-> 0]

ExportInit ==
  output = NoOutput /\ run = [e \in Exporters |-> NoRun] /\ deaths = 0

Becomes(e, how) == run' = [run EXCEPT ![e].state = how]

(* createWriteStream with flags "wx": whoever finds a file there fails.    *)
CreateOutput(e) ==
  /\ run[e].state = "idle"
  /\ IF output = NoOutput
     THEN output' = [of |-> e, holds |-> {}] /\ Becomes(e, "created")
     ELSE UNCHANGED output /\ Becomes(e, "refused")
  /\ UNCHANGED <<source, deaths>>

(* openVerifiedSource, with the first event that is asked for.             *)
OpenRollout(e) ==
  /\ run[e].state = "created"
  /\ run' = [run EXCEPT ![e] = [NoRun EXCEPT !.state = "streaming", !.version = version,
                                             !.size = Len(Now)]]
  /\ UNCHANGED <<source, output, deaths>>

(* A line is read, and its event written, if it makes one.                 *)
StreamLine(e) ==
  LET at == run[e].pos + 1 IN
  /\ run[e].state = "streaming"
  /\ run[e].pos < run[e].size
  /\ \E line \in LinesAt(run[e].version, at) :
       LET ord == run[e].ord + IF IsRecord(line) THEN 1 ELSE 0 IN
       /\ run' = [run EXCEPT ![e].pos = at, ![e].ord = ord]
       /\ output' = IF IsEvent(line)
                    THEN [output EXCEPT !.holds = output.holds \cup {[at |-> at, ord |-> ord]}]
                    ELSE output
  /\ UNCHANGED <<source, deaths>>

(* Mutant: the rollout is not verified again once it has been read.        *)
NotVerified(e) == run[e].pos = run[e].size
(* verifyOpenSourceUnchanged ends the stream of events.                    *)
Verified(e) == run[e].pos = run[e].size /\ run[e].version = version
Finish(e) ==
  /\ run[e].state = "streaming"
  /\ Verified(e)
  /\ Becomes(e, "written")
  /\ UNCHANGED <<source, output, deaths>>

(* The rollout changed, ended early or could not be opened, or a write     *)
(* failed while it was waited for: the file this run created is removed.   *)
FailExport(e) ==
  /\ run[e].state \in {"created", "streaming"}
  /\ output' = NoOutput
  /\ Becomes(e, "failed")
  /\ UNCHANGED <<source, deaths>>

(* The run is killed, or its stream reports an error while no one waits    *)
(* for it, which ends the process.                                         *)
DieExport(e) ==
  /\ run[e].state \in {"created", "streaming"}
  /\ deaths < MaxDeaths /\ deaths' = deaths + 1
  /\ Becomes(e, "dead")
  /\ UNCHANGED <<source, output>>

(* What a dead run left blocks every later one until someone removes it.   *)
RemoveLeftover ==
  /\ output.of \in Exporters /\ run[output.of].state = "dead"
  /\ output' = NoOutput
  /\ UNCHANGED <<source, run, deaths>>

ExportStep ==
  \/ \E e \in Exporters : CreateOutput(e) \/ OpenRollout(e) \/ StreamLine(e) \/ Finish(e)
                          \/ FailExport(e) \/ DieExport(e)
  \/ RemoveLeftover
ExportNext == ExportStep \/ (CodexWrites /\ UNCHANGED export)
ExportSpec == SourceInit /\ ExportInit /\ [][ExportNext]_<<source, export>>

-----------------------------------------------------------------------------
(* The type of every variable.                                             *)
ExportTypeOK ==
  /\ output \in [of : Exporters \cup {NoOne}, holds : SUBSET [at : Nat, ord : Nat]]
  /\ run \in [Exporters -> [state : {"idle", "created", "refused", "streaming", "written",
                                     "failed", "dead"},
                            version : 0 .. MaxVersion, size : Nat, pos : Nat, ord : Nat]]
  /\ deaths \in 0 .. MaxDeaths

(* The events of the first n lines of c.                                   *)
EventsUpTo(c, n) == {[at |-> i, ord |-> Ordinal(c, i)] : i \in {j \in 1 .. n : IsEvent(c[j])}}
EventsOf(c) == EventsUpTo(c, Len(c))

(* A run that reports success has written every event of one version of    *)
(* the rollout, with its ordinal, and no other run has touched the file; a *)
(* run that reports a failure has left none of its own and removed none of *)
(* another's (session-events.ts:1061-1093).                                *)
ExportIsWhole ==
  \A e \in Exporters :
    /\ run[e].state = "written" => output = [of |-> e, holds |-> EventsOf(past[run[e].version])]
    /\ run[e].state \in {"created", "streaming"} => output.of = e
    /\ run[e].state \in {"failed", "refused"} => output.of # e
=============================================================================
