---------------------------- MODULE RolloutSource ----------------------------
(***************************************************************************)
(* The rollout file of one session as the canonical event readers see it   *)
(* (src/src/core/session-events.ts), and Codex, which appends to the file  *)
(* or replaces it while they read.                                         *)
(*                                                                         *)
(* A line is what it parses to and the length of its serialized event.     *)
(* The identity and sampled content of a file (device, inode, mode, links, *)
(* size, both times) are one version number: whatever Codex writes changes *)
(* it.                                                                     *)
(***************************************************************************)
EXTENDS Naturals, Sequences, FiniteSets

CONSTANTS
  Line,        \* the lines there may be
  Contents,    \* the sequences of lines a rollout may hold
  MaxVersion   \* bound: writes by Codex

ASSUME LineAssumption ==
  Line \subseteq [kind : {"event", "reasoning", "blank", "torn"}, size : Nat]
ASSUME ContentsAssumption ==
  /\ Contents \subseteq Seq(Line)
  /\ \A c \in Contents : \A i \in 1 .. Len(c) : c[i].kind = "torn" => i = Len(c)
ASSUME VersionAssumption == MaxVersion \in Nat

VARIABLES
  version,   \* identity of the rollout that is at the path now
  past       \* what each version held; past[version] is on disk

source == <<version, past>>

Now == past[version]

SourceInit == version = 0 /\ past \in {[v \in 0 .. MaxVersion |-> c] : c \in Contents}

(* Any change of the file: lines appended, an unfinished line completed,   *)
(* the file truncated or replaced by another one.                          *)
CodexWrites ==
  /\ version < MaxVersion
  /\ version' = version + 1
  /\ \E c \in Contents : past' = [past EXCEPT ![version + 1] = c]

(* Reading line i through a handle opened on version v.  Once the file     *)
(* changes, the bytes at an offset may be anything, or already missing.    *)
LinesAt(v, i) == IF v = version THEN {past[v][i]} ELSE Line
MayEnd(v)     == v # version

(* A line that is not valid JSON, as one that is being written, becomes a  *)
(* parse_error event; reasoning and blank lines become none.               *)
IsEvent(line)  == line.kind \in {"event", "torn"}
IsRecord(line) == line.kind # "blank"

(* The record ordinal of line i in a full reading of c.                    *)
RecordsUpTo(c, i) == {j \in 1 .. i : IsRecord(c[j])}
Ordinal(c, i) == Cardinality(RecordsUpTo(c, i))
=============================================================================
