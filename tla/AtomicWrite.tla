----------------------------- MODULE AtomicWrite -----------------------------
(***************************************************************************)
(* One replacement of one managed file, system call by system call         *)
(* (atomicWriteManagedFileInternal of src/src/core/mutation-safety.ts on   *)
(* the walks and reads of path-safety.ts).  An operation reads the file,   *)
(* computes a new text from it and, later, replaces the file if it still   *)
(* holds what was read; Codex writes, replaces, removes and creates the    *)
(* file at any time, the process may be killed and the machine may lose    *)
(* power.  SessionMutations takes all of this as one step; here is what    *)
(* that step rests on, and the window the code leaves open.                *)
(*                                                                         *)
(* A file is its inode number, its text, and a stamp for size and times,   *)
(* which is another after every write.  Modes, links and the directories   *)
(* above stay as they are.                                                 *)
(***************************************************************************)
EXTENDS Naturals

CONSTANTS
  Inodes,          \* inode numbers, positive
  MaxFileWrites    \* bound: writes by Codex

ASSUME InodeAssumption == Inodes \subseteq Nat \ {0} /\ MaxFileWrites \in Nat

VARIABLES
  file,        \* the managed file
  write,       \* the read and the replacement of it
  texts,       \* history: the texts the file had since the read began
  late,        \* history: Codex wrote where no check sees it any more
  fileWrites

writeVars == <<file, write, texts, late, fileWrites>>

NoText      == [by |-> "nobody", n |-> 0, whole |-> TRUE]
ToolText    == [by |-> "tool", n |-> 0, whole |-> TRUE]
Codex(n)    == [by |-> "codex", n |-> n, whole |-> TRUE]
InPieces(t) == [t EXCEPT !.whole = FALSE]
NoFile      == [inode |-> 0, text |-> NoText, stamp |-> 0]
NoWrite     == [at |-> "idle", checks |-> TRUE, walked |-> NoFile, seen |-> NoText,
                target |-> 0, temp |-> "none", synced |-> FALSE, old |-> NoFile]
WriteInit   == file = NoFile /\ write = NoWrite /\ texts = {} /\ late = FALSE /\ fileWrites = 0

At(step)   == write' = [write EXCEPT !.at = step]
OnlyMoves  == UNCHANGED <<file, texts, late, fileWrites>>

-----------------------------------------------------------------------------
(* readManagedFileWithMetadata, once for the operation and once for the    *)
(* comparison: walk the path, lstat, read, lstat again, walk again.  The   *)
(* read begins with the first lstat and ends with the second one.          *)
StartReading ==
  /\ write.at = "idle"
  /\ \E i \in Inodes \cup {0}, checks \in BOOLEAN :
       /\ file' = IF i = 0 THEN NoFile ELSE [inode |-> i, text |-> Codex(0), stamp |-> 0]
       /\ write' = [NoWrite EXCEPT !.at = "reading", !.checks = checks, !.walked = file']
       /\ texts' = {file'.text}
  /\ UNCHANGED <<late, fileWrites>>

(* The second lstat, by path, finds the file of the first one; that there  *)
(* is no file is not asked twice.                                          *)
ReadStable ==
  \/ write.walked = NoFile
  \/ file.inode = write.walked.inode /\ file.stamp = write.walked.stamp
(* What a read returns that Codex wrote into: the one text, the other, or  *)
(* pieces of both.  A file that was replaced is read to its end.           *)
Readable(walked) ==
  IF file.inode = walked.inode /\ file.stamp # walked.stamp
  THEN {walked.text, file.text, InPieces(file.text)} ELSE {walked.text}

FinishReading ==
  /\ write.at = "reading"
  /\ \E got \in Readable(write.walked) :
       write' = IF ReadStable
                THEN [write EXCEPT !.at = "read", !.seen = got] ELSE [write EXCEPT !.at = "stale"]
  /\ OnlyMoves

-----------------------------------------------------------------------------
(* The replacement: its target is captured, a private file beside it is    *)
(* filled and synced.                                                      *)
CaptureTarget ==
  /\ write.at = "read"
  /\ write' = [write EXCEPT !.at = "target", !.target = file.inode]
  /\ OnlyMoves
FillTemp ==
  /\ write.at = "target"
  /\ write' = [write EXCEPT !.at = "filled", !.temp = "there"]
  /\ OnlyMoves
(* Mutant: the private file is not synced before it becomes the target.    *)
NotSynced == FALSE
Synced == TRUE
SyncTemp ==
  /\ write.at = "filled"
  /\ write' = [write EXCEPT !.at = "synced", !.synced = Synced]
  /\ OnlyMoves

(* With expected contents the file is read once more, and compared.        *)
StartComparing ==
  /\ write.at = "synced" /\ write.checks
  /\ write' = [write EXCEPT !.at = "comparing", !.walked = file]
  /\ late' = FALSE
  /\ UNCHANGED <<file, texts, fileWrites>>
FinishComparing ==
  /\ write.at = "comparing"
  /\ \E got \in Readable(write.walked) :
       At(IF ReadStable /\ got = write.seen THEN "compared" ELSE "failing")
  /\ OnlyMoves

(* Mutant: the target is not walked again.                                 *)
AnyTarget == TRUE
SameTarget == file.inode = write.target
(* revalidateManagedPath: the same inode, or still none.                   *)
CheckTarget ==
  /\ write.at = "compared" \/ (write.at = "synced" /\ ~write.checks)
  /\ At(IF SameTarget THEN "checked" ELSE "failing")
  /\ OnlyMoves

Replace ==
  /\ write.at = "checked"
  /\ \E i \in Inodes \ {file.inode} :
       file' = [inode |-> i, text |-> ToolText, stamp |-> 0]
  /\ write' = [write EXCEPT !.at = "replaced", !.temp = "target", !.old = file]
  /\ UNCHANGED <<texts, late, fileWrites>>

(* The replaced path is walked, which fails if the file is gone again, and *)
(* its directory is synced.                                                *)
VerifyReplaced ==
  /\ write.at = "replaced"
  /\ At(IF file = NoFile THEN "failing" ELSE "verified")
  /\ OnlyMoves
SyncDirectory ==
  /\ write.at = "verified"
  /\ At("done")
  /\ OnlyMoves

(* Any of these calls may throw; the private file is removed, if it has    *)
(* not become the target, and the caller gets the error; that removing it  *)
(* fails is not reported.                                                  *)
AfterStart == {"target", "filled", "synced", "comparing", "compared", "checked", "replaced",
               "verified"}
WriteThrows ==
  /\ write.at \in AfterStart
  /\ At("failing")
  /\ OnlyMoves
DropTemp ==
  /\ write.at = "failing"
  /\ \E left \in {"none", "there"} :
       write' = [write EXCEPT !.at = "failed",
                              !.temp = IF write.temp = "there" THEN left ELSE write.temp]
  /\ OnlyMoves

-----------------------------------------------------------------------------
(* Codex.  Nothing sees a write into the file, or a new file that got the  *)
(* number of the old one, once it has been compared (or found gone), and   *)
(* nothing at all once the target was walked for the last time.            *)
Compared == write.at = "compared" \/ (write.at = "comparing" /\ write.walked = NoFile)
Unseen(inode) == write.at = "checked" \/ (Compared /\ inode = write.target)
CodexWritesFile(next) ==
  /\ write.at \notin {"idle", "stale", "failed", "killed", "off"}
  /\ fileWrites < MaxFileWrites /\ fileWrites' = fileWrites + 1
  /\ file' = next
  /\ texts' = IF write.at = "reading" THEN texts \cup {next.text} ELSE texts
  /\ late' = (late \/ Unseen(next.inode))
  /\ UNCHANGED write
Fresh(inode) == [inode |-> inode, text |-> Codex(fileWrites + 1), stamp |-> fileWrites + 1]
CodexWritesInPlace == file # NoFile /\ CodexWritesFile(Fresh(file.inode))
CodexReplaces      == file # NoFile /\ \E i \in Inodes \ {file.inode} : CodexWritesFile(Fresh(i))
CodexRemoves       == file # NoFile /\ CodexWritesFile(NoFile)
CodexCreates       == file = NoFile /\ \E i \in Inodes : CodexWritesFile(Fresh(i))

(* A kill leaves everything as it is.                                      *)
Killed ==
  /\ write.at \in AfterStart
  /\ At("killed")
  /\ OnlyMoves

(* A power failure: a rename whose directory was not synced may be undone, *)
(* and a file that was not synced may have lost part of its text.          *)
AfterPowerLoss ==
  {IF file.text = ToolText /\ ~write.synced
   THEN [file EXCEPT !.text = InPieces(ToolText)] ELSE file}
  \cup (IF write.temp = "target" /\ write.at # "done" THEN {write.old} ELSE {})
PowerFails ==
  /\ write.at \in AfterStart \cup {"done", "failing", "failed", "killed"}
  /\ file' \in AfterPowerLoss
  /\ At("off")
  /\ UNCHANGED <<texts, late, fileWrites>>

WriteNext ==
  \/ StartReading \/ FinishReading
  \/ CaptureTarget \/ FillTemp \/ SyncTemp \/ StartComparing \/ FinishComparing \/ CheckTarget
  \/ Replace \/ VerifyReplaced \/ SyncDirectory \/ WriteThrows \/ DropTemp
  \/ CodexWritesInPlace \/ CodexReplaces \/ CodexRemoves \/ CodexCreates
  \/ Killed \/ PowerFails
WriteSpec == WriteInit /\ [][WriteNext]_writeVars

-----------------------------------------------------------------------------
(* The type of every variable.                                             *)
Texts == [by : {"nobody", "tool", "codex"}, n : 0 .. MaxFileWrites, whole : BOOLEAN]
Files == [inode : Inodes \cup {0}, text : Texts, stamp : 0 .. MaxFileWrites]
WriteTypeOK ==
  /\ file \in Files /\ texts \subseteq Texts /\ late \in BOOLEAN
  /\ fileWrites \in 0 .. MaxFileWrites
  /\ write \in [at : AfterStart \cup {"idle", "reading", "read", "stale", "done", "failing",
                                       "failed", "killed", "off"},
                checks : BOOLEAN, walked : Files, seen : Texts, target : Inodes \cup {0},
                temp : {"none", "there", "target"}, synced : BOOLEAN, old : Files]

(* A checked replacement takes the place of a text that the file had as a  *)
(* whole when the operation read it, and that it still has, also if Codex  *)
(* writes, replaces, removes or creates the file at any time before; only  *)
(* a write that meets none of the remaining checks is lost: into the file  *)
(* once it has been compared, or any after the last walk                   *)
(* (mutation-safety.ts:385-408, path-safety.ts:433-511; docs/SAFETY.md:29  *)
(* says that races are narrowed).                                          *)
Replaces == write.at = "checked" /\ write'.at = "replaced"
ReplacesWhatItRead ==
  [][Replaces /\ write.checks =>
       write.seen \in texts /\ (file.text = write.seen \/ late)]_writeVars

(* Whenever the power fails, the path holds a whole text afterwards: the   *)
(* one it held, or, as long as the caller was not told that the write is   *)
(* done, the one before (mutation-safety.ts:379-381, 408-413).             *)
SurvivesPowerLoss ==
  [][write.at # "off" /\ write'.at = "off" =>
       /\ file'.text.whole
       /\ file' = file \/ (file' = write.old /\ write.at # "done")]_writeVars
=============================================================================
