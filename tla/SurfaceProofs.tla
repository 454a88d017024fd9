---------------------------- MODULE SurfaceProofs ----------------------------
(***************************************************************************)
(* Proofs about what works on one surface, or on what a scan has read: the *)
(* files the tool replaces (AtomicWrite, GlobalStateRefs), the rows of the *)
(* databases (SessionRows), what a deletion selects (SpawnFamily,          *)
(* DeletePlans), and the types of these and of EventExport.  MCSurfaces    *)
(* lets them take their turns; its instances play no part here.            *)
(***************************************************************************)
EXTENDS MCSurfaces, FiniteSetTheorems, WellFoundedInduction, TLAPS

(***************************************************************************)
(* Proofs about AtomicWrite, for any set of inode numbers and any number   *)
(* of writes by Codex: a checked replacement loses nothing but what meets  *)
(* no check, and a power failure leaves a whole text.                      *)
(***************************************************************************)

(* Inode number and stamp tell the texts of the file apart.                *)
StampsGrow ==
  /\ fileWrites \in Nat
  /\ write.at # "off" =>
       file.stamp \in Nat /\ file.stamp <= fileWrites /\ (file = NoFile \/ file.inode \in Inodes)
  /\ write.at \in {"reading", "comparing"} =>
       /\ write.walked = NoFile \/ write.walked.inode \in Inodes
       /\ write.walked.stamp \in Nat /\ write.walked.stamp <= fileWrites
       /\ (file.inode = write.walked.inode /\ file.stamp = write.walked.stamp) =>
            file.text = write.walked.text

(* What the operation has read, it has read as a whole.                    *)
BeforeReading == {"idle", "reading", "stale"}
SeenIsWhole ==
  /\ write.at = "reading" => write.walked.text \in texts
  /\ write.at \notin BeforeReading => write.seen \in texts

(* What the comparison has found is still so, unless the next walk finds   *)
(* another inode or Codex has written too late to be found out.            *)
StillSeen ==
  write.checks =>
    /\ (write.at = "comparing" /\ write.walked = NoFile) =>
         late \/ file = NoFile \/ file.inode # write.target
    /\ write.at = "compared" => late \/ file.text = write.seen \/ file.inode # write.target
    /\ write.at = "checked"  => late \/ file.text = write.seen

ReadInv == StampsGrow /\ SeenIsWhole /\ StillSeen

(* What a stable read returns is the text of the file, at its beginning    *)
(* and, if there was a file, at its end.                                   *)
LEMMA StableRead ==
  ASSUME ReadStable, StampsGrow, write.at \in {"reading", "comparing"},
         NEW got \in Readable(write.walked)
  PROVE  got = write.walked.text /\ (got = file.text \/ write.walked = NoFile)
<1>1. CASE write.walked = NoFile
  <2>1. write.walked.inode = 0 /\ write.walked.stamp = 0
    BY <1>1 DEF NoFile
  <2>2. file.inode = 0 => file.stamp = 0
    BY InodeAssumption DEF StampsGrow, NoFile
  <2> QED BY <1>1, <2>1, <2>2 DEF Readable
<1>2. CASE write.walked # NoFile
  BY <1>2 DEF ReadStable, Readable, StampsGrow
<1> QED BY <1>1, <1>2

(* The invariant holds when the file is read for the first time.           *)
LEMMA ReadInvInit == WriteInit => ReadInv
  BY DEF WriteInit, ReadInv, StampsGrow, SeenIsWhole, StillSeen, NoFile, NoWrite, BeforeReading

(* A write by Codex keeps the invariant.                                   *)
LEMMA CodexKeepsReadInv ==
  ASSUME ReadInv, NEW next, CodexWritesFile(next),
         next = NoFile \/ \E i \in Inodes : next = Fresh(i)
  PROVE  ReadInv'
<1> USE InodeAssumption
<1>1. \/ next = NoFile /\ next.stamp = 0
      \/ next.inode \in Inodes /\ next.stamp = fileWrites + 1
  BY DEF Fresh, NoFile
<1>2. write' = write /\ file' = next /\ fileWrites' = fileWrites + 1 /\ write.at # "off"
  BY DEF CodexWritesFile
<1>3. StampsGrow'
  BY <1>1, <1>2 DEF ReadInv, StampsGrow, NoFile
<1>4. SeenIsWhole'
  BY <1>2 DEF ReadInv, SeenIsWhole, CodexWritesFile, BeforeReading
<1>5. StillSeen'
  BY <1>2 DEF ReadInv, StillSeen, CodexWritesFile, Unseen, Compared
<1> QED BY <1>3, <1>4, <1>5 DEF ReadInv

(* The places the invariant says something new of.                         *)
Claims == {"reading", "comparing", "compared", "checked"}

(* A step that only moves on, to where nothing new is claimed, keeps it.   *)
LEMMA MovingKeepsReadInv ==
  ASSUME ReadInv, OnlyMoves, write.at \notin BeforeReading \cup {"off"},
         write'.at \notin Claims \cup {"idle", "stale"}, write'.seen = write.seen
  PROVE  ReadInv'
  BY DEF ReadInv, StampsGrow, SeenIsWhole, StillSeen, OnlyMoves, BeforeReading, Claims

(* Every step keeps it.                                                    *)
LEMMA ReadInvStep == ReadInv /\ [WriteNext]_writeVars => ReadInv'
<1> SUFFICES ASSUME ReadInv, [WriteNext]_writeVars
             PROVE  ReadInv'
  OBVIOUS
<1> USE InodeAssumption
<1>1. CASE StartReading
  <2>1. PICK i \in Inodes \cup {0}, checks \in BOOLEAN :
          /\ file' = IF i = 0 THEN NoFile ELSE [inode |-> i, text |-> Codex(0), stamp |-> 0]
          /\ write' = [NoWrite EXCEPT !.at = "reading", !.checks = checks, !.walked = file']
          /\ texts' = {file'.text}
    BY <1>1 DEF StartReading
  <2>2. write'.at = "reading" /\ write'.walked = file'
    BY <2>1 DEF NoWrite
  <2>3. file'.stamp = 0 /\ (file' = NoFile \/ file'.inode \in Inodes) /\ fileWrites' = fileWrites
    BY <2>1, <1>1 DEF NoFile, StartReading
  <2>4. fileWrites \in Nat
    BY DEF ReadInv, StampsGrow
  <2> QED BY <2>1, <2>2, <2>3, <2>4
          DEF ReadInv, StampsGrow, SeenIsWhole, StillSeen, BeforeReading
<1>2. CASE FinishReading
  <2>1. PICK got \in Readable(write.walked) :
          write' = IF ReadStable
                   THEN [write EXCEPT !.at = "read", !.seen = got] ELSE [write EXCEPT !.at = "stale"]
    BY <1>2 DEF FinishReading
  <2>2. ReadStable => got \in texts
    BY <1>2, StableRead DEF FinishReading, ReadInv, SeenIsWhole
  <2>3. write'.at = IF ReadStable THEN "read" ELSE "stale"
    BY <2>1
  <2>4. ReadStable => write'.seen = got
    BY <2>1
  <2> QED BY <2>2, <2>3, <2>4, <1>2
          DEF FinishReading, OnlyMoves, ReadInv, StampsGrow, SeenIsWhole, StillSeen, BeforeReading
<1>3. CASE CaptureTarget
  <2>1. write'.at = "target" /\ write'.seen = write.seen
    BY <1>3 DEF CaptureTarget
  <2> QED BY <1>3, <2>1, MovingKeepsReadInv DEF CaptureTarget, BeforeReading, Claims
<1>4. CASE FillTemp
  <2>1. write'.at = "filled" /\ write'.seen = write.seen
    BY <1>4 DEF FillTemp
  <2> QED BY <1>4, <2>1, MovingKeepsReadInv DEF FillTemp, BeforeReading, Claims
<1>5. CASE SyncTemp
  <2>1. write'.at = "synced" /\ write'.seen = write.seen
    BY <1>5 DEF SyncTemp
  <2> QED BY <1>5, <2>1, MovingKeepsReadInv DEF SyncTemp, BeforeReading, Claims
<1>6. CASE StartComparing
  <2>1. /\ write'.at = "comparing" /\ write'.walked = file /\ write'.seen = write.seen
        /\ UNCHANGED <<file, texts, fileWrites>> /\ write.at = "synced"
    BY <1>6 DEF StartComparing
  <2> QED BY <2>1 DEF ReadInv, StampsGrow, SeenIsWhole, StillSeen, BeforeReading
<1>7. CASE FinishComparing
  <2>1. PICK got \in Readable(write.walked) :
          At(IF ReadStable /\ got = write.seen THEN "compared" ELSE "failing")
    BY <1>7 DEF FinishComparing
  <2>2. /\ write'.at = IF ReadStable /\ got = write.seen THEN "compared" ELSE "failing"
        /\ write'.seen = write.seen /\ write'.checks = write.checks
        /\ write'.target = write.target
    BY <2>1 DEF At
  <2>3. ReadStable => got = write.walked.text /\ (got = file.text \/ write.walked = NoFile)
    BY <1>7, StableRead DEF FinishComparing, ReadInv
  <2>4. UNCHANGED <<file, texts, late, fileWrites>> /\ write.at = "comparing"
    BY <1>7 DEF FinishComparing, OnlyMoves
  <2>5. StampsGrow' /\ SeenIsWhole'
    BY <2>2, <2>4 DEF ReadInv, StampsGrow, SeenIsWhole, BeforeReading
  <2>6. StillSeen'
    BY <2>2, <2>3, <2>4 DEF ReadInv, StillSeen
  <2> QED BY <2>5, <2>6 DEF ReadInv
<1>8. CASE CheckTarget
  <2>1. /\ write'.at = IF SameTarget THEN "checked" ELSE "failing"
        /\ write'.seen = write.seen /\ write'.checks = write.checks
        /\ UNCHANGED <<file, texts, late, fileWrites>>
    BY <1>8 DEF CheckTarget, At, OnlyMoves
  <2>2. write.at = "compared" \/ (write.at = "synced" /\ ~write.checks)
    BY <1>8 DEF CheckTarget
  <2> QED BY <2>1, <2>2 DEF ReadInv, StampsGrow, SeenIsWhole, StillSeen, BeforeReading, SameTarget
<1>9. CASE Replace
  <2>1. /\ write'.at = "replaced" /\ write'.seen = write.seen /\ write.at = "checked"
        /\ UNCHANGED <<texts, late, fileWrites>>
    BY <1>9 DEF Replace
  <2>2. file'.inode \in Inodes /\ file'.stamp = 0
    BY <1>9 DEF Replace
  <2> QED BY <2>1, <2>2 DEF ReadInv, StampsGrow, SeenIsWhole, StillSeen, BeforeReading
<1>10. CASE VerifyReplaced \/ SyncDirectory \/ WriteThrows \/ Killed
  <2>1. PICK step \in {"failing", "verified", "done", "killed"} : At(step)
    <3>1. CASE VerifyReplaced
      BY <3>1 DEF VerifyReplaced
    <3>2. CASE SyncDirectory
      BY <3>2 DEF SyncDirectory
    <3>3. CASE WriteThrows
      BY <3>3 DEF WriteThrows
    <3>4. CASE Killed
      BY <3>4 DEF Killed
    <3> QED BY <1>10, <3>1, <3>2, <3>3, <3>4
  <2>2. write'.at = step /\ write'.seen = write.seen
    BY <2>1 DEF At
  <2>3. OnlyMoves /\ write.at \in AfterStart
    BY <1>10 DEF VerifyReplaced, SyncDirectory, WriteThrows, Killed, AfterStart
  <2> QED BY <2>2, <2>3, MovingKeepsReadInv DEF BeforeReading, Claims, AfterStart
<1>11. CASE DropTemp
  <2>1. write'.at = "failed" /\ write'.seen = write.seen
    BY <1>11 DEF DropTemp
  <2> QED BY <1>11, <2>1, MovingKeepsReadInv DEF DropTemp, BeforeReading, Claims
<1>12. CASE CodexWritesInPlace \/ CodexReplaces \/ CodexRemoves \/ CodexCreates
  <2>1. CASE CodexWritesInPlace
    BY <2>1, CodexKeepsReadInv DEF CodexWritesInPlace, CodexWritesFile, ReadInv, StampsGrow
  <2>2. CASE CodexReplaces
    <3>1. PICK i \in Inodes \ {file.inode} : CodexWritesFile(Fresh(i))
      BY <2>2 DEF CodexReplaces
    <3> QED BY <3>1, CodexKeepsReadInv
  <2>3. CASE CodexRemoves
    BY <2>3, CodexKeepsReadInv DEF CodexRemoves
  <2>4. CASE CodexCreates
    <3>1. PICK i \in Inodes : CodexWritesFile(Fresh(i))
      BY <2>4 DEF CodexCreates
    <3> QED BY <3>1, CodexKeepsReadInv
  <2> QED BY <1>12, <2>1, <2>2, <2>3, <2>4
<1>13. CASE PowerFails
  <2>1. /\ write'.at = "off" /\ write'.seen = write.seen /\ write.at \notin BeforeReading
        /\ UNCHANGED <<texts, late, fileWrites>>
    BY <1>13 DEF PowerFails, At, AfterStart, BeforeReading
  <2> QED BY <2>1 DEF ReadInv, StampsGrow, SeenIsWhole, StillSeen, BeforeReading
<1>14. CASE UNCHANGED writeVars
  BY <1>14 DEF writeVars, ReadInv, StampsGrow, SeenIsWhole, StillSeen
<1> QED BY <1>1, <1>2, <1>3, <1>4, <1>5, <1>6, <1>7, <1>8, <1>9, <1>10, <1>11, <1>12, <1>13, <1>14
        DEF WriteNext

(* A checked replacement takes the place of a whole text that the          *)
(* operation has read and that is still there, unless Codex wrote where no *)
(* check looks any more (mutation-safety.ts:385-408).                      *)
THEOREM OnlyReplacesWhatItRead == WriteSpec => ReplacesWhatItRead
<1>1. ReadInv /\ [WriteNext]_writeVars =>
        [Replaces /\ write.checks =>
           write.seen \in texts /\ (file.text = write.seen \/ late)]_writeVars
  BY DEF ReadInv, SeenIsWhole, StillSeen, BeforeReading, Replaces
<1> QED BY ReadInvInit, ReadInvStep, <1>1, PTL DEF WriteSpec, ReplacesWhatItRead

-----------------------------------------------------------------------------
(* As long as the machine has power, the texts are whole, and the private  *)
(* file is synced before it becomes the target.                            *)
AfterSync == {"synced", "comparing", "compared", "checked"}
WholeInv ==
  write.at # "off" =>
    /\ file.text.whole = TRUE /\ write.old.text.whole = TRUE
    /\ write.at \in AfterSync => write.synced = TRUE
    /\ file.text = ToolText => write.synced = TRUE

(* Nothing is written at first.                                            *)
LEMMA WholeInvInit == WriteInit => WholeInv
  BY DEF WriteInit, WholeInv, NoFile, NoWrite, NoText, ToolText, AfterSync

(* A step of the operation that leaves the file and what is known of it.   *)
LEMMA MovingKeepsWholeInv ==
  ASSUME WholeInv, UNCHANGED file, write.at # "off", write'.old = write.old,
         write'.synced = write.synced \/ write'.synced = TRUE,
         write'.at \in AfterSync => write.at \in AfterSync \/ write'.synced = TRUE
  PROVE  WholeInv'
  BY DEF WholeInv

(* Every step keeps what a power failure relies on.                        *)
LEMMA WholeInvStep == WholeInv /\ [WriteNext]_writeVars => WholeInv'
<1> SUFFICES ASSUME WholeInv, [WriteNext]_writeVars
             PROVE  WholeInv'
  OBVIOUS
<1>1. CASE StartReading
  <2>1. PICK i \in Inodes \cup {0}, checks \in BOOLEAN :
          /\ file' = IF i = 0 THEN NoFile ELSE [inode |-> i, text |-> Codex(0), stamp |-> 0]
          /\ write' = [NoWrite EXCEPT !.at = "reading", !.checks = checks, !.walked = file']
    BY <1>1 DEF StartReading
  <2>2. write'.at = "reading" /\ write'.old = NoFile
    BY <2>1 DEF NoWrite
  <2>3. file'.text \in {NoText, Codex(0)}
    BY <2>1 DEF NoFile
  <2> QED BY <2>2, <2>3 DEF WholeInv, NoFile, NoText, Codex, ToolText, AfterSync
<1>2. CASE FinishReading
  <2>1. /\ write'.at \in {"read", "stale"} /\ write'.old = write.old
        /\ write'.synced = write.synced /\ write.at = "reading" /\ UNCHANGED file
    BY <1>2 DEF FinishReading, OnlyMoves
  <2> QED BY <2>1, MovingKeepsWholeInv DEF AfterSync
<1>3. CASE CaptureTarget
  <2>1. /\ write'.at = "target" /\ write'.old = write.old
        /\ write'.synced = write.synced /\ write.at = "read" /\ UNCHANGED file
    BY <1>3 DEF CaptureTarget, OnlyMoves
  <2> QED BY <2>1, MovingKeepsWholeInv DEF AfterSync
<1>4. CASE FillTemp
  <2>1. /\ write'.at = "filled" /\ write'.old = write.old
        /\ write'.synced = write.synced /\ write.at = "target" /\ UNCHANGED file
    BY <1>4 DEF FillTemp, OnlyMoves
  <2> QED BY <2>1, MovingKeepsWholeInv DEF AfterSync
<1>5. CASE SyncTemp
  <2>1. /\ write' = [write EXCEPT !.at = "synced", !.synced = TRUE]
        /\ write.at = "filled" /\ UNCHANGED file
    BY <1>5 DEF SyncTemp, Synced, OnlyMoves
  <2>2. write'.old = write.old
    BY <2>1
  <2>3. write'.synced = TRUE \/ write'.synced = write.synced
    BY <2>1
  <2>4. write'.at = "synced" /\ write' = [write EXCEPT !.at = "synced", !.synced = TRUE]
    BY <2>1
  <2> QED BY <2>1, <2>2, <2>3, <2>4 DEF WholeInv
<1>6. CASE StartComparing
  <2>1. /\ write'.at = "comparing" /\ write'.old = write.old
        /\ write'.synced = write.synced /\ write.at = "synced" /\ UNCHANGED file
    BY <1>6 DEF StartComparing
  <2> QED BY <2>1, MovingKeepsWholeInv DEF AfterSync
<1>7. CASE FinishComparing \/ CheckTarget
  <2>1. \E step \in {"compared", "checked", "failing"} : At(step)
    BY <1>7 DEF FinishComparing, CheckTarget
  <2>2. write'.old = write.old /\ write'.synced = write.synced
    BY <2>1 DEF At
  <2>3. write.at \in AfterSync /\ UNCHANGED file
    BY <1>7 DEF FinishComparing, CheckTarget, OnlyMoves, AfterSync
  <2> QED BY <2>2, <2>3, MovingKeepsWholeInv DEF AfterSync
<1>8. CASE Replace
  <2>1. /\ write'.at = "replaced" /\ write'.old = file
        /\ write'.synced = write.synced /\ write.at = "checked"
    BY <1>8 DEF Replace
  <2>2. file'.text = ToolText
    BY <1>8 DEF Replace
  <2> QED BY <2>1, <2>2 DEF WholeInv, ToolText, AfterSync
<1>9. CASE VerifyReplaced \/ SyncDirectory \/ WriteThrows \/ Killed
  <2>1. PICK step \in {"failing", "verified", "done", "killed"} : At(step)
    <3>1. CASE VerifyReplaced
      BY <3>1 DEF VerifyReplaced
    <3>2. CASE SyncDirectory
      BY <3>2 DEF SyncDirectory
    <3>3. CASE WriteThrows
      BY <3>3 DEF WriteThrows
    <3>4. CASE Killed
      BY <3>4 DEF Killed
    <3> QED BY <1>9, <3>1, <3>2, <3>3, <3>4
  <2>2. write'.at = step /\ write'.old = write.old /\ write'.synced = write.synced
    BY <2>1 DEF At
  <2>3. UNCHANGED file /\ write.at # "off"
    BY <1>9 DEF VerifyReplaced, SyncDirectory, WriteThrows, Killed, OnlyMoves, AfterStart
  <2> QED BY <2>2, <2>3, MovingKeepsWholeInv DEF AfterSync
<1>10. CASE DropTemp
  <2>1. /\ write'.at = "failed" /\ write'.old = write.old
        /\ write'.synced = write.synced /\ write.at = "failing" /\ UNCHANGED file
    BY <1>10 DEF DropTemp, OnlyMoves
  <2> QED BY <2>1, MovingKeepsWholeInv DEF AfterSync
<1>11. CASE CodexWritesInPlace \/ CodexReplaces \/ CodexRemoves \/ CodexCreates
  <2>1. file'.text \in {NoText, Codex(fileWrites + 1)} /\ write' = write
    BY <1>11 DEF CodexWritesInPlace, CodexReplaces, CodexRemoves, CodexCreates,
                 CodexWritesFile, Fresh, NoFile
  <2> QED BY <2>1 DEF WholeInv, NoText, Codex, ToolText
<1>12. CASE PowerFails
  <2>1. write'.at = "off"
    BY <1>12 DEF PowerFails, At, AfterStart
  <2> QED BY <2>1 DEF WholeInv
<1>13. CASE UNCHANGED writeVars
  BY <1>13 DEF writeVars, WholeInv
<1> QED BY <1>1, <1>2, <1>3, <1>4, <1>5, <1>6, <1>7, <1>8, <1>9, <1>10, <1>11, <1>12, <1>13
        DEF WriteNext

(* Whenever the power fails, the path holds a whole text, and the old one  *)
(* only if the caller was not told that the write is done                  *)
(* (mutation-safety.ts:379-381, 408-413).                                  *)
THEOREM WholeAfterPowerLoss == WriteSpec => SurvivesPowerLoss
<1>1. WholeInv /\ [WriteNext]_writeVars =>
        [write.at # "off" /\ write'.at = "off" =>
           /\ file'.text.whole
           /\ file' = file \/ (file' = write.old /\ write.at # "done")]_writeVars
  <2> SUFFICES ASSUME WholeInv, WriteNext, write.at # "off", write'.at = "off"
               PROVE  /\ file'.text.whole
                      /\ file' = file \/ (file' = write.old /\ write.at # "done")
    OBVIOUS
  <2>1. PowerFails
    <3>1. CASE StartReading
      <4>1. \E checks \in BOOLEAN :
              write' = [NoWrite EXCEPT !.at = "reading", !.checks = checks, !.walked = file']
        BY <3>1 DEF StartReading
      <4> QED BY <4>1 DEF NoWrite
    <3>2. CASE FinishReading
      BY <3>2 DEF FinishReading
    <3>3. CASE CaptureTarget \/ FillTemp
      <4>1. CASE CaptureTarget
        BY <4>1 DEF CaptureTarget
      <4>2. CASE FillTemp
        BY <4>2 DEF FillTemp
      <4> QED BY <3>3, <4>1, <4>2
    <3>4. CASE SyncTemp
      BY <3>4 DEF SyncTemp
    <3>5. CASE StartComparing
      BY <3>5 DEF StartComparing
    <3>6. CASE FinishComparing
      BY <3>6 DEF FinishComparing, At
    <3>7. CASE CheckTarget
      BY <3>7 DEF CheckTarget, At
    <3>8. CASE Replace
      BY <3>8 DEF Replace
    <3>9. CASE VerifyReplaced
      BY <3>9 DEF VerifyReplaced, At
    <3>10. CASE SyncDirectory \/ WriteThrows \/ Killed
      <4>1. CASE SyncDirectory
        BY <4>1 DEF SyncDirectory, At
      <4>2. CASE WriteThrows
        BY <4>2 DEF WriteThrows, At
      <4>3. CASE Killed
        BY <4>3 DEF Killed, At
      <4> QED BY <3>10, <4>1, <4>2, <4>3
    <3>11. CASE DropTemp
      BY <3>11 DEF DropTemp
    <3>12. CASE CodexWritesInPlace \/ CodexReplaces \/ CodexRemoves \/ CodexCreates
      BY <3>12 DEF CodexWritesInPlace, CodexReplaces, CodexRemoves, CodexCreates, CodexWritesFile
    <3> QED BY <3>1, <3>2, <3>3, <3>4, <3>5, <3>6, <3>7, <3>8, <3>9, <3>10, <3>11, <3>12
            DEF WriteNext
  <2>2. file' = file \/ (file' = write.old /\ write.at # "done")
    BY <2>1 DEF PowerFails, AfterPowerLoss, WholeInv
  <2> QED BY <2>2 DEF WholeInv
<1> QED BY WholeInvInit, WholeInvStep, <1>1, PTL DEF WriteSpec, SurvivesPowerLoss

-----------------------------------------------------------------------------
(***************************************************************************)
(* Proofs about GlobalStateRefs, for any session ids, any file of the      *)
(* desktop application and any number of writes by it: a removal takes out *)
(* what it has kept and a restore overwrites nothing.                      *)
(***************************************************************************)

(* The file has its type, and what a deletion keeps is what it has         *)
(* collected from the text it will compare with.                           *)
RefsInv ==
  /\ doc \in Document
  /\ refs.kept \subseteq References /\ refs.ids \subseteq RefIds
  /\ refs.step = "scanned" => refs.kept = Collected(refs.seen, refs.ids)

(* What a removal leaves of a file is a file.                              *)
LEMMA RemovedTyped ==
  ASSUME NEW d \in Document, NEW ids \in SUBSET RefIds
  PROVE  /\ RemovedRefs(d, ids) \in Document
         /\ \A h \in Holders, id \in RefIds :
              RemovedRefs(d, ids).at[h][id] =
                IF h # "elsewhere" /\ id \in ids /\ Eligible(h, d.at[h][id])
                THEN "none" ELSE d.at[h][id]
<1> DEFINE after == [h \in Holders |-> [id \in RefIds |->
                       IF h # "elsewhere" /\ id \in ids /\ Eligible(h, d.at[h][id])
                       THEN "none" ELSE d.at[h][id]]]
<1>1. after \in [Holders -> [RefIds -> RefValues]]
  BY DEF Document, RefValues
<1>2. RemovedRefs(d, ids) = [d EXCEPT !.at = after]
  BY DEF RemovedRefs
<1>3. RemovedRefs(d, ids).at = after
  BY <1>2 DEF Document
<1> HIDE DEF after
<1>4. RemovedRefs(d, ids) \in Document
  BY <1>1, <1>2 DEF Document
<1> QED BY <1>3, <1>4 DEF after

(* What a restore makes of a file is a file, and how its entries change.   *)
LEMMA RestoredTyped ==
  ASSUME NEW d \in Document, NEW kept \in SUBSET References
  PROVE  /\ RestoredDoc(d, kept) \in Document
         /\ \A h \in Holders, id \in RefIds :
              RestoredDoc(d, kept).at[h][id] = ValueAfter(d, kept, h, id)
<1> DEFINE after  == [h \in Holders |-> [id \in RefIds |-> ValueAfter(d, kept, h, id)]]
           used   == {r.key : r \in kept}
           shapes == [h \in Holders |-> IF h \in used THEN "proper" ELSE d.shape[h]]
           atom   == IF used \cap ExactKeys # {} THEN "proper" ELSE d.atom
<1>1. ASSUME NEW h \in Holders, NEW id \in RefIds
      PROVE  ValueAfter(d, kept, h, id) \in RefValues
  <2>1. d.at[h][id] \in RefValues
    BY DEF Document
  <2>2. ASSUME \E r \in kept : r.key = h /\ r.id = id
        PROVE  (CHOOSE r \in kept : r.key = h /\ r.id = id).val \in RefValues
    BY <2>2 DEF References
  <2> QED BY <2>1, <2>2 DEF ValueAfter
<1>2. after \in [Holders -> [RefIds -> RefValues]]
  BY <1>1
<1>3. shapes \in [Holders -> Shapes] /\ atom \in Shapes
  BY DEF Document, Shapes
<1>4. RestoredDoc(d, kept) = [top |-> "proper", atom |-> atom, shape |-> shapes, at |-> after]
  BY DEF RestoredDoc
<1> HIDE DEF after, shapes, atom
<1>5. RestoredDoc(d, kept) \in Document /\ RestoredDoc(d, kept).at = after
  BY <1>2, <1>3, <1>4 DEF Document
<1> QED BY <1>5 DEF after

(* Whatever shape Codex gives it, the file stays one.                      *)
LEMMA ReshapedTyped ==
  ASSUME doc \in Document, CodexReshapes
  PROVE  doc' \in Document /\ Sound(doc')
<1>1. NoEntries \in [Holders -> [RefIds -> RefValues]] /\ "absent" \in Shapes
  BY DEF NoEntries, RefValues, Shapes
<1>2. ASSUME NEW h \in Holders, NEW f \in Shapes
      PROVE  [doc EXCEPT !.shape[h] = f, !.at[h] = NoEntries[h]] \in Document
  BY <1>1 DEF Document
<1>3. ASSUME NEW f \in Shapes
      PROVE  [doc EXCEPT !.atom = f,
                !.shape = [h \in Holders |-> IF h \in ExactKeys THEN "absent" ELSE doc.shape[h]],
                !.at    = [h \in Holders |-> IF h \in ExactKeys THEN NoEntries[h] ELSE doc.at[h]]]
              \in Document
  BY <1>1 DEF Document
<1>4. EmptyDoc \in Document
  BY <1>1 DEF EmptyDoc, Document
<1>5. ASSUME NEW e \in Document PROVE [e EXCEPT !.top = "other"] \in Document
  BY DEF Document
<1>6. [EmptyDoc EXCEPT !.top = "other"] \in Document
  BY <1>4, <1>5
<1>7. doc' \in Document
  BY <1>2, <1>3, <1>4, <1>6, Zenon DEF CodexReshapes
<1> QED BY <1>7 DEF CodexReshapes

(* The invariant holds before anything is scanned.                         *)
LEMMA RefsInvInit == RefsInit => RefsInv
<1> SUFFICES ASSUME RefsInit PROVE RefsInv
  OBVIOUS
<1>1. NoEntries \in [Holders -> [RefIds -> RefValues]]
  BY DEF NoEntries, RefValues
<1>2. [h \in Holders |-> "absent"] \in [Holders -> Shapes]
  BY DEF Shapes
<1>3. EmptyDoc \in Document
  BY <1>1, <1>2 DEF EmptyDoc, Document, Shapes
<1> QED BY <1>3 DEF RefsInit, RefsInv, NoRefs

(* A step that writes nothing and keeps what was kept.                     *)
LEMMA LeavingKeepsRefsInv ==
  ASSUME RefsInv, doc' \in Document, refs'.kept = refs.kept, refs'.ids = refs.ids,
         refs'.step # "scanned" \/ refs' = refs
  PROVE  RefsInv'
  BY DEF RefsInv

(* Every step keeps it.                                                    *)
LEMMA RefsInvStep == RefsInv /\ [RefsNext]_docVars => RefsInv'
<1> SUFFICES ASSUME RefsInv, [RefsNext]_docVars
             PROVE  RefsInv'
  OBVIOUS
<1>1. CASE ScanDocument
  <2>1. PICK d \in Documents, ids \in (SUBSET RefIds) \ {{}} :
          /\ doc' = d
          /\ refs' = [step |-> "scanned", ids |-> ids, kept |-> Collected(d, ids), seen |-> d]
    BY <1>1 DEF ScanDocument
  <2>2. Collected(d, ids) \subseteq References
    BY DEF Collected
  <2> QED BY <2>1, <2>2, DocumentAssumption DEF RefsInv
<1>2. CASE RemoveReferences
  <2>1. doc' \in Document
    BY <1>2, RemovedTyped DEF RemoveReferences, RefsInv
  <2>2. refs'.step \in {"removed", "stale"} /\ refs'.kept = refs.kept /\ refs'.ids = refs.ids
    <3>1. CASE refs' = [refs EXCEPT !.step = "removed"]
      BY <3>1
    <3>2. CASE refs' = [refs EXCEPT !.step = "stale"]
      BY <3>2
    <3> QED BY <1>2, <3>1, <3>2 DEF RemoveReferences
  <2> QED BY <2>1, <2>2, LeavingKeepsRefsInv
<1>3. CASE CheckLiveRefs
  <2>1. refs'.step \in {"checked", "refused"} /\ refs'.kept = refs.kept /\ refs'.ids = refs.ids
    BY <1>3 DEF CheckLiveRefs
  <2> QED BY <1>3, <2>1, LeavingKeepsRefsInv DEF CheckLiveRefs, RefsInv
<1>4. CASE CaptureDocument
  <2>1. refs'.step \in {"captured", "refused"} /\ refs'.kept = refs.kept /\ refs'.ids = refs.ids
    BY <1>4 DEF CaptureDocument
  <2> QED BY <1>4, <2>1, LeavingKeepsRefsInv DEF CaptureDocument, RefsInv
<1>5. CASE RestoreReferences
  <2>1. doc' \in Document
    BY <1>5, RestoredTyped DEF RestoreReferences, RefsInv
  <2>2. refs'.step \in {"restored", "refused"} /\ refs'.kept = refs.kept /\ refs'.ids = refs.ids
    <3>1. CASE refs' = [refs EXCEPT !.step = "restored"]
      BY <3>1
    <3>2. CASE refs' = [refs EXCEPT !.step = "refused"]
      BY <3>2
    <3> QED BY <1>5, <3>1, <3>2 DEF RestoreReferences
  <2> QED BY <2>1, <2>2, LeavingKeepsRefsInv
<1>6. CASE CodexWritesDocument
  <2>1. doc \in Document
    BY DEF RefsInv
  <2>2. ASSUME NEW h \in Holders, NEW id \in RefIds, NEW v \in RefValues,
               doc' = [doc EXCEPT !.at[h][id] = v]
        PROVE  doc' \in Document
    BY <2>1, <2>2 DEF Document
  <2>3. CodexReshapes => doc' \in Document
    BY <2>1, ReshapedTyped
  <2>4. doc' \in Document /\ refs' = refs
    BY <1>6, <2>2, <2>3 DEF CodexWritesDocument
  <2> QED BY <2>4, LeavingKeepsRefsInv
<1>7. CASE UNCHANGED docVars
  BY <1>7 DEF docVars, RefsInv
<1> QED BY <1>1, <1>2, <1>3, <1>4, <1>5, <1>6, <1>7 DEF RefsNext

(* A removal takes out all of what a scan calls a reference, and nothing   *)
(* that it has not kept (global-state.ts:355-476).                         *)
THEOREM RemovalIsKept == RefsSpec => RemovedIsKept
<1>1. ASSUME RefsInv, RefsNext, Removes
      PROVE  /\ Collected(doc', refs.ids) = {}
             /\ PossibleUnknown(doc', RefIds) = PossibleUnknown(doc, RefIds)
             /\ \A h \in Holders, id \in RefIds :
                  doc'.at[h][id] # doc.at[h][id] =>
                    \E r \in refs.kept : r.key = h /\ r.id = id /\ r.val = doc.at[h][id]
  <2>1. RemoveReferences
    BY <1>1 DEF RefsNext, Removes, ScanDocument, CheckLiveRefs, CaptureDocument,
                RestoreReferences, CodexWritesDocument
  <2>2. doc' = RemovedRefs(doc, refs.ids) /\ doc = refs.seen
    <3>1. ASSUME refs' = [refs EXCEPT !.step = "stale"] PROVE FALSE
      <4>1. refs'.step = "stale"
        BY <3>1
      <4> QED BY <1>1, <4>1 DEF Removes
    <3> QED BY <2>1, <3>1 DEF RemoveReferences
  <2>3. doc \in Document /\ refs.ids \in SUBSET RefIds
    BY <1>1 DEF RefsInv
  <2>4. \A h \in Holders, id \in RefIds :
          doc'.at[h][id] = IF h # "elsewhere" /\ id \in refs.ids /\ Eligible(h, doc.at[h][id])
                           THEN "none" ELSE doc.at[h][id]
    BY <2>2, <2>3, RemovedTyped
  <2>5. Collected(doc', refs.ids) = {}
    <3>1. ASSUME NEW r \in Collected(doc', refs.ids) PROVE FALSE
      <4>1. /\ r.key \in Holders \ {"elsewhere"} /\ r.id \in RefIds /\ r.id \in refs.ids
            /\ r.val = doc'.at[r.key][r.id] /\ Eligible(r.key, r.val)
        BY DEF Collected, References, Holders, KnownKeys, ExactKeys
      <4> QED BY <2>4, <4>1 DEF Eligible
    <3> QED BY <3>1
  <2>6. PossibleUnknown(doc', RefIds) = PossibleUnknown(doc, RefIds)
    <3>1. ASSUME NEW h \in ExactKeys \cup {"elsewhere"}, NEW id \in RefIds
          PROVE  (doc'.at[h][id] # "none" /\ ~(h \in ExactKeys /\ Eligible(h, doc'.at[h][id])))
                 <=> (doc.at[h][id] # "none" /\ ~(h \in ExactKeys /\ Eligible(h, doc.at[h][id])))
      BY <2>4 DEF Holders, ExactKeys, Eligible
    <3> QED BY <3>1 DEF PossibleUnknown
  <2>7. ASSUME NEW h \in Holders, NEW id \in RefIds, doc'.at[h][id] # doc.at[h][id]
        PROVE  \E r \in refs.kept : r.key = h /\ r.id = id /\ r.val = doc.at[h][id]
    <3> DEFINE r == [key |-> h, id |-> id, val |-> doc.at[h][id]]
    <3>1. h # "elsewhere" /\ id \in refs.ids /\ Eligible(h, doc.at[h][id])
      BY <2>4, <2>7
    <3>2. r \in References
      BY <2>3, <3>1 DEF References, Document, Holders, Eligible
    <3>3. r \in Collected(doc, refs.ids)
      BY <3>1, <3>2 DEF Collected
    <3>4. refs.kept = Collected(doc, refs.ids)
      BY <1>1, <2>2 DEF RefsInv, Removes
    <3> QED BY <3>3, <3>4
  <2> QED BY <2>5, <2>6, <2>7
<1>2. RefsInv /\ [RefsNext]_docVars =>
        [Removes =>
           /\ Collected(doc', refs.ids) = {}
           /\ PossibleUnknown(doc', RefIds) = PossibleUnknown(doc, RefIds)
           /\ \A h \in Holders, id \in RefIds :
                doc'.at[h][id] # doc.at[h][id] =>
                  \E r \in refs.kept : r.key = h /\ r.id = id /\ r.val = doc.at[h][id]]_docVars
  BY <1>1
<1> QED BY RefsInvInit, RefsInvStep, <1>2, PTL DEF RefsSpec, RemovedIsKept

(* A restore brings back every kept reference and overwrites none that is  *)
(* there by then (global-state.ts:537-633).                                *)
THEOREM ReferencesComeBack == RefsSpec => RefsComeBack
<1>1. ASSUME RefsInv, RefsNext, Restores
      PROVE  /\ \A r \in refs.kept : doc'.at[r.key][r.id] # "none"
             /\ \A h \in Holders, id \in RefIds :
                  doc'.at[h][id] # doc.at[h][id] =>
                    /\ doc.at[h][id] = "none"
                    /\ \E r \in refs.kept : r.key = h /\ r.id = id /\ r.val = doc'.at[h][id]
  <2>1. RestoreReferences
    BY <1>1 DEF RefsNext, Restores, ScanDocument, CheckLiveRefs, CaptureDocument,
                RemoveReferences, CodexWritesDocument
  <2>2. doc' = IF refs.kept = {} THEN doc ELSE RestoredDoc(doc, refs.kept)
    <3>1. ASSUME refs' = [refs EXCEPT !.step = "refused"] PROVE FALSE
      <4>1. refs'.step = "refused"
        BY <3>1
      <4> QED BY <1>1, <4>1 DEF Restores
    <3> QED BY <2>1, <3>1 DEF RestoreReferences
  <2>3. CASE refs.kept = {}
    BY <2>2, <2>3
  <2>4. CASE refs.kept # {}
    <3>1. doc \in Document /\ refs.kept \in SUBSET References
      BY <1>1 DEF RefsInv
    <3>2. \A h \in Holders, id \in RefIds :
            doc'.at[h][id] = ValueAfter(doc, refs.kept, h, id)
      BY <2>2, <2>4, <3>1, RestoredTyped
    <3>3. ASSUME NEW h \in Holders, NEW id \in RefIds,
                 NEW r \in refs.kept, r.key = h, r.id = id
          PROVE  doc'.at[h][id] # "none"
      <4>1. (CHOOSE s \in refs.kept : s.key = h /\ s.id = id) \in refs.kept
        BY <3>3
      <4>2. (CHOOSE s \in refs.kept : s.key = h /\ s.id = id).val # "none"
        BY <3>1, <4>1 DEF References
      <4> QED BY <3>2, <3>3, <4>2 DEF ValueAfter
    <3>4. \A r \in refs.kept : r.key \in Holders /\ r.id \in RefIds
      BY <3>1 DEF References, Holders
    <3>5. ASSUME NEW h \in Holders, NEW id \in RefIds, doc'.at[h][id] # doc.at[h][id]
          PROVE  /\ doc.at[h][id] = "none"
                 /\ \E r \in refs.kept : r.key = h /\ r.id = id /\ r.val = doc'.at[h][id]
      BY <3>2, <3>5 DEF ValueAfter
    <3> QED BY <3>3, <3>4, <3>5
  <2> QED BY <2>3, <2>4
<1>2. RefsInv /\ [RefsNext]_docVars =>
        [Restores =>
           /\ \A r \in refs.kept : doc'.at[r.key][r.id] # "none"
           /\ \A h \in Holders, id \in RefIds :
                doc'.at[h][id] # doc.at[h][id] =>
                  /\ doc.at[h][id] = "none"
                  /\ \E r \in refs.kept : r.key = h /\ r.id = id /\ r.val = doc'.at[h][id]]_docVars
  BY <1>1
<1> QED BY RefsInvInit, RefsInvStep, <1>2, PTL DEF RefsSpec, RefsComeBack

-----------------------------------------------------------------------------
(***************************************************************************)
(* The rows of the databases, for any sessions, rows and tables and any    *)
(* number of writes by Codex: an operation that is reported as recovered   *)
(* is whole, and nothing that is newer is overwritten.                     *)
(***************************************************************************)

(* What the export has collected are rows of the databases.                *)
RowsTyped ==
  /\ base = [rows |-> base.rows, present |-> base.present, dedicated |-> base.dedicated]
  /\ base.rows \in [Slots -> Content]
  /\ op = [at |-> op.at, trash |-> op.trash, targets |-> op.targets, todo |-> op.todo,
           bundle |-> op.bundle, skipped |-> op.skipped, given |-> op.given, calm |-> op.calm]
  /\ op.bundle \subseteq Slots \X Content

(* Slots and rows.                                                         *)
LEMMA HomesAreSlots ==
  ASSUME NEW sl \in Slots
  PROVE  /\ Home(sl) \in Slots /\ Home(sl) = <<Home(sl)[1], sl[2], sl[3]>>
         /\ sl = <<sl[1], sl[2], sl[3]>>
<1>1. PICK p \in Places : \E k \in Keys(p[2]) : sl = <<p[1], p[2], k>>
  BY DEF Slots
<1>2. p[2] = "goals" \/ p[1] = "state"
  BY DEF Places
<1>3. <<"state", p[2]>> \in Places /\ <<"goals", "goals">> \in Places
  BY DEF Places, Tables
<1> QED BY <1>1, <1>2, <1>3 DEF Slots, Home

(* A row is a record with an owner and a body.                             *)
LEMMA ContentShape ==
  ASSUME NEW row \in Content
  PROVE  row = [whose |-> row.whose, body |-> row.body]
<1>1. CASE row = Absent
  BY <1>1 DEF Absent
<1>2. CASE \E t \in Tables : row \in RowsOf(t)
  BY <1>2 DEF RowsOf
<1> QED BY <1>1, <1>2 DEF Content

(* The owner of a row is a session or nobody, and the row of a job item    *)
(* may have any of them.                                                   *)
Owners == RowSessions \cup {Nobody}
(* Owners and bodies of a row's content.                                   *)
LEMMA OwnersOfContent ==
  ASSUME NEW row \in Content
  PROVE  /\ row.whose \in Owners
         /\ row # Absent =>
              /\ row.body \in Bodies
              /\ \A w \in Owners : [row EXCEPT !.whose = w] \in Content
<1>1. CASE row = Absent
  BY <1>1 DEF Absent, Owners
<1>2. CASE row # Absent
  <2>1. PICK t \in Tables : row \in RowsOf(t)
    BY <1>2 DEF Content
  <2>2. row.body \in Bodies /\ row.whose \in Owners
    BY <2>1 DEF RowsOf, Owners
  <2>3. ASSUME NEW w \in Owners
        PROVE  [row EXCEPT !.whose = w] \in Content
    <3>1. [row EXCEPT !.whose = w] = [whose |-> w, body |-> row.body]
      BY ContentShape
    <3>2. [whose |-> w, body |-> row.body] \in RowsOf("items")
      BY <2>2 DEF RowsOf, Owners
    <3> QED BY <3>1, <3>2 DEF Content, Tables
  <2> QED BY <2>2, <2>3
<1> QED BY <1>1, <1>2

(* The records of a database are rows at their homes.                      *)
LEMMA RecordsTyped ==
  ASSUME RowsTyped, NEW db, NEW r \in Records(db)
  PROVE  r = <<r[1], r[2]>> /\ r[1] \in Slots /\ r[2] \in Content
<1>1. PICK q \in op.bundle : r = <<Home(q[1]), q[2]>>
  BY DEF Records, RecordsFor
<1>2. q[1] \in Slots /\ q[2] \in Content
  BY DEF RowsTyped
<1> QED BY <1>1, <1>2, HomesAreSlots

(* No databases, no operation.                                             *)
LEMMA RowsTypedInit == RowsInit => RowsTyped
BY DEF RowsInit, RowsTyped, NoBase, NoOp, Content

(* What a step of the operation puts in place of the rows.                 *)
LEMMA RowsChange ==
  ASSUME RowsTyped, NEW rows \in [Slots -> Content], base' = [base EXCEPT !.rows = rows]
  PROVE  base' = [rows |-> rows, present |-> base.present, dedicated |-> base.dedicated]
BY DEF RowsTyped

(* Deletion, reconciliation, restore and its undo leave rows.              *)
LEMMA WritesLeaveRows ==
  ASSUME RowsTyped, NEW db, DeleteRows(db) \/ PutRecords(db) \/ InsertRows(db)
  PROVE  /\ base'.rows \in [Slots -> Content]
         /\ base' = [rows |-> base'.rows, present |-> base.present, dedicated |-> base.dedicated]
<1> DEFINE Made(rows) == base' = [base EXCEPT !.rows = rows]
<1>1. ASSUME NEW rows \in [Slots -> Content], Made(rows)
      PROVE  /\ base'.rows \in [Slots -> Content]
             /\ base' = [rows |-> base'.rows, present |-> base.present, dedicated |-> base.dedicated]
  <2>1. base' = [rows |-> rows, present |-> base.present, dedicated |-> base.dedicated]
    BY <1>1, RowsChange
  <2> QED BY <2>1
<1>2. \A sl \in Slots : base.rows[sl] \in Content
  BY DEF RowsTyped
<1>3. CASE DeleteRows(db)
  <2> DEFINE rows == [sl \in Slots |->
                        IF sl[1] = db THEN AfterDelete(base.rows[sl], sl) ELSE base.rows[sl]]
  <2>1. ASSUME NEW sl \in Slots
        PROVE  AfterDelete(base.rows[sl], sl) \in Content
    <3>1. CASE Belongs(sl, base.rows[sl], op.targets) /\ sl[2] = "items"
      <4>1. [base.rows[sl] EXCEPT !.whose = Nobody] \in Content
        BY <1>2, <3>1, OwnersOfContent DEF Belongs, Owners
      <4> QED BY <3>1, <4>1 DEF AfterDelete
    <3>2. CASE ~(Belongs(sl, base.rows[sl], op.targets) /\ sl[2] = "items")
      BY <1>2, <3>2 DEF AfterDelete, Content
    <3> QED BY <3>1, <3>2
  <2>2. rows \in [Slots -> Content] /\ Made(rows)
    BY <1>2, <1>3, <2>1 DEF DeleteRows
  <2> HIDE DEF rows
  <2> QED BY <1>1, <2>2
<1>4. CASE PutRecords(db)
  <2> DEFINE Of(sl) == CHOOSE r \in Records(db) : r[1] = sl
             rows == [sl \in Slots |-> IF \E r \in Records(db) : r[1] = sl
                                       THEN ReconciledRow(base.rows[sl], Of(sl)[2])
                                       ELSE base.rows[sl]]
  <2>1. ASSUME NEW sl \in Slots, \E r \in Records(db) : r[1] = sl
        PROVE  ReconciledRow(base.rows[sl], Of(sl)[2]) \in Content
    <3>1. Of(sl) \in Records(db)
      BY <2>1
    <3> QED BY <3>1, RecordsTyped DEF ReconciledRow
  <2>2. rows \in [Slots -> Content] /\ Made(rows)
    BY <1>2, <1>4, <2>1 DEF PutRecords
  <2> HIDE DEF rows
  <2> QED BY <1>1, <2>2
<1>5. CASE InsertRows(db)
  <2> DEFINE Of(sl) == CHOOSE r \in Inserts(db) : r[1] = sl
             rows == [sl \in Slots |-> IF \E r \in Inserts(db) : r[1] = sl
                                       THEN RestoredRow(base.rows[sl], Of(sl)[2])
                                       ELSE base.rows[sl]]
  <2>1. ASSUME NEW sl \in Slots, \E r \in Inserts(db) : r[1] = sl
        PROVE  RestoredRow(base.rows[sl], Of(sl)[2]) \in Content
    <3>1. Of(sl) \in Records(db)
      BY <2>1 DEF Inserts
    <3>2. Of(sl)[2] \in Content /\ Of(sl)[2].whose \in Owners
      BY <3>1, RecordsTyped, OwnersOfContent
    <3> HIDE DEF Of
    <3> QED BY <1>2, <3>2, OwnersOfContent DEF RestoredRow
  <2>2. rows \in [Slots -> Content] /\ Made(rows)
    BY <1>2, <1>5, <2>1 DEF InsertRows
  <2> HIDE DEF rows
  <2> QED BY <1>1, <2>2
<1> QED BY <1>3, <1>4, <1>5

(* Every step leaves rows in the databases and rows in the bundle.         *)
LEMMA RowsTypedStep == RowsTyped /\ [RowsNext]_rowVars => RowsTyped'
<1> SUFFICES ASSUME RowsTyped, [RowsNext]_rowVars PROVE RowsTyped'
  OBVIOUS
<1> DEFINE BaseTyped == /\ base = [rows |-> base.rows, present |-> base.present,
                                   dedicated |-> base.dedicated]
                        /\ base.rows \in [Slots -> Content]
           OpTyped == /\ op = [at |-> op.at, trash |-> op.trash, targets |-> op.targets,
                               todo |-> op.todo, bundle |-> op.bundle, skipped |-> op.skipped,
                               given |-> op.given, calm |-> op.calm]
                      /\ op.bundle \subseteq Slots \X Content
<1>1. BaseTyped /\ OpTyped
  BY DEF RowsTyped
<1>2. CASE StartRows
  <2>1. PICK db \in RowStates, targets \in SUBSET RowSessions, trash \in BOOLEAN :
          /\ base' = db
          /\ op' = [NoOp EXCEPT !.at = "export", !.targets = targets, !.trash = trash,
                    !.todo = targets \X (IF db.dedicated THEN {"state", "goals"} ELSE {"state"})]
    BY <1>2 DEF StartRows
  <2>2. BaseTyped'
    BY <2>1, RowAssumption DEF RowStateOK
  <2>3. OpTyped'
    BY <2>1 DEF NoOp
  <2> QED BY <2>2, <2>3 DEF RowsTyped
<1>3. CASE ExportRecords
  <2>1. PICK d \in op.todo :
          op' = [op EXCEPT !.todo = op.todo \ {d},
                           !.bundle = op.bundle \cup Exported(base.rows, d[2], {d[1]}),
                           !.at = IF op.todo # {d} THEN "export"
                                  ELSE IF base.dedicated THEN "deleteGoals" ELSE "deleteState"]
    BY <1>3 DEF ExportRecords
  <2> DEFINE bundle == op.bundle \cup Exported(base.rows, d[2], {d[1]})
             at == IF op.todo # {d} THEN "export"
                   ELSE IF base.dedicated THEN "deleteGoals" ELSE "deleteState"
  <2>2. bundle \subseteq Slots \X Content
    BY <1>1 DEF Exported
  <2>3. op' = [op EXCEPT !.todo = op.todo \ {d}, !.bundle = bundle, !.at = at]
    BY <2>1
  <2> HIDE DEF bundle, at
  <2>4. OpTyped'
    BY <1>1, <2>2, <2>3
  <2>5. base' = base
    BY <1>3 DEF ExportRecords
  <2> QED BY <1>1, <2>4, <2>5 DEF RowsTyped
<1>4. ASSUME NEW at, To(at) PROVE OpTyped'
  BY <1>1, <1>4 DEF To
<1>5. ASSUME NEW db, DeleteRows(db) \/ PutRecords(db) \/ InsertRows(db) PROVE BaseTyped'
  BY <1>5, WritesLeaveRows
<1>6. CASE DeleteGoalRows \/ DeleteStateRows
  BY <1>4, <1>5, <1>6 DEF DeleteGoalRows, DeleteStateRows, RowsTyped
<1>7. CASE KeepRows
  <2>1. base' = base
    BY <1>7 DEF KeepRows
  <2>2. CASE To("gone")
    BY <1>1, <1>4, <2>1, <2>2 DEF RowsTyped
  <2>3. CASE \E kept \in Deduped(op.bundle) : op' = [op EXCEPT !.at = "trashed", !.bundle = kept]
    <3>1. PICK kept \in SUBSET op.bundle : op' = [op EXCEPT !.at = "trashed", !.bundle = kept]
      BY <2>3 DEF Deduped
    <3>2. OpTyped'
      BY <1>1, <3>1
    <3> QED BY <1>1, <2>1, <3>2 DEF RowsTyped
  <2> QED BY <1>7, <2>2, <2>3 DEF KeepRows
<1>8. CASE Interrupt
  <2>1. op' = [op EXCEPT !.at = "reconcileState", !.calm = TRUE] /\ base' = base
    BY <1>8 DEF Interrupt
  <2>2. OpTyped'
    BY <1>1, <2>1
  <2> QED BY <1>1, <2>1, <2>2 DEF RowsTyped
<1>9. CASE ReconcileState \/ ReconcileGoals
  <2>1. \E at : To(at)
    BY <1>9 DEF ReconcileState, ReconcileGoals
  <2>2. base' = base \/ PutRecords("state") \/ PutRecords("goals")
    BY <1>9 DEF ReconcileState, ReconcileGoals
  <2> QED BY <1>1, <1>4, <1>5, <2>1, <2>2 DEF RowsTyped
<1>10. CASE CheckKeys \/ CheckCounts \/ RestoreThrows \/ ValidateRows
  <2>1. \E at : To(at)
    BY <1>10 DEF CheckKeys, CheckCounts, RestoreThrows, ValidateRows
  <2>2. base' = base
    BY <1>10 DEF CheckKeys, CheckCounts, RestoreThrows, ValidateRows
  <2> QED BY <1>1, <1>4, <2>1, <2>2 DEF RowsTyped
<1>11. CASE RestoreGoals
  <2> DEFINE given == Inserts("goals") # {}
  <2>1. /\ InsertRows("goals")
        /\ op' = [op EXCEPT !.at = "restoreState", !.skipped = Skipped("goals"), !.given = given]
    BY <1>11 DEF RestoreGoals
  <2> HIDE DEF given
  <2>2. OpTyped'
    BY <1>1, <2>1
  <2> QED BY <1>5, <2>1, <2>2 DEF RowsTyped
<1>12. CASE RestoreState
  <2>1. /\ InsertRows("state")
        /\ op' = [op EXCEPT !.at = "validate", !.skipped = op.skipped \cup Skipped("state")]
    BY <1>12 DEF RestoreState
  <2>2. OpTyped'
    BY <1>1, <2>1
  <2> QED BY <1>5, <2>1, <2>2 DEF RowsTyped
<1>13. CASE UndoGoals
  <2>1. \E at : To(at)
    BY <1>13 DEF UndoGoals
  <2> DEFINE rows == [sl \in Slots |->
                        IF \E r \in Records("goals") : r[1] = sl THEN Absent ELSE base.rows[sl]]
  <2>2. rows \in [Slots -> Content]
    BY <1>1 DEF Content
  <2>3. base' = base \/ base' = [base EXCEPT !.rows = rows]
    BY <1>13 DEF UndoGoals
  <2> HIDE DEF rows
  <2>4. BaseTyped'
    BY <1>1, <2>2, <2>3
  <2> QED BY <1>4, <2>1, <2>4 DEF RowsTyped
<1>14. CASE CodexWritesRows
  <2>1. op' = [op EXCEPT !.calm = FALSE]
    BY <1>14 DEF CodexWritesRows
  <2>2. OpTyped'
    BY <1>1, <2>1
  <2>3. CASE CodexWritesRow
    <3>1. PICK sl \in Slots, row \in Content : base' = [base EXCEPT !.rows[sl] = row]
      BY <2>3 DEF CodexWritesRow
    <3> DEFINE rows == [base.rows EXCEPT ![sl] = row]
    <3>2. rows \in [Slots -> Content]
      BY <1>1
    <3>3. base' = [base EXCEPT !.rows = rows]
      BY <3>1
    <3> HIDE DEF rows
    <3> QED BY <1>1, <2>2, <3>2, <3>3 DEF RowsTyped
  <2>4. CASE CodexDropsTable
    <3>1. PICK p \in base.present :
            base' = [base EXCEPT !.present = base.present \ {p},
                       !.rows = [sl \in Slots |->
                                   IF PlaceOf(sl) = p THEN Absent ELSE base.rows[sl]]]
      BY <2>4 DEF CodexDropsTable
    <3> DEFINE rows == [sl \in Slots |-> IF PlaceOf(sl) = p THEN Absent ELSE base.rows[sl]]
    <3>2. rows \in [Slots -> Content]
      BY <1>1 DEF Content
    <3>3. base' = [base EXCEPT !.present = base.present \ {p}, !.rows = rows]
      BY <3>1
    <3> HIDE DEF rows
    <3> QED BY <1>1, <2>2, <3>2, <3>3 DEF RowsTyped
  <2> QED BY <1>14, <2>3, <2>4 DEF CodexWritesRows
<1>15. CASE UNCHANGED rowVars
  BY <1>1, <1>15 DEF rowVars, RowsTyped
<1> QED BY <1>2, <1>3, <1>6, <1>7, <1>8, <1>9, <1>10, <1>11, <1>12, <1>13, <1>14, <1>15 DEF RowsNext

(* A recovered row was free, is the same, or gets back its owner.          *)
LEMMA ReconciledRowsKept ==
  ASSUME RowsTyped, NEW db, ReconcilePossible(db), PutRecords(db), NEW sl \in Slots
  PROVE  LET old == base.rows[sl]
             new == base'.rows[sl] IN
         \/ new = old
         \/ old = Absent
         \/ sl[2] = "items" /\ old.whose = Nobody /\ new = [old EXCEPT !.whose = new.whose]
<1> DEFINE of == CHOOSE r \in Records(db) : r[1] = sl
           old == base.rows[sl]
           new == base'.rows[sl]
<1>1. new = IF \E r \in Records(db) : r[1] = sl THEN of[2] ELSE old
  <2> DEFINE rows == [x \in Slots |-> IF \E r \in Records(db) : r[1] = x
                        THEN ReconciledRow(base.rows[x], (CHOOSE r \in Records(db) : r[1] = x)[2])
                        ELSE base.rows[x]]
  <2>1. base' = [base EXCEPT !.rows = rows]
    BY DEF PutRecords
  <2>2. rows[sl] = IF \E r \in Records(db) : r[1] = sl THEN of[2] ELSE old
    BY DEF ReconciledRow
  <2> HIDE DEF rows, of
  <2>3. base'.rows = rows
    BY <2>1 DEF RowsTyped
  <2> QED BY <2>2, <2>3
<1>2. CASE \E r \in Records(db) : r[1] = sl
  <2>1. of \in Records(db) /\ of[1] = sl /\ new = of[2]
    BY <1>1, <1>2
  <2> HIDE DEF of, new
  <2>2. Reconcilable(old, sl, of[2])
    BY <2>1 DEF ReconcilePossible
  <2>3. of[2] = [whose |-> of[2].whose, body |-> of[2].body]
    BY <2>1, RecordsTyped, ContentShape
  <2>4. CASE sl[2] = "items" /\ old = [of[2] EXCEPT !.whose = Nobody]
    <3>1. old = [whose |-> Nobody, body |-> of[2].body]
      BY <2>3, <2>4
    <3>2. of[2] = [old EXCEPT !.whose = of[2].whose]
      BY <2>3, <3>1
    <3> QED BY <2>1, <2>4, <3>1, <3>2 DEF new
  <2> QED BY <2>1, <2>2, <2>4 DEF Reconcilable, new
<1>3. CASE ~\E r \in Records(db) : r[1] = sl
  BY <1>1, <1>3
<1> QED BY <1>2, <1>3

(* So does a restored one.                                                 *)
LEMMA RestoredRowsKept ==
  ASSUME RowsTyped, NEW db, ~InsertsFail(db), InsertRows(db), NEW sl \in Slots
  PROVE  LET old == base.rows[sl]
             new == base'.rows[sl] IN
         \/ new = old
         \/ old = Absent
         \/ sl[2] = "items" /\ old.whose = Nobody /\ new = [old EXCEPT !.whose = new.whose]
<1> DEFINE of == CHOOSE r \in Inserts(db) : r[1] = sl
           old == base.rows[sl]
           new == base'.rows[sl]
<1>1. new = IF \E r \in Inserts(db) : r[1] = sl THEN RestoredRow(old, of[2]) ELSE old
  <2> DEFINE rows == [x \in Slots |-> IF \E r \in Inserts(db) : r[1] = x
                        THEN RestoredRow(base.rows[x], (CHOOSE r \in Inserts(db) : r[1] = x)[2])
                        ELSE base.rows[x]]
  <2>1. base' = [base EXCEPT !.rows = rows]
    BY DEF InsertRows
  <2>2. rows[sl] = IF \E r \in Inserts(db) : r[1] = sl THEN RestoredRow(old, of[2]) ELSE old
    OBVIOUS
  <2> HIDE DEF rows, of
  <2>3. base'.rows = rows
    BY <2>1 DEF RowsTyped
  <2> QED BY <2>2, <2>3
<1>2. CASE \E r \in Inserts(db) : r[1] = sl
  <2>1. of \in Inserts(db) /\ of[1] = sl /\ new = RestoredRow(old, of[2])
    BY <1>1, <1>2
  <2> HIDE DEF of, new
  <2>2. old = Absent \/ (sl[2] = "items" /\ old.whose = Nobody)
    BY <2>1 DEF InsertsFail
  <2>3. old = [whose |-> old.whose, body |-> old.body]
    BY ContentShape DEF RowsTyped
  <2>4. CASE old # Absent
    <3>1. new = [old EXCEPT !.whose = of[2].whose]
      BY <2>1, <2>4 DEF RestoredRow
    <3>2. new = [old EXCEPT !.whose = new.whose]
      BY <2>3, <3>1
    <3> QED BY <2>2, <2>4, <3>2 DEF new
  <2> QED BY <2>4
<1>3. CASE ~\E r \in Inserts(db) : r[1] = sl
  BY <1>1, <1>3
<1> QED BY <1>2, <1>3

(* The undo of a restore takes back what is still as it was inserted.      *)
LEMMA UndoneRowsKept ==
  ASSUME RowsTyped, UndoGoals, NEW sl \in Slots
  PROVE  LET old == base.rows[sl]
             new == base'.rows[sl] IN
         new = old \/ old = Absent \/ (new = Absent /\ <<sl, old>> \in Records("goals"))
<1> DEFINE old == base.rows[sl]
           new == base'.rows[sl]
           rows == [x \in Slots |->
                      IF \E r \in Records("goals") : r[1] = x THEN Absent ELSE base.rows[x]]
<1>1. CASE base' = base
  BY <1>1
<1>2. CASE base' # base
  <2>1. /\ base' = [base EXCEPT !.rows = rows]
        /\ \A r \in Records("goals") : Removable(base.rows[r[1]], r[2])
    BY <1>2 DEF UndoGoals
  <2>2. rows[sl] = IF \E r \in Records("goals") : r[1] = sl THEN Absent ELSE old
    OBVIOUS
  <2> HIDE DEF rows
  <2>3. new = rows[sl]
    BY <2>1 DEF RowsTyped
  <2>4. CASE \E r \in Records("goals") : r[1] = sl
    <3>1. PICK r \in Records("goals") : r[1] = sl
      BY <2>4
    <3>2. r = <<sl, r[2]>> /\ Removable(old, r[2])
      BY <2>1, <3>1, RecordsTyped
    <3> QED BY <2>2, <2>3, <2>4, <3>1, <3>2 DEF Removable
  <2> QED BY <2>2, <2>3, <2>4
<1> QED BY <1>1, <1>2

(* Nothing a restore or a recovery of the databases does overwrites or     *)
(* removes a row it did not put there (sqlite.ts:1420-1463, 1842-1913).    *)
THEOREM NewerRowsStay == RowsSpec => NewerRowsKept
<1>1. RowsInit => RowsTyped /\ rowWrites \in Nat
  BY RowsTypedInit DEF RowsInit
<1>2. RowsTyped /\ rowWrites \in Nat /\ [RowsNext]_rowVars => (RowsTyped /\ rowWrites \in Nat)'
  <2> SUFFICES ASSUME rowWrites \in Nat, [RowsNext]_rowVars PROVE rowWrites' \in Nat
    BY RowsTypedStep
  <2>1. rowWrites' = rowWrites \/ rowWrites' = rowWrites + 1
    BY DEF RowsNext, StartRows, ExportRecords, DeleteGoalRows, DeleteStateRows, KeepRows, Interrupt,
           ReconcileState, ReconcileGoals, CheckKeys, CheckCounts, RestoreGoals, RestoreState,
           RestoreThrows, UndoGoals, ValidateRows, CodexWritesRows, rowVars
  <2> QED BY <2>1
<1>3. RowsTyped /\ rowWrites \in Nat /\ [RowsNext]_rowVars =>
        [GivesBack => \A sl \in Slots :
           LET old == base.rows[sl]
               new == base'.rows[sl] IN
           \/ new = old
           \/ old = Absent
           \/ sl[2] = "items" /\ old.whose = Nobody /\ new = [old EXCEPT !.whose = new.whose]
           \/ new = Absent /\ op.at = "undoGoals" /\ <<sl, old>> \in Records("goals")]_rowVars
  <2> DEFINE Kept(sl) ==
        LET old == base.rows[sl]
            new == base'.rows[sl] IN
        \/ new = old
        \/ old = Absent
        \/ sl[2] = "items" /\ old.whose = Nobody /\ new = [old EXCEPT !.whose = new.whose]
        \/ new = Absent /\ op.at = "undoGoals" /\ <<sl, old>> \in Records("goals")
  <2> SUFFICES ASSUME RowsTyped, rowWrites \in Nat, RowsNext, GivesBack, NEW sl \in Slots
               PROVE  Kept(sl)
    OBVIOUS
  <2>1. CASE base' = base
    BY <2>1
  <2>2. CASE StartRows \/ DeleteGoalRows \/ DeleteStateRows \/ CodexWritesRows
    <3>1. op.at \notin {"idle", "deleteGoals", "deleteState"} /\ rowWrites' = rowWrites
      BY DEF GivesBack
    <3>2. CASE CodexWritesRows
      BY <3>1, <3>2 DEF CodexWritesRows
    <3> QED BY <2>2, <3>1, <3>2 DEF StartRows, DeleteGoalRows, DeleteStateRows
  <2>3. CASE ReconcileState
    BY <2>1, <2>3, ReconciledRowsKept DEF ReconcileState
  <2>4. CASE ReconcileGoals
    BY <2>1, <2>4, ReconciledRowsKept DEF ReconcileGoals
  <2>5. CASE RestoreGoals
    BY <2>5, RestoredRowsKept DEF RestoreGoals
  <2>6. CASE RestoreState
    BY <2>6, RestoredRowsKept DEF RestoreState
  <2>7. CASE UndoGoals
    <3>1. op.at = "undoGoals"
      BY <2>7 DEF UndoGoals
    <3> QED BY <2>7, <3>1, UndoneRowsKept
  <2> QED BY <2>1, <2>2, <2>3, <2>4, <2>5, <2>6, <2>7
          DEF RowsNext, ExportRecords, KeepRows, Interrupt, CheckKeys, CheckCounts, RestoreThrows,
              ValidateRows
<1> QED BY <1>1, <1>2, <1>3, PTL DEF RowsSpec, NewerRowsKept

-----------------------------------------------------------------------------
(* A reconciliation that was not disturbed has the records of the state    *)
(* database in place before it turns to those of the goals database.       *)
InPlace(db) == \A r \in Records(db) : Present(r)
RecoveryInv ==
  /\ op.at \in {"reconcileGoals", "recovered"} /\ op.calm => InPlace("state")
  /\ op.at = "recovered" /\ op.calm => \A db \in DatabasesInUse : InPlace(db)

(* Records are those of their database.                                    *)
LEMMA RecordsOfOneDatabase ==
  ASSUME RowsTyped, NEW db, NEW r \in Records(db)
  PROVE  r[1][1] = db
<1>1. PICK q \in op.bundle : Home(q[1])[1] = db /\ r = <<Home(q[1]), q[2]>>
  BY DEF Records, RecordsFor
<1> QED BY <1>1

(* What is put back is there, and nothing of another database changes.     *)
LEMMA RecordsArePut ==
  ASSUME RowsTyped, NEW db, ReconcilePossible(db), PutRecords(db), NEW at, To(at)
  PROVE  /\ \A d : Records(d)' = Records(d)
         /\ base'.dedicated = base.dedicated
         /\ InPlace(db)'
         /\ \A d : d # db /\ InPlace(d) => InPlace(d)'
<1> DEFINE rows == [x \in Slots |-> IF \E r \in Records(db) : r[1] = x
                      THEN ReconciledRow(base.rows[x], (CHOOSE r \in Records(db) : r[1] = x)[2])
                      ELSE base.rows[x]]
<1>1. base' = [base EXCEPT !.rows = rows]
  BY DEF PutRecords
<1>2. \A x \in Slots : rows[x] = IF \E r \in Records(db) : r[1] = x
                                THEN (CHOOSE r \in Records(db) : r[1] = x)[2] ELSE base.rows[x]
  BY DEF ReconciledRow
<1> HIDE DEF rows
<1>3. base'.rows = rows /\ base'.dedicated = base.dedicated
  BY <1>1 DEF RowsTyped
<1>4. op'.bundle = op.bundle
  BY DEF To, RowsTyped
<1>5. \A d : Records(d)' = Records(d)
  BY <1>3, <1>4 DEF Records, RecordsFor, Home
<1>6. ASSUME NEW r \in Records(db) PROVE base'.rows[r[1]] = r[2]
  <2> DEFINE of == CHOOSE q \in Records(db) : q[1] = r[1]
  <2>1. of \in Records(db) /\ of[1] = r[1]
    OBVIOUS
  <2>2. r[1] \in Slots
    BY RecordsTyped
  <2>3. rows[r[1]] = of[2]
    BY <1>2, <2>2
  <2> HIDE DEF of
  <2>4. of[2] = r[2]
    BY <2>1 DEF ReconcilePossible
  <2> QED BY <1>3, <2>3, <2>4
<1>7. ASSUME NEW d, d # db, InPlace(d), NEW r \in Records(d) PROVE base'.rows[r[1]] = r[2]
  <2>1. r[1] \in Slots /\ r[1][1] = d
    BY RecordsTyped, RecordsOfOneDatabase
  <2>2. ~\E q \in Records(db) : q[1] = r[1]
    BY <1>7, <2>1, RecordsOfOneDatabase
  <2>3. rows[r[1]] = base.rows[r[1]]
    BY <1>2, <2>1, <2>2
  <2> QED BY <1>3, <1>7, <2>3 DEF InPlace, Present
<1> QED BY <1>3, <1>5, <1>6, <1>7 DEF InPlace, Present

(* Only a reconciliation reaches the places the invariant is about.        *)
LEMMA RecoveryInvStep == RowsTyped /\ RecoveryInv /\ [RowsNext]_rowVars => RecoveryInv'
<1> SUFFICES ASSUME RowsTyped, RecoveryInv, [RowsNext]_rowVars PROVE RecoveryInv'
  OBVIOUS
<1>1. ASSUME op'.at \notin {"reconcileGoals", "recovered"} \/ ~op'.calm PROVE RecoveryInv'
  BY <1>1 DEF RecoveryInv
<1>2. op = [at |-> op.at, trash |-> op.trash, targets |-> op.targets, todo |-> op.todo,
            bundle |-> op.bundle, skipped |-> op.skipped, given |-> op.given, calm |-> op.calm]
  BY DEF RowsTyped
<1>3. ASSUME NEW at, To(at) PROVE op'.at = at /\ op'.calm = op.calm
  BY <1>2, <1>3 DEF To
<1>4. CASE ReconcileState
  <2>1. CASE ReconcilePossible("state")
    <3> DEFINE at == IF base.dedicated THEN "reconcileGoals" ELSE "recovered"
    <3>1. PutRecords("state") /\ To(at)
      BY <1>4, <2>1 DEF ReconcileState
    <3> HIDE DEF at
    <3>2. InPlace("state")' /\ base'.dedicated = base.dedicated /\ op'.at = at
      BY <1>3, <2>1, <3>1, RecordsArePut
    <3>3. CASE base.dedicated
      BY <3>2, <3>3 DEF RecoveryInv, at
    <3>4. CASE ~base.dedicated
      <4>1. DatabasesInUse' = {"state"}
        BY <3>2, <3>4 DEF DatabasesInUse
      <4> QED BY <3>2, <4>1 DEF RecoveryInv
    <3> QED BY <3>3, <3>4
  <2>2. CASE ~ReconcilePossible("state")
    <3>1. To("refused")
      BY <1>4, <2>2 DEF ReconcileState
    <3> QED BY <1>1, <1>3, <3>1
  <2> QED BY <2>1, <2>2
<1>5. CASE ReconcileGoals
  <2>1. CASE ReconcilePossible("goals") /\ op.calm
    <3>1. PutRecords("goals") /\ To("recovered") /\ InPlace("state")
      BY <1>5, <2>1 DEF ReconcileGoals, RecoveryInv
    <3>2. InPlace("state")' /\ InPlace("goals")'
      BY <2>1, <3>1, RecordsArePut
    <3>3. DatabasesInUse' \subseteq {"state", "goals"}
      BY DEF DatabasesInUse
    <3> QED BY <3>2, <3>3 DEF RecoveryInv
  <2>2. CASE ReconcilePossible("goals") /\ ~op.calm
    <3>1. To("recovered")
      BY <1>5, <2>2 DEF ReconcileGoals
    <3> QED BY <1>1, <1>3, <2>2, <3>1
  <2>3. CASE ~ReconcilePossible("goals")
    <3>1. To("refused")
      BY <1>5, <2>3 DEF ReconcileGoals
    <3> QED BY <1>1, <1>3, <3>1
  <2> QED BY <2>1, <2>2, <2>3
<1>6. CASE CodexWritesRows
  <2>1. op' = [op EXCEPT !.calm = FALSE]
    BY <1>6 DEF CodexWritesRows
  <2>2. op'.calm = FALSE
    BY <1>2, <2>1
  <2> QED BY <1>1, <2>2
<1>7. CASE UNCHANGED rowVars
  BY <1>7 DEF rowVars, RecoveryInv, InPlace, Present, Records, RecordsFor, Home, DatabasesInUse
<1>8. CASE DeleteGoalRows \/ DeleteStateRows \/ CheckKeys \/ CheckCounts \/ RestoreThrows
           \/ UndoGoals \/ ValidateRows
  <2>1. PICK at \in {"deleteState", "deleted", "conflict", "checked", "restoreGoals",
                     "restoreState", "undoGoals", "rolledBack", "unsafe", "restored",
                     "unverified"} : To(at)
    BY <1>8 DEF DeleteGoalRows, DeleteStateRows, CheckKeys, CheckCounts, RestoreThrows, UndoGoals,
                ValidateRows
  <2>2. op'.at = at
    BY <1>3, <2>1
  <2> QED BY <1>1, <2>2
<1>9. CASE StartRows \/ ExportRecords \/ KeepRows \/ Interrupt \/ RestoreGoals \/ RestoreState
  <2>1. op'.at \in {"export", "deleteGoals", "deleteState", "trashed", "gone", "reconcileState",
                    "restoreState", "validate"}
    <3>1. CASE StartRows
      BY <3>1 DEF StartRows, NoOp
    <3>2. CASE ExportRecords
      BY <1>2, <3>2 DEF ExportRecords
    <3>3. CASE KeepRows
      BY <1>2, <3>3 DEF KeepRows, To
    <3>4. CASE Interrupt
      BY <1>2, <3>4 DEF Interrupt
    <3>5. CASE RestoreGoals
      BY <1>2, <3>5 DEF RestoreGoals
    <3>6. CASE RestoreState
      BY <1>2, <3>6 DEF RestoreState
    <3> QED BY <1>9, <3>1, <3>2, <3>3, <3>4, <3>5, <3>6
  <2> QED BY <1>1, <2>1
<1> QED BY <1>4, <1>5, <1>6, <1>7, <1>8, <1>9 DEF RowsNext

(* A recovery that was not disturbed leaves every record of the journal in *)
(* place, whatever Codex has written before it and wherever the operation  *)
(* was interrupted (recovery.ts:380, sqlite.ts:1949-1954).                 *)
THEOREM RecoveryIsWhole == RowsSpec => []RecoveredIsWhole
<1>1. RowsInit => RowsTyped /\ RecoveryInv
  BY RowsTypedInit DEF RowsInit, RecoveryInv, NoOp
<1>2. RowsTyped /\ RecoveryInv /\ [RowsNext]_rowVars => (RowsTyped /\ RecoveryInv)'
  BY RowsTypedStep, RecoveryInvStep
<1>3. RecoveryInv => RecoveredIsWhole
  BY DEF RecoveryInv, RecoveredIsWhole, InPlace
<1> QED BY <1>1, <1>2, <1>3, PTL DEF RowsSpec

(***************************************************************************)
(* Proofs about SessionRows while Codex does not write: an operation gives *)
(* back what it took, for any set of sessions and job items.  What the     *)
(* databases hold is followed from one transaction to the next: what was   *)
(* found (origin), what the deletion leaves of it (Left), and what a       *)
(* reconciliation or a restore has put back.                               *)
(***************************************************************************)

(* What the operation found of its sessions, and what it leaves of a row.  *)
Mine(sl)  == Belongs(sl, origin.rows[sl], op.targets)
Left(sl) == AfterDelete(origin.rows[sl], sl)
Puts(sl)  == {r \in op.bundle : Home(r[1]) = sl}
Noted(r)  == r[1] \in Slots /\ Mine(r[1]) /\ r = <<r[1], origin.rows[r[1]]>>
Exporting ==
  /\ \A d \in op.todo : d[1] \in op.targets
  /\ \A r \in op.bundle : Noted(r)
  /\ \A sl \in Slots, t \in op.targets :
       Belongs(sl, origin.rows[sl], {t}) => <<t, sl[1]>> \in op.todo \/ <<sl, origin.rows[sl]>> \in op.bundle
Bundled ==
  /\ \A r \in op.bundle : Noted(r)
  /\ \A sl \in Slots : Mine(sl) => \E r \in op.bundle : Home(r[1]) = Home(sl)

(* The rows, half way between what was found and what is left.             *)
Half(sl)   == base.rows[sl] \in {origin.rows[sl], Left(sl)} \cup {r[2] : r \in Puts(sl)}
HalfWay    == \A sl \in Slots : Half(sl)
GoalsLeft  == \A sl \in Slots : base.rows[sl] = IF sl[1] = "goals" THEN Left(sl) ELSE origin.rows[sl]
AllLeft   == \A sl \in Slots : base.rows[sl] = Left(sl)
GoalsBack  == \A sl \in Slots :
  /\ \A r \in Records("goals") : r[1] = sl => base.rows[sl] = r[2]
  /\ (\A r \in Records("goals") : r[1] # sl) => base.rows[sl] = Left(sl)

(* The databases as they were found: no row without its table, and a table *)
(* for goals where a goal would be put back.                               *)
FoundOK ==
  /\ origin.rows \in [Slots -> Content] /\ rowWrites \in Nat /\ op.targets \subseteq RowSessions
  /\ \A sl \in Slots : origin.rows[sl] # Absent =>
       /\ origin.rows[sl] \in RowsOf(sl[2])
       /\ PlaceOf(sl) \in origin.present
       /\ sl[1] = "goals" => origin.dedicated
       /\ sl[2] = "goals" /\ origin.dedicated => <<"goals", "goals">> \in origin.present

NotGiven == {"export", "deleteGoals", "deleteState", "deleted", "trashed", "checked", "restoreGoals"}
LeftAt  == {"deleted", "trashed", "gone", "checked", "restoreGoals", "rolledBack"}
Progress ==
  /\ base.dedicated = origin.dedicated /\ base.present = origin.present
  /\ op.skipped = {}
  /\ op.at \notin {"refused", "unsafe", "conflict", "unverified"}
  /\ op.at = "export" => Exporting
  /\ op.at \in {"export", "deleteGoals"} => base.rows = origin.rows
  /\ op.at \notin {"idle", "export"} => Bundled /\ HalfWay
  /\ op.at \in NotGiven => ~op.given
  /\ op.at = "deleteState" => GoalsLeft
  /\ op.at \in LeftAt => AllLeft
  /\ op.at \in {"restoreState", "undoGoals"} => GoalsBack /\ (~op.given => Records("goals") = {})
  /\ op.at \in {"validate", "restored", "recovered"} => InPlace("state") /\ InPlace("goals")
  /\ op.at = "reconcileGoals" => InPlace("state")
Calm    == rowWrites = 0 /\ OneOfEachKey(OriginRecords)
RowsInv == FoundOK /\ (Calm => Progress)
(* A home is a slot of its own home, and only a goal is put elsewhere than *)
(* where it was found.                                                     *)
LEMMA HomeOfHome ==
  ASSUME NEW sl \in Slots
  PROVE  /\ Home(Home(sl)) = Home(sl) /\ Home(sl)[2] = sl[2] /\ Home(sl)[3] = sl[3]
         /\ Home(sl)[1] \in {"state", "goals"}
         /\ sl[1] = "goals" => sl[2] = "goals"
         /\ sl[2] # "goals" => Home(sl) = sl
         /\ sl[2] = "goals" => Home(sl)[1] = IF base.dedicated THEN "goals" ELSE "state"
         /\ sl[2] = "goals" /\ base.dedicated => Home(sl) = <<"goals", "goals", sl[3]>>
         /\ sl[1] = Home(sl)[1] => Home(sl) = sl
<1>1. sl = <<sl[1], sl[2], sl[3]>>
  BY HomesAreSlots
<1>2. PICK p \in Places : \E k \in Keys(p[2]) : sl = <<p[1], p[2], k>>
  BY DEF Slots
<1>3. p[1] \in {"state", "goals"} /\ (p[1] = "goals" => p[2] = "goals") /\ (p[2] # "goals" => p[1] = "state")
  BY DEF Places
<1>4. Home(sl) = <<IF sl[2] = "goals" /\ base.dedicated THEN "goals" ELSE "state", sl[2], sl[3]>>
  BY DEF Home
<1>5. Home(sl)[1] = (IF sl[2] = "goals" /\ base.dedicated THEN "goals" ELSE "state")
      /\ Home(sl)[2] = sl[2] /\ Home(sl)[3] = sl[3]
  BY <1>4
<1>6. Home(Home(sl)) = <<IF Home(sl)[2] = "goals" /\ base.dedicated THEN "goals" ELSE "state", Home(sl)[2], Home(sl)[3]>>
  BY DEF Home
<1> QED BY <1>1, <1>2, <1>3, <1>4, <1>5, <1>6

(* What belongs to the sessions.                                           *)
LEMMA MineShape ==
  ASSUME NEW sl \in Slots, Mine(sl)
  PROVE  /\ origin.rows[sl] # Absent
         /\ sl[2] = "goals" => sl[3] \in op.targets
         /\ sl[2] # "items" => Left(sl) = Absent
         /\ sl[2] = "items" => Left(sl) = [origin.rows[sl] EXCEPT !.whose = Nobody]
BY DEF Mine, Belongs, Left, AfterDelete
LEMMA NotMine ==
  ASSUME NEW sl \in Slots, ~Mine(sl)
  PROVE  Left(sl) = origin.rows[sl] /\ (sl[2] = "goals" /\ sl[3] \in op.targets => Left(sl) = Absent)
BY DEF Mine, Belongs, Left, AfterDelete
LEMMA LeftOfNone ==
  ASSUME NEW sl \in Slots, origin.rows[sl] = Absent PROVE Left(sl) = Absent /\ ~Mine(sl)
BY DEF Mine, Belongs, Left, AfterDelete

(* Of two rows with one home the contents are the same.                    *)
LEMMA OneKey ==
  ASSUME Calm, NEW a \in Slots, NEW b \in Slots, Home(a) = Home(b),
         origin.rows[a] # Absent, origin.rows[b] # Absent
  PROVE  origin.rows[a] = origin.rows[b]
<1>1. <<a, origin.rows[a]>> \in OriginRecords /\ <<b, origin.rows[b]>> \in OriginRecords
  BY DEF OriginRecords
<1> QED BY <1>1 DEF Calm, OneOfEachKey, SameKey

(* A row of the bundle, and where it is put.                               *)
LEMMA PutFits ==
  ASSUME FoundOK, Calm, base.dedicated = origin.dedicated, base.present = origin.present,
         NEW r \in op.bundle, Noted(r), NEW sl, sl = Home(r[1])
  PROVE  /\ sl \in Slots /\ PlaceOf(sl) \in base.present
         /\ r[2] = origin.rows[r[1]] /\ r[2] # Absent /\ r[2] \in Content
         /\ origin.rows[sl] \in {Absent, r[2]}
         /\ Left(sl) = Absent \/ (sl[2] = "items" /\ Left(sl) = [r[2] EXCEPT !.whose = Nobody])
<1> DEFINE x == r[1]
<1>1. x \in Slots /\ Mine(x) /\ r[2] = origin.rows[x] /\ sl = Home(x)
  BY DEF Noted
<1> HIDE DEF x
<1>2. r[2] # Absent /\ r[2] \in Content /\ sl \in Slots
  BY <1>1, MineShape, HomesAreSlots DEF FoundOK
<1>3. PlaceOf(sl) \in base.present
  <2>1. CASE sl = x
    BY <1>1, <1>2, <2>1 DEF FoundOK
  <2>2. CASE sl # x
    <3>1. x[2] = "goals" /\ base.dedicated /\ sl = <<"goals", "goals", x[3]>>
      <4>1. x[2] = "goals"
        BY <1>1, <2>2, HomeOfHome
      <4>2. CASE ~base.dedicated
        <5>1. sl[1] = "state" /\ x[1] # "state"
          BY <1>1, <2>2, <4>1, <4>2, HomeOfHome
        <5>2. x[1] \in {"state", "goals"}
          BY <1>1 DEF Slots, Places
        <5>3. origin.dedicated
          BY <1>1, <1>2, <5>1, <5>2 DEF FoundOK
        <5> QED BY <4>2, <5>3
      <4> QED BY <1>1, <4>1, <4>2, HomeOfHome
    <3>2. <<"goals", "goals">> \in origin.present
      BY <1>1, <1>2, <3>1 DEF FoundOK
    <3> QED BY <3>1, <3>2 DEF PlaceOf
  <2> QED BY <2>1, <2>2
<1>4. origin.rows[sl] \in {Absent, r[2]}
  <2>1. Home(sl) = Home(x)
    BY <1>1, HomeOfHome
  <2> QED BY <1>1, <1>2, <2>1, OneKey
<1>5. Left(sl) = Absent \/ (sl[2] = "items" /\ Left(sl) = [r[2] EXCEPT !.whose = Nobody])
  <2>1. CASE sl[2] # "goals"
    <3>1. sl = x
      BY <1>1, <2>1, HomeOfHome
    <3> QED BY <1>1, <3>1, MineShape
  <2>2. CASE sl[2] = "goals"
    <3>1. x[2] = "goals" /\ sl[3] = x[3]
      BY <1>1, <2>2, HomeOfHome
    <3>2. sl[3] \in op.targets
      BY <1>1, <3>1, MineShape
    <3> QED BY <1>2, <2>2, <3>2, MineShape, NotMine
  <2> QED BY <2>1, <2>2
<1> QED BY <1>1, <1>2, <1>3, <1>4, <1>5 DEF x

(* Whatever is put at a slot is the same.                                  *)
LEMMA PutsAgree ==
  ASSUME Calm, NEW r \in op.bundle, NEW q \in op.bundle, Noted(r), Noted(q), Home(r[1]) = Home(q[1])
  PROVE  r[2] = q[2]
<1>1. /\ r[1] \in Slots /\ q[1] \in Slots /\ Mine(r[1]) /\ Mine(q[1])
      /\ r[2] = origin.rows[r[1]] /\ q[2] = origin.rows[q[1]]
  BY DEF Noted
<1>2. origin.rows[r[1]] # Absent /\ origin.rows[q[1]] # Absent
  BY <1>1, MineShape
<1> QED BY <1>1, <1>2, OneKey

(* The records of a database are what is put there.                        *)
LEMMA RecordsArePuts ==
  /\ \A db, sl, row : <<sl, row>> \in Records(db) <=> (sl[1] = db /\ \E r \in Puts(sl) : r[2] = row)
  /\ \A db : \A r \in Records(db) : r = <<r[1], r[2]>>
<1>1. \A db : Records(db) = {<<Home(r[1]), r[2]>> : r \in {q \in op.bundle : Home(q[1])[1] = db}}
  BY DEF Records, RecordsFor
<1> QED BY <1>1 DEF Puts

(* The state the lemmas below are about: the rows are half way.            *)
Midway == /\ RowsTyped /\ FoundOK /\ Calm /\ Bundled
          /\ base.dedicated = origin.dedicated /\ base.present = origin.present

(* A record of a half way state may be put, and is put once.               *)
LEMMA RecordFits ==
  ASSUME Midway, NEW db, NEW r \in Records(db)
  PROVE  /\ r[1] \in Slots /\ r[1][1] = db /\ PlaceOf(r[1]) \in base.present
         /\ r[2] # Absent /\ r[2] \in Content
         /\ origin.rows[r[1]] \in {Absent, r[2]}
         /\ Left(r[1]) = Absent \/ (r[1][2] = "items" /\ Left(r[1]) = [r[2] EXCEPT !.whose = Nobody])
         /\ \A q \in Puts(r[1]) : q[2] = r[2]
         /\ \A q \in Records(db) : q[1] = r[1] => q[2] = r[2]
<1>1. r = <<r[1], r[2]>> /\ r[1][1] = db /\ \E q \in Puts(r[1]) : q[2] = r[2]
  BY RecordsArePuts
<1>2. PICK q \in op.bundle : Home(q[1]) = r[1] /\ q[2] = r[2]
  BY <1>1 DEF Puts
<1>3. \A x \in op.bundle : Noted(x)
  BY DEF Midway, Bundled
<1>4. /\ r[1] \in Slots /\ PlaceOf(r[1]) \in base.present
      /\ r[2] # Absent /\ r[2] \in Content
      /\ origin.rows[r[1]] \in {Absent, r[2]}
      /\ Left(r[1]) = Absent \/ (r[1][2] = "items" /\ Left(r[1]) = [r[2] EXCEPT !.whose = Nobody])
  BY <1>2, <1>3, PutFits DEF Midway
<1>5. \A x \in Puts(r[1]) : x[2] = r[2]
  <2> SUFFICES ASSUME NEW x \in op.bundle, Home(x[1]) = r[1] PROVE x[2] = r[2]
    BY DEF Puts
  <2> QED BY <1>2, <1>3, PutsAgree DEF Midway
<1>6. ASSUME NEW x \in Records(db), x[1] = r[1] PROVE x[2] = r[2]
  <2>1. x = <<x[1], x[2]>>
    BY RecordsArePuts
  <2>2. \E y \in Puts(r[1]) : y[2] = x[2]
    BY <1>6, <2>1, RecordsArePuts
  <2> QED BY <1>5, <2>2
<1> QED BY <1>1, <1>4, <1>5, <1>6

LEMMA RecordIsOne ==
  ASSUME Midway, NEW db, NEW r \in Records(db), NEW q \in Records(db), q[1] = r[1]
  PROVE  q[2] = r[2]
<1>1. \A x \in Puts(r[1]) : x[2] = r[2]
  BY RecordFits
<1>2. \E x \in Puts(q[1]) : x[2] = q[2]
  BY RecordsArePuts
<1> QED BY <1>1, <1>2

(* A reconciliation is never refused.                                      *)
LEMMA HalfWayReconciles ==
  ASSUME Midway, HalfWay, NEW db PROVE ReconcilePossible(db)
<1> SUFFICES ASSUME NEW r \in Records(db)
             PROVE  /\ PlaceOf(r[1]) \in base.present
                    /\ Reconcilable(base.rows[r[1]], r[1], r[2])
                    /\ \A q \in Records(db) : q[1] = r[1] => q[2] = r[2]
  BY DEF ReconcilePossible
<1>1. base.rows[r[1]] \in {Absent, r[2]}
      \/ (r[1][2] = "items" /\ base.rows[r[1]] = [r[2] EXCEPT !.whose = Nobody])
  BY RecordFits DEF HalfWay, Half
<1> QED BY <1>1, RecordFits DEF Reconcilable

(* What is put is the record of the slot.                                  *)
LEMMA PutRows ==
  ASSUME Midway, HalfWay, NEW db, PutRecords(db), NEW sl \in Slots
  PROVE  \/ (\A r \in Records(db) : r[1] # sl) /\ base'.rows[sl] = base.rows[sl]
         \/ \E r \in Records(db) : r[1] = sl /\ base'.rows[sl] = r[2]
<1> DEFINE rows == [x \in Slots |-> IF \E r \in Records(db) : r[1] = x
                      THEN ReconciledRow(base.rows[x], (CHOOSE r \in Records(db) : r[1] = x)[2])
                      ELSE base.rows[x]]
<1>1. base' = [base EXCEPT !.rows = rows]
  BY DEF PutRecords
<1>2. rows[sl] = IF \E r \in Records(db) : r[1] = sl
                 THEN (CHOOSE r \in Records(db) : r[1] = sl)[2] ELSE base.rows[sl]
  BY DEF ReconciledRow
<1> HIDE DEF rows
<1>3. base'.rows = rows
  BY <1>1 DEF RowsTyped, Midway
<1> QED BY <1>2, <1>3

(* Whoever is in place stays half way.                                     *)
LEMMA PlacedIsHalf ==
  ASSUME Midway, NEW db, NEW r \in Records(db), base.rows[r[1]] = r[2] PROVE Half(r[1])
<1>1. r = <<r[1], r[2]>> /\ \E q \in Puts(r[1]) : q[2] = r[2]
  BY RecordsArePuts
<1> QED BY <1>1 DEF Half

(* With every record in place the rows are back.                           *)
LEMMA AllComeBack ==
  ASSUME Midway, HalfWay, InPlace("state"), InPlace("goals")
  PROVE  AllRecords(base) = AllRecords(origin)
<1>0. \A sl \in Slots : Mine(sl) => \E r \in op.bundle : Home(r[1]) = Home(sl)
  BY DEF Midway, Bundled
<1>1. ASSUME NEW sl \in Slots, NEW r \in op.bundle, Home(r[1]) = sl
      PROVE  base.rows[sl] = r[2] /\ r[2] = origin.rows[r[1]] /\ r[1] \in Slots /\ r[2] # Absent
  <2>1. Noted(r)
    BY DEF Midway, Bundled
  <2>2. r[1] \in Slots /\ r[2] = origin.rows[r[1]] /\ sl[1] \in {"state", "goals"}
    BY <1>1, <2>1, HomeOfHome DEF Noted
  <2>3. <<sl, r[2]>> \in Records(sl[1])
    BY <1>1, RecordsArePuts DEF Puts
  <2>4. base.rows[sl] = r[2]
    BY <2>2, <2>3 DEF InPlace, Present
  <2> QED BY <2>2, <2>3, <2>4, RecordFits
<1>2. ASSUME NEW sl \in Slots, base.rows[sl] # Absent
      PROVE  <<Home(sl), base.rows[sl]>> \in AllRecords(origin)
  <2>1. CASE \E r \in Puts(sl) : base.rows[sl] = r[2]
    <3> PICK r \in op.bundle : Home(r[1]) = sl /\ base.rows[sl] = r[2]
      BY <2>1 DEF Puts
    <3>1. r[2] = origin.rows[r[1]] /\ r[1] \in Slots
      BY <1>1
    <3>2. Home(sl) = Home(r[1])
      BY <3>1, HomeOfHome
    <3> QED BY <1>2, <3>1, <3>2 DEF AllRecords
  <2>2. CASE base.rows[sl] = origin.rows[sl]
    BY <1>2, <2>2 DEF AllRecords
  <2>3. CASE base.rows[sl] = Left(sl) /\ base.rows[sl] # origin.rows[sl]
    <3>1. Mine(sl) /\ sl[2] = "items"
      BY <1>2, <2>3, MineShape, NotMine
    <3>2. Home(sl) = sl
      BY <3>1, HomeOfHome
    <3>3. PICK r \in op.bundle : Home(r[1]) = sl
      BY <1>0, <3>1, <3>2
    <3>4. base.rows[sl] = r[2]
      BY <1>1, <3>3
    <3> QED BY <2>1, <3>3, <3>4 DEF Puts
  <2> QED BY <2>1, <2>2, <2>3 DEF HalfWay, Half
<1>3. ASSUME NEW sl \in Slots, origin.rows[sl] # Absent
      PROVE  <<Home(sl), origin.rows[sl]>> \in AllRecords(base)
  <2>1. CASE Mine(sl)
    <3>1. PICK r \in op.bundle : Home(r[1]) = Home(sl)
      BY <1>0, <2>1
    <3>2. /\ Home(sl) \in Slots /\ Home(Home(sl)) = Home(sl)
          /\ base.rows[Home(sl)] = r[2] /\ r[2] = origin.rows[r[1]] /\ r[1] \in Slots /\ r[2] # Absent
      BY <1>1, <3>1, HomesAreSlots, HomeOfHome
    <3>3. origin.rows[r[1]] = origin.rows[sl]
      BY <1>3, <3>1, <3>2, OneKey DEF Midway
    <3> QED BY <3>2, <3>3 DEF AllRecords
  <2>2. CASE ~Mine(sl)
    <3>1. base.rows[sl] = origin.rows[sl]
      <4>1. CASE \E r \in Puts(sl) : base.rows[sl] = r[2]
        <5> PICK r \in op.bundle : Home(r[1]) = sl /\ base.rows[sl] = r[2]
          BY <4>1 DEF Puts
        <5>1. Noted(r)
          BY DEF Midway, Bundled
        <5>2. origin.rows[sl] \in {Absent, r[2]}
          BY <5>1, PutFits DEF Midway
        <5> QED BY <1>3, <5>2
      <4> QED BY <2>2, <4>1, NotMine DEF HalfWay, Half
    <3> QED BY <1>3, <3>1 DEF AllRecords
  <2> QED BY <2>1, <2>2
<1>4. AllRecords(base) \subseteq AllRecords(origin)
  BY <1>2 DEF AllRecords
<1>5. AllRecords(origin) \subseteq AllRecords(base)
  BY <1>3 DEF AllRecords
<1> QED BY <1>4, <1>5

-----------------------------------------------------------------------------
(* The steps.  What an operation found and collected stays.                *)
SameDeal == /\ base'.dedicated = base.dedicated /\ base'.present = base.present
            /\ origin' = origin /\ rowWrites' = rowWrites
            /\ op'.targets = op.targets /\ op'.bundle = op.bundle
LEMMA DealStays ==
  ASSUME SameDeal
  PROVE  /\ \A sl : Home(sl)' = Home(sl) /\ Left(sl)' = Left(sl) /\ Puts(sl)' = Puts(sl)
         /\ \A db : Records(db)' = Records(db)
         /\ (Bundled' <=> Bundled) /\ (FoundOK' <=> FoundOK)
<1>1. \A sl : Home(sl)' = Home(sl)
  BY DEF SameDeal, Home
<1>2. \A sl : Left(sl)' = Left(sl) /\ (Mine(sl)' <=> Mine(sl))
  BY DEF SameDeal, Left, AfterDelete, Belongs, Mine
<1>3. \A sl : Puts(sl)' = Puts(sl)
  BY <1>1 DEF SameDeal, Puts
<1>4. \A db : Records(db)' = Records(db)
  BY <1>1 DEF SameDeal, Records, RecordsFor
<1>5. \A r : Noted(r)' <=> Noted(r)
  BY <1>2 DEF SameDeal, Noted
<1>6. Bundled' <=> Bundled
  BY <1>1, <1>2, <1>5 DEF SameDeal, Bundled
<1>7. FoundOK' <=> FoundOK
  BY DEF SameDeal, FoundOK
<1> QED BY <1>1, <1>2, <1>3, <1>4, <1>6, <1>7

(* So does what the rows are, where they stay.                             *)
LEMMA RowsStay ==
  ASSUME SameDeal, base'.rows = base.rows
  PROVE  /\ HalfWay' <=> HalfWay
         /\ AllLeft' <=> AllLeft
         /\ GoalsBack' <=> GoalsBack
         /\ \A db : InPlace(db)' <=> InPlace(db)
<1>1. \A sl : Half(sl)' <=> Half(sl)
  BY DealStays DEF Half, SameDeal
<1>2. AllLeft' <=> AllLeft
  BY DealStays DEF AllLeft
<1>3. GoalsBack' <=> GoalsBack
  BY DealStays DEF GoalsBack
<1>4. \A db : InPlace(db)' <=> InPlace(db)
  BY DealStays DEF InPlace, Present
<1> QED BY <1>1, <1>2, <1>3, <1>4 DEF HalfWay

(* Rows that were left, or found, are half way.                            *)
LeftOrFound == (AllLeft => HalfWay) /\ (GoalsLeft => HalfWay) /\ (base.rows = origin.rows => HalfWay)
LEMMA LeftIsHalf == LeftOrFound
BY DEF LeftOrFound, AllLeft, GoalsLeft, HalfWay, Half
LEMMA LeftIsHalfNext == LeftOrFound'
BY LeftIsHalf, PTL

(* A place in the operation.                                               *)
LEMMA Goes ==
  ASSUME RowsTyped, NEW at, To(at), base' = base, origin' = origin, rowWrites' = rowWrites
  PROVE  /\ op'.at = at /\ op'.skipped = op.skipped /\ op'.given = op.given /\ op'.todo = op.todo
         /\ SameDeal /\ base'.rows = base.rows
BY DEF To, RowsTyped, SameDeal
LEMMA GoesOn ==
  ASSUME RowsTyped, NEW at, To(at)
  PROVE  /\ op'.at = at /\ op'.skipped = op.skipped /\ op'.given = op.given
         /\ op'.targets = op.targets /\ op'.bundle = op.bundle
BY DEF To, RowsTyped

(* Without a database for goals nothing is put there.                      *)
LEMMA NoGoals ==
  ASSUME ~base.dedicated PROVE Records("goals") = {}
<1>1. \A sl : Home(sl)[1] = "state"
  BY DEF Home
<1> QED BY <1>1 DEF Records, RecordsFor

(* Where everything is left, nothing of the sessions is there.             *)
LEMMA NothingLives ==
  ASSUME FoundOK, AllLeft PROVE ~LiveRows
<1> SUFFICES ASSUME NEW sl \in Slots, Belongs(sl, Left(sl), op.targets) PROVE FALSE
  BY DEF LiveRows, AllLeft
<1>1. Mine(sl) /\ sl[2] = "items"
  BY MineShape, NotMine DEF Belongs, Mine
<1>2. origin.rows[sl] \in Content
  BY DEF FoundOK
<1>3. Left(sl) = [origin.rows[sl] EXCEPT !.whose = Nobody]
  BY <1>1, MineShape
<1>4. Left(sl).whose = Nobody
  BY <1>2, <1>3, ContentShape
<1> QED BY <1>1, <1>4, RowAssumption DEF Belongs, FoundOK

(* A record finds its key free, and then is what it was.                   *)
LEMMA KeyIsFree ==
  ASSUME Midway, NEW db, NEW r \in Records(db), base.rows[r[1]] = Left(r[1])
  PROVE  /\ base.rows[r[1]] # Absent => r[1][2] = "items" /\ base.rows[r[1]].whose = Nobody
         /\ RestoredRow(base.rows[r[1]], r[2]) = r[2]
<1>1. /\ r[2] \in Content
      /\ Left(r[1]) = Absent \/ (r[1][2] = "items" /\ Left(r[1]) = [r[2] EXCEPT !.whose = Nobody])
  BY RecordFits
<1>2. r[2] = [whose |-> r[2].whose, body |-> r[2].body]
  BY <1>1, ContentShape
<1>3. CASE Left(r[1]) = Absent
  BY <1>3 DEF RestoredRow
<1>4. CASE r[1][2] = "items" /\ Left(r[1]) = [r[2] EXCEPT !.whose = Nobody] /\ Left(r[1]) # Absent
  <2>1. base.rows[r[1]] = [whose |-> Nobody, body |-> r[2].body]
    BY <1>2, <1>4
  <2>2. [base.rows[r[1]] EXCEPT !.whose = r[2].whose] = r[2]
    BY <1>2, <2>1
  <2> QED BY <1>4, <2>1, <2>2 DEF RestoredRow
<1> QED BY <1>1, <1>3, <1>4

(* Nothing is skipped, and a restored row is the record.                   *)
LEMMA AllInserted ==
  ASSUME Midway, NEW db PROVE Skipped(db) = {} /\ Inserts(db) = Records(db)
<1>1. \A r \in Records(db) : PlaceOf(r[1]) \in base.present
  BY RecordFits
<1> QED BY <1>1 DEF Skipped, Inserts
LEMMA InsertedRows ==
  ASSUME Midway, NEW db, InsertRows(db), NEW sl \in Slots
  PROVE  \/ (\A r \in Records(db) : r[1] # sl) /\ base'.rows[sl] = base.rows[sl]
         \/ \E r \in Records(db) : r[1] = sl /\ base'.rows[sl] = RestoredRow(base.rows[sl], r[2])
<1> DEFINE rows == [x \in Slots |-> IF \E r \in Inserts(db) : r[1] = x
                      THEN RestoredRow(base.rows[x], (CHOOSE r \in Inserts(db) : r[1] = x)[2])
                      ELSE base.rows[x]]
<1>1. base' = [base EXCEPT !.rows = rows]
  BY DEF InsertRows
<1>2. rows[sl] = IF \E r \in Inserts(db) : r[1] = sl
                 THEN RestoredRow(base.rows[sl], (CHOOSE r \in Inserts(db) : r[1] = sl)[2])
                 ELSE base.rows[sl]
  OBVIOUS
<1> HIDE DEF rows
<1>3. base'.rows = rows
  BY <1>1 DEF RowsTyped, Midway
<1> QED BY <1>2, <1>3, AllInserted

-----------------------------------------------------------------------------
(* The export.                                                             *)
LEMMA MineOfOne ==
  ASSUME NEW sl \in Slots
  PROVE  Mine(sl) <=> \E t \in op.targets : Belongs(sl, origin.rows[sl], {t})
BY DEF Mine, Belongs
LEMMA ExportProgress ==
  ASSUME RowsTyped, FoundOK, Calm, Progress, ExportRecords
  PROVE  Progress'
<1>0. /\ op.at = "export" /\ Exporting /\ base.rows = origin.rows /\ op.skipped = {} /\ ~op.given
      /\ base.dedicated = origin.dedicated /\ base.present = origin.present
      /\ base' = base /\ origin' = origin /\ rowWrites' = rowWrites
  BY DEF Progress, ExportRecords, NotGiven
<1> PICK d \in op.todo : op' = [op EXCEPT !.todo = op.todo \ {d},
                           !.bundle = op.bundle \cup Exported(base.rows, d[2], {d[1]}),
                           !.at = IF op.todo # {d} THEN "export"
                                  ELSE IF base.dedicated THEN "deleteGoals" ELSE "deleteState"]
  BY DEF ExportRecords
<1> DEFINE new == Exported(base.rows, d[2], {d[1]})
           at  == IF op.todo # {d} THEN "export"
                  ELSE IF base.dedicated THEN "deleteGoals" ELSE "deleteState"
<1>1. /\ op'.todo = op.todo \ {d} /\ op'.bundle = op.bundle \cup new /\ op'.at = at
      /\ op'.targets = op.targets /\ op'.skipped = op.skipped /\ op'.given = op.given
  BY DEF RowsTyped
<1>2. new = {<<sl, origin.rows[sl]>> : sl \in {x \in Slots : x[1] = d[2] /\ Belongs(x, origin.rows[x], {d[1]})}}
  BY <1>0 DEF Exported
<1> HIDE DEF new, at
<1>3. \A sl : (Mine(sl)' <=> Mine(sl)) /\ Home(sl)' = Home(sl) /\ Left(sl)' = Left(sl)
  BY <1>0, <1>1 DEF Mine, Belongs, Home, Left, AfterDelete
<1>4. \A r : Noted(r)' <=> Noted(r)
  BY <1>0, <1>3 DEF Noted
<1>5. \A r \in op'.bundle : Noted(r)'
  <2> SUFFICES ASSUME NEW r \in new PROVE Noted(r)
    BY <1>0, <1>1, <1>4 DEF Exporting
  <2>1. PICK sl \in Slots : r = <<sl, origin.rows[sl]>> /\ Belongs(sl, origin.rows[sl], {d[1]})
    BY <1>2
  <2>2. d[1] \in op.targets
    BY <1>0 DEF Exporting
  <2>3. Mine(sl)
    BY <2>1, <2>2, MineOfOne
  <2> QED BY <2>1, <2>3 DEF Noted
<1>6. ASSUME NEW sl \in Slots, NEW t \in op.targets, Belongs(sl, origin.rows[sl], {t})
      PROVE  <<t, sl[1]>> \in op'.todo \/ <<sl, origin.rows[sl]>> \in op'.bundle
  <2>1. CASE <<t, sl[1]>> = d
    <3>1. sl[1] = d[2] /\ t = d[1]
      BY <2>1
    <3>2. <<sl, origin.rows[sl]>> \in new
      BY <1>2, <1>6, <3>1
    <3> QED BY <1>1, <3>2
  <2>2. CASE <<t, sl[1]>> # d
    BY <1>0, <1>1, <1>6, <2>2 DEF Exporting
  <2> QED BY <2>1, <2>2
<1>7. Exporting'
  <2>1. \A x \in op'.todo : x[1] \in op.targets
    BY <1>0, <1>1 DEF Exporting
  <2>2. \A sl, t : Belongs(sl, origin.rows[sl], {t})' <=> Belongs(sl, origin.rows[sl], {t})
    BY <1>0 DEF Belongs
  <2> QED BY <1>0, <1>1, <1>5, <1>6, <2>1, <2>2 DEF Exporting
<1>8. HalfWay'
  BY <1>0, LeftIsHalfNext DEF LeftOrFound
<1>9. CASE op.todo # {d}
  <2>1. op'.at = "export"
    BY <1>1, <1>9 DEF at
  <2> QED BY <1>0, <1>1, <1>7, <2>1 DEF Progress, LeftAt
<1>10. CASE op.todo = {d}
  <2>1. op'.at \in {"deleteGoals", "deleteState"} /\ (op'.at = "deleteState" => ~base.dedicated)
    BY <1>1, <1>10 DEF at
  <2>2. ASSUME NEW sl \in Slots, Mine(sl) PROVE \E r \in op'.bundle : Home(r[1]) = Home(sl)
    <3> PICK t \in op.targets : Belongs(sl, origin.rows[sl], {t})
      BY <2>2, MineOfOne
    <3>1. <<sl, origin.rows[sl]>> \in op'.bundle
      BY <1>1, <1>6, <1>10
    <3> QED BY <3>1
  <2>3. Bundled'
    BY <1>3, <1>5, <2>2 DEF Bundled
  <2>4. op'.at = "deleteState" => GoalsLeft'
    <3> SUFFICES ASSUME ~base.dedicated, NEW sl \in Slots, sl[1] = "goals" PROVE Left(sl) = origin.rows[sl]
      BY <1>0, <1>3, <2>1 DEF GoalsLeft
    <3>1. origin.rows[sl] = Absent
      BY <1>0 DEF FoundOK
    <3> QED BY <3>1, LeftOfNone
  <2> QED BY <1>0, <1>1, <1>8, <2>1, <2>3, <2>4 DEF Progress, LeftAt
<1> QED BY <1>9, <1>10

(* The deletion.                                                           *)
LEMMA DeletedRows ==
  ASSUME RowsTyped, NEW db, DeleteRows(db)
  PROVE  /\ \A sl \in Slots : base'.rows[sl] = IF sl[1] = db THEN AfterDelete(base.rows[sl], sl) ELSE base.rows[sl]
         /\ base'.dedicated = base.dedicated /\ base'.present = base.present
BY DEF RowsTyped, DeleteRows
LEMMA SlotDatabases == \A sl \in Slots : sl[1] \in {"state", "goals"}
BY DEF Slots, Places
LEMMA DeleteProgress ==
  ASSUME RowsTyped, FoundOK, Calm, Progress, DeleteGoalRows \/ DeleteStateRows
  PROVE  Progress'
<1>1. PICK db \in {"goals", "state"}, at \in {"deleteState", "deleted"} :
        /\ DeleteRows(db) /\ To(at) /\ origin' = origin /\ rowWrites' = rowWrites
        /\ db = "goals" => op.at = "deleteGoals" /\ at = "deleteState"
        /\ db = "state" => op.at = "deleteState" /\ at = "deleted"
  BY DEF DeleteGoalRows, DeleteStateRows
<1>2. op'.at = at /\ op'.skipped = op.skipped /\ op'.given = op.given /\ SameDeal
  BY <1>1, GoesOn, DeletedRows DEF SameDeal
<1>3. /\ Bundled' /\ op.skipped = {} /\ ~op.given
      /\ base.dedicated = origin.dedicated /\ base.present = origin.present
  BY <1>1, <1>2, DealStays DEF Progress, NotGiven
<1>4. \A sl \in Slots : base'.rows[sl] = IF sl[1] = db THEN AfterDelete(base.rows[sl], sl) ELSE base.rows[sl]
  BY <1>1, DeletedRows
<1>5. CASE db = "goals"
  <2>1. base.rows = origin.rows
    BY <1>1, <1>5 DEF Progress
  <2>2. GoalsLeft'
    BY <1>2, <1>4, <1>5, <2>1, DealStays DEF GoalsLeft, Left, SameDeal
  <2>3. HalfWay'
    BY <2>2, LeftIsHalfNext DEF LeftOrFound
  <2> QED BY <1>1, <1>2, <1>3, <1>5, <2>2, <2>3 DEF Progress, SameDeal, LeftAt
<1>6. CASE db = "state"
  <2>1. GoalsLeft
    BY <1>1, <1>6 DEF Progress
  <2>2. AllLeft'
    BY <1>2, <1>4, <1>6, <2>1, DealStays, SlotDatabases DEF GoalsLeft, AllLeft, Left
  <2>3. HalfWay'
    BY <2>2, LeftIsHalfNext DEF LeftOrFound
  <2> QED BY <1>1, <1>2, <1>3, <1>6, <2>2, <2>3 DEF Progress, SameDeal, LeftAt
<1> QED BY <1>5, <1>6

(* What the trash keeps is one record of each key.                         *)
LEMMA KeepProgress ==
  ASSUME RowsTyped, FoundOK, Calm, Progress, KeepRows
  PROVE  Progress'
<1>0. /\ op.at = "deleted" /\ Bundled /\ AllLeft /\ op.skipped = {} /\ ~op.given
      /\ base.dedicated = origin.dedicated /\ base.present = origin.present
      /\ base' = base /\ origin' = origin /\ rowWrites' = rowWrites
  BY DEF Progress, KeepRows, NotGiven, LeftAt
<1>1. CASE op.trash
  <2>1. PICK kept \in Deduped(op.bundle) : op' = [op EXCEPT !.at = "trashed", !.bundle = kept]
    BY <1>1 DEF KeepRows
  <2>2. /\ op'.at = "trashed" /\ op'.bundle = kept /\ op'.targets = op.targets
        /\ op'.skipped = op.skipped /\ op'.given = op.given
    BY <2>1 DEF RowsTyped
  <2>3. \A sl : (Mine(sl)' <=> Mine(sl)) /\ Home(sl)' = Home(sl) /\ Left(sl)' = Left(sl)
    BY <1>0, <2>2 DEF Mine, Belongs, Home, Left, AfterDelete
  <2>4. \A r : Noted(r)' <=> Noted(r)
    BY <1>0, <2>3 DEF Noted
  <2>5. kept \subseteq op.bundle
    BY DEF Deduped
  <2>6. ASSUME NEW r \in op.bundle PROVE \E q \in kept : Home(q[1]) = Home(r[1])
    <3>1. Cardinality({q \in kept : SameKey(r, q)}) = 1
      BY DEF Deduped
    <3>2. {q \in kept : SameKey(r, q)} # {}
      BY <3>1, FS_EmptySet
    <3> QED BY <3>2 DEF SameKey
  <2>7. ASSUME NEW sl \in Slots, Mine(sl) PROVE \E q \in kept : Home(q[1]) = Home(sl)
    <3> PICK r \in op.bundle : Home(r[1]) = Home(sl)
      BY <1>0, <2>7 DEF Bundled
    <3> QED BY <2>6
  <2>8. Bundled'
    <3>1. \A r \in op'.bundle : Noted(r)'
      BY <1>0, <2>2, <2>4, <2>5 DEF Bundled
    <3>2. \A sl \in Slots : Mine(sl)' => \E r \in op'.bundle : Home(r[1])' = Home(sl)'
      BY <2>2, <2>3, <2>7
    <3> QED BY <3>1, <3>2 DEF Bundled
  <2>9. AllLeft'
    BY <1>0, <2>3 DEF AllLeft
  <2>10. HalfWay'
    BY <2>9, LeftIsHalfNext DEF LeftOrFound
  <2> QED BY <1>0, <2>2, <2>8, <2>9, <2>10 DEF Progress
<1>2. CASE ~op.trash
  <2>1. To("gone")
    BY <1>2 DEF KeepRows
  <2>2. op'.at = "gone" /\ op'.skipped = {} /\ SameDeal /\ base'.rows = base.rows
    BY <1>0, <2>1, Goes
  <2>3. AllLeft' /\ Bundled'
    BY <1>0, <2>2, RowsStay, DealStays
  <2>4. HalfWay'
    BY <2>3, LeftIsHalfNext DEF LeftOrFound
  <2> QED BY <1>0, <2>2, <2>3, <2>4 DEF Progress, NotGiven
<1> QED BY <1>1, <1>2

(* The reconciliation, from wherever it starts.                            *)
LEMMA InterruptProgress ==
  ASSUME RowsTyped, FoundOK, Calm, Progress, Interrupt
  PROVE  Progress'
<1>1. /\ op'.at = "reconcileState" /\ op'.skipped = op.skipped /\ op'.targets = op.targets
      /\ op'.bundle = op.bundle /\ base' = base /\ origin' = origin /\ rowWrites' = rowWrites
  BY DEF Interrupt, RowsTyped
<1>2. SameDeal /\ base'.rows = base.rows
  BY <1>1 DEF SameDeal
<1>3. op.at \notin {"idle", "export"}
  BY DEF Interrupt, Interruptible
<1>4. Bundled' /\ HalfWay'
  BY <1>2, <1>3, RowsStay, DealStays DEF Progress
<1> QED BY <1>1, <1>4 DEF Progress, NotGiven, LeftAt

LEMMA PutProgress ==
  ASSUME Midway, HalfWay, NEW db, NEW at, PutRecords(db), To(at), origin' = origin, rowWrites' = rowWrites
  PROVE  /\ SameDeal /\ HalfWay' /\ op'.at = at /\ op'.skipped = op.skipped /\ op'.given = op.given
         /\ InPlace(db)' /\ \A d : d # db /\ InPlace(d) => InPlace(d)'
<1>1. RowsTyped
  BY DEF Midway
<1>2. base'.dedicated = base.dedicated /\ base'.present = base.present
  BY <1>1, WritesLeaveRows
<1>3. SameDeal /\ op'.at = at /\ op'.skipped = op.skipped /\ op'.given = op.given
  BY <1>1, <1>2, GoesOn DEF SameDeal
<1>4. ASSUME NEW sl \in Slots PROVE Half(sl)'
  <2>1. CASE base'.rows[sl] = base.rows[sl]
    <3>1. Half(sl)
      BY DEF HalfWay
    <3> QED BY <1>3, <2>1, <3>1, DealStays DEF Half, SameDeal
  <2>2. CASE \E r \in Records(db) : r[1] = sl /\ base'.rows[sl] = r[2]
    <3>1. PICK r \in Records(db) : r[1] = sl /\ base'.rows[sl] = r[2]
      BY <2>2
    <3>2. r = <<r[1], r[2]>> /\ \E q \in Puts(sl) : q[2] = r[2]
      BY <3>1, RecordsArePuts
    <3> QED BY <1>3, <3>1, <3>2, DealStays DEF Half
  <2> QED BY <2>1, <2>2, PutRows
<1>5. ReconcilePossible(db)
  BY HalfWayReconciles
<1> QED BY <1>1, <1>3, <1>4, <1>5, RecordsArePut DEF HalfWay

LEMMA ReconcileProgress ==
  ASSUME RowsTyped, FoundOK, Calm, Progress, ReconcileState \/ ReconcileGoals
  PROVE  Progress'
<1>1. op.at \in {"reconcileState", "reconcileGoals"} /\ origin' = origin /\ rowWrites' = rowWrites
  BY DEF ReconcileState, ReconcileGoals
<1>2. Midway /\ HalfWay /\ op.skipped = {}
  BY <1>1 DEF Progress, Midway
<1>3. \A db : ReconcilePossible(db)
  BY <1>2, HalfWayReconciles
<1>4. CASE ReconcileState
  <2>1. PICK at \in {"reconcileGoals", "recovered"} :
          PutRecords("state") /\ To(at) /\ (at = "recovered" => ~base.dedicated)
    BY <1>3, <1>4 DEF ReconcileState
  <2>2. SameDeal /\ HalfWay' /\ op'.at = at /\ op'.skipped = {} /\ InPlace("state")'
    BY <1>1, <1>2, <2>1, PutProgress
  <2>3. at = "recovered" => InPlace("goals")'
    BY <2>1, <2>2, NoGoals, DealStays DEF InPlace
  <2>4. Bundled' /\ base'.dedicated = origin'.dedicated /\ base'.present = origin'.present
    BY <1>2, <2>2, DealStays DEF Midway, SameDeal
  <2> QED BY <2>1, <2>2, <2>3, <2>4 DEF Progress, NotGiven, LeftAt
<1>5. CASE ReconcileGoals
  <2>1. PutRecords("goals") /\ To("recovered") /\ op.at = "reconcileGoals"
    BY <1>3, <1>5 DEF ReconcileGoals
  <2>2. SameDeal /\ HalfWay' /\ op'.at = "recovered" /\ op'.skipped = {} /\ InPlace("goals")'
        /\ InPlace("state")'
    BY <1>1, <1>2, <2>1, PutProgress DEF Progress
  <2>4. Bundled' /\ base'.dedicated = origin'.dedicated /\ base'.present = origin'.present
    BY <1>2, <2>2, DealStays DEF Midway, SameDeal
  <2> QED BY <2>1, <2>2, <2>4 DEF Progress, NotGiven, LeftAt
<1> QED BY <1>4, <1>5

(* The restore.  Its checks find every key free.                           *)
LEMMA CheckProgress ==
  ASSUME RowsTyped, FoundOK, Calm, Progress, CheckKeys \/ CheckCounts
  PROVE  Progress'
<1>0. /\ op.at \in {"trashed", "checked"} /\ base' = base /\ origin' = origin /\ rowWrites' = rowWrites
  BY DEF CheckKeys, CheckCounts
<1>1. Midway /\ HalfWay /\ AllLeft /\ op.skipped = {} /\ ~op.given
  BY <1>0 DEF Progress, Midway, LeftAt, NotGiven
<1>2. ASSUME NEW db PROVE ~Conflict(db)
  <2> SUFFICES ASSUME NEW r \in Records(db), base.rows[r[1]] # Absent
               PROVE  r[1][2] = "items" /\ base.rows[r[1]].whose = Nobody
    BY DEF Conflict
  <2>1. base.rows[r[1]] = Left(r[1])
    BY <1>1, RecordFits DEF AllLeft
  <2> QED BY <1>1, <2>1, KeyIsFree
<1>3. ~LiveRows
  BY <1>1, NothingLives
<1>4. PICK at \in {"checked", "restoreGoals", "restoreState"} : To(at) /\ (at = "restoreState" => ~base.dedicated)
  BY <1>2, <1>3 DEF CheckKeys, CheckCounts
<1>5. op'.at = at /\ op'.skipped = {} /\ ~op'.given /\ SameDeal /\ base'.rows = base.rows
  BY <1>0, <1>1, <1>4, Goes
<1>6. AllLeft' /\ Bundled' /\ HalfWay'
  BY <1>1, <1>5, RowsStay, DealStays DEF Midway
<1>7. at = "restoreState" => GoalsBack' /\ Records("goals")' = {}
  <2> SUFFICES ASSUME ~base.dedicated PROVE GoalsBack /\ Records("goals")' = {}
    BY <1>4, <1>5, RowsStay
  <2> QED BY <1>1, <1>5, NoGoals, DealStays DEF GoalsBack, AllLeft
<1> QED BY <1>1, <1>4, <1>5, <1>6, <1>7 DEF Progress, LeftAt, Midway, SameDeal

(* What it puts back is there, and the other database is as it was.        *)
LEMMA InsertProgress ==
  ASSUME Midway, NEW db, InsertRows(db), SameDeal,
         \A r \in Records(db) : base.rows[r[1]] = Left(r[1])
  PROVE  /\ \A r \in Records(db) : base'.rows[r[1]] = r[2]
         /\ \A sl \in Slots : (\A r \in Records(db) : r[1] # sl) => base'.rows[sl] = base.rows[sl]
         /\ InPlace(db)'
<1>1. ASSUME NEW r \in Records(db) PROVE base'.rows[r[1]] = r[2]
  <2>0. r[1] \in Slots
    BY RecordFits
  <2>1. \A q \in Records(db) : q[1] = r[1] => q[2] = r[2]
    BY RecordIsOne
  <2> PICK sl \in Slots : sl = r[1]
    BY <2>0
  <2>2. \/ (\A q \in Records(db) : q[1] # sl) /\ base'.rows[sl] = base.rows[sl]
        \/ \E q \in Records(db) : q[1] = sl /\ base'.rows[sl] = RestoredRow(base.rows[sl], q[2])
    BY InsertedRows
  <2>3. \E q \in Records(db) : q[2] = r[2] /\ base'.rows[sl] = RestoredRow(base.rows[sl], q[2])
    BY <2>1, <2>2
  <2>4. RestoredRow(base.rows[r[1]], r[2]) = r[2]
    BY KeyIsFree
  <2> QED BY <2>3, <2>4
<1>2. ASSUME NEW sl \in Slots, \A r \in Records(db) : r[1] # sl PROVE base'.rows[sl] = base.rows[sl]
  BY <1>2, InsertedRows
<1>3. InPlace(db)'
  BY <1>1, DealStays DEF InPlace, Present
<1> QED BY <1>1, <1>2, <1>3

LEMMA RestoreGoalsProgress ==
  ASSUME RowsTyped, FoundOK, Calm, Progress, RestoreGoals
  PROVE  Progress'
<1>0. /\ op.at = "restoreGoals" /\ InsertRows("goals") /\ origin' = origin /\ rowWrites' = rowWrites
      /\ op' = [op EXCEPT !.at = "restoreState", !.skipped = Skipped("goals"), !.given = Inserts("goals") # {}]
  BY DEF RestoreGoals
<1>1. Midway /\ HalfWay /\ AllLeft
  BY <1>0 DEF Progress, Midway, LeftAt
<1>2. /\ op'.at = "restoreState" /\ op'.skipped = {} /\ (op'.given <=> Records("goals") # {})
      /\ op'.targets = op.targets /\ op'.bundle = op.bundle
  BY <1>0, <1>1, AllInserted DEF RowsTyped
<1>3. SameDeal
  BY <1>0, <1>2, WritesLeaveRows DEF SameDeal
<1>4. /\ \A r \in Records("goals") : base'.rows[r[1]] = r[2]
      /\ \A sl \in Slots : (\A r \in Records("goals") : r[1] # sl) => base'.rows[sl] = base.rows[sl]
  <2>1. \A r \in Records("goals") : base.rows[r[1]] = Left(r[1])
    BY <1>1, RecordFits DEF AllLeft
  <2> QED BY <1>0, <1>1, <1>3, <2>1, InsertProgress
<1>5. GoalsBack'
  BY <1>1, <1>3, <1>4, DealStays DEF GoalsBack, AllLeft
<1>6. ASSUME NEW sl \in Slots PROVE Half(sl)'
  <2>1. CASE \A r \in Records("goals") : r[1] # sl
    <3>1. base'.rows[sl] = Left(sl)
      BY <1>1, <1>4, <2>1 DEF AllLeft
    <3> QED BY <1>3, <3>1, DealStays DEF Half
  <2>2. CASE \E r \in Records("goals") : r[1] = sl
    <3> PICK r \in Records("goals") : r[1] = sl
      BY <2>2
    <3>1. base'.rows[sl] = r[2] /\ \E q \in Puts(sl) : q[2] = r[2]
      BY <1>4, RecordsArePuts
    <3> QED BY <1>3, <3>1, DealStays DEF Half
  <2> QED BY <2>1, <2>2
<1>7. Bundled' /\ HalfWay' /\ base'.dedicated = origin'.dedicated /\ base'.present = origin'.present
  BY <1>1, <1>3, <1>6, DealStays DEF Midway, HalfWay, SameDeal
<1>8. ~op'.given => Records("goals")' = {}
  BY <1>2, <1>3, DealStays
<1> QED BY <1>2, <1>5, <1>7, <1>8 DEF Progress, NotGiven, LeftAt

LEMMA GoalRecordsAway ==
  ASSUME Midway, NEW r \in Records("state"), NEW q \in Records("goals") PROVE r[1] # q[1]
<1>1. r[1][1] = "state" /\ q[1][1] = "goals"
  BY RecordFits
<1> QED BY <1>1
LEMMA RestoreStateProgress ==
  ASSUME RowsTyped, FoundOK, Calm, Progress, RestoreState
  PROVE  Progress'
<1>0. /\ op.at = "restoreState" /\ InsertRows("state") /\ origin' = origin /\ rowWrites' = rowWrites
      /\ op' = [op EXCEPT !.at = "validate", !.skipped = op.skipped \cup Skipped("state")]
  BY DEF RestoreState
<1>1. Midway /\ HalfWay /\ GoalsBack /\ op.skipped = {}
  BY <1>0 DEF Progress, Midway, LeftAt
<1>2. /\ op'.at = "validate" /\ op'.skipped = {}
      /\ op'.targets = op.targets /\ op'.bundle = op.bundle
  BY <1>0, <1>1, AllInserted DEF RowsTyped
<1>3. SameDeal
  BY <1>0, <1>2, WritesLeaveRows DEF SameDeal
<1>4. /\ \A r \in Records("state") : base'.rows[r[1]] = r[2]
      /\ \A sl \in Slots : (\A r \in Records("state") : r[1] # sl) => base'.rows[sl] = base.rows[sl]
      /\ InPlace("state")'
  <2>1. ASSUME NEW r \in Records("state") PROVE base.rows[r[1]] = Left(r[1])
    <3>1. r[1] \in Slots
      BY <1>1, RecordFits
    <3>2. \A q \in Records("goals") : q[1] # r[1]
      BY <1>1, GoalRecordsAway
    <3> QED BY <1>1, <3>1, <3>2 DEF GoalsBack
  <2> QED BY <1>0, <1>1, <1>3, <2>1, InsertProgress
<1>5. ASSUME NEW r \in Records("goals") PROVE base'.rows[r[1]] = r[2]
  <2>1. r[1] \in Slots /\ \A q \in Records("state") : q[1] # r[1]
    BY <1>1, RecordFits, GoalRecordsAway
  <2>2. base.rows[r[1]] = r[2]
    BY <1>1, <2>1 DEF GoalsBack
  <2> QED BY <1>4, <2>1, <2>2
<1>6. InPlace("goals")'
  BY <1>3, <1>5, DealStays DEF InPlace, Present
<1>7. ASSUME NEW sl \in Slots PROVE Half(sl)'
  <2>1. CASE \A r \in Records("state") : r[1] # sl
    <3>1. base'.rows[sl] = base.rows[sl] /\ Half(sl)
      BY <1>1, <1>4, <2>1 DEF HalfWay
    <3> QED BY <1>3, <3>1, DealStays DEF Half, SameDeal
  <2>2. CASE \E r \in Records("state") : r[1] = sl
    <3> PICK r \in Records("state") : r[1] = sl
      BY <2>2
    <3>1. base'.rows[sl] = r[2] /\ \E q \in Puts(sl) : q[2] = r[2]
      BY <1>4, RecordsArePuts
    <3> QED BY <1>3, <3>1, DealStays DEF Half
  <2> QED BY <2>1, <2>2
<1>8. Bundled' /\ HalfWay' /\ base'.dedicated = origin'.dedicated /\ base'.present = origin'.present
  BY <1>1, <1>3, <1>7, DealStays DEF Midway, HalfWay, SameDeal
<1> QED BY <1>2, <1>4, <1>6, <1>8 DEF Progress, NotGiven, LeftAt

(* A restore that throws, and what it takes back.                          *)
LEMMA ThrowProgress ==
  ASSUME RowsTyped, FoundOK, Calm, Progress, RestoreThrows
  PROVE  Progress'
<1>0. /\ op.at \in {"restoreGoals", "restoreState"} /\ base' = base /\ origin' = origin /\ rowWrites' = rowWrites
  BY DEF RestoreThrows
<1>1. /\ Midway /\ HalfWay /\ op.skipped = {}
      /\ op.at = "restoreGoals" => AllLeft /\ ~op.given
      /\ op.at = "restoreState" => GoalsBack /\ (~op.given => Records("goals") = {})
  BY <1>0 DEF Progress, Midway, LeftAt, NotGiven
<1>2. PICK at \in {"undoGoals", "rolledBack"} : To(at) /\ (at = "undoGoals" <=> op.given)
  BY DEF RestoreThrows
<1>3. op'.at = at /\ op'.skipped = {} /\ (op'.given <=> op.given) /\ SameDeal /\ base'.rows = base.rows
  BY <1>0, <1>1, <1>2, Goes
<1>4. Bundled' /\ HalfWay' /\ base'.dedicated = origin'.dedicated /\ base'.present = origin'.present
  BY <1>1, <1>3, RowsStay, DealStays DEF Midway, SameDeal
<1>5. at = "rolledBack" => AllLeft'
  <2> SUFFICES ASSUME ~op.given PROVE AllLeft
    BY <1>2, <1>3, RowsStay
  <2>1. GoalsBack /\ Records("goals") = {} => AllLeft
    BY DEF GoalsBack, AllLeft
  <2> QED BY <1>0, <1>1, <2>1
<1>6. at = "undoGoals" => GoalsBack'
  <2> SUFFICES ASSUME op.given PROVE GoalsBack
    BY <1>2, <1>3, RowsStay
  <2> QED BY <1>0, <1>1
<1>7. at = "undoGoals" => op'.given
  BY <1>2, <1>3
<1> QED BY <1>2, <1>3, <1>4, <1>5, <1>6, <1>7 DEF Progress, NotGiven, LeftAt

LEMMA UndoProgress ==
  ASSUME RowsTyped, FoundOK, Calm, Progress, UndoGoals
  PROVE  Progress'
<1>0. op.at = "undoGoals" /\ origin' = origin /\ rowWrites' = rowWrites
  BY DEF UndoGoals
<1>1. Midway /\ GoalsBack /\ op.skipped = {}
  BY <1>0 DEF Progress, Midway
<1>2. \A r \in Records("goals") : PlaceOf(r[1]) \in base.present /\ Removable(base.rows[r[1]], r[2])
  BY <1>1, RecordFits DEF GoalsBack, Removable
<1> DEFINE rows == [sl \in Slots |-> IF \E r \in Records("goals") : r[1] = sl THEN Absent ELSE base.rows[sl]]
<1>3. base' = [base EXCEPT !.rows = rows] /\ To("rolledBack")
  BY <1>2 DEF UndoGoals
<1>4. \A sl \in Slots : rows[sl] = IF \E r \in Records("goals") : r[1] = sl THEN Absent ELSE base.rows[sl]
  OBVIOUS
<1> HIDE DEF rows
<1>5. base'.rows = rows /\ base'.dedicated = base.dedicated /\ base'.present = base.present
  BY <1>3 DEF RowsTyped
<1>6. op'.at = "rolledBack" /\ op'.skipped = {} /\ SameDeal
  BY <1>0, <1>1, <1>3, <1>5, GoesOn DEF SameDeal
<1>7. ASSUME NEW sl \in Slots PROVE rows[sl] = Left(sl)
  <2>1. CASE \E r \in Records("goals") : r[1] = sl
    <3> PICK r \in Records("goals") : r[1] = sl
      BY <2>1
    <3>1. sl[1] = "goals" /\ (Left(sl) = Absent \/ sl[2] = "items")
      BY <1>1, RecordFits
    <3>2. sl[2] = "goals"
      BY <3>1 DEF Slots, Places
    <3> QED BY <1>4, <3>1, <3>2
  <2>2. CASE \A r \in Records("goals") : r[1] # sl
    BY <1>1, <1>4, <2>2 DEF GoalsBack
  <2> QED BY <2>1, <2>2
<1>8. AllLeft'
  BY <1>5, <1>6, <1>7, DealStays DEF AllLeft
<1>9. HalfWay' /\ Bundled' /\ base'.dedicated = origin'.dedicated /\ base'.present = origin'.present
  BY <1>1, <1>6, <1>8, LeftIsHalfNext, DealStays DEF LeftOrFound, Midway, SameDeal
<1> QED BY <1>6, <1>8, <1>9 DEF Progress, NotGiven

LEMMA ValidateProgress ==
  ASSUME RowsTyped, FoundOK, Calm, Progress, ValidateRows
  PROVE  Progress'
<1>0. op.at = "validate" /\ base' = base /\ origin' = origin /\ rowWrites' = rowWrites
  BY DEF ValidateRows
<1>1. Midway /\ HalfWay /\ InPlace("state") /\ InPlace("goals") /\ op.skipped = {}
  BY <1>0 DEF Progress, Midway
<1>2. \A db \in DatabasesInUse : \A r \in Records(db) : Present(r)
  BY <1>1 DEF DatabasesInUse, InPlace
<1>3. To("restored")
  BY <1>2 DEF ValidateRows
<1>4. op'.at = "restored" /\ op'.skipped = {} /\ SameDeal /\ base'.rows = base.rows
  BY <1>0, <1>1, <1>3, Goes
<1>5. Bundled' /\ HalfWay' /\ InPlace("state")' /\ InPlace("goals")'
      /\ base'.dedicated = origin'.dedicated /\ base'.present = origin'.present
  BY <1>1, <1>4, RowsStay, DealStays DEF Midway, SameDeal
<1> QED BY <1>4, <1>5 DEF Progress, NotGiven, LeftAt

-----------------------------------------------------------------------------
(* A goals database has its table wherever the state database still holds  *)
(* a goal: a record of such a goal is put back there and nowhere else, and *)
(* without the table it is refused or skipped.                             *)
GoalsHaveTable ==
  \A db \in RowStates, sl \in Slots :
    db.dedicated /\ sl[2] = "goals" /\ db.rows[sl] # Absent => <<"goals", "goals">> \in db.present

LEMMA RowsInvInit == RowsInit => RowsInv
<1> SUFFICES ASSUME RowsInit PROVE RowsInv
  OBVIOUS
<1>1. /\ base = NoBase /\ origin = NoBase /\ rowWrites = 0 /\ op.at = "idle" /\ op.targets = {}
      /\ op.skipped = {}
  BY DEF RowsInit, NoOp
<1>2. FoundOK
  BY <1>1 DEF FoundOK, NoBase, Content
<1>3. Progress
  BY <1>1 DEF Progress, LeftAt, NotGiven
<1> QED BY <1>2, <1>3 DEF RowsInv

LEMMA StartRowsInv ==
  ASSUME GoalsHaveTable, RowsInv, StartRows
  PROVE  RowsInv'
<1> PICK db \in RowStates, targets \in (SUBSET RowSessions) \ {{}}, trash \in BOOLEAN :
      /\ base' = db /\ origin' = db
      /\ op' = [NoOp EXCEPT !.at = "export", !.targets = targets, !.trash = trash,
                  !.todo = targets \X (IF db.dedicated THEN {"state", "goals"} ELSE {"state"})]
  BY DEF StartRows
<1>1. /\ op'.at = "export" /\ op'.targets = targets /\ op'.bundle = {} /\ op'.skipped = {} /\ ~op'.given
      /\ op'.todo = targets \X (IF db.dedicated THEN {"state", "goals"} ELSE {"state"})
      /\ rowWrites' = rowWrites
  BY DEF NoOp, StartRows
<1>2. /\ db.rows \in [Slots -> Content]
      /\ \A sl \in Slots : db.rows[sl] # Absent =>
            /\ <<sl[1], sl[2]>> \in db.present /\ db.rows[sl] \in RowsOf(sl[2])
            /\ sl[1] = "goals" => db.dedicated
  BY RowAssumption DEF RowStateOK
<1>3. \A sl \in Slots : db.rows[sl] # Absent /\ sl[2] = "goals" /\ db.dedicated => <<"goals", "goals">> \in db.present
  BY DEF GoalsHaveTable
<1>4. FoundOK'
  BY <1>1, <1>2, <1>3 DEF RowsInv, FoundOK, PlaceOf
<1>5. ASSUME NEW sl \in Slots, NEW t \in targets, Belongs(sl, db.rows[sl], {t})
      PROVE  <<t, sl[1]>> \in op'.todo
  <2>1. db.rows[sl] # Absent
    BY <1>5 DEF Belongs
  <2> QED BY <1>1, <1>2, <2>1, SlotDatabases
<1>6. Exporting'
  <2>1. \A d \in op'.todo : d[1] \in op'.targets
    BY <1>1
  <2>2. \A sl, t : Belongs(sl, origin.rows[sl], {t})' <=> Belongs(sl, db.rows[sl], {t})
    BY DEF Belongs
  <2> QED BY <1>1, <1>5, <2>1, <2>2 DEF Exporting
<1>7. Progress'
  BY <1>1, <1>6 DEF Progress, LeftAt
<1> QED BY <1>4, <1>7 DEF RowsInv

(* Once Codex has written, nothing is claimed.                             *)
LEMMA CodexRowsInv ==
  ASSUME RowsTyped, RowsInv, CodexWritesRows
  PROVE  RowsInv'
<1>1. rowWrites \in Nat /\ rowWrites' = rowWrites + 1 /\ origin' = origin
  BY DEF CodexWritesRows, RowsInv, FoundOK
<1>2. op'.targets = op.targets
  BY DEF CodexWritesRows, RowsTyped
<1>3. FoundOK'
  BY <1>1, <1>2 DEF RowsInv, FoundOK
<1>4. ~Calm'
  BY <1>1 DEF Calm
<1> QED BY <1>3, <1>4 DEF RowsInv

(* Every other step leaves what was found.                                 *)
LEMMA FoundStays ==
  ASSUME RowsTyped, RowsInv, RowsNext, ~StartRows, ~CodexWritesRows
  PROVE  FoundOK' /\ (Calm' => Calm)
<1>1. origin' = origin /\ rowWrites' = rowWrites
  BY DEF RowsNext, ExportRecords, DeleteGoalRows, DeleteStateRows, KeepRows, Interrupt, ReconcileState,
         ReconcileGoals, CheckKeys, CheckCounts, RestoreGoals, RestoreState, RestoreThrows, UndoGoals,
         ValidateRows
<1>2. \A at : To(at) => op'.targets = op.targets
  BY GoesOn
<1>3. op'.targets = op.targets
  <2>1. CASE ExportRecords
    BY <2>1 DEF ExportRecords, RowsTyped
  <2>2. CASE KeepRows
    BY <1>2, <2>2 DEF KeepRows, RowsTyped
  <2>3. CASE Interrupt \/ RestoreGoals \/ RestoreState
    BY <2>3 DEF Interrupt, RestoreGoals, RestoreState, RowsTyped
  <2>4. CASE DeleteGoalRows \/ DeleteStateRows \/ CheckKeys \/ CheckCounts \/ RestoreThrows \/ ValidateRows
    BY <1>2, <2>4 DEF DeleteGoalRows, DeleteStateRows, CheckKeys, CheckCounts, RestoreThrows, ValidateRows
  <2>5. CASE ReconcileState \/ ReconcileGoals \/ UndoGoals
    BY <1>2, <2>5 DEF ReconcileState, ReconcileGoals, UndoGoals
  <2> QED BY <2>1, <2>2, <2>3, <2>4, <2>5 DEF RowsNext
<1>4. base'.dedicated = base.dedicated
  <2>1. CASE base' = base
    BY <2>1
  <2>2. CASE \E db : DeleteRows(db) \/ PutRecords(db) \/ InsertRows(db)
    BY <2>2, WritesLeaveRows
  <2>3. CASE UndoGoals
    BY <2>3 DEF UndoGoals, RowsTyped
  <2> QED BY <2>1, <2>2, <2>3
          DEF RowsNext, ExportRecords, DeleteGoalRows, DeleteStateRows, KeepRows, Interrupt, ReconcileState,
              ReconcileGoals, CheckKeys, CheckCounts, RestoreGoals, RestoreState, RestoreThrows,
              ValidateRows
<1>5. FoundOK'
  BY <1>1, <1>3 DEF RowsInv, FoundOK
<1>6. \A sl : Home(sl)' = Home(sl)
  BY <1>4 DEF Home
<1>7. OriginRecords' = OriginRecords
  BY <1>1 DEF OriginRecords
<1>8. Calm' => Calm
  BY <1>1, <1>6, <1>7 DEF Calm, OneOfEachKey, SameKey
<1> QED BY <1>5, <1>8

LEMMA RowsInvStep ==
  ASSUME GoalsHaveTable, RowsTyped, RowsInv, [RowsNext]_rowVars
  PROVE  RowsInv'
<1>1. CASE UNCHANGED rowVars
  <2>1. SameDeal /\ op'.todo = op.todo /\ op'.at = op.at /\ op'.skipped = op.skipped /\ op'.given = op.given
        /\ base'.rows = base.rows /\ base' = base /\ op' = op
    BY <1>1 DEF rowVars, SameDeal
  <2>2. \A sl : Home(sl)' = Home(sl)
    BY <2>1, DealStays
  <2>3. FoundOK' /\ (Calm' <=> Calm)
    <3>1. OriginRecords' = OriginRecords /\ rowWrites' = rowWrites /\ (FoundOK' <=> FoundOK)
      BY <2>1, DealStays DEF SameDeal, OriginRecords
    <3> QED BY <2>2, <3>1 DEF RowsInv, Calm, OneOfEachKey, SameKey
  <2>4. Exporting' <=> Exporting
    BY <2>1, <2>2 DEF SameDeal, Exporting, Noted, Mine, Belongs
  <2>5. GoalsLeft' <=> GoalsLeft
    BY <2>1, DealStays DEF GoalsLeft, SameDeal
  <2>6. Progress' <=> Progress
    BY <2>1, <2>4, <2>5, DealStays, RowsStay DEF Progress, SameDeal
  <2> QED BY <2>3, <2>6 DEF RowsInv
<1>2. CASE RowsNext /\ ~StartRows /\ ~CodexWritesRows
  <2>1. FoundOK' /\ (Calm' => Calm)
    BY <1>2, FoundStays
  <2>2. ASSUME Calm PROVE Progress'
    <3>1. FoundOK /\ Progress
      BY <2>2 DEF RowsInv
    <3> QED BY <1>2, <2>2, <3>1, ExportProgress, DeleteProgress, KeepProgress, InterruptProgress,
               ReconcileProgress, CheckProgress, RestoreGoalsProgress, RestoreStateProgress, ThrowProgress,
               UndoProgress, ValidateProgress DEF RowsNext
  <2> QED BY <2>1, <2>2 DEF RowsInv
<1> QED BY <1>1, <1>2, StartRowsInv, CodexRowsInv

(* Left alone by Codex, a deletion that is interrupted anywhere and        *)
(* recovered, or moved to the trash and restored, gives back every row of  *)
(* every table, in whichever of the two databases it belongs; one that is  *)
(* completed has left no row of the sessions and touched no other; no      *)
(* recovery and no restore is refused (deleteSqliteRecords and             *)
(* reconcileSqliteRecordsForRecovery, sqlite.ts:1465-1500 and 1949-1976,   *)
(* restoreSqliteRecords, sqlite.ts:1573-1709).                             *)
THEOREM RowsAreGivenBack ==
  ASSUME GoalsHaveTable
  PROVE  RowsSpec => []RowsComeBack
<1>1. RowsInit => RowsTyped /\ RowsInv
  BY RowsTypedInit, RowsInvInit
<1>2. RowsTyped /\ RowsInv /\ [RowsNext]_rowVars => (RowsTyped /\ RowsInv)'
  BY RowsTypedStep, RowsInvStep
<1>3. ASSUME RowsTyped, RowsInv PROVE RowsComeBack
  <2> SUFFICES ASSUME Calm
               PROVE  /\ op.at \notin {"refused", "unsafe", "conflict", "unverified"}
                      /\ op.at \in {"recovered", "restored"} => AllRecords(base) = AllRecords(origin)
                      /\ op.at \in {"trashed", "rolledBack", "gone"} =>
                           /\ ~LiveRows
                           /\ \A sl \in Slots :
                                /\ ~Belongs(sl, origin.rows[sl], op.targets) => base.rows[sl] = origin.rows[sl]
                                /\ sl[2] = "items" => base.rows[sl].body = origin.rows[sl].body
    BY DEF RowsComeBack, Calm
  <2>1. FoundOK /\ Progress
    BY <1>3 DEF RowsInv
  <2>2. op.at \notin {"refused", "unsafe", "conflict", "unverified"}
    BY <2>1 DEF Progress
  <2>3. ASSUME op.at \in {"recovered", "restored"} PROVE AllRecords(base) = AllRecords(origin)
    <3>1. Midway /\ HalfWay /\ InPlace("state") /\ InPlace("goals")
      BY <1>3, <2>1, <2>3 DEF Progress, Midway
    <3> QED BY <3>1, AllComeBack
  <2>4. ASSUME op.at \in {"trashed", "rolledBack", "gone"}
        PROVE  /\ ~LiveRows
               /\ \A sl \in Slots :
                    /\ ~Belongs(sl, origin.rows[sl], op.targets) => base.rows[sl] = origin.rows[sl]
                    /\ sl[2] = "items" => base.rows[sl].body = origin.rows[sl].body
    <3>1. AllLeft
      BY <2>1, <2>4 DEF Progress, LeftAt
    <3>2. ~LiveRows
      BY <2>1, <3>1, NothingLives
    <3>3. ASSUME NEW sl \in Slots, ~Mine(sl) PROVE base.rows[sl] = origin.rows[sl]
      BY <3>1, <3>3, NotMine DEF AllLeft
    <3>4. ASSUME NEW sl \in Slots, sl[2] = "items" PROVE base.rows[sl].body = origin.rows[sl].body
      <4>1. CASE Mine(sl)
        <5>1. base.rows[sl] = [origin.rows[sl] EXCEPT !.whose = Nobody]
          BY <3>1, <3>4, <4>1, MineShape DEF AllLeft
        <5>2. origin.rows[sl] = [whose |-> origin.rows[sl].whose, body |-> origin.rows[sl].body]
          BY <2>1, ContentShape DEF FoundOK
        <5> QED BY <5>1, <5>2
      <4> QED BY <3>3, <4>1
    <3> QED BY <3>2, <3>3, <3>4 DEF Mine
  <2> QED BY <2>2, <2>3, <2>4
<1> QED BY <1>1, <1>2, <1>3, PTL DEF RowsSpec

-----------------------------------------------------------------------------
(***************************************************************************)
(* Every finished walk over spawn edges has seen the sessions a chain of   *)
(* edges leads to and no others, for any set of sessions and any edges,    *)
(* cycles and several parents included.  Nothing is assumed finite: the    *)
(* theorem is about walks that end.                                        *)
(***************************************************************************)

(* The strengthening.  What is not queued any more has been expanded, and  *)
(* nothing was queued or seen that some set around the start leaves out.   *)
Expands(w) ==
  \A s \in (w.seen \cup w.from) \ w.pending : Neighbours(w.dir, w.edges, s) \subseteq w.seen
StartSeen(w) == w.dir = "both" => w.from \subseteq w.seen
NothingElse(w) ==
  w.seen \subseteq Reached(w.dir, w.edges, FirstOf(w.dir, w.edges, w.from))
QueueKnown(w) == w.pending \subseteq w.seen \cup w.from
WalkInv ==
  /\ WalkTypeOK
  /\ (walk.state # "idle" /\ walk.dir # "top") =>
       Expands(walk) /\ StartSeen(walk) /\ NothingElse(walk) /\ QueueKnown(walk)
  /\ (walk.state = "done" /\ walk.dir # "top") => walk.pending = {}

-----------------------------------------------------------------------------
(* Neighbours of an id are sessions.                                       *)
LEMMA NeighboursAreSessions ==
  ASSUME NEW dir, NEW edges \in SUBSET (Sessions \X Sessions), NEW s
  PROVE  Neighbours(dir, edges, s) \subseteq Sessions
<1>1. Parents(edges, s) \subseteq Sessions  BY DEF Parents
<1>2. Children(edges, s) \subseteq Sessions  BY DEF Children
<1> QED  BY <1>1, <1>2 DEF Neighbours

(* A walk starts at the start, and a neighbour of what is reached, or of   *)
(* the session it starts from, is reached.                                 *)
LEMMA NeighboursReached ==
  ASSUME NEW dir, NEW edges \in SUBSET (Sessions \X Sessions), NEW from \in SUBSET Sessions,
         NEW s \in Reached(dir, edges, FirstOf(dir, edges, from)) \cup from
  PROVE  Neighbours(dir, edges, s) \subseteq Reached(dir, edges, FirstOf(dir, edges, from))
<1> SUFFICES ASSUME NEW t \in Neighbours(dir, edges, s),
                    NEW S \in SUBSET Sessions,
                    FirstOf(dir, edges, from) \subseteq S, Closed(dir, edges, S)
             PROVE  t \in S
  BY NeighboursAreSessions DEF Reached
<1>1. CASE s \in Reached(dir, edges, FirstOf(dir, edges, from))
  <2>1. s \in S  BY <1>1 DEF Reached
  <2> QED  BY <2>1 DEF Closed
<1>2. CASE s \in from /\ dir = "both"
  <2>1. s \in S  BY <1>2 DEF FirstOf
  <2> QED  BY <2>1 DEF Closed
<1>3. CASE s \in from /\ dir # "both"
  <2>1. t \in FirstOf(dir, edges, from)  BY <1>3 DEF FirstOf
  <2> QED  BY <2>1
<1> QED  BY <1>1, <1>2, <1>3

(* What a walk starts from is reached.                                     *)
LEMMA StartReached ==
  ASSUME NEW dir, NEW edges, NEW start \in SUBSET Sessions
  PROVE  start \subseteq Reached(dir, edges, start)
BY DEF Reached

-----------------------------------------------------------------------------
(* The initial states satisfy WalkInv.                                     *)
LEMMA WalkInvInit == WalkInit => WalkInv
BY DEF WalkInit, WalkInv, WalkTypeOK, NoWalk, Directions

(* The start of a walk keeps WalkInv.                                      *)
LEMMA WalkInvStart == ASSUME WalkInv, StartWalk PROVE WalkInv'
<1>1. PICK dir \in Directions, edges \in WalkGraphs, s \in Sessions :
        walk' = [state |-> "walking", dir |-> dir, edges |-> edges, from |-> {s},
                 pending |-> {s}, seen |-> IF dir = "both" THEN {s} ELSE {}]
  BY DEF StartWalk
<1>2. edges \in SUBSET (Sessions \X Sessions)  BY FamilyAssumption
<1>3. WalkTypeOK'  BY <1>1, <1>2 DEF WalkTypeOK
<1>4. Expands(walk') /\ StartSeen(walk') /\ QueueKnown(walk')
  BY <1>1 DEF Expands, StartSeen, QueueKnown
<1>5. NothingElse(walk')
  <2>1. CASE dir = "both"
    BY <1>1, <2>1, StartReached DEF NothingElse, FirstOf
  <2>2. CASE dir # "both"
    BY <1>1, <2>2 DEF NothingElse
  <2> QED  BY <2>1, <2>2
<1> QED  BY <1>1, <1>3, <1>4, <1>5 DEF WalkInv

(* An expansion keeps WalkInv.                                             *)
LEMMA WalkInvExpand == ASSUME WalkInv, Expand PROVE WalkInv'
<1>1. PICK s \in walk.pending : walk' = Expanded(s)  BY DEF Expand
<1> DEFINE new == Neighbours(walk.dir, walk.edges, s) \ walk.seen
<1>2. walk.state = "walking" /\ walk.dir # "top" /\ WalkTypeOK  BY DEF Expand, WalkInv
<1>3. Expands(walk) /\ StartSeen(walk) /\ NothingElse(walk) /\ QueueKnown(walk)
  BY <1>2 DEF WalkInv
<1>4. walk'.state = "walking" /\ walk'.dir = walk.dir /\ walk'.edges = walk.edges
      /\ walk'.from = walk.from /\ walk'.pending = (walk.pending \ {s}) \cup new
      /\ walk'.seen = walk.seen \cup new
  BY <1>1, <1>2 DEF Expanded, WalkTypeOK
<1>5. new \subseteq Sessions  BY <1>2, NeighboursAreSessions DEF WalkTypeOK
<1>6. WalkTypeOK'
  BY <1>1, <1>2, <1>5 DEF WalkTypeOK, Expanded
<1>7. Expands(walk')
  <2> SUFFICES ASSUME NEW t \in (walk'.seen \cup walk'.from) \ walk'.pending
               PROVE  Neighbours(walk.dir, walk.edges, t) \subseteq walk.seen \cup new
    BY <1>4 DEF Expands
  <2>1. CASE t = s  BY <2>1
  <2>2. CASE t # s
    <3>1. t \in (walk.seen \cup walk.from) \ walk.pending  BY <1>4, <2>2
    <3> QED  BY <3>1, <1>3 DEF Expands
  <2> QED  BY <2>1, <2>2
<1>8. NothingElse(walk')
  <2> DEFINE R == Reached(walk.dir, walk.edges, FirstOf(walk.dir, walk.edges, walk.from))
  <2>1. s \in R \cup walk.from  BY <1>3 DEF NothingElse, QueueKnown
  <2>2. Neighbours(walk.dir, walk.edges, s) \subseteq R
    BY <2>1, <1>2, NeighboursReached DEF WalkTypeOK
  <2> QED  BY <1>3, <1>4, <2>2 DEF NothingElse
<1>9. StartSeen(walk') /\ QueueKnown(walk')  BY <1>3, <1>4 DEF StartSeen, QueueKnown
<1> QED  BY <1>4, <1>6, <1>7, <1>8, <1>9 DEF WalkInv

(* The end of a walk keeps WalkInv.                                        *)
LEMMA WalkInvDone == ASSUME WalkInv, WalkDone PROVE WalkInv'
<1>1. walk' = [walk EXCEPT !.state = "done"] /\ walk.pending = {} /\ walk.state = "walking"
  BY DEF WalkDone
<1>2. WalkTypeOK /\ WalkTypeOK'  BY <1>1 DEF WalkInv, WalkTypeOK
<1>3. walk'.dir = walk.dir /\ walk'.edges = walk.edges /\ walk'.from = walk.from
      /\ walk'.pending = walk.pending /\ walk'.seen = walk.seen
  BY <1>1, <1>2 DEF WalkTypeOK
<1> QED  BY <1>1, <1>2, <1>3 DEF WalkInv, Expands, StartSeen, NothingElse, QueueKnown

(* The smallest of some sessions is one of them.                           *)
LEMMA SmallestIsOne ==
  ASSUME NEW S \in SUBSET Sessions, S # {}
  PROVE  Smallest(S) \in S
<1> DEFINE less == OpToRel(<, Nat)
<1>1. S \subseteq Nat  BY FamilyAssumption
<1>2. IsWellFoundedOn(less, Nat)  BY NatLessThanWellFounded
<1> HIDE DEF less
<1>3. PICK m \in S : \A t \in S : <<t, m>> \notin less  BY <1>1, <1>2, WFMin, Zenon
<1>4. \A t \in S : ~(t < m)  BY <1>1, <1>3, Zenon DEF less, OpToRel
<1>5. \A t \in S : m <= t  BY <1>1, <1>4
<1> QED  BY <1>5 DEF Smallest

(* A climb keeps WalkInv.                                                  *)
LEMMA WalkInvClimb == ASSUME WalkInv, Climb PROVE WalkInv'
<1>1. PICK s \in walk.pending :
        walk' = IF s \in walk.seen    THEN Found(Smallest(walk.seen))
                ELSE IF TopReached(s) THEN Found(s)
                ELSE [walk EXCEPT !.pending = {Smallest(Parents(walk.edges, s))},
                                  !.seen = walk.seen \cup {s}]
  BY DEF Climb
<1>2. WalkTypeOK /\ walk.dir = "top" /\ walk.seen \in SUBSET Sessions /\ s \in Sessions
      /\ walk.edges \in SUBSET (Sessions \X Sessions)
  BY DEF WalkInv, Climb, WalkTypeOK
<1>3. CASE s \in walk.seen
  <2>1. Smallest(walk.seen) \in Sessions  BY <1>2, <1>3, SmallestIsOne
  <2> QED  BY <1>1, <1>2, <1>3, <2>1 DEF WalkInv, WalkTypeOK, Found
<1>4. CASE s \notin walk.seen /\ TopReached(s)
  BY <1>1, <1>2, <1>4 DEF WalkInv, WalkTypeOK, Found
<1>5. CASE s \notin walk.seen /\ ~TopReached(s)
  <2>1. Parents(walk.edges, s) \in SUBSET Sessions /\ Parents(walk.edges, s) # {}
    BY <1>2, <1>5 DEF Parents, TopReached
  <2>2. Smallest(Parents(walk.edges, s)) \in Sessions  BY <2>1, SmallestIsOne
  <2>3. walk' = [walk EXCEPT !.pending = {Smallest(Parents(walk.edges, s))},
                             !.seen = walk.seen \cup {s}]
    BY <1>1, <1>5
  <2> QED  BY <1>2, <2>2, <2>3 DEF WalkInv, WalkTypeOK
<1> QED  BY <1>3, <1>4, <1>5

(* Every step of a walk keeps WalkInv.                                     *)
LEMMA WalkInvStep == WalkInv /\ [WalkStep]_walkVars => WalkInv'
<1> SUFFICES ASSUME WalkInv, [WalkStep]_walkVars PROVE WalkInv'
  OBVIOUS
<1>1. CASE UNCHANGED walkVars
  <2>1. walk' = walk  BY <1>1 DEF walkVars
  <2> QED  BY <2>1 DEF WalkInv, WalkTypeOK
<1> QED
  BY <1>1, WalkInvStart, WalkInvExpand, WalkInvDone, WalkInvClimb DEF WalkStep

(* What the invariant says of a finished walk: seen is closed and holds    *)
(* the start, so it holds all that is reached.                             *)
LEMMA WalkInvImplies == WalkInv => WalkIsClosure
<1> SUFFICES ASSUME WalkInv, walk.state = "done", walk.dir # "top"
             PROVE  walk.seen = Reached(walk.dir, walk.edges,
                                        FirstOf(walk.dir, walk.edges, walk.from))
  BY DEF WalkIsClosure
<1>1. /\ Expands(walk) /\ StartSeen(walk) /\ NothingElse(walk) /\ walk.pending = {}
      /\ walk.seen \in SUBSET Sessions
  BY DEF WalkInv, WalkTypeOK
<1>2. Closed(walk.dir, walk.edges, walk.seen)  BY <1>1 DEF Expands, Closed
<1>3. FirstOf(walk.dir, walk.edges, walk.from) \subseteq walk.seen
  BY <1>1 DEF FirstOf, StartSeen, Expands
<1>4. ASSUME NEW t \in Reached(walk.dir, walk.edges, FirstOf(walk.dir, walk.edges, walk.from))
      PROVE  t \in walk.seen
  BY <1>1, <1>2, <1>3, <1>4 DEF Reached
<1> QED  BY <1>1, <1>4 DEF NothingElse

(* WalkIsClosure, for every set of sessions and every set of edges:        *)
(* collectAncestors, collectDescendants and collectConnectedFamily end     *)
(* with the closure of their start (family.ts:70-126).                     *)
THEOREM WalksAreClosures == WalkSpec => []WalkIsClosure
<1> QED  BY WalkInvInit, WalkInvStep, WalkInvImplies, PTL DEF WalkSpec

-----------------------------------------------------------------------------
(* The strengthening for the choice of a root.  One id is looked at, it is *)
(* the start or an ancestor of it, and it is above every id passed so far: *)
(* when it has been passed itself, it is its own ancestor.                 *)
Above(w) == Reached("up", w.edges, w.from)
ClimbInv ==
  /\ WalkTypeOK /\ TopIsRoot
  /\ (walk.state = "walking" /\ walk.dir = "top") =>
       \E s \in Above(walk) :
         /\ walk.pending = {s} /\ walk.seen \subseteq Above(walk)
         /\ \A t \in walk.seen : s \in Reached("up", walk.edges, Parents(walk.edges, t))

(* A parent of an ancestor is one.                                         *)
LEMMA ParentsAbove ==
  ASSUME NEW edges \in SUBSET (Sessions \X Sessions), NEW from, NEW s \in Reached("up", edges, from)
  PROVE  Parents(edges, s) \subseteq Reached("up", edges, from)
<1>1. \A t : Neighbours("up", edges, t) = Parents(edges, t)
  BY DEF Neighbours
<1>2. Parents(edges, s) \subseteq Sessions
  BY DEF Parents
<1> QED BY <1>1, <1>2 DEF Reached, Closed

(* No climb has begun.                                                     *)
LEMMA ClimbInvInit == WalkInit => ClimbInv
BY DEF WalkInit, ClimbInv, WalkTypeOK, TopIsRoot, NoWalk, Directions

(* A climb begins at the session.                                          *)
LEMMA ClimbInvStart == ASSUME StartWalk, WalkTypeOK' PROVE ClimbInv'
<1>1. PICK dir \in Directions, edges \in WalkGraphs, s \in Sessions :
        walk' = [state |-> "walking", dir |-> dir, edges |-> edges, from |-> {s},
                 pending |-> {s}, seen |-> IF dir = "both" THEN {s} ELSE {}]
  BY DEF StartWalk
<1>2. s \in Above(walk')
  BY <1>1, StartReached DEF Above
<1>3. walk'.state = "walking" /\ walk'.pending = {s} /\ (walk'.dir = "top" => walk'.seen = {})
  BY <1>1
<1> QED BY <1>2, <1>3 DEF ClimbInv, TopIsRoot

(* Every id that is passed leaves the next one above all of them.          *)
LEMMA ClimbInvClimb == ASSUME ClimbInv, Climb, WalkTypeOK' PROVE ClimbInv'
<1>1. PICK s \in walk.pending :
        walk' = IF s \in walk.seen    THEN Found(Smallest(walk.seen))
                ELSE IF TopReached(s) THEN Found(s)
                ELSE [walk EXCEPT !.pending = {Smallest(Parents(walk.edges, s))},
                                  !.seen = walk.seen \cup {s}]
  BY DEF Climb
<1> DEFINE R == Above(walk)
<1>2. /\ walk.state = "walking" /\ walk.dir = "top" /\ WalkTypeOK
      /\ walk.edges \in SUBSET (Sessions \X Sessions)
  BY DEF ClimbInv, Climb, WalkTypeOK
<1>3. /\ s \in R /\ walk.seen \subseteq R
      /\ \A t \in walk.seen : s \in Reached("up", walk.edges, Parents(walk.edges, t))
  BY <1>2 DEF ClimbInv
<1>4. R \subseteq Sessions
  BY DEF Above, Reached
<1>5. ASSUME NEW r \in R, walk' = Found(r),
             Parents(walk.edges, r) = {} \/ \E t \in R : OnCycle(walk.edges, t)
      PROVE  ClimbInv'
  <2>1. /\ walk'.state = "done" /\ walk'.seen = {r} /\ walk'.edges = walk.edges
        /\ walk'.from = walk.from
    BY <1>2, <1>5 DEF Found, WalkTypeOK
  <2>2. Above(walk') = R
    BY <2>1 DEF Above
  <2>3. TopIsRoot'
    BY <1>5, <2>1, <2>2 DEF TopIsRoot, Above
  <2> QED BY <2>1, <2>3 DEF ClimbInv
<1>6. CASE s \in walk.seen
  <2>1. Smallest(walk.seen) \in R
    BY <1>3, <1>4, <1>6, SmallestIsOne
  <2>2. OnCycle(walk.edges, s)
    BY <1>3, <1>6 DEF OnCycle
  <2> QED BY <1>1, <1>3, <1>5, <1>6, <2>1, <2>2
<1>7. CASE s \notin walk.seen /\ TopReached(s)
  BY <1>1, <1>3, <1>5, <1>7 DEF TopReached
<1>8. CASE s \notin walk.seen /\ ~TopReached(s)
  <2> DEFINE up == Parents(walk.edges, s)
             next == Smallest(up)
  <2>1. up \in SUBSET Sessions /\ up # {}
    BY <1>2, <1>8 DEF Parents, TopReached
  <2>2. next \in up
    BY <2>1, SmallestIsOne
  <2> HIDE DEF next
  <2>3. walk' = [walk EXCEPT !.pending = {next}, !.seen = walk.seen \cup {s}]
    BY <1>1, <1>8 DEF next
  <2>4. /\ walk'.state = "walking" /\ walk'.pending = {next} /\ walk'.seen = walk.seen \cup {s}
        /\ walk'.edges = walk.edges /\ walk'.from = walk.from /\ Above(walk') = R
    BY <1>2, <2>3 DEF WalkTypeOK, Above
  <2>5. next \in R
    BY <1>2, <1>3, <2>2, ParentsAbove DEF Above
  <2>6. ASSUME NEW t \in walk.seen \cup {s}
        PROVE  next \in Reached("up", walk.edges, Parents(walk.edges, t))
    <3>1. CASE t = s
      BY <2>1, <2>2, <3>1, StartReached
    <3>2. CASE t \in walk.seen
      BY <1>2, <1>3, <2>2, <3>2, ParentsAbove
    <3> QED BY <3>1, <3>2
  <2>7. TopIsRoot'
    BY <2>4 DEF TopIsRoot
  <2> QED BY <1>3, <2>4, <2>5, <2>6, <2>7 DEF ClimbInv
<1> QED BY <1>6, <1>7, <1>8

(* The other walks do not climb.                                           *)
LEMMA ClimbInvStep == WalkInv /\ ClimbInv /\ [WalkStep]_walkVars => ClimbInv'
<1> SUFFICES ASSUME WalkInv, ClimbInv, [WalkStep]_walkVars PROVE ClimbInv'
  OBVIOUS
<1>1. WalkTypeOK'
  BY WalkInvStep DEF WalkInv
<1>2. CASE Expand
  <2>1. PICK s \in walk.pending : walk' = Expanded(s)
    BY <1>2 DEF Expand
  <2>2. walk.dir # "top" /\ walk'.dir = walk.dir
    BY <1>2, <2>1 DEF Expand, Expanded, ClimbInv, WalkTypeOK
  <2> QED BY <1>1, <2>2 DEF ClimbInv, TopIsRoot
<1>3. CASE WalkDone
  <2>1. walk.dir # "top"
    BY <1>3 DEF WalkDone, ClimbInv
  <2>2. walk'.dir = walk.dir
    BY <1>3 DEF WalkDone, ClimbInv, WalkTypeOK
  <2> QED BY <1>1, <2>1, <2>2 DEF ClimbInv, TopIsRoot
<1>4. CASE UNCHANGED walkVars
  <2>1. walk' = walk
    BY <1>4 DEF walkVars
  <2> QED BY <1>1, <2>1 DEF ClimbInv, TopIsRoot, Above
<1> QED BY <1>1, <1>2, <1>3, <1>4, ClimbInvStart, ClimbInvClimb DEF WalkStep

(* What chooseRootId settles for is the session or an ancestor of it, and  *)
(* has a parent only if the ancestors form a cycle, for any edges          *)
(* (family.ts:135-152).                                                    *)
THEOREM RootsAreTops == WalkSpec => []TopIsRoot
<1>1. ClimbInv => TopIsRoot
  BY DEF ClimbInv
<1> QED BY WalkInvInit, WalkInvStep, ClimbInvInit, ClimbInvStep, <1>1, PTL DEF WalkSpec

-----------------------------------------------------------------------------
(***************************************************************************)
(* For any sessions, roots, commands and writes by Codex: a session that   *)
(* is active all the time is neither planned nor deletable.  A scan reads  *)
(* files before threads and from no snapshot, so that one of the two reads *)
(* has to see it is enough only because its rollout stays where Codex      *)
(* appends for as long.                                                    *)
(***************************************************************************)

WorkShape ==
  /\ work = [at |-> work.at, todo |-> work.todo, cmd |-> work.cmd, view |-> work.view,
             draft |-> work.draft, print |-> work.print]
  /\ work.view \in Roots

(* What the scan has read so far of the sessions that are active           *)
(* throughout.                                                             *)
SeenActive ==
  /\ work.at \notin {"idle", "scan"} => work.todo = {}
  /\ (work.at # "idle" /\ "files" \notin work.todo) =>
       \A s \in spared : work.view.file[s] = "sessions"
  /\ work.at \notin {"idle", "scan"} =>
       \A s \in spared : /\ work.view.thread[s] # "archived"
                         /\ s \notin StoredAsArchived(work.view)

SpareInv ==
  /\ root \in Roots /\ spared \subseteq Spared(root)
  /\ WorkShape /\ SeenActive /\ ActiveIsSpared

-----------------------------------------------------------------------------
(* Once the threads are read, the scan calls them active.                  *)
LEMMA SparedIsActive ==
  ASSUME SpareInv, work.at \notin {"idle", "scan"}
  PROVE  spared \subseteq ActiveIn(work.view)
<1>1. ASSUME NEW s \in spared
      PROVE  s \in Sessions /\ KindOf(work.view, s) = "active"
  <2>1. s \in Sessions
    BY DEF SpareInv, Spared, InUse
  <2>2. /\ work.view.file[s] = "sessions" /\ work.view.thread[s] # "archived"
        /\ s \notin StoredAsArchived(work.view)
    BY DEF SpareInv, SeenActive
  <2> QED BY <2>1, <2>2 DEF KindOf, Archived
<1> QED BY <1>1 DEF ActiveIn

(* A plan keeps clear of what the scan calls active.                       *)
LEMMA PlanSparesActive ==
  ASSUME NEW view, NEW cmd
  PROVE  LET p == PlanOf(view, cmd) IN
         /\ p.written = FALSE
         /\ ActiveIn(view) \cap (p.selected \cup p.offered \cup p.candidates) = {}
<1> DEFINE families == (UNION {FamilyOf(view.edges, s) : s \in cmd.seeds}) \cap Ids(view)
           sourced  == IF cmd.source THEN {t \in Ids(view) : IsSubagent(view, t)} ELSE {}
           selected == Selected(view, cmd)
           rejected == (cmd.seeds \cup families \cup sourced) \cap ActiveIn(view)
           offered  == (UNION {FamilyOf(view.edges, s) \ {s} : s \in cmd.seeds})
                         \ (selected \cup rejected)
           p == PlanOf(view, cmd)
<1>1. p = [NoPlan EXCEPT !.selected = selected, !.candidates = sourced \ ActiveIn(view),
                         !.rejected = rejected, !.offered = offered]
  BY DEF PlanOf
<1>2. selected \cap ActiveIn(view) = {}
  BY DEF Selected
<1>3. ActiveIn(view) \subseteq Ids(view)
  BY DEF ActiveIn, KindOf, Ids
<1>4. ASSUME NEW t \in offered, t \in ActiveIn(view)
      PROVE  FALSE
  <2>1. PICK s \in cmd.seeds : t \in FamilyOf(view.edges, s)
    BY <1>4
  <2>2. t \in UNION {FamilyOf(view.edges, x) : x \in cmd.seeds}
    BY <2>1
  <2>3. t \in families
    BY <1>3, <1>4, <2>2
  <2> HIDE DEF families, sourced, selected
  <2>4. t \in rejected
    BY <1>4, <2>3
  <2> HIDE DEF rejected
  <2> QED BY <1>4, <2>4
<1>5. (sourced \ ActiveIn(view)) \cap ActiveIn(view) = {}
  OBVIOUS
<1> HIDE DEF families, sourced, selected, rejected, offered
<1>6. /\ p.written = FALSE /\ p.selected = selected /\ p.offered = offered
      /\ p.candidates = sourced \ ActiveIn(view)
  BY <1>1 DEF NoPlan
<1> HIDE DEF p
<1> QED
  <2>1. ActiveIn(view) \cap (p.selected \cup p.offered \cup p.candidates) = {}
    BY <1>2, <1>4, <1>5, <1>6
  <2> QED BY <1>6, <2>1 DEF p

-----------------------------------------------------------------------------
(* The root before a command is started is one.                            *)
LEMMA EmptyRootTyped == EmptyRoot \in Roots
<1>1. [s \in Sessions |-> "none"] \in [Sessions -> FileStates]
  BY DEF FileStates
<1>2. [s \in Sessions |-> "none"] \in [Sessions -> ThreadStates]
  BY DEF ThreadStates
<1> QED BY <1>1, <1>2 DEF EmptyRoot, Roots

(* No command has read anything yet.                                       *)
LEMMA SpareInvInit == PlansInit => SpareInv
  BY EmptyRootTyped DEF PlansInit, SpareInv, WorkShape, SeenActive, ActiveIsSpared, Idle,
                        NoAnswer, Spared, InUse

(* A command that is through leaves its answer.                            *)
LEMMA ReturnsToIdle ==
  ASSUME SpareInv, work' = Idle, root' = root, spared' = spared,
         answer'.kind \in {"preview", "stale"} => spared \cap answer'.deletable = {}
  PROVE  SpareInv'
<1>1. WorkShape' /\ work'.at = "idle"
  BY EmptyRootTyped DEF WorkShape, Idle
<1> QED BY <1>1 DEF SpareInv, SeenActive, ActiveIsSpared

(* A scan begins with the sessions that are active then.                   *)
LEMMA BeginsToScan ==
  ASSUME NEW cmd, NEW draft, work' = Scanning(cmd, draft), root' \in Roots, spared' = Spared(root'),
         answer'.kind = "none",
         draft.written \/ draft = NoPlan
  PROVE  SpareInv'
<1>1. /\ work'.at = "scan" /\ "files" \in work'.todo /\ work'.draft = draft
      /\ work'.view = EmptyRoot
      /\ work' = [at |-> work'.at, todo |-> work'.todo, cmd |-> work'.cmd, view |-> work'.view,
                  draft |-> work'.draft, print |-> work'.print]
  BY DEF Scanning, Idle
<1>2. WorkShape'
  BY <1>1, EmptyRootTyped DEF WorkShape
<1>3. SeenActive'
  BY <1>1 DEF SeenActive
<1>4. ActiveIsSpared'
  BY <1>1 DEF ActiveIsSpared, NoPlan
<1> QED BY <1>2, <1>3, <1>4 DEF SpareInv

(* A step on the way that reads nothing more of the sessions.              *)
LEMMA MovesOn ==
  ASSUME SpareInv, work.at \notin {"idle", "scan"}, root' = root, spared' = spared,
         answer' = answer, WorkShape',
         work'.at \notin {"idle", "scan"}, work'.todo = work.todo, work'.view = work.view,
         work'.draft.written
           \/ spared \cap (work'.draft.selected \cup work'.draft.offered \cup work'.draft.candidates) = {}
  PROVE  SpareInv'
  BY DEF SpareInv, SeenActive, ActiveIsSpared

(* Codex changes the root: what is spared was active before.               *)
LEMMA RootChangesInv ==
  ASSUME SpareInv, NEW next \in Roots, RootChanges(next)
  PROVE  SpareInv'
<1>1. /\ root' = next /\ spared' = spared \cap Spared(next)
      /\ work' = work /\ answer' = answer
  BY DEF RootChanges
<1>2. WorkShape' /\ SeenActive'
  BY <1>1 DEF SpareInv, WorkShape, SeenActive
<1>3. ActiveIsSpared'
  BY <1>1 DEF SpareInv, ActiveIsSpared
<1> QED BY <1>1, <1>2, <1>3 DEF SpareInv

-----------------------------------------------------------------------------
(* The four reads of a scan.                                               *)
LEMMA ScanStepInv ==
  ASSUME SpareInv, ScanStep
  PROVE  SpareInv'
<1>1. UNCHANGED <<root, plan, answer, spared>>
  BY DEF ScanStep
<1>2. /\ root \in Roots /\ work.view \in Roots
      /\ work = [at |-> work.at, todo |-> work.todo, cmd |-> work.cmd, view |-> work.view,
                 draft |-> work.draft, print |-> work.print]
      /\ spared \subseteq Spared(root)
  BY DEF SpareInv, WorkShape
<1>3. \A s \in spared : /\ root.file[s] = "sessions" /\ root.thread[s] # "archived"
                        /\ s \notin StoredAsArchived(root)
  BY <1>2 DEF Spared, InUse
<1>4. CASE ReadDirectories
  <2> DEFINE view == [work.view EXCEPT !.file = root.file]
  <2>1. /\ work.at = "scan"
        /\ work' = [work EXCEPT !.todo = work.todo \ {"files"}, !.view = view]
    BY <1>4 DEF ReadDirectories
  <2>2. view \in Roots /\ view.file = root.file
    BY <1>2 DEF Roots
  <2> HIDE DEF view
  <2>3. /\ work' = [at |-> "scan", todo |-> work.todo \ {"files"}, cmd |-> work.cmd, view |-> view,
                    draft |-> work.draft, print |-> work.print]
    BY <1>2, <2>1
  <2>4. WorkShape' /\ SeenActive'
    BY <1>1, <1>3, <2>2, <2>3 DEF WorkShape, SeenActive
  <2>5. ActiveIsSpared'
    BY <1>1, <2>1, <2>3 DEF SpareInv, ActiveIsSpared
  <2> QED BY <1>1, <2>4, <2>5 DEF SpareInv
<1>5. CASE ReadLists
  <2> DEFINE view == [work.view EXCEPT !.index = root.index, !.refs = root.refs, !.lists = root.lists]
  <2>1. /\ work.at = "scan"
        /\ work' = [work EXCEPT !.todo = work.todo \ {"lists"}, !.view = view]
    BY <1>5 DEF ReadLists
  <2>2. view \in Roots /\ view.file = work.view.file
    BY <1>2 DEF Roots
  <2> HIDE DEF view
  <2>3. /\ work' = [at |-> "scan", todo |-> work.todo \ {"lists"}, cmd |-> work.cmd, view |-> view,
                    draft |-> work.draft, print |-> work.print]
    BY <1>2, <2>1
  <2>4. WorkShape' /\ SeenActive'
    BY <1>1, <2>1, <2>2, <2>3 DEF SpareInv, WorkShape, SeenActive
  <2>5. ActiveIsSpared'
    BY <1>1, <2>1, <2>3 DEF SpareInv, ActiveIsSpared
  <2> QED BY <1>1, <2>4, <2>5 DEF SpareInv
<1>6. CASE ReadThreads
  <2> DEFINE view == [work.view EXCEPT !.thread = root.thread, !.stored = root.stored]
  <2>1. /\ work.at = "scan" /\ work.todo = {}
        /\ work' = [work EXCEPT !.at = "edges", !.view = view]
    BY <1>6 DEF ReadThreads
  <2>2. /\ view \in Roots /\ view.file = work.view.file /\ view.thread = root.thread
        /\ StoredAsArchived(view) = StoredAsArchived(root)
    BY <1>2 DEF Roots, StoredAsArchived
  <2> HIDE DEF view
  <2>3. /\ work' = [at |-> "edges", todo |-> {}, cmd |-> work.cmd, view |-> view,
                    draft |-> work.draft, print |-> work.print]
    BY <1>2, <2>1
  <2>4. WorkShape'
    BY <2>2, <2>3 DEF WorkShape
  <2>5. \A s \in spared : work.view.file[s] = "sessions"
    BY <2>1 DEF SpareInv, SeenActive
  <2>6. SeenActive'
    BY <1>1, <1>3, <2>2, <2>3, <2>5 DEF SeenActive
  <2>7. ActiveIsSpared'
    BY <1>1, <2>1, <2>3 DEF SpareInv, ActiveIsSpared
  <2> QED BY <1>1, <2>4, <2>6, <2>7 DEF SpareInv
<1>7. CASE ReadEdges
  <2> DEFINE view == [work.view EXCEPT !.edges = root.edges]
  <2>1. /\ work.at = "edges" /\ work' = [work EXCEPT !.at = "scanned", !.view = view]
    BY <1>7 DEF ReadEdges
  <2>2. /\ view \in Roots /\ view.file = work.view.file /\ view.thread = work.view.thread
        /\ StoredAsArchived(view) = StoredAsArchived(work.view)
    BY <1>2 DEF Roots, StoredAsArchived
  <2> HIDE DEF view
  <2>3. /\ work' = [at |-> "scanned", todo |-> work.todo, cmd |-> work.cmd, view |-> view,
                    draft |-> work.draft, print |-> work.print]
    BY <1>2, <2>1
  <2>4. WorkShape' /\ SeenActive'
    BY <1>1, <2>1, <2>2, <2>3 DEF SpareInv, WorkShape, SeenActive
  <2>5. ActiveIsSpared'
    BY <1>1, <2>1, <2>3 DEF SpareInv, ActiveIsSpared
  <2> QED BY <1>1, <2>4, <2>5 DEF SpareInv
<1> QED BY <1>4, <1>5, <1>6, <1>7 DEF ScanStep

(* The plan is built from a scan.                                          *)
LEMMA BuildPlanInv ==
  ASSUME SpareInv, BuildPlan
  PROVE  SpareInv'
<1>1. CASE work' = Idle
  <2>1. UNCHANGED <<root, spared, answer>>
    BY DEF BuildPlan
  <2> QED BY <1>1, <2>1, ReturnsToIdle DEF SpareInv, ActiveIsSpared
<1>2. CASE work' # Idle
  <2> DEFINE p == PlanOf(work.view, work.cmd)
  <2>1. /\ work' = [work EXCEPT !.at = "planned", !.draft = p] /\ work.at = "scanned"
        /\ UNCHANGED <<root, spared, answer>>
    BY <1>2 DEF BuildPlan
  <2>2. spared \cap (p.selected \cup p.offered \cup p.candidates) = {}
    BY <2>1, PlanSparesActive, SparedIsActive
  <2> HIDE DEF p
  <2>3. work' = [at |-> "planned", todo |-> work.todo, cmd |-> work.cmd, view |-> work.view,
                 draft |-> p, print |-> work.print]
    BY <2>1 DEF SpareInv, WorkShape
  <2>4. WorkShape'
    BY <2>3 DEF SpareInv, WorkShape
  <2> QED BY <2>1, <2>2, <2>3, <2>4, MovesOn
<1> QED BY <1>1, <1>2

(* Fingerprints and comparisons only move the command on.                  *)
LEMMA PrintingInv ==
  ASSUME SpareInv, PrintLists \/ PrintMain \/ ComparePlan
  PROVE  SpareInv'
<1>1. UNCHANGED <<root, spared, answer>> /\ work.at \in {"scanned", "planned", "lists", "main"}
  BY DEF PrintLists, PrintMain, ComparePlan
<1>2. PICK at \in {"lists", "main", "printed"}, print \in {work'.print} :
        work' = [at |-> at, todo |-> work.todo, cmd |-> work.cmd, view |-> work.view,
                 draft |-> work.draft, print |-> print]
  <2>1. work = [at |-> work.at, todo |-> work.todo, cmd |-> work.cmd, view |-> work.view,
                draft |-> work.draft, print |-> work.print]
    BY DEF SpareInv, WorkShape
  <2>2. CASE PrintLists
    <3> DEFINE print == [work.print EXCEPT !.lists = root.lists]
    <3>1. work' = [work EXCEPT !.at = "main", !.print = print]
      BY <2>2 DEF PrintLists
    <3> HIDE DEF print
    <3>2. work' = [at |-> "main", todo |-> work.todo, cmd |-> work.cmd, view |-> work.view,
                   draft |-> work.draft, print |-> print]
      BY <2>1, <3>1
    <3> QED BY <3>2
  <2>3. CASE PrintMain
    <3> DEFINE print == [work.print EXCEPT !.main = root.main]
    <3>1. work' = [work EXCEPT !.at = "printed", !.print = print]
      BY <2>3 DEF PrintMain
    <3> HIDE DEF print
    <3>2. work' = [at |-> "printed", todo |-> work.todo, cmd |-> work.cmd, view |-> work.view,
                   draft |-> work.draft, print |-> print]
      BY <2>1, <3>1
    <3> QED BY <3>2
  <2>4. CASE ComparePlan
    <3>1. work' = [at |-> "lists", todo |-> work.todo, cmd |-> work.cmd, view |-> work.view,
                   draft |-> work.draft, print |-> work.print]
      BY <2>1, <2>4 DEF ComparePlan
    <3> QED BY <3>1
  <2> QED BY <2>2, <2>3, <2>4
<1>3. WorkShape'
  BY <1>2 DEF SpareInv, WorkShape
<1> QED BY <1>1, <1>2, <1>3, MovesOn DEF SpareInv, ActiveIsSpared

(* What Codex makes of a root is a root.                                   *)
LEMMA CodexMakesRoots ==
  ASSUME root \in Roots, CodexActs
  PROVE  \E next \in Roots : RootChanges(next)
<1>1. root \in Roots
  OBVIOUS
<1>2. CASE CodexMovesRollout
  <2>1. PICK s \in Sessions, to \in {"sessions", "archived_sessions"} :
          RootChanges([root EXCEPT !.file[s] = to])
    BY <1>2 DEF CodexMovesRollout
  <2>2. [root EXCEPT !.file[s] = to] \in Roots
    BY <1>1 DEF Roots, FileStates
  <2> QED BY <2>1, <2>2
<1>3. CASE CodexWritesThread
  <2>1. PICK s \in Sessions, to \in {"open", "archived"}, m \in {0, 1}, stored \in SUBSET Sessions :
          RootChanges([root EXCEPT !.thread[s] = to, !.stored = stored, !.main = root.main + m])
    <3>1. PICK s \in Sessions, to \in {"open", "archived"}, m \in {0, 1} :
          \E stored \in {root.stored \cup {s}, root.stored \ {s}} :
            RootChanges([root EXCEPT !.thread[s] = to, !.stored = stored, !.main = root.main + m])
      BY <1>3 DEF CodexWritesThread
    <3>2. root.stored \subseteq Sessions
      BY <1>1 DEF Roots
    <3>3. \A stored \in {root.stored \cup {s}, root.stored \ {s}} : stored \in SUBSET Sessions
      BY <3>2
    <3> QED BY <3>1, <3>3
  <2>2. [root EXCEPT !.thread[s] = to, !.stored = stored, !.main = root.main + m] \in Roots
    <3> DEFINE thread == [root.thread EXCEPT ![s] = to]
               main == root.main + m
    <3>1. thread \in [Sessions -> ThreadStates] /\ main \in Nat /\ stored \subseteq Sessions
      BY <1>1, <2>1 DEF Roots, ThreadStates
    <3>2. [root EXCEPT !.thread[s] = to, !.stored = stored, !.main = root.main + m]
            = [root EXCEPT !.thread = thread, !.stored = stored, !.main = main]
      BY <1>1 DEF Roots
    <3> HIDE DEF thread, main
    <3>3. [root EXCEPT !.thread = thread, !.stored = stored, !.main = main] \in Roots
      BY <1>1, <3>1 DEF Roots
    <3> QED BY <3>2, <3>3
  <2> QED BY <2>1, <2>2
<1>4. CASE CodexSpawns
  <2>1. PICK p \in Sessions, c \in Sessions, m \in {0, 1} :
          RootChanges([root EXCEPT !.edges = root.edges \cup {<<p, c>>}, !.main = root.main + m])
    BY <1>4 DEF CodexSpawns
  <2>2. [root EXCEPT !.edges = root.edges \cup {<<p, c>>}, !.main = root.main + m] \in Roots
    <3> DEFINE edges == root.edges \cup {<<p, c>>}
               main == root.main + m
    <3>1. edges \in SUBSET (Sessions \X Sessions) /\ main \in Nat
      BY <1>1 DEF Roots
    <3> HIDE DEF edges, main
    <3>2. [root EXCEPT !.edges = edges, !.main = main] \in Roots
      BY <1>1, <3>1 DEF Roots
    <3> QED BY <3>2 DEF edges, main
  <2> QED BY <2>1, <2>2
<1>5. CASE CodexListsSession
  <2>1. PICK s \in Sessions \ root.index :
          RootChanges([root EXCEPT !.index = root.index \cup {s}, !.lists = root.lists + 1])
    BY <1>5 DEF CodexListsSession
  <2>2. [root EXCEPT !.index = root.index \cup {s}, !.lists = root.lists + 1] \in Roots
    <3> DEFINE index == root.index \cup {s}
               lists == root.lists + 1
    <3>1. index \in SUBSET Sessions /\ lists \in Nat
      BY <1>1 DEF Roots
    <3> HIDE DEF index, lists
    <3>2. [root EXCEPT !.index = index, !.lists = lists] \in Roots
      BY <1>1, <3>1 DEF Roots
    <3> QED BY <3>2 DEF index, lists
  <2> QED BY <2>1, <2>2
<1> QED BY <1>2, <1>3, <1>4, <1>5 DEF CodexActs

(* So it keeps the invariant.                                              *)
LEMMA CodexActsInv ==
  ASSUME SpareInv, CodexActs
  PROVE  SpareInv'
<1>1. \E next \in Roots : RootChanges(next)
  BY CodexMakesRoots DEF SpareInv
<1> QED BY <1>1, RootChangesInv

-----------------------------------------------------------------------------
(* Every read, answer and write by Codex keeps the invariant.              *)
LEMMA SpareInvStep == SpareInv /\ [PlansNext]_planVars => SpareInv'
<1> SUFFICES ASSUME SpareInv, [PlansNext]_planVars
             PROVE  SpareInv'
  OBVIOUS
<1>1. CASE StartCommand
  <2>1. PICK r \in RootStates, cmd \in Requests :
          root' = r /\ work' = Scanning(cmd, NoPlan) /\ spared' = Spared(r)
    BY <1>1 DEF StartCommand
  <2>2. root' \in Roots /\ answer'.kind = "none"
    BY <1>1, <2>1, PlanAssumption DEF StartCommand
  <2> QED BY <2>1, <2>2, BeginsToScan
<1>2. CASE StartPreview
  <2>1. /\ work' = Scanning(NoCommand, plan) /\ spared' = Spared(root') /\ plan.written
        /\ root' = root /\ answer'.kind = "none"
    BY <1>2 DEF StartPreview, NoAnswer
  <2> QED BY <2>1, BeginsToScan DEF SpareInv
<1>3. CASE ScanStep
  BY <1>3, ScanStepInv
<1>4. CASE AnswerFamily
  <2>1. work' = Idle /\ UNCHANGED <<root, spared>> /\ answer'.kind \in {"family", "none"}
    BY <1>4 DEF AnswerFamily, NoAnswer
  <2> QED BY <2>1, ReturnsToIdle
<1>5. CASE BuildPlan
  BY <1>5, BuildPlanInv
<1>6. CASE ShowPlan \/ WritePlanFile
  <2>1. /\ work' = Idle /\ UNCHANGED <<root, spared>>
        /\ answer' = [NoAnswer EXCEPT !.kind = "plan", !.view = work.view]
    BY <1>6 DEF ShowPlan, WritePlanFile
  <2>2. answer'.kind = "plan"
    BY <2>1 DEF NoAnswer
  <2> QED BY <2>1, <2>2, ReturnsToIdle
<1>7. CASE PrintLists \/ PrintMain \/ ComparePlan
  BY <1>7, PrintingInv
<1>8. CASE AnswerPreview
  <2>1. work' = Idle /\ UNCHANGED <<root, spared>> /\ work.at = "printed"
    BY <1>8 DEF AnswerPreview
  <2>2. spared \cap Deletable = {}
    BY <2>1, SparedIsActive DEF Deletable, ActiveIn
  <2>3. answer'.deletable = Deletable
    BY <1>8 DEF AnswerPreview, NoAnswer
  <2> QED BY <2>1, <2>2, <2>3, ReturnsToIdle
<1>9. CASE CodexActs
  BY <1>9, CodexActsInv
<1>10. CASE UNCHANGED planVars
  BY <1>10 DEF planVars, SpareInv, WorkShape, SeenActive, ActiveIsSpared, Spared, InUse
<1> QED BY <1>1, <1>2, <1>3, <1>4, <1>5, <1>6, <1>7, <1>8, <1>9, <1>10 DEF PlansNext

(* A session that was active from the moment the scan of a command began   *)
(* is not planned, and not deletable in a preview (plan-delete.ts:46-94,   *)
(* plan-file.ts:287-305).                                                  *)
THEOREM ActiveIsNeverPlanned == PlansSpec => []ActiveIsSpared
<1>1. SpareInv => ActiveIsSpared
  BY DEF SpareInv
<1> QED BY SpareInvInit, SpareInvStep, <1>1, PTL DEF PlansSpec

-----------------------------------------------------------------------------
(***************************************************************************)
(* A preview that is not reported stale is of the lists its plan was       *)
(* written from, and no relative is passed over in silence, for any root   *)
(* and any number of writes by Codex.                                      *)
(***************************************************************************)

(* The versions a command has seen, in the order it has seen them.  The    *)
(* version of the lists only grows, so that what was read between two      *)
(* equal fingerprints is what they were taken of.                          *)
PrintShape == work.print = [lists |-> work.print.lists, main |-> work.print.main]
ListsInOrder ==
  /\ PrintShape
  /\ plan.written => plan.print.lists \in Nat /\ plan.print.lists <= root.lists
  /\ (work.at # "idle" /\ work.draft.written) =>
       /\ plan.written /\ work.draft = plan
       /\ "lists" \notin work.todo => plan.print.lists <= work.view.lists
  /\ (work.at # "idle" /\ ~work.draft.written) => ~plan.written
  /\ (work.at # "idle" /\ "lists" \notin work.todo) => work.view.lists <= root.lists
  /\ work.at \in {"main", "printed"} =>
       /\ work.print.lists \in Nat
       /\ work.view.lists <= work.print.lists /\ work.print.lists <= root.lists

PreviewInv == SpareInv /\ ListsInOrder /\ PreviewMatchesPlan

(* A plan that is about to be shown is the plan of the scan.               *)
PlanFromScan ==
  work.at = "planned" => ~work.draft.written /\ work.draft = PlanOf(work.view, work.cmd)
NamedInv == SpareInv /\ PlanFromScan /\ RelativesAreNamed

(* What is related to a session is an end of an edge.                      *)
EndsOf(edges) == {e[1] : e \in edges} \cup {e[2] : e \in edges}
(* Whoever is related to a session is at an end of an edge.                *)
LEMMA RelatedAreEnds ==
  ASSUME NEW edges \in SUBSET (Sessions \X Sessions), NEW s \in Sessions,
         NEW t \in Reached("both", edges, {s}), t # s
  PROVE  t \in EndsOf(edges)
<1> DEFINE S == {s} \cup EndsOf(edges)
<1>1. S \in SUBSET Sessions
  BY DEF EndsOf
<1>2. \A x \in S : Neighbours("both", edges, x) \subseteq S
  BY DEF Neighbours, Parents, Children, EndsOf
<1>3. Closed("both", edges, S) /\ {s} \subseteq S
  BY <1>2 DEF Closed
<1> HIDE DEF S
<1>4. t \in S
  BY <1>1, <1>3 DEF Reached
<1> QED BY <1>4 DEF S

(* And it is joined to the family by an edge of the family.                *)
LEMMA RelatedHaveEdges ==
  ASSUME NEW edges \in SUBSET (Sessions \X Sessions), NEW s \in Sessions,
         NEW t \in Reached("both", edges, {s}), t # s
  PROVE  \E e \in edges : t \in {e[1], e[2]} /\ {e[1], e[2]} \subseteq FamilyOf(edges, s)
<1>1. PICK e \in edges : t = e[1] \/ t = e[2]
  BY RelatedAreEnds DEF EndsOf
<1>2. Neighbours("both", edges, t) \subseteq Reached("both", edges, {s})
  BY NeighboursReached DEF FirstOf
<1>3. e[1] \in Parents(edges, e[2]) /\ e[2] \in Children(edges, e[1])
  BY DEF Parents, Children
<1>4. e[1] \in Reached("both", edges, {s}) /\ e[2] \in Reached("both", edges, {s})
  BY <1>1, <1>2, <1>3 DEF Neighbours
<1> QED BY <1>1, <1>4 DEF FamilyOf

(* The warnings about a session name all of its relatives but the selected *)
(* ones, and report those that are only edges as missing.                  *)
LEMMA WarningsAreComplete ==
  ASSUME NEW view \in Roots, NEW s \in Sessions, NEW selected,
         NEW t \in Related(view, s)
  PROVE  /\ t \in selected \cup Unselected(view, s, selected)
         /\ Known(view, t) \/ t \in Missing(view, s)
<1>1. /\ view.edges \in SUBSET (Sessions \X Sessions)
      /\ t \in Reached("both", view.edges, {s}) /\ t # s
  BY DEF Related, Roots
<1>2. t \in FamilyOf(view.edges, s) /\ t \in Ids(view)
  BY <1>1, RelatedAreEnds DEF FamilyOf, Ids, EndsOf
<1>3. t \in selected \cup Unselected(view, s, selected)
  BY <1>1, <1>2 DEF Unselected
<1>4. ASSUME ~Known(view, t)
      PROVE  t \in Missing(view, s)
  <2>1. PICK e \in view.edges : t \in {e[1], e[2]} /\ {e[1], e[2]} \subseteq FamilyOf(view.edges, s)
    BY <1>1, RelatedHaveEdges
  <2>2. Lacking(view, t)
    BY <1>4 DEF Known, Lacking
  <2>3. e \in Broken(view, FamilyOf(view.edges, s))
    BY <2>1, <2>2 DEF Broken
  <2> QED BY <1>4, <2>1, <2>3 DEF Missing
<1> QED BY <1>3, <1>4

(* A plan selects, offers or rejects every relative of a seed.             *)
LEMMA PlansAreComplete ==
  ASSUME NEW view, NEW cmd, NEW s \in cmd.seeds
  PROVE  LET p == PlanOf(view, cmd) IN
         Related(view, s) \subseteq p.selected \cup p.offered \cup p.rejected
<1> DEFINE families == (UNION {FamilyOf(view.edges, x) : x \in cmd.seeds}) \cap Ids(view)
           sourced  == IF cmd.source THEN {t \in Ids(view) : IsSubagent(view, t)} ELSE {}
           selected == Selected(view, cmd)
           rejected == (cmd.seeds \cup families \cup sourced) \cap ActiveIn(view)
           offered  == (UNION {FamilyOf(view.edges, x) \ {x} : x \in cmd.seeds})
                         \ (selected \cup rejected)
           p == PlanOf(view, cmd)
<1>1. p = [NoPlan EXCEPT !.selected = selected, !.candidates = sourced \ ActiveIn(view),
                         !.rejected = rejected, !.offered = offered]
  BY DEF PlanOf
<1>2. Related(view, s) \subseteq UNION {FamilyOf(view.edges, x) \ {x} : x \in cmd.seeds}
  BY DEF Related, FamilyOf
<1>3. Related(view, s) \subseteq selected \cup offered \cup rejected
  BY <1>2
<1> HIDE DEF families, sourced, selected, rejected, offered
<1>4. p.selected = selected /\ p.offered = offered /\ p.rejected = rejected
  BY <1>1 DEF NoPlan
<1> HIDE DEF p
<1>5. Related(view, s) \subseteq p.selected \cup p.offered \cup p.rejected
  BY <1>3, <1>4
<1> QED BY <1>5 DEF p

(* Only BuildPlan plans.                                                   *)
LEMMA PlanFromScanStep ==
  ASSUME SpareInv, PlanFromScan, [PlansNext]_planVars
  PROVE  PlanFromScan'
<1>1. work = [at |-> work.at, todo |-> work.todo, cmd |-> work.cmd, view |-> work.view,
              draft |-> work.draft, print |-> work.print]
  BY DEF SpareInv, WorkShape
<1>2. CASE StartCommand \/ StartPreview
  <2>1. work'.at = "scan"
    BY <1>2 DEF StartCommand, StartPreview, Scanning, Idle
  <2> QED BY <2>1 DEF PlanFromScan
<1>3. CASE ScanStep
  <2>1. work'.at \in {"scan", "edges", "scanned"}
    <3>1. CASE ReadDirectories
      BY <1>1, <3>1 DEF ReadDirectories
    <3>2. CASE ReadLists
      BY <1>1, <3>2 DEF ReadLists
    <3>3. CASE ReadThreads
      BY <1>1, <3>3 DEF ReadThreads
    <3>4. CASE ReadEdges
      BY <1>1, <3>4 DEF ReadEdges
    <3> QED BY <1>3, <3>1, <3>2, <3>3, <3>4 DEF ScanStep
  <2> QED BY <2>1 DEF PlanFromScan
<1>4. CASE work' = Idle
  <2>1. work'.at = "idle"
    BY <1>4 DEF Idle
  <2> QED BY <2>1 DEF PlanFromScan
<1>5. CASE BuildPlan /\ work' # Idle
  <2> DEFINE p == PlanOf(work.view, work.cmd)
  <2>1. work' = [work EXCEPT !.at = "planned", !.draft = p]
    BY <1>5 DEF BuildPlan
  <2>2. p.written = FALSE
    BY PlanSparesActive
  <2> HIDE DEF p
  <2>3. work'.view = work.view /\ work'.cmd = work.cmd /\ work'.draft = p
    BY <1>1, <2>1
  <2> QED BY <2>2, <2>3 DEF PlanFromScan, p
<1>6. CASE PrintLists \/ PrintMain \/ ComparePlan
  <2>1. work'.at \in {"main", "printed", "lists"}
    BY <1>1, <1>6 DEF PrintLists, PrintMain, ComparePlan
  <2> QED BY <2>1 DEF PlanFromScan
<1>7. CASE work' = work
  BY <1>7 DEF PlanFromScan
<1> QED BY <1>2, <1>3, <1>4, <1>5, <1>6, <1>7
        DEF PlansNext, AnswerFamily, ShowPlan, WritePlanFile, AnswerPreview, CodexActs, RootChanges,
            CodexMovesRollout, CodexWritesThread, CodexSpawns, CodexListsSession, planVars

(* The reports of family and preview-plan are complete, the others make no *)
(* promise.                                                                *)
LEMMA RelativesAreNamedStep ==
  ASSUME SpareInv, PlanFromScan', RelativesAreNamed, [PlansNext]_planVars
  PROVE  RelativesAreNamed'
<1> DEFINE NamedIn(a) ==
      \A s \in a.deletable :
        /\ Related(a.view, s) \subseteq a.deletable \cup a.named
        /\ \A t \in Related(a.view, s) : Known(a.view, t) \/ t \in a.missing
<1>1. ASSUME work'.at = "planned", NEW s \in work'.cmd.seeds
      PROVE  Related(work'.view, s) \subseteq
               work'.draft.selected \cup work'.draft.offered \cup work'.draft.rejected
  BY <1>1, PlansAreComplete DEF PlanFromScan
<1>2. answer'.kind \in {"family", "preview"} => NamedIn(answer')
  <2>1. work.view \in Roots
    BY DEF SpareInv, WorkShape
  <2>2. CASE AnswerFamily /\ answer'.kind = "family"
    <3> DEFINE s == CHOOSE x \in work.cmd.seeds : TRUE
    <3>1. /\ Resolvable(work.view, s)
          /\ answer' = [kind |-> "family", deletable |-> {s}, view |-> work.view,
                        named |-> Unselected(work.view, s, {s}), missing |-> Missing(work.view, s)]
      BY <2>2 DEF AnswerFamily, NoAnswer
    <3> HIDE DEF s
    <3>2. s \in Sessions
      BY <2>1, <3>1 DEF Resolvable, Ids, Roots
    <3> QED BY <2>1, <3>1, <3>2, WarningsAreComplete
  <2>3. CASE AnswerPreview /\ answer'.kind = "preview"
    <3>1. /\ answer'.deletable = Deletable /\ answer'.view = work.view
          /\ answer'.named = UNION {Unselected(work.view, s, Deletable) : s \in Deletable}
          /\ answer'.missing = UNION {Missing(work.view, s) : s \in Deletable}
      BY <2>3 DEF AnswerPreview, NoAnswer
    <3>2. Deletable \subseteq Sessions
      BY <2>1 DEF Deletable, Resolvable, Ids, Roots
    <3>3. ASSUME NEW s \in Deletable, NEW t \in Related(work.view, s)
          PROVE  /\ t \in Deletable \cup UNION {Unselected(work.view, x, Deletable) : x \in Deletable}
                 /\ Known(work.view, t) \/ t \in UNION {Missing(work.view, x) : x \in Deletable}
      BY <2>1, <3>2, <3>3, WarningsAreComplete
    <3> QED BY <3>1, <3>3
  <2>4. CASE answer' = answer
    BY <2>4 DEF RelativesAreNamed
  <2>5. CASE answer'.kind \in {"none", "plan", "stale"}
    BY <2>5
  <2>6. CASE AnswerFamily
    <3>1. answer'.kind \in {"family", "none"}
      BY <2>6 DEF AnswerFamily, NoAnswer
    <3> QED BY <2>2, <2>5, <2>6, <3>1
  <2>7. CASE AnswerPreview
    <3>1. answer'.kind \in {"preview", "stale"}
      BY <2>7 DEF AnswerPreview, NoAnswer
    <3> QED BY <2>3, <2>5, <2>7, <3>1
  <2>8. CASE StartPreview \/ ShowPlan \/ WritePlanFile
    <3>1. CASE answer' = NoAnswer
      BY <2>5, <3>1 DEF NoAnswer
    <3>2. CASE answer' = [NoAnswer EXCEPT !.kind = "plan", !.view = work.view]
      <4>1. answer'.kind = "plan"
        BY <3>2 DEF NoAnswer
      <4> QED BY <2>5, <4>1
    <3> QED BY <2>8, <3>1, <3>2 DEF StartPreview, ShowPlan, WritePlanFile
  <2> QED BY <2>4, <2>6, <2>7, <2>8
          DEF PlansNext, StartCommand, ScanStep, BuildPlan, PrintLists, PrintMain, ComparePlan,
              CodexActs, RootChanges, CodexMovesRollout, CodexWritesThread, CodexSpawns,
              CodexListsSession, planVars
<1> QED BY <1>1, <1>2 DEF RelativesAreNamed

(* A plan selects, offers or rejects every session related to a seed, and  *)
(* a preview or an impact report names every relative it would leave       *)
(* behind, for any root (family.ts:619-785, plan-delete.ts:196-316).       *)
THEOREM NobodyIsPassedOver == PlansSpec => []RelativesAreNamed
<1>1. PlansInit => NamedInv
  BY SpareInvInit DEF PlansInit, Idle, NoAnswer, NamedInv, PlanFromScan, RelativesAreNamed
<1>2. NamedInv /\ [PlansNext]_planVars => NamedInv'
  BY SpareInvStep, PlanFromScanStep, RelativesAreNamedStep DEF NamedInv
<1>3. NamedInv => RelativesAreNamed
  BY DEF NamedInv
<1> QED BY <1>1, <1>2, <1>3, PTL DEF PlansSpec

-----------------------------------------------------------------------------
(* A command that begins has read nothing.                                 *)
LEMMA PreviewBegins ==
  ASSUME SpareInv, ListsInOrder, StartCommand \/ StartPreview
  PROVE  ListsInOrder' /\ PreviewMatchesPlan'
<1>1. ASSUME NEW cmd, NEW draft, work' = Scanning(cmd, draft), plan' = plan,
             \/ ~plan.written /\ ~draft.written
             \/ plan.written /\ draft = plan /\ root' = root,
             answer'.kind = "none"
      PROVE  ListsInOrder' /\ PreviewMatchesPlan'
  <2>1. work'.at = "scan" /\ "lists" \in work'.todo /\ work'.draft = draft
    BY <1>1 DEF Scanning, Idle
  <2>2. PrintShape'
    BY <1>1 DEF PrintShape, Scanning, Idle, NoPrint
  <2> QED BY <1>1, <2>1, <2>2 DEF ListsInOrder, PreviewMatchesPlan
<1>2. CASE StartCommand
  <2>1. PICK cmd \in Requests : work' = Scanning(cmd, NoPlan)
    BY <1>2 DEF StartCommand
  <2>2. ~NoPlan.written /\ ~plan.written /\ plan' = plan
    BY <1>2 DEF StartCommand, NoPlan
  <2>3. answer'.kind = "none"
    BY <1>2 DEF StartCommand
  <2> DEFINE draft == NoPlan
  <2>4. work' = Scanning(cmd, draft) /\ ~plan.written /\ ~draft.written
    BY <2>1, <2>2
  <2> HIDE DEF draft
  <2> QED BY <1>1, <2>2, <2>3, <2>4
<1>3. CASE StartPreview
  <2>1. /\ work' = Scanning(NoCommand, plan) /\ plan.written /\ plan' = plan /\ root' = root
        /\ answer' = NoAnswer
    BY <1>3 DEF StartPreview
  <2>2. answer'.kind = "none"
    BY <2>1 DEF NoAnswer
  <2> QED BY <1>1, <2>1, <2>2
<1> QED BY <1>2, <1>3

(* What a command keeps that is at work.                                   *)
LEMMA PreviewGoesOn ==
  ASSUME ListsInOrder, PreviewMatchesPlan, UNCHANGED <<plan, answer, root>>, work.at # "idle",
         work'.at # "idle",
         \/ work'.draft = work.draft
         \/ ~work.draft.written /\ work'.draft.written = FALSE,
         /\ "lists" \notin work'.todo =>
              \/ "lists" \notin work.todo /\ work'.view.lists = work.view.lists
              \/ work'.view.lists = root.lists
         /\ work'.at \in {"main", "printed"} =>
              \/ work'.print.lists = root.lists /\ "lists" \notin work'.todo
              \/ /\ work.at = "main" /\ work'.print.lists = work.print.lists
                 /\ work'.view.lists = work.view.lists,
         root.lists \in Nat, PrintShape'
  PROVE  ListsInOrder' /\ PreviewMatchesPlan'
<1>1. PreviewMatchesPlan'
  BY DEF PreviewMatchesPlan
<1>2. plan.written => plan.print.lists \in Nat /\ plan.print.lists <= root.lists
  BY DEF ListsInOrder
<1>3. "lists" \notin work'.todo => work'.view.lists <= root.lists
  BY DEF ListsInOrder
<1> QED BY <1>1, <1>2, <1>3 DEF ListsInOrder

(* An answer given from a scan; only AnswerPreview gives a preview.        *)
LEMMA PreviewAnswers ==
  ASSUME SpareInv, ListsInOrder, PreviewMatchesPlan, UNCHANGED <<plan, root>>, work' = Idle,
         answer'.kind # "preview" \/ answer' = answer \/ AnswerPreview
  PROVE  ListsInOrder' /\ PreviewMatchesPlan'
<1>1. ListsInOrder'
  BY DEF ListsInOrder, PrintShape, Idle, NoPrint
<1> SUFFICES PreviewMatchesPlan'
  BY <1>1
<1>2. CASE AnswerPreview /\ answer'.kind = "preview"
  <2>1. ~Stale /\ answer'.view = work.view /\ answer'.deletable = Deletable
    BY <1>2 DEF AnswerPreview, NoAnswer
  <2>2. work.at = "printed" /\ work.draft.written /\ work.draft = plan
    BY <1>2 DEF AnswerPreview, ListsInOrder
  <2>3. plan.print = work.print /\ plan.shot = SnapshotOf(plan.selected)
    BY <2>1, <2>2 DEF Stale
  <2>4. work.view.lists = plan.print.lists
    <3>1. work.view.lists \in Nat /\ "lists" \notin work.todo
      BY <2>2 DEF SpareInv, SeenActive, WorkShape, Roots
    <3>2. plan.print.lists \in Nat /\ plan.print.lists <= work.view.lists
      BY <2>2, <3>1 DEF ListsInOrder
    <3>3. work.view.lists <= plan.print.lists
      BY <2>2, <2>3 DEF ListsInOrder
    <3> QED BY <3>1, <3>2, <3>3
  <2>5. EdgesOf(work.view.edges, plan.selected) = plan.shot.edges
    BY <2>3 DEF SnapshotOf
  <2>6. Deletable \subseteq plan.selected
    BY <2>2 DEF Deletable
  <2>7. plan' = plan
    OBVIOUS
  <2> QED BY <2>1, <2>3, <2>4, <2>5, <2>6, <2>7 DEF PreviewMatchesPlan
<1>3. CASE answer'.kind # "preview"
  BY <1>3 DEF PreviewMatchesPlan
<1>4. CASE answer' = answer
  <2>1. plan' = plan
    OBVIOUS
  <2> QED BY <1>4, <2>1 DEF PreviewMatchesPlan
<1> QED BY <1>2, <1>3, <1>4

(* Every step of a command and every write by Codex keeps the order.       *)
LEMMA PreviewInvStep == PreviewInv /\ [PlansNext]_planVars => PreviewInv'
<1> SUFFICES ASSUME SpareInv, ListsInOrder, PreviewMatchesPlan, [PlansNext]_planVars
             PROVE  ListsInOrder' /\ PreviewMatchesPlan'
  BY SpareInvStep DEF PreviewInv
<1>1. /\ root.lists \in Nat
      /\ work = [at |-> work.at, todo |-> work.todo, cmd |-> work.cmd, view |-> work.view,
                 draft |-> work.draft, print |-> work.print]
      /\ work.view \in Roots
      /\ work.at \notin {"idle", "scan"} => work.todo = {}
  BY DEF SpareInv, WorkShape, SeenActive, Roots
<1>2. CASE StartCommand \/ StartPreview
  BY <1>2, PreviewBegins
<1>3. CASE ScanStep
  <2> DEFINE Reads(at, view) ==
        /\ work' = [work EXCEPT !.at = at, !.todo = work'.todo, !.view = view]
        /\ work.at # "idle" /\ at \in {"scan", "edges", "scanned"}
        /\ "lists" \notin work'.todo =>
             \/ "lists" \notin work.todo /\ view.lists = work.view.lists
             \/ view.lists = root.lists
  <2>1. UNCHANGED <<plan, answer, root>>
    BY <1>3 DEF ScanStep
  <2>2. ASSUME NEW at, NEW view, Reads(at, view)
        PROVE  ListsInOrder' /\ PreviewMatchesPlan'
    <3>1. /\ work'.at = at /\ work'.view = view /\ work'.draft = work.draft
          /\ work'.print = work.print
      BY <1>1, <2>2
    <3>2. PrintShape'
      BY <3>1 DEF ListsInOrder, PrintShape
    <3> QED BY <1>1, <2>1, <2>2, <3>1, <3>2, PreviewGoesOn
  <2>3. CASE ReadDirectories
    <3> DEFINE view == [work.view EXCEPT !.file = root.file]
    <3>1. /\ work.at = "scan" /\ work' = [work EXCEPT !.todo = work.todo \ {"files"}, !.view = view]
      BY <2>3 DEF ReadDirectories
    <3>2. view.lists = work.view.lists
      BY <1>1 DEF Roots
    <3> HIDE DEF view
    <3>3. work'.todo = work.todo \ {"files"}
      BY <1>1, <3>1
    <3>4. work' = [work EXCEPT !.at = "scan", !.todo = work'.todo, !.view = view]
      BY <1>1, <3>1, <3>3
    <3> QED BY <2>2, <3>1, <3>2, <3>3, <3>4
  <2>4. CASE ReadLists
    <3> DEFINE view == [work.view EXCEPT !.index = root.index, !.refs = root.refs,
                                         !.lists = root.lists]
    <3>1. /\ work.at = "scan" /\ work' = [work EXCEPT !.todo = work.todo \ {"lists"}, !.view = view]
      BY <2>4 DEF ReadLists
    <3>2. view.lists = root.lists
      BY <1>1 DEF Roots
    <3> HIDE DEF view
    <3>3. work' = [work EXCEPT !.at = "scan", !.todo = work'.todo, !.view = view]
      BY <1>1, <3>1
    <3> QED BY <2>2, <3>1, <3>2, <3>3
  <2>5. CASE ReadThreads
    <3> DEFINE view == [work.view EXCEPT !.thread = root.thread, !.stored = root.stored]
    <3>1. /\ work.at = "scan" /\ work' = [work EXCEPT !.at = "edges", !.view = view]
      BY <2>5 DEF ReadThreads
    <3>2. view.lists = work.view.lists
      BY <1>1 DEF Roots
    <3> HIDE DEF view
    <3>3. work'.todo = work.todo
      BY <1>1, <3>1
    <3>4. work' = [work EXCEPT !.at = "edges", !.todo = work'.todo, !.view = view]
      BY <1>1, <3>1, <3>3
    <3> QED BY <2>2, <3>1, <3>2, <3>3, <3>4
  <2>6. CASE ReadEdges
    <3> DEFINE view == [work.view EXCEPT !.edges = root.edges]
    <3>1. /\ work.at = "edges" /\ work' = [work EXCEPT !.at = "scanned", !.view = view]
      BY <2>6 DEF ReadEdges
    <3>2. view.lists = work.view.lists
      BY <1>1 DEF Roots
    <3> HIDE DEF view
    <3>3. work'.todo = work.todo
      BY <1>1, <3>1
    <3>4. work' = [work EXCEPT !.at = "scanned", !.todo = work'.todo, !.view = view]
      BY <1>1, <3>1, <3>3
    <3> QED BY <2>2, <3>1, <3>2, <3>3, <3>4
  <2> QED BY <1>3, <2>3, <2>4, <2>5, <2>6 DEF ScanStep
<1>4. CASE AnswerFamily \/ ShowPlan \/ AnswerPreview \/ (BuildPlan /\ work' = Idle)
  <2>1. CASE AnswerFamily
    <3>1. answer'.kind \in {"family", "none"}
      BY <2>1 DEF AnswerFamily, NoAnswer
    <3> QED BY <2>1, <3>1, PreviewAnswers DEF AnswerFamily
  <2>2. CASE ShowPlan
    <3>1. answer'.kind = "plan"
      BY <2>2 DEF ShowPlan, NoAnswer
    <3> QED BY <2>2, <3>1, PreviewAnswers DEF ShowPlan
  <2>3. CASE AnswerPreview
    BY <2>3, PreviewAnswers DEF AnswerPreview
  <2>4. CASE BuildPlan /\ work' = Idle
    BY <2>4, PreviewAnswers DEF BuildPlan
  <2> QED BY <1>4, <2>1, <2>2, <2>3, <2>4
<1>5. CASE BuildPlan /\ work' # Idle
  <2> DEFINE p == PlanOf(work.view, work.cmd)
  <2>1. /\ work' = [work EXCEPT !.at = "planned", !.draft = p] /\ work.at = "scanned"
        /\ ~work.draft.written /\ UNCHANGED <<plan, answer, root>>
    BY <1>5 DEF BuildPlan
  <2>2. p.written = FALSE
    BY PlanSparesActive
  <2> HIDE DEF p
  <2>3. /\ work'.view = work.view /\ work'.at = "planned" /\ work'.draft.written = FALSE
        /\ work'.todo = work.todo /\ work'.print = work.print
    BY <1>1, <2>1, <2>2
  <2>4. PrintShape'
    BY <2>3 DEF ListsInOrder, PrintShape
  <2> QED BY <1>1, <2>1, <2>3, <2>4, PreviewGoesOn
<1>6. CASE PrintLists \/ PrintMain \/ ComparePlan
  <2>1. /\ UNCHANGED <<plan, answer, root>> /\ work.at \notin {"idle", "scan"} /\ work'.at # "idle"
        /\ work'.draft = work.draft /\ work'.todo = work.todo /\ work'.view = work.view
    BY <1>1, <1>6 DEF PrintLists, PrintMain, ComparePlan
  <2>2. work'.at \in {"main", "printed"} =>
          \/ work'.print.lists = root.lists
          \/ work.at = "main" /\ work'.print.lists = work.print.lists
    <3>1. CASE PrintLists
      <4>1. work'.print = [work.print EXCEPT !.lists = root.lists]
        BY <1>1, <3>1 DEF PrintLists
      <4> QED BY <4>1 DEF ListsInOrder, PrintShape
    <3>2. CASE PrintMain
      <4>1. work'.print = [work.print EXCEPT !.main = root.main]
        BY <1>1, <3>2 DEF PrintMain
      <4> QED BY <3>2, <4>1 DEF ListsInOrder, PrintShape, PrintMain
    <3>3. CASE ComparePlan
      BY <1>1, <3>3 DEF ComparePlan
    <3> QED BY <1>6, <3>1, <3>2, <3>3
  <2>3. PrintShape'
    <3>1. \/ work'.print = work.print
          \/ work'.print = [work.print EXCEPT !.lists = root.lists]
          \/ work'.print = [work.print EXCEPT !.main = root.main]
      BY <1>1, <1>6 DEF PrintLists, PrintMain, ComparePlan
    <3> QED BY <3>1 DEF ListsInOrder, PrintShape
  <2> QED BY <1>1, <2>1, <2>2, <2>3, PreviewGoesOn
<1>7. CASE WritePlanFile
  <2>1. /\ root' = root /\ work' = Idle /\ work.at = "printed"
        /\ plan' = [work.draft EXCEPT !.written = TRUE, !.print = work.print,
                                      !.shot = SnapshotOf(work.draft.selected)]
        /\ answer' = [NoAnswer EXCEPT !.kind = "plan", !.view = work.view]
    BY <1>7 DEF WritePlanFile
  <2>2. answer'.kind = "plan"
    BY <2>1 DEF NoAnswer
  <2>3. plan'.print.lists \in Nat /\ plan'.print.lists <= root.lists
    BY <2>1 DEF ListsInOrder
  <2>4. work'.at = "idle" /\ PrintShape'
    BY <2>1 DEF Idle, NoPrint, PrintShape
  <2> QED BY <2>1, <2>2, <2>3, <2>4 DEF ListsInOrder, PreviewMatchesPlan
<1>8. CASE CodexActs
  <2>1. UNCHANGED <<work, plan, answer>> /\ root'.lists \in {root.lists, root.lists + 1}
    BY <1>1, <1>8
       DEF CodexActs, RootChanges, CodexMovesRollout, CodexWritesThread, CodexSpawns,
           CodexListsSession, SpareInv, Roots
  <2>2. PreviewMatchesPlan'
    BY <2>1 DEF PreviewMatchesPlan
  <2>3. work.view.lists \in Nat
    BY <1>1 DEF Roots
  <2>4. ListsInOrder'
    BY <1>1, <2>1, <2>3 DEF ListsInOrder, PrintShape
  <2> QED BY <2>2, <2>4
<1>9. CASE UNCHANGED planVars
  <2>1. UNCHANGED <<work, plan, answer, root>>
    BY <1>9 DEF planVars
  <2> QED BY <2>1 DEF ListsInOrder, PrintShape, PreviewMatchesPlan
<1> QED BY <1>2, <1>3, <1>4, <1>5, <1>6, <1>7, <1>8, <1>9 DEF PlansNext

(* A preview that is not reported stale has read the lists its plan was    *)
(* written from, deletes nothing the plan did not select and knows the     *)
(* edges the plan counted, whatever Codex writes between the scan and the  *)
(* fingerprints of either command (plan-file.ts:264-321).                  *)
THEOREM PreviewsAreOfTheirPlan == PlansSpec => []PreviewMatchesPlan
<1>1. PlansInit => PreviewInv
  BY SpareInvInit DEF PlansInit, Idle, NoAnswer, NoPlan, NoPrint, PreviewInv, ListsInOrder,
                      PrintShape,
                      PreviewMatchesPlan
<1>2. PreviewInv => PreviewMatchesPlan
  BY DEF PreviewInv
<1> QED BY <1>1, <1>2, PreviewInvStep, PTL DEF PlansSpec

-----------------------------------------------------------------------------
(***************************************************************************)
(* The types of the variables of all six components, for any values of the *)
(* constants.                                                              *)
(***************************************************************************)

(* Every text and every file that AtomicWrite makes is one.                *)
LEMMA WriteTypes == WriteTypeOK /\ [WriteNext]_writeVars => WriteTypeOK'
<1> SUFFICES ASSUME WriteTypeOK, [WriteNext]_writeVars PROVE WriteTypeOK'
  OBVIOUS
<1> DEFINE Ats == AfterStart \cup {"idle", "reading", "read", "stale", "done", "failing", "failed",
                                   "killed", "off"}
           Writes == [at : Ats, checks : BOOLEAN, walked : Files, seen : Texts,
                      target : Inodes \cup {0}, temp : {"none", "there", "target"},
                      synced : BOOLEAN, old : Files]
<1>1. /\ file \in Files /\ texts \subseteq Texts /\ late \in BOOLEAN
      /\ fileWrites \in 0 .. MaxFileWrites /\ write \in Writes
  BY DEF WriteTypeOK
<1>2. MaxFileWrites \in Nat /\ Inodes \subseteq Nat
  BY InodeAssumption
<1>3. /\ NoText \in Texts /\ ToolText \in Texts /\ InPieces(ToolText) \in Texts
      /\ \A n \in 0 .. MaxFileWrites : Codex(n) \in Texts
      /\ \A t \in Texts : InPieces(t) \in Texts
      /\ \A f \in Files : f.text \in Texts /\ f.inode \in Inodes \cup {0}
  <2>1. 0 \in 0 .. MaxFileWrites
    BY <1>2
  <2>2. NoText \in Texts /\ ToolText \in Texts /\ \A n \in 0 .. MaxFileWrites : Codex(n) \in Texts
    BY <2>1 DEF NoText, ToolText, Codex, Texts
  <2>3. \A t \in Texts : InPieces(t) \in Texts
    BY DEF InPieces, Texts
  <2>4. \A f \in Files : f.text \in Texts /\ f.inode \in Inodes \cup {0}
    BY DEF Files
  <2> QED BY <2>2, <2>3, <2>4
<1>4. NoFile \in Files /\ NoWrite \in Writes
  BY <1>2, <1>3 DEF NoFile, NoWrite, Files
<1>5. ASSUME NEW at \in Ats, At(at) PROVE write' \in Writes
  BY <1>1, <1>5 DEF At
<1>6. ASSUME OnlyMoves, write' \in Writes PROVE WriteTypeOK'
  BY <1>1, <1>6 DEF OnlyMoves, WriteTypeOK
<1>7. CASE StartReading
  <2>1. PICK i \in Inodes \cup {0}, checks \in BOOLEAN :
          /\ file' = IF i = 0 THEN NoFile ELSE [inode |-> i, text |-> Codex(0), stamp |-> 0]
          /\ write' = [NoWrite EXCEPT !.at = "reading", !.checks = checks, !.walked = file']
          /\ texts' = {file'.text}
    BY <1>7 DEF StartReading
  <2>2. file' \in Files
    BY <2>1, <1>2, <1>3, <1>4 DEF Files
  <2>3. write' \in Writes /\ texts' \subseteq Texts
    BY <2>1, <2>2, <1>3, <1>4
  <2> QED BY <1>1, <1>7, <2>2, <2>3 DEF StartReading, WriteTypeOK
<1>8. CASE FinishReading
  <2>1. PICK got \in Readable(write.walked) :
          write' = IF ReadStable
                   THEN [write EXCEPT !.at = "read", !.seen = got] ELSE [write EXCEPT !.at = "stale"]
    BY <1>8 DEF FinishReading
  <2>2. got \in Texts
    BY <1>1, <1>3 DEF Readable
  <2>3. write' \in Writes
    BY <1>1, <2>1, <2>2
  <2> QED BY <1>6, <1>8, <2>3 DEF FinishReading
<1>9. CASE CaptureTarget \/ FillTemp \/ SyncTemp
  <2>1. write' \in Writes
    BY <1>1, <1>3, <1>9 DEF CaptureTarget, FillTemp, SyncTemp, Synced, AfterStart
  <2> QED BY <1>6, <1>9, <2>1 DEF CaptureTarget, FillTemp, SyncTemp
<1>10. CASE StartComparing
  <2>1. write' \in Writes
    BY <1>1, <1>10 DEF StartComparing, AfterStart
  <2> QED BY <1>1, <1>10, <2>1 DEF StartComparing, WriteTypeOK
<1>11. CASE FinishComparing \/ CheckTarget \/ VerifyReplaced \/ SyncDirectory \/ WriteThrows \/ Killed
  <2>1. \E at \in Ats : At(at)
    BY <1>11 DEF FinishComparing, CheckTarget, VerifyReplaced, SyncDirectory, WriteThrows, Killed,
                 AfterStart
  <2>2. write' \in Writes
    BY <1>5, <2>1
  <2> QED BY <1>6, <1>11, <2>2
          DEF FinishComparing, CheckTarget, VerifyReplaced, SyncDirectory, WriteThrows, Killed
<1>12. CASE Replace
  <2>1. PICK i \in Inodes \ {file.inode} : file' = [inode |-> i, text |-> ToolText, stamp |-> 0]
    BY <1>12 DEF Replace
  <2>2. file' \in Files
    BY <1>2, <1>3, <2>1 DEF Files
  <2>3. write' \in Writes
    BY <1>1, <1>12 DEF Replace, AfterStart
  <2> QED BY <1>1, <1>12, <2>2, <2>3 DEF Replace, WriteTypeOK
<1>13. CASE DropTemp
  <2>1. PICK left \in {"none", "there"} :
          write' = [write EXCEPT !.at = "failed",
                                 !.temp = IF write.temp = "there" THEN left ELSE write.temp]
    BY <1>13 DEF DropTemp
  <2>2. write' \in Writes
    BY <1>1, <2>1
  <2> QED BY <1>6, <1>13, <2>2 DEF DropTemp
<1>14. CASE CodexWritesInPlace \/ CodexReplaces \/ CodexRemoves \/ CodexCreates
  <2>1. \E next : CodexWritesFile(next) /\ (next = NoFile \/ \E i \in Inodes \cup {0} : next = Fresh(i))
    BY <1>1, <1>3, <1>14 DEF CodexWritesInPlace, CodexReplaces, CodexRemoves, CodexCreates
  <2>2. PICK next : CodexWritesFile(next) /\ (next = NoFile \/ \E i \in Inodes \cup {0} : next = Fresh(i))
    BY <2>1
  <2>3. fileWrites < MaxFileWrites /\ fileWrites' = fileWrites + 1 /\ file' = next /\ write' = write
    BY <2>2 DEF CodexWritesFile
  <2>4. fileWrites' \in 0 .. MaxFileWrites
    BY <1>1, <1>2, <2>3
  <2>5. file' \in Files
    BY <1>3, <1>4, <2>2, <2>3, <2>4 DEF Fresh, Files
  <2>6. texts' \subseteq Texts /\ late' \in BOOLEAN
    BY <1>1, <1>3, <2>2, <2>3, <2>5 DEF CodexWritesFile, Unseen, Compared
  <2> QED BY <1>1, <2>3, <2>4, <2>5, <2>6 DEF WriteTypeOK
<1>15. CASE PowerFails
  <2>1. file' \in Files
    BY <1>1, <1>3, <1>15 DEF PowerFails, AfterPowerLoss, Files
  <2>2. write' \in Writes
    BY <1>5, <1>15 DEF PowerFails
  <2> QED BY <1>1, <1>15, <2>1, <2>2 DEF PowerFails, WriteTypeOK
<1>16. CASE UNCHANGED writeVars
  BY <1>16 DEF writeVars, WriteTypeOK
<1> QED BY <1>7, <1>8, <1>9, <1>10, <1>11, <1>12, <1>13, <1>14, <1>15, <1>16 DEF WriteNext

(* And it begins with one.                                                 *)
LEMMA WriteTypesInit == WriteInit => WriteTypeOK
<1>1. 0 \in 0 .. MaxFileWrites
  BY InodeAssumption
<1>2. NoText \in Texts
  BY <1>1 DEF NoText, Texts
<1>3. NoFile \in Files
  BY <1>1, <1>2 DEF NoFile, Files
<1>4. NoWrite \in [at : AfterStart \cup {"idle", "reading", "read", "stale", "done", "failing",
                                          "failed", "killed", "off"},
                   checks : BOOLEAN, walked : Files, seen : Texts, target : Inodes \cup {0},
                   temp : {"none", "there", "target"}, synced : BOOLEAN, old : Files]
  BY <1>2, <1>3 DEF NoWrite
<1>5. {} \subseteq Texts /\ FALSE \in BOOLEAN
  OBVIOUS
<1> QED BY <1>1, <1>3, <1>4, <1>5 DEF WriteInit, WriteTypeOK

-----------------------------------------------------------------------------
(* A global state file is a document, and it is sound.                     *)
LEMMA RefsTypesInit == RefsInit => RefsTypeOK
<1>1. RefsInit => doc \in Document
  BY RefsInvInit DEF RefsInv
<1>2. Sound(EmptyDoc)
  BY DEF EmptyDoc, Sound, NoEntries, Holders
<1>3. 0 \in 0 .. MaxDocWrites
  BY DocumentAssumption
<1> QED BY <1>1, <1>2, <1>3 DEF RefsInit, RefsTypeOK, NoRefs

(* A removal leaves it sound, and so does a restore.                       *)
LEMMA RemovedSound ==
  ASSUME NEW d \in Document, Sound(d), NEW ids \in SUBSET RefIds PROVE Sound(RemovedRefs(d, ids))
<1>1. /\ RemovedRefs(d, ids).top = d.top /\ RemovedRefs(d, ids).atom = d.atom
      /\ RemovedRefs(d, ids).shape = d.shape
  BY DEF RemovedRefs, Document
<1>2. \A h \in Holders, id \in RefIds :
        d.at[h][id] = "none" => RemovedRefs(d, ids).at[h][id] = "none"
  BY RemovedTyped
<1> QED BY <1>1, <1>2 DEF Sound

(* A restore puts entries into proper holders only.                        *)
LEMMA RestoredSound ==
  ASSUME NEW d \in Document, Sound(d), NEW kept \in SUBSET References PROVE Sound(RestoredDoc(d, kept))
<1> DEFINE used == {r.key : r \in kept}
           e == RestoredDoc(d, kept)
<1>1. /\ e.top = "proper" /\ e.atom = (IF used \cap ExactKeys # {} THEN "proper" ELSE d.atom)
      /\ \A h \in Holders : e.shape[h] = IF h \in used THEN "proper" ELSE d.shape[h]
  BY DEF RestoredDoc
<1>2. \A h \in Holders, id \in RefIds : e.at[h][id] = ValueAfter(d, kept, h, id)
  BY RestoredTyped
<1>3. ASSUME NEW h \in Holders, e.shape[h] # "proper", NEW id \in RefIds PROVE e.at[h][id] = "none"
  <2>1. h \notin used /\ d.at[h][id] = "none"
    BY <1>1, <1>3 DEF Sound
  <2> QED BY <1>2, <2>1 DEF ValueAfter
<1>4. ASSUME e.atom # "proper", NEW h \in ExactKeys PROVE e.shape[h] = "absent"
  <2>1. h \notin used /\ d.atom # "proper" /\ h \in Holders
    BY <1>1, <1>4 DEF Holders
  <2> QED BY <1>1, <2>1 DEF Sound
<1> HIDE DEF used, e
<1>5. Sound(e)
  BY <1>1, <1>3, <1>4 DEF Sound
<1> QED BY <1>5 DEF e

(* Every step leaves a sound document.                                     *)
LEMMA RefsTypes == RefsTypeOK /\ [RefsNext]_docVars => RefsTypeOK'
<1> SUFFICES ASSUME RefsTypeOK, [RefsNext]_docVars PROVE RefsTypeOK'
  OBVIOUS
<1> DEFINE States == {"idle", "scanned", "removed", "stale", "checked", "captured", "restored", "refused"}
           All == [step : States, ids : SUBSET RefIds, kept : SUBSET References, seen : Document]
<1>1. /\ doc \in Document /\ Sound(doc) /\ refs \in All /\ docWrites \in 0 .. MaxDocWrites
      /\ MaxDocWrites \in Nat
  BY DocumentAssumption DEF RefsTypeOK
<1>2. ASSUME doc' \in Document, Sound(doc'), refs' \in All, docWrites' = docWrites PROVE RefsTypeOK'
  BY <1>1, <1>2 DEF RefsTypeOK
<1>3. CASE ScanDocument
  <2>1. PICK d \in Documents, ids \in (SUBSET RefIds) \ {{}} :
          /\ doc' = d
          /\ refs' = [step |-> "scanned", ids |-> ids, kept |-> Collected(d, ids), seen |-> d]
    BY <1>3 DEF ScanDocument
  <2>2. Collected(d, ids) \subseteq References /\ d \in Document /\ Sound(d)
    BY DocumentAssumption DEF Collected
  <2> QED BY <1>2, <1>3, <2>1, <2>2 DEF ScanDocument
<1>4. CASE RemoveReferences
  <2>1. doc' \in Document /\ Sound(doc')
    BY <1>1, <1>4, RemovedTyped, RemovedSound DEF RemoveReferences
  <2>2. refs' \in All
    BY <1>1, <1>4 DEF RemoveReferences
  <2> QED BY <1>2, <1>4, <2>1, <2>2 DEF RemoveReferences
<1>5. CASE CheckLiveRefs \/ CaptureDocument
  <2>1. refs' \in All
    BY <1>1, <1>5 DEF CheckLiveRefs, CaptureDocument
  <2> QED BY <1>1, <1>2, <1>5, <2>1 DEF CheckLiveRefs, CaptureDocument
<1>6. CASE RestoreReferences
  <2>1. doc' \in Document /\ Sound(doc')
    BY <1>1, <1>6, RestoredTyped, RestoredSound DEF RestoreReferences
  <2>2. refs' \in All
    BY <1>1, <1>6 DEF RestoreReferences
  <2> QED BY <1>2, <1>6, <2>1, <2>2 DEF RestoreReferences
<1>7. CASE CodexWritesDocument
  <2>1. docWrites' \in 0 .. MaxDocWrites /\ refs' = refs
    <3>1. docWrites < MaxDocWrites /\ docWrites' = docWrites + 1 /\ refs' = refs
      BY <1>7 DEF CodexWritesDocument
    <3> QED BY <1>1, <3>1
  <2>2. ASSUME NEW h \in Holders, NEW id \in RefIds, NEW v \in RefValues, doc.shape[h] = "proper",
               doc' = [doc EXCEPT !.at[h][id] = v]
        PROVE  doc' \in Document /\ Sound(doc')
    <3>1. doc' \in Document
      BY <1>1, <2>2 DEF Document
    <3>2. /\ doc'.top = doc.top /\ doc'.atom = doc.atom /\ doc'.shape = doc.shape
          /\ \A g \in Holders, x \in RefIds : g # h => doc'.at[g][x] = doc.at[g][x]
      BY <1>1, <2>2 DEF Document
    <3> QED BY <1>1, <2>2, <3>1, <3>2 DEF Sound
  <2>3. CodexReshapes => doc' \in Document /\ Sound(doc')
    BY <1>1, ReshapedTyped
  <2>4. doc' \in Document /\ Sound(doc')
    BY <1>7, <2>2, <2>3 DEF CodexWritesDocument
  <2> QED BY <1>1, <2>1, <2>4 DEF RefsTypeOK
<1>8. CASE UNCHANGED docVars
  BY <1>1, <1>8 DEF docVars, RefsTypeOK
<1> QED BY <1>3, <1>4, <1>5, <1>6, <1>7, <1>8 DEF RefsNext

-----------------------------------------------------------------------------
(* A row is where it may be: in a table that is there, of its kind.        *)
Fits(row, sl, db) ==
  row # Absent => /\ <<sl[1], sl[2]>> \in db.present /\ row \in RowsOf(sl[2])
                  /\ sl[1] = "goals" => db.dedicated
RecordsOfKind(bundle) == \A r \in bundle : r[2] \in RowsOf(r[1][2])
BaseOK == base.present \subseteq Places /\ base.dedicated \in BOOLEAN
          /\ \A sl \in Slots : Fits(base.rows[sl], sl, base)
OpOK   == /\ op.at \in Steps /\ op.targets \subseteq RowSessions
          /\ op.skipped \subseteq Slots \X Content /\ RecordsOfKind(op.bundle)
RowsFit == RowsTyped /\ BaseOK /\ OpOK

(* What RowAssumption asks of a root.                                      *)
LEMMA BaseIsState == RowsTyped => (RowStateOK(base) <=> BaseOK)
BY DEF RowsTyped, RowStateOK, BaseOK, Fits

(* Where a record is put back, its row fits, if there is a table.          *)
LEMMA RecordsFitIn ==
  ASSUME RowsFit, NEW db, NEW r \in Records(db), PlaceOf(r[1]) \in base.present
  PROVE  Fits(r[2], r[1], base) /\ r[2] \in RowsOf(r[1][2])
<1>1. PICK q \in op.bundle : r = <<Home(q[1]), q[2]>>
  BY DEF Records, RecordsFor
<1>2. q[1] \in Slots /\ r[1] = Home(q[1]) /\ r[2] = q[2]
  BY <1>1 DEF RowsFit, RowsTyped
<1>3. r[1][2] = q[1][2] /\ (r[1][1] = "goals" => base.dedicated)
  BY <1>2 DEF Home
<1> QED BY <1>1, <1>2, <1>3 DEF RowsFit, OpOK, RecordsOfKind, Fits, PlaceOf

(* The owner of a job item is any session.                                 *)
LEMMA ItemsHaveOwners ==
  ASSUME NEW row \in RowsOf("items"), NEW w \in RowSessions \cup {Nobody}
  PROVE  [row EXCEPT !.whose = w] \in RowsOf("items")
BY DEF RowsOf

(* No write of the operation puts a row where none of its kind may be.     *)
LEMMA WritesFit ==
  ASSUME RowsFit, NEW db,
         \/ DeleteRows(db)
         \/ PutRecords(db) /\ ReconcilePossible(db)
         \/ InsertRows(db) /\ ~InsertsFail(db)
  PROVE  BaseOK'
<1>1. /\ base'.rows \in [Slots -> Content]
      /\ base'.present = base.present /\ base'.dedicated = base.dedicated
  <2>1. RowsTyped
    BY DEF RowsFit
  <2>2. base' = [rows |-> base'.rows, present |-> base.present, dedicated |-> base.dedicated]
    BY <2>1, WritesLeaveRows
  <2> QED BY <2>1, <2>2, WritesLeaveRows
<1>2. SUFFICES ASSUME NEW sl \in Slots PROVE Fits(base'.rows[sl], sl, base)
  BY <1>1 DEF RowsFit, BaseOK, Fits
<1>3. Fits(base.rows[sl], sl, base) /\ base.rows[sl] \in Content
  BY DEF RowsFit, RowsTyped, BaseOK
<1>4. CASE DeleteRows(db)
  <2>1. base'.rows[sl] = (IF sl[1] = db THEN AfterDelete(base.rows[sl], sl) ELSE base.rows[sl])
    BY <1>4 DEF DeleteRows, RowsFit, RowsTyped
  <2>2. CASE sl[2] = "items" /\ base.rows[sl] # Absent
    <3>1. base.rows[sl] \in RowsOf("items")
      BY <1>3, <2>2 DEF Fits
    <3>2. [base.rows[sl] EXCEPT !.whose = Nobody] \in RowsOf("items")
      BY <3>1, ItemsHaveOwners
    <3> QED BY <1>3, <2>1, <2>2, <3>1, <3>2 DEF Fits, AfterDelete
  <2>3. CASE ~(sl[2] = "items" /\ base.rows[sl] # Absent)
    BY <1>3, <2>1, <2>3 DEF Fits, AfterDelete, Belongs
  <2> QED BY <2>2, <2>3
<1>5. CASE PutRecords(db) /\ ReconcilePossible(db)
  <2> DEFINE of == CHOOSE r \in Records(db) : r[1] = sl
  <2>1. base'.rows[sl] = IF \E r \in Records(db) : r[1] = sl THEN of[2] ELSE base.rows[sl]
    BY <1>5 DEF PutRecords, ReconciledRow, RowsFit, RowsTyped
  <2>2. ASSUME \E r \in Records(db) : r[1] = sl PROVE Fits(of[2], sl, base)
    <3>1. of \in Records(db) /\ of[1] = sl
      BY <2>2
    <3> HIDE DEF of
    <3>2. PlaceOf(of[1]) \in base.present
      BY <1>5, <3>1 DEF ReconcilePossible
    <3> QED BY <3>1, <3>2, RecordsFitIn
  <2> QED BY <1>3, <2>1, <2>2
<1>6. CASE InsertRows(db) /\ ~InsertsFail(db)
  <2> DEFINE of == CHOOSE r \in Inserts(db) : r[1] = sl
  <2>1. base'.rows[sl] = IF \E r \in Inserts(db) : r[1] = sl
                         THEN RestoredRow(base.rows[sl], of[2]) ELSE base.rows[sl]
    BY <1>6 DEF InsertRows, RowsFit, RowsTyped
  <2>2. ASSUME \E r \in Inserts(db) : r[1] = sl PROVE Fits(RestoredRow(base.rows[sl], of[2]), sl, base)
    <3>1. of \in Inserts(db) /\ of[1] = sl
      BY <2>2
    <3> HIDE DEF of
    <3>2. of \in Records(db) /\ PlaceOf(of[1]) \in base.present
      BY <3>1 DEF Inserts, Skipped
    <3>3. Fits(of[2], sl, base) /\ of[2] \in RowsOf(sl[2])
      BY <3>1, <3>2, RecordsFitIn
    <3>4. CASE base.rows[sl] = Absent
      BY <3>3, <3>4 DEF RestoredRow
    <3>5. CASE base.rows[sl] # Absent
      <4>1. sl[2] = "items" /\ base.rows[sl] \in RowsOf("items")
        BY <1>3, <1>6, <3>1, <3>5 DEF InsertsFail, Fits
      <4>2. of[2].whose \in RowSessions \cup {Nobody}
        BY <3>3, <4>1 DEF RowsOf
      <4>3. [base.rows[sl] EXCEPT !.whose = of[2].whose] \in RowsOf("items")
        BY <4>1, <4>2, ItemsHaveOwners
      <4> QED BY <1>3, <3>5, <4>1, <4>3 DEF RestoredRow, Fits
    <3> QED BY <3>4, <3>5
  <2> QED BY <1>3, <2>1, <2>2
<1> QED BY <1>4, <1>5, <1>6

(* An operation that moves on.                                             *)
LEMMA MovesFit ==
  ASSUME RowsFit, NEW at \in Steps, To(at) PROVE OpOK'
<1>1. op' = [at |-> at, trash |-> op.trash, targets |-> op.targets, todo |-> op.todo,
             bundle |-> op.bundle, skipped |-> op.skipped, given |-> op.given, calm |-> op.calm]
  BY DEF To, RowsFit, RowsTyped
<1> QED BY <1>1 DEF RowsFit, OpOK

(* No step does.                                                           *)
LEMMA RowsFitStep == RowsFit /\ RowsTyped' /\ [RowsNext]_rowVars => BaseOK' /\ OpOK'
<1> SUFFICES ASSUME RowsFit, RowsTyped', [RowsNext]_rowVars PROVE BaseOK' /\ OpOK'
  OBVIOUS
<1>1. /\ BaseOK /\ OpOK
      /\ op = [at |-> op.at, trash |-> op.trash, targets |-> op.targets, todo |-> op.todo,
               bundle |-> op.bundle, skipped |-> op.skipped, given |-> op.given, calm |-> op.calm]
      /\ op.bundle \subseteq Slots \X Content
      /\ base = [rows |-> base.rows, present |-> base.present, dedicated |-> base.dedicated]
      /\ base.rows \in [Slots -> Content]
  BY DEF RowsFit, RowsTyped
<1>2. base' = base => BaseOK'
  BY <1>1 DEF BaseOK
<1>3. CASE StartRows
  <2>1. PICK db \in RowStates, targets \in SUBSET RowSessions, trash \in BOOLEAN :
          /\ base' = db
          /\ op' = [NoOp EXCEPT !.at = "export", !.targets = targets, !.trash = trash,
                    !.todo = targets \X (IF db.dedicated THEN {"state", "goals"} ELSE {"state"})]
    BY <1>3 DEF StartRows
  <2>2. BaseOK'
    BY <2>1, RowAssumption DEF RowStateOK, BaseOK, Fits
  <2>3. OpOK'
    BY <2>1 DEF NoOp, OpOK, RecordsOfKind, Steps
  <2> QED BY <2>2, <2>3
<1>4. CASE ExportRecords
  <2>1. PICK d \in op.todo :
          op' = [op EXCEPT !.todo = op.todo \ {d},
                           !.bundle = op.bundle \cup Exported(base.rows, d[2], {d[1]}),
                           !.at = IF op.todo # {d} THEN "export"
                                  ELSE IF base.dedicated THEN "deleteGoals" ELSE "deleteState"]
    BY <1>4 DEF ExportRecords
  <2> DEFINE bundle == op.bundle \cup Exported(base.rows, d[2], {d[1]})
             at == IF op.todo # {d} THEN "export"
                   ELSE IF base.dedicated THEN "deleteGoals" ELSE "deleteState"
  <2>2. at \in Steps
    BY DEF Steps, Interruptible
  <2>3. RecordsOfKind(bundle)
    <3>1. ASSUME NEW r \in Exported(base.rows, d[2], {d[1]}) PROVE r[2] \in RowsOf(r[1][2])
      <4>1. PICK x \in Slots : r = <<x, base.rows[x]>> /\ Belongs(x, base.rows[x], {d[1]})
        BY DEF Exported
      <4>2. base.rows[x] # Absent /\ Fits(base.rows[x], x, base)
        BY <1>1, <4>1 DEF Belongs, BaseOK
      <4>3. r[1] = x /\ r[2] = base.rows[x]
        BY <4>1
      <4> QED BY <4>2, <4>3 DEF Fits
    <3> QED BY <1>1, <3>1 DEF RecordsOfKind, OpOK
  <2> HIDE DEF at, bundle
  <2>4. op' = [at |-> at, trash |-> op.trash, targets |-> op.targets, todo |-> op.todo \ {d},
               bundle |-> bundle, skipped |-> op.skipped, given |-> op.given, calm |-> op.calm]
    BY <1>1, <2>1 DEF at, bundle
  <2>5. OpOK'
    BY <1>1, <2>2, <2>3, <2>4 DEF OpOK
  <2> QED BY <1>2, <1>4, <2>5 DEF ExportRecords
<1>5. CASE DeleteGoalRows \/ DeleteStateRows
  <2>1. (DeleteRows("goals") \/ DeleteRows("state")) /\ \E at \in Steps : To(at)
    BY <1>5 DEF DeleteGoalRows, DeleteStateRows, Steps, Interruptible
  <2> QED BY <2>1, WritesFit, MovesFit
<1>6. CASE KeepRows
  <2>1. OpOK'
    <3>1. CASE To("gone")
      BY <3>1, MovesFit DEF Steps
    <3>2. CASE \E kept \in Deduped(op.bundle) : op' = [op EXCEPT !.at = "trashed", !.bundle = kept]
      <4>1. PICK kept \in SUBSET op.bundle : op' = [op EXCEPT !.at = "trashed", !.bundle = kept]
        BY <3>2 DEF Deduped
      <4>2. op' = [at |-> "trashed", trash |-> op.trash, targets |-> op.targets, todo |-> op.todo,
                   bundle |-> kept, skipped |-> op.skipped, given |-> op.given, calm |-> op.calm]
        BY <1>1, <4>1
      <4> QED BY <1>1, <4>1, <4>2 DEF OpOK, RecordsOfKind, Steps
    <3> QED BY <1>6, <3>1, <3>2 DEF KeepRows
  <2> QED BY <1>2, <1>6, <2>1 DEF KeepRows
<1>7. CASE Interrupt
  <2>1. op' = [op EXCEPT !.at = "reconcileState", !.calm = TRUE] /\ base' = base
    BY <1>7 DEF Interrupt
  <2>2. op' = [at |-> "reconcileState", trash |-> op.trash, targets |-> op.targets, todo |-> op.todo,
               bundle |-> op.bundle, skipped |-> op.skipped, given |-> op.given, calm |-> TRUE]
    BY <1>1, <2>1
  <2> QED BY <1>1, <1>2, <2>1, <2>2 DEF OpOK, Steps, Interruptible
<1>8. CASE ReconcileState \/ ReconcileGoals
  <2>1. \E at \in Steps : To(at)
    BY <1>8 DEF ReconcileState, ReconcileGoals, Steps, Interruptible
  <2>2. base' = base \/ (\E db : PutRecords(db) /\ ReconcilePossible(db))
    BY <1>8 DEF ReconcileState, ReconcileGoals
  <2> QED BY <1>2, <2>1, <2>2, WritesFit, MovesFit
<1>9. CASE CheckKeys \/ CheckCounts \/ RestoreThrows \/ ValidateRows
  <2>1. (\E at \in Steps : To(at)) /\ base' = base
    BY <1>9 DEF CheckKeys, CheckCounts, RestoreThrows, ValidateRows, Steps, Interruptible
  <2> QED BY <1>2, <2>1, MovesFit
<1>10. ASSUME NEW db PROVE Skipped(db) \subseteq Slots \X Content
  <2>1. RowsTyped
    BY DEF RowsFit
  <2>2. \A r \in Records(db) : r = <<r[1], r[2]>> /\ r[1] \in Slots /\ r[2] \in Content
    BY <2>1, RecordsTyped
  <2> QED BY <2>2 DEF Skipped
<1>11. CASE RestoreGoals
  <2> DEFINE given == Inserts("goals") # {}
  <2>1. /\ InsertRows("goals") /\ ~InsertsFail("goals")
        /\ op' = [op EXCEPT !.at = "restoreState", !.skipped = Skipped("goals"), !.given = given]
    BY <1>11 DEF RestoreGoals
  <2> HIDE DEF given
  <2>2. op' = [at |-> "restoreState", trash |-> op.trash, targets |-> op.targets, todo |-> op.todo,
               bundle |-> op.bundle, skipped |-> Skipped("goals"), given |-> given, calm |-> op.calm]
    BY <1>1, <2>1
  <2>3. OpOK'
    BY <1>1, <1>10, <2>2 DEF OpOK, Steps, Interruptible
  <2> QED BY <2>1, <2>3, WritesFit
<1>12. CASE RestoreState
  <2>1. /\ InsertRows("state") /\ ~InsertsFail("state")
        /\ op' = [op EXCEPT !.at = "validate", !.skipped = op.skipped \cup Skipped("state")]
    BY <1>12 DEF RestoreState
  <2>2. op' = [at |-> "validate", trash |-> op.trash, targets |-> op.targets, todo |-> op.todo,
               bundle |-> op.bundle, skipped |-> op.skipped \cup Skipped("state"),
               given |-> op.given, calm |-> op.calm]
    BY <1>1, <2>1
  <2>3. op.skipped \cup Skipped("state") \subseteq Slots \X Content
    BY <1>1, <1>10 DEF OpOK
  <2>4. OpOK'
    BY <1>1, <2>2, <2>3 DEF OpOK, Steps, Interruptible
  <2> QED BY <2>1, <2>4, WritesFit
<1>13. CASE UndoGoals
  <2>1. \E at \in Steps : To(at)
    BY <1>13 DEF UndoGoals, Steps
  <2> DEFINE rows == [sl \in Slots |->
                        IF \E r \in Records("goals") : r[1] = sl THEN Absent ELSE base.rows[sl]]
  <2>2. base' = base \/ base' = [base EXCEPT !.rows = rows]
    BY <1>13 DEF UndoGoals
  <2>3. \A sl \in Slots : rows[sl] = Absent \/ rows[sl] = base.rows[sl]
    OBVIOUS
  <2> HIDE DEF rows
  <2>4. base' = base \/ base' = [rows |-> rows, present |-> base.present, dedicated |-> base.dedicated]
    BY <1>1, <2>2
  <2>5. BaseOK'
    BY <1>1, <1>2, <2>3, <2>4 DEF BaseOK, Fits
  <2> QED BY <2>1, <2>5, MovesFit
<1>14. CASE CodexWritesRows
  <2>1. op' = [op EXCEPT !.calm = FALSE]
    BY <1>14 DEF CodexWritesRows
  <2>2. op' = [at |-> op.at, trash |-> op.trash, targets |-> op.targets, todo |-> op.todo,
               bundle |-> op.bundle, skipped |-> op.skipped, given |-> op.given, calm |-> FALSE]
    BY <1>1, <2>1
  <2>3. OpOK'
    BY <1>1, <2>2 DEF OpOK
  <2>4. CASE CodexWritesRow
    <3>1. PICK sl \in Slots, row \in Content :
            /\ PlaceOf(sl) \in base.present /\ sl[1] \in DatabasesInUse
            /\ row = Absent \/ row \in RowsOf(sl[2])
            /\ base' = [base EXCEPT !.rows[sl] = row]
      BY <2>4 DEF CodexWritesRow
    <3>2. /\ base'.present = base.present /\ base'.dedicated = base.dedicated
          /\ \A x \in Slots : base'.rows[x] = IF x = sl THEN row ELSE base.rows[x]
      BY <1>1, <3>1
    <3>3. Fits(row, sl, base)
      BY <3>1 DEF Fits, PlaceOf, DatabasesInUse
    <3>4. BaseOK'
      BY <1>1, <3>2, <3>3 DEF BaseOK, Fits
    <3> QED BY <2>3, <3>4
  <2>5. CASE CodexDropsTable
    <3>1. PICK p \in base.present :
            base' = [base EXCEPT !.present = base.present \ {p},
                       !.rows = [sl \in Slots |->
                                   IF PlaceOf(sl) = p THEN Absent ELSE base.rows[sl]]]
      BY <2>5 DEF CodexDropsTable
    <3>2. /\ base'.present = base.present \ {p} /\ base'.dedicated = base.dedicated
          /\ \A sl \in Slots : base'.rows[sl] = IF PlaceOf(sl) = p THEN Absent ELSE base.rows[sl]
      BY <1>1, <3>1
    <3>3. BaseOK'
      BY <1>1, <3>2 DEF BaseOK, Fits, PlaceOf
    <3> QED BY <2>3, <3>3
  <2> QED BY <1>14, <2>4, <2>5 DEF CodexWritesRows
<1>15. CASE UNCHANGED rowVars
  BY <1>1, <1>2, <1>15 DEF rowVars, OpOK
<1> QED BY <1>3, <1>4, <1>5, <1>6, <1>7, <1>8, <1>9, <1>11, <1>12, <1>13, <1>14, <1>15 DEF RowsNext

(* The databases, the operation, and what they were when it began.         *)
RowsTypes == RowsFit /\ RowStateOK(origin) /\ rowWrites \in 0 .. MaxRowWrites
(* They are typed before the operation begins.                             *)
LEMMA RowsTypesInit == RowsInit => RowsTypes
<1> SUFFICES ASSUME RowsInit PROVE RowsTypes
  OBVIOUS
<1>1. RowsTyped
  BY RowsTypedInit
<1>2. BaseOK
  BY DEF RowsInit, BaseOK, Fits, NoBase
<1>3. OpOK
  BY DEF RowsInit, OpOK, RecordsOfKind, NoOp, Steps
<1>4. RowStateOK(origin)
  BY <1>1, <1>2, BaseIsState DEF RowsInit
<1> QED BY <1>1, <1>2, <1>3, <1>4, RowAssumption DEF RowsInit, RowsTypes, RowsFit

(* They stay typed.                                                        *)
LEMMA RowsTypesStep == RowsTypes /\ [RowsNext]_rowVars => RowsTypes'
<1> SUFFICES ASSUME RowsTypes, [RowsNext]_rowVars PROVE RowsTypes'
  OBVIOUS
<1>1. RowsFit'
  BY RowsTypedStep, RowsFitStep DEF RowsTypes, RowsFit
<1>2. origin' = origin \/ origin' \in RowStates
  BY DEF RowsNext, StartRows, ExportRecords, DeleteGoalRows, DeleteStateRows, KeepRows, Interrupt,
         ReconcileState, ReconcileGoals, CheckKeys, CheckCounts, RestoreGoals, RestoreState,
         RestoreThrows, UndoGoals, ValidateRows, CodexWritesRows, rowVars
<1>3. rowWrites' = rowWrites \/ (rowWrites < MaxRowWrites /\ rowWrites' = rowWrites + 1)
  BY DEF RowsNext, StartRows, ExportRecords, DeleteGoalRows, DeleteStateRows, KeepRows, Interrupt,
         ReconcileState, ReconcileGoals, CheckKeys, CheckCounts, RestoreGoals, RestoreState,
         RestoreThrows, UndoGoals, ValidateRows, CodexWritesRows, rowVars
<1>4. RowStateOK(origin)'
  BY <1>2, RowAssumption DEF RowsTypes, RowStateOK
<1>5. rowWrites' \in 0 .. MaxRowWrites
  BY <1>3, RowAssumption DEF RowsTypes
<1> QED BY <1>1, <1>4, <1>5 DEF RowsTypes

(* And that is the type of every variable of SessionRows.                  *)
LEMMA RowsTypesImply == RowsTypes => RowsTypeOK
<1> SUFFICES ASSUME RowsTypes PROVE RowsTypeOK
  OBVIOUS
<1>1. RowStateOK(base)
  BY BaseIsState DEF RowsTypes, RowsFit
<1> QED BY <1>1 DEF RowsTypes, RowsFit, RowsTyped, OpOK, RowsTypeOK

-----------------------------------------------------------------------------
(* What the commands compute from a root are sessions.                     *)
LEMMA ComputesSessions ==
  ASSUME NEW view \in Roots
  PROVE  /\ Ids(view) \subseteq Sessions /\ ActiveIn(view) \subseteq Sessions
         /\ \A dir, edges, from : Reached(dir, edges, from) \subseteq Sessions
         /\ \A s : Parents(view.edges, s) \subseteq Sessions /\ Children(view.edges, s) \subseteq Sessions
         /\ \A s : Resolvable(view, s) => s \in Sessions
         /\ \A s, selected : Unselected(view, s, selected) \subseteq Sessions
         /\ \A s : Missing(view, s) \subseteq Sessions
<1>1. view.edges \subseteq Sessions \X Sessions /\ view.index \subseteq Sessions /\ view.refs \subseteq Sessions
  BY DEF Roots
<1>2. Ids(view) \subseteq Sessions /\ ActiveIn(view) \subseteq Sessions
  BY <1>1 DEF Ids, ActiveIn
<1>3. \A dir, edges, from : Reached(dir, edges, from) \subseteq Sessions
  BY DEF Reached
<1>4. \A s : Parents(view.edges, s) \subseteq Sessions /\ Children(view.edges, s) \subseteq Sessions
  BY <1>1 DEF Parents, Children
<1>5. \A s : Resolvable(view, s) => s \in Sessions
  BY <1>1, <1>2 DEF Resolvable
<1>6. \A s, selected : Unselected(view, s, selected) \subseteq Sessions
  BY <1>2, <1>4 DEF Unselected
<1>7. \A s : Missing(view, s) \subseteq Sessions
  BY <1>1 DEF Missing, Broken
<1> QED BY <1>2, <1>3, <1>4, <1>5, <1>6, <1>7

(* So does every include flag.                                             *)
LEMMA IncludesSessions ==
  ASSUME NEW view \in Roots, NEW seeds, NEW f \in Flags
  PROVE  IncludedBy(f, view, seeds) \subseteq Sessions
<1>1. /\ Ids(view) \subseteq Sessions
      /\ \A dir, edges, from : Reached(dir, edges, from) \subseteq Sessions
      /\ \A s : Children(view.edges, s) \subseteq Sessions
  BY ComputesSessions
<1>2. CASE f = "children"
  BY <1>1, <1>2 DEF IncludedBy
<1>3. CASE f = "subagents"
  BY <1>1, <1>3 DEF IncludedBy
<1>4. CASE f = "descendants"
  <2>1. IncludedBy(f, view, seeds) = Reached("down", {e \in view.edges : Known(view, e[2])}, seeds)
    BY <1>4 DEF IncludedBy
  <2> QED BY <1>1, <2>1
<1>5. CASE f = "family"
  BY <1>1, <1>5 DEF IncludedBy
<1> QED BY <1>2, <1>3, <1>4, <1>5 DEF Flags

(* No plan is one, and any plan that is built.                             *)
LEMMA NoPlanTyped == NoPlan \in Plans /\ NoPrint \in Prints
<1>1. NoPrint \in Prints
  BY DEF NoPrint, Prints
<1>2. NoShot \in Shots
  BY DEF NoShot, NoCounts, Shots
<1> QED BY <1>1, <1>2 DEF NoPlan, Plans

(* What buildPlanDelete answers is a plan.                                 *)
LEMMA PlanTyped ==
  ASSUME NEW view \in Roots, NEW cmd \in Command PROVE PlanOf(view, cmd) \in Plans
<1> DEFINE families == (UNION {FamilyOf(view.edges, s) : s \in cmd.seeds}) \cap Ids(view)
           sourced  == IF cmd.source THEN {t \in Ids(view) : IsSubagent(view, t)} ELSE {}
           selected == Selected(view, cmd)
           rejected == (cmd.seeds \cup families \cup sourced) \cap ActiveIn(view)
           offered  == (UNION {FamilyOf(view.edges, s) \ {s} : s \in cmd.seeds})
                         \ (selected \cup rejected)
           candidates == sourced \ ActiveIn(view)
<1>1. PlanOf(view, cmd) = [NoPlan EXCEPT !.selected = selected, !.candidates = candidates,
                                         !.rejected = rejected, !.offered = offered]
  BY DEF PlanOf
<1>2. Ids(view) \subseteq Sessions /\ ActiveIn(view) \subseteq Sessions
  BY ComputesSessions
<1>3. selected \subseteq Sessions
  BY IncludesSessions DEF Selected, Command
<1>4. candidates \subseteq Sessions /\ rejected \subseteq Sessions
  BY <1>2
<1>5. offered \subseteq Sessions
  BY DEF FamilyOf, Reached
<1> HIDE DEF selected, candidates, rejected, offered
<1> QED BY <1>1, <1>3, <1>4, <1>5, NoPlanTyped DEF Plans

(* A root has finitely many sessions.                                      *)
FinitelyMany == IsFiniteSet(Sessions)
(* Then any set of them can be counted.                                    *)
LEMMA Countable ==
  ASSUME FinitelyMany
  PROVE  /\ \A S \in SUBSET Sessions : Cardinality(S) \in Nat
         /\ \A S \in SUBSET (Sessions \X (Sessions \X Sessions)) : Cardinality(S) \in Nat
<1>1. IsFiniteSet(Sessions)
  BY DEF FinitelyMany
<1>2. IsFiniteSet(Sessions \X Sessions)
  BY <1>1, FS_Product
<1>3. IsFiniteSet(Sessions \X (Sessions \X Sessions))
  BY <1>1, <1>2, FS_Product
<1>4. ASSUME NEW T, IsFiniteSet(T), NEW S \in SUBSET T PROVE Cardinality(S) \in Nat
  <2>1. IsFiniteSet(S)
    BY <1>4, FS_Subset
  <2> QED BY <2>1, FS_CardinalityType
<1> QED BY <1>1, <1>3, <1>4

(* The counts of a snapshot are numbers.                                   *)
LEMMA SnapshotTyped ==
  ASSUME FinitelyMany, work.view \in Roots, root \in Roots, NEW ids \in SUBSET Sessions
  PROVE  SnapshotOf(ids) \in Shots
<1> DEFINE found == ids \cap Ids(work.view)
           files == Cardinality({s \in found : work.view.file[s] # "none"})
           listed == Cardinality(found \cap work.view.index)
           rows == Cardinality({s \in found : root.thread[s] # "none"})
           ends == Cardinality({p \in found \X root.edges : p[1] \in {p[2][1], p[2][2]}})
           edges == EdgesOf(work.view.edges, ids)
<1>1. found \subseteq Sessions /\ root.edges \subseteq Sessions \X Sessions
  BY DEF Roots
<1>2. files \in Nat /\ listed \in Nat /\ rows \in Nat
  BY <1>1, Countable
<1>3. {p \in found \X root.edges : p[1] \in {p[2][1], p[2][2]}}
        \in SUBSET (Sessions \X (Sessions \X Sessions))
  BY <1>1
<1>4. ends \in Nat
  BY <1>3, Countable
<1>5. edges \in SUBSET (Sessions \X Sessions)
  BY DEF EdgesOf, Roots
<1>6. SnapshotOf(ids) = [counts |-> [files |-> files, listed |-> listed, rows |-> rows + ends],
                         edges |-> edges]
  BY DEF SnapshotOf
<1> HIDE DEF files, listed, rows, ends, edges
<1> QED BY <1>2, <1>4, <1>5, <1>6 DEF Shots

-----------------------------------------------------------------------------
(* The types of PlansTypeOK, field by field.                               *)
PlanAts == {"idle", "scan", "edges", "scanned", "planned", "lists", "main", "printed"}
WorkTyped(w) ==
  /\ w = [at |-> w.at, todo |-> w.todo, cmd |-> w.cmd, view |-> w.view, draft |-> w.draft,
          print |-> w.print]
  /\ w.at \in PlanAts /\ w.todo \subseteq {"files", "lists"} /\ w.cmd \in Command
  /\ w.view \in Roots /\ w.draft \in Plans /\ w.print \in Prints
AnswerTyped(a) ==
  /\ a = [kind |-> a.kind, deletable |-> a.deletable, named |-> a.named, missing |-> a.missing,
          view |-> a.view]
  /\ a.kind \in {"none", "family", "plan", "preview", "stale"} /\ a.view \in Roots
  /\ a.deletable \subseteq Sessions /\ a.named \subseteq Sessions /\ a.missing \subseteq Sessions
PlansTyped ==
  /\ root \in Roots /\ plan \in Plans /\ WorkTyped(work) /\ AnswerTyped(answer)
  /\ spared \subseteq Sessions /\ rootWrites \in 0 .. MaxRootWrites

(* They are the types of PlansTypeOK.                                      *)
LEMMA PlansTypedImply == PlansTyped => PlansTypeOK
BY DEF PlansTyped, PlansTypeOK, WorkTyped, AnswerTyped, PlanAts

(* No work, no answer, no command.                                         *)
LEMMA NoneTyped == WorkTyped(Idle) /\ AnswerTyped(NoAnswer) /\ NoCommand \in Command
<1>1. NoCommand \in Command
  BY DEF NoCommand, Command
<1> QED BY <1>1, NoPlanTyped, EmptyRootTyped DEF WorkTyped, AnswerTyped, Idle, NoAnswer, PlanAts

(* Nothing has begun.                                                      *)
LEMMA PlansTypedInit == PlansInit => PlansTyped
BY NoneTyped, NoPlanTyped, EmptyRootTyped, PlanAssumption DEF PlansInit, PlansTyped

(* A scan begins with nothing read.                                        *)
LEMMA ScanningTyped ==
  ASSUME NEW cmd \in Command, NEW draft \in Plans PROVE WorkTyped(Scanning(cmd, draft))
<1> SUFFICES ASSUME NEW w, w = Scanning(cmd, draft) PROVE WorkTyped(w)
  OBVIOUS
<1>1. /\ w = [at |-> w.at, todo |-> w.todo, cmd |-> w.cmd, view |-> w.view, draft |-> w.draft,
               print |-> w.print]
      /\ w.at = "scan" /\ w.todo = {"files", "lists"} /\ w.cmd = cmd /\ w.view = EmptyRoot
      /\ w.draft = draft /\ w.print = NoPrint
  BY DEF Scanning, Idle
<1> QED BY <1>1, EmptyRootTyped, NoPlanTyped DEF WorkTyped, PlanAts

(* Every read, answer and write by Codex keeps the types.                  *)
LEMMA PlansTypedStep ==
  ASSUME FinitelyMany, PlansTyped, [PlansNext]_planVars PROVE PlansTyped'
<1>1. /\ root \in Roots /\ plan \in Plans /\ WorkTyped(work) /\ AnswerTyped(answer)
      /\ spared \subseteq Sessions /\ rootWrites \in 0 .. MaxRootWrites
      /\ MaxRootWrites \in Nat
  BY PlanAssumption DEF PlansTyped
<1>2. /\ work = [at |-> work.at, todo |-> work.todo, cmd |-> work.cmd, view |-> work.view,
                 draft |-> work.draft, print |-> work.print]
      /\ work.at \in PlanAts /\ work.todo \subseteq {"files", "lists"} /\ work.cmd \in Command
      /\ work.view \in Roots /\ work.draft \in Plans /\ work.print \in Prints
  BY <1>1 DEF WorkTyped
<1> DEFINE Answers(kind, view) == [NoAnswer EXCEPT !.kind = kind, !.view = view]
<1>3. ASSUME NEW kind \in {"plan", "stale"} PROVE AnswerTyped(Answers(kind, work.view))
  <2> SUFFICES ASSUME NEW a, a = Answers(kind, work.view) PROVE AnswerTyped(a)
    OBVIOUS
  <2>1. /\ a = [kind |-> a.kind, deletable |-> a.deletable, named |-> a.named,
                 missing |-> a.missing, view |-> a.view]
        /\ a.kind = kind /\ a.deletable = {} /\ a.named = {} /\ a.missing = {} /\ a.view = work.view
    BY DEF NoAnswer
  <2> HIDE DEF Answers
  <2> QED BY <1>2, <2>1 DEF AnswerTyped
<1>4. CASE StartCommand
  <2>1. PICK r \in RootStates, cmd \in Requests :
          root' = r /\ work' = Scanning(cmd, NoPlan) /\ spared' = Spared(r)
    BY <1>4 DEF StartCommand
  <2>2. r \in Roots /\ cmd \in Command
    BY PlanAssumption
  <2>3. WorkTyped(work')
    BY <2>1, <2>2, ScanningTyped, NoPlanTyped
  <2> QED BY <1>1, <1>4, <2>1, <2>2, <2>3 DEF StartCommand, PlansTyped, Spared, InUse, WorkTyped, AnswerTyped
<1>5. CASE StartPreview
  <2>1. work' = Scanning(NoCommand, plan) /\ spared' = Spared(root) /\ answer' = NoAnswer
        /\ UNCHANGED <<root, plan, rootWrites>>
    BY <1>5 DEF StartPreview
  <2>2. WorkTyped(work') /\ AnswerTyped(answer')
    BY <1>1, <2>1, NoneTyped, ScanningTyped
  <2> QED BY <1>1, <2>1, <2>2 DEF PlansTyped, Spared, InUse, WorkTyped, AnswerTyped
<1>6. CASE ScanStep
  <2>1. UNCHANGED <<root, plan, answer, spared, rootWrites>>
    BY <1>6 DEF ScanStep
  <2>2. ASSUME NEW at \in PlanAts, NEW todo \in SUBSET {"files", "lists"}, NEW view \in Roots,
               work' = [work EXCEPT !.at = at, !.todo = todo, !.view = view]
        PROVE  PlansTyped'
    <3>1. work' = [at |-> at, todo |-> todo, cmd |-> work.cmd, view |-> view,
                   draft |-> work.draft, print |-> work.print]
      BY <1>2, <2>2
    <3>2. WorkTyped(work')
      BY <1>2, <3>1 DEF WorkTyped
    <3> QED BY <1>1, <2>1, <3>2 DEF PlansTyped, WorkTyped, AnswerTyped
  <2>3. CASE ReadDirectories
    <3> DEFINE view == [work.view EXCEPT !.file = root.file]
    <3>1. view \in Roots
      BY <1>1, <1>2 DEF Roots
    <3>2. work' = [work EXCEPT !.todo = work.todo \ {"files"}, !.view = view]
      BY <2>3 DEF ReadDirectories
    <3> HIDE DEF view
    <3>3. work' = [work EXCEPT !.at = work.at, !.todo = work.todo \ {"files"}, !.view = view]
      BY <1>2, <3>2
    <3> QED BY <1>2, <2>2, <3>1, <3>3
  <2>4. CASE ReadLists
    <3> DEFINE view == [work.view EXCEPT !.index = root.index, !.refs = root.refs, !.lists = root.lists]
    <3>1. view \in Roots
      BY <1>1, <1>2 DEF Roots
    <3>2. work' = [work EXCEPT !.todo = work.todo \ {"lists"}, !.view = view]
      BY <2>4 DEF ReadLists
    <3> HIDE DEF view
    <3>3. work' = [work EXCEPT !.at = work.at, !.todo = work.todo \ {"lists"}, !.view = view]
      BY <1>2, <3>2
    <3> QED BY <1>2, <2>2, <3>1, <3>3
  <2>5. CASE ReadThreads
    <3> DEFINE view == [work.view EXCEPT !.thread = root.thread, !.stored = root.stored]
    <3>1. view \in Roots
      BY <1>1, <1>2 DEF Roots
    <3>2. work' = [work EXCEPT !.at = "edges", !.view = view]
      BY <2>5 DEF ReadThreads
    <3> HIDE DEF view
    <3>3. work' = [work EXCEPT !.at = "edges", !.todo = work.todo, !.view = view]
      BY <1>2, <3>2
    <3> QED BY <1>2, <2>2, <3>1, <3>3 DEF PlanAts
  <2>6. CASE ReadEdges
    <3> DEFINE view == [work.view EXCEPT !.edges = root.edges]
    <3>1. view \in Roots
      BY <1>1, <1>2 DEF Roots
    <3>2. work' = [work EXCEPT !.at = "scanned", !.view = view]
      BY <2>6 DEF ReadEdges
    <3> HIDE DEF view
    <3>3. work' = [work EXCEPT !.at = "scanned", !.todo = work.todo, !.view = view]
      BY <1>2, <3>2
    <3> QED BY <1>2, <2>2, <3>1, <3>3 DEF PlanAts
  <2> QED BY <1>6, <2>3, <2>4, <2>5, <2>6 DEF ScanStep
<1>7. CASE AnswerFamily
  <2> DEFINE s == CHOOSE x \in work.cmd.seeds : TRUE
             named == Unselected(work.view, s, {s})
             missing == Missing(work.view, s)
  <2>1. /\ work' = Idle /\ UNCHANGED <<root, plan, spared, rootWrites>>
        /\ answer' = IF Resolvable(work.view, s)
                     THEN [kind |-> "family", deletable |-> {s}, view |-> work.view,
                           named |-> named, missing |-> missing]
                     ELSE NoAnswer
    BY <1>7 DEF AnswerFamily
  <2>2. /\ named \subseteq Sessions /\ missing \subseteq Sessions
        /\ Resolvable(work.view, s) => s \in Sessions
    BY <1>2, ComputesSessions
  <2> HIDE DEF s, named, missing
  <2>3. AnswerTyped(answer')
    BY <1>2, <2>1, <2>2, NoneTyped DEF AnswerTyped
  <2>4. WorkTyped(work')
    BY <2>1, NoneTyped
  <2> QED BY <1>1, <2>1, <2>3, <2>4 DEF PlansTyped, WorkTyped, AnswerTyped
<1>8. CASE BuildPlan
  <2>1. UNCHANGED <<root, plan, answer, spared, rootWrites>>
    BY <1>8 DEF BuildPlan
  <2>2. CASE work' = Idle
    <3>1. WorkTyped(work')
      BY <2>2, NoneTyped
    <3> QED BY <1>1, <2>1, <3>1 DEF PlansTyped, WorkTyped, AnswerTyped
  <2>3. CASE work' = [work EXCEPT !.at = "planned", !.draft = PlanOf(work.view, work.cmd)]
    <3> DEFINE p == PlanOf(work.view, work.cmd)
    <3>1. p \in Plans
      BY <1>2, PlanTyped
    <3> HIDE DEF p
    <3>2. work' = [at |-> "planned", todo |-> work.todo, cmd |-> work.cmd, view |-> work.view,
                   draft |-> p, print |-> work.print]
      BY <1>2, <2>3 DEF p
    <3>3. WorkTyped(work')
      BY <1>2, <3>1, <3>2 DEF WorkTyped, PlanAts
    <3> QED BY <1>1, <2>1, <3>3 DEF PlansTyped, WorkTyped, AnswerTyped
  <2> QED BY <1>8, <2>2, <2>3 DEF BuildPlan
<1>9. CASE ShowPlan
  <2>1. /\ work' = Idle /\ UNCHANGED <<root, plan, spared, rootWrites>>
        /\ answer' = Answers("plan", work.view)
    BY <1>9 DEF ShowPlan
  <2> HIDE DEF Answers
  <2>2. WorkTyped(work') /\ AnswerTyped(answer')
    BY <1>3, <2>1, NoneTyped
  <2> QED BY <1>1, <2>1, <2>2 DEF PlansTyped, WorkTyped, AnswerTyped
<1>10. CASE PrintLists \/ PrintMain \/ ComparePlan
  <2>1. UNCHANGED <<root, plan, answer, spared, rootWrites>>
    BY <1>10 DEF PrintLists, PrintMain, ComparePlan
  <2>2. ASSUME NEW at \in PlanAts, NEW print \in Prints,
               work' = [work EXCEPT !.at = at, !.print = print]
        PROVE  PlansTyped'
    <3>1. work' = [at |-> at, todo |-> work.todo, cmd |-> work.cmd, view |-> work.view,
                   draft |-> work.draft, print |-> print]
      BY <1>2, <2>2
    <3>2. WorkTyped(work')
      BY <1>2, <3>1 DEF WorkTyped
    <3> QED BY <1>1, <2>1, <3>2 DEF PlansTyped, WorkTyped, AnswerTyped
  <2>3. CASE PrintLists
    <3> DEFINE print == [work.print EXCEPT !.lists = root.lists]
    <3>1. print \in Prints
      BY <1>1, <1>2 DEF Prints, Roots
    <3>2. work' = [work EXCEPT !.at = "main", !.print = print]
      BY <2>3 DEF PrintLists
    <3> HIDE DEF print
    <3> QED BY <2>2, <3>1, <3>2 DEF PlanAts
  <2>4. CASE PrintMain
    <3> DEFINE print == [work.print EXCEPT !.main = root.main]
    <3>1. print \in Prints
      BY <1>1, <1>2 DEF Prints, Roots
    <3>2. work' = [work EXCEPT !.at = "printed", !.print = print]
      BY <2>4 DEF PrintMain
    <3> HIDE DEF print
    <3> QED BY <2>2, <3>1, <3>2 DEF PlanAts
  <2>5. CASE ComparePlan
    <3>1. work' = [work EXCEPT !.at = "lists"]
      BY <2>5 DEF ComparePlan
    <3>2. work' = [work EXCEPT !.at = "lists", !.print = work.print]
      BY <1>2, <3>1
    <3> QED BY <1>2, <2>2, <3>2 DEF PlanAts
  <2> QED BY <1>10, <2>3, <2>4, <2>5
<1>11. CASE WritePlanFile
  <2> DEFINE shot == SnapshotOf(work.draft.selected)
  <2>1. /\ work' = Idle /\ UNCHANGED <<root, spared, rootWrites>>
        /\ answer' = Answers("plan", work.view)
        /\ plan' = [work.draft EXCEPT !.written = TRUE, !.print = work.print, !.shot = shot]
    BY <1>11 DEF WritePlanFile
  <2>2. work.draft.selected \in SUBSET Sessions
    BY <1>2 DEF Plans
  <2>3. shot \in Shots
    BY <1>1, <1>2, <2>2, SnapshotTyped
  <2> HIDE DEF shot, Answers
  <2>4. plan' \in Plans
    BY <1>2, <2>1, <2>3 DEF Plans
  <2>5. WorkTyped(work') /\ AnswerTyped(answer')
    BY <1>3, <2>1, NoneTyped
  <2> QED BY <1>1, <2>1, <2>4, <2>5 DEF PlansTyped, WorkTyped, AnswerTyped
<1>12. CASE AnswerPreview
  <2> DEFINE named == UNION {Unselected(work.view, s, Deletable) : s \in Deletable}
             missing == UNION {Missing(work.view, s) : s \in Deletable}
  <2>1. /\ work' = Idle /\ UNCHANGED <<root, plan, spared, rootWrites>>
        /\ answer' = IF Stale
                     THEN [NoAnswer EXCEPT !.kind = "stale", !.deletable = Deletable, !.view = work.view]
                     ELSE [kind |-> "preview", deletable |-> Deletable, view |-> work.view,
                           named |-> named, missing |-> missing]
    BY <1>12 DEF AnswerPreview
  <2>2. named \subseteq Sessions /\ missing \subseteq Sessions
    BY <1>2, ComputesSessions
  <2>3. Deletable \subseteq Sessions
    BY <1>2 DEF Deletable, Plans
  <2> HIDE DEF named, missing
  <2>4. \/ answer' = [kind |-> "stale", deletable |-> Deletable, named |-> {}, missing |-> {},
                      view |-> work.view]
        \/ answer' = [kind |-> "preview", deletable |-> Deletable, named |-> named,
                      missing |-> missing, view |-> work.view]
    BY <2>1 DEF NoAnswer
  <2>5. AnswerTyped(answer') /\ WorkTyped(work')
    BY <1>2, <2>1, <2>2, <2>3, <2>4, NoneTyped DEF AnswerTyped
  <2> QED BY <1>1, <2>1, <2>5 DEF PlansTyped, WorkTyped, AnswerTyped
<1>13. ASSUME NEW next \in Roots, RootChanges(next) PROVE PlansTyped'
  <2>1. /\ rootWrites < MaxRootWrites /\ rootWrites' = rootWrites + 1 /\ root' = next
        /\ spared' = spared \cap Spared(next) /\ UNCHANGED <<work, plan, answer>>
    BY <1>13 DEF RootChanges
  <2> QED BY <1>1, <1>13, <2>1 DEF PlansTyped, WorkTyped, AnswerTyped
<1>14. CASE CodexActs
  <2>1. \E next \in Roots : RootChanges(next)
    BY <1>1, <1>14, CodexMakesRoots
  <2> QED BY <1>13, <2>1
<1>15. CASE UNCHANGED planVars
  BY <1>1, <1>15 DEF planVars, PlansTyped, WorkTyped, AnswerTyped
<1> QED BY <1>4, <1>5, <1>6, <1>7, <1>8, <1>9, <1>10, <1>11, <1>12, <1>14, <1>15 DEF PlansNext

-----------------------------------------------------------------------------
(* The rollout has the type of its contents, and a run that of its reads.  *)
ExportTypes ==
  /\ version \in 0 .. MaxVersion /\ past \in [0 .. MaxVersion -> Contents]
  /\ ExportTypeOK

(* No run has begun.                                                       *)
LEMMA ExportTypesInit == SourceInit /\ ExportInit => ExportTypes
<1>1. 0 \in 0 .. MaxVersion /\ 0 \in 0 .. MaxDeaths
  BY VersionAssumption, ExportAssumption
<1>2. SourceInit => version \in 0 .. MaxVersion /\ past \in [0 .. MaxVersion -> Contents]
  BY <1>1 DEF SourceInit
<1>3. ExportInit => ExportTypeOK
  BY <1>1 DEF ExportInit, ExportTypeOK, NoOutput, NoRun
<1> QED BY <1>2, <1>3 DEF ExportTypes

(* A run reads lines and writes events.                                    *)
LEMMA ExportTypesStep == ExportTypes /\ [ExportNext]_<<source, export>> => ExportTypes'
<1> SUFFICES ASSUME ExportTypes, [ExportNext]_<<source, export>> PROVE ExportTypes'
  OBVIOUS
<1> DEFINE Tags == [at : Nat, ord : Nat]
           Outputs == [of : Exporters \cup {NoOne}, holds : SUBSET Tags]
           States == {"idle", "created", "refused", "streaming", "written", "failed", "dead"}
           Runs == [state : States, version : 0 .. MaxVersion, size : Nat, pos : Nat, ord : Nat]
           SourceTyped == version \in 0 .. MaxVersion /\ past \in [0 .. MaxVersion -> Contents]
<1>1. /\ SourceTyped /\ output \in Outputs /\ run \in [Exporters -> Runs]
      /\ deaths \in 0 .. MaxDeaths /\ MaxDeaths \in Nat /\ MaxVersion \in Nat
  BY VersionAssumption, ExportAssumption DEF ExportTypes, ExportTypeOK
<1>2. ASSUME UNCHANGED source, output' \in Outputs, run' \in [Exporters -> Runs],
             deaths' \in 0 .. MaxDeaths
      PROVE  ExportTypes'
  BY <1>1, <1>2 DEF ExportTypes, ExportTypeOK, source
<1>3. ASSUME NEW e \in Exporters, NEW how \in States, Becomes(e, how) PROVE run' \in [Exporters -> Runs]
  BY <1>1, <1>3 DEF Becomes
<1>4. NoOutput \in Outputs
  BY DEF NoOutput
<1>5. ASSUME NEW e \in Exporters, CreateOutput(e) PROVE ExportTypes'
  <2>1. output' \in Outputs
    BY <1>1, <1>5 DEF CreateOutput
  <2>2. run' \in [Exporters -> Runs]
    BY <1>3, <1>5 DEF CreateOutput
  <2> QED BY <1>1, <1>2, <1>5, <2>1, <2>2 DEF CreateOutput
<1>6. ASSUME NEW e \in Exporters, OpenRollout(e) PROVE ExportTypes'
  <2>1. Len(Now) \in Nat
    BY <1>1, ContentsAssumption DEF Now
  <2>2. run' \in [Exporters -> Runs]
    BY <1>1, <1>6, <2>1 DEF OpenRollout, NoRun
  <2> QED BY <1>1, <1>2, <1>6, <2>2 DEF OpenRollout
<1>7. ASSUME NEW e \in Exporters, StreamLine(e) PROVE ExportTypes'
  <2> DEFINE at == run[e].pos + 1
  <2>1. PICK line \in LinesAt(run[e].version, at) :
          LET ord == run[e].ord + IF IsRecord(line) THEN 1 ELSE 0 IN
          /\ run' = [run EXCEPT ![e].pos = at, ![e].ord = ord]
          /\ output' = IF IsEvent(line)
                       THEN [output EXCEPT !.holds = output.holds \cup {[at |-> at, ord |-> ord]}]
                       ELSE output
    BY <1>7 DEF StreamLine
  <2> DEFINE ord == run[e].ord + IF IsRecord(line) THEN 1 ELSE 0
  <2>2. at \in Nat /\ ord \in Nat
    BY <1>1
  <2>3. /\ run' = [run EXCEPT ![e].pos = at, ![e].ord = ord]
        /\ output' = IF IsEvent(line)
                     THEN [output EXCEPT !.holds = output.holds \cup {[at |-> at, ord |-> ord]}]
                     ELSE output
    BY <2>1
  <2> HIDE DEF at, ord
  <2>4. run' \in [Exporters -> Runs]
    BY <1>1, <2>2, <2>3
  <2>5. output' \in Outputs
    <3> DEFINE holds == output.holds \cup {[at |-> at, ord |-> ord]}
    <3>1. [at |-> at, ord |-> ord] \in Tags
      BY <2>2
    <3>2. holds \in SUBSET Tags
      BY <1>1, <3>1
    <3>3. output' = output \/ output' = [output EXCEPT !.holds = holds]
      BY <2>3
    <3> HIDE DEF holds, Tags
    <3> QED BY <1>1, <3>2, <3>3
  <2> QED BY <1>1, <1>2, <1>7, <2>4, <2>5 DEF StreamLine
<1>8. ASSUME NEW e \in Exporters, Finish(e) PROVE ExportTypes'
  BY <1>1, <1>2, <1>3, <1>8 DEF Finish
<1>9. ASSUME NEW e \in Exporters, FailExport(e) PROVE ExportTypes'
  BY <1>1, <1>2, <1>3, <1>4, <1>9 DEF FailExport
<1>10. ASSUME NEW e \in Exporters, DieExport(e) PROVE ExportTypes'
  <2>1. deaths' \in 0 .. MaxDeaths
    BY <1>1, <1>10 DEF DieExport
  <2> QED BY <1>1, <1>2, <1>3, <1>10, <2>1 DEF DieExport
<1>11. CASE RemoveLeftover
  BY <1>1, <1>2, <1>4, <1>11 DEF RemoveLeftover
<1>12. CASE CodexWrites /\ UNCHANGED export
  <2>1. SourceTyped'
    BY <1>1, <1>12 DEF CodexWrites
  <2> QED BY <1>1, <1>12, <2>1 DEF export, ExportTypes, ExportTypeOK
<1>13. CASE UNCHANGED <<source, export>>
  BY <1>1, <1>2, <1>13 DEF export
<1> QED BY <1>5, <1>6, <1>7, <1>8, <1>9, <1>10, <1>11, <1>12, <1>13 DEF ExportNext, ExportStep

(* Every step of the composition is a step or a stutter of each component. *)
TypesInv ==
  /\ WalkInv /\ PlansTyped /\ RefsTypeOK /\ RowsTypes /\ ExportTypes /\ WriteTypeOK

(* Whatever Codex does meanwhile, walks hold sessions, plans and answers   *)
(* name sessions, the global state file stays sound, every row stays in a  *)
(* table of its kind in a database that is in use, and files and texts are *)
(* what some step wrote (MCSurfaces composes the six; sqlite.ts:1573-1976, *)
(* global-state.ts:355-633, plan-delete.ts:46-316).                        *)
THEOREM SurfacesTyped == ASSUME FinitelyMany PROVE Spec => []TypesOK
<1>1. Init => TypesInv
  BY WalkInvInit, PlansTypedInit, RefsTypesInit, RowsTypesInit, ExportTypesInit, WriteTypesInit
  DEF Init, TypesInv
<1>2. TypesInv /\ [Next]_<<walkVars, planVars, docVars, rowVars, Exports, writeVars>> => TypesInv'
  <2> SUFFICES ASSUME TypesInv, [Next]_<<walkVars, planVars, docVars, rowVars, Exports, writeVars>>
               PROVE  TypesInv'
    OBVIOUS
  <2>1. /\ [WalkStep]_walkVars /\ [PlansNext]_planVars /\ [RefsNext]_docVars
        /\ [RowsNext]_rowVars /\ [ExportNext]_<<source, export>> /\ [WriteNext]_writeVars
    BY DEF Next, Exports
  <2> QED BY <2>1, WalkInvStep, PlansTypedStep, RefsTypes, RowsTypesStep, ExportTypesStep, WriteTypes
          DEF TypesInv
<1>3. TypesInv => TypesOK
  BY PlansTypedImply, RowsTypesImply DEF TypesInv, TypesOK, WalkInv, ExportTypes
<1> QED BY <1>1, <1>2, <1>3, PTL DEF Spec
=============================================================================
