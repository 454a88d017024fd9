------------------------ MODULE SessionMutationsProofs ------------------------
(***************************************************************************)
(* Proofs about SessionMutations for every set of processes and files and  *)
(* every bound: the type invariant, and exclusive ownership.               *)
(***************************************************************************)
EXTENDS SessionMutations, TLAPS

(* The parts of the type invariant.                                        *)
DataTyped  == live \in Images /\ wrote \in Images /\ clock \in Records
LockTyped  == lock \in [op : 0 .. MaxOps, written : BOOLEAN]
Journals   == [stage : Stages, marks : SUBSET Marks]
Payloads   == [kind : AllKinds \cup {"none"}, covers : SUBSET Surfaces,
               before : Images, moves : Bundles, from : 0 .. MaxOps, sealed : BOOLEAN]
Entries    == [state : {"absent", "complete", "quarantined", "torn"}, bundle : Bundles]
BinTyped   == entry \in [OpIds -> Entries] /\ tmp \in [OpIds -> BOOLEAN]
JobTyped   == pc \in [Procs -> Locations] /\ job \in [Procs -> Jobs]
CountTyped == ops \in 0 .. MaxOps /\ faults \in 0 .. MaxFaults /\ crashes \in 0 .. MaxCrashes

Typed == /\ DataTyped /\ LockTyped /\ journal \in [OpIds -> Journals]
         /\ payload \in [OpIds -> Payloads] /\ BinTyped /\ JobTyped /\ CountTyped

(* The conjuncts of TypeOK, by the part of the state they are about.       *)
LEMMA TypedIsTypeOK == Typed <=> TypeOK
BY DEF Typed, TypeOK, DataTyped, LockTyped, Journals, Payloads, Entries, BinTyped, JobTyped,
       CountTyped

(* The named surfaces are surfaces.                                        *)
LEMMA SurfacesNamed ==
  /\ Lists \subseteq Surfaces /\ Indexes \subseteq Surfaces /\ Databases \subseteq Surfaces
  /\ Files \subseteq Surfaces /\ SessionFiles \subseteq Surfaces
  /\ {"session-index", "history", "global-state", "sqlite-goals", "sqlite-state", "logs"}
       \subseteq Surfaces
BY DEF Lists, Indexes, Databases, Files, Surfaces

(* What there is when there is nothing.                                    *)
LEMMA BlankTyped == Blank \in Images /\ NoRecords \in Bundles
BY BoundsAssumption DEF Blank, NoRecords, Images, Bundles, Value, Records

(* A surface without the selection is a surface.                           *)
LEMMA RemovedTyped ==
  ASSUME NEW s \in Surfaces, NEW v \in Value
  PROVE  Removed(s, v) \in Value
BY BoundsAssumption DEF Removed, Value, Records

(* A process that does nothing.                                            *)
LEMMA NoJobTyped == NoJob \in Jobs
BY BlankTyped, BoundsAssumption DEF NoJob, Jobs, NoRelease, Releases, Stages, AllKinds

(* What a payload calls the state after.                                   *)
LEMMA AfterTyped ==
  ASSUME NEW kind, NEW s \in Surfaces, NEW v \in Value, NEW m \in SUBSET Records
  PROVE  After(kind, s, v, m) \in Value
<1>1. [v EXCEPT !.own = v.own \cup m] \in Value
  BY DEF Value
<1> QED BY <1>1, RemovedTyped DEF After

(* No payload is one.                                                      *)
LEMMA NoPayloadTyped == NoPayload \in Payloads
BY BlankTyped, BoundsAssumption DEF NoPayload, Payloads

(* A process that stops keeps all types.                                   *)
LEMMA StopTyped ==
  ASSUME JobTyped, NEW p \in Procs, Stop(p)
  PROVE  JobTyped'
BY NoJobTyped DEF JobTyped, Stop, Locations

(* A move to the next location keeps all types.                            *)
LEMMA GotoTyped ==
  ASSUME JobTyped, NEW p \in Procs, NEW l \in Locations, Goto(p, l), job' = job
  PROVE  JobTyped'
BY DEF JobTyped, Goto

(* A process moves on with another job.                                    *)
LEMMA MoveTyped ==
  ASSUME JobTyped, NEW p \in Procs, NEW l \in Locations, Goto(p, l),
         NEW j \in Jobs, job' = [job EXCEPT ![p] = j]
  PROVE  JobTyped'
BY DEF JobTyped, Goto

(* A release after a checkpoint that threw keeps the types.                *)
LEMMA MarkedTyped ==
  ASSUME NEW p \in Procs, JobTyped, NEW marks \in SUBSET Marks, NEW stage \in Stages,
         NEW next \in {"none", "ignore", "require", "again", "insist", "undo"},
         ReleaseMarked(p, marks, stage, next)
  PROVE  JobTyped'
<1>1. job[p] \in Jobs
  BY DEF JobTyped
<1> DEFINE rel == [stage |-> stage, next |-> next]
           j == [job[p] EXCEPT !.marks = marks, !.rel = rel]
<1>2. j \in Jobs
  BY <1>1 DEF Jobs, Releases
<1>3. job' = [job EXCEPT ![p] = j] /\ Goto(p, "rel-stage")
  BY DEF ReleaseMarked
<1> HIDE DEF j
<1> QED BY <1>2, <1>3, MoveTyped DEF Locations

(* A process goes to its release.                                          *)
LEMMA ReleaseTyped ==
  ASSUME JobTyped, NEW p \in Procs, NEW stage \in Stages,
         NEW next \in {"none", "ignore", "require", "again", "insist", "undo"}, ReleaseAs(p, stage, next)
  PROVE  JobTyped'
<1> DEFINE j == [job[p] EXCEPT !.rel = [stage |-> stage, next |-> next]]
<1>1. j \in Jobs
  BY DEF Jobs, JobTyped, Releases
<1>2. job' = [job EXCEPT ![p] = j] /\ Goto(p, "rel-stage")
  BY DEF ReleaseAs, JobTyped
<1>3. "rel-stage" \in Locations
  BY DEF Locations
<1> QED BY <1>1, <1>2, <1>3, MoveTyped

(* An error of a commit keeps all types.                                   *)
LEMMA CommitFailsTyped ==
  ASSUME JobTyped, NEW p \in Procs, CommitFails(p)
  PROVE  JobTyped'
<1> DEFINE j == [job[p] EXCEPT !.todo = job[p].done, !.cur = {}]
<1>1. j \in Jobs
  BY DEF Jobs, JobTyped
<1>2. job' = [job EXCEPT ![p] = j] /\ Goto(p, "undo")
  BY DEF CommitFails, JobTyped
<1>3. "undo" \in Locations
  BY DEF Locations
<1> QED BY <1>1, <1>2, <1>3, MoveTyped

(* Faults are counted up to their bound.                                   *)
LEMMA OutcomeTyped ==
  ASSUME CountTyped, NEW point, NEW o \in Outcome(point), Count(o)
  PROVE  faults' \in 0 .. MaxFaults
BY BoundsAssumption DEF CountTyped, Outcome, Count, Throws

(* The journal is rewritten.                                               *)
LEMMA JournalTyped ==
  ASSUME journal \in [OpIds -> Journals], NEW p \in Procs, NEW stage \in Stages,
         NEW marks \in SUBSET Marks, NEW o, WriteJournal(p, stage, marks, o)
  PROVE  journal' \in [OpIds -> Journals]
BY DEF WriteJournal, Journals

(* One surface is replaced.                                                *)
LEMMA ImageUpdated ==
  ASSUME live \in Images, NEW s \in Surfaces, NEW v \in Value
  PROVE  [live EXCEPT ![s] = v] \in Images
BY DEF Images

(* The selection is taken out of a surface.                                *)
LEMMA TakeOutTyped ==
  ASSUME live \in Images, JobTyped, NEW p \in Procs, NEW s \in Surfaces, TakeOut(p, s)
  PROVE  live' \in Images
<1>1. job[p].snap[s] \in Value
  BY DEF JobTyped, Jobs, Images
<1>2. Removed(s, job[p].snap[s]) \in Value
  BY <1>1, RemovedTyped
<1> QED BY <1>2, ImageUpdated DEF TakeOut

(* An error before the payload keeps all types.                            *)
LEMMA PrepareFailsTyped ==
  ASSUME JobTyped, NEW p \in Procs, PrepareFails(p)
  PROVE  JobTyped'
<1>1. CASE OwnsLock(p)
  BY <1>1, ReleaseTyped DEF PrepareFails, Stages
<1>2. CASE ~OwnsLock(p)
  BY <1>2, GotoTyped DEF PrepareFails, Locations
<1> QED BY <1>1, <1>2

(* What a caller does when its release throws.                             *)
LEMMA ReleaseFailsTyped ==
  ASSUME JobTyped, NEW p \in Procs, ReleaseFails(p)
  PROVE  JobTyped'
<1> DEFINE next == job[p].rel.next
<1>1. CASE next = "require"
  BY <1>1, ReleaseTyped DEF ReleaseFails, Stages
<1>2. CASE next = "again"
  BY <1>2, ReleaseTyped DEF ReleaseFails, Stages
<1>3. CASE next = "undo"
  <2> DEFINE j == [job[p] EXCEPT !.todo = job[p].done]
  <2>1. j \in Jobs
    BY DEF Jobs, JobTyped
  <2>2. job' = [job EXCEPT ![p] = j] /\ Goto(p, "undo")
    BY <1>3 DEF ReleaseFails, JobTyped
  <2>3. "undo" \in Locations
    BY DEF Locations
  <2> QED BY <2>1, <2>2, <2>3, MoveTyped
<1>4. CASE next = "insist"
  BY <1>4, ReleaseTyped DEF ReleaseFails, Stages
<1>5. CASE next \notin {"require", "again", "insist", "undo"}
  BY <1>5, StopTyped DEF ReleaseFails
<1> QED BY <1>1, <1>2, <1>3, <1>4, <1>5

(* Scanning and taking the lock keeps all types.                           *)
LEMMA AcquireTyped ==
  ASSUME Typed, NEW p \in Procs, AcquireStep(p)
  PROVE  Typed'
<1> USE DEF Typed
<1>1. ASSUME NEW kind \in Kinds, ScanRoot(p, kind) PROVE Typed'
  <2> DEFINE j == [NoJob EXCEPT !.kind = kind, !.seen = live]
  <2>1. j \in Jobs
    BY NoJobTyped, SwitchesAssumption DEF Jobs, DataTyped
  <2>2. JobTyped'
    BY <1>1, <2>1, MoveTyped DEF ScanRoot, Locations
  <2> QED BY <1>1, <2>2 DEF ScanRoot, data, disk, bin, DataTyped, LockTyped, BinTyped, CountTyped
<1>2. CASE CreateLock(p)
  <2> DEFINE j == [job[p] EXCEPT !.op = ops + 1]
  <2>1. j \in Jobs /\ job' = [job EXCEPT ![p] = j]
    BY <1>2, BoundsAssumption DEF CreateLock, Jobs, JobTyped, CountTyped
  <2>2. JobTyped'
    BY <1>2, <2>1, MoveTyped DEF CreateLock, Locations
  <2>3. LockTyped' /\ CountTyped'
    BY <1>2, BoundsAssumption DEF CreateLock, CountTyped, LockTyped
  <2> QED BY <1>2, <2>2, <2>3 DEF CreateLock, data, bin, DataTyped, BinTyped
<1>3. CASE LockIsTaken(p)
  BY <1>3, StopTyped DEF LockIsTaken, data, disk, bin, DataTyped, LockTyped, BinTyped, CountTyped
<1>4. CASE WriteLock(p)
  <2> PICK o \in Outcome("lock") :
           /\ lock' = [lock EXCEPT !.written = Effect(o)]
           /\ Count(o)
           /\ IF Throws(o) THEN Stop(p) ELSE Goto(p, "lock-written") /\ job' = job
    BY <1>4 DEF WriteLock
  <2>1. JobTyped'
    BY StopTyped, GotoTyped DEF Locations
  <2>2. LockTyped'
    BY DEF LockTyped, Effect
  <2>3. CountTyped'
    BY <1>4, OutcomeTyped DEF WriteLock, CountTyped
  <2> QED BY <1>4, <2>1, <2>2, <2>3 DEF WriteLock, data, bin, DataTyped, BinTyped
<1>5. CASE CreateJournal(p)
  <2> PICK o \in Outcome("lock") :
           /\ WriteJournal(p, "prepared", {}, o)
           /\ Count(o)
           /\ IF Throws(o) THEN Stop(p) ELSE Goto(p, "acquired") /\ job' = job
    BY <1>5 DEF CreateJournal
  <2>1. JobTyped'
    BY StopTyped, GotoTyped DEF Locations
  <2>2. journal' \in [OpIds -> Journals]
    BY JournalTyped DEF Stages
  <2>3. CountTyped'
    BY <1>5, OutcomeTyped DEF CreateJournal, CountTyped
  <2> QED BY <1>5, <2>1, <2>2, <2>3 DEF CreateJournal, data, bin, DataTyped, LockTyped, BinTyped
<1> QED BY <1>1, <1>2, <1>3, <1>4, <1>5 DEF AcquireStep

(* A kill keeps all types.                                                 *)
LEMMA CrashTyped ==
  ASSUME Typed, NEW p \in Procs, Crash(p)
  PROVE  Typed'
<1>1. JobTyped'
  BY StopTyped DEF Crash, Typed
<1>2. crashes' \in 0 .. MaxCrashes
  BY BoundsAssumption DEF Crash, Typed, CountTyped
<1> QED BY <1>1, <1>2
        DEF Crash, Typed, data, disk, bin, DataTyped, LockTyped, BinTyped, CountTyped

(* What Codex writes keeps all types.                                      *)
LEMMA CodexTyped ==
  ASSUME Typed, CodexStep
  PROVE  Typed'
<1>1. ASSUME NEW s \in Surfaces, CodexAdds(s) PROVE DataTyped'
  <2>1. clock + 1 \in Records
    BY <1>1, BoundsAssumption DEF CodexAdds, Records, Typed, DataTyped
  <2>2. ASSUME NEW i \in Images PROVE [i EXCEPT ![s].own = @ \cup {clock + 1}] \in Images
    BY <2>1 DEF Images, Value
  <2> QED BY <1>1, <2>1, <2>2 DEF CodexAdds, Typed, DataTyped
<1>2. ASSUME NEW s \in Surfaces, CodexChangesOthers(s) PROVE DataTyped'
  <2>1. clock + 1 \in Records
    BY <1>2, BoundsAssumption DEF CodexChangesOthers, Records, Typed, DataTyped
  <2>2. ASSUME NEW i \in Images PROVE [i EXCEPT ![s].ext = clock + 1] \in Images
    BY <2>1 DEF Images, Value
  <2> QED BY <1>2, <2>1, <2>2 DEF CodexChangesOthers, Typed, DataTyped
<1>3. DataTyped'
  BY <1>1, <1>2 DEF CodexStep
<1>4. UNCHANGED <<disk, bin, pc, job, ops, faults, crashes>>
  BY DEF CodexStep, CodexAdds, CodexChangesOthers
<1> QED BY <1>3, <1>4 DEF Typed, disk, bin, LockTyped, BinTyped, JobTyped, CountTyped

(* The steps of a release keeps all types.                                 *)
LEMMA ReleaseStepTyped ==
  ASSUME Typed, NEW p \in Procs, ReleaseStep(p)
  PROVE  Typed'
<1> USE DEF Typed
<1>1. CASE ReleaseStage(p)
  <2> PICK o \in Outcome("release") :
           /\ WriteJournal(p, job[p].rel.stage, job[p].marks, o)
           /\ Count(o)
           /\ IF Throws(o) THEN ReleaseFails(p)
              ELSE IF job[p].rel.stage = "recovery_required" THEN Stop(p)
              ELSE Goto(p, "rel-check") /\ job' = job
    BY <1>1 DEF ReleaseStage
  <2>1. JobTyped'
    BY ReleaseFailsTyped, StopTyped, GotoTyped DEF Locations
  <2>2. job[p].rel.stage \in Stages /\ job[p].marks \in SUBSET Marks
    BY DEF JobTyped, Jobs, Releases
  <2>3. journal' \in [OpIds -> Journals]
    BY <2>2, JournalTyped
  <2>4. CountTyped'
    BY <1>1, OutcomeTyped DEF ReleaseStage, CountTyped
  <2> QED BY <1>1, <2>1, <2>3, <2>4 DEF ReleaseStage, data, bin, DataTyped, LockTyped, BinTyped
<1>2. CASE ReleaseCheck(p)
  <2>1. JobTyped'
    BY <1>2, ReleaseFailsTyped, GotoTyped DEF ReleaseCheck, Locations
  <2> QED BY <1>2, <2>1
          DEF ReleaseCheck, data, disk, bin, DataTyped, LockTyped, BinTyped, CountTyped
<1>3. CASE ReleasePayload(p)
  <2> PICK o \in Outcome("release") :
           /\ payload' = IF Effect(o) THEN [payload EXCEPT ![job[p].op] = NoPayload] ELSE payload
           /\ Count(o)
           /\ IF Throws(o) THEN ReleaseFails(p) ELSE Goto(p, "rel-unlock") /\ job' = job
    BY <1>3 DEF ReleasePayload
  <2>1. JobTyped'
    BY ReleaseFailsTyped, GotoTyped DEF Locations
  <2>2. payload' \in [OpIds -> Payloads]
    BY NoPayloadTyped
  <2>3. CountTyped'
    BY <1>3, OutcomeTyped DEF ReleasePayload, CountTyped
  <2> QED BY <1>3, <2>1, <2>2, <2>3 DEF ReleasePayload, data, bin, DataTyped, LockTyped, BinTyped
<1>4. CASE ReleaseUnlock(p)
  <2> PICK o \in Outcome("release") :
           /\ lock' = IF Effect(o) THEN NoLock ELSE lock
           /\ Count(o)
           /\ IF Throws(o) THEN ReleaseFails(p) ELSE Stop(p)
    BY <1>4 DEF ReleaseUnlock
  <2>1. JobTyped'
    BY ReleaseFailsTyped, StopTyped
  <2>2. LockTyped'
    BY BoundsAssumption DEF LockTyped, NoLock
  <2>3. CountTyped'
    BY <1>4, OutcomeTyped DEF ReleaseUnlock, CountTyped
  <2> QED BY <1>4, <2>1, <2>2, <2>3 DEF ReleaseUnlock, data, bin, DataTyped, BinTyped
<1> QED BY <1>1, <1>2, <1>3, <1>4 DEF ReleaseStep

(* The rollback of a delete keeps all types.                               *)
LEMMA UndoTyped ==
  ASSUME Typed, NEW p \in Procs, UndoStep(p)
  PROVE  Typed'
<1> USE DEF Typed
<1>1. CASE UndoSurface(p)
  <2> PICK s \in First(job[p].todo, UndoRank) :
       IF ~Undoable(p, s)
       THEN ReleaseAs(p, "recovery_required", "ignore") /\ UNCHANGED <<live, faults>>
       ELSE \E o \in FaultsAt("undo", s) :
              /\ IF Effect(o) THEN PutBack(s, job[p].snap[s]) ELSE live' = live
              /\ Count(o)
              /\ IF Throws(o) THEN ReleaseAs(p, "recovery_required", "ignore")
                 ELSE pc' = pc /\ job' = [job EXCEPT ![p].todo = @ \ {s}]
    BY <1>1 DEF UndoSurface
  <2>1. s \in Surfaces /\ job[p].snap[s] \in Value /\ live[s] \in Value
    BY DEF First, JobTyped, Jobs, Images, DataTyped
  <2>2. CASE ~Undoable(p, s)
    <3>1. JobTyped'
      BY <2>2, ReleaseTyped DEF Stages
    <3> QED BY <1>1, <2>2, <3>1
            DEF UndoSurface, data, disk, bin, DataTyped, LockTyped, BinTyped, CountTyped
  <2>3. CASE Undoable(p, s)
    <3> PICK o \in FaultsAt("undo", s) :
              /\ IF Effect(o) THEN PutBack(s, job[p].snap[s]) ELSE live' = live
              /\ Count(o)
              /\ IF Throws(o) THEN ReleaseAs(p, "recovery_required", "ignore")
                 ELSE pc' = pc /\ job' = [job EXCEPT ![p].todo = @ \ {s}]
      BY <2>3
    <3>1. JobTyped'
      <4> DEFINE j == [job[p] EXCEPT !.todo = @ \ {s}]
      <4>1. j \in Jobs
        BY DEF Jobs, JobTyped
      <4>2. CASE Throws(o)
        BY <4>2, ReleaseTyped DEF Stages
      <4>3. CASE ~Throws(o)
        BY <4>1, <4>3 DEF JobTyped
      <4> QED BY <4>2, <4>3
    <3>2. live' \in Images
      <4>1. WithMissing(s, job[p].snap[s]) \in Value
        BY <2>1 DEF WithMissing, Value
      <4>2. CASE Effect(o)
        BY <2>1, <4>1, <4>2, ImageUpdated DEF PutBack, DataTyped
      <4>3. CASE ~Effect(o)
        BY <4>3 DEF DataTyped
      <4> QED BY <4>2, <4>3
    <3>3. CountTyped'
      BY <1>1, OutcomeTyped DEF UndoSurface, CountTyped, FaultsAt
    <3> QED BY <1>1, <3>1, <3>2, <3>3
            DEF UndoSurface, data, disk, bin, DataTyped, LockTyped, BinTyped
  <2> QED BY <2>2, <2>3
<1>2. CASE UndoEnds(p)
  <2>1. JobTyped'
    BY <1>2, ReleaseTyped, GotoTyped DEF UndoEnds, Stages, Locations
  <2> QED BY <1>2, <2>1 DEF UndoEnds, data, disk, bin, DataTyped, LockTyped, BinTyped, CountTyped
<1> QED BY <1>1, <1>2 DEF UndoStep

(* Checkpoints are marks.                                                  *)
LEMMA MarksTyped ==
  ASSUME Typed, NEW p \in Procs, NEW s \in Surfaces
  PROVE  StartMarks(p, s) \in SUBSET Marks
BY DEF StartMarks, Marks, Typed, JobTyped, Jobs

(* A step that removes one surface, `mark` and `flag` standing for where   *)
(* it goes and what it flags as done.                                      *)
LEMMA RemoveTyped ==
  ASSUME Typed, NEW p \in Procs, NEW s \in Surfaces, NEW point, NEW o \in Outcome(point),
         IF Effect(o) THEN TakeOut(p, s) ELSE live' = live,
         Count(o), JobTyped',
         UNCHANGED <<wrote, clock, disk, bin, ops, crashes>>
  PROVE  Typed'
<1> USE DEF Typed
<1>1. live' \in Images
  BY TakeOutTyped DEF DataTyped
<1>2. CountTyped'
  BY OutcomeTyped DEF CountTyped
<1> QED BY <1>1, <1>2 DEF disk, bin, DataTyped, LockTyped, BinTyped

(* What is flagged are surfaces.                                           *)
LEMMA DoneTyped ==
  ASSUME JobTyped, NEW p \in Procs, NEW D \in SUBSET Surfaces, Goto(p, "mark"),
         job' = [job EXCEPT ![p].done = D]
  PROVE  JobTyped'
<1> DEFINE j == [job[p] EXCEPT !.done = D]
<1>1. j \in Jobs
  BY DEF Jobs, JobTyped
<1>2. job' = [job EXCEPT ![p] = j]
  BY DEF JobTyped
<1> QED BY <1>1, <1>2, MoveTyped DEF Locations

(* A step that changes only jobs and places.                               *)
LEMMA UnmovedTyped ==
  ASSUME Typed, JobTyped', live' = live, faults' = faults,
         UNCHANGED <<wrote, clock, disk, bin, ops, crashes>>
  PROVE  Typed'
BY DEF Typed, disk, bin, DataTyped, LockTyped, BinTyped, CountTyped

(* The removal of a surface keeps all types.                               *)
LEMMA RemovalTyped ==
  ASSUME Typed, NEW p \in Procs,
         \/ RemoveFromIndex(p) \/ RemoveFromGlobalState(p) \/ UndoGlobalState(p)
         \/ RemoveFile(p) \/ RemoveRows(p) \/ RemoveLogs(p)
  PROVE  Typed'
<1> USE SurfacesNamed
<1>0. job[p].done \in SUBSET Surfaces /\ job[p].cur \in SUBSET Surfaces /\ JobTyped
  BY DEF Typed, JobTyped, Jobs
<1>1. CASE RemoveFromIndex(p)
  <2> PICK s \in job[p].cur \cap Indexes :
       IF ~StillCaptured(p, s)
       THEN CommitFails(p) /\ UNCHANGED <<live, faults>>
       ELSE \E o \in Outcome("surface") :
              /\ IF Effect(o) THEN TakeOut(p, s) ELSE live' = live
              /\ Count(o)
              /\ IF Throws(o) THEN CommitFails(p)
                 ELSE /\ Goto(p, "mark")
                      /\ job' = [job EXCEPT ![p].done = @ \cup {s}]
    BY <1>1 DEF RemoveFromIndex
  <2>1. CASE ~StillCaptured(p, s)
    BY <1>0, <1>1, <2>1, CommitFailsTyped, UnmovedTyped DEF RemoveFromIndex
  <2>2. CASE StillCaptured(p, s)
    <3> PICK o \in Outcome("surface") :
              /\ IF Effect(o) THEN TakeOut(p, s) ELSE live' = live
              /\ Count(o)
              /\ IF Throws(o) THEN CommitFails(p)
                 ELSE /\ Goto(p, "mark")
                      /\ job' = [job EXCEPT ![p].done = job[p].done \cup {s}]
      BY <2>2, <1>0 DEF JobTyped
    <3>1. JobTyped'
      BY <1>0, CommitFailsTyped, DoneTyped
    <3> QED BY <1>1, <3>1, RemoveTyped DEF RemoveFromIndex
  <2> QED BY <2>1, <2>2
<1>2. CASE RemoveFromGlobalState(p)
  <2> DEFINE s == "global-state"
  <2>1. CASE ~StillCaptured(p, s)
    BY <1>0, <1>2, <2>1, CommitFailsTyped, UnmovedTyped DEF RemoveFromGlobalState
  <2>2. CASE StillCaptured(p, s) /\ live[s].own = {}
    <3>1. JobTyped'
      BY <1>0, <1>2, <2>2, GotoTyped DEF RemoveFromGlobalState, Locations
    <3> QED BY <1>2, <2>2, <3>1, UnmovedTyped DEF RemoveFromGlobalState
  <2>3. CASE StillCaptured(p, s) /\ live[s].own # {}
    <3> PICK o \in Outcome("surface") :
            /\ IF Effect(o) THEN TakeOut(p, s) ELSE live' = live
            /\ Count(o)
            /\ IF Throws(o) THEN Goto(p, "undo-global-state") /\ job' = job
               ELSE /\ Goto(p, "mark")
                    /\ job' = [job EXCEPT ![p].done = job[p].done \cup {s}]
      BY <1>2, <2>3, <1>0 DEF RemoveFromGlobalState, JobTyped
    <3>1. JobTyped'
      BY <1>0, GotoTyped, DoneTyped DEF Locations
    <3> QED BY <1>2, <3>1, RemoveTyped DEF RemoveFromGlobalState
  <2> QED BY <2>1, <2>2, <2>3
<1>3. CASE UndoGlobalState(p)
  <2> DEFINE s == "global-state"
  <2> PICK o \in Outcome("undo") :
       /\ live' = IF Effect(o) /\ live[s] = Removed(s, job[p].snap[s])
                  THEN [live EXCEPT ![s] = job[p].snap[s]] ELSE live
       /\ Count(o)
       /\ CommitFails(p)
    BY <1>3 DEF UndoGlobalState
  <2>1. live' \in Images
    <3>1. job[p].snap[s] \in Value /\ live \in Images
      BY DEF Typed, DataTyped, JobTyped, Jobs, Images
    <3> QED BY <3>1, ImageUpdated
  <2>2. JobTyped' /\ CountTyped'
    BY <1>0, <1>3, CommitFailsTyped, OutcomeTyped DEF Typed, CountTyped, UndoGlobalState
  <2> QED BY <1>3, <2>1, <2>2 DEF UndoGlobalState, Typed, disk, bin, DataTyped, LockTyped, BinTyped
<1>4. CASE RemoveFile(p)
  <2> PICK s \in job[p].cur \cap Files :
       IF (live[s].own = {}) # (job[p].snap[s].own = {})
       THEN CommitFails(p) /\ UNCHANGED <<live, faults>>
       ELSE \E o \in FaultsAt("surface", s) :
              /\ IF Effect(o) THEN TakeOut(p, s) ELSE live' = live
              /\ Count(o)
              /\ IF Throws(o) THEN CommitFails(p)
                 ELSE /\ Goto(p, "mark")
                      /\ job' = [job EXCEPT ![p].done =
                                   IF job[p].snap[s].own = {} THEN @ ELSE @ \cup {s}]
    BY <1>4 DEF RemoveFile
  <2>1. CASE (live[s].own = {}) # (job[p].snap[s].own = {})
    BY <1>0, <1>4, <2>1, CommitFailsTyped, UnmovedTyped DEF RemoveFile
  <2>2. CASE ~((live[s].own = {}) # (job[p].snap[s].own = {}))
    <3> DEFINE D == IF job[p].snap[s].own = {} THEN job[p].done ELSE job[p].done \cup {s}
    <3> PICK o \in FaultsAt("surface", s) :
              /\ IF Effect(o) THEN TakeOut(p, s) ELSE live' = live
              /\ Count(o)
              /\ IF Throws(o) THEN CommitFails(p)
                 ELSE Goto(p, "mark") /\ job' = [job EXCEPT ![p].done = D]
      BY <2>2, <1>0 DEF JobTyped
    <3>1. JobTyped'
      <4>1. D \in SUBSET Surfaces
        BY <1>0
      <4> HIDE DEF D
      <4> QED BY <1>0, <4>1, CommitFailsTyped, DoneTyped
    <3>2. o \in Outcome("surface")
      BY DEF FaultsAt
    <3> QED BY <1>4, <3>1, <3>2, RemoveTyped DEF RemoveFile
  <2> QED BY <2>1, <2>2
<1>5. CASE RemoveRows(p)
  <2> PICK s \in job[p].cur \cap Databases : \E o \in FaultsAt("surface", s) :
       /\ IF Effect(o) THEN TakeOut(p, s) ELSE live' = live
       /\ Count(o)
       /\ IF Throws(o) THEN CommitFails(p)
          ELSE /\ Goto(p, IF s = "sqlite-state" /\ OwnsLock(p) THEN "remove-logs" ELSE "mark")
               /\ job' = job
    BY <1>5 DEF RemoveRows
  <2> PICK o \in FaultsAt("surface", s) :
       /\ IF Effect(o) THEN TakeOut(p, s) ELSE live' = live
       /\ Count(o)
       /\ IF Throws(o) THEN CommitFails(p)
          ELSE /\ Goto(p, IF s = "sqlite-state" /\ OwnsLock(p) THEN "remove-logs" ELSE "mark")
               /\ job' = job
    OBVIOUS
  <2>1. JobTyped'
    BY <1>0, CommitFailsTyped, GotoTyped DEF Locations
  <2>2. o \in Outcome("surface")
    BY DEF FaultsAt
  <2> QED BY <1>5, <2>1, <2>2, RemoveTyped DEF RemoveRows
<1>6. CASE RemoveLogs(p)
  <2> DEFINE s == "logs"
  <2>1. CASE ~StillCaptured(p, s)
    BY <1>0, <1>6, <2>1, CommitFailsTyped, UnmovedTyped DEF RemoveLogs
  <2>2. CASE StillCaptured(p, s)
    <3> PICK o \in FaultsAt("surface", s) :
            /\ IF Effect(o) THEN TakeOut(p, s) ELSE live' = live
            /\ Count(o)
            /\ IF Throws(o) THEN CommitFails(p)
               ELSE /\ Goto(p, "mark")
                    /\ job' = [job EXCEPT ![p].done = job[p].done \cup {s}]
      BY <1>0, <1>6, <2>2 DEF RemoveLogs, JobTyped
    <3>1. JobTyped'
      BY <1>0, CommitFailsTyped, DoneTyped
    <3>2. o \in Outcome("surface")
      BY DEF FaultsAt
    <3> QED BY <1>6, <3>1, <3>2, RemoveTyped DEF RemoveLogs
  <2> QED BY <2>1, <2>2
<1> QED BY <1>1, <1>2, <1>3, <1>4, <1>5, <1>6

(* A step that writes the journal and moves on.                            *)
LEMMA JournalStepTyped ==
  ASSUME Typed, NEW p \in Procs, NEW stage \in Stages, NEW marks \in SUBSET Marks,
         NEW point, NEW o \in Outcome(point), WriteJournal(p, stage, marks, o),
         Count(o), JobTyped',
         UNCHANGED <<data, lock, payload, bin, ops, crashes>>
  PROVE  Typed'
<1> USE DEF Typed
<1>1. journal' \in [OpIds -> Journals]
  BY JournalTyped
<1>2. CountTyped'
  BY OutcomeTyped DEF CountTyped
<1> QED BY <1>1, <1>2 DEF data, bin, DataTyped, LockTyped, BinTyped

(* A step that writes a payload and moves on.                              *)
LEMMA PayloadStepTyped ==
  ASSUME Typed, NEW p \in Procs, NEW x \in Payloads, NEW point, NEW o \in Outcome(point),
         payload' = IF Effect(o) THEN [payload EXCEPT ![job[p].op] = x] ELSE payload,
         Count(o), JobTyped',
         UNCHANGED <<data, lock, journal, bin, ops, crashes>>
  PROVE  Typed'
<1> USE DEF Typed
<1>1. payload' \in [OpIds -> Payloads]
  OBVIOUS
<1>2. CountTyped'
  BY OutcomeTyped DEF CountTyped
<1> QED BY <1>1, <1>2 DEF data, bin, DataTyped, LockTyped, BinTyped

(* A step that only moves on.                                              *)
LEMMA QuietStepTyped ==
  ASSUME Typed, JobTyped', UNCHANGED <<data, disk, bin, ops, faults, crashes>>
  PROVE  Typed'
BY DEF Typed, data, disk, bin, DataTyped, LockTyped, BinTyped, CountTyped

(* The steps of deleteSessions keep all types.                             *)
LEMMA DeleteTyped ==
  ASSUME Typed, NEW p \in Procs, DeleteStep(p)
  PROVE  Typed'
<1>0. /\ JobTyped
      /\ job[p].todo \in SUBSET Surfaces /\ job[p].done \in SUBSET Surfaces
      /\ job[p].cur \in SUBSET Surfaces /\ job[p].marks \in SUBSET Marks
      /\ job[p].seen \in Images /\ job[p].snap \in Images
  BY DEF Typed, JobTyped, Jobs
<1>1. CASE EnterPrepared(p)
  <2> PICK o \in Outcome("journal") :
       /\ WriteJournal(p, "prepared", job[p].marks, o)
       /\ Count(o)
       /\ IF Throws(o) THEN PrepareFails(p) ELSE Goto(p, "prepared") /\ job' = job
    BY <1>1 DEF EnterPrepared
  <2>1. JobTyped'
    BY <1>0, PrepareFailsTyped, GotoTyped DEF Locations
  <2> QED BY <1>0, <1>1, <2>1, JournalStepTyped DEF EnterPrepared, Stages
<1>2. CASE CheckSelection(p)
  <2>1. JobTyped'
    BY <1>0, <1>2, PrepareFailsTyped, GotoTyped DEF CheckSelection, Locations
  <2> QED BY <1>2, <2>1, QuietStepTyped DEF CheckSelection
<1>3. CASE Capture(p)
  <2>1. JobTyped'
    <3> DEFINE i == [live EXCEPT !["global-state"] = job[p].seen["global-state"]]
               j == [job[p] EXCEPT !.snap = i]
    <3>1. i \in Images
      BY <1>0, SurfacesNamed, ImageUpdated DEF Typed, DataTyped, Images
    <3>2. j \in Jobs
      BY <1>0, <3>1 DEF JobTyped, Jobs
    <3>3. CASE \A f \in Files : live[f].own # {} => live[f] = job[p].seen[f]
      <4>1. job' = [job EXCEPT ![p] = j] /\ Goto(p, "payload")
        BY <1>0, <1>3, <3>3 DEF Capture, JobTyped
      <4> QED BY <1>0, <3>2, <4>1, MoveTyped DEF Locations
    <3>4. CASE ~(\A f \in Files : live[f].own # {} => live[f] = job[p].seen[f])
      BY <1>0, <1>3, <3>4, PrepareFailsTyped DEF Capture
    <3> QED BY <3>3, <3>4
  <2> QED BY <1>3, <2>1, QuietStepTyped DEF Capture
<1>4. CASE WritePayload(p)
  <2> DEFINE x == [kind |-> job[p].kind, covers |-> Covered(p),
                   before |-> BeforeImage(p), moves |-> NoRecords, from |-> 0,
                   sealed |-> ~OwnsLock(p)]
  <2> PICK o \in Outcome("payload") :
       /\ payload' = IF Effect(o) THEN [payload EXCEPT ![job[p].op] = x] ELSE payload
       /\ Count(o)
       /\ IF Throws(o) THEN CommitFails(p) ELSE Goto(p, "recheck") /\ job' = job
    BY <1>4 DEF WritePayload
  <2>1. JobTyped'
    BY <1>0, CommitFailsTyped, GotoTyped DEF Locations
  <2>2. BeforeImage(p) \in Images
    BY <1>0, BlankTyped DEF BeforeImage, Images
  <2>3. Covered(p) \in SUBSET Surfaces
    BY DEF Covered, Targets, Surfaces, Indexes, Lists
  <2>4. x \in Payloads
    BY <1>0, <2>2, <2>3, BlankTyped, BoundsAssumption DEF Payloads, JobTyped, Jobs, OwnsLock
  <2> HIDE DEF x
  <2> QED BY <1>4, <2>1, <2>4, PayloadStepTyped DEF WritePayload
<1>5. CASE Recheck(p)
  <2>1. JobTyped'
    BY <1>0, <1>5, CommitFailsTyped, GotoTyped DEF Recheck, Locations
  <2> QED BY <1>5, <2>1, QuietStepTyped DEF Recheck
<1>6. CASE EnterCommitting(p)
  <2> PICK o \in Outcome("journal") :
       /\ WriteJournal(p, "committing", job[p].marks, o)
       /\ Count(o)
       /\ IF Throws(o) THEN CommitFails(p)
          ELSE /\ Goto(p, "commit")
               /\ job' = [job EXCEPT ![p].todo = CommitPlan(p)]
    BY <1>6 DEF EnterCommitting
  <2>1. JobTyped'
    <3>1. CommitPlan(p) \in SUBSET Surfaces
      BY DEF CommitPlan, Covered, Targets, Surfaces, Indexes, Lists
    <3> DEFINE j == [job[p] EXCEPT !.todo = CommitPlan(p)]
    <3>2. j \in Jobs
      BY <1>0, <3>1 DEF JobTyped, Jobs
    <3>3. CASE ~Throws(o)
      <4>1. job' = [job EXCEPT ![p] = j]
        BY <1>0, <3>3 DEF JobTyped
      <4> QED BY <1>0, <3>2, <3>3, <4>1, MoveTyped DEF Locations
    <3>4. CASE Throws(o)
      BY <1>0, <3>4, CommitFailsTyped
    <3> QED BY <3>3, <3>4
  <2> QED BY <1>0, <1>6, <2>1, JournalStepTyped DEF EnterCommitting, Stages
<1>7. CASE StartSurface(p)
  <2> PICK s \in First(job[p].todo, CommitRank) : \E o \in Outcome("journal") :
            /\ WriteJournal(p, "committing", StartMarks(p, s), o)
            /\ Count(o)
            /\ job' = [job EXCEPT ![p] =
                         [job[p] EXCEPT !.marks = StartMarks(p, s), !.done = SqliteStarted(p, s),
                            !.cur = IF Throws(o) THEN {} ELSE {s},
                            !.todo = IF Throws(o) THEN SqliteStarted(p, s) ELSE job[p].todo]]
            /\ Goto(p, IF Throws(o) THEN "undo" ELSE "remove")
    BY <1>0, <1>7 DEF StartSurface, JobTyped
  <2> DEFINE j(o) == [job[p] EXCEPT !.marks = StartMarks(p, s), !.done = SqliteStarted(p, s),
                            !.cur = IF Throws(o) THEN {} ELSE {s},
                            !.todo = IF Throws(o) THEN SqliteStarted(p, s) ELSE job[p].todo]
             l(o) == IF Throws(o) THEN "undo" ELSE "remove"
  <2> PICK o \in Outcome("journal") :
            /\ WriteJournal(p, "committing", StartMarks(p, s), o)
            /\ Count(o)
            /\ job' = [job EXCEPT ![p] = j(o)]
            /\ Goto(p, l(o))
    OBVIOUS
  <2>1. s \in Surfaces
    BY <1>0 DEF First
  <2>2. StartMarks(p, s) \in SUBSET Marks /\ SqliteStarted(p, s) \in SUBSET Surfaces
    BY <1>0, <2>1, MarksTyped, SurfacesNamed DEF SqliteStarted
  <2>3. j(o) \in Jobs /\ l(o) \in Locations
    <3>1. (IF Throws(o) THEN {} ELSE {s}) \in SUBSET Surfaces
      BY <2>1
    <3>2. (IF Throws(o) THEN SqliteStarted(p, s) ELSE job[p].todo) \in SUBSET Surfaces
      BY <1>0, <2>2
    <3>3. job[p] \in Jobs
      BY <1>0 DEF JobTyped
    <3>4. j(o) \in Jobs
      BY <2>2, <3>1, <3>2, <3>3 DEF Jobs
    <3> QED BY <3>4 DEF Locations
  <2> HIDE DEF j, l
  <2>4. JobTyped'
    BY <1>0, <2>3, MoveTyped
  <2> QED BY <1>7, <2>2, <2>4, JournalStepTyped DEF StartSurface, Stages
<1>8. CASE MarkSurface(p)
  <2> DEFINE m == job[p].marks \cup {<<s, "committed">> : s \in job[p].cur}
             j(o) == [job[p] EXCEPT !.marks = m, !.cur = {},
                              !.todo = IF Throws(o) THEN job[p].done
                                                    ELSE job[p].todo \ job[p].cur]
             l(o) == IF Throws(o) THEN "undo" ELSE "commit"
  <2> PICK o \in Outcome("journal") :
       /\ WriteJournal(p, "committing", m, o)
       /\ Count(o)
       /\ job' = [job EXCEPT ![p] = j(o)]
       /\ Goto(p, l(o))
    BY <1>0, <1>8 DEF MarkSurface, JobTyped
  <2>1. m \in SUBSET Marks
    <3>1. \A s \in job[p].cur : <<s, "committed">> \in Marks
      BY <1>0 DEF Marks
    <3> QED BY <1>0, <3>1
  <2> HIDE DEF m
  <2>2. j(o) \in Jobs /\ l(o) \in Locations
    <3>1. (IF Throws(o) THEN job[p].done ELSE job[p].todo \ job[p].cur) \in SUBSET Surfaces
      BY <1>0
    <3>2. job[p] \in Jobs
      BY <1>0 DEF JobTyped
    <3>3. j(o) \in Jobs
      BY <2>1, <3>1, <3>2 DEF Jobs
    <3> QED BY <3>3 DEF Locations
  <2> HIDE DEF j, l
  <2>3. JobTyped'
    BY <1>0, <2>2, MoveTyped
  <2> QED BY <1>8, <2>1, <2>3, JournalStepTyped DEF MarkSurface, Stages
<1>9. CASE EnterVerifying(p)
  <2> PICK o \in Outcome("journal") :
       /\ WriteJournal(p, "verifying", job[p].marks, o)
       /\ Count(o)
       /\ IF ~Throws(o)
          THEN ReleaseAs(p, "committed", IF OwnsLock(p) THEN "again" ELSE "require")
          ELSE IF OwnsLock(p) THEN Stop(p) ELSE ReleaseAs(p, "recovery_required", "ignore")
    BY <1>9 DEF EnterVerifying
  <2>1. JobTyped'
    BY <1>0, ReleaseTyped, StopTyped DEF Stages
  <2> QED BY <1>0, <1>9, <2>1, JournalStepTyped DEF EnterVerifying, Stages
<1> QED BY <1>1, <1>2, <1>3, <1>4, <1>5, <1>6, <1>7, <1>8, <1>9, RemovalTyped DEF DeleteStep

(* A step that changes the trash and moves on.                             *)
LEMMA BinStepTyped ==
  ASSUME Typed, NEW point, NEW o \in Outcome(point), Count(o), JobTyped', BinTyped',
         UNCHANGED <<data, disk, ops, crashes>>
  PROVE  Typed'
<1>1. CountTyped'
  BY OutcomeTyped DEF Typed, CountTyped
<1> QED BY <1>1 DEF Typed, data, disk, DataTyped, LockTyped

(* No entry is one.                                                        *)
LEMMA NoEntryTyped == NoEntry \in Entries
BY BlankTyped DEF NoEntry, Entries

(* The steps of a move to the trash keep all types.                        *)
LEMMA TrashTyped ==
  ASSUME Typed, NEW p \in Procs, TrashStep(p)
  PROVE  Typed'
<1>0. JobTyped /\ BinTyped /\ job[p].bundle \in Bundles /\ job[p].seen \in Images
  BY DEF Typed, JobTyped, Jobs
<1>1. CASE WriteTrashPayload(p)
  <2> DEFINE sealed == pc[p] = "trash-seal"
  <2> PICK o \in Outcome("payload") :
       /\ payload' = IF Effect(o) THEN [payload EXCEPT ![job[p].op] = TrashPayload(sealed)]
                                  ELSE payload
       /\ Count(o)
       /\ IF Throws(o) THEN DropTmp(p)
          ELSE Goto(p, IF sealed THEN "trash-rename" ELSE "trash-mkdir") /\ job' = job
    BY <1>1 DEF WriteTrashPayload
  <2>1. JobTyped'
    BY <1>0, GotoTyped DEF DropTmp, Locations
  <2>2. TrashPayload(sealed) \in Payloads
    BY BlankTyped, BoundsAssumption DEF TrashPayload, Payloads, AllKinds
  <2> HIDE DEF sealed
  <2> QED BY <1>1, <2>1, <2>2, PayloadStepTyped DEF WriteTrashPayload
<1>2. CASE MakeTmp(p)
  <2> PICK o \in Outcome("trash") :
       /\ tmp' = IF Effect(o) THEN [tmp EXCEPT ![job[p].op] = TRUE] ELSE tmp
       /\ Count(o)
       /\ IF Throws(o) THEN DropTmp(p) ELSE Goto(p, "trash-bundle") /\ job' = job
    BY <1>2 DEF MakeTmp
  <2>1. JobTyped'
    BY <1>0, GotoTyped DEF DropTmp, Locations
  <2>2. BinTyped'
    BY <1>0, <1>2 DEF MakeTmp, BinTyped
  <2> QED BY <1>2, <2>1, <2>2, BinStepTyped DEF MakeTmp
<1>3. CASE BuildBundle(p)
  <2> DEFINE j == [job[p] EXCEPT !.bundle = Bundle(p)]
  <2>1. Bundle(p) \in Bundles
    BY <1>0 DEF Bundle, Bundles, Typed, DataTyped, Images, Value
  <2>2. j \in Jobs
    BY <1>0, <2>1 DEF JobTyped, Jobs
  <2>3. JobTyped'
    <3>1. CASE \A f \in Files : job[p].seen[f].own # {} => live[f] = job[p].seen[f]
      <4>1. job' = [job EXCEPT ![p] = j] /\ Goto(p, "trash-seal")
        BY <1>0, <1>3, <3>1 DEF BuildBundle, JobTyped
      <4> QED BY <1>0, <2>2, <4>1, MoveTyped DEF Locations
    <3>2. CASE ~(\A f \in Files : job[p].seen[f].own # {} => live[f] = job[p].seen[f])
      BY <1>0, <1>3, <3>2, GotoTyped DEF BuildBundle, DropTmp, Locations
    <3> QED BY <3>1, <3>2
  <2> QED BY <1>3, <2>3, QuietStepTyped DEF BuildBundle
<1>4. CASE CommitTrashEntry(p)
  <2> DEFINE e == [state |-> "complete", bundle |-> job[p].bundle]
  <2> PICK o \in Outcome("trash") :
       /\ IF Effect(o)
          THEN /\ entry' = [entry EXCEPT ![job[p].op] = e]
               /\ tmp'   = [tmp EXCEPT ![job[p].op] = FALSE]
          ELSE UNCHANGED bin
       /\ Count(o)
       /\ IF Throws(o) THEN DropTmp(p) ELSE Goto(p, "trash-mark") /\ job' = job
    BY <1>4 DEF CommitTrashEntry
  <2>1. JobTyped'
    BY <1>0, GotoTyped DEF DropTmp, Locations
  <2>2. e \in Entries
    BY <1>0 DEF Entries
  <2> HIDE DEF e
  <2>3. BinTyped'
    BY <1>0, <2>2 DEF BinTyped, bin
  <2> QED BY <1>4, <2>1, <2>3, BinStepTyped DEF CommitTrashEntry
<1>5. CASE MarkTrashEntry(p)
  <2> PICK o \in Outcome("journal") :
       /\ WriteJournal(p, "committing", job[p].marks, o)
       /\ Count(o)
       /\ IF Throws(o) THEN KeepEntry(p) ELSE Goto(p, "trash-deletes") /\ job' = job
    BY <1>5 DEF MarkTrashEntry
  <2>1. JobTyped'
    BY <1>0, GotoTyped, ReleaseTyped DEF KeepEntry, Locations, Stages
  <2>2. job[p].marks \in SUBSET Marks
    BY <1>0 DEF JobTyped, Jobs
  <2> QED BY <1>5, <2>1, <2>2, JournalStepTyped DEF MarkTrashEntry, Stages
<1>6. CASE DropTrash(p)
  <2> PICK o \in Outcome("trash") \cap {"ok", "before"} :
       /\ IF ~Effect(o) THEN UNCHANGED bin
          ELSE IF pc[p] = "trash-drop-tmp"
          THEN tmp' = [tmp EXCEPT ![job[p].op] = FALSE] /\ entry' = entry
          ELSE entry' = [entry EXCEPT ![job[p].op] = NoEntry] /\ tmp' = tmp
       /\ Count(o)
       /\ IF Throws(o) THEN ReleaseAs(p, "recovery_required", "ignore")
                       ELSE ReleaseAs(p, "rolled_back", "require")
    BY <1>6 DEF DropTrash, Outcome
  <2>1. JobTyped'
    BY <1>0, ReleaseTyped DEF Stages
  <2>2. BinTyped'
    BY <1>0, NoEntryTyped DEF BinTyped, bin
  <2> QED BY <1>6, <2>1, <2>2, BinStepTyped DEF DropTrash
<1>7. CASE TearEntry(p)
  <2>1. BinTyped'
    <3>1. EntryOf(p) \in OpIds => [entry[EntryOf(p)] EXCEPT !.state = "torn"] \in Entries
      BY <1>0 DEF BinTyped, Entries
    <3> QED BY <1>0, <1>7, <3>1 DEF TearEntry, BinTyped
  <2>2. JobTyped'
    BY <1>0, <1>7, GotoTyped DEF TearEntry, Locations
  <2> QED BY <1>7, <2>1, <2>2
          DEF TearEntry, Typed, data, disk, DataTyped, LockTyped, CountTyped
<1> QED BY <1>1, <1>2, <1>3, <1>4, <1>5, <1>6, <1>7 DEF TrashStep

(* The steps of an index cleanup keep all types.                           *)
LEMMA CleanupTyped ==
  ASSUME Typed, NEW p \in Procs, CleanupStep(p)
  PROVE  Typed'
<1>0. /\ JobTyped /\ job[p] \in Jobs
      /\ job[p].todo \in SUBSET Surfaces /\ job[p].done \in SUBSET Surfaces
      /\ job[p].marks \in SUBSET Marks
      /\ job[p].seen \in Images /\ job[p].kind \in AllKinds \cup {"none"}
  BY DEF Typed, JobTyped, Jobs
<1>1. CASE CheckIndexes(p)
  <2>1. JobTyped'
    BY <1>0, <1>1, GotoTyped, StopTyped DEF CheckIndexes, Locations
  <2> QED BY <1>1, <2>1, QuietStepTyped DEF CheckIndexes
<1>2. CASE WriteCleanupPayload(p)
  <2> DEFINE j == [job[p] EXCEPT !.snap = job[p].seen]
  <2> PICK o \in Outcome("payload") :
       /\ payload' = IF Effect(o) THEN [payload EXCEPT ![job[p].op] = CleanupPayload(p)]
                                  ELSE payload
       /\ Count(o)
       /\ IF Throws(o) THEN CommitFails(p)
          ELSE Goto(p, "cleanup-recheck") /\ job' = [job EXCEPT ![p] = j]
    BY <1>0, <1>2 DEF WriteCleanupPayload, JobTyped
  <2>1. j \in Jobs
    BY <1>0 DEF Jobs
  <2> HIDE DEF j
  <2>2. JobTyped'
    BY <1>0, <2>1, CommitFailsTyped, MoveTyped DEF Locations
  <2>3. [s \in Surfaces |-> IF s \in Indexes THEN job[p].seen[s] ELSE Blank[s]] \in Images
    BY <1>0, BlankTyped DEF Images
  <2>4. CleanupPayload(p) \in Payloads
    BY <1>0, <2>3, SurfacesNamed, BlankTyped, BoundsAssumption DEF CleanupPayload, Payloads
  <2> QED BY <1>2, <2>2, <2>4, PayloadStepTyped DEF WriteCleanupPayload
<1>3. CASE RecheckCleanup(p)
  <2>1. JobTyped'
    BY <1>0, <1>3, GotoTyped, CommitFailsTyped DEF RecheckCleanup, Locations
  <2> QED BY <1>3, <2>1, QuietStepTyped DEF RecheckCleanup
<1>4. CASE CommitCleanup(p)
  <2> DEFINE j == [job[p] EXCEPT !.todo = Indexes]
  <2> PICK o \in Outcome("journal") :
       /\ WriteJournal(p, "committing", job[p].marks, o)
       /\ Count(o)
       /\ IF Throws(o) THEN CommitFails(p)
          ELSE Goto(p, "commit") /\ job' = [job EXCEPT ![p] = j]
    BY <1>0, <1>4 DEF CommitCleanup, JobTyped
  <2>1. j \in Jobs
    BY <1>0, SurfacesNamed DEF Jobs
  <2> HIDE DEF j
  <2>2. JobTyped'
    BY <1>0, <2>1, CommitFailsTyped, MoveTyped DEF Locations
  <2> QED BY <1>0, <1>4, <2>2, JournalStepTyped DEF CommitCleanup, Stages
<1>5. CASE StartIndex(p)
  <2> DEFINE j(s, o) == [job[p] EXCEPT !.marks = StartMarks(p, s),
                              !.cur   = IF Throws(o) THEN {} ELSE {s},
                              !.todo  = IF Throws(o) THEN job[p].done ELSE job[p].todo]
             l(o) == IF Throws(o) THEN "undo" ELSE "remove"
  <2> PICK s \in First(job[p].todo, CommitRank) : \E o \in Outcome("journal") :
       /\ WriteJournal(p, "committing", StartMarks(p, s), o)
       /\ Count(o)
       /\ job' = [job EXCEPT ![p] = j(s, o)]
       /\ Goto(p, l(o))
    BY <1>0, <1>5 DEF StartIndex, JobTyped
  <2> PICK o \in Outcome("journal") :
       /\ WriteJournal(p, "committing", StartMarks(p, s), o)
       /\ Count(o)
       /\ job' = [job EXCEPT ![p] = j(s, o)]
       /\ Goto(p, l(o))
    OBVIOUS
  <2>1. s \in Surfaces
    BY <1>0 DEF First
  <2>2. StartMarks(p, s) \in SUBSET Marks
    BY <2>1, MarksTyped
  <2>3. j(s, o) \in Jobs /\ l(o) \in Locations
    <3>1. (IF Throws(o) THEN {} ELSE {s}) \in SUBSET Surfaces
      BY <2>1
    <3>2. (IF Throws(o) THEN job[p].done ELSE job[p].todo) \in SUBSET Surfaces
      BY <1>0
    <3>3. j(s, o) \in Jobs
      BY <1>0, <2>2, <3>1, <3>2 DEF Jobs
    <3> QED BY <3>3 DEF Locations
  <2> HIDE DEF j, l
  <2>4. JobTyped'
    BY <1>0, <2>3, MoveTyped
  <2> QED BY <1>5, <2>2, <2>4, JournalStepTyped DEF StartIndex, Stages
<1>6. CASE VerifyCleanup(p)
  <2> PICK o \in Outcome("journal") :
       /\ WriteJournal(p, "verifying", job[p].marks, o)
       /\ Count(o)
       /\ IF Throws(o) THEN CommitFails(p) ELSE ReleaseAs(p, "committed", "undo")
    BY <1>6 DEF VerifyCleanup
  <2>1. JobTyped'
    BY <1>0, CommitFailsTyped, ReleaseTyped DEF Stages
  <2> QED BY <1>0, <1>6, <2>1, JournalStepTyped DEF VerifyCleanup, Stages
<1> QED BY <1>1, <1>2, <1>3, <1>4, <1>5, <1>6 DEF CleanupStep

(* A refusal of an entry.                                                  *)
LEMMA RefuseTyped ==
  ASSUME JobTyped, NEW p \in Procs, Refuse(p)
  PROVE  JobTyped'
BY ReleaseTyped DEF Refuse, Stages

(* One trash entry changes its state.                                      *)
LEMMA EntryMoved ==
  ASSUME BinTyped, NEW e, NEW state \in {"absent", "complete", "quarantined", "torn"}
  PROVE  [entry EXCEPT ![e].state = state] \in [OpIds -> Entries]
<1>1. e \in OpIds => [entry[e] EXCEPT !.state = state] \in Entries
  BY DEF BinTyped, Entries
<1> QED BY <1>1 DEF BinTyped

(* Finding an entry keeps every variable in its type.                      *)
LEMMA EntryTyped ==
  ASSUME Typed, NEW p \in Procs, EntryStep(p)
  PROVE  Typed'
<1>0. /\ JobTyped /\ BinTyped /\ job[p] \in Jobs /\ live \in Images
      /\ job[p].marks \in SUBSET Marks
  BY DEF Typed, DataTyped, JobTyped, Jobs
<1>1. CASE ReadForRestore(p)
  <2> DEFINE j(e) == [job[p] EXCEPT !.from = e, !.bundle = entry[e].bundle]
  <2> PICK e \in ValidEntries : Goto(p, "checked") /\ job' = [job EXCEPT ![p] = j(e)]
    BY <1>1 DEF ReadForRestore
  <2>1. e \in 0 .. MaxOps /\ entry[e].bundle \in Bundles
    BY <1>0, BoundsAssumption DEF ValidEntries, OpIds, BinTyped, Entries
  <2>2. j(e) \in Jobs
    BY <1>0, <2>1 DEF Jobs
  <2>3. JobTyped'
    BY <1>0, <2>2, MoveTyped DEF Locations
  <2> QED BY <1>1, <2>3, QuietStepTyped DEF ReadForRestore
<1>2. CASE ReadForPurge(p)
  <2> DEFINE b(e) == IF LogsArePurged(job[p].seen, e) THEN LogKeys ELSE NoRecords
             t(e) == IF LogsArePurged(job[p].seen, e) THEN {"logs"} ELSE {}
             j(e) == [job[p] EXCEPT !.from = e, !.bundle = b(e), !.todo = t(e)]
  <2> PICK e \in ValidEntries : Goto(p, "checked") /\ job' = [job EXCEPT ![p] = j(e)]
    BY <1>2 DEF ReadForPurge
  <2>1. e \in 0 .. MaxOps
    BY BoundsAssumption DEF ValidEntries, OpIds
  <2>2. LogKeys \in Bundles
    BY <1>0 DEF LogKeys, Bundles, Images, Value
  <2>3. b(e) \in Bundles /\ t(e) \in SUBSET Surfaces
    BY <2>2, BlankTyped, SurfacesNamed
  <2> HIDE DEF b, t
  <2>4. j(e) \in Jobs
    BY <1>0, <2>1, <2>3 DEF Jobs
  <2>5. JobTyped'
    BY <1>0, <2>4, MoveTyped DEF Locations
  <2> QED BY <1>2, <2>5, QuietStepTyped DEF ReadForPurge
<1>3. CASE EntryNotFound(p)
  BY <1>0, <1>3, StopTyped, QuietStepTyped DEF EntryNotFound
<1>4. CASE PrepareEntry(p)
  <2> PICK o \in Outcome("journal") :
       /\ WriteJournal(p, "prepared", job[p].marks, o)
       /\ Count(o)
       /\ IF Throws(o) THEN Refuse(p) ELSE Goto(p, "entry") /\ job' = job
    BY <1>4 DEF PrepareEntry
  <2>1. JobTyped'
    BY <1>0, RefuseTyped, GotoTyped DEF Locations
  <2> QED BY <1>0, <1>4, <2>1, JournalStepTyped DEF PrepareEntry, Stages
<1>5. CASE CheckEntry(p)
  <2>1. JobTyped'
    BY <1>0, <1>5, RefuseTyped, GotoTyped DEF CheckEntry, Locations
  <2> QED BY <1>5, <2>1, QuietStepTyped DEF CheckEntry
<1>6. CASE CommitEntry(p)
  <2> DEFINE l == IF pc[p] = "restore-commit" THEN "restore" ELSE "purge-start"
  <2> PICK o \in Outcome("journal") :
       /\ WriteJournal(p, "committing", job[p].marks, o)
       /\ Count(o)
       /\ IF Throws(o) THEN Refuse(p) ELSE Goto(p, l) /\ job' = job
    BY <1>6 DEF CommitEntry
  <2>1. l \in Locations
    BY DEF Locations
  <2> HIDE DEF l
  <2>2. JobTyped'
    BY <1>0, <2>1, RefuseTyped, GotoTyped
  <2> QED BY <1>0, <1>6, <2>2, JournalStepTyped DEF CommitEntry, Stages
<1> QED BY <1>1, <1>2, <1>3, <1>4, <1>5, <1>6 DEF EntryStep

(* An error of a restore keeps all types.                                  *)
LEMMA RestoreFailsTyped ==
  ASSUME JobTyped, NEW p \in Procs, NEW stuck \in SUBSET Surfaces, RestoreFails(p, stuck)
  PROVE  JobTyped'
<1> DEFINE j == [job[p] EXCEPT !.todo = job[p].done, !.cur = stuck]
<1>1. j \in Jobs
  BY DEF Jobs, JobTyped
<1> QED BY <1>1, MoveTyped DEF RestoreFails, Locations

(* A step that changes one surface and moves on.                           *)
LEMMA SurfaceStepTyped ==
  ASSUME Typed, NEW s \in Surfaces, NEW v \in Value,
         live' \in {live, [live EXCEPT ![s] = v]},
         CountTyped', JobTyped',
         UNCHANGED <<wrote, clock, disk, bin, ops, crashes>>
  PROVE  Typed'
<1>1. live' \in Images
  BY ImageUpdated DEF Typed, DataTyped
<1> QED BY <1>1 DEF Typed, disk, bin, DataTyped, LockTyped, BinTyped

(* A surface with the entry put back.                                      *)
LEMMA RestoredTyped ==
  ASSUME Typed, NEW p \in Procs, NEW s \in Surfaces
  PROVE  /\ Restored(p, s) \in Value /\ job[p].snap[s] \in Value
         /\ GoalsRemoved(p, s) \in Value
         /\ [live[s] EXCEPT !.own = live[s].own \cup job[p].bundle[s]] \in Value
<1>1. job[p].snap[s] \in Value /\ live[s] \in Value /\ job[p].bundle[s] \in SUBSET Records
  BY DEF Typed, DataTyped, JobTyped, Jobs, Images, Bundles
<1>2. Restored(p, s) \in Value
  BY <1>1, AfterTyped DEF Restored
<1>3. GoalsRemoved(p, s) \in Value
  BY <1>1 DEF GoalsRemoved, Value
<1>4. [live[s] EXCEPT !.own = live[s].own \cup job[p].bundle[s]] \in Value
  BY <1>1 DEF Value
<1> QED BY <1>1, <1>2, <1>3, <1>4

(* A fault that is counted or was there already.                           *)
LEMMA CountedTyped ==
  ASSUME CountTyped, NEW point, NEW o \in Outcome(point), NEW b \in BOOLEAN,
         faults' = (IF Throws(o) /\ b THEN faults + 1 ELSE faults), UNCHANGED <<ops, crashes>>
  PROVE  CountTyped'
BY BoundsAssumption DEF CountTyped, Outcome, Throws

(* The surface that was written is read back: what is there counts as      *)
(* written, or the rollback will not touch it.                             *)
LEMMA ReadsBack ==
  ASSUME Typed, NEW p \in Procs, RereadWritten(p)
  PROVE  /\ UNCHANGED <<data, disk, bin, ops, crashes>> /\ CountTyped'
         /\ pc[p] = "restore-reread"
         /\ \E s \in job[p].cur :
              \/ /\ Goto(p, "restore-mark")
                 /\ job' = [job EXCEPT ![p] = [job[p] EXCEPT
                              !.done = job[p].done \cup {s},
                              !.post = [job[p].post EXCEPT ![s] = live[s]]]]
              \/ RestoreFails(p, {s})
<1>1. UNCHANGED <<data, disk, bin, ops, crashes>> /\ pc[p] = "restore-reread"
  BY DEF RereadWritten
<1>2. CountTyped /\ JobTyped
  BY DEF Typed
<1>3. PICK s \in job[p].cur :
       \/ \E o \in Outcome("surface") \ {"after"} :
            /\ Count(o)
            /\ IF Throws(o) THEN RestoreFails(p, {s})
               ELSE /\ Goto(p, "restore-mark")
                    /\ job' = [job EXCEPT ![p] = [job[p] EXCEPT
                                 !.done = job[p].done \cup {s},
                                 !.post = [job[p].post EXCEPT ![s] = live[s]]]]
       \/ RestoreFails(p, {s}) /\ faults' = faults
  BY <1>2 DEF RereadWritten, JobTyped, Jobs
<1>4. faults' \in 0 .. MaxFaults
  BY <1>2, <1>3, OutcomeTyped DEF CountTyped
<1> QED BY <1>1, <1>2, <1>3, <1>4 DEF CountTyped

(* The steps of a restore keep all types.                                  *)
LEMMA RestoreTyped ==
  ASSUME Typed, NEW p \in Procs, RestoreStep(p)
  PROVE  Typed'
<1> USE SurfacesNamed
<1>0. /\ JobTyped /\ BinTyped /\ CountTyped /\ job[p] \in Jobs /\ live \in Images
      /\ job[p].todo \in SUBSET Surfaces /\ job[p].done \in SUBSET Surfaces
      /\ job[p].cur \in SUBSET Surfaces /\ job[p].marks \in SUBSET Marks
      /\ job[p].snap \in Images /\ job[p].bundle \in Bundles /\ job[p].from \in 0 .. MaxOps
      /\ Rows \subseteq Surfaces
  BY DEF Typed, DataTyped, JobTyped, Jobs, Rows
<1>1. CASE CheckConflicts(p)
  <2>1. JobTyped'
    BY <1>0, <1>1, RefuseTyped, GotoTyped DEF CheckConflicts, Locations
  <2> QED BY <1>1, <2>1, QuietStepTyped DEF CheckConflicts
<1>2. CASE CaptureRestore(p)
  <2> DEFINE j == [job[p] EXCEPT !.snap = live, !.todo = RestorePlan(p)]
  <2>1. RestorePlan(p) \in SUBSET Surfaces
    BY <1>0 DEF RestorePlan
  <2>2. j \in Jobs
    BY <1>0, <2>1 DEF Jobs
  <2>3. JobTyped'
    BY <1>0, <1>2, <2>2, MoveTyped DEF CaptureRestore, Locations
  <2> QED BY <1>2, <2>3, QuietStepTyped DEF CaptureRestore
<1>3. CASE WriteRestorePayload(p)
  <2> DEFINE i == [s \in Surfaces |-> IF s \in job[p].todo \ Rows THEN job[p].snap[s] ELSE Blank[s]]
             x == [kind |-> job[p].kind, covers |-> job[p].todo, before |-> i,
                   moves |-> Moves(p), from |-> job[p].from, sealed |-> FALSE]
  <2> PICK o \in Outcome("payload") :
       /\ payload' = IF Effect(o) THEN [payload EXCEPT ![job[p].op] = x] ELSE payload
       /\ Count(o)
       /\ IF Throws(o) THEN Refuse(p) ELSE Goto(p, "restore-commit") /\ job' = job
    BY <1>3 DEF WriteRestorePayload
  <2>1. i \in Images
    BY <1>0, BlankTyped DEF Images
  <2> HIDE DEF i
  <2>2. x \in Payloads
    BY <1>0, <2>1 DEF Payloads, Moves, Jobs
  <2> HIDE DEF x
  <2>3. JobTyped'
    BY <1>0, RefuseTyped, GotoTyped DEF Locations
  <2> QED BY <1>3, <2>2, <2>3, PayloadStepTyped DEF WriteRestorePayload
<1>4. CASE StartRestore(p)
  <2> DEFINE m(s) == job[p].marks \cup
                       {<<x, "started">> : x \in IF s \in Rows THEN Rows ELSE {s}}
             c(s, o) == IF Throws(o) THEN {} ELSE {s}
             t(o) == IF Throws(o) THEN job[p].done ELSE job[p].todo
             j(s, o) == [job[p] EXCEPT !.marks = m(s), !.cur = c(s, o), !.todo = t(o)]
             l(o) == IF Throws(o) THEN "unrestore" ELSE "put-back"
  <2> PICK s \in First(job[p].todo, RestoreRank) : \E o \in Outcome("journal") :
       /\ WriteJournal(p, "committing", m(s), o)
       /\ Count(o)
       /\ job' = [job EXCEPT ![p] = j(s, o)]
       /\ Goto(p, l(o))
    BY <1>4 DEF StartRestore
  <2> PICK o \in Outcome("journal") :
       /\ WriteJournal(p, "committing", m(s), o)
       /\ Count(o)
       /\ job' = [job EXCEPT ![p] = j(s, o)]
       /\ Goto(p, l(o))
    OBVIOUS
  <2>1. s \in Surfaces
    BY <1>0 DEF First
  <2>2. m(s) \in SUBSET Marks
    BY <1>0, <2>1 DEF Marks
  <2>3. c(s, o) \in SUBSET Surfaces /\ t(o) \in SUBSET Surfaces /\ l(o) \in Locations
    BY <1>0, <2>1 DEF Locations
  <2> HIDE DEF m, c, t, l
  <2>4. j(s, o) \in Jobs
    BY <1>0, <2>2, <2>3 DEF Jobs
  <2> HIDE DEF j
  <2>5. JobTyped'
    BY <1>0, <2>3, <2>4, MoveTyped
  <2> QED BY <1>4, <2>2, <2>5, JournalStepTyped DEF StartRestore, Stages
<1>5. CASE RestoreText(p)
  <2>0. PICK s \in job[p].cur \ Rows :
       IF s \in Indexes /\ job[p].bundle[s] = {}
       THEN Goto(p, "restore-mark") /\ UNCHANGED <<live, faults, job>>
       ELSE IF ~StillCaptured(p, s)
       THEN RestoreFails(p, {}) /\ UNCHANGED <<live, faults>>
       ELSE IF NothingToAdd(p, s)
       THEN Goto(p, "restore-mark") /\ UNCHANGED <<live, faults, job>>
       ELSE \E o \in Outcome("surface") :
                /\ live' = IF Effect(o) THEN [live EXCEPT ![s] = Restored(p, s)] ELSE live
                /\ Count(o)
                /\ IF Throws(o) THEN RestoreFails(p, {})
                   ELSE Goto(p, "restore-reread") /\ job' = job
    BY <1>0, <1>5 DEF RestoreText, JobTyped
  <2>1. s \in Surfaces
    BY <1>0
  <2>2. Restored(p, s) \in Value
    BY <2>1, RestoredTyped
  <2>4. CASE Goto(p, "restore-mark") /\ UNCHANGED <<live, faults, job>>
    <3>1. JobTyped'
      BY <1>0, <2>4, GotoTyped DEF Locations
    <3> QED BY <1>5, <2>4, <3>1, UnmovedTyped DEF RestoreText
  <2>5. CASE RestoreFails(p, {}) /\ UNCHANGED <<live, faults>>
    <3>1. JobTyped'
      BY <1>0, <2>5, RestoreFailsTyped
    <3> QED BY <1>5, <2>5, <3>1, UnmovedTyped DEF RestoreText
  <2> DEFINE writes(o) ==
                /\ live' = IF Effect(o) THEN [live EXCEPT ![s] = Restored(p, s)] ELSE live
                /\ Count(o)
                /\ IF Throws(o) THEN RestoreFails(p, {})
                   ELSE Goto(p, "restore-reread") /\ job' = job
  <2>6. CASE \E o \in Outcome("surface") : writes(o)
    <3> PICK o \in Outcome("surface") : writes(o)
      BY <2>6
    <3>1. \/ Goto(p, "restore-reread") /\ job' = job
          \/ RestoreFails(p, {})
      OBVIOUS
    <3>2. JobTyped'
      BY <1>0, <3>1, GotoTyped, RestoreFailsTyped DEF Locations
    <3>3. CountTyped'
      BY <1>0, <1>5, OutcomeTyped DEF CountTyped, RestoreText
    <3> QED BY <1>5, <2>1, <2>2, <3>2, <3>3, SurfaceStepTyped DEF RestoreText
  <2> QED BY <2>0, <2>4, <2>5, <2>6
<1>6. CASE MarkRestored(p)
  <2> DEFINE m == job[p].marks \cup {<<s, "committed">> : s \in job[p].cur}
             t(o) == IF Throws(o) THEN job[p].done ELSE job[p].todo \ job[p].cur
             j(o) == [job[p] EXCEPT !.marks = m, !.cur = {}, !.todo = t(o)]
             l(o) == IF Throws(o) THEN "unrestore" ELSE "restore"
  <2> PICK o \in Outcome("journal") :
       /\ WriteJournal(p, "committing", m, o)
       /\ Count(o)
       /\ job' = [job EXCEPT ![p] = j(o)]
       /\ Goto(p, l(o))
    BY <1>6 DEF MarkRestored
  <2>1. m \in SUBSET Marks
    BY <1>0 DEF Marks
  <2>2. t(o) \in SUBSET Surfaces /\ l(o) \in Locations
    BY <1>0 DEF Locations
  <2> HIDE DEF m, t, l
  <2>3. j(o) \in Jobs
    BY <1>0, <2>1, <2>2 DEF Jobs
  <2> HIDE DEF j
  <2>4. JobTyped'
    BY <1>0, <2>2, <2>3, MoveTyped
  <2> QED BY <1>6, <2>1, <2>4, JournalStepTyped DEF MarkRestored, Stages
<1>7. CASE RestoreRows(p)
  <2> DEFINE free(s) == job[p].bundle[s] \cap live[s].own = {}
             v(s) == [live[s] EXCEPT !.own = live[s].own \cup job[p].bundle[s]]
             j == [job[p] EXCEPT !.cur = {"sqlite-state"}]
             writes(s, o) ==
       /\ live' = IF Effect(o) THEN [live EXCEPT ![s].own = live[s].own \cup job[p].bundle[s]]
                               ELSE live
       /\ faults' = IF Throws(o) /\ free(s) THEN faults + 1 ELSE faults
       /\ CASE Throws(o) /\ s = "sqlite-goals"  -> RestoreFails(p, {})
            [] Throws(o) /\ s = "sqlite-state"  -> Goto(p, "unrestore-goals") /\ job' = job
            [] ~Throws(o) /\ s = "sqlite-goals" -> pc' = pc /\ job' = [job EXCEPT ![p] = j]
            [] OTHER                            -> Goto(p, "restored") /\ job' = job
  <2> PICK s \in job[p].cur \cap Rows :
       \E o \in IF free(s) THEN FaultsAt("surface", s) ELSE {"before"} : writes(s, o)
    BY <1>0, <1>7 DEF RestoreRows, JobTyped
  <2> PICK o \in IF free(s) THEN FaultsAt("surface", s) ELSE {"before"} : writes(s, o)
    OBVIOUS
  <2>1. s \in Surfaces
    BY <1>0
  <2>2. v(s) \in Value
    BY <2>1, RestoredTyped
  <2>3. live' \in {live, [live EXCEPT ![s] = v(s)]}
    BY <1>0, <2>1 DEF Images
  <2>4. JobTyped'
    <3>1. j \in Jobs
      BY <1>0 DEF Jobs
    <3>2. \/ RestoreFails(p, {})
          \/ Goto(p, "unrestore-goals") /\ job' = job
          \/ pc' = pc /\ job' = [job EXCEPT ![p] = j]
          \/ Goto(p, "restored") /\ job' = job
      OBVIOUS
    <3> HIDE DEF j, writes
    <3>3. CASE pc' = pc /\ job' = [job EXCEPT ![p] = j]
      BY <1>0, <3>1, <3>3 DEF JobTyped
    <3> QED BY <1>0, <3>2, <3>3, GotoTyped, RestoreFailsTyped DEF Locations
  <2>5. CountTyped'
    <3>1. CASE free(s)
      <4>1. o \in Outcome("surface")
        BY <3>1 DEF FaultsAt
      <4> QED BY <1>0, <1>7, <3>1, <4>1, CountedTyped DEF RestoreRows
    <3>2. CASE ~free(s)
      BY <1>0, <1>7, <3>2 DEF RestoreRows, CountTyped
    <3> QED BY <3>1, <3>2
  <2> QED BY <1>7, <2>1, <2>2, <2>3, <2>4, <2>5, SurfaceStepTyped DEF RestoreRows
<1>8. CASE RemoveGoals(p)
  <2> DEFINE s == "sqlite-goals"
             stuck(o) == IF Throws(o) THEN {s} ELSE {}
  <2> PICK o \in FaultsAt("undo", s) :
       /\ live' = IF Effect(o) THEN [live EXCEPT ![s] = GoalsRemoved(p, s)] ELSE live
       /\ Count(o)
       /\ RestoreFails(p, stuck(o))
    BY <1>8 DEF RemoveGoals
  <2>1. s \in Surfaces /\ stuck(o) \in SUBSET Surfaces
    OBVIOUS
  <2> HIDE DEF stuck
  <2>2. GoalsRemoved(p, s) \in Value
    BY <2>1, RestoredTyped
  <2>3. JobTyped'
    BY <1>0, <2>1, RestoreFailsTyped
  <2>4. CountTyped'
    BY <1>0, <1>8, OutcomeTyped DEF RemoveGoals, CountTyped, FaultsAt
  <2> QED BY <1>8, <2>1, <2>2, <2>3, <2>4, SurfaceStepTyped DEF RemoveGoals
<1>9. CASE UndoRestore(p)
  <2> DEFINE mine(s) == live[s] = job[p].post[s]
             c(s, o) == IF Throws(o) THEN job[p].cur \cup {s} ELSE job[p].cur
             j(s, o) == [job[p] EXCEPT !.todo = job[p].todo \ {s}, !.cur = c(s, o)]
             takes(s, o) ==
       /\ live' = IF Effect(o) THEN [live EXCEPT ![s] = job[p].snap[s]] ELSE live
       /\ faults' = IF Throws(o) /\ mine(s) THEN faults + 1 ELSE faults
       /\ job' = [job EXCEPT ![p] = j(s, o)]
       /\ pc' = pc
  <2> PICK s \in {x \in job[p].todo : \A y \in job[p].todo : RestoreRank[y] <= RestoreRank[x]} :
       \E o \in IF mine(s) THEN Outcome("undo") ELSE {"before"} : takes(s, o)
    BY <1>9 DEF UndoRestore
  <2> PICK o \in IF mine(s) THEN Outcome("undo") ELSE {"before"} : takes(s, o)
    OBVIOUS
  <2>1. s \in Surfaces
    BY <1>0
  <2>2. job[p].snap[s] \in Value
    BY <2>1, RestoredTyped
  <2>3. c(s, o) \in SUBSET Surfaces
    BY <1>0, <2>1
  <2> HIDE DEF c
  <2>4. j(s, o) \in Jobs
    BY <1>0, <2>3 DEF Jobs
  <2>5. JobTyped'
    BY <1>0, <2>4 DEF JobTyped
  <2>6. CountTyped'
    <3>1. CASE mine(s)
      BY <1>0, <1>9, <3>1, CountedTyped DEF UndoRestore
    <3>2. CASE ~mine(s)
      BY <1>0, <1>9, <3>2 DEF UndoRestore, CountTyped
    <3> QED BY <3>1, <3>2
  <2> QED BY <1>9, <2>1, <2>2, <2>5, <2>6, SurfaceStepTyped DEF UndoRestore
<1>10. CASE UndoRestoreEnds(p)
  <2> DEFINE stage == IF job[p].cur = {} THEN "rolled_back" ELSE "recovery_required"
  <2>1. stage \in Stages
    BY DEF Stages
  <2>2. ReleaseAs(p, stage, "ignore")
    BY <1>10 DEF UndoRestoreEnds
  <2> HIDE DEF stage
  <2>3. JobTyped'
    BY <1>0, <2>1, <2>2, ReleaseTyped
  <2> QED BY <1>10, <2>3, QuietStepTyped DEF UndoRestoreEnds
<1>11. CASE MarkRows(p)
  <2> DEFINE m == job[p].marks \cup {<<s, "committed">> : s \in Rows}
             j == [job[p] EXCEPT !.marks = m]
  <2> PICK o \in Outcome("journal") :
       /\ WriteJournal(p, "committing", m, o)
       /\ Count(o)
       /\ IF Throws(o) THEN ReleaseMarked(p, m, "committed", "require")
          ELSE Goto(p, "restore-verify") /\ job' = [job EXCEPT ![p] = j]
    BY <1>0, <1>11 DEF MarkRows, JobTyped
  <2>1. m \in SUBSET Marks
    BY <1>0 DEF Marks
  <2> HIDE DEF m
  <2>2. j \in Jobs
    BY <1>0, <2>1 DEF Jobs
  <2> HIDE DEF j
  <2>3. JobTyped'
    BY <1>0, <2>1, <2>2, MarkedTyped, MoveTyped DEF Stages, Locations
  <2> QED BY <1>11, <2>1, <2>3, JournalStepTyped DEF MarkRows, Stages
<1>12. CASE VerifyRestore(p)
  <2> PICK o \in Outcome("journal") :
       /\ WriteJournal(p, "verifying", job[p].marks, o)
       /\ Count(o)
       /\ ReleaseAs(p, "committed", IF Throws(o) \/ ~RestoreHolds(p) THEN "require" ELSE "insist")
    BY <1>12 DEF VerifyRestore
  <2>1. JobTyped'
    BY <1>0, ReleaseTyped DEF Stages
  <2> QED BY <1>0, <1>12, <2>1, JournalStepTyped DEF VerifyRestore, Stages
<1>13. CASE RereadWritten(p)
  <2> PICK s \in job[p].cur :
         \/ /\ Goto(p, "restore-mark")
            /\ job' = [job EXCEPT ![p] = [job[p] EXCEPT
                         !.done = job[p].done \cup {s},
                         !.post = [job[p].post EXCEPT ![s] = live[s]]]]
         \/ RestoreFails(p, {s})
    BY <1>13, ReadsBack
  <2> DEFINE j == [job[p] EXCEPT !.done = job[p].done \cup {s},
                                 !.post = [job[p].post EXCEPT ![s] = live[s]]]
  <2>1. s \in Surfaces
    BY <1>0
  <2>2. [job[p].post EXCEPT ![s] = live[s]] \in Images
    BY <1>0, <2>1 DEF Jobs, Images
  <2>3. j \in Jobs
    BY <1>0, <2>1, <2>2 DEF Jobs
  <2> HIDE DEF j
  <2>4. JobTyped'
    BY <1>0, <2>1, <2>3, MoveTyped, RestoreFailsTyped DEF Locations, j
  <2>5. UNCHANGED <<data, disk, bin, ops, crashes>> /\ CountTyped'
    BY <1>13, ReadsBack
  <2> QED BY <2>4, <2>5 DEF Typed, data, disk, bin, DataTyped, LockTyped, BinTyped
<1> QED BY <1>1, <1>2, <1>3, <1>4, <1>5, <1>6, <1>7, <1>8, <1>9, <1>10, <1>11, <1>12, <1>13
        DEF RestoreStep

(* The steps of a purge keep all types.                                    *)
LEMMA PurgeTyped ==
  ASSUME Typed, NEW p \in Procs, PurgeStep(p)
  PROVE  Typed'
<1> USE SurfacesNamed
<1>0. /\ JobTyped /\ BinTyped /\ CountTyped /\ job[p] \in Jobs /\ live \in Images
      /\ job[p].todo \in SUBSET Surfaces /\ job[p].marks \in SUBSET Marks
      /\ job[p].bundle \in Bundles /\ job[p].from \in 0 .. MaxOps
  BY DEF Typed, DataTyped, JobTyped, Jobs
<1>a. ASSUME PurgeFails(p) PROVE JobTyped'
  BY <1>0, <1>a, ReleaseTyped DEF PurgeFails, Stages
<1>1. CASE WritePurgePayload(p)
  <2> DEFINE x == [kind |-> job[p].kind, covers |-> job[p].todo, before |-> Blank,
                   moves |-> job[p].bundle, from |-> job[p].from, sealed |-> TRUE]
  <2> PICK o \in Outcome("payload") :
       /\ payload' = IF Effect(o) THEN [payload EXCEPT ![job[p].op] = x] ELSE payload
       /\ Count(o)
       /\ IF Throws(o) THEN Refuse(p) ELSE Goto(p, "purge-recheck") /\ job' = job
    BY <1>1 DEF WritePurgePayload
  <2>1. x \in Payloads
    BY <1>0, BlankTyped DEF Payloads, Jobs
  <2> HIDE DEF x
  <2>2. JobTyped'
    BY <1>0, RefuseTyped, GotoTyped DEF Locations
  <2> QED BY <1>1, <2>1, <2>2, PayloadStepTyped DEF WritePurgePayload
<1>2. CASE RecheckPurge(p)
  <2>1. JobTyped'
    BY <1>0, <1>2, RefuseTyped, GotoTyped DEF RecheckPurge, Locations
  <2> QED BY <1>2, <2>1, QuietStepTyped DEF RecheckPurge
<1>3. CASE CheckpointPurge(p)
  <2> DEFINE l == CASE pc[p] = "purge-start"       -> "purge-logs"
                    [] pc[p] = "purge-logged"      -> "purge-quarantine"
                    [] pc[p] = "purge-quarantined" -> "purge-remove"
                    [] OTHER                       -> "purge-verify"
             j == [job[p] EXCEPT !.marks = PurgeMarks(p)]
  <2> PICK o \in Outcome("journal") :
       /\ WriteJournal(p, "committing", PurgeMarks(p), o)
       /\ Count(o)
       /\ IF Throws(o) THEN ReleaseMarked(p, PurgeMarks(p), "recovery_required", "ignore")
          ELSE Goto(p, l) /\ job' = [job EXCEPT ![p] = j]
    BY <1>0, <1>3 DEF CheckpointPurge, JobTyped
  <2>1. PurgeMarks(p) \in SUBSET Marks
    BY <1>0 DEF PurgeMarks, Marks
  <2>2. l \in Locations
    BY DEF Locations
  <2>3. j \in Jobs
    BY <1>0, <2>1 DEF Jobs
  <2> HIDE DEF l, j
  <2>4. JobTyped'
    BY <1>0, <2>1, <2>2, <2>3, MarkedTyped, MoveTyped DEF Stages
  <2> QED BY <1>3, <2>1, <2>4, JournalStepTyped DEF CheckpointPurge, Stages
<1>4. CASE PurgeLogs(p)
  <2> DEFINE s == "logs"
             v == [live[s] EXCEPT !.own = {}]
             stale == s \in job[p].todo /\ live[s].own # job[p].bundle[s]
  <2>1. CASE stale
    <3>1. PurgeFails(p) /\ UNCHANGED <<live, faults>>
      BY <1>4, <2>1 DEF PurgeLogs
    <3> QED BY <1>4, <1>a, <3>1, UnmovedTyped DEF PurgeLogs
  <2>2. CASE ~stale
    <3> PICK o \in FaultsAt("surface", s) :
            /\ live' = IF Effect(o) /\ s \in job[p].todo
                       THEN [live EXCEPT ![s].own = {}] ELSE live
            /\ Count(o)
            /\ IF Throws(o) THEN PurgeFails(p) ELSE Goto(p, "purge-logged") /\ job' = job
      BY <1>4, <2>2 DEF PurgeLogs
    <3>1. v \in Value
      BY <1>0 DEF Images, Value
    <3>2. live' \in {live, [live EXCEPT ![s] = v]}
      BY <1>0 DEF Images
    <3>3. JobTyped'
      BY <1>0, <1>a, GotoTyped DEF Locations
    <3>4. CountTyped'
      BY <1>0, <1>4, OutcomeTyped DEF PurgeLogs, CountTyped, FaultsAt
    <3> QED BY <1>4, <3>1, <3>2, <3>3, <3>4, SurfaceStepTyped DEF PurgeLogs
  <2> QED BY <2>1, <2>2
<1>5. CASE QuarantineEntry(p)
  <2> PICK o \in IF EntryIsCurrent(p) THEN Outcome("trash") ELSE {"before"} :
       /\ entry' = IF Effect(o) THEN [entry EXCEPT ![job[p].from].state = "quarantined"] ELSE entry
       /\ faults' = IF Throws(o) /\ EntryIsCurrent(p) THEN faults + 1 ELSE faults
       /\ IF Throws(o) THEN PurgeFails(p) ELSE Goto(p, "purge-quarantined") /\ job' = job
    BY <1>5 DEF QuarantineEntry
  <2>1. JobTyped'
    BY <1>0, <1>a, GotoTyped DEF Locations
  <2>2. BinTyped'
    BY <1>0, <1>5, EntryMoved DEF BinTyped, QuarantineEntry
  <2>3. CountTyped'
    <3>1. CASE EntryIsCurrent(p)
      BY <1>0, <1>5, <3>1, CountedTyped DEF QuarantineEntry, EntryIsCurrent
    <3>2. CASE ~EntryIsCurrent(p)
      BY <1>0, <1>5, <3>2 DEF QuarantineEntry, CountTyped
    <3> QED BY <3>1, <3>2
  <2> QED BY <1>5, <2>1, <2>2, <2>3
          DEF QuarantineEntry, Typed, data, disk, DataTyped, LockTyped
<1>6. CASE RemoveQuarantine(p)
  <2> PICK o \in Outcome("trash") \cap {"ok", "before"} :
       /\ entry' = IF Effect(o) THEN [entry EXCEPT ![job[p].from] = NoEntry] ELSE entry
       /\ Count(o)
       /\ IF Throws(o) THEN PurgeFails(p) ELSE Goto(p, "purge-removed") /\ job' = job
    BY <1>6 DEF RemoveQuarantine
  <2>1. JobTyped'
    BY <1>0, <1>a, GotoTyped DEF Locations
  <2>2. BinTyped'
    BY <1>0, <1>6, NoEntryTyped DEF BinTyped, RemoveQuarantine
  <2> QED BY <1>6, <2>1, <2>2, BinStepTyped DEF RemoveQuarantine
<1>7. CASE VerifyPurge(p)
  <2> PICK o \in Outcome("journal") :
       /\ WriteJournal(p, "verifying", job[p].marks, o)
       /\ Count(o)
       /\ ReleaseAs(p, "committed", IF Throws(o) THEN "require" ELSE "insist")
    BY <1>7 DEF VerifyPurge
  <2>1. JobTyped'
    BY <1>0, ReleaseTyped DEF Stages
  <2> QED BY <1>0, <1>7, <2>1, JournalStepTyped DEF VerifyPurge, Stages
<1> QED BY <1>1, <1>2, <1>3, <1>4, <1>5, <1>6, <1>7 DEF PurgeStep

(* What a recovery makes of a surface.                                     *)
LEMMA DesiredTyped ==
  ASSUME Typed, NEW p \in Procs, NEW s \in Surfaces
  PROVE  Desired(p, s) \in Value
<1>1. job[p].snap[s] \in Value /\ live[s] \in Value /\ job[p].bundle[s] \in SUBSET Records
  BY DEF Typed, DataTyped, JobTyped, Jobs, Images, Bundles
<1>2. [live[s] EXCEPT !.own = live[s].own \cup job[p].snap[s].own \cup job[p].bundle[s]] \in Value
  BY <1>1 DEF Value
<1>3. [live[s] EXCEPT !.own = live[s].own \ job[p].bundle[s]] \in Value
  BY <1>1 DEF Value
<1>4. StateAfter(p, s) \in Value
  BY <1>1, AfterTyped DEF StateAfter
<1> QED BY <1>1, <1>2, <1>3, <1>4 DEF Desired

(* The steps of a recovery keep all types.                                 *)
LEMMA RecoveryTyped ==
  ASSUME Typed, NEW p \in Procs, RecoveryStep(p)
  PROVE  Typed'
<1>0. /\ JobTyped /\ BinTyped /\ job[p] \in Jobs /\ live \in Images
      /\ job[p].todo \in SUBSET Surfaces /\ job[p].rel.stage \in Stages
  BY DEF Typed, DataTyped, JobTyped, Jobs, Releases
<1>1. CASE BeginRecovery(p)
  <2> DEFINE o == lock.op
             reconciles == ~IsFinal(o) /\ ~Untouched(o)
             todo == IF reconciles THEN payload[o].covers ELSE {}
             rel  == [stage |-> EndStage(o), next |-> "none"]
             b == IF ProtectsLogs(o) THEN NoRecords ELSE payload[o].moves
             j == [NoJob EXCEPT !.kind = payload[o].kind, !.op = o, !.snap = payload[o].before,
                                !.from = payload[o].from, !.bundle = b,
                                !.marks = journal[o].marks, !.todo = todo, !.rel = rel]
             l == IF reconciles THEN "rec" ELSE "fin-stage"
  <2>1. o \in OpIds
    BY <1>1 DEF BeginRecovery, Readable, Typed, LockTyped, OpIds
  <2>2. payload[o] \in Payloads /\ journal[o] \in Journals
    BY <2>1 DEF Typed
  <2>3. todo \in SUBSET Surfaces
    BY <2>2 DEF Payloads
  <2>4. rel \in Releases
    BY <2>2 DEF EndStage, Releases, Journals, Stages
  <2>5. l \in Locations
    BY DEF Locations
  <2>6. job' = [job EXCEPT ![p] = j] /\ Goto(p, l)
    BY <1>1 DEF BeginRecovery
  <2>9. b \in Bundles
    BY <2>2, BlankTyped DEF Payloads
  <2> HIDE DEF todo, rel, l, b
  <2>7. j \in Jobs
    <3>1. /\ payload[o].kind \in AllKinds \cup {"none"} /\ payload[o].before \in Images
          /\ journal[o].marks \in SUBSET Marks /\ o \in 0 .. MaxOps
          /\ payload[o].from \in 0 .. MaxOps
      BY <2>1, <2>2 DEF Payloads, Journals, OpIds
    <3> HIDE DEF o
    <3> QED BY <3>1, <2>3, <2>4, <2>9, NoJobTyped DEF Jobs
  <2> HIDE DEF j
  <2>8. JobTyped'
    BY <1>0, <2>5, <2>6, <2>7, MoveTyped
  <2> QED BY <1>1, <2>8, QuietStepTyped DEF BeginRecovery
<1>2. CASE RecoverSurface(p)
  <2> PICK s \in First(job[p].todo, RecoveryRank) :
       IF ~KnownState(p, s) THEN Stop(p) /\ UNCHANGED <<live, faults>>
       ELSE \E o \in Outcome("recover") :
              /\ live' = IF Effect(o) THEN [live EXCEPT ![s] = Desired(p, s)] ELSE live
              /\ Count(o)
              /\ IF Throws(o) THEN Stop(p)
                 ELSE pc' = pc /\ job' = [job EXCEPT ![p].todo = @ \ {s}]
    BY <1>2 DEF RecoverSurface
  <2>1. s \in Surfaces
    BY <1>0 DEF First
  <2>2. CASE ~KnownState(p, s)
    BY <1>0, <1>2, <2>2, StopTyped, UnmovedTyped DEF RecoverSurface
  <2>3. CASE KnownState(p, s)
    <3> DEFINE j == [job[p] EXCEPT !.todo = job[p].todo \ {s}]
    <3> PICK o \in Outcome("recover") :
              /\ live' = IF Effect(o) THEN [live EXCEPT ![s] = Desired(p, s)] ELSE live
              /\ Count(o)
              /\ IF Throws(o) THEN Stop(p) ELSE pc' = pc /\ job' = [job EXCEPT ![p] = j]
      BY <1>0, <2>3 DEF JobTyped
    <3>1. j \in Jobs
      BY <1>0 DEF Jobs
    <3> HIDE DEF j
    <3>2. JobTyped'
      BY <1>0, <3>1, StopTyped DEF JobTyped
    <3>3. live' \in Images
      BY <1>0, <2>1, DesiredTyped, ImageUpdated
    <3>4. CountTyped'
      BY <1>2, OutcomeTyped DEF RecoverSurface, Typed, CountTyped
    <3> QED BY <1>2, <3>2, <3>3, <3>4
            DEF RecoverSurface, Typed, disk, bin, DataTyped, LockTyped, BinTyped
  <2> QED BY <2>2, <2>3
<1>3. CASE SurfacesRecovered(p)
  <2>1. JobTyped'
    BY <1>0, <1>3, GotoTyped DEF SurfacesRecovered, Locations
  <2> QED BY <1>3, <2>1, QuietStepTyped DEF SurfacesRecovered
<1>4. CASE RecoverTrash(p)
  <2> DEFINE o == job[p].op
             e == EntryOf(p)
  <2> PICK r \in Outcome("recover") \cap {"ok", "before"} :
       /\ entry' = IF Effect(r) THEN [entry EXCEPT ![e] = NoEntry] ELSE entry
       /\ tmp'   = IF Effect(r) THEN [tmp   EXCEPT ![o] = FALSE]   ELSE tmp
       /\ Count(r)
       /\ IF Throws(r) THEN Stop(p) ELSE Goto(p, "fin-stage") /\ job' = job
    BY <1>4 DEF RecoverTrash
  <2>1. JobTyped'
    BY <1>0, StopTyped, GotoTyped DEF Locations
  <2>2. BinTyped'
    BY <1>0, NoEntryTyped DEF BinTyped
  <2> QED BY <1>4, <2>1, <2>2, BinStepTyped DEF RecoverTrash
<1>5. CASE RefuseTrash(p)
  <2>1. JobTyped'
    BY <1>0, <1>5, StopTyped DEF RefuseTrash
  <2> QED BY <1>5, <2>1, QuietStepTyped DEF RefuseTrash
<1>6. CASE FinalizeStage(p)
  <2> DEFINE o == job[p].op
             refused == ~Readable \/ lock.op # o
                        \/ (journal[o].stage = "none" /\ payload[o].kind # "none")
  <2>1. CASE refused
    <3>1. Stop(p) /\ UNCHANGED <<journal, faults>>
      BY <1>6, <2>1 DEF FinalizeStage
    <3>2. JobTyped'
      BY <1>0, <3>1, StopTyped
    <3> QED BY <1>6, <3>1, <3>2, QuietStepTyped DEF FinalizeStage, disk
  <2>2. CASE ~refused
    <3> PICK r \in Outcome("recover") :
            /\ WriteJournal(p, job[p].rel.stage, journal[o].marks, r)
            /\ Count(r)
            /\ IF Throws(r) THEN Stop(p) ELSE Goto(p, "fin-payload") /\ job' = job
      BY <1>6, <2>2 DEF FinalizeStage
    <3>1. JobTyped'
      BY <1>0, StopTyped, GotoTyped DEF Locations
    <3>2. o \in OpIds
      BY <2>2 DEF Readable, Typed, LockTyped, OpIds
    <3>3. journal[o].marks \in SUBSET Marks
      BY <3>2 DEF Typed, Journals
    <3> QED BY <1>0, <1>6, <3>1, <3>3, JournalStepTyped DEF FinalizeStage
  <2> QED BY <2>1, <2>2
<1>7. CASE FinalizePayload(p)
  <2> PICK r \in Outcome("recover") :
       /\ payload' = IF Effect(r) THEN [payload EXCEPT ![job[p].op] = NoPayload] ELSE payload
       /\ Count(r)
       /\ IF Throws(r) THEN Stop(p) ELSE Goto(p, "fin-unlock") /\ job' = job
    BY <1>7 DEF FinalizePayload
  <2>1. JobTyped'
    BY <1>0, StopTyped, GotoTyped DEF Locations
  <2> QED BY <1>7, <2>1, NoPayloadTyped, PayloadStepTyped DEF FinalizePayload
<1>8. CASE FinalizeUnlock(p)
  <2> PICK r \in Outcome("recover") :
       /\ lock' = IF Effect(r) THEN NoLock ELSE lock
       /\ Count(r)
       /\ Stop(p)
    BY <1>8 DEF FinalizeUnlock
  <2>1. JobTyped'
    BY <1>0, StopTyped
  <2>2. LockTyped'
    BY BoundsAssumption DEF Typed, LockTyped, NoLock
  <2>3. CountTyped'
    BY <1>8, OutcomeTyped DEF FinalizeUnlock, Typed, CountTyped
  <2> QED BY <1>8, <2>1, <2>2, <2>3 DEF FinalizeUnlock, Typed, data, bin, DataTyped, BinTyped
<1>9. CASE RecoverQuarantine(p)
  <2> PICK r \in Outcome("recover") :
       /\ entry' = IF Effect(r) THEN [entry EXCEPT ![job[p].from].state = "quarantined"] ELSE entry
       /\ Count(r)
       /\ IF Throws(r) THEN Stop(p) ELSE pc' = pc /\ job' = job
    BY <1>9 DEF RecoverQuarantine
  <2>1. JobTyped'
    BY <1>0, StopTyped DEF JobTyped
  <2>2. BinTyped'
    BY <1>0, <1>9, EntryMoved DEF BinTyped, RecoverQuarantine
  <2> QED BY <1>9, <2>1, <2>2, BinStepTyped DEF RecoverQuarantine
<1> QED BY <1>1, <1>2, <1>3, <1>4, <1>5, <1>6, <1>7, <1>8, <1>9 DEF RecoveryStep

(* The initial states are typed.                                           *)
LEMMA InitTyped == Init => Typed
<1> SUFFICES ASSUME Init PROVE Typed
  OBVIOUS
<1> PICK k \in 0 .. InitialEntries : InitFrom(k)
  BY DEF Init
<1> USE DEF Init, InitFrom
<1>1. DataTyped
  BY BoundsAssumption DEF DataTyped, Images, Value, Records
<1>2. LockTyped /\ CountTyped
  BY BoundsAssumption DEF LockTyped, NoLock, CountTyped
<1>3. journal \in [OpIds -> Journals]
  BY DEF NoJournal, Journals, Stages
<1>4. payload \in [OpIds -> Payloads]
  BY NoPayloadTyped
<1>5. BinTyped
  <2>1. Everything \in Bundles
    BY BoundsAssumption DEF Everything, Bundles, Records
  <2>2. [state |-> "complete", bundle |-> Everything] \in Entries
    BY <2>1 DEF Entries
  <2> QED BY <2>2, NoEntryTyped DEF BinTyped
<1>6. JobTyped
  BY NoJobTyped DEF JobTyped, Locations
<1> QED BY <1>1, <1>2, <1>3, <1>4, <1>5, <1>6 DEF Typed

(* Every step keeps all types.                                             *)
LEMMA NextTyped == Typed /\ [Next]_vars => Typed'
<1> SUFFICES ASSUME Typed, [Next]_vars PROVE Typed'
  OBVIOUS
<1>1. ASSUME NEW p \in Procs, OperationStep(p) PROVE Typed'
  BY <1>1, AcquireTyped, DeleteTyped, UndoTyped, TrashTyped, CleanupTyped, EntryTyped,
     RestoreTyped, PurgeTyped, ReleaseStepTyped, RecoveryTyped DEF OperationStep
<1>2. ASSUME NEW p \in Procs, Crash(p) PROVE Typed'
  BY <1>2, CrashTyped
<1>3. CASE CodexStep
  BY <1>3, CodexTyped
<1>4. CASE UNCHANGED vars
  BY <1>4 DEF vars, Typed, DataTyped, LockTyped, BinTyped, JobTyped, CountTyped
<1> QED BY <1>1, <1>2, <1>3, <1>4 DEF Next

(* Every reachable state is typed.                                         *)
LEMMA TypedAlways == Spec => []Typed
BY InitTyped, NextTyped, PTL DEF Spec

(* Every variable keeps its type, whatever processes, files and bounds.    *)
THEOREM TypeCorrect == Spec => []TypeOK
BY TypedAlways, TypedIsTypeOK, PTL
=============================================================================
