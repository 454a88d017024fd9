# A formal model of codex-sessions-manager

codex-sessions-manager lists, inspects, deletes, trashes, restores and purges
the local sessions of Codex. Its risk is in the mutations: one session is spread
over files, indexes and SQLite databases that no transaction spans, Codex itself
writes them while the tool runs, the tool may be started twice (a command line,
an MCP server), and it may be killed at any instruction. The code answers with an
exclusive lock file, a journal, a durable before-image and an explicit recovery
command. These modules model that protocol, the surfaces it works on and the
readers around it; TLC checks small instances and TLAPS proves parts of it for
every instance.

Paths below are relative to the repository; `core/` stands for `src/core/`.

## 1. Inventory

### The components

| Component | State it keeps | Operations | What makes it correct |
|---|---|---|---|
| Operation lock, journal, payload (`core/mutation-safety.ts`) | `.codex-sessions-trash/.operation.lock`, `.operations/<id>.json`, `.operations/<id>.recovery.json` | `acquireMutationLock`, `setStage`, `checkpoint`, `writeRecoveryPayload`, `release`, `readInterruptedMutation`, `finalizeInterruptedMutation`, atomic file replacement | one owner at a time; the journal never runs behind the disk; a final stage is final; what is left behind can be recovered and is released; a replaced file is the one that was read |
| Permanent delete (`core/delete.ts`) | the surfaces: session index, history, global state, rollouts, shell snapshots, goals / state / logs databases | `deleteSessions`, its rollback | all surfaces or none, also across a kill; nothing leaves a surface that is not in a durable payload; nothing of other sessions is lost |
| Move to the trash (`core/trash.ts`) | trash entries, temporary entries | `moveSessionsToTrash` | the entry exists exactly when the move committed, and holds what was removed |
| Restore and purge (`core/trash.ts`) | the same, quarantined entries | `restoreTrashEntry`, `purgeTrashEntry` | a restore is all or nothing; a purge never touches logs another entry or a live session needs |
| Index cleanup (`core/delete.ts`) | session index and history | `cleanupSessionIndexes`, `rewriteSessionIndexes` | the two indexes agree when nothing is pending |
| Recovery (`core/recovery.ts`) | none of its own; works from journal and payload | `recoverInterruptedOperation` | ends each pending operation, in the way its strategy says, also if it is killed and run again |
| Session databases (`core/sqlite.ts`) | three SQLite databases | export, delete, restore, reconcile the rows of a selection | rows are put back only where they are missing; unrelated and newer rows are left alone |
| Global state (`core/global-state.ts`) | `.codex-global-state.json` | collect, remove and restore references | all references to the selection go, nothing else changes, all can come back |
| Event paging and export (`core/session-events.ts`) | the cursor key of the process; a cursor travels with the client; an output file | pages over a rollout that may change; a stream of all events into a file | no event twice, none dropped unreported, a cursor of another version is refused; a file that is reported is whole |
| Delete plans (`core/plan-delete.ts`, `core/plan-file.ts`, `core/scan.ts`) | plan files | build, write, preview | a plan never selects an active session, and never previews against a root it was not made for without saying so |
| Session family (`core/family.ts`) | none | closure over spawn edges, impact of a deletion | terminates on cycles, complete; no relative is left behind in silence |
| Residue audit, timeline, query, backup, root, doctor, policy, command line, MCP server | none | read-only, or stateless checks | see PROJECT.json |

### How they interact

A mutation reads the root (`scanSessions`), shows a preview, acquires the lock,
scans again, captures, writes the payload, scans a third time, and only then
changes surfaces one after the other. A move to the trash runs the delete under
its own lock and commits both with one release. A restore and a purge find their
entry before they have the lock and check it again under it. Recovery reads lock,
journal and payload of an operation whose process is gone and finishes what it
finds. The processes share nothing but the disk; Codex shares the surfaces with
them and knows nothing of the lock. The commands that plan a deletion and those
that read events take no lock at all.

### What is hard

* **Kills.** Between any two system calls, in the mutation, in its own rollback,
  and in the recovery of an earlier kill. Power failures around a rename.
* **Partial failures.** A call may throw without an effect, or after its effect
  (the directory sync that follows a rename). What the rollback undoes is decided
  by flags set after the call returns. Two databases commit one after the other.
* **Stale state.** Everything that is written was computed from a text read
  earlier, some of it before the lock was taken; a plan file may be days old.
* **Ordering.** Payload before the first write, `started` checkpoint before the
  surface, journal before the payload's removal before the lock's.
* **Someone else's writes.** Codex appends to rollouts, rewrites indexes, inserts
  rows, archives, resumes and spawns sessions, at any time.
* **Code that must agree with itself.** What belongs to a session is written
  down several times: to export it, to delete it, to reconcile it, to restore it.

PROJECT.json lists each of these under "hazards" with its line and the
properties that cover it.

## 2. The modules

```
MutationStore          the disk, the journal, failing system calls
  OperationLock        scan, acquire, release, kills, Codex
    DeleteSessions     deleteSessions and its rollback
      MoveToTrash      moveSessionsToTrash around it
      TrashEntries     how a restore or a purge finds its entry
        RestoreTrash   restoreTrashEntry and its rollback
        PurgeTrash     purgeTrashEntry
      Recovery         recoverInterruptedOperation, finalizeInterruptedMutation
      IndexCleanup     cleanup-index
        SessionMutations   all of them together; the properties
          MCSessionMutations       instances for TLC
          SessionMutationsProofs   types
            JournalProofs          the lock excludes; memory, journal and payload agree
              TrashProofs          the trash; the logs a purge deletes
              DurabilityProofs     what leaves the surfaces, and what stays
                RollbackProofs     what a rollback has put back, what a recovery finds
                  LedgerProofs     they implement SelectionLedger
SelectionLedger        what the mutations promise (abstract specification)

RolloutSource          a rollout that Codex changes while it is read
  EventPaging          pages of canonical events, cursors, client and server
    MCEventPaging      an instance for TLC
  EventExport          all events into an output file
    EventProofs        theorems about pages and exports

SpawnFamily            walks over spawn edges
  DeletePlans          scan, family, plan-delete, preview-plan
GlobalStateRefs        the references in the global state file
SessionRows            the rows of the state and the goals database
AtomicWrite            the replacement of one file, call by call
  SurfaceProofs        theorems about the last five, and the types of MCSurfaces
MCSurfaces             instances of the last group and of EventExport
```

### The mutations

**The abstraction.** The sessions the user confirmed are *one selection*. A
surface (`live[s]`) is the selection's records in it and a version of all the
rest it holds: `[own, ext]`. A record is the tick at which Codex wrote it, 0 for
what was there at the start, so "which records" is told apart and their text is
not. An operation is a number, its lock, journal, payload and trash entry are
values indexed by it. Process memory is `job[p]`: the scan (`seen`), the
captured texts (`snap`), the flags the rollback reads (`done`), the checkpoints
(`marks`), the entry a restore or a purge works on (`from`, `bundle`), what a
restore read back after a write (`post`), and what the release was called with.
At the start the selection is live, or it is in the trash, in up to
`InitialEntries` entries, and only its logs are live.

**Steps.** A system call that changes the disk is an action, together with what
the code does with its result; so is a check that reads state a later step
relies on. A scan is one read, the compare and the rename of an atomic
replacement are one step, and a database transaction is one step. A write of the
journal may fail at each of its places separately. What an atomic replacement
and a database step consist of is the subject of `AtomicWrite` and `SessionRows`,
and a scan read by read is that of `DeletePlans`.

| Module | Code |
|---|---|
| `OperationLock` | `acquireMutationLock`: `CreateLock` is the exclusive open, `WriteLock` its contents, `CreateJournal` the first stage. `release`: `ReleaseStage`, `ReleaseCheck`, `ReleasePayload`, `ReleaseUnlock` in the order of the code; `ReleaseFails` is the catch of each caller. |
| `DeleteSessions` | `deleteSessions` line by line: `EnterPrepared`, `CheckSelection`, `Capture`, `WritePayload`, `Recheck`, `EnterCommitting`, then for each surface `StartSurface` (checkpoint), a removal, `MarkSurface` (checkpoint); `EnterVerifying`. The four kinds of removal are four actions, because they compare different things. `UndoSurface` and `UndoEnds` are the catch block. |
| `MoveToTrash` | the temporary directory, the bundle, the manifest hash in the payload (`sealed`), the rename, the stage after it, and both catch blocks. |
| `TrashEntries` | `ReadForRestore` and `ReadForPurge` are what is read ahead of the lock: the bundle; whether the logs may go, and their keys. `CheckEntry` compares the entry again under the lock. |
| `RestoreTrash` | `CheckConflicts` (files and rows as they are, lists and references as scanned), `CaptureRestore`, `WriteRestorePayload`, then `StartRestore`, the write of a file or list (`RestoreText`), the second read of what was written (`RereadWritten`, `markSnapshotWritten`), and its checkpoint, the goals and the state rows in one step of their own (`RestoreRows`, with the goals taken out again by `RemoveGoals` when the state database fails), `VerifyRestore`. `UndoRestore` takes out what the flags say was written, if the surface still is what `RereadWritten` found, whoever wrote that. The entry stays. |
| `PurgeTrash` | the payload, the second check of who needs the logs, the logs, the quarantine rename, the recursive removal, each between its checkpoints. After the commit has started nothing is rolled back. |
| `IndexCleanup` | `rewriteSessionIndexes` with the check of `cleanupSessionIndexes`: a check ahead of the lock, a roll-forward payload, the rewrite of both indexes, the release inside the try block. |
| `Recovery` | the branches of `recoverInterruptedOperation` (final journal, untouched operation, payload by strategy), the reconciliation per surface with its refusal of a third state, the trash entry, the purge that is completed with the logs it may retain, and the finalization. |
| `SelectionLedger` | two variables, what a user can see: the selection on each surface and the trash entries. A delete, a move, a restore is one step. |

Recovery also runs *in* the model by any idle process, is itself killed, and runs
again. With `SupervisedRecovery = TRUE` (all runs) it starts only when no
process works on the operation any more; see section 5.

### The readers

**Event paging.** `RolloutSource` has the rollout as a sequence of lines. A line
is its kind (event, reasoning, blank, not valid JSON) and the length of its
serialized event; that is all paging asks of it. Device, inode, mode, links,
size, times and the sampled content are one number, `version`, which every write
of Codex changes: the code compares them together, at the opening and before the
answer. A line read from a file that has changed in between may be any line, or
missing. `EventPaging` is one call of `readCanonicalSessionEventPage` after the
other: `Ask` opens the rollout and checks the cursor, `ReadLine` is one turn of
the loop (skip, take, leave for the next page, omit), `ReadEnds` its end,
`Answer` the checks after the loop and the next cursor. Cursors are bound to the
process by a random key (`core/session-events.ts:25`), so a restarted server
refuses all of them. The client is the reader the documentation has in mind: it
presents the last cursor it received, and starts over without one when it is
refused. One request is worked on at a time; the code shares no state between
requests except the key.

**Export.** `EventExport` is `writeCanonicalSessionEventsFile` by several runs
with the same output path: the exclusive creation, the stream line by line, the
check of the version at the end, the removal of the own file on a failure. A run
that dies leaves its file, and the user removes it.

**Plans.** In `DeletePlans` a root is files, threads, edges, the lists and the
places a session may leave residues in, with one version each for the list files
and for the main file of the state database. A thread row has its archived flag
and the path it stores, into the archive or not; Codex writes both apart from the
rollout they are about, and either makes a session archived
(`core/scan.ts:384-388`). A scan is `ReadDirectories` and
`ReadLists` in either order, `ReadThreads`, `ReadEdges`; Codex moves rollouts,
writes threads, spawns and lists sessions between them. From a scan a command
answers with a family and the impact of deleting it, or builds a plan
(`PlanOf`: the include flags, source candidates, what is rejected as active),
writes it with fingerprints and snapshot, each taken at a moment of its own, and
previews it after any time.

**Families.** `SpawnFamily` does the walks with their work lists, and the climb
to a root that goes to the smallest parent and stops on a cycle.

### The surfaces

**Global state.** A document of `GlobalStateRefs` has a shape for the top level,
the atom state and each holder (object, something else, absent), and for each
session id an entry that is one of two values or is not of the shape the exact
rules ask for. Codex sets entries, and gives a holder, the atom state or the file
any other shape. Collecting, removing and restoring are three operators, written
after three pieces of code.

**Rows.** In `SessionRows` a row has a key, an owner where the table has a second
session column, and a body. `DeleteRows`, `PutRecords` (reconciliation) and
`InsertRows` (restore) are one transaction on one database each. An operation may
be interrupted before and after every transaction and is then reconciled. Codex
writes rows and drops tables.

**Replacements.** `AtomicWrite` is `atomicWriteManagedFileInternal` call by call:
the double-checked read, the temporary file, its sync, the comparison, the last
walk, the rename, the directory sync; with kills, errors and power failures.
An inode number may be used again.

`MCSurfaces` instantiates `SpawnFamily`, `DeletePlans`, `GlobalStateRefs`,
`SessionRows`, `EventExport` and `AtomicWrite` for one run. In the code they share
no state either, so their interleavings would show nothing; a behaviour of the
composition is a behaviour of one of them, whichever moves first, with the others
at rest (`OthersRest`).

## 3. What is checked

All runs but `event_pages` and `surfaces` are of `MCSessionMutations`. A process
may start a delete, a move or a cleanup whenever the selection is there, a
restore or a purge whenever an entry is, and may recover when there is something
to recover. Bounds are constants: `MaxOps` (operations that acquire the lock,
those the initial entries come from included), `MaxCrashes`, `MaxFaults` (failing
calls), `MaxWrites` (writes by Codex). The runs say `CHECK_DEADLOCK FALSE`,
because a system whose bounds are used up stops: nobody is obliged to start
another operation.

| Run | Instance | Shows |
|---|---|---|
| `crashes` | delete, trash and cleanup, 2 processes, 2 operations, 2 kills, symmetric processes | exclusion, write-ahead, recoverability, agreement of the indexes, the trash against the journal, finality, and the refinement of `SelectionLedger` |
| `codex_writes` | delete, trash and restore, 1 process, starting live or with an entry in the trash, a kill, 2 writes by Codex to lists and logs, a step of the release that fails before or after its effect | lines of other sessions survive (`ForeignDataKept`), and nothing leaves a surface before it is in a payload, or once the payload is gone; a restore that reads back what Codex wrote is in it |
| `faults` | delete, trash, restore and purge, 2 symmetric processes, 2 failing calls anywhere but in release, late errors of journal and payload, a kill, half-done recursive removals | the rollback restores everything it took out and takes out what it put back; the refinement holds |
| `restore_purge` | restore and purge, 2 symmetric processes, 2 entries of the same selection, 2 operations, 2 kills | restores and purges of one entry or of two, in any order, recovered and repeated; logs are spared |
| `liveness` | one operation of any kind, a failing call, a kill, fairness | an operation whose lock was written ends and lets go of the lock |
| `event_pages` | 13 rollouts of up to 5 lines, pages of 1 or 2 events and 7 bytes, a write by Codex, a lost reply, a restart, fairness | what a client puts together is the beginning of one version of the rollout, pages keep their limits and advance, a pass ends |
| `surfaces` | every graph over 3 sessions; 4 roots, 17 commands and 2 writes by Codex; 5 documents and 2 writes; 4 pairs of databases and 2 writes; 2 exports, one that dies, 5 rollouts in 3 versions; 2 inodes and 3 writes | each surface and each reader on its own, against Codex and interruptions |
| `torn_lock`, `late_rename_error`, `active_rollout`, `torn_entry`, `prepared_cleanup` | the smallest instance each | the disagreements of section 5 |

**Why the bounds are enough.** Everything about a mutation is about one
operation and what meets it: a second operation that scanned before the first
one took the lock (2 processes, 2 operations), a kill of the owner and a kill of
its recovery (2 kills), a failure that enters the rollback and one inside it (2
faults), a write before the capture and one after, or one between a rename of a
restore and its re-read (2 writes; each may hit any surface of the set). One
rollout and one shell snapshot are separate surfaces; a second rollout is
handled by the same iteration of the same loop and adds only an order. `crashes`
leaves the snapshot out to make room for the second operation. For a restore and
a purge the second entry is what makes a difference: whether logs are needed is
a question about *another* entry. Kills are possible in every state of every run
that allows one, not only between operations.

For `event_pages` the rollouts are chosen so that a page ends in each of the ways
the code knows: by its count, by its length, before and after an event no page
can hold, at the end of the file, at a line that is still being written; and so
that it takes up to four pages to read one. A page of 7 bytes holds two short
events with brackets and comma exactly. A second write of Codex meets the same
checks as the first one.

For `surfaces`: three sessions are a cycle with a tail, a session with two
parents, and an edge to nobody; a root has a family across archived, active and
missing sessions, and two writes fall into the scan of a plan and before its
preview. In two of the four roots a rollout is back in `sessions/` and its row
says so, once with the path of the archive still in it and once without. The
documents have every kind of holder in every shape, and the two writes fall
before and within a restore. The databases have goals in the one, in the other,
and in both; a row in each of the tables that differ in how they are owned; and
the two writes can change a row that was deleted and the same row again. Three
writes to a file are one that changes it, one that brings an inode number back,
and one after the last check.

The properties, in `SessionMutations.tla`, each with a comment:

* `ExclusiveOwner`: who is about to write holds the lock, alone.
* `BeforeImageDurable`: no record leaves a surface unless the payload on disk
  has it, but for a record a restore adopted and its rollback takes out.
* `ForeignDataKept`: what Codex last wrote for other sessions into a list stays
  there, or is put back. The exception is again the rollback of a restore over a
  surface on which it adopted a write of Codex; see section 5.
* `WriteAhead`: a changed surface has its `started` checkpoint on disk.
* `AlwaysRecoverable`, `RecoveryWillSucceed`: what a dead owner leaves is
  accepted by recovery, in form and in content. The second one is about all
  operations but cleanups. A cleanup reads its before-image before it has the
  lock; killed right after it wrote a stale one, it leaves an operation recovery
  refuses, which docs/SAFETY.md:85 announces.
* `RolledBackIsWhole`: an operation that ends rolled back lost nothing.
* `RestoreIsWhole`: a restore ends with all of its entry or with nothing of it.
* `PurgeSparesLogs`: logs are purged only if no surface names the selection and
  no other entry holds it at that instant, also by a recovery that decides later.
* `NothingElseIsLost`: only a committing delete, a cleanup and a purge at work
  lose anything for good. In particular a move to the trash never does.
* `TrashMatchesJournal`, `IndexesAgree`, `OutcomeIsFinal`.
* `Atomic`: every behaviour is one of `SelectionLedger`. The refinement mapping
  counts a record as present while the payload of a pending operation would
  bring it back, not before a restore that wrote it has committed, and an entry
  from the commit of its move until it leaves the trash. So all surfaces change
  in the abstract specification at the instant the journal says `committed` for a
  delete, a move or a restore, and per index for a cleanup, which promises no
  more; a purge forgets the logs first and the entry then.
* `LockIsReleased`: every written lock is released, under fairness.

in `EventPaging.tla`:

* `PagesAreOneVersion`: the pages a client puts together hold the events of one
  version of the rollout up to a line, none missing, repeated or of another
  version; what no page can hold is counted as omitted; `done` means the end.
* `PageWithinBounds`: count and bytes, the bytes by the lengths of the events,
  which are counted as a set of byte positions (`EventBytes`).
* `EveryPageAdvances`: the error "made no forward progress" is never raised for
  an unchanged rollout, and a page that is not the last has an event.
* `CursorAtBoundary`: no valid cursor points behind an unfinished line.
* `PassEnds`: under fairness a client that goes on asking is done.

and in the modules of `surfaces`:

* `WalkIsClosure`: a finished walk has found what a chain of edges leads to, and
  nothing else. `TopIsRoot`: the root is the session or an ancestor, without a
  parent unless a cycle is above.
* `RelativesAreNamed`: a plan selects, offers or rejects every relative of a
  seed; a preview and an impact report name all that would be left behind.
* `ActiveIsSpared`: what is active from the beginning of a scan on is neither
  planned nor deletable, unless its thread row stores a path into the archive,
  which makes it archived for the code; see section 5.
* `PreviewMatchesPlan`: a preview that is not reported stale is of the lists, and
  the edges, the plan was made from.
* `RemovedIsKept`, `RefsComeBack`: a removal takes all references out and nothing
  it has not kept; a restore brings all back and overwrites nothing.
* `RowsComeBack`: undisturbed, every recovery and every restore ends with the
  rows that were there, and none is refused; `RecoveredIsWhole`: disturbed, what
  is reported as recovered is; `NewerRowsKept`: nothing but a free key, or what
  it has itself inserted, is ever changed.
* `ExportIsWhole`: a reported export is all events of one version; no run touches
  another one's file.
* `ReplacesWhatItRead`, `SurvivesPowerLoss`: see `AtomicWrite`.

Every property of a passing run has a mutant in PROJECT.json: a plausible bug in
a mapped definition under which TLC finds it violated. Mutated definitions stand
in the modules just before the original ones, commented `Mutant`.

**Fairness.** `WF(Active(p) /\ OperationStep(p))`: a process that is in the
middle of a function goes on; Node.js runs the continuation of an await that
completed, and a process that does not is a killed one, which `Crash` models.
`SF(\E p : BeginRecovery(p))`: somebody runs the recovery that `recovery-status`
asks for. It is strong because a recovery that was killed or failed must be
started again, and enabledness is interrupted by that attempt. For the paging,
`WF(PagingStep)`: the server works on its request and the client asks while it is
not done; Codex writes, restarts and lost replies are bounded and have no
fairness. Kills and faults
are bounded, so they do not go on for ever; nobody is obliged to start an
operation and Codex to write.

## 4. What is proved

Each theorem is about every value of the constants that meets the assumptions
of its modules: any number of processes, files, operations, kills, faults,
writes, sessions, edges, rows. What a theorem needs beyond that is written as
its hypothesis, by name, so that it can be read what the code has to be given
for the promise to hold:

* `ReleaseSucceeds` (and the weaker `CleanRelease`, which asks it of roots
  where cleanups run only): a step of `release` does not fail. With one that
  does, a final stage is taken back and the payload may be gone; see
  *release between its steps* and *cleanup release* in section 5.
* `SupervisedRecovery`: a recovery starts when its operation is unattended.
  Nothing in the code enforces it; see *recovery next to a live owner*.
* `RenamesAreClean`: a rename in the trash that reports an error has not taken
  effect. The catch block decides by a flag what it removes.
* `QuietScan`: Codex does not write files, index lines or thread rows of the
  selection between the last scan of a purge and the deletion of the logs.
* `QuietRecords`: Codex does not write files or rows of the selection while
  they are deleted; see *a rollout that grew*.
* `QuietReferences`: Codex adds no references to the selection to the global
  state. A delete compares it with its scan by the number of references
  (`core/delete.ts:162`), so one that went and one that came look alike.
* `WritesAreClean`: a write of a surface that reports an error has not taken
  effect. `deleteSessions` undoes what a flag says it did, and sets it when the
  write has returned; see *late rename error* in section 5.
* `NoCleanups`: `cleanup-index` is left out of the operations. It takes its
  before-image ahead of the lock, and when that is stale by then it ends as rolled
  back, having changed nothing: its record says what was, not what it took.
  Only `RollbacksAreWhole` asks for it.
* `NoCleanups \/ NoFaults`: cleanups are left out, or no call fails (kills are
  allowed). A cleanup shows each index as it is rewritten; when the second write
  fails, the handler puts the first one back, which is no step of
  `SelectionLedger` and is not meant to be. Only `MutationsAreAtomic` asks for it.
* `QuietCodex`: Codex writes nothing the tool manages while operations are under
  way (`ExternalSurfaces` is empty, as in the runs that check the same
  properties). It is only asked by what is said of whole selections: what Codex
  adds during a delete belongs to no entry and no payload.
* `GoalsHaveTable`, about the databases an operation may find: where there is a
  database for goals and goals are present, it has its table. See *a goal without
  a table* in section 5.
* `QuietTexts`: Codex writes no list, rollout or snapshot of the selection while
  an operation is under way. A recovery compares texts with its payload and
  refuses a third state; a text that changed meanwhile is one (`docs/SAFETY.md:85`).
  Codex may write the databases.
* `RemovalsAreWhole`: a kill leaves no trash entry half removed; see *torn entry*
  in section 5.

Each invariant was checked by TLC, as an invariant of the runs, before it was
proved.

**The mutations.** Six modules, each on the invariant of the one before.

`SessionMutationsProofs`: **TypeCorrect** (`TypeOK`). The invariant is split
into one conjunct per group of variables; there is one lemma per component and
under it one step per action.

`JournalProofs`, first part: **Exclusion** (`ExclusiveOwner`), given `CleanRelease` and
`SupervisedRecovery`. `ExclusiveOwner` alone is not inductive: a process in
`rel-check` does not hold the lock by its location, yet goes on to hold it.
`Ownership` adds that operation numbers are never reused, that no two working
processes have the same operation, that a process that owns its lock file keeps
owning it through the check of the release, and that only a cleanup has a release
that undoes. Each action is one of a few shapes (a step that keeps its process at
work; a step into a release; one that stops; the unlock) and the lemmas are about
the shapes.

Second part, given `ReleaseSucceeds` and `SupervisedRecovery`:
**LeftoversAreRecoverable** (`AlwaysRecoverable`) and **OutcomesStay**
(`OutcomeIsFinal`). `JournalInv` says what the journal and the payload on disk
may be at each location of the process that works on them (`StageFits`,
`PayloadFits`, `KindFits`), and of operations nobody works on that their files
are ones a recovery accepts (`FileFits`). `Consistent` is the conjunction with
the two invariants before it. From it follows that at most one process works
(`OneWorker`), so that every later proof is about one process and the disk.

`TrashProofs`: **TrashShowsTheJournal** (`TrashMatchesJournal`), given
`RenamesAreClean` besides. Between operations the trash is whole because during
one only its own directory may be anything else: `BinInv` says at each location
of a move, a purge and a recovery in which state that is. **PurgesSpareLogs**
(`PurgeSparesLogs`), given `QuietScan`: from the last look of a purge, or the
first of a recovery, until the logs are deleted nothing appears that would need
them (`LogsInv`), because a restore or a move would have to hold the lock.

`DurabilityProofs`: **ForeignIsKept** (`ForeignDataKept`) without any
hypothesis: whatever fails, whoever recovers, a list is only rewritten over a text
with the same foreign lines, except by the rollback of a restore that adopted a
line of Codex. **NothingLeavesUnrecorded** (`BeforeImageDurable`), given
`ReleaseSucceeds`, `SupervisedRecovery` and `QuietRecords`, with the same
exception, of which it says that no record of the trash entry is ever among what
goes. `DurableInv`
relates the capture, the payload and the surfaces by location: files and rows
hold nothing that was not captured, the payload holds what was captured of every
surface the commit visits, and what a restore, a purge or a recovery adds or
removes is what its payload says. **ChangesAreMarked** (`WriteAhead`), given
`ReleaseSucceeds`, `SupervisedRecovery` and `QuietReferences`. `AheadInv` adds
that the journal on disk never has a mark its owner lacks in memory
(`MarksFit`; a mark is pushed before it is written, so the converse is false),
that a surface being removed has its mark (`StartedFit`), that what was captured
and not yet recorded is still there (`CaptureFits`), and of every operation that
would be rolled back that a surface is as recorded or marked (`Marked`). `OldInv`
says that surfaces Codex does not write hold the records they began with,
wherever they are kept; with it an equal number of references is the same set.

`RollbackProofs`: **RollbacksAreWhole** (`RolledBackIsWhole`), given
`ReleaseSucceeds`, `SupervisedRecovery`, `QuietReferences`, `WritesAreClean` and
`NoCleanups`: what the run `faults` checks the invariant under, for every bound.
`RollbackInv` follows the flags. While a delete commits, a surface is as recorded
or flagged (`TakingFits`); both databases are flagged before the transactions
run, since the first may commit and the second fail (`RowsFit`); during the undo,
and during a recovery, a surface is as recorded or still to be visited
(`ReturningFits`). A restore only ever adds, so its surfaces hold what it found
throughout (`AddingFits`). Whoever is about to write `rolled_back` therefore finds
everything there (`EndingFits`), and an operation that no longer holds the lock
has no record to be held to (`PaidOff`). That a surface without a mark needs no
visit in a recovery is `AheadInv`. The invariant holds with cleanups as well, of
which it asks nothing (`GivenBack`); only the theorem leaves them out.

**RecoveriesSucceed** (`RecoveryWillSucceed`), given `ReleaseSucceeds`,
`SupervisedRecovery`, `QuietTexts` and `RemovalsAreWhole`. `KnownInv` says that each
text a pending payload names is in its first or its second state (`KnownFile`), that
its entry is absent, sealed, whole or in quarantine (`StoredFile`), and of a process
at work that its capture and its payload say the same (`TextsFit`).

`LedgerProofs`: the detailed specification implements the abstract one.
**MutationsAreAtomic** (`Atomic`): every behaviour is one of `SelectionLedger`,
given `ReleaseSucceeds`, `SupervisedRecovery`, `QuietCodex`, `WritesAreClean`,
`RenamesAreClean` and, if there are cleanups, `NoFaults`; kills that leave an
entry half removed are allowed. The mapping (`AbsOwn`, `AbsBin`) is a union over
all operations; since only the one that holds the lock has a payload, it is what
that one operation leaves of each surface (`Shown`, `OwnIsShown`), and how a
step changes it depends on one stage and one surface. `LedgerInv` says at each
location what has been removed and put back so far: what was scanned and
captured is what the user still sees (`SeenFits`, `SnapFits`), a target is gone
or still to come (`TakenFits`), the entry of a move holds exactly what it takes
(`BundleFits`), a restore has put back what it no longer has to visit and
nothing it has not flagged (`HasFits`, `ClearFits`), what it read back is what
it wrote, since Codex is quiet (`ReadInv`), and a recovery ends in the stage its
strategy names (`ResultFits`). Then each step either shows nothing (`Rests`) or
is one of six: a delete or move that commits (`Empties`, `Bins`), a restore that
commits (`GivesBack`), a purge that removes the logs or the entry (`DropsLogs`,
`DropsEntry`), a write of an index by a cleanup (`Cleaning`); `StepMaps` is that
case distinction, one step per action, and `MapsToLedger` takes each to its step
of `SelectionLedger`.

An index cleanup is visible while it works: each index loses its records on its
own, and its error handler may put them back. Two invariants are about it.
`CleanInv` says what there is at each location if everything still to be put back
were put back: the indexes then have records of the selection both or neither
(`InStep`); and what is not to be visited any more is gone (`Cleared`). So its end,
committed, rolled back or recovered, leaves both cleared or both as they were. That
they were in step to begin with is `AgreeInv`, about everything that came before:
with no cleanup pending both indexes show records or neither does, and so in every
entry. The two are proved together (`WholeInv`, `WholeAlways`). `HeldInv` is about
the text a cleanup took ahead of the lock: it compares only numbers of rows
afterwards, but while Codex is quiet as many rows are the same ones (`SameRows`), so
that without failures the third state never occurs and there is nothing to undo.

Under the same hypotheses but for `NoFaults`, with cleanups among the operations and
writes that fail: **RestoresAreWhole** (`RestoreIsWhole`), from `HasFits` and
`ClearFits` at the two places where a final stage is written; **OnlyTheseLose**
(`NothingElseIsLost`): what the ledger shows is exactly what is kept somewhere
(`LedgerIsKept`), so that only a step of the ledger that forgets, or a cleanup at
work, loses anything; **IndexesStayTogether** (`IndexesAgree`), from `AgreeInv`.

**Events.** `EventProofs`, without hypotheses: **PagingTypeCorrect**,
**PagesConsistent** (`PagesAreOneVersion`), **PagesAdvance**
(`EveryPageAdvances`) and **CursorsAtBoundaries** (`CursorAtBoundary`).
**PagesStayInBounds** (`PageWithinBounds`): what is added to the count of bytes
is the length of the event and, but for the first one, a comma (`BytesStep`); an
empty page must fit, so the page has at least its two brackets (an assumption on
`PageBytes`, 240 KiB in the code). `PagesAreOneVersion` is about what the client
has; its invariant `Inv` adds what makes the next page fit: a valid cursor
continues exactly where the client's pages end (`CursorMatchesPass`), a request
that reads an unchanged rollout has taken exactly the events between its start
and its position (`RequestReadsOn`), and no cursor or request names a version
that is still to come (`NoFutureVersion`). The lemmas are about one line: what
it adds to the events of a beginning of the rollout, and to the ordinals. That a
page is read from one version although Codex may write during every step follows
from the comparison in `Answer` alone.

**ExportsAreWhole** (`ExportIsWhole`), for any rollouts, runs and deaths. The
invariant: who owns the file by the state of each run (`Owned`), and that a run
whose version is still there has written the events of the lines it has read
(`StreamsOn`); a run whose version has gone may hold anything and is refused at
its end.

**Families and plans.** `SurfaceProofs`, without hypotheses.
**WalksAreClosures** (`WalkIsClosure`), for any set of sessions, not only a
finite one, and any edges. The reference is the smallest closed set; the
invariant says that what is no longer queued has been expanded (`Expands`) and
that nothing outside the closure was seen (`NothingElse`). **RootsAreTops**
(`TopIsRoot`): the climb stays on the session and its ancestors, one at a time,
and ends only where there is no parent or where it has been before (`ClimbInv`).
**ActiveIsNeverPlanned** (`ActiveIsSpared`): a scan has no snapshot and reads
files before threads; the invariant says of a session that is active throughout,
in its flag, its rollout and its stored path, what each of the two reads has
found (`SeenActive`), and the plan and the preview are shown to keep clear of
what a scan calls active. **NobodyIsPassedOver** (`RelativesAreNamed`): every
relative of a seed is at an end of an edge (`RelatedAreEnds`, from the smallest
closed set), and whatever is related is selected, offered or rejected
(`PlansAreComplete`), or warned about (`WarningsAreComplete`).
**PreviewsAreOfTheirPlan** (`PreviewMatchesPlan`): `ListsInOrder` orders the
versions of the lists a command has read: the fingerprints of the plan, the scan
of the preview, its fingerprints. Versions only grow, so two fingerprints that
agree enclose a scan that saw the same.

**The surfaces.** `SurfaceProofs`, without hypotheses but for the last two.
**OnlyReplacesWhatItRead** (`ReplacesWhatItRead`), for any number of writes and
inode numbers. `StampsGrow`: inode and stamp tell the texts of the file apart
while it is read, which is what makes a read of several calls one text.
`StillSeen`: what the comparison has found is still there, or the next walk finds
another inode, or Codex wrote where no check looks any more (`late`).
**WholeAfterPowerLoss** (`SurvivesPowerLoss`): what is renamed has been synced.
**RemovalIsKept** and **ReferencesComeBack**, for any file and ids: the invariant
is small (what is kept was collected from the text the removal compares with);
the work is in the lemmas about the three operators. **NewerRowsStay**
(`NewerRowsKept`), for any databases: each transaction changes a key only where
nothing is, or gives an ownerless job item its owner, or takes back what the
operation itself inserted. **RecoveryIsWhole** (`RecoveredIsWhole`): a recovery
goes from the state database to the goals database; while Codex has not written
since it began, the rows of the first are in place when it works on the second
(`RecoveryInv`). **RowsAreGivenBack** (`RowsComeBack`), given `GoalsHaveTable`,
for any sets of sessions and job items and any other contents of the databases:
`RowsInv` follows an operation that Codex does not disturb from transaction to
transaction. What it has exported are the rows that belong to it (`Exporting`,
`Bundled`); after the deletion each key is as the deletion leaves it (`AllLeft`);
in the middle of a delete, a reconciliation or a restore it is as found, as left,
or as a record says (`HalfWay`). So no record ever meets a row that differs from
it, nothing is refused, and when both databases have been visited every record is
in place (`InPlace`). The last step compares sets of records: what is left and what
is in place are the rows of the beginning, up to the database a goal is in.
**SurfacesTyped** (`TypesOK`), given `FinitelyMany` sessions (a plan counts
them): the types of all six components that `MCSurfaces` composes. Two of them
are not inductive as they stand: a global state file stays sound through a
restore because what a proper holder lacks is not where an entry goes
(`RestoredSound`), and a row is put back into a table of its kind because every
record names one (`RecordsOfKind`).

**Only model-checked**, and why:

* `LockIsReleased`, `PassEnds`: liveness under fairness.
* `RolledBackIsWhole` where a cleanup is among the operations: it does not hold
  there (see `NoCleanups`), and no run asks for it. `Atomic` with cleanups and
  failing writes likewise.

Overlapping guards of a few alternatives (a `CASE` whose first true guard was
meant) are written as `IF` ... `ELSE IF`: `CASE` leaves the choice open, TLC takes
the first, and a proof may not.

## 5. Where code and documentation disagree

Each has a run whose trace shows it.

1. **An empty lock file** (`torn_lock`). The lock is created and its owner
   written afterwards (`core/mutation-safety.ts:723`). Killed in between, the
   process leaves a file that cannot be parsed: no recovery exists and all
   mutations are blocked. README.md:75 promises a recovery record.
2. **A write that succeeds and throws** (`late_rename_error`).
   `sessionIndexWritten` is set after the replacing call returns
   (`core/delete.ts:745`). If the rename happened and the directory sync failed,
   the rollback skips the index, and the payload is removed by the release as
   rolled back: the lines are gone. README.md:154 promises the rollback.
3. **A rollout that grew** (`active_rollout`). A rollout is removed after a check
   of its inode but not of its size or bytes (`core/delete.ts:774`): what Codex
   appended since the capture is in no payload. docs/SAFETY.md:29 promises that
   content is validated again.
4. **A half-removed trash entry** (`torn_entry`). Killed within the recursive
   removal of an entry, recovery finds a directory without the manifest whose
   hash it wants to compare, now and at every later attempt
   (`core/recovery.ts:474`).
5. **A prepared cleanup is carried out** (`prepared_cleanup`). Its roll-forward
   payload is written in the prepared stage; killed before the last check and
   before `committing`, it is executed by the recovery
   (`core/recovery.ts:760`). README.md:154 says a failure before commit performs
   no mutation.

More observations have no run of their own. Some are excluded from the instances
as conditions (`release` among the failing calls in `codex_writes` only,
`SupervisedRecovery`), others by the wording of a property, where its comment says
so:

* *release between its steps* (`core/mutation-safety.ts:826`): it removes the
  payload before the lock. If the unlink throws, a rolled back delete releases
  again as `recovery_required`: a final stage is taken back and there is nothing
  left to recover from; a committed one releases again as `committed`. No
  surface is written any more, as `codex_writes` shows.
* *cleanup release* (`core/delete.ts:1030`): the release stands in the try block
  whose catch rolls back; if it throws after the unlink, both indexes are
  rewritten without a lock.
* *recovery next to a live owner* (`core/recovery.ts:689`): recovery takes no
  lock and cannot see whether the owner runs. Both then write the same surfaces.
* *a restore adopts what it reads back* (`core/trash.ts:146-159`): after the rename
  of a restored list, `markSnapshotWritten` reads the file again and takes what it
  finds for its own write, without comparing it with what it wrote. A line Codex
  wrote in between (after `core/mutation-safety.ts:408`) thus passes the check of the
  rollback (`core/trash.ts:176-195`), which puts the text from before the restore
  over it; no payload has that line. Both `ForeignDataKept` and
  `BeforeImageDurable` name it as their exception (`Adopted`).
* *a stale stored path* (`core/scan.ts:387`): a rollout that is back in `sessions/`,
  with the archived flag taken back, counts as archived as long as the path in its
  thread row names the archive. It is then offered, planned and deletable although
  Codex may append to it. `ActiveIsSpared` is about all others (`Spared`).
* *the window of a replacement* (`core/mutation-safety.ts:385-408`): a write into
  the file after the comparison, or any write after the last walk, is lost.
  docs/SAFETY.md:29 says that races are narrowed, not closed. That size and
  times differ after every write is assumed.
* *the write-ahead log* (`core/plan-file.ts:141-201`): the fingerprint of the
  state database is of its main file. A commit that is only in the log leaves a
  plan fresh unless it changes the counts or edges of the selection; a preview
  then shows other threads than the plan was made from.
* *a stale preview* still lists the sessions it would delete
  (`core/plan-file.ts:264-321`), next to the word that it is stale.
* *goals in two databases* (`core/sqlite.ts:1955`): different goals of one session
  in the state and in the goals database have one key in the journal's terms. A
  recovery then refuses for ever, and the trash keeps only the dedicated one;
  `RowsComeBack` leaves these roots out.
* *a goal without a table* (`core/sqlite.ts:1949`): a goal in the state database
  next to a database for goals whose table is missing has nowhere to go back to; a
  recovery refuses, a restore skips it. `SurfaceProofs` has the condition as
  `GoalsHaveTable`.
* *goals change their place* (`core/sqlite.ts:1641-1673`): with a dedicated
  database, goals that were in the state database are put back into the dedicated
  one. `RowsComeBack` compares up to that.
* *rows written between export and delete* (`core/sqlite.ts:840`) are deleted by
  key and are in no record. `NewerRowsKept` begins after the deletion.
* *a dropped table or a changed job item* makes the recovery of an interrupted
  restore refuse (`core/sqlite.ts:1842-1913`).
* *a holder of another shape* under one of the known keys is replaced by a fresh
  object in a restore (`core/global-state.ts:537-633`); docs/SAFETY.md:126 says
  there is no force overwrite. `RefsComeBack` is about entries, not about such
  holders.

## 6. What is not modelled, and why

* `cleanup-stale`: `rewriteSessionIndexes` as well, with the selection of sessions
  that exist nowhere else. Its checks ahead of the lock and before the commit
  compare the preview with one of a new scan (`core/delete.ts:1103`, `1122-1127`),
  where cleanup-index compares the selection.
* Which index line, history line or column belongs to a session; schemas of the
  files; modes and links. They are data or stateless checks; a refused check is
  what the error branches stand for.
* How a record becomes an event (`canonicalizeRawLine`) is a function of one line
  and enters as the line's kind and length. Finding the one rollout of a session
  reads the directories once.
* The timeline and the residue audit: read-only, one pass over what a scan has
  found, with bounded output and no decision a later step relies on.
* Backup export: a copy into a private file; its creation and removal are those
  of `EventExport`.
* Reads of a scan that interleave with writes *within a mutation*: the scan is
  one step there. Under the lock nothing but Codex writes, and what the scan has
  found is compared again, surface by surface, before it is changed.
* Command line, MCP schemas, formatting, root resolution, doctor, destructive
  policy: no state.

## 7. Plan

1. `RolledBackIsWhole` for index cleanups, worded by what a cleanup took out and
   not by what it recorded.
2. The properties of `LedgerProofs` with Codex writing surfaces of the selection,
   one surface at a time.
3. `cleanup-stale` as a kind of its own; the classification of `audit.ts` and the
   tail of `timeline.ts` as functions against a reference.
