----------------------------- MODULE SessionRows -----------------------------
(***************************************************************************)
(* The rows a deletion takes out of Codex's databases and what puts them   *)
(* back (src/src/core/sqlite.ts, called from delete.ts:617-860,            *)
(* trash.ts:951-1128 and 1553-1570, recovery.ts:380).  SessionMutations    *)
(* treats a database as one surface of a session; here a row has its key,  *)
(* may belong to two sessions, and may live in one of two databases, each  *)
(* with transactions of its own, while Codex keeps writing both.           *)
(*                                                                         *)
(* A deletion exports the rows, removes those of the goals database, then  *)
(* those of the state database.  Interrupted anywhere, it is reconciled:   *)
(* what is missing is inserted, what differs is refused.  Out of the trash *)
(* the rows are inserted again, goals first.  Dedicated logs are a surface *)
(* of SessionMutations and no part of this module.                         *)
(***************************************************************************)
EXTENDS Naturals, FiniteSets

CONSTANTS
  RowSessions,    \* sessions
  JobItems,       \* keys of job items
  RowStates,      \* the databases a deletion may find, see RowStateOK
  MaxRowWrites    \* bound: writes by Codex

Nobody  == "nobody"
Tables  == {"threads", "edges", "items", "goals"}
(* "threads" stands for every table with one row per session and no other  *)
(* owner; an edge has its child as key, its parent as owner; a job item    *)
(* has the session it is assigned to as owner, or nobody.                  *)
Places  == ({"state"} \X Tables) \cup {<<"goals", "goals">>}
Keys(table) == IF table = "items" THEN JobItems ELSE RowSessions
Slots   == UNION {{<<p[1], p[2], k>> : k \in Keys(p[2])} : p \in Places}
Absent  == [whose |-> Nobody, body |-> 0]
Bodies  == {1, 2}
RowsOf(table) ==
  [whose : CASE table = "edges" -> RowSessions
             [] table = "items" -> RowSessions \cup {Nobody}
             [] OTHER -> {Nobody},
   body  : Bodies]
Content == {Absent} \cup UNION {RowsOf(t) : t \in Tables}
RowStateOK(db) ==
  /\ db \in [rows : [Slots -> Content], present : SUBSET Places, dedicated : BOOLEAN]
  /\ \A sl \in Slots :
       db.rows[sl] # Absent =>
         /\ <<sl[1], sl[2]>> \in db.present
         /\ db.rows[sl] \in RowsOf(sl[2])
         /\ sl[1] = "goals" => db.dedicated

ASSUME RowAssumption ==
  /\ Nobody \notin RowSessions
  /\ \A db \in RowStates : RowStateOK(db)
  /\ MaxRowWrites \in Nat

VARIABLES
  base,      \* the two databases: rows, tables that exist, are there two
  op,        \* the operation on them
  origin,    \* history: the databases when the operation began
  rowWrites

rowVars == <<base, op, origin, rowWrites>>

NoBase == [rows |-> [sl \in Slots |-> Absent], present |-> {}, dedicated |-> FALSE]
NoOp   == [at |-> "idle", trash |-> FALSE, targets |-> {}, todo |-> {}, bundle |-> {},
           skipped |-> {}, given |-> FALSE, calm |-> TRUE]
RowsInit == base = NoBase /\ op = NoOp /\ origin = NoBase /\ rowWrites = 0

-----------------------------------------------------------------------------
(* The predicates of the export's selects and of the deletes: an edge is a *)
(* row of both its ends.                                                   *)
Belongs(sl, row, targets) ==
  /\ row # Absent
  /\ CASE sl[2] = "items" -> row.whose \in targets
       [] sl[2] = "edges" -> sl[3] \in targets \/ row.whose \in targets
       [] OTHER           -> sl[3] \in targets

DatabasesInUse == IF base.dedicated THEN {"state", "goals"} ELSE {"state"}
Exported(rows, db, targets) ==
  {<<sl, rows[sl]>> : sl \in {x \in Slots : x[1] = db /\ Belongs(x, rows[x], targets)}}

(* Where a record is put back: goals go to the database for goals, if      *)
(* there is one, whichever database they came from.                        *)
Home(sl) == <<IF sl[2] = "goals" /\ base.dedicated THEN "goals" ELSE "state", sl[2], sl[3]>>
PlaceOf(sl) == <<sl[1], sl[2]>>
RecordsFor(db, bundle) == {<<Home(r[1]), r[2]>> : r \in {q \in bundle : Home(q[1])[1] = db}}
(* dedupeTrashBundle: of the records of a key the last one exported, which *)
(* of two goals is that of the goals database; the order of the sessions   *)
(* is open.                                                                *)
SameKey(r, q) == Home(r[1]) = Home(q[1])
Deduped(bundle) ==
  {kept \in SUBSET bundle :
     /\ \A r \in bundle : Cardinality({q \in kept : SameKey(r, q)}) = 1
     /\ \A r \in kept : r[1][1] = "state" => \A q \in bundle : SameKey(r, q) => q[1][1] = "state"}
OneOfEachKey(bundle) ==
  \A r, q \in bundle : SameKey(r, q) => r[2] = q[2]

To(step) == op' = [op EXCEPT !.at = step]

-----------------------------------------------------------------------------
(* Deletion.                                                               *)
StartRows ==
  /\ op.at = "idle"
  /\ \E db \in RowStates, targets \in (SUBSET RowSessions) \ {{}}, trash \in BOOLEAN :
       /\ base' = db /\ origin' = db
       /\ op' = [NoOp EXCEPT !.at = "export", !.targets = targets, !.trash = trash,
                  !.todo = targets \X (IF db.dedicated THEN {"state", "goals"} ELSE {"state"})]
  /\ UNCHANGED rowWrites

(* exportSqliteRecordsForRestore, session by session, a connection for     *)
(* each of the two databases.                                              *)
ExportRecords ==
  /\ op.at = "export"
  /\ \E d \in op.todo :
       /\ d[2] = "goals" => <<d[1], "state">> \notin op.todo
       /\ op' = [op EXCEPT !.todo = op.todo \ {d},
                           !.bundle = op.bundle \cup Exported(base.rows, d[2], {d[1]}),
                           !.at = IF op.todo # {d} THEN "export"
                                  ELSE IF base.dedicated THEN "deleteGoals" ELSE "deleteState"]
  /\ UNCHANGED <<base, origin, rowWrites>>

(* Mutant: edges are removed for the parent only.                          *)
ForgottenEdges(row, sl) ==
  IF Belongs(sl, row, op.targets) /\ (sl[2] = "edges" => row.whose \in op.targets)
  THEN IF sl[2] = "items" THEN [row EXCEPT !.whose = Nobody] ELSE Absent
  ELSE row
(* A job item stays and loses its assignment; any other row goes.          *)
AfterDelete(row, sl) ==
  IF Belongs(sl, row, op.targets)
  THEN IF sl[2] = "items" THEN [row EXCEPT !.whose = Nobody] ELSE Absent
  ELSE row
DeleteRows(db) ==
  base' = [base EXCEPT !.rows = [sl \in Slots |->
             IF sl[1] = db THEN AfterDelete(base.rows[sl], sl) ELSE base.rows[sl]]]
DeleteGoalRows ==
  /\ op.at = "deleteGoals" /\ DeleteRows("goals") /\ To("deleteState")
  /\ UNCHANGED <<origin, rowWrites>>
DeleteStateRows ==
  /\ op.at = "deleteState" /\ DeleteRows("state") /\ To("deleted")
  /\ UNCHANGED <<origin, rowWrites>>

(* The rest of the operation succeeds; what was moved to the trash stays   *)
(* with its entry.                                                         *)
KeepRows ==
  /\ op.at = "deleted"
  /\ \/ op.trash /\ \E kept \in Deduped(op.bundle) :
                        op' = [op EXCEPT !.at = "trashed", !.bundle = kept]
     \/ ~op.trash /\ To("gone")
  /\ UNCHANGED <<base, origin, rowWrites>>

-----------------------------------------------------------------------------
(* Reconciliation, by the rollback of a failed deletion and by the         *)
(* recovery of an interrupted deletion or restore: one transaction for the *)
(* state database, then one for the goals database.                        *)
Interruptible == {"deleteGoals", "deleteState", "deleted", "restoreGoals", "restoreState",
                  "undoGoals", "validate", "reconcileState", "reconcileGoals"}
Interrupt ==
  /\ op.at \in Interruptible \cup {"refused", "unsafe"}
  /\ op' = [op EXCEPT !.at = "reconcileState", !.calm = TRUE]
  /\ UNCHANGED <<base, origin, rowWrites>>

(* reconcileRowsForRecovery: missing, equal, or a job item without the     *)
(* assignment it had.                                                      *)
Reconcilable(row, sl, expected) ==
  \/ row = Absent
  \/ row = expected
  \/ sl[2] = "items" /\ row = [expected EXCEPT !.whose = Nobody]
(* Mutant: a job item that is there is left as it is.                      *)
AssignmentLost(row, expected) == IF row = Absent THEN expected ELSE row
ReconciledRow(row, expected) == expected
Records(db) == RecordsFor(db, op.bundle)
(* Any refusal throws, and the transaction takes nothing of the database.  *)
ReconcilePossible(db) ==
  \A r \in Records(db) :
    /\ PlaceOf(r[1]) \in base.present
    /\ Reconcilable(base.rows[r[1]], r[1], r[2])
    /\ \A q \in Records(db) : q[1] = r[1] => q[2] = r[2]
PutRecords(db) ==
  base' = [base EXCEPT !.rows = [sl \in Slots |->
             IF \E r \in Records(db) : r[1] = sl
             THEN ReconciledRow(base.rows[sl], (CHOOSE r \in Records(db) : r[1] = sl)[2])
             ELSE base.rows[sl]]]
ReconcileState ==
  /\ op.at = "reconcileState"
  /\ IF ReconcilePossible("state")
     THEN PutRecords("state") /\ To(IF base.dedicated THEN "reconcileGoals" ELSE "recovered")
     ELSE To("refused") /\ UNCHANGED base
  /\ UNCHANGED <<origin, rowWrites>>
ReconcileGoals ==
  /\ op.at = "reconcileGoals"
  /\ IF ReconcilePossible("goals")
     THEN PutRecords("goals") /\ To("recovered")
     ELSE To("refused") /\ UNCHANGED base
  /\ UNCHANGED <<origin, rowWrites>>

-----------------------------------------------------------------------------
(* Restore from the trash.                                                 *)
(* assertNoRestoreKeyConflictsInDatabase: a key is taken, if its table is  *)
(* there; a job item only if it is assigned again.                         *)
Conflict(db) ==
  \E r \in Records(db) :
    LET row == base.rows[r[1]] IN
    row # Absent /\ (r[1][2] = "items" => row.whose # Nobody)
(* The counts of trash.ts:1108-1128: any row of a session conflicts.       *)
LiveRows == \E sl \in Slots : sl[1] \in DatabasesInUse /\ Belongs(sl, base.rows[sl], op.targets)
CheckKeys ==
  /\ op.at = "trashed"
  /\ To(IF \E db \in DatabasesInUse : Conflict(db) THEN "conflict" ELSE "checked")
  /\ UNCHANGED <<base, origin, rowWrites>>
CheckCounts ==
  /\ op.at = "checked"
  /\ To(IF LiveRows THEN "conflict" ELSE IF base.dedicated THEN "restoreGoals" ELSE "restoreState")
  /\ UNCHANGED <<base, origin, rowWrites>>

(* restoreRowsInDatabase skips what has no table any more; an insert on a  *)
(* key that is taken throws.                                               *)
Skipped(db) == {r \in Records(db) : PlaceOf(r[1]) \notin base.present}
Inserts(db) == Records(db) \ Skipped(db)
InsertsFail(db) ==
  \E r \in Inserts(db) :
    LET row == base.rows[r[1]] IN
    row # Absent /\ ~ (r[1][2] = "items" /\ row.whose = Nobody)
(* A job item that is there gets its assignment back and keeps the rest.   *)
RestoredRow(row, expected) ==
  IF row = Absent THEN expected ELSE [row EXCEPT !.whose = expected.whose]
InsertRows(db) ==
  base' = [base EXCEPT !.rows = [sl \in Slots |->
             IF \E r \in Inserts(db) : r[1] = sl
             THEN RestoredRow(base.rows[sl], (CHOOSE r \in Inserts(db) : r[1] = sl)[2])
             ELSE base.rows[sl]]]
RestoreGoals ==
  /\ op.at = "restoreGoals" /\ ~InsertsFail("goals")
  /\ InsertRows("goals")
  /\ op' = [op EXCEPT !.at = "restoreState", !.skipped = Skipped("goals"),
                      !.given = Inserts("goals") # {}]
  /\ UNCHANGED <<origin, rowWrites>>
RestoreState ==
  /\ op.at = "restoreState" /\ ~InsertsFail("state")
  /\ InsertRows("state")
  /\ op' = [op EXCEPT !.at = "validate", !.skipped = op.skipped \cup Skipped("state")]
  /\ UNCHANGED <<origin, rowWrites>>
(* A transaction throws: a key was taken meanwhile, or the database is     *)
(* busy, or full.  Goals that were restored are removed again.             *)
RestoreThrows ==
  /\ op.at \in {"restoreGoals", "restoreState"}
  /\ To(IF op.given THEN "undoGoals" ELSE "rolledBack")
  /\ UNCHANGED <<base, origin, rowWrites>>

(* Mutant: the goals that were restored are removed whatever they are now. *)
RemovedAnyway(row, expected) == TRUE
(* removeRestoredRowsIfUnchanged.                                          *)
Removable(row, expected) == row = Absent \/ row = expected
UndoGoals ==
  /\ op.at = "undoGoals"
  /\ IF \A r \in Records("goals") :
          PlaceOf(r[1]) \in base.present /\ Removable(base.rows[r[1]], r[2])
     THEN /\ base' = [base EXCEPT !.rows = [sl \in Slots |->
                        IF \E r \in Records("goals") : r[1] = sl THEN Absent ELSE base.rows[sl]]]
          /\ To("rolledBack")
     ELSE To("unsafe") /\ UNCHANGED base
  /\ UNCHANGED <<origin, rowWrites>>

(* validateRestoredSqliteRecords: whatever was not skipped is there, as it *)
(* was exported; a failure is reported and the restore stays committed.    *)
Present(r) == base.rows[r[1]] = r[2]
SkippedTable(r) == \E q \in op.skipped : q[1][2] = r[1][2]
ValidateRows ==
  /\ op.at = "validate"
  /\ To(IF \A db \in DatabasesInUse : \A r \in Records(db) : SkippedTable(r) \/ Present(r)
        THEN "restored" ELSE "unverified")
  /\ UNCHANGED <<base, origin, rowWrites>>

-----------------------------------------------------------------------------
(* Codex writes a row or removes one, or a migration drops a table.        *)
CodexWritesRow ==
  \E sl \in Slots, row \in Content :
    /\ PlaceOf(sl) \in base.present /\ sl[1] \in DatabasesInUse
    /\ row = Absent \/ row \in RowsOf(sl[2])
    /\ row # base.rows[sl]
    /\ base' = [base EXCEPT !.rows[sl] = row]
CodexDropsTable ==
  \E p \in base.present :
    base' = [base EXCEPT !.present = base.present \ {p},
               !.rows = [sl \in Slots |-> IF PlaceOf(sl) = p THEN Absent ELSE base.rows[sl]]]
CodexWritesRows ==
  /\ op.at \notin {"idle", "gone", "recovered", "rolledBack", "conflict", "restored", "unverified"}
  /\ rowWrites < MaxRowWrites /\ rowWrites' = rowWrites + 1
  /\ CodexWritesRow \/ CodexDropsTable
  /\ op' = [op EXCEPT !.calm = FALSE]
  /\ UNCHANGED origin

RowsNext ==
  \/ StartRows \/ ExportRecords \/ DeleteGoalRows \/ DeleteStateRows \/ KeepRows
  \/ Interrupt \/ ReconcileState \/ ReconcileGoals
  \/ CheckKeys \/ CheckCounts \/ RestoreGoals \/ RestoreState \/ RestoreThrows \/ UndoGoals
  \/ ValidateRows
  \/ CodexWritesRows
RowsSpec == RowsInit /\ [][RowsNext]_rowVars

-----------------------------------------------------------------------------
(* The type of every variable.                                             *)
Steps == Interruptible \cup {"idle", "export", "gone", "trashed", "checked", "recovered", "refused",
                             "conflict", "rolledBack", "unsafe", "restored", "unverified"}
RowsTypeOK ==
  /\ RowStateOK(base) /\ RowStateOK(origin)
  /\ op.at \in Steps /\ op.targets \subseteq RowSessions
  /\ op.bundle \cup op.skipped \subseteq Slots \X Content
  /\ rowWrites \in 0 .. MaxRowWrites

(* Left alone by Codex, an operation gives back what it took: recovered at *)
(* whatever point it was interrupted, or restored from the trash, every    *)
(* session has the rows it had, in the databases in use, and no other row  *)
(* has changed; a restore that is rolled back leaves what the deletion had *)
(* left; and no recovery is refused (sqlite.ts:1573-1709, 1825-1976).      *)
(* Sessions with different goals in both databases are excepted: their two *)
(* records have one key in the database for goals.                         *)
(* A goal of the state database next to a database for goals without its   *)
(* table could not be put back at all; RowStates has no such root.         *)
AllRecords(db) ==
  {<<Home(sl), db.rows[sl]>> : sl \in {x \in Slots : db.rows[x] # Absent}}
OriginRecords == {<<sl, origin.rows[sl]>> : sl \in {x \in Slots : origin.rows[x] # Absent}}
RowsComeBack ==
  rowWrites = 0 /\ OneOfEachKey(OriginRecords) =>
    /\ op.at \notin {"refused", "unsafe", "conflict", "unverified"}
    /\ op.at \in {"recovered", "restored"} => AllRecords(base) = AllRecords(origin)
    /\ op.at \in {"trashed", "rolledBack", "gone"} =>
         /\ ~LiveRows
         /\ \A sl \in Slots :
              /\ ~Belongs(sl, origin.rows[sl], op.targets) => base.rows[sl] = origin.rows[sl]
              /\ sl[2] = "items" => base.rows[sl].body = origin.rows[sl].body

(* Whatever Codex writes in between, an interrupted operation that is      *)
(* reported as recovered has every row of its journal in place, unless     *)
(* Codex has written once more during that recovery; half of a deletion,   *)
(* half of a restore and half of a reconciliation are all brought there    *)
(* (recovery.ts:380, sqlite.ts:1949-1954).                                 *)
RecoveredIsWhole ==
  op.at = "recovered" /\ op.calm =>
    \A db \in DatabasesInUse : \A r \in Records(db) : Present(r)

(* Nothing the tool does after the deletion overwrites or removes a row it *)
(* did not put there: it fills a key that is free, gives a job item that   *)
(* nobody has its old owner, or takes back a row that is still what it     *)
(* inserted (sqlite.ts:1420-1463, 1842-1913; "without overwriting newer,   *)
(* conflicting values", sqlite.ts:1953).                                   *)
GivesBack == op.at \notin {"idle", "deleteGoals", "deleteState"} /\ rowWrites' = rowWrites
NewerRowsKept ==
  [][GivesBack => \A sl \in Slots :
       LET old == base.rows[sl]
           new == base'.rows[sl] IN
       \/ new = old
       \/ old = Absent
       \/ sl[2] = "items" /\ old.whose = Nobody /\ new = [old EXCEPT !.whose = new.whose]
       \/ new = Absent /\ op.at = "undoGoals" /\ <<sl, old>> \in Records("goals")
    ]_rowVars
=============================================================================
