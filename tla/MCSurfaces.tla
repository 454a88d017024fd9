------------------------------ MODULE MCSurfaces ------------------------------
(***************************************************************************)
(* Small instances of the components that do their work on one surface of  *)
(* the root each, for one run of TLC: walks over spawn edges, the commands *)
(* that plan a deletion, the references in the global state file, the rows *)
(* of the databases, the export of events, and the replacement of a file.  *)
(* They share no state, so a behaviour is a behaviour of one of them:      *)
(* whichever moves first.                                                  *)
(***************************************************************************)
EXTENDS DeletePlans, GlobalStateRefs, SessionRows, EventExport, AtomicWrite, TLC

(* Family walks: every graph over three sessions, cycles and sessions with *)
(* several parents included.                                               *)
Ids3      == 1 .. 3
AllGraphs == SUBSET (Ids3 \X Ids3)

(* Delete plans: 1 is archived and spawned 2, or is spawned by it; 3 is a  *)
(* subagent, or only an edge in the database, or not there.  Where 1 is    *)
(* back in sessions, its row still has the old path, or has not.           *)
OnlyThree == {3}
AllArchived ==
  [file   |-> <<"archived_sessions", "archived_sessions", "none">>,
   thread |-> <<"archived", "archived", "open">>, stored |-> {1, 2},
   edges  |-> {<<1, 2>>}, index |-> {1}, refs |-> {}, lists |-> 0, main |-> 0]
Back(stored) ==
  [AllArchived EXCEPT !.edges = {<<2, 1>>, <<2, 3>>}, !.file[1] = "sessions",
                      !.thread[1] = "open", !.stored = stored]
SomeRoots ==
  {AllArchived,
   [AllArchived EXCEPT !.edges = {<<1, 2>>, <<2, 3>>}, !.thread[3] = "none"],
   Back({2}), Back({1, 2})}
OneFlag == {{}} \cup {{f} : f \in Flags}
SomeRequests ==
  {[kind |-> "family", seeds |-> {1}, flags |-> {}, source |-> FALSE],
   [kind |-> "plan", seeds |-> {}, flags |-> {}, source |-> TRUE]} \cup
  {[kind |-> "plan", seeds |-> ids, flags |-> flags, source |-> FALSE] :
     ids \in {{1}, {2}, {1, 2}}, flags \in OneFlag}

(* Global state files: references of every kind, entries of another shape, *)
(* holders and files that are no objects at all.                           *)
TwoIds == {"s", "t"}
AllProper == [top |-> "proper", atom |-> "proper", shape |-> [h \in Holders |-> "proper"],
              at |-> NoEntries]
SomeDocuments ==
  {AllProper,
   [AllProper EXCEPT !.at["pinned-thread-ids"]["s"] = "first",
                     !.at["queued-follow-ups"]["s"] = "first",
                     !.at["prompt-history"]["s"] = "odd", !.at["prompt-history"]["t"] = "first",
                     !.at["elsewhere"]["s"] = "first"],
   [AllProper EXCEPT !.at["heartbeat-thread-permissions-by-id"]["s"] = "first",
                     !.at["heartbeat-thread-permissions-by-id"]["t"] = "odd",
                     !.at["diffViewThreadSettings"]["s"] = "second",
                     !.shape["pinned-thread-ids"] = "other",
                     !.shape["queued-follow-ups"] = "absent"],
   [EmptyDoc EXCEPT !.top = "other"],
   [EmptyDoc EXCEPT !.atom = "other", !.shape["queued-follow-ups"] = "proper",
                    !.at["queued-follow-ups"]["s"] = "odd"]}

(* Databases: s spawned t and works on a job item; one database or two,    *)
(* goals in the one or the other, different goals in both.                 *)
Row(owner)  == [whose |-> owner, body |-> 1]
Family      == (<<"state", "threads", "s">> :> Row(Nobody)) @@
               (<<"state", "threads", "t">> :> Row(Nobody)) @@
               (<<"state", "edges", "t">>   :> Row("s")) @@
               (<<"state", "items", "j">>   :> Row("s"))
StateGoal   == <<"state", "goals", "s">> :> Row(Nobody)
GoalsGoal   == <<"goals", "goals", "s">> :> [Row(Nobody) EXCEPT !.body = 2]
Holding(rows, dedicated) ==
  [rows |-> [sl \in Slots |-> IF sl \in DOMAIN rows THEN rows[sl] ELSE Absent],
   present |-> IF dedicated THEN Places ELSE {<<"state", t>> : t \in Tables},
   dedicated |-> dedicated]
SomeDatabases ==
  {Holding(Family @@ StateGoal, FALSE), Holding(Family @@ GoalsGoal, TRUE),
   Holding(Family @@ StateGoal, TRUE), Holding(Family @@ StateGoal @@ GoalsGoal, TRUE)}

(* Rollouts with lines that make no event and one that is being written.   *)
Event == [kind |-> "event", size |-> 2]
Think == [kind |-> "reasoning", size |-> 0]
Blank == [kind |-> "blank", size |-> 0]
Torn  == [kind |-> "torn", size |-> 2]
SomeLines    == {Event, Think, Blank, Torn}
SomeContents == {<<>>, <<Torn>>, <<Blank, Event, Torn>>, <<Think, Event>>, <<Event, Blank, Event, Event>>}

-----------------------------------------------------------------------------
Exports  == <<source, export>>
Rest     == [walks |-> walk = NoWalk,
             plans |-> work = Idle /\ ~plan.written /\ answer.kind = "none",
             refs  |-> refs.step = "idle", rows |-> op.at = "idle",
             export |-> version = 0 /\ run = [e \in Exporters |-> NoRun] /\ output = NoOutput,
             write |-> write.at = "idle"]
OthersRest(which) == \A c \in (DOMAIN Rest) \ {which} : Rest[c]

Init ==
  /\ WalkInit /\ PlansInit /\ RefsInit /\ RowsInit /\ ExportInit /\ WriteInit
  /\ SourceInit /\ Now = <<>>

Next ==
  \/ OthersRest("walks")  /\ WalkStep   /\ UNCHANGED <<planVars, docVars, rowVars, Exports, writeVars>>
  \/ OthersRest("plans")  /\ PlansNext  /\ UNCHANGED <<walkVars, docVars, rowVars, Exports, writeVars>>
  \/ OthersRest("refs")   /\ RefsNext   /\ UNCHANGED <<walkVars, planVars, rowVars, Exports, writeVars>>
  \/ OthersRest("rows")   /\ RowsNext   /\ UNCHANGED <<walkVars, planVars, docVars, Exports, writeVars>>
  \/ OthersRest("export") /\ ExportNext /\ UNCHANGED <<walkVars, planVars, docVars, rowVars, writeVars>>
  \/ OthersRest("write")  /\ WriteNext  /\ UNCHANGED <<walkVars, planVars, docVars, rowVars, Exports>>
Spec == Init /\ [][Next]_<<walkVars, planVars, docVars, rowVars, Exports, writeVars>>

(* The types of the variables of all six.                                  *)
TypesOK == WalkTypeOK /\ PlansTypeOK /\ RefsTypeOK /\ RowsTypeOK /\ ExportTypeOK /\ WriteTypeOK
=============================================================================
