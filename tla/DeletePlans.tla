------------------------------ MODULE DeletePlans ------------------------------
(***************************************************************************)
(* The read-only commands that prepare a deletion: family, plan-delete     *)
(* with --write-plan, and preview-plan (src/src/core/family.ts, scan.ts,   *)
(* plan-delete.ts, plan-file.ts).  None of them takes the operation lock.  *)
(* A scan reads the root surface by surface, a plan file is written from a *)
(* scan and from fingerprints taken after it, and its preview comes        *)
(* arbitrarily later, while Codex goes on archiving, resuming and spawning *)
(* sessions between any two reads.                                         *)
(***************************************************************************)
EXTENDS SpawnFamily

CONSTANTS
  Subagents,      \* the sessions whose thread row says they are subagents
  RootStates,     \* the roots the commands are started on
  Requests,       \* the commands, see Command
  MaxRootWrites   \* bound: writes by Codex

FileStates   == {"none", "sessions", "archived_sessions"}
ThreadStates == {"none", "open", "archived"}
Flags        == {"children", "subagents", "descendants", "family"}
(* One surface of each kind: session_index stands for the lists a scan     *)
(* knows sessions from, refs for those that leave residues of unknown      *)
(* sessions; stored holds the sessions whose thread row, if there is one,  *)
(* has a rollout_path under archived_sessions; lists and main are the      *)
(* versions of the list files and of the main file of the state database.  *)
Roots   == [file : [Sessions -> FileStates], thread : [Sessions -> ThreadStates],
            stored : SUBSET Sessions, edges : SUBSET (Sessions \X Sessions), index : SUBSET Sessions,
            refs : SUBSET Sessions, lists : Nat, main : Nat]
Command == [kind : {"family", "plan"}, seeds : SUBSET Sessions, flags : SUBSET Flags,
            source : BOOLEAN]

ASSUME PlanAssumption ==
  /\ Subagents \subseteq Sessions
  /\ RootStates \subseteq Roots
  /\ Requests \subseteq Command
  /\ MaxRootWrites \in Nat

VARIABLES
  root,      \* the Codex root
  work,      \* the command at work: where it is, what it has scanned
  plan,      \* the plan file
  answer,    \* what the last command answered
  spared,    \* history: the sessions in Spared ever since the command's scan began
  rootWrites

planVars == <<root, work, plan, answer, spared, rootWrites>>

EmptyRoot == [file |-> [s \in Sessions |-> "none"], thread |-> [s \in Sessions |-> "none"],
              stored |-> {}, edges |-> {}, index |-> {}, refs |-> {}, lists |-> 0, main |-> 0]
NoCommand == [kind |-> "family", seeds |-> {}, flags |-> {}, source |-> FALSE]
NoPrint   == [lists |-> 0, main |-> 0]
NoCounts  == [files |-> 0, rows |-> 0, listed |-> 0]
NoShot    == [counts |-> NoCounts, edges |-> {}]
NoPlan    == [written |-> FALSE, selected |-> {}, candidates |-> {}, rejected |-> {},
              offered |-> {}, print |-> NoPrint, shot |-> NoShot]
NoAnswer  == [kind |-> "none", deletable |-> {}, named |-> {}, missing |-> {}, view |-> EmptyRoot]
Idle      == [at |-> "idle", todo |-> {}, cmd |-> NoCommand, view |-> EmptyRoot,
              draft |-> NoPlan, print |-> NoPrint]

PlansInit ==
  /\ root = EmptyRoot /\ work = Idle /\ plan = NoPlan /\ answer = NoAnswer
  /\ spared = {} /\ rootWrites = 0

-----------------------------------------------------------------------------
(* What a scan makes of a root.                                            *)
Ids(view) ==
  {s \in Sessions : view.file[s] # "none" \/ view.thread[s] # "none" \/ s \in view.index}
  \cup {e[1] : e \in view.edges} \cup {e[2] : e \in view.edges}

(* The archived flag of buildSession: the thread row says so, the rollout  *)
(* lies there, or the path in the thread row does, wherever the rollout is *)
(* by now.                                                                 *)
StoredAsArchived(view) == {s \in view.stored : view.thread[s] # "none"}
Archived(view, s) ==
  \/ view.thread[s] = "archived"
  \/ view.file[s] = "archived_sessions"
  \/ s \in StoredAsArchived(view)
(* chooseSessionKind.                                                      *)
KindOf(view, s) ==
  IF view.file[s] = "none"
  THEN IF view.thread[s] = "none" THEN "stale" ELSE "db-only"
  ELSE IF Archived(view, s) THEN "archived" ELSE "active"
(* hasKnownSessionSurface.                                                 *)
Known(view, s) == view.file[s] # "none" \/ view.thread[s] # "none" \/ s \in view.index
IsSubagent(view, s) == s \in Subagents /\ view.thread[s] # "none"
ActiveIn(view) == {s \in Sessions : KindOf(view, s) = "active"}
(* What the docs call an active session: a rollout where Codex appends.    *)
InUse(r) == {s \in Sessions : r.file[s] = "sessions" /\ r.thread[s] # "archived"}
(* The code spares those but for the ones whose row still has the path     *)
(* they had in the archive.                                                *)
Spared(r) == InUse(r) \ StoredAsArchived(r)

(* resolveSessions finds what was scanned, or what left a residue.         *)
Resolvable(view, s) == s \in Ids(view) \/ s \in view.refs

(* buildBrokenRelation: an end without session, file or index row.         *)
Lacking(view, s) == view.file[s] = "none" \/ s \notin view.index
Broken(view, fam) ==
  {e \in view.edges : {e[1], e[2]} \subseteq fam /\ (Lacking(view, e[1]) \/ Lacking(view, e[2]))}

(* Mutant: a warning names the parents and children only.                  *)
NextOfKin(view, s, selected) ==
  (Parents(view.edges, s) \cup Children(view.edges, s)) \ (selected \cup {s})
(* buildFamilyImpact and buildDeleteFamilyWarnings: the relatives of a     *)
(* session that are not selected, next of kin first.                       *)
Unselected(view, s, selected) ==
  LET fam      == FamilyOf(view.edges, s) \cap Ids(view)
      parents  == Parents(view.edges, s) \ selected
      children == Children(view.edges, s) \ selected
      others   == (fam \ ({s} \cup selected)) \ (parents \cup children)
  IN parents \cup children \cup others
(* The ends of broken relations that are no session at all.                *)
Missing(view, s) ==
  {t \in UNION {{e[1], e[2]} : e \in Broken(view, FamilyOf(view.edges, s))} : ~Known(view, t)}

-----------------------------------------------------------------------------
(* A command starts, and every command starts with a scan: directories and *)
(* lists are read side by side, then threads, then edges, the two by       *)
(* connections of their own.                                               *)
Scanning(cmd, draft) ==
  [Idle EXCEPT !.at = "scan", !.todo = {"files", "lists"}, !.cmd = cmd, !.draft = draft]

(* The root is whatever it is when the first command starts.               *)
StartCommand ==
  /\ work.at = "idle" /\ ~plan.written /\ answer.kind = "none"
  /\ \E r \in RootStates, cmd \in Requests :
       /\ root' = r
       /\ work' = Scanning(cmd, NoPlan)
       /\ spared' = Spared(r)
  /\ UNCHANGED <<plan, answer, rootWrites>>

StartPreview ==
  /\ work.at = "idle" /\ plan.written /\ answer.kind \notin {"preview", "stale"}
  /\ work' = Scanning(NoCommand, plan)
  /\ spared' = Spared(root)
  /\ answer' = NoAnswer
  /\ UNCHANGED <<root, plan, rootWrites>>

ReadDirectories ==
  /\ work.at = "scan" /\ "files" \in work.todo
  /\ work' = [work EXCEPT !.todo = work.todo \ {"files"}, !.view.file = root.file]
ReadLists ==
  /\ work.at = "scan" /\ "lists" \in work.todo
  /\ work' = [work EXCEPT !.todo = work.todo \ {"lists"}, !.view.index = root.index,
                          !.view.refs = root.refs, !.view.lists = root.lists]
ReadThreads ==
  /\ work.at = "scan" /\ work.todo = {}
  /\ work' = [work EXCEPT !.at = "edges", !.view.thread = root.thread,
                          !.view.stored = root.stored]
ReadEdges ==
  /\ work.at = "edges"
  /\ work' = [work EXCEPT !.at = "scanned", !.view.edges = root.edges]
ScanStep ==
  /\ ReadDirectories \/ ReadLists \/ ReadThreads \/ ReadEdges
  /\ UNCHANGED <<root, plan, answer, spared, rootWrites>>

-----------------------------------------------------------------------------
(* buildSessionFamilyQuery in impact mode.                                 *)
AnswerFamily ==
  /\ work.at = "scanned" /\ ~work.draft.written /\ work.cmd.kind = "family"
  /\ work' = Idle
  /\ LET s == CHOOSE x \in work.cmd.seeds : TRUE IN
     answer' = IF Resolvable(work.view, s)
               THEN [kind |-> "family", deletable |-> {s}, view |-> work.view,
                     named |-> Unselected(work.view, s, {s}), missing |-> Missing(work.view, s)]
               ELSE NoAnswer
  /\ UNCHANGED <<root, plan, spared, rootWrites>>

(* What each include flag adds to the seeds; descendants are looked for    *)
(* among known sessions only.                                              *)
IncludedBy(flag, view, seeds) ==
  LET families == (UNION {FamilyOf(view.edges, s) : s \in seeds}) \cap Ids(view)
      known    == {e \in view.edges : Known(view, e[2])}
  IN CASE flag = "children"    -> UNION {Children(view.edges, s) : s \in seeds}
       [] flag = "subagents"   -> {t \in families : IsSubagent(view, t)}
       [] flag = "descendants" -> Reached("down", known, seeds)
       [] flag = "family"      -> families

(* addIncluded over the seeds and every flag.                              *)
Selected(view, cmd) ==
  (cmd.seeds \cup UNION {IncludedBy(f, view, cmd.seeds) : f \in cmd.flags}) \ ActiveIn(view)

(* buildPlanDelete.  Candidates of a source filter are listed, never       *)
(* selected; what is active is rejected wherever it turns up.              *)
PlanOf(view, cmd) ==
  LET families == (UNION {FamilyOf(view.edges, s) : s \in cmd.seeds}) \cap Ids(view)
      sourced  == IF cmd.source THEN {t \in Ids(view) : IsSubagent(view, t)} ELSE {}
      selected == Selected(view, cmd)
      rejected == (cmd.seeds \cup families \cup sourced) \cap ActiveIn(view)
      offered  == (UNION {FamilyOf(view.edges, s) \ {s} : s \in cmd.seeds})
                    \ (selected \cup rejected)
  IN [NoPlan EXCEPT !.selected = selected, !.candidates = sourced \ ActiveIn(view),
                    !.rejected = rejected, !.offered = offered]

BuildPlan ==
  /\ work.at = "scanned" /\ ~work.draft.written /\ work.cmd.kind = "plan"
  /\ IF \A s \in work.cmd.seeds : Resolvable(work.view, s)
     THEN work' = [work EXCEPT !.at = "planned", !.draft = PlanOf(work.view, work.cmd)]
     ELSE work' = Idle
  /\ UNCHANGED <<root, plan, answer, spared, rootWrites>>

(* Without --write-plan the plan is only shown, which is all there is for  *)
(* candidates of a source filter.                                          *)
ShowPlan ==
  /\ work.at = "planned"
  /\ answer' = [NoAnswer EXCEPT !.kind = "plan", !.view = work.view]
  /\ work' = Idle
  /\ UNCHANGED <<root, plan, spared, rootWrites>>

(* buildDeletePlanRootFingerprint, file by file.  What Codex commits may   *)
(* still be in the write-ahead log and not in the main file.               *)
PrintLists ==
  /\ work.at = "lists" \/ (work.at = "planned" /\ ~work.cmd.source)
  /\ work' = [work EXCEPT !.at = "main", !.print.lists = root.lists]
  /\ UNCHANGED <<root, plan, answer, spared, rootWrites>>
PrintMain ==
  /\ work.at = "main"
  /\ work' = [work EXCEPT !.at = "printed", !.print.main = root.main]
  /\ UNCHANGED <<root, plan, answer, spared, rootWrites>>

(* buildSelectedSnapshot counts database rows in the database as it is     *)
(* now, and everything else in the scan.                                   *)
EdgesOf(edges, ids) == {e \in edges : e[1] \in ids \/ e[2] \in ids}
SnapshotOf(ids) ==
  LET found == ids \cap Ids(work.view) IN
  [counts |-> [files  |-> Cardinality({s \in found : work.view.file[s] # "none"}),
               listed |-> Cardinality(found \cap work.view.index),
               rows   |-> Cardinality({s \in found : root.thread[s] # "none"})
                            + Cardinality({p \in found \X root.edges : p[1] \in {p[2][1], p[2][2]}})],
   edges  |-> EdgesOf(work.view.edges, ids)]

WritePlanFile ==
  /\ work.at = "printed" /\ ~work.draft.written
  /\ plan' = [work.draft EXCEPT !.written = TRUE, !.print = work.print,
                                !.shot = SnapshotOf(work.draft.selected)]
  /\ work' = Idle
  /\ answer' = [NoAnswer EXCEPT !.kind = "plan", !.view = work.view]
  /\ UNCHANGED <<root, spared, rootWrites>>

-----------------------------------------------------------------------------
(* previewDeletePlan: the scan is there, the fingerprints are taken again. *)
ComparePlan ==
  /\ work.at = "scanned" /\ work.draft.written
  /\ work' = [work EXCEPT !.at = "lists"]
  /\ UNCHANGED <<root, plan, answer, spared, rootWrites>>

(* Mutant: the fingerprint of the lists is not compared.                   *)
StaleCounts ==
  work.draft.print.main # work.print.main \/ work.draft.shot # SnapshotOf(work.draft.selected)
Stale == work.draft.print # work.print \/ work.draft.shot # SnapshotOf(work.draft.selected)

(* Mutant: what the plan selected is taken to be deletable still.          *)
AllSelected == work.draft.selected
Deletable ==
  {s \in work.draft.selected : Resolvable(work.view, s) /\ KindOf(work.view, s) # "active"}

(* A stale plan is answered without a preview; the others with one of what *)
(* is there now, and a warning for every session that has relatives left.  *)
AnswerPreview ==
  /\ work.at = "printed" /\ work.draft.written
  /\ answer' = IF Stale
               THEN [NoAnswer EXCEPT !.kind = "stale", !.deletable = Deletable, !.view = work.view]
               ELSE [kind |-> "preview", deletable |-> Deletable, view |-> work.view,
                     named   |-> UNION {Unselected(work.view, s, Deletable) : s \in Deletable},
                     missing |-> UNION {Missing(work.view, s) : s \in Deletable}]
  /\ work' = Idle
  /\ UNCHANGED <<root, plan, spared, rootWrites>>

-----------------------------------------------------------------------------
(* Codex: rollouts move between the directories, thread rows are written,  *)
(* with the path of the rollout or another one, sessions are spawned,      *)
(* lists are appended to.  A commit may or may not reach the main file of  *)
(* the database.                                                           *)
RootChanges(next) ==
  /\ work.at # "idle" \/ plan.written
  /\ rootWrites < MaxRootWrites
  /\ rootWrites' = rootWrites + 1
  /\ root' = next
  /\ spared' = spared \cap Spared(next)
  /\ UNCHANGED <<work, plan, answer>>
CodexMovesRollout ==
  \E s \in Sessions, to \in {"sessions", "archived_sessions"} :
    /\ root.file[s] # to /\ root.thread[s] # "none"
    /\ RootChanges([root EXCEPT !.file[s] = to])
CodexWritesThread ==
  \E s \in Sessions, to \in {"open", "archived"}, m \in {0, 1} :
  \E stored \in {root.stored \cup {s}, root.stored \ {s}} :
    /\ root.thread[s] # to \/ root.stored # stored
    /\ RootChanges([root EXCEPT !.thread[s] = to, !.stored = stored, !.main = root.main + m])
CodexSpawns ==
  \E p, c \in Sessions, m \in {0, 1} :
    /\ root.thread[p] # "none" /\ c # p /\ Parents(root.edges, c) = {}
    /\ RootChanges([root EXCEPT !.edges = root.edges \cup {<<p, c>>}, !.main = root.main + m])
CodexListsSession ==
  \E s \in Sessions \ root.index :
    RootChanges([root EXCEPT !.index = root.index \cup {s}, !.lists = root.lists + 1])
CodexActs == CodexMovesRollout \/ CodexWritesThread \/ CodexSpawns \/ CodexListsSession

PlansNext ==
  \/ StartCommand \/ StartPreview \/ ScanStep
  \/ AnswerFamily \/ BuildPlan \/ ShowPlan \/ PrintLists \/ PrintMain \/ WritePlanFile
  \/ ComparePlan \/ AnswerPreview
  \/ CodexActs
PlansSpec == PlansInit /\ [][PlansNext]_planVars

-----------------------------------------------------------------------------
(* The type of every variable.                                             *)
Prints == [lists : Nat, main : Nat]
Shots  == [counts : [files : Nat, rows : Nat, listed : Nat], edges : SUBSET (Sessions \X Sessions)]
Plans  == [written : BOOLEAN, selected : SUBSET Sessions, candidates : SUBSET Sessions,
           rejected : SUBSET Sessions, offered : SUBSET Sessions, print : Prints, shot : Shots]
PlansTypeOK ==
  /\ root \in Roots /\ plan \in Plans
  /\ spared \subseteq Sessions /\ rootWrites \in 0 .. MaxRootWrites
  /\ work \in [at : {"idle", "scan", "edges", "scanned", "planned", "lists", "main", "printed"},
               todo : SUBSET {"files", "lists"}, cmd : Command, view : Roots,
               draft : Plans, print : Prints]
  /\ answer \in [kind : {"none", "family", "plan", "preview", "stale"}, deletable : SUBSET Sessions,
                 named : SUBSET Sessions, missing : SUBSET Sessions, view : Roots]

Related(view, s) == Reached("both", view.edges, {s}) \ {s}

(* No relative is passed over in silence: a plan selects, offers or        *)
(* rejects every session related to a seed, and a preview or an impact     *)
(* report names every one that would be left behind, those included that   *)
(* are only an edge in the database (family.ts:619-785,                    *)
(* plan-delete.ts:196-316).                                                *)
RelativesAreNamed ==
  /\ \A s \in work.cmd.seeds :
       work.at = "planned" =>
         Related(work.view, s) \subseteq
           work.draft.selected \cup work.draft.offered \cup work.draft.rejected
  /\ answer.kind \in {"family", "preview"} =>
       \A s \in answer.deletable :
         /\ Related(answer.view, s) \subseteq answer.deletable \cup answer.named
         /\ \A t \in Related(answer.view, s) : Known(answer.view, t) \/ t \in answer.missing

(* A session that was active from the moment the scan of a command began,  *)
(* with no path into the archive in its thread row, is not selected, not   *)
(* offered and not a candidate in the plan, and not deletable in the       *)
(* preview of a plan that had selected it while it was archived            *)
(* (scan.ts:384-388, plan-delete.ts:46-94, plan-file.ts:287-305).          *)
ActiveIsSpared ==
  /\ (work.at # "idle" /\ ~work.draft.written) =>
        spared \cap (work.draft.selected \cup work.draft.offered \cup work.draft.candidates) = {}
  /\ answer.kind \in {"preview", "stale"} => spared \cap answer.deletable = {}

(* A plan file that is not reported stale is previewed against the very    *)
(* bytes of the lists it fingerprinted, also when Codex writes them        *)
(* between the scan and the fingerprints of either command, and what is    *)
(* deletable is what it selected (plan-file.ts:264-321).                   *)
PreviewMatchesPlan ==
  (answer.kind = "preview" /\ answer.deletable # {}) =>
    /\ answer.view.lists = plan.print.lists
    /\ answer.deletable \subseteq plan.selected
    /\ EdgesOf(answer.view.edges, plan.selected) = plan.shot.edges
=============================================================================
