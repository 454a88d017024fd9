----------------------------- MODULE SpawnFamily -----------------------------
(***************************************************************************)
(* Who is related to a session (src/src/core/family.ts).  Codex stores one *)
(* edge <<parent, child>> for every session that another one spawned; the  *)
(* tool walks them to show a family, to warn before a deletion, and to     *)
(* find what a delete plan may include.  A walk is modelled step by step,  *)
(* with its work list; what the other modules use of a family is the set   *)
(* the walk ends with.                                                     *)
(*                                                                         *)
(* Edges are read from a database nobody here controls: they may form a    *)
(* cycle, and a session may have several parents.                          *)
(***************************************************************************)
EXTENDS Naturals, FiniteSets

CONSTANTS
  Sessions,    \* session ids; their order is the order of the numbers
  WalkGraphs   \* the sets of edges walks are tried on

ASSUME FamilyAssumption ==
  /\ Sessions \subseteq Nat
  /\ WalkGraphs \subseteq SUBSET (Sessions \X Sessions)

VARIABLE walk
walkVars == <<walk>>

Directions == {"up", "down", "both", "top"}

(* edgesByChild and edgesByParent, read at one id.                         *)
Parents(edges, s)  == {e[1] : e \in {d \in edges : d[2] = s}}
Children(edges, s) == {e[2] : e \in {d \in edges : d[1] = s}}

(* Where collectAncestors, collectDescendants and collectConnectedFamily   *)
(* go from an id.                                                          *)
Neighbours(dir, edges, s) ==
  CASE dir = "up"   -> Parents(edges, s)
    [] dir = "down" -> Children(edges, s)
    [] OTHER        -> Parents(edges, s) \cup Children(edges, s)

NoWalk == [state |-> "idle", dir |-> "up", edges |-> {}, from |-> {}, pending |-> {}, seen |-> {}]
Smallest(S) == CHOOSE s \in S : \A t \in S : s <= t
WalkInit == walk = NoWalk

(* Only the connected family counts the session it starts from.            *)
StartWalk ==
  /\ walk.state = "idle"
  /\ \E dir \in Directions, edges \in WalkGraphs, s \in Sessions :
       walk' = [state |-> "walking", dir |-> dir, edges |-> edges, from |-> {s},
                pending |-> {s}, seen |-> IF dir = "both" THEN {s} ELSE {}]

(* Mutant: an id that was reached is not expanded.                         *)
NotExpanded(s) ==
  LET new == Neighbours(walk.dir, walk.edges, s) \ walk.seen IN
  [walk EXCEPT !.pending = walk.pending \ {s}, !.seen = walk.seen \cup new]
(* The loop body: take an id off the queue, add the ones never seen.       *)
Expanded(s) ==
  LET new == Neighbours(walk.dir, walk.edges, s) \ walk.seen IN
  [walk EXCEPT !.pending = (walk.pending \ {s}) \cup new, !.seen = walk.seen \cup new]

Expand ==
  /\ walk.state = "walking" /\ walk.dir # "top"
  /\ \E s \in walk.pending : walk' = Expanded(s)

WalkDone ==
  /\ walk.state = "walking"
  /\ walk.pending = {}
  /\ walk' = [walk EXCEPT !.state = "done"]

(* Mutant: an id is the root unless it has several parents.                *)
FewParents(s) == Cardinality(Parents(walk.edges, s)) < 2
TopReached(s) == Parents(walk.edges, s) = {}
(* chooseRootId climbs to the smallest parent until there is none; on a    *)
(* cycle it settles for the smallest id it passed.  What is left in seen   *)
(* is the root alone.                                                      *)
Found(s) == [walk EXCEPT !.state = "done", !.pending = {}, !.seen = {s}]
Climb ==
  /\ walk.state = "walking" /\ walk.dir = "top"
  /\ \E s \in walk.pending :
       walk' = IF s \in walk.seen    THEN Found(Smallest(walk.seen))
               ELSE IF TopReached(s) THEN Found(s)
               ELSE [walk EXCEPT !.pending = {Smallest(Parents(walk.edges, s))},
                                 !.seen = walk.seen \cup {s}]

WalkStep == StartWalk \/ Expand \/ WalkDone \/ Climb
WalkSpec == WalkInit /\ [][WalkStep]_walkVars

-----------------------------------------------------------------------------
(* A set that no edge leaves, and the least one around some sessions: what *)
(* a finished walk has seen, and therefore how the families below are      *)
(* written.                                                                *)
Closed(dir, edges, S) == \A s \in S : Neighbours(dir, edges, s) \subseteq S
Reached(dir, edges, from) ==
  {t \in Sessions : \A S \in SUBSET Sessions :
     (from \subseteq S /\ Closed(dir, edges, S)) => t \in S}

(* The ids of buildSessionFamily: ancestors, descendants, siblings and the *)
(* root are all connected to the session.                                  *)
FamilyOf(edges, s) == Reached("both", edges, {s})

-----------------------------------------------------------------------------
(* The type of walk.                                                       *)
WalkTypeOK ==
  walk \in [state : {"idle", "walking", "done"}, dir : Directions,
            edges : SUBSET (Sessions \X Sessions), from : SUBSET Sessions,
            pending : SUBSET Sessions, seen : SUBSET Sessions]

(* A walk is over when it has seen exactly the ids that some chain of      *)
(* edges leads to, whatever the order of the queue and however the edges   *)
(* are knotted: nothing is left out and nothing else got in                *)
(* (family.ts:72-133).                                                     *)
FirstOf(dir, edges, from) ==
  IF dir = "both" THEN from ELSE UNION {Neighbours(dir, edges, s) : s \in from}
WalkIsClosure ==
  (walk.state = "done" /\ walk.dir # "top") =>
    walk.seen = Reached(walk.dir, walk.edges, FirstOf(walk.dir, walk.edges, walk.from))

(* The root of a family is the session or an ancestor of it, and it has a  *)
(* parent itself only if its ancestors form a cycle (family.ts:135-152).   *)
OnCycle(edges, s) == s \in Reached("up", edges, Parents(edges, s))
TopIsRoot ==
  (walk.state = "done" /\ walk.dir = "top") =>
    LET above == Reached("up", walk.edges, walk.from) IN
    \E r \in above :
      /\ walk.seen = {r}
      /\ Parents(walk.edges, r) = {} \/ \E t \in above : OnCycle(walk.edges, t)
=============================================================================
