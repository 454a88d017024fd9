--------------------------- MODULE SelectionLedger ---------------------------
(***************************************************************************)
(* What the mutations promise a user: a delete or a move to the trash      *)
(* removes the selection from all its surfaces in one step, exactly the    *)
(* records written up to one instant and none written later; a move to the *)
(* trash puts precisely these into the trash in that same step, and a      *)
(* restore brings all of an entry back in one.  An index cleanup promises  *)
(* less: each index loses its records at once.  So does a purge: the logs  *)
(* go first, once nothing needs them, then the entry.                      *)
(***************************************************************************)
EXTENDS Naturals, FiniteSets

CONSTANTS Surfaces, IndexSurfaces, LogSurface, KnownBy, Ticks

VARIABLES
  own,   \* the selection's records on each surface
  bin    \* the trash entries a user can rely on

UpTo(t, S)  == {r \in S : r <= t}
Without(t, T) == [s \in Surfaces |-> IF s \in T THEN own[s] \ UpTo(t, own[s]) ELSE own[s]]
NotLogs(S)  == [s \in Surfaces |-> IF s = LogSurface THEN {} ELSE S]

Live    == own = [s \in Surfaces |-> {0}] /\ bin = {}
Trashed == own = [NotLogs({}) EXCEPT ![LogSurface] = {0}] /\ bin = {NotLogs({0})}
Init    == Live \/ Trashed

CodexAdds(s, r) == /\ own' = [own EXCEPT ![s] = @ \cup {r}]
                   /\ \A q \in UNION {own[x] : x \in Surfaces} : q < r
                   /\ bin' = bin

Delete(t)  == own' = Without(t, Surfaces) /\ bin' = bin
Cleanup(t) == bin' = bin /\ \E T \in SUBSET IndexSurfaces : own' = Without(t, T)
Trash(t)   ==
  LET kept == Surfaces \ {LogSurface} IN
  /\ own' = Without(t, kept)
  /\ \E b \in {[s \in Surfaces |-> IF s \in kept THEN UpTo(t, own[s]) ELSE {}]} :
       bin' = bin \cup {b}
Restore(b) == own' = [s \in Surfaces |-> own[s] \cup b[s]] /\ bin' = bin

(* Logs are forgotten only while no session and no other entry needs them. *)
ForgetLogs ==
  /\ \A s \in KnownBy : own[s] = {}
  /\ Cardinality(bin) <= 1
  /\ own' = [own EXCEPT ![LogSurface] = {}]
  /\ bin' = bin
ForgetEntry(b) == own' = own /\ bin' = bin \ {b}

Next == \/ \E s \in Surfaces, r \in Ticks : CodexAdds(s, r)
        \/ \E t \in Ticks : Delete(t) \/ Cleanup(t) \/ Trash(t)
        \/ \E b \in bin : Restore(b) \/ ForgetEntry(b)
        \/ ForgetLogs

Spec == Init /\ [][Next]_<<own, bin>>
=============================================================================
