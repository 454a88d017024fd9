---------------------------- MODULE GlobalStateRefs ----------------------------
(***************************************************************************)
(* What .codex-global-state.json says of sessions, and how a deletion      *)
(* takes it out and a restore puts it back (src/src/core/global-state.ts). *)
(* The file belongs to the Codex desktop application: three of its keys    *)
(* are known, entries of two more are recognized by their exact shape,     *)
(* and anything else that looks like a session id is only reported.        *)
(* Collecting, removing and restoring are written three times over in the  *)
(* code; they have to agree, whatever the file looks like by then.         *)
(***************************************************************************)
EXTENDS Naturals, FiniteSets

CONSTANTS
  RefIds,        \* session ids that may occur in the file
  Documents,     \* the files a deletion may find
  MaxDocWrites   \* bound: writes by Codex

KnownKeys == {"pinned-thread-ids", "queued-follow-ups", "diffViewThreadSettings"}
ExactKeys == {"prompt-history", "heartbeat-thread-permissions-by-id"}
Holders   == KnownKeys \cup ExactKeys \cup {"elsewhere"}
(* "none" is no entry, "odd" a value that is not of the shape the exact    *)
(* rules ask for.                                                          *)
RefValues == {"none", "first", "second", "odd"}
(* The top level and the atom state are objects or something else, and so  *)
(* is every holder.                                                        *)
Shapes    == {"absent", "proper", "other"}
Document  == [top : {"proper", "other"}, atom : Shapes, shape : [Holders -> Shapes],
              at : [Holders -> [RefIds -> RefValues]]]
References == [key : KnownKeys \cup ExactKeys, id : RefIds, val : RefValues \ {"none"}]

Sound(d) ==
  /\ d.top = "other" => d.atom = "absent"
  /\ (d.top = "other" \/ d.atom # "proper") => \A h \in ExactKeys : d.shape[h] = "absent"
  /\ d.top = "other" => \A h \in Holders : d.shape[h] = "absent"
  /\ \A h \in Holders : d.shape[h] # "proper" => \A id \in RefIds : d.at[h][id] = "none"

ASSUME DocumentAssumption ==
  /\ MaxDocWrites \in Nat
  /\ \A d \in Documents : d \in Document /\ Sound(d)

VARIABLES
  doc,     \* the file
  refs,    \* what has been done with it, and what is kept of it
  docWrites
docVars == <<doc, refs, docWrites>>

NoEntries == [h \in Holders |-> [id \in RefIds |-> "none"]]
EmptyDoc  == [top |-> "proper", atom |-> "absent", shape |-> [h \in Holders |-> "absent"],
              at |-> NoEntries]
NoRefs    == [step |-> "idle", ids |-> {}, kept |-> {}, seen |-> EmptyDoc]
RefsInit  == doc = EmptyDoc /\ refs = NoRefs /\ docWrites = 0

-----------------------------------------------------------------------------
Eligible(h, v) == v # "none" /\ (h \in ExactKeys => v # "odd")

(* Mutant: entries of the follow-up queue are removed but not collected.   *)
CollectedPartly(d, ids) ==
  {r \in References : /\ r.id \in ids /\ r.key # "queued-follow-ups"
                      /\ r.val = d.at[r.key][r.id] /\ Eligible(r.key, r.val)}
(* collectGlobalStateReferences and collectExactKeyGlobalStateReferences.  *)
Collected(d, ids) ==
  {r \in References : r.id \in ids /\ r.val = d.at[r.key][r.id] /\ Eligible(r.key, r.val)}

(* What is reported as a possible reference and never changed.             *)
PossibleUnknown(d, ids) ==
  {p \in (ExactKeys \cup {"elsewhere"}) \X ids :
     d.at[p[1]][p[2]] # "none" /\ ~(p[1] \in ExactKeys /\ Eligible(p[1], d.at[p[1]][p[2]]))}

(* removeKnownAndExactGlobalStateReferences.                               *)
RemovedRefs(d, ids) ==
  [d EXCEPT !.at = [h \in Holders |-> [id \in RefIds |->
     IF h # "elsewhere" /\ id \in ids /\ Eligible(h, d.at[h][id]) THEN "none"
     ELSE d.at[h][id]]]]

(* The scan of a delete collects what a trash entry will keep.             *)
ScanDocument ==
  /\ refs.step = "idle"
  /\ \E d \in Documents, ids \in (SUBSET RefIds) \ {{}} :
       /\ doc' = d
       /\ refs' = [step |-> "scanned", ids |-> ids, kept |-> Collected(d, ids), seen |-> d]
  /\ UNCHANGED docWrites

(* removeGlobalStateReferences with the scanned text as expectedText.      *)
RemoveReferences ==
  /\ refs.step = "scanned"
  /\ IF doc = refs.seen
     THEN doc' = RemovedRefs(doc, refs.ids) /\ refs' = [refs EXCEPT !.step = "removed"]
     ELSE refs' = [refs EXCEPT !.step = "stale"] /\ UNCHANGED doc
  /\ UNCHANGED docWrites

-----------------------------------------------------------------------------
(* The preconditions of a restore: no live reference at all.               *)
CheckLiveRefs ==
  /\ refs.step = "removed"
  /\ refs' = [refs EXCEPT !.step = IF Collected(doc, refs.ids) = {} THEN "checked" ELSE "refused"]
  /\ UNCHANGED <<doc, docWrites>>

(* ensureObjectContainer and restoreExactKeyReference throw; so does the   *)
(* search for conflicting exact keys.                                      *)
ExactPossible(d, r) ==
  /\ d.top = "proper" => d.atom # "other"
  /\ d.shape[r.key] # "other"
  /\ d.at[r.key][r.id] = "none"
Restorable(d, kept) == \A r \in kept : r.key \in ExactKeys => ExactPossible(d, r)

(* Mutant: a value that is live is replaced by the one that was kept.      *)
ValueReplaced(d, kept, h, id) ==
  IF \E r \in kept : r.key = h /\ r.id = id
  THEN (CHOOSE r \in kept : r.key = h /\ r.id = id).val ELSE d.at[h][id]
(* A known entry that is there by now keeps its value.                     *)
ValueAfter(d, kept, h, id) ==
  IF d.at[h][id] = "none" /\ \E r \in kept : r.key = h /\ r.id = id
  THEN (CHOOSE r \in kept : r.key = h /\ r.id = id).val ELSE d.at[h][id]

(* Mutant: a holder that gets an entry keeps its shape.                    *)
ShapesKept(d, kept) ==
  [top   |-> "proper", atom |-> d.atom, shape |-> d.shape,
   at    |-> [h \in Holders |-> [id \in RefIds |-> ValueAfter(d, kept, h, id)]]]
(* buildGlobalStateRestoration: a holder or a file of another shape is     *)
(* replaced by a fresh one that holds the references.                      *)
RestoredDoc(d, kept) ==
  LET used == {r.key : r \in kept} IN
  [top   |-> "proper",
   atom  |-> IF used \cap ExactKeys # {} THEN "proper" ELSE d.atom,
   shape |-> [h \in Holders |-> IF h \in used THEN "proper" ELSE d.shape[h]],
   at    |-> [h \in Holders |-> [id \in RefIds |-> ValueAfter(d, kept, h, id)]]]

(* The payload is built from the file as it is after the check; the same   *)
(* file is read again for the write, and refused if it changed.            *)
CaptureDocument ==
  /\ refs.step = "checked"
  /\ refs' = IF Restorable(doc, refs.kept)
             THEN [refs EXCEPT !.step = "captured", !.seen = doc]
             ELSE [refs EXCEPT !.step = "refused"]
  /\ UNCHANGED <<doc, docWrites>>
RestoreReferences ==
  /\ refs.step = "captured"
  /\ IF doc = refs.seen
     THEN /\ doc' = IF refs.kept = {} THEN doc ELSE RestoredDoc(doc, refs.kept)
          /\ refs' = [refs EXCEPT !.step = "restored"]
     ELSE refs' = [refs EXCEPT !.step = "refused"] /\ UNCHANGED doc
  /\ UNCHANGED docWrites

(* Codex gives a holder or the atom state another shape, an object without *)
(* entries included, or starts the file anew.                              *)
CodexReshapes ==
  /\ \/ \E h \in Holders, f \in Shapes : doc' = [doc EXCEPT !.shape[h] = f, !.at[h] = NoEntries[h]]
     \/ \E f \in Shapes :
          doc' = [doc EXCEPT !.atom = f,
                    !.shape = [h \in Holders |-> IF h \in ExactKeys THEN "absent" ELSE doc.shape[h]],
                    !.at    = [h \in Holders |-> IF h \in ExactKeys THEN NoEntries[h] ELSE doc.at[h]]]
     \/ doc' = EmptyDoc
     \/ doc' = [EmptyDoc EXCEPT !.top = "other"]
  /\ doc' # doc /\ Sound(doc')

(* It also sets and drops entries.                                         *)
CodexWritesDocument ==
  /\ refs.step \in {"scanned", "removed", "checked", "captured"}
  /\ docWrites < MaxDocWrites /\ docWrites' = docWrites + 1
  /\ \/ \E h \in Holders, id \in RefIds, v \in RefValues :
          /\ doc.shape[h] = "proper" /\ doc.at[h][id] # v
          /\ doc' = [doc EXCEPT !.at[h][id] = v]
     \/ CodexReshapes
  /\ UNCHANGED refs

RefsNext ==
  \/ ScanDocument \/ RemoveReferences \/ CheckLiveRefs \/ CaptureDocument \/ RestoreReferences
  \/ CodexWritesDocument
RefsSpec == RefsInit /\ [][RefsNext]_docVars

-----------------------------------------------------------------------------
(* The type of every variable.                                             *)
RefsTypeOK ==
  /\ doc \in Document /\ Sound(doc)
  /\ refs \in [step : {"idle", "scanned", "removed", "stale", "checked", "captured",
                       "restored", "refused"},
               ids : SUBSET RefIds, kept : SUBSET References, seen : Document]
  /\ docWrites \in 0 .. MaxDocWrites

(* A removal takes out what a scan calls a reference of the selected       *)
(* sessions, all of it, and nothing that was not kept for a restore;       *)
(* possible references stay (global-state.ts:355-476,                      *)
(* docs/UNKNOWN_GLOBAL_STATE_RULES.md).                                    *)
Removes == refs.step = "scanned" /\ refs'.step = "removed"
RemovedIsKept ==
  [][Removes =>
       /\ Collected(doc', refs.ids) = {}
       /\ PossibleUnknown(doc', RefIds) = PossibleUnknown(doc, RefIds)
       /\ \A h \in Holders, id \in RefIds :
            doc'.at[h][id] # doc.at[h][id] =>
              \E r \in refs.kept : r.key = h /\ r.id = id /\ r.val = doc.at[h][id]
    ]_docVars

(* A restore brings every kept reference back and overwrites no entry that *)
(* Codex has written since the removal, between its own checks included;   *)
(* left alone, the file says of sessions what it said before the deletion  *)
(* (global-state.ts:537-633, trash.ts:1080-1100).                          *)
Restores == refs.step = "captured" /\ refs'.step = "restored"
RefsComeBack ==
  [][Restores =>
       /\ \A r \in refs.kept : doc'.at[r.key][r.id] # "none"
       /\ \A h \in Holders, id \in RefIds :
            doc'.at[h][id] # doc.at[h][id] =>
              /\ doc.at[h][id] = "none"
              /\ \E r \in refs.kept : r.key = h /\ r.id = id /\ r.val = doc'.at[h][id]
    ]_docVars
=============================================================================
