-------------------------- MODULE MCSessionMutations --------------------------
(* Small instances of SessionMutations for TLC.                            *)
EXTENDS SessionMutations, TLC

CONSTANTS p1, p2, rollout, snapshot

TwoProcs    == {p1, p2}
OneProc     == {p1}
OneFile     == {rollout}
OneSnapshot == {snapshot}

(* Processes are only compared with each other.                            *)
Symmetry == Permutations(TwoProcs)
=============================================================================
