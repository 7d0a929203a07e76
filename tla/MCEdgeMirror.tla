---------------------------- MODULE MCEdgeMirror ----------------------------
(* Small instances of EdgeMirror.                                           *)
EXTENDS EdgeMirror, TLC

CONSTANTS v1, v2, v3, s1, s2

\* Two generations of one repository and a view of another.
ThreeViews == {v1, v2, v3}
TwoStores == {s1, s2}
StoreOfThree == [v \in ThreeViews |-> IF v = v3 THEN s2 ELSE s1]

\* Callers are only compared with one another.
Symmetry == Permutations(Callers)

\* One object more than there may be pending jobs.
ThreeObjects == 1 .. 3

=============================================================================
