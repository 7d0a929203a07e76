-------------------------- MODULE MCSnapshotStore --------------------------
(* Small instances of SnapshotStore.                                        *)
EXTENDS SnapshotStore, TLC

TwoViews == 1 .. 2
ThreeViews == 1 .. 3

\* The last view is larger, so that the byte budget and the view count differ.
SizesOfTwo == [v \in TwoViews |-> v]
SizesOfThree == [v \in ThreeViews |-> IF v = 3 THEN 2 ELSE 1]

\* Importers are only compared with one another.
Symmetry == Permutations(Importers)

=============================================================================
