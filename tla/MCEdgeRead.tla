----------------------------- MODULE MCEdgeRead -----------------------------
(* Small instances of EdgeRead.                                             *)
EXTENDS EdgeRead, TLC

\* The second state is a forced push: it lacks the first one's tip.
TwoSnapshots == 1 .. 2
TwoTips == {"tip1", "tip2"}
Tips == <<{"tip1"}, {"tip2"}>>

Symmetry == Permutations(Requests)

=============================================================================
