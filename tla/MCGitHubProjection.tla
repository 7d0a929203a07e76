------------------------ MODULE MCGitHubProjection ------------------------
(* Small instances of GitHubProjection.                                     *)
EXTENDS GitHubProjection, TLC

\* Requests are only compared with one another.
Symmetry == Permutations(Requests)

===========================================================================
