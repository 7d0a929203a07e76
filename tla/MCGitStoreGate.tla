--------------------------- MODULE MCGitStoreGate ---------------------------
(* Small instances of GitStoreGate.                                         *)
EXTENDS GitStoreGate, TLC

CONSTANTS r1, r2

TwoRepos == {r1, r2}
KnownScopes == {{r1}, {r1, r2}}

=============================================================================
