------------------------ MODULE MCForgejoLifecycle ------------------------
EXTENDS ForgejoLifecycle, TLC
Symmetry == Permutations(Workers)
===========================================================================
