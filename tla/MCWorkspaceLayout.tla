------------------------- MODULE MCWorkspaceLayout -------------------------
\* Panels are alike: any permutation of them gives the same behaviours.
EXTENDS WorkspaceLayout
Symmetry == Permutations(Panels)
=============================================================================
