---------------------------- MODULE MCTabManager ----------------------------
\* Workspaces, panels and groups are each alike.
EXTENDS TabManager
Symmetry == Permutations(Workspaces) \cup Permutations(Panels)
=============================================================================
