------------------------- MODULE MCGlobalPortReclaim -------------------------
EXTENDS GlobalPortReclaim, TLC

\* Hosts and panel processes are interchangeable.
Symmetry == Permutations(Hosts) \cup Permutations(Scanners)
=============================================================================
