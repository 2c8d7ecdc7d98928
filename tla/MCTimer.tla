------------------------------- MODULE MCTimer -------------------------------
\* Timer for TLC.
EXTENDS Timer, TLC

Symmetry == Permutations(Kthreads) \cup Permutations(Uthreads)
=============================================================================
