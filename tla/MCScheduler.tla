----------------------------- MODULE MCScheduler -----------------------------
\* Scheduler for TLC.  Threads of a kind are interchangeable.
EXTENDS Scheduler, TLC

Symmetry == Permutations(Kthreads) \cup Permutations(Uthreads)
=============================================================================
