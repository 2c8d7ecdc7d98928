-------------------------------- MODULE MCIrq --------------------------------
\* Irq for TLC.
EXTENDS Irq, TLC

Symmetry == Permutations(Kthreads) \cup Permutations(Uthreads) \cup Permutations(Chars)
=============================================================================
