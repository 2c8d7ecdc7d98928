------------------------------- MODULE MCProc -------------------------------
\* Proc for TLC: four entries a table, two of a PML4 for each half, and two
\* bytes a page, so that a program crosses from one page table to the next and
\* ends inside a page.  The frames are clear at boot, or all hold one entry that
\* leads to the frame handed out last, in a slot of the program or beside it.
EXTENDS Proc

Symmetry == Permutations(Procs)
TheFrames == [i \in 1..24 |-> i]
TheImages == {<<1, 2, 3>>}
TheOldTables ==
  {ZeroTable} \cup {[ZeroTable EXCEPT ![i] = [addr |-> 2, user |-> TRUE]] : i \in 0..1}
=============================================================================
