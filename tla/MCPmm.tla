-------------------------------- MODULE MCPmm --------------------------------
\* Pmm for TLC: a map with an entry that starts and ends off a page boundary,
\* one too short for a page, a reserved one, and one that overflows the stack.
EXTENDS Pmm

TheMap ==
  <<[base |-> 3,  length |-> 10, usable |-> TRUE],
    [base |-> 13, length |-> 5,  usable |-> TRUE],
    [base |-> 18, length |-> 6,  usable |-> FALSE],
    [base |-> 24, length |-> 17, usable |-> TRUE]>>
=============================================================================
