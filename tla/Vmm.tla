--------------------------------- MODULE Vmm ---------------------------------
(***************************************************************************)
(* The page tables of vmm.c.  A table is a page frame holding ENTRIES      *)
(* entries; an address is a page number, read in base ENTRIES as the four  *)
(* indices.  The functions of vmm.c are operators on m, a record of        *)
(*   mem   the frames read as tables: frame -> index -> entry              *)
(*   free  the free frames of the pmm, a stack                             *)
(* that the caller carries through the calls of one step (module Proc).    *)
(***************************************************************************)
EXTENDS Naturals, SequencesExt

CONSTANTS
  ENTRIES,  \* entries of a table (512)
  HALF      \* PML4 slots from here on belong to the kernel (256)

ASSUME VmmAssumption == {ENTRIES, HALF} \subseteq Nat \ {0} /\ HALF < ENTRIES

Index == 0..(ENTRIES - 1)
PML4_INDEX(v) == (v \div ENTRIES^3) % ENTRIES
PDPT_INDEX(v) == (v \div ENTRIES^2) % ENTRIES
PD_INDEX(v) == (v \div ENTRIES) % ENTRIES
PT_INDEX(v) == v % ENTRIES

NotPresent == [addr |-> 0, user |-> FALSE]

ZeroTable == [i \in Index |-> NotPresent]

-----------------------------------------------------------------------------

\* Mutant: the frame stays on the stack.
Alloc_KeepsTop(m) == m

\* pmm_alloc_page, of which Last(m.free) is the result.
Alloc(m) == [m EXCEPT !.free = Front(@)]

\* A missing table is allocated, cleared and linked, PRESENT and WRITABLE;
\* without a frame the entry stays as it is.  (Nor does the code look at the PS
\* bit: it would take a large page for a table.)  t is the frame of the table that
\* has the entry, or 0 once the walk has failed.
ensure_page_table(m, t, i) ==
  IF t = 0 \/ m.mem[t][i] # NotPresent \/ m.free = <<>> THEN m
  ELSE LET new == Last(m.free)
       IN  [Alloc(m) EXCEPT !.mem[new] = ZeroTable,
                            !.mem[t][i] = [addr |-> new, user |-> FALSE]]

Down(m, t, i) == IF t = 0 THEN 0 ELSE m.mem[t][i].addr

\* vmm_map (is_user FALSE, root the kernel's) and vmm_map_user.  Out of memory
\* for a table, the call returns without a word.
vmm_map_user(m, root, v, phys, is_user) ==
  LET m1 == ensure_page_table(m, root, PML4_INDEX(v))
      t1 == Down(m1, root, PML4_INDEX(v))
      m2 == ensure_page_table(m1, t1, PDPT_INDEX(v))
      t2 == Down(m2, t1, PDPT_INDEX(v))
      m3 == ensure_page_table(m2, t2, PD_INDEX(v))
      t3 == Down(m3, t2, PD_INDEX(v))
  IN  IF t3 = 0 THEN m3
      ELSE [m3 EXCEPT !.mem[t3][PT_INDEX(v)] = [addr |-> phys, user |-> is_user]]

\* user_virt_to_phys and vmm_virt_to_phys; 0: not mapped.
user_virt_to_phys(m, root, v) ==
  Down(m, Down(m, Down(m, Down(m, root, PML4_INDEX(v)), PDPT_INDEX(v)),
               PD_INDEX(v)), PT_INDEX(v))
=============================================================================
