--------------------------------- MODULE Pmm ---------------------------------
(***************************************************************************)
(* pmm.c: the stack of free page frames, filled by pmm_init from the       *)
(* memory map of the bootloader.  Each call holds pmm_lock on the only CPU,*)
(* and is one step; pmm_init is one step per turn of its loops.            *)
(***************************************************************************)
EXTENDS Integers, Sequences

CONSTANTS
  PAGE_SIZE,
  MAX_FREE_LIST,  \* size of free_stack
  MemMap          \* the bootloader's entries: [base, length, usable]

Entries == 1..Len(MemMap)
Limit(e) == MemMap[e].base + MemMap[e].length

\* What the boot protocol promises of the map: usable entries do not overlap,
\* and address 0 is not usable.
ASSUME MemMapAssumption ==
  /\ PAGE_SIZE \in Nat \ {0}
  /\ MAX_FREE_LIST \in Nat
  /\ MemMap \in Seq([base : Nat, length : Nat, usable : BOOLEAN])
  /\ \A e \in Entries : MemMap[e].usable => MemMap[e].base > 0
  /\ \A e, f \in Entries :
       (MemMap[e].usable /\ MemMap[f].usable /\ e # f) =>
         Limit(e) <= MemMap[f].base \/ Limit(f) <= MemMap[e].base

VARIABLES
  entry,       \* pmm_init's i, counted from 1; past the last: it has returned
  base,        \* pmm_init's base
  free_stack,  \* free_stack[0 .. free_top - 1]
  used         \* history: the pages allocated and not freed

pmmVars == <<entry, base, free_stack, used>>

RoundDown(a) == (a \div PAGE_SIZE) * PAGE_SIZE

\* Mutant: the start of an entry is rounded down.
First_Down(e) == RoundDown(MemMap[e].base)

First(e) == RoundDown(MemMap[e].base + PAGE_SIZE - 1)
End(e) == RoundDown(Limit(e))

PmmInit ==
  /\ entry = 1
  /\ base = IF Len(MemMap) > 0 THEN First(1) ELSE 0
  /\ free_stack = <<>>
  /\ used = {}

-----------------------------------------------------------------------------

\* A turn of the loops finds a page and room for it.
HasPage ==
  /\ MemMap[entry].usable
  /\ base < End(entry)
  /\ Len(free_stack) < MAX_FREE_LIST

pmm_init_page ==
  /\ entry \in Entries
  /\ HasPage
  /\ free_stack' = Append(free_stack, base)
  /\ base' = base + PAGE_SIZE
  /\ UNCHANGED <<entry, used>>

pmm_init_entry ==
  /\ entry \in Entries
  /\ ~HasPage
  /\ entry' = entry + 1
  /\ base' = IF entry + 1 \in Entries THEN First(entry + 1) ELSE 0
  /\ UNCHANGED <<free_stack, used>>

Booted == entry \notin Entries

\* Mutant: free_top is not decremented.
pmm_alloc_page_KeepsTop ==
  /\ Booted
  /\ free_stack # <<>>
  /\ used' = used \cup {free_stack[Len(free_stack)]}
  /\ UNCHANGED <<entry, base, free_stack>>

pmm_alloc_page ==
  /\ Booted
  /\ free_stack # <<>>
  /\ used' = used \cup {free_stack[Len(free_stack)]}
  /\ free_stack' = SubSeq(free_stack, 1, Len(free_stack) - 1)
  /\ UNCHANGED <<entry, base>>

\* Mutant: the last place of free_stack is not used.
pmm_free_page_OffByOne(p) ==
  /\ Booted
  /\ p \in used
  /\ used' = used \ {p}
  /\ free_stack' = IF Len(free_stack) < MAX_FREE_LIST - 1 THEN Append(free_stack, p)
                                                          ELSE free_stack
  /\ UNCHANGED <<entry, base>>

\* Called with pages that pmm_alloc_page returned.  A full stack drops them.
pmm_free_page(p) ==
  /\ Booted
  /\ p \in used
  /\ used' = used \ {p}
  /\ free_stack' = IF Len(free_stack) < MAX_FREE_LIST THEN Append(free_stack, p)
                                                      ELSE free_stack
  /\ UNCHANGED <<entry, base>>

PmmNext ==
  \/ pmm_init_page
  \/ pmm_init_entry
  \/ pmm_alloc_page
  \/ \E p \in used : pmm_free_page(p)

PmmSpec == PmmInit /\ [][PmmNext]_pmmVars

-----------------------------------------------------------------------------

Free == {free_stack[i] : i \in 1..Len(free_stack)}

\* Types; free_stack never grows past its MAX_FREE_LIST places.
PmmTypeOK ==
  /\ entry \in Nat
  /\ base \in Nat
  /\ free_stack \in Seq(Nat) /\ Len(free_stack) <= MAX_FREE_LIST
  /\ used \subseteq Nat

\* A page is in one place: once on the stack, or with one owner.
PageHasOneOwner ==
  /\ \A i, j \in 1..Len(free_stack) : free_stack[i] = free_stack[j] => i = j
  /\ Free \cap used = {}

\* Every page is aligned and lies inside a usable entry, whatever the alignment
\* and length of the entries; none is 0, which means "out of memory".
PagesUsable ==
  \A p \in Free \cup used :
    /\ p # 0
    /\ p % PAGE_SIZE = 0
    /\ \E e \in Entries : /\ MemMap[e].usable
                          /\ MemMap[e].base <= p
                          /\ p + PAGE_SIZE <= Limit(e)

\* After pmm_init no page is lost or made up: in particular free_stack is never
\* full when a page comes back.
PagesConserved ==
  [][Booted => (Free \cup used)' = Free \cup used]_pmmVars
=============================================================================
