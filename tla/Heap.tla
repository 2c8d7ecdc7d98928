-------------------------------- MODULE Heap --------------------------------
(***************************************************************************)
(* The kernel heap of vmm.c: a list of blocks, each a header followed by   *)
(* its bytes, first fit, split on allocation and merged on release.        *)
(*                                                                         *)
(* Addresses count from HEAP_START_VIRT.  The list heap_head, next, ... is *)
(* the sequence blocks.  kmalloc and kfree hold heap_lock from beginning   *)
(* to end on the only CPU, so each is one step; a caller that faults in    *)
(* between leaves the lock held.                                           *)
(***************************************************************************)
EXTENDS Naturals, Sequences, FiniteSetsExt

CONSTANTS
  PAGE_SIZE,
  HDR,                 \* sizeof(heap_block_t)
  ALIGN,               \* 8
  HEAP_INITIAL_PAGES,
  PT_ENTRIES,          \* pages that one page table maps
  Frames,              \* pages the pmm has when the heap is initialised
  Sizes                \* arguments of kmalloc

Tables(page) == IF page = 0 THEN 3 ELSE IF page % PT_ENTRIES = 0 THEN 1 ELSE 0

\* The bootloader leaves memory enough for the initial heap.
BootFrames ==
  HEAP_INITIAL_PAGES + Tables(0)
    + Cardinality({page \in 1..(HEAP_INITIAL_PAGES - 1) : Tables(page) = 1})

ASSUME HeapAssumption ==
  /\ {PAGE_SIZE, HDR, ALIGN, HEAP_INITIAL_PAGES, PT_ENTRIES} \subseteq Nat \ {0}
  /\ HDR % ALIGN = 0 /\ PAGE_SIZE % ALIGN = 0 /\ HDR < PAGE_SIZE
  /\ Sizes \subseteq Nat
  /\ Frames \in Nat /\ Frames >= BootFrames

VARIABLES
  blocks,         \* the list: [addr, size, free]
  heap_end_virt,
  frames,         \* pages left in the pmm
  heap_lock,      \* held for ever by a thread that faulted in kmalloc
  live            \* history: [ptr, size] of what was allocated and not freed

heapVars == <<blocks, heap_end_virt, frames, heap_lock, live>>

\* After heap_init, in the first kmalloc.
HeapInit ==
  /\ heap_end_virt = HEAP_INITIAL_PAGES * PAGE_SIZE
  /\ blocks = <<[addr |-> 0, size |-> heap_end_virt - HDR, free |-> TRUE]>>
  /\ frames = Frames - BootFrames
  /\ heap_lock = FALSE
  /\ live = {}

-----------------------------------------------------------------------------

End(b) == b.addr + HDR + b.size

\* The list with b linked after block i, and without the block after block i.
LinkAfter(bs, i, b) == SubSeq(bs, 1, i) \o <<b>> \o SubSeq(bs, i + 1, Len(bs))
UnlinkAfter(bs, i) == SubSeq(bs, 1, i) \o SubSeq(bs, i + 2, Len(bs))

(***************************************************************************)
(* heap_expand_locked on heap h, with a page left: the page is mapped at   *)
(* the end, with the page tables that needs, and joins the last block if   *)
(* that is free.  Without a page for a table vmm_map maps nothing, and     *)
(* writing the new header faults.                                          *)
(***************************************************************************)
heap_expand_locked(h) ==
  LET need == 1 + Tables(h.end \div PAGE_SIZE)
      last == h.blocks[Len(h.blocks)]
      new  == [addr |-> h.end, size |-> PAGE_SIZE - HDR, free |-> TRUE]
      join == last.free /\ End(last) = h.end
  IN  IF need > h.frames
      THEN [h EXCEPT !.frames = 0, !.fault = TRUE]
      ELSE [h EXCEPT !.frames = @ - need, !.end = @ + PAGE_SIZE,
              !.blocks = IF join
                         THEN [h.blocks EXCEPT ![Len(h.blocks)].size = @ + HDR + new.size]
                         ELSE Append(h.blocks, new)]

\* Mutant: rounds down.
Round_Down(size) == (size \div ALIGN) * ALIGN

Round(size) == ((size + ALIGN - 1) \div ALIGN) * ALIGN

Fits(b, size) == b.free /\ b.size >= size
Fitting(bs, size) == {i \in 1..Len(bs) : Fits(bs[i], size)}

\* The heap when the loop of kmalloc stops expanding it.
Expanded(size) ==
  LET now  == [blocks |-> blocks, end |-> heap_end_virt, frames |-> frames, fault |-> FALSE]
      grown[n \in 0..Frames] ==
        IF n = 0 THEN now
        ELSE LET h == grown[n - 1]
             IN  IF Fitting(h.blocks, size) # {} \/ h.frames = 0 \/ h.fault
                 THEN h ELSE heap_expand_locked(h)
  IN  grown[Frames]

\* Block i of bs is taken; what is left over becomes a block if it can hold a
\* header and 8 bytes.
Take(bs, i, size) ==
  LET b    == bs[i]
      rest == [addr |-> b.addr + HDR + size, size |-> b.size - size - HDR, free |-> TRUE]
  IN  IF b.size >= size + HDR + ALIGN
      THEN LinkAfter([bs EXCEPT ![i] = [@ EXCEPT !.size = size, !.free = FALSE]], i, rest)
      ELSE [bs EXCEPT ![i].free = FALSE]

kmalloc(request) ==
  LET size == Round(request)
      h    == Expanded(size)
      fit  == Fitting(h.blocks, size)
      i    == Min(fit)
  IN  /\ ~heap_lock
      /\ heap_lock' = h.fault
      /\ frames' = h.frames
      /\ heap_end_virt' = h.end
      /\ IF fit # {} /\ ~h.fault
         THEN /\ blocks' = Take(h.blocks, i, size)
              /\ live' = live \cup {[ptr |-> h.blocks[i].addr + HDR, size |-> request]}
         ELSE blocks' = h.blocks /\ UNCHANGED live

\* Mutant: the header of the second block is lost.
Merge_LosesHeader(bs, i) ==
  UnlinkAfter([bs EXCEPT ![i].size = @ + bs[i + 1].size], i)

\* Block i of bs and the one after it become one.
Merge(bs, i) ==
  UnlinkAfter([bs EXCEPT ![i].size = @ + HDR + bs[i + 1].size], i)

\* Block i of bs is released, and merged with the free blocks next to it.
Release(bs, i) ==
  LET freed == [bs EXCEPT ![i].free = TRUE]
      next  == IF i < Len(freed) /\ freed[i + 1].free THEN Merge(freed, i) ELSE freed
      prev  == i > 1 /\ next[i - 1].free /\ End(next[i - 1]) = next[i].addr
  IN  IF prev THEN Merge(next, i - 1) ELSE next

kfree(ptr) ==
  /\ ~heap_lock
  /\ \E i \in 1..Len(blocks) :
       blocks[i].addr + HDR = ptr /\ blocks' = Release(blocks, i)
  /\ live' = {m \in live : m.ptr # ptr}
  /\ UNCHANGED <<heap_end_virt, frames, heap_lock>>

\* A page taken from the pmm for something else (elf.c, proc.c).
pmm_alloc_page ==
  /\ frames > 0
  /\ frames' = frames - 1
  /\ UNCHANGED <<blocks, heap_end_virt, heap_lock, live>>

HeapNext ==
  \/ \E size \in Sizes : kmalloc(size)
  \/ \E m \in live : kfree(m.ptr)
  \/ pmm_alloc_page

HeapSpec == HeapInit /\ [][HeapNext]_heapVars

-----------------------------------------------------------------------------

Blocks == [addr : Nat, size : Nat, free : BOOLEAN]

\* The types of the heap's state; sizes never become negative.
HeapTypeOK ==
  /\ blocks \in Seq(Blocks)
  /\ heap_end_virt \in Nat
  /\ frames \in Nat
  /\ heap_lock \in BOOLEAN
  /\ live \subseteq [ptr : Nat, size : Nat]

\* The blocks cover the heap without gap or overlap, from its start to
\* heap_end_virt: kfree merges a block with its successor in the list without
\* looking at the addresses.
Tiled ==
  /\ blocks # <<>>
  /\ blocks[1].addr = 0
  /\ \A i \in 1..(Len(blocks) - 1) : End(blocks[i]) = blocks[i + 1].addr
  /\ End(blocks[Len(blocks)]) = heap_end_virt

\* No two neighbours are free: kfree and heap_expand_locked each look one
\* block ahead or behind, never further.
Coalesced == \A i \in 1..(Len(blocks) - 1) : ~(blocks[i].free /\ blocks[i + 1].free)

\* The list of blocks is the heap: tiled and coalesced after every kmalloc and
\* kfree, also when the heap grows or memory runs out.
HeapInv == HeapTypeOK /\ Tiled /\ Coalesced

\* The blocks in use are exactly those the callers hold, each aligned and as
\* large as was asked for.
InUseIsLive ==
  LET used == {blocks[i] : i \in {j \in 1..Len(blocks) : ~blocks[j].free}}
  IN  /\ Cardinality(used) = Cardinality(live)
      /\ \A m \in live : \E b \in used :
           b.addr + HDR = m.ptr /\ b.size >= m.size /\ m.ptr % ALIGN = 0
=============================================================================
