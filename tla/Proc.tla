-------------------------------- MODULE Proc --------------------------------
(***************************************************************************)
(* Processes and their memory: load_raw, elf_load and sys_exec of elf.c,   *)
(* fork of proc.c, the copies between kernel and user memory of syscalls.c *)
(* and the system calls that make them, on the page tables of vmm.c.       *)
(*                                                                         *)
(* Each call runs masked on the only CPU (KernelMasked) for the process of *)
(* the thread that makes it (UserContext) and is one step.  A process_t    *)
(* stands for its pid.  Whether kmalloc has memory for a thread is left    *)
(* open; the pages by which it grows the heap are steps of their own,      *)
(* since the heap's state is not part of this module (module Heap).        *)
(***************************************************************************)
EXTENDS Vmm, Folds

CONSTANTS
  PAGE_SIZE,         \* bytes of a page (4096)
  USER_CODE_VADDR,   \* page numbers
  USER_STACK_VADDR,
  HEAP_START_VIRT,
  Procs,             \* processes there may be
  Images,            \* embedded_binaries: sequences of bytes
  ExecSizes,         \* sizes passed to SYS_exec
  UserAddrs,         \* byte addresses passed to the system calls
  Char,              \* the byte that SYS_read delivers
  Frames,            \* the frames of the pmm, a stack
  OldTables,         \* what a frame may hold at boot, read as a table
  OldByte,           \* ... and as bytes
  Memories,          \* bound: numbers of frames the machine may have
  MaxHeapPages       \* bound: pages of the kernel heap

Addresses == 0..(ENTRIES^4 - 1)

ASSUME ProcAssumption ==
  /\ PAGE_SIZE \in Nat \ {0}
  /\ {USER_CODE_VADDR, USER_STACK_VADDR, HEAP_START_VIRT} \subseteq Addresses
  /\ Images \subseteq Seq(Nat) /\ ExecSizes \subseteq Nat /\ {Char, OldByte} \subseteq Nat
  /\ OldTables \subseteq [Index -> [addr : {0} \cup ToSet(Frames), user : BOOLEAN]]
  /\ Frames \in Seq(Nat \ {0}) /\ Memories \subseteq 1..Len(Frames)
  /\ HEAP_START_VIRT + MaxHeapPages <= ENTRIES^4

VARIABLES
  mem,         \* the frames read as tables
  data,        \* the frames read as bytes
  free_stack,  \* the free frames
  pml4_phys,   \* process_t.pml4_phys; 0: no such process
  cr3,         \* thread_t.cr3 of the thread that runs for the process
  heap_pages,  \* pages mapped by the kernel heap
  origin,      \* history: the parent of a process, or the bytes it was loaded from
  stale        \* history: <<PML4, slot>> that sys_fork left as it found the frame

procVars == <<mem, data, free_stack, pml4_phys, cr3, heap_pages, origin, stale>>

Offsets == 0..(PAGE_SIZE - 1)
Memory == [mem |-> mem, data |-> data, free |-> free_stack, ok |-> TRUE]
kernel_cr3 == Frames[1]
NoOrigin == [kind |-> "none"]

SetMemory(m) ==
  /\ mem' = m.mem
  /\ data' = m.data
  /\ free_stack' = m.free

-----------------------------------------------------------------------------

\* pmm_alloc_page has returned 0.
PageFailed(m) == [m EXCEPT !.ok = FALSE]

\* A page of the program or its stack: allocated, then mapped.
UserPage(m, root, v) ==
  IF ~m.ok THEN m
  ELSE IF m.free = <<>> THEN PageFailed(m)
  ELSE vmm_map_user(Alloc(m), root, v, Last(m.free), TRUE)

\* Page n of an image, the rest of its last page cleared.
PageOf(image, n) ==
  [o \in Offsets |-> IF n * PAGE_SIZE + o < Len(image) THEN image[n * PAGE_SIZE + o + 1] ELSE 0]

\* Page n of the code, filled by way of the direct map.
CodePage(m, root, image, n) ==
  LET mapped == UserPage(m, root, USER_CODE_VADDR + n)
  IN  IF mapped.ok /\ m.free # <<>>
      THEN [mapped EXCEPT !.data[Last(m.free)] = PageOf(image, n)]
      ELSE mapped

\* Mutant: the last slot of the PML4 is left out.
UserPml4_OffByOne ==
  [i \in Index |-> IF i >= HALF /\ i < ENTRIES - 1 THEN mem[kernel_cr3][i] ELSE NotPresent]

\* The PML4 of a new program: the kernel half copied, the user half empty.
UserPml4 == [i \in Index |-> IF i >= HALF THEN mem[kernel_cr3][i] ELSE NotPresent]

\* Mutant: the stack is forgotten.
StackPage_Unmapped(m, root) == m

StackPage(m, root) == UserPage(m, root, USER_STACK_VADDR)

\* load_raw up to thread_create_user.  The stack page is not cleared.  On
\* failure (~ok) nothing that was allocated is given back.
load_raw(image) ==
  LET root  == Last(free_stack)
      start == [Alloc(Memory) EXCEPT !.mem[root] = UserPml4]
      pages == (Len(image) + PAGE_SIZE - 1) \div PAGE_SIZE
      code  == FoldLeft(LAMBDA m, n : CodePage(m, root, image, n - 1),
                        start, [n \in 1..pages |-> n])
  IN  IF free_stack = <<>> THEN PageFailed(Memory)
      ELSE StackPage(code, root)

\* elf_load: the process is kept only if all of it could be made.
elf_load(p, image, thread_ok) ==
  LET m  == load_raw(image)
      ok == m.ok /\ thread_ok
  IN  /\ pml4_phys[p] = 0
      /\ SetMemory(m)
      /\ pml4_phys' = IF ok THEN [pml4_phys EXCEPT ![p] = Last(free_stack)] ELSE pml4_phys
      /\ cr3' = IF ok THEN [cr3 EXCEPT ![p] = Last(free_stack)] ELSE cr3
      /\ origin' = IF ok THEN [origin EXCEPT ![p] = [kind |-> "image", image |-> image]] ELSE origin
      /\ UNCHANGED <<heap_pages, stale>>

-----------------------------------------------------------------------------

(***************************************************************************)
(* fork_address_space, one level: every present entry of the table src is  *)
(* copied to dst with a frame of its own, a cleared table that is filled   *)
(* in turn or, on level 1, a copy of the page.                             *)
(***************************************************************************)
\* Mutants: the child's entry still points to the parent's table or page; the
\* page is not copied.
LinkTo_Shared(entry, new) == entry
NewFrame_NoCopy(m, old, level) == [Alloc(m) EXCEPT !.mem[Last(m.free)] = ZeroTable]

\* The flags of the entry are kept.
LinkTo(entry, new) == [entry EXCEPT !.addr = new]

NewFrame(m, old, level) ==
  IF level > 1 THEN [Alloc(m) EXCEPT !.mem[Last(m.free)] = ZeroTable]
               ELSE [Alloc(m) EXCEPT !.data[Last(m.free)] = m.data[old]]

RECURSIVE CopyTable(_, _, _, _, _)
CopyTable(m, src, dst, level, slots) ==
  LET CopyEntry(k, i) ==
        LET entry == k.mem[src][i]
            new   == Last(k.free)
            link  == [NewFrame(k, entry.addr, level) EXCEPT !.mem[dst][i] = LinkTo(entry, new)]
        IN  IF ~k.ok \/ entry = NotPresent THEN k
            ELSE IF k.free = <<>> THEN PageFailed(k)
            ELSE IF level = 1 THEN link
            ELSE CopyTable(link, entry.addr, new, level - 1, ENTRIES)
  IN  FoldLeft(LAMBDA k, i : CopyEntry(k, i - 1), m, [i \in 1..slots |-> i])

\* The child's PML4 is the frame root as it was found, with the kernel half of
\* the parent's copied over it, and those slots of the user half that are in use
\* in the parent's.
fork_address_space(m, parent, root) ==
  LET pml4 == [i \in Index |-> IF i >= HALF THEN m.mem[parent][i] ELSE m.mem[root][i]]
  IN  CopyTable([m EXCEPT !.mem[root] = pml4], parent, root, 4, HALF)

\* sys_fork.  When the copy or the thread fails only the PML4 is freed.
sys_fork(p, c, thread_ok) ==
  LET root == Last(free_stack)
      m    == fork_address_space(Alloc(Memory), pml4_phys[p], root)
      ok   == m.ok /\ thread_ok
  IN  /\ pml4_phys[p] # 0
      /\ pml4_phys[c] = 0
      /\ free_stack # <<>>
      /\ SetMemory(IF ok THEN m ELSE [m EXCEPT !.free = Append(@, root)])
      /\ pml4_phys' = IF ok THEN [pml4_phys EXCEPT ![c] = root] ELSE pml4_phys
      /\ cr3' = IF ok THEN [cr3 EXCEPT ![c] = root] ELSE cr3
      /\ origin' = IF ok THEN [origin EXCEPT ![c] = [kind |-> "fork", parent |-> p]] ELSE origin
      /\ stale' = IF ok THEN stale \cup {<<root, i>> : i \in {j \in 0..(HALF - 1) :
                               mem[pml4_phys[p]][j] = NotPresent /\ mem[root][j] # NotPresent}}
                  ELSE stale
      /\ UNCHANGED heap_pages

-----------------------------------------------------------------------------

\* The bytes of one round of copy_to_user and copy_from_user.
Chunk(a, n) == LET left == PAGE_SIZE - (a % PAGE_SIZE) IN IF left > n THEN n ELSE left

\* Mutant: the kernel pointer stays.
Advance_Not(bytes, chunk) == SubSeq(bytes, 1, Len(bytes) - chunk)

Advance(bytes, chunk) == SubSeq(bytes, chunk + 1, Len(bytes))

\* A page that is not mapped ends the copy; what was copied before stays.
RECURSIVE copy_to_user(_, _, _, _)
copy_to_user(m, root, a, bytes) ==
  LET chunk == Chunk(a, Len(bytes))
      off   == a % PAGE_SIZE
      phys  == user_virt_to_phys(m, root, a \div PAGE_SIZE)
      page  == [o \in Offsets |-> IF o \in off..(off + chunk - 1) THEN bytes[o - off + 1]
                                                                  ELSE m.data[phys][o]]
  IN  IF bytes = <<>> THEN m
      ELSE IF phys = 0 THEN [m EXCEPT !.ok = FALSE]
      ELSE copy_to_user([m EXCEPT !.data[phys] = page], root, a + chunk, Advance(bytes, chunk))

\* [ok, bytes]: what arrives in the kernel's buffer.
RECURSIVE copy_from_user(_, _, _, _)
copy_from_user(m, root, a, n) ==
  LET chunk == Chunk(a, n)
      phys  == user_virt_to_phys(m, root, a \div PAGE_SIZE)
      rest  == copy_from_user(m, root, a + chunk, n - chunk)
  IN  IF n = 0 THEN [ok |-> TRUE, bytes |-> <<>>]
      ELSE IF phys = 0 THEN [ok |-> FALSE, bytes |-> <<>>]
      ELSE [rest EXCEPT !.bytes = [i \in 1..chunk |-> m.data[phys][(a % PAGE_SIZE) + i - 1]] \o @]

-----------------------------------------------------------------------------

\* Bound: no call uses an address in a stale slot.  What it would read, or write
\* over, there is whatever the frame leads to.
Known(p, a) == <<pml4_phys[p], PML4_INDEX(a \div PAGE_SIZE)>> \notin stale

\* SYS_read: the character goes to the caller's address.
SYS_read(p, a) ==
  /\ pml4_phys[p] # 0
  /\ Known(p, a)
  /\ SetMemory(copy_to_user(Memory, pml4_phys[p], a, <<Char>>))
  /\ UNCHANGED <<pml4_phys, cr3, heap_pages, origin, stale>>

\* SYS_get_binary, once the name was found and the image fits the size given.
SYS_get_binary(p, a, image) ==
  /\ pml4_phys[p] # 0
  /\ Known(p, a)
  /\ SetMemory(copy_to_user(Memory, pml4_phys[p], a, image))
  /\ UNCHANGED <<pml4_phys, cr3, heap_pages, origin, stale>>

\* SYS_exec and sys_exec: the image is in the caller's memory.  load_raw gives
\* the process its new pml4_phys before the new thread is made; without one the
\* old thread goes on where it was.
SYS_exec(p, a, n, thread_ok) ==
  LET kbuf == copy_from_user(Memory, pml4_phys[p], a, n)
      m    == load_raw(kbuf.bytes)
  IN  /\ pml4_phys[p] # 0
      /\ Known(p, a)
      /\ kbuf.ok
      /\ SetMemory(m)
      /\ pml4_phys' = IF m.ok THEN [pml4_phys EXCEPT ![p] = Last(free_stack)] ELSE pml4_phys
      /\ cr3' = IF m.ok /\ thread_ok THEN [cr3 EXCEPT ![p] = Last(free_stack)] ELSE cr3
      /\ origin' = IF m.ok /\ thread_ok
                   THEN [origin EXCEPT ![p] = [kind |-> "image", image |-> kbuf.bytes]]
                   ELSE origin
      /\ UNCHANGED <<heap_pages, stale>>

\* A page for the kernel heap (heap_init, heap_expand_locked).  When vmm_map
\* fails the heap faults, see module Heap.
heap_expand ==
  /\ free_stack # <<>>
  /\ heap_pages < MaxHeapPages
  /\ SetMemory(vmm_map_user(Alloc(Memory), kernel_cr3, HEAP_START_VIRT + heap_pages,
                            Last(free_stack), FALSE))
  /\ heap_pages' = heap_pages + 1
  /\ UNCHANGED <<pml4_phys, cr3, origin, stale>>

\* The tables of the bootloader: the kernel's PML4 with the direct map of
\* memory, of which one page stands for all, in the first slot of the kernel
\* half.  The first heap page is mapped before any process is made.  The free
\* frames hold what was left in them.
ProcInit ==
  \E n \in Memories, old \in OldTables :
    LET boot == [mem  |-> [f \in ToSet(Frames) |-> IF f = kernel_cr3 THEN ZeroTable ELSE old],
                 data |-> [f \in ToSet(Frames) |-> [o \in Offsets |-> OldByte]],
                 free |-> SubSeq(Frames, 2, n)]
        hhdm == vmm_map_user(boot, kernel_cr3, HALF * ENTRIES^3 + kernel_cr3, kernel_cr3, FALSE)
        heap == vmm_map_user(Alloc(hhdm), kernel_cr3, HEAP_START_VIRT, Last(hhdm.free), FALSE)
    IN  /\ mem = heap.mem
        /\ data = heap.data
        /\ free_stack = heap.free
        /\ pml4_phys = [p \in Procs |-> 0]
        /\ cr3 = [p \in Procs |-> 0]
        /\ heap_pages = 1
        /\ origin = [p \in Procs |-> NoOrigin]
        /\ stale = {}

ProcNext ==
  \/ \E p \in Procs, thread_ok \in BOOLEAN :
       \/ \E image \in Images : elf_load(p, image, thread_ok)
       \/ \E c \in Procs : sys_fork(p, c, thread_ok)
       \/ \E a \in UserAddrs, n \in ExecSizes : SYS_exec(p, a, n, thread_ok)
  \/ \E p \in Procs, a \in UserAddrs :
       \/ SYS_read(p, a)
       \/ \E image \in Images : SYS_get_binary(p, a, image)
  \/ heap_expand

ProcSpec == ProcInit /\ [][ProcNext]_procVars

-----------------------------------------------------------------------------

Live == {p \in Procs : cr3[p] # 0}
Roots == {kernel_cr3} \cup {cr3[p] : p \in Live} \cup {pml4_phys[p] : p \in Live}

\* One level down from tables reached, as <<the indices on the way, table>>.
Entries(tables) ==
  UNION {{<<t[1] * ENTRIES + i, mem[t[2]][i].addr>> : i \in {j \in Index : mem[t[2]][j] # NotPresent}}
           : t \in tables}

\* The pages that an address space maps in some slots of its PML4, as <<page
\* number, frame>>.
Mappings(root, slots) ==
  LET pdpts == {e \in Entries({<<0, root>>}) : e[1] \in slots}
  IN  Entries(Entries(Entries(pdpts)))

\* What is found in the user half of an address space, as <<page number, bytes>>,
\* but for the stale slots.
UserSlots(root) == {i \in 0..(HALF - 1) : <<root, i>> \notin stale}
View(root) == {<<m[1], data[m[2]]>> : m \in Mappings(root, UserSlots(root))}

\* Types of the memory.
ProcTypeOK ==
  /\ mem \in [ToSet(Frames) -> [Index -> [addr : {0} \cup ToSet(Frames), user : BOOLEAN]]]
  /\ data \in [ToSet(Frames) -> [Offsets -> Nat]]
  /\ free_stack \in Seq(ToSet(Frames))
  /\ pml4_phys \in [Procs -> {0} \cup ToSet(Frames)]
  /\ cr3 \in [Procs -> {0} \cup ToSet(Frames)]
  /\ heap_pages \in Nat
  /\ stale \subseteq ToSet(Frames) \X (0..(HALF - 1))

\* The present entries below a root, as <<table, index>>.
Below(tables) ==
  {l \in tables \X Index : mem[l[1]][l[2]] # NotPresent}
Targets(links) == {mem[l[1]][l[2]].addr : l \in links}

\* A frame in use is not free, and no frame serves two purposes: each table and
\* each page is linked from one entry of one table (the kernel half of a PML4
\* is a copy of the kernel's).  Only the stale slots, which proc.c does not clear
\* in the PML4 of a child, may lead anywhere.
FramesDistinct ==
  LET pml4  == {l \in Below(Roots) : (l[2] < HALF \/ l[1] = kernel_cr3) /\ l \notin stale}
      pdpt  == Below(Targets(pml4))
      pd    == Below(Targets(pdpt))
      pt    == Below(Targets(pd))
      links == UNION {pml4, pdpt, pd, pt}
      Target(l) == mem[l[1]][l[2]].addr
  IN  /\ \A k, l \in links : Target(k) = Target(l) /\ k # l => Target(k) = kernel_cr3
      /\ (Targets(links) \cup Roots) \cap ToSet(free_stack) = {}
      /\ Targets(links) \cap Roots \subseteq {kernel_cr3}

\* The tables are well formed after every call of vmm.c, elf.c and proc.c, also
\* those that run out of memory in the middle.
VmmInv == ProcTypeOK /\ FramesDistinct

\* Every address space sees the kernel half as the kernel does, the heap pages
\* mapped after it was made included: load_raw and fork copy the PML4 entries,
\* not what they will point to.  (USER_STACK_VADDR lies in this half: the page
\* that load_raw maps there last is the stack of every process.)
KernelHalfShared ==
  \A r \in Roots : Mappings(r, HALF..(ENTRIES - 1)) = Mappings(kernel_cr3, HALF..(ENTRIES - 1))

\* proc.c, "Deep copy the user address space": sys_fork gives the child what the
\* address space of its parent's process holds, page by page, and no page more
\* in the slots that were not stale.
ForkCopies ==
  [][\A c \in Procs :
       (cr3[c] # cr3'[c] /\ origin'[c].kind = "fork") =>
         LET parent == pml4_phys[origin'[c].parent]
         IN  {m \in View(cr3[c])' : PML4_INDEX(m[1]) \in UserSlots(parent)} = View(parent)]_procVars

\* ... and neither sees what the other writes: no step changes what two
\* processes find in their halves.
UserHalfPrivate ==
  [][LET Changed(p) == cr3'[p] = cr3[p] /\ View(cr3[p])' # View(cr3[p])
     IN  \A p, q \in Live : p # q => ~Changed(p) \/ ~Changed(q)]_procVars

\* A program that elf_load or SYS_exec has started finds its image, zeros to the
\* end of the last page and nothing else in its half, and its stack is a page
\* that was free.  load_raw does not notice a mapping that vmm_map_user could not
\* make for want of a table, but then memory is used up and the next page is not
\* found.  The last mapping, the stack's, uses the tables of the direct map.
LoadedComplete ==
  [][\A p \in Procs :
       (cr3[p] # cr3'[p] /\ origin'[p].kind = "image") =>
         LET image   == origin'[p].image
             Byte(b) == IF b < Len(image) THEN image[b + 1] ELSE 0
         IN  /\ View(cr3[p])' =
                  {<<USER_CODE_VADDR + n, [o \in Offsets |-> Byte(n * PAGE_SIZE + o)]>>
                     : n \in {k \in 0..Len(image) : k * PAGE_SIZE < Len(image)}}
             /\ user_virt_to_phys(Memory, cr3[p], USER_STACK_VADDR)' \in ToSet(free_stack)]_procVars

\* The copies between kernel and user memory against bytes at addresses: all or
\* an error, and after an error only the bytes before the first page that is
\* not mapped have been written.
UserCopyExact ==
  LET code     == USER_CODE_VADDR * PAGE_SIZE
      around   == (code - 1)..(code + 2 * PAGE_SIZE)
      Fresh(n) == [i \in 1..n |-> Char + i]
  IN  \A p \in {q \in Live : Known(q, code)}, a \in (code - 1)..(code + PAGE_SIZE), n \in 0..(PAGE_SIZE + 2) :
        LET root       == pml4_phys[p]
            Phys(b)    == user_virt_to_phys(Memory, root, b \div PAGE_SIZE)
            Byte(m, b) == m.data[Phys(b)][b % PAGE_SIZE]
            complete   == \A b \in a..(a + n - 1) : Phys(b) # 0
            from       == copy_from_user(Memory, root, a, n)
            to         == copy_to_user(Memory, root, a, Fresh(n))
        IN  /\ from.ok = complete /\ to.ok = complete
            /\ complete => from.bytes = [i \in 1..n |-> Byte(Memory, a + i - 1)]
            /\ \A b \in {b \in around : Phys(b) # 0} :
                 Byte(to, b) = IF b \in a..(a + n - 1) /\ \A c \in a..b : Phys(c) # 0
                               THEN Fresh(n)[b - a + 1] ELSE Byte(Memory, b)
=============================================================================
