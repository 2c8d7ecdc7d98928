# TLA+ specifications of the Orchid kernel

Orchid is a microkernel for x86_64 with one CPU. These modules model its parts,
the TLC configurations check them on small instances, and TLAPS proves the most
important results for every value of the constants. Source paths below are
relative to `src/src/kernel/` of this checkout.

The sources do not build as they stand (`#if 0 {` in `main.c:178` has no end, and
with it the loading of `init` is left out); the models take `_start` as it reads
without that line.

## The system and its parts

| Part | Sources | Modules |
|---|---|---|
| Scheduler: ready queue, threads, context switch | `scheduler.c`, `switch.s` | `ReadyQueue`, `ReadyList`, `Scheduler` |
| Interrupts: gates, 8259, dispatch | `idt.c`, `isr.s`, `isr_handler.c`, `pit.c` | `Scheduler`, `Syscall`, `Irq` |
| System calls: entry, handler, entry to ring 3 | `syscall_entry.S`, `syscalls.c`, `userspace_entry.S` | `Syscall` on `Scheduler`; the effects of the calls in `Timer`, `Irq`, `Proc`, `Output` |
| Timer and sleep | `timer.c`, `syscalls.c` | `Timer` |
| IPC ports | `ipc.c` | `Ipc` |
| IRQ forwarding, keyboard | `irq.c`, `kbd_buf.c` | `Irq`, `KbdBuf`, `CharQueue` |
| Service bus | `bus.c` | `Bus` |
| Boot and demo threads | `main.c` | `_start` in `Scheduler` and `Output`; the threads in `Echo` |
| Page frames | `pmm.c` | `Pmm` |
| Page tables | `vmm.c` | `Vmm` |
| Programs, processes, fork, user copies | `elf.c`, `proc.c`, `syscalls.c` | `Proc` |
| Kernel heap | `vmm.c` | `Heap` |
| Console | `console.c` | `Console`, `Terminal`, `Printf` |
| Serial port | `serial.c` | `Serial`, `Printf` |
| Spin locks, TSS, GDT | `sync.h`, `tss.c`, `gdt.c` | part of `Scheduler` and `Syscall` |
| User programs | `../user/` | not modelled: any sequence of system calls |

How they interact: interrupts and system calls enter the kernel with interrupts
masked and call the scheduler; the timer, IPC and the IRQ table block and unblock
threads through it. The heap takes pages from the page frame allocator and maps
them with the page tables; the timer and IPC allocate their list nodes from the
heap. The bus gives out the port numbers that IPC uses. `SYS_write` and the boot
messages go to the console and the serial port.

## The modules

Layers: `ReadyQueue` is extended by `Scheduler`, `Scheduler` by `Timer`, `Syscall` and
`Ipc`. `Irq` composes `Ipc` and `KbdBuf`, `Echo` composes `Ipc` and `Bus`. `Proc` extends
`Vmm`. `Output` composes `Serial`, `Console` and `Printf`. `Pmm` and `Heap` stand alone.
The `MC...` modules add symmetry sets and constants for TLC. A definition has the
name of the function it models where there is one. An operator described as a
*mutant* in its comment is a deliberately wrong variant of the definition that
follows it; no specification uses it, and the property it is meant for fails if it
is put in place of that definition.

**ReadyQueue** is the abstract scheduler: the state of each thread, the ready queue
as a sequence and the current thread, with one action per function of
`scheduler.c`. New threads go to the *head* of the queue (`scheduler_add_thread`),
woken ones and the thread that loses the CPU to the tail. `elf_load` and `sys_exec`
(`elf.c:84`, `elf.c:94`) add a thread that `thread_create_user` has already added: it
becomes its own `next`, and every thread behind it is lost from the list. `cycle`
says whether this has happened (`AddedOnce`: it has not) and whether the last thread
of the queue still is its own `next`. A walk to the tail of such a list does not end,
with `sched_lock` held and interrupts masked: no operation that begins one is a step.

**ReadyList** is the same on the data structure of the code: a head pointer and a
`next` pointer in each thread, walked to the end to append; an endless walk sets
`spinning`. `ListSpec` adds each thread once, `ElfSpec` has `elf_load` and `sys_exec` as
well. Both implement `ReadyQueue` (`ImplementsQueue`).

**Scheduler** puts the queue on a CPU: where each thread's control is (`at`), the
interrupt flag, the in-service bit of IRQ 0 in the 8259, and the registers that
`schedule()` loads. An action runs from one control point to the next; since
`schedule()` switches stacks in the middle of an interrupt or system call, what
follows the switch (the EOI and `iretq`, or `sysretq`) is an action of the thread
that is switched to. The constant `Repaired` chooses between the stack frame that
`thread_create_user` builds, which `iretq` cannot use, and the frame it reads. The
theorems hold for both; the runs other than `user_start` use the second, since
with the first no user thread does anything. `load_program` is the `elf_load` of
`_start` and `Exec` is `sys_exec`, each with its second `scheduler_add_thread`; with
`Repaired`, `_start` may also add a user thread once, so that what the queue does
without the second add is reached too. A thread that `thread_exit` returns to, which
the cycle makes possible, is `dead`: the compiler holds that code unreachable, and the
models give it no step.

**Syscall** adds what the system calls share: the globals `syscall_retval` and
`saved_user_rip`, the selectors that `syscall`, `sysretq`, interrupts and `iretq` load
from `STAR` and the GDT, page faults, and one action for each way a call goes
through `syscall_handler`: results assigned at once, results assigned after a
switch, `fork`, `exec`, `exit`, and the `syscall` instruction that `kbd_buf_get` executes
in ring 0. Entry, handler and return are separate steps.

The modules above `Scheduler` other than `Syscall` (`Timer`, `Ipc`, `Irq`, `Echo`) add every
thread once. Their own threads come from `thread_create`; what the second add of
`elf.c` does to all threads behind the new one is the subject of the four modules
above. In particular the `elf_load` of `init` in `_start` comes after the threads of
`main.c` have been created and takes them out of the queue: `Echo` is what these
threads do without it.

**Timer** adds `ticks`, `timer_queue` and the sleep system calls. Arithmetic is
modulo `WORD`, which stands for 2^64. `promised` is a history variable: the tick
before which the last sleep of a thread must not end.

**Ipc** adds the wait lists of the ports and the receive buffers. A message is the
identity of the `ipc_send` it belongs to and its length; `delivered` and `dropped`
are history variables. Only kernel threads call it: there is no IPC system call.

**Irq** adds the IRQ table, forwarding from interrupt context, the keyboard interrupt
and `SYS_read`. **KbdBuf** is the ring buffer, **CharQueue** what it promises.

**Echo** is `echo_service`, `echo_client`, `thread_a` and `thread_b` of `main.c`, started in
any order, with any of several names, on **Bus**, the table of names. Each kernel
thread has the next call of its code in `pc` and its port in `handle`. It is a closed
system: bus, IPC, scheduler, timer interrupts and failing `kmalloc` together.

**Pmm** is `pmm_init`, one turn of its loops per step, and allocation and release
of pages. **Heap** is `kmalloc` and `kfree` on a list of blocks with real sizes and
addresses (scaled down). **Vmm** is the four-level page tables: the walks and the
mappings as operators on the contents of frames. **Proc** is what uses them:
`elf_load` and `load_raw`, `sys_exec`, `sys_fork` with `fork_address_space`, the copies
between kernel and user memory and the calls that make them, and the growth of the
heap. It models the bytes of pages, the frames left behind when memory runs out,
and that `pmm_alloc_page` hands out frames with whatever they held. At boot that is
one of `OldTables`, and later what the last user of the frame left, read as a table
or as bytes (a page of bytes that is taken for a table keeps its boot contents as a
table: the bytes of a program are not read as entries). It matters for the PML4 of
a child: `sys_fork` (`proc.c:131`) fills the slots that the parent uses and does not
clear the others. `stale` is the history of the slots left so. What is mapped below
them is by chance, and a call that would copy to or from there (`Known`) is not
explored further.

**Console** draws characters into a framebuffer of pixels: cursor, wrapping,
scrolling, control characters; **Terminal** is what that promises, a screen of
characters. **Serial** is `serial_init` and `serial_putc` with the UART. **Printf** is
the conversions that both printf functions make. **Output** drives them: `_start`
initialises and writes, `SYS_write` writes each character to both.

## The runs

| Run | What it shows |
|---|---|
| `syscall` | Whatever the order of calls, faults, forks and ticks: until a thread is added twice, the queue links every ready worker once and control points agree with thread states (`SchedulerConsistent`). With the second add and after it too: kernel code is never interrupted and the idle thread owes the EOI while another runs (`InterruptDiscipline`), so that a worker is never preempted (`SwitchIsVoluntary`); ring 3 runs in its own context (`UserContext`). The globals a call reads are its own (`OwnCall`), and the `iretq` of a timer interrupt meets no selector it cannot load (`IretSafe`); nobody overtakes (`NoOvertaking`). Until the second add, exits are final (`ExitIsFinal`) and every ready thread runs if none keeps the CPU (`ReadyRuns`). |
| `preemptive` | Violation: "Preemptive round-robin scheduler" (`README.md:20`). `schedule()` comes before the EOI in `isr_handler.c:32-36`, so ticks reach only the idle thread. |
| `user_start` | Violation: "Basic user-mode thread" (`README.md:33`). The five words of `scheduler.c:87-88` are in the reverse of the order `iretq` reads. |
| `ready_list` | On `ElfSpec`: the pointer list implements the queue, also what the second add loses and where the CPU hangs (`ImplementsQueue`); until then no walk is endless (`ListInv`). |
| `elf_double_add` | Violation: `__builtin_unreachable()` at `scheduler.c:109`. A thread added twice is a cycle, and is switched to after it has exited. |
| `timer` | The queue of sleepers is sorted, holds exactly the blocked threads and nobody whose tick has passed (`TimerInv`); no sleep is too short unless its arithmetic wrapped (`SleptEnough`); every sleeper wakes if the idle thread runs again and again. |
| `irq` | With messages from threads and from interrupt context: a thread is blocked exactly while one node holds it, and no sender and receiver wait for each other (`IrqInv`); every message waits, was delivered once, or was dropped for lack of memory (`ExactlyOnce`); a call that returned has exchanged its message (`Synchronous`); the keyboard buffer is a bounded FIFO (`ImplementsFifo`). |
| `echo` | A name that fits resolves to its first service, ports stay with their names; the threads use IPC on ports that exist (`UsesIpc`); a client alone on its port gets its own words back from the service of its name (`EchoAnswered`); every client ends, unless `kmalloc` fails (`ClientsFinish`). |
| `heap` | Blocks tile the heap and no two free ones are neighbours (`HeapInv`); the used ones are what the callers hold (`InUseIsLive`). |
| `pmm` | A page has one owner, lies inside usable memory, and is not lost. |
| `proc` | Whatever the frames held before: no frame serves two purposes, also when memory runs out in the middle (`VmmInv`, but for stale slots); all address spaces see the kernel half alike (`KernelHalfShared`). Fork copies what the parent has mapped in the slots it uses (`ForkCopies`). What a process writes in its private half shows in no other process (`UserHalfPrivate`); the stack page is in the shared half and is not covered. A program that starts has its image, the cleared rest of its last page and nothing else in its half, and a stack page that was free before (`LoadedComplete`). User copies transfer all or report an error (`UserCopyExact`). |
| `output` | The pixels are those of a terminal, on every framebuffer and on none (`ShowsTerminal`); the serial line carries every character once, in order (`SerialExact`); numbers read back as themselves (`NumbersReadable`); every write returns (`WriteReturns`). |

`timer` also checks `UsesScheduler`, that is `SchedSpec`, and `echo` checks `UsesIpc`, that
is `IpcSpec`: what these components do to the layer below is what that layer's module
allows, and what is proved of the layer holds of them.

Several properties rest on a window that no other step can enter: the block after
the insertion into a wait list, or the use of `syscall_retval` after a switch. In the
models the code up to the switch is one step because interrupts are masked there;
that they are is `InterruptDiscipline`, checked and proved, not assumed.

### Bounds

- Threads: two kernel and two user threads in `syscall` and `ready_list` (three user
  threads in `preemptive`, where only those matter). Two of a kind give the orders
  of wake-up, yield and exit; the queue can be empty, hold one or several threads.
- Timer: `WORD` is 16, `HZ` 2 and a tick 4 ns, so that requests of zero ticks,
  requests that round up and requests that wrap in the multiplication, in the
  rounding and in the addition all occur. No thread asks to be woken after
  `MaxTicks` = 5; three sleepers share deadlines and come in any order.
- Irq: three kernel threads on one port (and one port number out of range), so that
  two can wait while a third, or an interrupt, comes; one user thread that reads
  the keyboard. Each thread sends once, with a length above `IPC_MSG_MAX`. The buffer
  has three places and two characters come: it can be full, empty and wrap.
- Echo: three services and two clients on two ports, a table of two entries (the
  third registration is refused), names `a`, `ab` and `abc` with fields of three
  characters (the third does not fit), and one `kmalloc` that fails.
- Heap: pages of 12 bytes, headers of 4, three pages per page table: allocation of
  zero bytes, with splitting, without, and over several pages; the seven frames
  run out both before a page and before a table.
- Pmm: a map with unaligned, tiny and unusable entries and fewer places than pages.
- Proc: tables of four entries, two of a PML4 for each half, so that a parent leaves
  a slot of its half unused and two kernel slots (direct map and heap) are shared;
  pages of two bytes, a program of three bytes that crosses from one page table to
  the next; three processes, so that a child with a stale slot forks. The machine
  has 13, 16, 19 or 24 frames: memory runs out in the program's pages, in a fork, or
  not at all. The frames are clear at boot, or each holds an entry in the slot that
  programs use or in the one they do not, leading to the frame handed out last.
- Output: glyphs of 2x2 pixels; framebuffers with pixels to spare at the right, at
  the bottom and in the pitch, with one line, and none; integers of 11 bits.

Symmetry is used for threads of a kind, processes and characters, and only in runs
without liveness properties.

Deadlock is not checked in `heap` (a faulting caller leaves the lock held), `proc`
(with memory used up no call changes anything), `user_start` (the endless fault
is modelled as no step), and `syscall`, `preemptive` and `ready_list` (an endless walk,
and an exited thread that is switched to, are no step).

### Fairness

`CpuRuns`, and the first conjuncts of `Fairness` in `Syscall` and of `EchoSpec`: the CPU
goes on executing (weak fairness of what a thread switched to does next, in
`Syscall` with the result that a call assigns after the switch), and the
PIT ticks for ever with the 8259 latching the request (strong fairness of the timer
interrupt: it is delivered if it can be again and again). In `Echo` the threads'
own code is known, so that their steps are part of what the CPU executes.

`ThreadsCooperate`, and the last conjunct of `Fairness`, only for `ReadyRuns`, is an
assumption about programs, not about the kernel: each thread yields, blocks or
exits in the end. The run `preemptive` is the same property without it.
`SleepersWakeIfIdle` assumes that the idle thread gets the CPU again and again;
threads that yield to each other can prevent it.

`OutSpec`: the loops of the output run on, and the UART sends what it was given; a
UART that never does would hang `serial_putc`, which spins without a limit.

## The proofs

Those about threads hold for any sets of them, from the assumptions that the sets
are finite and disjoint, that the idle thread is none of the workers and that the
name of the kernel's address space is not a thread.

**ListFacts** has what the others share. A loop of the code that is a recursive
function of its model, or `SelectSeq`, is reasoned about by induction: a set of
numbers that has 0 and with each number the next is all of them (`Induction`), which
follows from the natural numbers being well founded. From it come that a function
defined turn by turn exists (`LoopExists`), what filtering a list selects
(`FilterPicks`), where a walk stops (`StopExists`), and what inserting and removing do
to a list (`InsertShape`, `RemoveShape`). Quotients, remainders and multiples are
treated once, for the rounding of the timer and the alignment of the heap.

**SchedulerProofs**, for both values of `Repaired`: the invariants `SchedTypeOK`,
`KernelMasked`, `IdleOwesEOI` and `UserContext` (`TypeCorrect`, `KernelNeverInterrupted`,
`EOIOutstanding`, `UserContextLoaded`) and the action properties `SwitchIsVoluntary` and
`NoOvertaking` (`NeverPreempted`, `NobodyOvertakes`) in every behaviour; `QueueExact` and
`ExitIsFinal` as long as no thread was added twice (`QueueCorrect`, `ExitFinal`).

There are therefore two inductive invariants, joined in `SchedInv`. While `AddedOnce`
holds, `QueueExact` is inductive together with the types and with `OneRunning` (`RQInv`),
since `schedule()` puts a thread back only if it is RUNNING, and a thread that is
RUNNING must not be linked already; `CpuInv` adds that places fit states. In all
behaviours, `QueueSound` is what is left of `QueueExact` once `elf.c` has added a thread
twice: nobody is linked twice, and who is linked is READY or has exited, except the
last thread of a cyclic list. `MachineInv` adds the CPU to it. There `KernelMasked`
is not inductive: that a thread resumed from an interrupt returns to the `hlt` loop,
and not to kernel code, needs `IdleOwesEOI`, and that needs to know where each kind
of thread can be (`KindFitsPlace`). Since in-service is set whenever a worker
runs, the timer interrupt is not enabled, and `NeverPreempted` follows. For
`NobodyOvertakes`, `schedule()` takes from the head and adds at the tail, and a list
that only loses its head and grows at its end keeps its order (`OrderKept`); that the
thread it adds was not waiting is `QueueSound`.

**SyscallTimerProofs**, on `Syscall`, with `exec` and its second add: the invariants
`SchedulerConsistent`, `InterruptDiscipline`, `OwnCall` and `IretSafe` of the run `syscall`.
Each step is one of the scheduler or leaves it alone (`SyscallStepIsSchedStep`), which
brings `SchedInv`. Besides it, `SysInv` says that a
result is pending only while its thread is in the kernel, and that the idle thread is
interrupted with the CS of `gdt_init`. That only the idle thread is in an interrupt
(`KindFitsPlace`) is what makes the exchanged halves of `STAR` harmless.

On `Timer`, for any tick rate, width of the counters and requests: the queue of
sleepers is right (`TimerQueueCorrect`), no sleep is too short
(`SleepsLongEnough`), and `TimerSpec` implies `SchedSpec` (`TimerUsesScheduler`). The
inductive invariant `TimerIInv` adds to `CpuInv` that every promise is either past or
has an entry of the queue with a deadline at or after it. `sleep_until` keeps the
queue sorted because it stops at the first later deadline (`SleepInserts`);
`timer_tick` takes a prefix of the queue, and what it leaves is still sorted
(`SelectKeeps`); the rounding up of `do_nanosleep` never falls short (`RoundsUp`).

**IpcProofs**, for any ports, lengths and numbers of sends: the wait lists are exact
(`WaitListsExact`), `ExactlyOnce` (`DeliveredOnce`) and `Synchronous`
(`CallsSynchronous`). `ExactlyOnce` needs
that a message in a list is the last its thread has sent (`LastSent`), and
`Synchronous` that an unwritten buffer belongs to a waiting receiver
(`UnwrittenWaits`); `IpcIInv` collects these with `CpuInv` and `IpcInv`.

**IrqProofs**: the same invariant is kept by messages from interrupt context
(`WaitListsSurviveIrqs`, `IrqsKeepMessages`), and for every buffer
size the ring buffer of `kbd_buf.c` implements the bounded FIFO (`KeyboardIsFifo`): the
mapped queue is the characters from `tail` on, and the lemmas say what `put` and `get`
do to it as the indices run around the end.

**EchoProofs**, for any services, clients, names and sizes of the table with no more
services than ports: `EchoSpec` implies `IpcSpec` (`EchoUsesIpc`), names resolve
(`NamesResolve`) and keep their ports (`NamesKeepPorts`). The invariant says that entry
`i` of the table has port `i` and the name of the `i`-th registration as far as it fits
(`BusOK`), and that a thread about to send or receive holds a port that exists
(`PcOK`). Lookups return the least index, which exists because the natural numbers
are well founded; a table that grows only at its end keeps it.

**ReadyListPmmProofs**, on `ReadyList`, for any finite set of threads: until a thread is
added twice every walk along the `next` pointers ends, and the pointers are threads
or NULL ever after (`WalksTerminate`, for `ListInv` of `ElfSpec`); and where each thread is
added once the list implements the queue (`ListImplementsQueue`, for `ImplementsQueue` of
`ListSpec`). That the list itself has no cycle is
not enough: a thread that was taken off keeps its old `next` pointer, into the list as
it then was, and `scheduler_add_thread` links a thread without looking at it.
`OnceInv` therefore speaks of all pointers: there is a rank of the threads that falls
along every pointer (`Acyclic`), only threads that have been created are pointed to,
and from the head the threads met are exactly the READY workers, each once (`Chain`).
Adding at the head, clearing a pointer, appending at the tail and taking the head
each keep this (`PushGood`, `CutGood`, `AppendGood`, `PopGood`), and along falling ranks a
walk of more steps than there are threads is impossible (`AcyclicTerminates`). After a
second add only the types are left (`ListIInv`), as the run `elf_double_add` shows: a
thread added twice points to itself.

On `Pmm`, for every page size, size of `free_stack` and memory map whose usable
entries do not overlap and do not contain address 0 (what the boot protocol
promises): `PmmTypeCorrect`, `OneOwner`, `OnlyUsablePages`, `NoPageLost`. The
invariant adds how far the scan of `pmm_init` has come, so that the page it comes to
is on no list yet (`ScanInv`), and that pages in use and on the stack together fit
the stack (`RoomInv`), which is why `pmm_free_page` never drops one.

**HeapProofs**, for any page and header size that the alignment divides, any
requests and any amount of memory that suffices for `heap_init`: `HeapInv`
(`HeapCorrect`) and `InUseIsLive` (`AllocationsHeld`). `HeapIInv` says that the blocks
are a tiling of the heap by aligned blocks, that no two free ones are neighbours, and
that the used blocks and the allocations correspond one to one (`Held`). That the
blocks tile the heap gives each its own address (`OwnAddress`), without which `kfree`
could release a block that another caller holds. Linking and unlinking keep the
tiling (`LinkTiled`, `UnlinkTiled`); one look ahead and one behind suffice to merge,
because no two free blocks were neighbours before (`ReleaseOK`); and the loop of
`kmalloc` keeps all of it in each turn (`GrownOK`), until a block fits or memory is
used up.

Model-checked only:

- liveness (`ReadyRuns`, `SleepersWakeIfIdle`, `ClientsFinish`, `WriteReturns`): fairness is
  out of reach of the prover;
- `ImplementsQueue` for `ElfSpec`, that is, that what the second add loses on the list is
  what `ReadyQueue` says: it needs the shape of every cyclic list, which is not worked
  out;
- `EchoAnswered`, which needs an invariant over all exchanges of a port that is not
  worked out;
- `Vmm`, `Proc`, `Console`, `Serial` and `Printf`: their loops are recursive functions over
  tables, pixels and digits, with folds of the library for which there are no proved
  facts.

## Findings

The violation runs `preemptive`, `user_start` and `elf_double_add` each contradict a
line of the documentation or code, quoted in the table above.

## Read from the code, not stated as properties

The models contain these, and no property is about them:

- A lone thread that yields hands the CPU to the idle thread until the next tick:
  `schedule()` takes the next thread before it puts the current one back.
- The keyboard branch of `isr_handler` returns before `irq_handler` (`isr_handler.c:50`):
  IRQ 1 is not forwarded to a driver, although `README.md:28` has "IRQ1 → IPC
  forwarding".
- `kbd_buf_get` on an empty buffer executes `syscall` in ring 0; `sysretq` then
  returns to kernel code in ring 3, and the page fault ends the thread. Its entry
  overwrites `saved_user_rip`.
- `idt.c:77-79` writes `STAR` with its halves exchanged: CS is 0 in system calls and
  0x13 in ring 3 after the first.
- `ensure_page_table` links tables without `VMM_USER`; ring 3 cannot reach what is
  mapped below them.
- `USER_STACK_VADDR` has PML4 index 256, the shared half: each `load_raw` replaces
  the stack page of all programs, and fork does not copy it.
- A fork that runs out of memory frees the child's PML4 and no other frame. The
  child's PML4 keeps what its frame held in the slots the parent does not use
  (`proc.c:131`); the properties of `Proc` exempt these slots (`stale`) and say nothing of
  what is found there.
- The last mapping of `load_raw`, the stack's (`elf.c:59`), would not be noticed if it
  failed for want of a table. It uses tables of the direct map, which are there.
- `sys_exec` frees neither the old address space nor, on success, its buffer; it
  returns 0 when the image cannot be loaded.
- Bus names of `NAME_MAX` characters or more are stored truncated and not found.
- The wait lists of IPC are last in, first out. An IRQ without a waiting receiver
  is dropped. Two clients of one port can receive each other's requests.
- `_start` creates the service first and the client last, and new threads go to the
  head: the client runs first, finds no service and exits.
- `%d` of the most negative number prints only the sign. `console_clear` writes two
  pixels at a time and leaves the last of an odd number as it is.

## Not modelled, and why

- The programs under `../user/`, and `kbd_service` and `vfs_service`, which nothing starts:
  a program is any sequence of system calls.
- `pit_init`, `lgdt`, `ltr` and the assembly stubs beyond what they save, restore and
  load: constant data written once to hardware. The I/O bitmap of the TSS:
  `tss_set_io_bitmap` has no caller, so that `SYS_iopl` has no effect.
- `vmm_unmap` and `kernel_panic` have no callers; `process_list` is written and never
  read.
- Several CPUs: the kernel starts one. The spin locks are therefore always free,
  except where a thread faults inside one (`Heap`).
- Exceptions other than page faults are ignored by `isr_handler`, and appear only in
  `iretq` of a new user thread.
- The overflow of the one-page user stack by the buffer of `SYS_write`: stacks have no
  size in the models. System calls run on the user's stack in ring 0 and no gate has
  a stack of its own (IST): below the mapped page the CPU cannot push the frame of
  the page fault either, and resets. `page_fault` of `Syscall` is a fault in ring 3, or
  in a call on a stack that is mapped.
- Large pages: `ensure_page_table` does not look at the PS bit, and `Vmm` has none. It
  would take a large page of the boot loader's direct map for a table; the models
  take the direct map to have 4 KiB pages where `vmm_map` goes.
- Data bytes of messages: they go with the identity of the message.
