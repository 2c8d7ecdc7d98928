------------------------------ MODULE Scheduler ------------------------------
(***************************************************************************)
(* The scheduler on its CPU: where each thread's control is, the interrupt *)
(* flag, the 8259's in-service bit of IRQ 0, and the registers schedule()  *)
(* loads.  Sources: scheduler.c, switch.s, isr.s, isr_handler.c, idt.c,    *)
(* syscall_entry.S, userspace_entry.S and _start of main.c.                *)
(*                                                                         *)
(* An action is the code from one control point to the next: an interrupt  *)
(* runs to the __switch_to it reaches, a system call to its handler and    *)
(* from there to the __switch_to, and what the thread switched to then     *)
(* does (iretq, sysretq, the rest of the timer interrupt) is the step      *)
(* after it.  Interrupt gates (idt.c, 0x8E) and SFMASK clear IF, and       *)
(* __switch_to leaves IF alone.                                            *)
(*                                                                         *)
(* Other components call the scheduler from within their own handlers; the *)
(* threads they wake are the arguments ts and w here, any blocked ones.    *)
(***************************************************************************)
EXTENDS ReadyQueue

CONSTANT
  Repaired  \* FALSE: new user threads get the frame the code builds, which
            \* iretq cannot use (property UserThreadsStart), and _start has
            \* no way but elf_load to make one.  TRUE: they get the frame it
            \* reads, and _start may also add one once, so that what lies
            \* behind these two is checked too

VARIABLES
  at,              \* where each thread's control is, see Places
  intr,            \* RFLAGS.IF of the CPU
  in_service,      \* IRQ 0 delivered and not yet acknowledged (no EOI)
  current_process, \* current_process: a user thread stands for its process
                   \* (after exec, for the new image of it)
  cr3,             \* the address space loaded, likewise; Kspace: kernel_cr3
  rsp0             \* the thread whose kernel_stack is in the TSS

cpuVars == <<at, intr, in_service, current_process, cr3, rsp0>>
vars == <<rqVars, cpuVars>>

Kspace == "kernel"  \* kernel_cr3, and the process NULL of a kernel thread
ASSUME KspaceAssumption == Kspace \notin Threads

process(t) == IF t \in Uthreads THEN t ELSE Kspace

Places ==
  {"unborn",   \* not created
   "boot",     \* in _start, before enable_interrupts
   "hlt",      \* in the hlt loop that ends _start
   "fresh",    \* on the frame built by thread_create or thread_create_user
   "kernel",   \* in kernel code; when not current, in schedule() called by it
   "handler",  \* in a system call that has not called schedule()
   "syscall",  \* in schedule() called by a system call
   "isr",      \* in schedule() called by the timer interrupt
   "user",     \* in ring 3
   "dead"}     \* left by thread_exit; switched to again, it runs into code the
               \* compiler holds unreachable, and no step is known

Here == at[current_thread]

\* _start after scheduler_init: the boot code runs on as the idle thread.
SchedInit ==
  /\ RQInit
  /\ at = [t \in Threads |-> IF t = idle THEN "boot" ELSE "unborn"]
  /\ intr = FALSE
  /\ in_service = FALSE
  /\ current_process = Kspace
  /\ cr3 = Kspace
  /\ rsp0 = Kspace

-----------------------------------------------------------------------------

\* Mutant: the TSS keeps the stack of the thread left behind.
load_context_KeepsRsp0 ==
  /\ cr3' = process(current_thread')
  /\ current_process' = IF cr3' # Kspace THEN cr3' ELSE current_process
  /\ UNCHANGED rsp0

\* The tail of schedule() and __switch_to, for the next thread chosen.
load_context ==
  LET next == current_thread'
  IN  /\ rsp0' = next
      /\ cr3' = process(next)
      /\ current_process' = IF process(next) # Kspace THEN process(next)
                                                      ELSE current_process

\* The thread left behind resumes at place p.
switch_to(p) ==
  /\ at' = [at EXCEPT ![current_thread] = p]
  /\ load_context

\* thread_create, called by _start only.
thread_create(t) ==
  /\ Here = "boot"
  /\ scheduler_add_thread(t)
  /\ at' = [at EXCEPT ![t] = "fresh"]
  /\ UNCHANGED <<intr, in_service, current_process, cr3, rsp0>>

\* thread_create_user, called by the fork system call.
thread_create_user(t) ==
  /\ Here = "handler" \/ (Repaired /\ Here = "boot")
  /\ scheduler_add_thread(t)
  /\ at' = [at EXCEPT ![t] = "fresh"]
  /\ UNCHANGED <<intr, in_service, current_process, cr3, rsp0>>

\* elf_load of the first program, called by _start: thread_create_user, and
\* scheduler_add_thread a second time.
load_program(t) ==
  /\ Here = "boot"
  /\ elf_load(t)
  /\ at' = [at EXCEPT ![t] = "fresh"]
  /\ UNCHANGED <<intr, in_service, current_process, cr3, rsp0>>

\* The end of _start: sti, then hlt for ever.
enable_interrupts ==
  /\ Here = "boot"
  /\ at' = [at EXCEPT ![current_thread] = "hlt"]
  /\ intr' = TRUE
  /\ UNCHANGED <<rqVars, in_service, current_process, cr3, rsp0>>

\* __switch_to returns into the entry point of a new kernel thread; the frame
\* of thread_create holds no RFLAGS, so IF stays as it was.
kernel_entry ==
  /\ Here = "fresh"
  /\ current_thread \in Kthreads
  /\ at' = [at EXCEPT ![current_thread] = "kernel"]
  /\ UNCHANGED <<rqVars, intr, in_service, current_process, cr3, rsp0>>

\* The words above userspace_entry's return address, from the lowest address:
\* as thread_create_user writes them, and as iretq reads them.
UserFrame ==
  IF Repaired THEN <<"user_entry", "0x1B", "0x202", "user_stack", "0x23">>
              ELSE <<"0x23", "user_stack", "0x202", "0x1B", "user_entry">>
IretFrame == [rip |-> 1, cs |-> 2, rflags |-> 3, rsp |-> 4, ss |-> 5]

\* userspace_entry: iretq with RFLAGS 0x202.  Without a code segment in CS it
\* raises a general protection fault, isr_handler ignores vector 13, and the
\* same iretq is executed again, for ever.
userspace_entry ==
  /\ Here = "fresh"
  /\ current_thread \in Uthreads
  /\ UserFrame[IretFrame.cs] = "0x1B"
  /\ at' = [at EXCEPT ![current_thread] = "user"]
  /\ intr' = TRUE
  /\ UNCHANGED <<rqVars, in_service, current_process, cr3, rsp0>>

\* The syscall instruction: SFMASK (syscall_init) clears IF.
syscall_entry ==
  /\ Here = "user"
  /\ at' = [at EXCEPT ![current_thread] = "handler"]
  /\ intr' = FALSE
  /\ UNCHANGED <<rqVars, in_service, current_process, cr3, rsp0>>

\* The end of a system call; sysretq restores RFLAGS from r11.
syscall_return ==
  /\ Here \in {"handler", "syscall"}
  /\ at' = [at EXCEPT ![current_thread] = "user"]
  /\ intr' = TRUE
  /\ UNCHANGED <<rqVars, in_service, current_process, cr3, rsp0>>

-----------------------------------------------------------------------------

\* Leaving the CPU by a call in the kernel or by a fault in ring 3, to resume at
\* place p.
LeaveCpu(p) ==
  /\ intr' = (IF Here = "user" THEN FALSE ELSE intr)
  /\ switch_to(p)
  /\ UNCHANGED in_service

\* SYS_YIELD.  No kernel thread of the kernel calls schedule() itself.
Yield ==
  /\ Here = "handler"
  /\ Reschedule(<<>>)
  /\ LeaveCpu("syscall")

\* thread_block, called in a system call (sleep) or by a kernel thread (IPC).
Block ==
  /\ Here \in {"handler", "kernel"}
  /\ thread_block
  /\ LeaveCpu(IF Here = "handler" THEN "syscall" ELSE "kernel")

\* SYS_EXIT, thread_exit at the end of a kernel thread, or a page fault in
\* ring 3 or on the way back to it, whose handler calls thread_exit.
Exit ==
  /\ Here \in {"user", "kernel", "handler", "syscall"}
  /\ thread_exit
  /\ LeaveCpu("dead")

\* SYS_EXEC with an image that loads: a new thread t, and the caller exits.
Exec(t) ==
  /\ Here = "handler"
  /\ sys_exec(t)
  /\ at' = [at EXCEPT ![current_thread] = "dead", ![t] = "fresh"]
  /\ load_context
  /\ UNCHANGED <<intr, in_service>>

\* Kernel code unblocks a thread and goes on.
Unblock(t) ==
  /\ Here = "kernel"
  /\ thread_unblock(t)
  /\ UNCHANGED cpuVars

(***************************************************************************)
(* The timer interrupt.  isr_handler calls timer_tick, which unblocks the  *)
(* threads ts, and then schedule(), before the EOI: the EOI is sent when   *)
(* the interrupted thread is switched to again.                            *)
(***************************************************************************)
\* The 8259 delivers IRQ 0 only while no IRQ 0 is in service.
IrqDelivered == intr /\ ~in_service

\* Mutants: a trap gate in place of the interrupt gate; the EOI is sent before
\* schedule().
TimerInterrupt_TrapGate(ts) ==
  /\ IrqDelivered
  /\ Reschedule(ts)
  /\ switch_to("isr")
  /\ in_service' = TRUE
  /\ UNCHANGED intr
TimerInterrupt_EoiFirst(ts) ==
  /\ IrqDelivered
  /\ Reschedule(ts)
  /\ switch_to("isr")
  /\ intr' = FALSE
  /\ UNCHANGED in_service

TimerInterrupt(ts) ==
  /\ IrqDelivered
  /\ Reschedule(ts)
  /\ switch_to("isr")
  /\ intr' = FALSE
  /\ in_service' = TRUE

\* Where the interrupted thread was: interrupts are taken where IF is set.
Interrupted(t) ==
  CASE t = idle -> "hlt" [] t \in Uthreads -> "user" [] OTHER -> "kernel"

\* The rest of isr_handler: irq_handler(0), which may unblock a thread that
\* waits for IRQ 0, the EOI, and iretq in isr_common.
isr_return ==
  /\ Here = "isr"
  /\ UNCHANGED rqVars \/ \E t \in Workers : thread_unblock(t)
  /\ at' = [at EXCEPT ![current_thread] = Interrupted(current_thread)]
  /\ intr' = TRUE
  /\ in_service' = FALSE
  /\ UNCHANGED <<current_process, cr3, rsp0>>

Resume == kernel_entry \/ userspace_entry \/ syscall_return \/ isr_return

\* What the kernel does without the calls of scheduler_add_thread in elf.c.
OnceNext ==
  \/ \E t \in Kthreads : thread_create(t)
  \/ \E t \in Uthreads : thread_create_user(t)
  \/ enable_interrupts
  \/ Resume
  \/ syscall_entry
  \/ Yield
  \/ Block
  \/ Exit
  \/ \E t \in Workers : Unblock(t)
  \/ \E ts \in WakeLists : TimerInterrupt(ts)

SchedNext == OnceNext \/ \E t \in Uthreads : load_program(t) \/ Exec(t)

SchedSpec == SchedInit /\ [][SchedNext]_vars

-----------------------------------------------------------------------------

(***************************************************************************)
(* Fairness.  The CPU executes: what a thread switched to does next is     *)
(* done.  The PIT ticks for ever and the 8259 latches the request, so a    *)
(* tick that can be delivered again and again is delivered.                *)
(***************************************************************************)
CpuRuns ==
  /\ WF_vars(enable_interrupts)
  /\ WF_vars(Resume)
  /\ SF_vars(\E ts \in WakeLists : TimerInterrupt(ts))

\* Threads that keep no CPU for themselves: each one yields, blocks or exits.
ThreadsCooperate == WF_vars(Yield \/ Block \/ Exit)

SchedFairSpec == SchedSpec /\ CpuRuns
CooperativeSpec == SchedFairSpec /\ ThreadsCooperate

-----------------------------------------------------------------------------

\* Types of the scheduler and its CPU: every thread is at a known place, and
\* switch_to loads the address space of a user thread or the kernel's.
SchedTypeOK ==
  /\ RQTypeOK
  /\ at \in [Threads -> Places]
  /\ intr \in BOOLEAN
  /\ in_service \in BOOLEAN
  /\ current_process \in Uthreads \cup {Kspace}
  /\ cr3 \in Uthreads \cup {Kspace}
  /\ rsp0 \in Threads \cup {Kspace}

\* Kernel code never runs with interrupts enabled, although no lock masks
\* them: IF is set only in ring 3 and in the hlt loop.  Every spin lock, the
\* wait queues and the global syscall_retval rest on it.
KernelMasked == intr => Here \in {"user", "hlt"}

\* The idle thread is interrupted in its hlt loop and owes the EOI until it
\* is switched to again; so IRQ 0 is in service whenever another thread
\* runs, and no other thread is ever inside a timer interrupt.
IdleOwesEOI ==
  /\ in_service <=> at[idle] = "isr"
  /\ current_thread # idle => in_service
  /\ \A t \in Workers : at[t] # "isr"

\* Hence the kernel is cooperative: a worker that has the CPU loses it only
\* by its own system call, call or fault, never to the timer.
SwitchIsVoluntary ==
  [][(current_thread \in Workers /\ current_thread' # current_thread)
       => Yield \/ Block \/ Exit \/ \E t \in Uthreads : Exec(t)]_vars

\* A thread's state in the scheduler agrees with where its control is: a
\* thread taken from the queue has something to resume, a blocked one is
\* inside the call that blocked it.
PlaceFitsState ==
  \A t \in Workers :
    /\ state[t] = "unborn" <=> at[t] = "unborn"
    /\ state[t] = "exited" <=> at[t] = "dead"
    /\ state[t] = "ready" => at[t] \in {"fresh", "kernel", "syscall"}
    /\ state[t] = "blocked" => at[t] = (IF t \in Uthreads THEN "syscall" ELSE "kernel")
    /\ at[t] \in {"user", "handler"} => t = current_thread

\* While a thread is in ring 3 or in a system call, the next interrupt lands on
\* its own kernel stack, its own address space is loaded, and its calls are
\* charged to its own process.  (current_process is stale while a kernel thread
\* or the idle thread runs.)
UserContext ==
  Here \in {"user", "handler", "syscall"} =>
    /\ rsp0 = current_thread
    /\ cr3 = current_thread
    /\ current_process = current_thread

\* README.md, "Basic user-mode thread (prints "Hello from user!" via syscall)":
\* a user thread that is switched to for the first time gets to ring 3.
UserThreadsStart ==
  \A t \in Uthreads : (current_thread = t /\ at[t] = "fresh") ~> (at[t] = "user")

\* If no thread keeps the CPU for ever, every ready thread comes to run, unless
\* elf.c adds a thread twice: then those behind it are lost.
ReadyRuns ==
  \A t \in Workers : (state[t] = "ready") ~> (current_thread = t \/ ~AddedOnce)

\* README.md, "Preemptive round-robin scheduler": the same without asking any
\* thread to give up the CPU.
Preemptive == ReadyRuns
=============================================================================
