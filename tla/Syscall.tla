------------------------------- MODULE Syscall -------------------------------
(***************************************************************************)
(* System calls on the scheduler: syscall_entry.S, syscall_handler of      *)
(* syscalls.c, the globals that all system calls share, and the code       *)
(* segment selectors that syscall, sysretq, interrupts and iretq load      *)
(* (gdt.c, idt.c).  What the calls do to memory is in module Proc, what    *)
(* they do to timers and IRQs in Timer and Irq.                            *)
(*                                                                         *)
(* The entry, the handler up to a switch or to its result, and the return  *)
(* are steps of their own: that nothing comes between them is what the     *)
(* shared globals rest on, and follows from the masking, not from the      *)
(* grain of the model.                                                     *)
(***************************************************************************)
EXTENDS Scheduler, Integers

VARIABLES
  call,            \* the system call each user thread is in
  result,          \* what that call has assigned to syscall_retval, if anything
  syscall_retval,
  saved_user_rip,  \* whose instruction it points to; Kspace: kernel code, or 0
  cs,              \* the selector in CS
  iret_cs          \* CS in the interrupt frame on a thread's stack; 0: none

sysVars == <<call, result, syscall_retval, saved_user_rip, cs, iret_cs>>
sysAll == <<vars, sysVars>>

NoCall == "none"
Nested == "nested"      \* the SYS_yield that kbd_buf_get makes in ring 0
Pending == -3           \* no result yet; no call returns it

\* Calls that return without a switch, and what they return.  A count and a
\* size stand for all; -1 and -2 are errors.
Quick ==
  [SYS_read         |-> {1, 0, -1},
   SYS_write        |-> {4096, 0, -1},
   SYS_open         |-> {10},
   SYS_close        |-> {0},
   SYS_gettid       |-> {current_thread},
   SYS_sleep        |-> {0},           \* deadline passed, or no memory
   SYS_fork         |-> {-1},
   SYS_iopl         |-> {0},
   SYS_irq_register |-> {0, -1},
   SYS_exec         |-> {-1, 0},       \* 0: the image could not be loaded
   SYS_get_binary   |-> {4096, -1, -2},
   unknown          |-> {-1}]
Calls == DOMAIN Quick \cup {"SYS_yield", "SYS_exit"}

-----------------------------------------------------------------------------

(***************************************************************************)
(* Selectors.  gdt_init: the access bytes of descriptors 1 to 4.  iretq    *)
(* needs an executable segment of the privilege level it returns to.  The  *)
(* two halves of STAR are what idt_init has in edx and eax: syscall and    *)
(* sysretq take their selectors from the upper one.                        *)
(***************************************************************************)
gdt == <<154, 146, 250, 242>>  \* 0x9A, 0x92, 0xFA, 0xF2
Executable(access) == (access \div 8) % 2 = 1
Privilege(access) == (access \div 32) % 4
IretLoads(sel) ==
  LET i == sel \div 8
  IN  /\ i \in 1..4
      /\ Executable(gdt[i])
      /\ Privilege(gdt[i]) = sel % 4

STAR == [edx |-> 0, eax |-> 24 * 65536 + 8]
KERNEL_CS == 8
USER_CS == 27
SyscallCs == STAR.edx % 65536
SysretCs == STAR.edx \div 65536 + 16 + 3

SyscallInit ==
  /\ SchedInit
  /\ call = [t \in Uthreads |-> NoCall]
  /\ result = [t \in Uthreads |-> Pending]
  /\ syscall_retval = 0
  /\ saved_user_rip = Kspace
  /\ cs = KERNEL_CS
  /\ iret_cs = [t \in Threads |-> 0]

-----------------------------------------------------------------------------

KernelLeaves == Here = "kernel" /\ (Block \/ Exit)

\* Steps of _start and of kernel threads; __switch_to leaves CS alone.
KernelStep ==
  /\ \/ \E t \in Kthreads : thread_create(t)
     \/ \E t \in Uthreads : Here = "boot" /\ (thread_create_user(t) \/ load_program(t))
     \/ enable_interrupts
     \/ kernel_entry
     \/ KernelLeaves
     \/ \E t \in Workers : Unblock(t)
  /\ UNCHANGED sysVars

\* A new user thread: iretq with the CS of its frame.
enter_ring3 ==
  /\ userspace_entry
  /\ cs' = USER_CS
  /\ UNCHANGED <<call, result, syscall_retval, saved_user_rip, iret_cs>>

\* The timer interrupt and its end: the gate loads the kernel's CS, iretq the
\* one saved.  With a selector it cannot load, the CPU would fault at iretq
\* again and again.
timer_interrupt(ts) ==
  /\ TimerInterrupt(ts)
  /\ iret_cs' = [iret_cs EXCEPT ![current_thread] = cs]
  /\ cs' = KERNEL_CS
  /\ UNCHANGED <<call, result, syscall_retval, saved_user_rip>>

timer_return ==
  /\ isr_return
  /\ IretLoads(iret_cs[current_thread])
  /\ cs' = iret_cs[current_thread]
  /\ iret_cs' = [iret_cs EXCEPT ![current_thread] = 0]
  /\ UNCHANGED <<call, result, syscall_retval, saved_user_rip>>

\* A page fault of a user thread, in ring 3 or where its system call touches a
\* heap page that kmalloc could not map: the thread ends.  (System calls run on
\* the user's stack; where that is not mapped the CPU cannot even push the
\* frame of the fault, and resets.)
page_fault ==
  /\ current_thread \in Uthreads
  /\ Here \in {"user", "handler"}
  /\ Exit
  /\ cs' = KERNEL_CS
  /\ call' = [call EXCEPT ![current_thread] = NoCall]
  /\ result' = [result EXCEPT ![current_thread] = Pending]
  /\ UNCHANGED <<syscall_retval, saved_user_rip, iret_cs>>

-----------------------------------------------------------------------------

\* syscall_entry, for call number nr.
enter(nr) ==
  /\ syscall_entry
  /\ call' = [call EXCEPT ![current_thread] = nr]
  /\ saved_user_rip' = current_thread
  /\ cs' = SyscallCs
  /\ UNCHANGED <<result, syscall_retval, iret_cs>>

\* In the handler of call nr, at place p, before the result is assigned.
In(nr, p) ==
  /\ Here = p
  /\ current_thread \in Uthreads
  /\ call[current_thread] = nr
  /\ result[current_thread] = Pending

Assign(r) ==
  /\ syscall_retval' = r
  /\ result' = [result EXCEPT ![current_thread] = r]
  /\ UNCHANGED <<call, saved_user_rip, cs, iret_cs>>

QuickCall ==
  \E nr \in DOMAIN Quick :
    /\ In(nr, "handler")
    /\ \E r \in Quick[nr] : Assign(r)
    /\ UNCHANGED vars

\* SYS_fork: the child starts at saved_user_rip; its pid is the result.
SYS_fork(c) ==
  /\ In("SYS_fork", "handler")
  /\ thread_create_user(c)
  /\ Assign(c)

\* SYS_exec with an image that loads.
SYS_exec(c) ==
  /\ In("SYS_exec", "handler")
  /\ Exec(c)
  /\ call' = [call EXCEPT ![current_thread] = NoCall]
  /\ UNCHANGED <<result, syscall_retval, saved_user_rip, cs, iret_cs>>

SYS_exit ==
  /\ In("SYS_exit", "handler")
  /\ Exit
  /\ call' = [call EXCEPT ![current_thread] = NoCall]
  /\ UNCHANGED <<result, syscall_retval, saved_user_rip, cs, iret_cs>>

\* Mutant: the result is assigned before the switch.
Switch_AssignsFirst ==
  /\ \/ In("SYS_yield", "handler") /\ Yield
     \/ In("SYS_sleep", "handler") /\ Block
  /\ Assign(0)

\* SYS_yield, SYS_sleep and SYS_nanosleep: the result follows the switch.
Switch ==
  /\ \/ In("SYS_yield", "handler") /\ Yield
     \/ In("SYS_sleep", "handler") /\ Block
  /\ UNCHANGED sysVars

Resumed ==
  /\ In("SYS_yield", "syscall") \/ In("SYS_sleep", "syscall")
  /\ Assign(0)
  /\ UNCHANGED vars

\* SYS_read with an empty keyboard buffer: kbd_buf_get executes a syscall
\* instruction, with the number of SYS_yield, in ring 0.
NestedYield ==
  /\ In("SYS_read", "handler")
  /\ Yield
  /\ call' = [call EXCEPT ![current_thread] = Nested]
  /\ saved_user_rip' = Kspace
  /\ cs' = SyscallCs
  /\ UNCHANGED <<result, syscall_retval, iret_cs>>

\* Its sysretq returns to kernel code in ring 3; the fetch faults.
NestedReturn ==
  /\ In(Nested, "syscall")
  /\ Exit
  /\ syscall_retval' = 0
  /\ cs' = KERNEL_CS
  /\ call' = [call EXCEPT ![current_thread] = NoCall]
  /\ UNCHANGED <<result, saved_user_rip, iret_cs>>

\* The result goes to rax.
return ==
  /\ current_thread \in Uthreads
  /\ result[current_thread] # Pending
  /\ syscall_return
  /\ call' = [call EXCEPT ![current_thread] = NoCall]
  /\ result' = [result EXCEPT ![current_thread] = Pending]
  /\ cs' = SysretCs
  /\ UNCHANGED <<syscall_retval, saved_user_rip, iret_cs>>

UserStep ==
  \/ \E nr \in Calls : enter(nr)
  \/ QuickCall
  \/ \E c \in Uthreads : SYS_fork(c)
  \/ Switch
  \/ Resumed
  \/ NestedYield

LeaveStep == page_fault \/ SYS_exit \/ NestedReturn \/ \E c \in Uthreads : SYS_exec(c)
ResumeStep == enter_ring3 \/ timer_return \/ return

SyscallNext ==
  \/ KernelStep
  \/ UserStep
  \/ LeaveStep
  \/ ResumeStep
  \/ \E ts \in WakeLists : timer_interrupt(ts)

SyscallSpec == SyscallInit /\ [][SyscallNext]_sysAll

\* The fairness of CooperativeSpec: the CPU executes, ticks come, and no thread
\* keeps the CPU for ever.
Fairness ==
  /\ WF_sysAll(enable_interrupts /\ KernelStep)
  /\ WF_sysAll((kernel_entry /\ KernelStep) \/ ResumeStep \/ Resumed)
  /\ SF_sysAll(\E ts \in WakeLists : timer_interrupt(ts))
  /\ WF_sysAll(Switch \/ NestedYield \/ LeaveStep \/ (KernelLeaves /\ KernelStep))

SyscallFairSpec == SyscallSpec /\ Fairness

-----------------------------------------------------------------------------

Results == {-2, -1, 0, 1, 10, 4096} \cup Uthreads

\* Types of the system call layer.
SyscallTypeOK ==
  /\ SchedTypeOK
  /\ call \in [Uthreads -> Calls \cup {NoCall, Nested}]
  /\ result \in [Uthreads -> Results \cup {Pending}]
  /\ syscall_retval \in Results
  /\ saved_user_rip \in Uthreads \cup {Kspace}
  /\ cs \in Nat
  /\ iret_cs \in [Threads -> Nat]

\* What the scheduler knows is right through every order of calls, faults and ticks
\* until elf.c adds a thread twice: the queue links exactly the READY workers, each
\* once, and each thread's state agrees with where its control is.
SchedulerConsistent == SyscallTypeOK /\ (AddedOnce => QueueExact /\ PlaceFitsState)

\* Kernel code is never interrupted, and the EOI that the idle thread owes keeps IRQ 0
\* in service while any other thread runs.
InterruptDiscipline == KernelMasked /\ IdleOwesEOI

\* The global syscall_retval that syscall_entry loads into rax, and the global
\* saved_user_rip from which sys_fork starts the child, are those of the
\* caller's own call, although threads switch in the middle of calls.
OwnCall ==
  /\ \A t \in Uthreads : result[t] # Pending => t = current_thread /\ syscall_retval = result[t]
  /\ Here = "handler" => saved_user_rip = current_thread

\* iretq at the end of a timer interrupt never meets a selector it cannot
\* load.  STAR is written with its halves exchanged (idt_init), so that CS is 0
\* in system calls and 0x13 in ring 3 after the first one, neither a code
\* segment; but no tick is ever taken there.
IretSafe == \A t \in Threads : at[t] = "isr" => IretLoads(iret_cs[t])
=============================================================================
