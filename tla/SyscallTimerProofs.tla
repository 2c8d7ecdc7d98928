------------------------- MODULE SyscallTimerProofs -------------------------
(***************************************************************************)
(* Proofs about the two modules of system calls on the scheduler: Syscall, *)
(* the control of every call, and Timer, the calls that sleep and the tick *)
(* that ends them.  The steps of both are steps of the scheduler, so that  *)
(* SchedInv of SchedulerProofs holds, and with it SysInv and TimerIInv are *)
(* inductive: for any sets of threads, any tick rate, any width of the     *)
(* counters and any requests.                                              *)
(***************************************************************************)
EXTENDS Syscall, Timer, SchedulerProofs

(***************************************************************************)
(* Module Syscall.                                                         *)
(***************************************************************************)

\* A result is on its way only while its thread is in the kernel, and the
\* idle thread is interrupted with the CS that gdt_init has loaded.
SysInv ==
  /\ SchedInv
  /\ SyscallTypeOK
  /\ OwnCall
  /\ \A t \in Uthreads : result[t] # Pending => at[t] \in {"handler", "syscall"}
  /\ Here \in {"boot", "hlt"} => cs = KERNEL_CS
  /\ at[idle] = "isr" => iret_cs[idle] = KERNEL_CS

\* A step of the system call layer is one of the scheduler, or leaves it alone.
LEMMA SyscallStepIsSchedStep ==
  ASSUME SyscallNext
  PROVE  SchedNext \/ UNCHANGED vars
<1>1. CASE KernelStep
  BY <1>1 DEF KernelStep, KernelLeaves, SchedNext, OnceNext, Resume
<1>2. CASE UserStep
  BY <1>2 DEF UserStep, enter, QuickCall, SYS_fork, Switch, Resumed, NestedYield,
     SchedNext, OnceNext
<1>3. CASE LeaveStep
  BY <1>3 DEF LeaveStep, page_fault, SYS_exit, SYS_exec, NestedReturn, SchedNext, OnceNext
<1>4. CASE ResumeStep
  BY <1>4 DEF ResumeStep, enter_ring3, timer_return, return, SchedNext, OnceNext, Resume
<1>5. CASE \E ts \in WakeLists : timer_interrupt(ts)
  BY <1>5 DEF timer_interrupt, SchedNext, OnceNext
<1> QED BY <1>1, <1>2, <1>3, <1>4, <1>5 DEF SyscallNext

\* After a switch the CPU is in no system call that has not switched before,
\* and the idle thread is back in its interrupt.
LEMMA SwitchLeaves ==
  ASSUME MachineInv, MachineInv', NEW p \in {"syscall", "kernel", "isr", "dead"}, switch_to(p),
         current_thread = idle => p = "isr"
  PROVE  /\ Here' \notin {"boot", "hlt", "handler"}
         /\ at'[idle] = "isr"
         /\ \A t \in Uthreads : t # current_thread => at'[t] = at[t]
<1>1. /\ current_thread \in Threads /\ current_thread' \in Threads
      /\ at \in [Threads -> Places]
      /\ Threads = Kthreads \cup Uthreads \cup {idle}
      /\ Workers = Kthreads \cup Uthreads
      /\ at' = [at EXCEPT ![current_thread] = p]
  BY DEF MachineInv, SchedTypeOK, RQTypeOK, Threads, Workers, switch_to
<1>2. current_thread # idle => at[idle] = "isr"
  BY DEF MachineInv, IdleOwesEOI
<1>3. \A t \in Workers : t # current_thread => at[t] \notin {"boot", "hlt", "handler"}
  BY <1>1 DEF MachineInv, OneOut, KindFitsPlace
<1> QED BY <1>1, <1>2, <1>3 DEF Here

\* The results that QuickCall assigns are results.
LEMMA QuickResults ==
  ASSUME current_thread \in Uthreads, NEW nr \in DOMAIN Quick
  PROVE  Quick[nr] \subseteq Results
BY DEF Quick, Results

\* Nothing else is on its way while another thread than its own runs.
LEMMA NoneWaiting ==
  ASSUME SysInv, NEW t \in Uthreads, t # current_thread \/ at[t] \notin {"handler", "syscall"}
  PROVE  result[t] = Pending
BY DEF SysInv, OwnCall

\* _start leaves no system call open, with the CS that gdt_init has loaded.
LEMMA SysInitInv ==
  ASSUME SyscallInit
  PROVE  SysInv
<1>1. SchedInv
  BY SchedInitInv DEF SyscallInit, SchedInv, CpuInv
<1>2. idle \in Threads /\ at[idle] = "boot" /\ current_thread = idle
  BY DEF SyscallInit, SchedInit, RQInit, Threads
<1>3. SyscallTypeOK
  BY <1>1 DEF SyscallInit, SyscallTypeOK, SchedInv, MachineInv, Results, KERNEL_CS
<1>4. OwnCall
  BY <1>2 DEF SyscallInit, OwnCall, Here
<1> QED BY <1>1, <1>2, <1>3, <1>4 DEF SyscallInit, SysInv, Here

\* Every step of the system call layer keeps the invariant.
LEMMA SysNextInv ==
  ASSUME SysInv, SyscallNext
  PROVE  SysInv'
<1>0. /\ SchedInv'
      /\ MachineInv /\ MachineInv'
      /\ Threads = Kthreads \cup Uthreads \cup {idle}
      /\ Workers = Kthreads \cup Uthreads
      /\ Kthreads \cap Uthreads = {}
      /\ idle \notin Kthreads \cup Uthreads
      /\ current_thread \in Threads /\ current_thread' \in Threads
      /\ at \in [Threads -> Places]
  <2>1. SchedInv'
    BY SyscallStepIsSchedStep, SchedNextInv DEF SysInv
  <2> QED BY <2>1, ThreadsAssumption
          DEF SysInv, SchedInv, MachineInv, SchedTypeOK, RQTypeOK, Threads, Workers
<1>a. /\ result \in [Uthreads -> Results \cup {Pending}]
      /\ call \in [Uthreads -> Calls \cup {NoCall, Nested}]
      /\ syscall_retval \in Results
      /\ saved_user_rip \in Uthreads \cup {Kspace}
      /\ cs \in Nat
      /\ iret_cs \in [Threads -> Nat]
  BY DEF SysInv, SyscallTypeOK
<1>b. SchedTypeOK'
  BY <1>0 DEF MachineInv
<1>c. current_thread # idle => at[idle] = "isr"
  BY <1>0 DEF MachineInv, IdleOwesEOI
<1>d. Calls' = Calls /\ Results' = Results /\ "SYS_exit" \in Calls /\ 0 \in Results
  BY DEF Calls, Quick, Results
<1>e. ASSUME NEW c \in Uthreads, thread_create_user(c)
      PROVE  current_thread' = current_thread /\ Here' = Here /\ at'[idle] = at[idle]
  <2>1. /\ c # current_thread
        /\ current_thread' = current_thread
        /\ at' = [at EXCEPT ![c] = "fresh"]
    BY <1>e, <1>0 DEF thread_create_user, scheduler_add_thread, MachineInv, QueueSound
  <2> QED BY <2>1, <1>0 DEF Here
<1>1. CASE KernelStep
  <2>1. current_thread \notin Uthreads
    BY <1>0, <1>1 DEF KernelStep, KernelLeaves, thread_create, enable_interrupts, kernel_entry,
       Unblock, Here, MachineInv, KindFitsPlace
  <2>2. \A t \in Uthreads : result[t] = Pending
    BY <2>1, NoneWaiting
  <2>3. CASE KernelLeaves
    <3>1. PICK q \in {"kernel", "dead"} : switch_to(q)
      BY <2>3 DEF KernelLeaves, Block, Exit, LeaveCpu
    <3>2. current_thread # idle
      BY <2>3, <1>0 DEF KernelLeaves, Here, MachineInv, KindFitsPlace
    <3>3. /\ Here' \notin {"boot", "hlt", "handler"}
          /\ at'[idle] = "isr"
      BY <3>1, <3>2, <1>0, SwitchLeaves
    <3> QED BY Zenon, <3>3, <3>2, <2>2, <1>0, <1>1, <1>a, <1>b, <1>c, <1>d
            DEF KernelStep, sysVars, SysInv, SyscallTypeOK, OwnCall
  <2>4. CASE ~KernelLeaves
    <3>1. /\ Here' # "handler"
          /\ Here' \in {"boot", "hlt"} => Here \in {"boot", "hlt"}
          /\ at'[idle] = "isr" => at[idle] = "isr"
      BY Zenon, <2>4, <2>1, <1>0, <1>1 DEF KernelStep, thread_create, thread_create_user,
         load_program, scheduler_add_thread, elf_load, enable_interrupts, kernel_entry, Unblock,
         thread_unblock, cpuVars, rqVars, Here, MachineInv, KindFitsPlace
    <3> QED BY <3>1, <2>2, <1>0, <1>1, <1>a, <1>b, <1>d
            DEF KernelStep, sysVars, SysInv, SyscallTypeOK, OwnCall
  <2> QED BY <2>3, <2>4
<1>2. ASSUME NEW nr \in Calls, enter(nr)
      PROVE  SysInv'
  <2>1. current_thread \in Uthreads /\ current_thread' = current_thread
    BY <1>2, <1>0 DEF enter, syscall_entry, rqVars, Here, MachineInv, KindFitsPlace
  <2>2. \A t \in Uthreads : result[t] = Pending
    BY <1>2, NoneWaiting DEF enter, syscall_entry, Here
  <2>3. Here' = "handler" /\ at'[idle] = at[idle]
    BY <1>2, <2>1, <1>0 DEF enter, syscall_entry, Here
  <2>4. SyscallCs \in Nat
    BY DEF SyscallCs, STAR
  <2> QED BY <1>2, <2>1, <2>2, <2>3, <2>4, <1>0, <1>a, <1>b, <1>d
          DEF enter, SysInv, SyscallTypeOK, OwnCall
<1>3. ASSUME NEW v \in Results, Assign(v), current_thread' = current_thread,
             Here \in {"handler", "syscall"}, current_thread \in Uthreads, Here' = Here,
             at'[idle] = at[idle]
      PROVE  SysInv'
  <2>1. \A t \in Uthreads : t # current_thread => result[t] = Pending
    BY NoneWaiting
  <2>2. at'[current_thread] \in {"handler", "syscall"}
    BY <1>3 DEF Here
  <2>3. SyscallTypeOK'
    BY <1>3, <1>a, <1>b, <1>d DEF Assign, SyscallTypeOK
  <2> QED BY <1>3, <2>1, <2>2, <2>3, <1>0, <1>a DEF Assign, SysInv, OwnCall
<1>4. CASE QuickCall
  <2>1. PICK nr \in DOMAIN Quick : In(nr, "handler") /\ \E v \in Quick[nr] : Assign(v)
    BY <1>4 DEF QuickCall
  <2>2. PICK v \in Results : Assign(v)
    BY <2>1, QuickResults DEF In
  <2>3. /\ current_thread' = current_thread /\ Here' = Here /\ at'[idle] = at[idle]
        /\ Here = "handler" /\ current_thread \in Uthreads
    BY <1>4, <2>1 DEF QuickCall, In, vars, rqVars, cpuVars, Here
  <2> QED BY <1>3, <2>2, <2>3
<1>5. ASSUME NEW c \in Uthreads, SYS_fork(c)
      PROVE  SysInv'
  <2>1. current_thread' = current_thread /\ Here' = Here /\ at'[idle] = at[idle]
    <3>1. thread_create_user(c)
      BY <1>5 DEF SYS_fork
    <3> QED BY <3>1, <1>e
  <2>2. c \in Results /\ Assign(c) /\ Here = "handler" /\ current_thread \in Uthreads
    BY <1>5 DEF SYS_fork, In, Results
  <2> QED BY <1>3, <2>1, <2>2
<1>6. ASSUME NEW c \in Uthreads, SYS_exec(c)
      PROVE  SysInv'
  <2>1. \A t \in Uthreads : result[t] = Pending
    BY <1>6, NoneWaiting DEF SYS_exec, In
  <2>2. /\ current_thread' = c
        /\ at' = [at EXCEPT ![current_thread] = "dead", ![c] = "fresh"]
        /\ current_thread \in Uthreads
    BY <1>6 DEF SYS_exec, Exec, sys_exec, schedule
  <2>3. Here' = "fresh" /\ at'[idle] = "isr"
    BY <2>2, <1>0, <1>c DEF Here
  <2>4. /\ call' = [call EXCEPT ![current_thread] = NoCall]
        /\ UNCHANGED <<result, syscall_retval, saved_user_rip, cs, iret_cs>>
    BY <1>6 DEF SYS_exec
  <2>5. SyscallTypeOK'
    BY <2>4, <1>a, <1>b, <1>d DEF SyscallTypeOK
  <2> QED BY <2>1, <2>2, <2>3, <2>4, <2>5, <1>0, <1>c DEF SysInv, OwnCall
<1>7. CASE Resumed
  BY <1>7, <1>3 DEF Resumed, In, vars, rqVars, cpuVars, Here, Results
<1>8. CASE Switch \/ NestedYield
  <2>1. current_thread \in Uthreads /\ switch_to("syscall")
    BY Zenon, <1>8 DEF Switch, NestedYield, In, Yield, Block, LeaveCpu
  <2>2. \A t \in Uthreads : result[t] = Pending
    BY <1>8, NoneWaiting DEF Switch, NestedYield, In
  <2>3. /\ Here' \notin {"boot", "hlt", "handler"}
        /\ at'[idle] = "isr"
    BY <2>1, <1>0, SwitchLeaves
  <2>4. SyscallCs \in Nat
    BY DEF SyscallCs, STAR
  <2> QED BY Zenon, <1>8, <2>1, <2>2, <2>3, <2>4, <1>0, <1>a, <1>b, <1>c, <1>d
          DEF Switch, NestedYield, sysVars, SysInv, SyscallTypeOK, OwnCall
<1>9. CASE page_fault \/ SYS_exit \/ NestedReturn
  <2>1. current_thread \in Uthreads /\ switch_to("dead")
    BY Zenon, <1>9 DEF page_fault, SYS_exit, NestedReturn, In, Exit, LeaveCpu
  <2>2. \A t \in Uthreads : result'[t] = Pending
    BY <1>9, <1>a, NoneWaiting DEF page_fault, SYS_exit, NestedReturn, In
  <2>3. /\ Here' \notin {"boot", "hlt", "handler"}
        /\ at'[idle] = "isr"
    BY <2>1, <1>0, SwitchLeaves
  <2>4. SyscallTypeOK'
    <3>1. /\ call' = [call EXCEPT ![current_thread] = NoCall]
          /\ result' = [result EXCEPT ![current_thread] = Pending] \/ result' = result
          /\ syscall_retval' = 0 \/ syscall_retval' = syscall_retval
          /\ saved_user_rip' = saved_user_rip
          /\ iret_cs' = iret_cs
          /\ cs' = KERNEL_CS \/ cs' = cs
      BY <1>9 DEF page_fault, SYS_exit, NestedReturn
    <3>2. call' \in [Uthreads -> Calls \cup {NoCall, Nested}]
      BY Zenon, <3>1, <1>a
    <3>3. result' \in [Uthreads -> Results \cup {Pending}]
      BY <3>1, <1>a
    <3>4. cs' \in Nat
      BY <3>1, <1>a DEF KERNEL_CS
    <3> QED BY <3>1, <3>2, <3>3, <3>4, <1>a, <1>b, <1>d DEF SyscallTypeOK
  <2> QED BY <1>9, <2>1, <2>2, <2>3, <2>4, <1>0, <1>c
          DEF page_fault, SYS_exit, NestedReturn, SysInv, OwnCall
<1>10. CASE enter_ring3 \/ return
  <2>1. /\ current_thread \in Uthreads /\ current_thread' = current_thread
        /\ Here' = "user" /\ at'[idle] = at[idle]
        /\ \A t \in Uthreads : t # current_thread => at'[t] = at[t]
    BY <1>10, <1>0 DEF enter_ring3, return, userspace_entry, syscall_return, rqVars, Here
  <2>2. \A t \in Uthreads : result'[t] = Pending
    BY <1>10, <2>1, <1>a, NoneWaiting DEF enter_ring3, return, userspace_entry, Here
  <2>3. USER_CS \in Nat /\ SysretCs \in Nat
    BY DEF USER_CS, SysretCs, STAR
  <2>4. SyscallTypeOK'
    BY <1>10, <2>3, <1>a, <1>b, <1>d
       DEF enter_ring3, return, SyscallTypeOK
  <2> QED BY <1>10, <2>1, <2>2, <2>4, <1>0 DEF enter_ring3, return, SysInv, OwnCall
<1>11. CASE timer_return
  <2>1. current_thread = idle /\ current_thread' = idle /\ at'[idle] = "hlt"
    BY <1>11, <1>0 DEF timer_return, isr_return, Interrupted, thread_unblock, rqVars, Here,
       MachineInv, IdleOwesEOI
  <2>2. \A t \in Uthreads : result[t] = Pending
    BY <2>1, <1>0, NoneWaiting
  <2>3. iret_cs[idle] = KERNEL_CS
    BY Zenon, <1>11, <2>1 DEF timer_return, isr_return, Here, SysInv
  <2> QED BY <1>11, <2>1, <2>2, <2>3, <1>0, <1>a, <1>b, <1>d
          DEF timer_return, SysInv, SyscallTypeOK, OwnCall, Here
<1>12. ASSUME NEW ts \in WakeLists, timer_interrupt(ts)
      PROVE  SysInv'
  <2>1. current_thread = idle /\ Here = "hlt"
    BY <1>12, <1>0 DEF timer_interrupt, TimerInterrupt, IrqDelivered, MachineInv, IdleOwesEOI,
       KernelMasked, Here, KindFitsPlace
  <2>2. \A t \in Uthreads : result[t] = Pending
    BY <2>1, <1>0, NoneWaiting
  <2>3. /\ Here' \notin {"boot", "hlt", "handler"}
        /\ at'[idle] = "isr"
    BY <1>12, <2>1, <1>0, SwitchLeaves DEF timer_interrupt, TimerInterrupt
  <2>4. cs = KERNEL_CS /\ KERNEL_CS \in Nat
    BY <2>1 DEF SysInv, KERNEL_CS
  <2> QED BY Zenon, <1>12, <2>1, <2>2, <2>3, <2>4, <1>0, <1>a, <1>b, <1>d
          DEF timer_interrupt, SysInv, SyscallTypeOK, OwnCall
<1> QED BY <1>1, <1>2, <1>4, <1>5, <1>6, <1>7, <1>8, <1>9, <1>10, <1>11, <1>12
        DEF SyscallNext, UserStep, LeaveStep, ResumeStep

\* The system call layer keeps its invariant.
THEOREM SyscallInv == SyscallSpec => []SysInv
<1>1. SysInv /\ [SyscallNext]_sysAll => SysInv'
  <2>1. ASSUME SysInv, UNCHANGED sysAll PROVE SysInv'
    <3>1. /\ vars' = vars /\ call' = call /\ result' = result /\ syscall_retval' = syscall_retval
          /\ saved_user_rip' = saved_user_rip /\ cs' = cs /\ iret_cs' = iret_cs
      BY <2>1 DEF sysAll, sysVars
    <3>2. current_thread' = current_thread /\ at' = at
      BY <3>1 DEF vars, rqVars, cpuVars
    <3>3. SchedInv'
      BY <2>1, <3>1, SchedNextInv DEF SysInv
    <3>4. SyscallTypeOK'
      <4>1. SchedTypeOK' /\ SyscallTypeOK
        BY <2>1, <3>3 DEF SysInv, SchedInv, MachineInv
      <4>2. Calls' = Calls
        BY <3>2 DEF Calls, Quick
      <4> QED BY <3>1, <4>1, <4>2 DEF SyscallTypeOK, Results
    <3>5. OwnCall'
      BY <2>1, <3>1, <3>2 DEF SysInv, OwnCall, Here
    <3> QED BY <2>1, <3>1, <3>2, <3>3, <3>4, <3>5 DEF SysInv, Here
  <2> QED BY <2>1, SysNextInv
<1> QED BY <1>1, SysInitInv, PTL DEF SyscallSpec

\* Every variable of the system call layer keeps its type.
THEOREM SyscallTypeCorrect == SyscallSpec => []SyscallTypeOK
<1>1. SysInv => SyscallTypeOK
  BY DEF SysInv
<1> QED BY <1>1, SyscallInv, PTL

\* Until elf.c adds a thread a second time, the queue is exact and every thread's
\* state fits its place.
THEOREM ConsistentScheduler == SyscallSpec => []SchedulerConsistent
<1>1. SysInv => SchedulerConsistent
  BY DEF SysInv, SchedInv, CpuInv, RQInv, SchedulerConsistent
<1> QED BY <1>1, SyscallInv, PTL

\* Kernel code is not interrupted, and only the idle thread is ever inside a timer
\* interrupt.
THEOREM InterruptsDisciplined == SyscallSpec => []InterruptDiscipline
<1>1. SysInv => InterruptDiscipline
  BY DEF SysInv, SchedInv, MachineInv, InterruptDiscipline
<1> QED BY <1>1, SyscallInv, PTL

\* Each system call returns its own result and forks from its own instruction,
\* although syscall_retval and saved_user_rip are shared by all threads.
THEOREM CallsNotMixedUp == SyscallSpec => []OwnCall
<1>1. SysInv => OwnCall
  BY DEF SysInv
<1> QED BY <1>1, SyscallInv, PTL

\* iretq never meets the selectors that syscall and sysretq load.
THEOREM IretAlwaysLoads == SyscallSpec => []IretSafe
<1>1. SysInv => IretSafe
  <2>1. IretLoads(KERNEL_CS)
    BY DEF IretLoads, KERNEL_CS, gdt, Executable, Privilege
  <2> QED BY <2>1 DEF SysInv, SchedInv, MachineInv, IdleOwesEOI, IretSafe, Threads
<1> QED BY <1>1, SyscallInv, PTL

(***************************************************************************)
(* Module Timer.                                                           *)
(***************************************************************************)

\* A queue sorted by deadline, with one entry for each of its threads.
WellFormed(q) ==
  /\ q \in Seq(Entries)
  /\ \A i, j \in 1..Len(q) : i < j => q[i].deadline <= q[j].deadline
  /\ \A i, j \in 1..Len(q) : q[i].thread = q[j].thread => i = j

\* The entries have natural numbers for deadlines.
LEMMA Deadlines ==
  ASSUME NEW e \in Entries
  PROVE  e.deadline \in Nat /\ e.thread \in Workers
BY TimerAssumption DEF Entries

DeadlineOf == [e \in Entries |-> e.deadline]
ThreadOf == [e \in Entries |-> e.thread]

\* A well-formed timer_queue is sorted by deadline and names no thread twice.
LEMMA WellFormedIs ==
  ASSUME NEW q \in Seq(Entries)
  PROVE  WellFormed(q) <=> Ordered(q, DeadlineOf) /\ Distinct(q, ThreadOf)
<1>1. \A i \in 1..Len(q) : DeadlineOf[q[i]] = q[i].deadline /\ ThreadOf[q[i]] = q[i].thread
  BY DEF DeadlineOf, ThreadOf
<1> QED BY <1>1 DEF WellFormed, Ordered, Distinct

\* sleep_until keeps the queue well formed, and adds its entry.
LEMMA SleepInserts ==
  ASSUME NEW q, WellFormed(q), NEW e \in Entries,
         \A x \in Entries : InList(q, x) => x.thread # e.thread
  PROVE  /\ WellFormed(InsertSorted(q, e))
         /\ \A x \in Entries : InList(InsertSorted(q, e), x) <=> InList(q, x) \/ x = e
<1> DEFINE At(k) == /\ \A i \in 1..k : q[i].deadline < e.deadline
                    /\ k < Len(q) => q[k + 1].deadline >= e.deadline
           r == InsertSorted(q, e)
<1>1. q \in Seq(Entries) /\ Ordered(q, DeadlineOf) /\ Distinct(q, ThreadOf)
  BY WellFormedIs DEF WellFormed
<1>2. /\ DeadlineOf \in [Entries -> Nat]
      /\ \A x \in Entries : ThreadOf[x] = x.thread /\ DeadlineOf[x] = x.deadline
  BY Deadlines DEF DeadlineOf, ThreadOf
<1>3. ASSUME NEW k \in 0..Len(q) PROVE At(k) <=> Stops(k, q, DeadlineOf, DeadlineOf[e])
  <2>1. k < Len(q) => k + 1 \in 1..Len(q)
    BY <1>1
  <2>2. \A i \in 1..Len(q) : DeadlineOf[q[i]] = q[i].deadline
    BY <1>1, <1>2
  <2>3. \A i \in 1..k : i \in 1..Len(q)
    BY <1>1
  <2>4. DeadlineOf[e] = e.deadline
    BY <1>2
  <2>5. (\A i \in 1..k : q[i].deadline < e.deadline)
          <=> \A i \in 1..k : DeadlineOf[q[i]] < DeadlineOf[e]
    BY <2>2, <2>3, <2>4
  <2>6. k < Len(q) => DeadlineOf[q[k + 1]] = q[k + 1].deadline
    BY <2>1, <2>2
  <2> QED BY <2>4, <2>5, <2>6 DEF Stops
<1>4. \E k \in 0..Len(q) : At(k)
  <2>1. DeadlineOf[e] \in Nat
    BY <1>2
  <2>2. \E k \in 0..Len(q) : Stops(k, q, DeadlineOf, DeadlineOf[e])
    BY <1>1, <1>2, <2>1, StopExists
  <2> QED BY <1>3, <2>2
<1> DEFINE k == CHOOSE k \in 0..Len(q) : At(k)
<1>5. k \in 0..Len(q) /\ At(k)
  BY <1>4
<1>6. r = SubSeq(q, 1, k) \o <<e>> \o SubSeq(q, k + 1, Len(q))
  BY DEF InsertSorted
<1> HIDE DEF k
<1>7. Inserted(Entries, r, q, e, k)
  BY Zenon, <1>1, <1>5, <1>6, InsertShape
<1>8. Stops(k, q, DeadlineOf, DeadlineOf[e])
  BY <1>3, <1>5
<1>9. \A x \in Entries : InList(q, x) => ThreadOf[x] # ThreadOf[e]
  BY <1>2
<1> HIDE DEF r, At
<1>10. r \in Seq(Entries)
  BY <1>7 DEF Inserted
<1>11. /\ Ordered(r, DeadlineOf)
       /\ Distinct(r, ThreadOf)
       /\ \A x : InList(r, x) <=> InList(q, x) \/ x = e
  <2>1. /\ q \in Seq(Entries) /\ e \in Entries /\ k \in 0..Len(q)
        /\ DeadlineOf \in [Entries -> Nat]
        /\ Ordered(q, DeadlineOf) /\ Distinct(q, ThreadOf)
    BY <1>1, <1>2, <1>5
  <2> QED BY <2>1, <1>7, <1>8, <1>9, InsertKeeps
<1> QED BY <1>10, <1>11, WellFormedIs DEF r

\* The loop of timer_tick keeps the list well formed, and takes no other entries than it
\* should.
LEMMA SelectKeeps ==
  ASSUME NEW q, WellFormed(q), NEW I
  PROVE  /\ WellFormed(Select(q, I))
         /\ \A x : InList(Select(q, I), x) <=> \E i \in 1..Len(q) : i \in I /\ q[i] = x
<1> DEFINE r == Select(q, I)
           f == CHOOSE f : IsFilter(f, q, I)
<1>1. q \in Seq(Entries) /\ Ordered(q, DeadlineOf) /\ Distinct(q, ThreadOf)
  BY Zenon, WellFormedIs DEF WellFormed
<1>2. IsFilter(f, q, I)
  BY <1>1, FilterExists
<1>3. r = f[Len(q)]
  BY DEF Select, IsFilter
<1> HIDE DEF f, r
<1>4. r \in Seq(Entries) /\ \E h : Picks(h, r, q, I, Len(q))
  BY <1>1, <1>2, <1>3, FilterPicks
<1>5. PICK h : Picks(h, r, q, I, Len(q))
  BY <1>4
<1>6. /\ Ordered(r, DeadlineOf)
      /\ Distinct(r, ThreadOf)
      /\ \A x : InList(r, x) <=> \E i \in 1..Len(q) : i \in I /\ q[i] = x
  BY <1>1, <1>4, <1>5, PicksKeep
<1> QED BY <1>4, <1>6, WellFormedIs DEF r

-----------------------------------------------------------------------------

\* do_nanosleep rounds up to the least number of ticks that is long enough.
LEMMA RoundsUp ==
  ASSUME NEW ns \in Nat
  PROVE  TicksFor(ns) = (ns + NsPerTick - 1) \div NsPerTick /\ TicksFor(ns) \in Nat
<1> DEFINE m == (ns + NsPerTick - 1) \div NsPerTick
<1>1. NsPerTick \in Nat \ {0}
  BY TimerAssumption
<1>2. /\ m \in 0..ns
      /\ Covers(m, ns, NsPerTick)
      /\ \A n \in 0..ns : Covers(n, ns, NsPerTick) => n = m
  BY <1>1, RoundedUp
<1> HIDE DEF m
<1>3. TicksFor(ns) = CHOOSE n \in 0..ns : Covers(n, ns, NsPerTick)
  BY DEF TicksFor, Covers
<1>4. TicksFor(ns) = m
  BY <1>2, <1>3
<1> QED BY <1>2, <1>4 DEF m

-----------------------------------------------------------------------------

\* The entries in timer_queue, and those the next tick will take.
Queued == {e \in Entries : InList(timer_queue, e)}
Reached == {e \in Queued : Due(e)}

\* A thread waits in timer_queue, as long as its call may promise.
Sleeper(t) == \E e \in Queued : e.thread = t
Promised(t) == promised[t] <= ticks \/ \E e \in Queued : e.thread = t /\ promised[t] <= e.deadline

\* The inductive invariant: TimerInv, and that the entry of a sleeper is not before the tick
\* its call was promised, and not after the last one counted.
TimerIInv ==
  /\ CpuInv
  /\ ticks \in 0..MaxTicks
  /\ promised \in [Workers -> Nat]
  /\ WellFormed(timer_queue)
  /\ \A e \in Queued : ticks < e.deadline /\ e.deadline <= MaxTicks
  /\ \A t \in Workers : state[t] = "blocked" <=> Sleeper(t)
  /\ \A t \in Workers : Promised(t)

\* The queue of the timer and the bound on its entries.
LEMMA QueuedIs ==
  ASSUME WellFormed(timer_queue)
  PROVE  /\ timer_queue \in Seq(Entries)
         /\ \A i \in 1..Len(timer_queue) : timer_queue[i] \in Queued
         /\ \A e \in Queued : \E i \in 1..Len(timer_queue) : timer_queue[i] = e
BY DEF WellFormed, Queued, InList

\* TimerIInv says of timer_queue what TimerInv does.
LEMMA TimerIInvInv ==
  ASSUME TimerIInv
  PROVE  TimerInv /\ SleptEnough
<1>1. /\ timer_queue \in Seq(Entries)
      /\ \A i \in 1..Len(timer_queue) : timer_queue[i] \in Queued
      /\ \A e \in Queued : \E i \in 1..Len(timer_queue) : timer_queue[i] = e
  BY QueuedIs DEF TimerIInv
<1>2. TimerTypeOK
  BY <1>1 DEF TimerIInv, TimerTypeOK, CpuInv, MachineInv
<1>3. Sorted
  BY DEF TimerIInv, WellFormed, Sorted
<1>4. SleepersQueued
  <2>1. \A i, j \in 1..Len(timer_queue) :
           timer_queue[i].thread = timer_queue[j].thread => i = j
    BY DEF TimerIInv, WellFormed
  <2>2. ASSUME NEW t \in Workers
        PROVE  Sleeper(t) <=> \E i \in 1..Len(timer_queue) : timer_queue[i].thread = t
    BY <1>1 DEF Sleeper
  <2> QED BY <2>1, <2>2 DEF TimerIInv, SleepersQueued
<1>5. NothingOverdue
  <2>1. ASSUME NEW i \in 1..Len(timer_queue) PROVE timer_queue[i].deadline > ticks
    <3>1. timer_queue[i] \in Queued /\ timer_queue[i] \in Entries
      BY <1>1
    <3>2. ticks < timer_queue[i].deadline /\ timer_queue[i].deadline \in Nat /\ ticks \in Nat
      BY <3>1, Deadlines, TimerAssumption DEF TimerIInv
    <3> QED BY <3>2
  <2> QED BY <2>1 DEF NothingOverdue
<1>6. SleptEnough
  <2>1. ASSUME NEW t \in Workers, state[t] \in {"ready", "running"} PROVE ticks >= promised[t]
    <3>1. ~Sleeper(t) /\ Promised(t)
      BY <2>1 DEF TimerIInv
    <3>2. promised[t] <= ticks /\ promised[t] \in Nat /\ ticks \in Nat
      <4>1. promised[t] \in Nat /\ ticks \in Nat
        BY TimerAssumption DEF TimerIInv
      <4> QED BY <3>1, <4>1 DEF Sleeper, Promised
    <3> QED BY <3>2
  <2> QED BY <2>1 DEF SleptEnough
<1> QED BY <1>2, <1>3, <1>4, <1>5, <1>6 DEF TimerInv

\* The workers blocked after the step are those with state BLOCKED in st.
BlockedIn(st) == \A t \in Workers : state'[t] = "blocked" <=> st[t] = "blocked"

\* schedule() blocks and unblocks nobody.
LEMMA ScheduleKeepsBlocked ==
  ASSUME NEW st \in [Threads -> States], NEW q, Lists(q, ReadyIn(st)), schedule(st, q, "none")
  PROVE  BlockedIn(st)
<1>1. idle \notin Workers /\ Workers \subseteq Threads
  BY ThreadsAssumption DEF Threads, Workers
<1>2. /\ current_thread' \in ReadyIn(st) \cup {idle}
      /\ \A t \in Threads : t # current_thread /\ t # current_thread' => state'[t] = st[t]
      /\ state'[current_thread'] = "running" \/ current_thread' \notin Threads
      /\ current_thread \in Threads /\ current_thread # current_thread' =>
           state'[current_thread] = IF st[current_thread] = "running" /\ current_thread # idle
                                    THEN "ready" ELSE st[current_thread]
  BY Zenon, ScheduleEffect
<1> QED BY <1>1, <1>2 DEF ReadyIn, BlockedIn

\* What the steps of the timer need of CpuInv.
LEMMA CpuFacts ==
  ASSUME CpuInv
  PROVE  /\ state \in [Threads -> States]
         /\ ready_queue \in Seq(Workers)
         /\ Lists(ready_queue, ReadyIn(state))
         /\ Threads = Workers \cup {idle}
         /\ Workers = Kthreads \cup Uthreads
         /\ idle \notin Workers
         /\ current_thread \in Threads
         /\ \A t \in Workers : state[t] = "running" <=> t = current_thread
         /\ cycle = "none"
BY QueueLists, ThreadsAssumption DEF CpuInv, RQInv, RQTypeOK, AddedOnce, OneRunning, Threads, Workers

\* The steps the timer has no part in are steps of the scheduler, and block nobody.
LEMMA OtherStepEffect ==
  ASSUME CpuInv, OtherStep
  PROVE  OnceNext /\ BlockedIn(state)
<1>0. /\ state \in [Threads -> States]
      /\ ready_queue \in Seq(Workers)
      /\ Lists(ready_queue, ReadyIn(state))
      /\ Threads = Workers \cup {idle}
      /\ Workers = Kthreads \cup Uthreads
      /\ idle \notin Workers
      /\ current_thread \in Threads
      /\ \A t \in Workers : state[t] = "running" <=> t = current_thread
      /\ cycle = "none"
  BY CpuFacts
<1>1. OnceNext
  BY DEF OtherStep, OnceNext, Resume
<1>2. CASE Yield
  <2>1. Woken(<<>>) = state /\ Appended(ready_queue, <<>>, cycle) = ready_queue
    BY <1>0 DEF Woken, Appended
  <2>2. schedule(state, ready_queue, "none")
    BY <1>0, <1>2, <2>1 DEF Yield, Reschedule
  <2> QED BY Zenon, <1>0, <1>1, <2>2, ScheduleKeepsBlocked
<1>3. CASE Exit
  <2> DEFINE st == [state EXCEPT ![current_thread] = "exited"]
  <2>1. current_thread \in Workers /\ schedule(st, ready_queue, "none")
    BY <1>0, <1>3 DEF Exit, thread_exit
  <2>2. /\ st \in [Threads -> States]
        /\ ReadyIn(st) = ReadyIn(state)
        /\ \A t \in Workers : st[t] = "blocked" <=> state[t] = "blocked"
    BY <1>0, <2>1 DEF ReadyIn, States
  <2> HIDE DEF st
  <2>3. Lists(ready_queue, ReadyIn(st))
    BY <1>0, <2>2
  <2>4. BlockedIn(st)
    BY <2>1, <2>2, <2>3, ScheduleKeepsBlocked
  <2> QED BY <1>1, <2>2, <2>4 DEF BlockedIn
<1>4. ASSUME NEW u \in Workers, scheduler_add_thread(u)
      PROVE  BlockedIn(state)
  BY <1>0, <1>4 DEF scheduler_add_thread, BlockedIn
<1>5. ASSUME UNCHANGED rqVars
      PROVE  BlockedIn(state)
  BY <1>5 DEF rqVars, BlockedIn
<1> QED BY Zenon, <1>0, <1>1, <1>2, <1>3, <1>4, <1>5 DEF OtherStep, thread_create, thread_create_user,
     enable_interrupts, kernel_entry, userspace_entry, syscall_entry, syscall_return

\* They keep the invariant.
LEMMA OtherStepInv ==
  ASSUME TimerIInv, BlockedIn(state), CpuInv', UNCHANGED timerVars
  PROVE  TimerIInv'
<1>1. ticks' = ticks /\ timer_queue' = timer_queue /\ promised' = promised
  BY DEF timerVars
<1>2. Queued' = Queued
  BY <1>1 DEF Queued, InList
<1>3. \A t : (Sleeper(t)' <=> Sleeper(t)) /\ (Promised(t)' <=> Promised(t))
  BY <1>1, <1>2 DEF Sleeper, Promised
<1>4. WellFormed(timer_queue)'
  BY <1>1 DEF TimerIInv, WellFormed
<1> QED BY Zenon, <1>1, <1>2, <1>3, <1>4 DEF TimerIInv, BlockedIn

\* A system call that blocks its thread blocks no other.
LEMMA SleepBlocks ==
  ASSUME CpuInv, Here = "handler"
  PROVE  /\ current_thread \in Workers
         /\ state[current_thread] # "blocked"
         /\ Block => BlockedIn([state EXCEPT ![current_thread] = "blocked"])
<1> DEFINE st == [state EXCEPT ![current_thread] = "blocked"]
<1>0. /\ state \in [Threads -> States]
      /\ Lists(ready_queue, ReadyIn(state))
      /\ Threads = Workers \cup {idle}
      /\ idle \notin Workers
      /\ current_thread \in Threads
      /\ \A t \in Workers : state[t] = "running" <=> t = current_thread
      /\ cycle = "none"
  BY CpuFacts
<1>1. current_thread \in Workers /\ state[current_thread] = "running"
  BY <1>0 DEF CpuInv, MachineInv, KindFitsPlace, Here
<1>2. st \in [Threads -> States] /\ ReadyIn(st) = ReadyIn(state)
  BY <1>0, <1>1 DEF ReadyIn, States
<1>3. Block => schedule(st, ready_queue, "none")
  BY <1>0 DEF Block, thread_block
<1> HIDE DEF st
<1>4. Lists(ready_queue, ReadyIn(st))
  BY <1>0, <1>2
<1>5. Block => BlockedIn(st)
  BY <1>2, <1>3, <1>4, ScheduleKeepsBlocked
<1> QED BY <1>1, <1>5 DEF st

\* A sleep call for n ticks that is promised p, which is nothing or what it asked.
LEMMA SleepInv ==
  ASSUME TimerIInv, NEW n \in Nat, n < WORD, Sleep(n), CpuInv',
         NEW p, p = 0 \/ (p = ticks + n /\ p < WORD),
         promised' = [promised EXCEPT ![current_thread] = p]
  PROVE  TimerIInv'
<1> DEFINE c == current_thread
           d == (ticks + n) % WORD
<1>1. /\ c \in Workers
      /\ state[c] # "blocked"
      /\ Block => BlockedIn([state EXCEPT ![c] = "blocked"])
  BY SleepBlocks DEF TimerIInv, Sleep
<1>2. /\ WORD \in Nat /\ MaxTicks \in Nat /\ MaxTicks < WORD
      /\ ticks \in Nat /\ ticks <= MaxTicks
  BY TimerAssumption DEF TimerIInv
<1>3. /\ ticks' = ticks
      /\ ticks + n <= MaxTicks \/ ticks + n >= WORD
      /\ sleep_until(d)
  BY DEF Sleep
<1>4. /\ d \in Nat
      /\ ticks < d => d = ticks + n /\ d <= MaxTicks
      /\ ticks >= d => p <= ticks
  <2>1. /\ d \in Nat
        /\ ticks + n < WORD => d = ticks + n
        /\ WORD <= ticks + n /\ ticks + n < 2 * WORD => d = ticks + n - WORD
    <3>1. WORD \in Nat \ {0} /\ ticks + n \in Nat
      BY <1>2
    <3>2. IsRemainder(d, ticks + n, WORD)
      BY <3>1, Remainder
    <3> HIDE DEF d
    <3> QED BY <1>2, <3>1, <3>2 DEF IsRemainder
  <2> HIDE DEF d
  <2> QED BY <2>1, <1>2, <1>3
<1> HIDE DEF d
<1>5. p \in Nat /\ promised' \in [Workers -> Nat]
  BY <1>1, <1>2 DEF TimerIInv
<1>6. ~Sleeper(c)
  BY Zenon, <1>1 DEF TimerIInv
<1>7. CASE ticks >= d /\ UNCHANGED <<vars, timer_queue>>
  <2>1. timer_queue' = timer_queue /\ state' = state /\ p <= ticks
    BY <1>4, <1>7 DEF vars, rqVars
  <2>2. Queued' = Queued
    BY <2>1 DEF Queued, InList
  <2>3. \A t : Sleeper(t)' <=> Sleeper(t)
    BY <2>2 DEF Sleeper
  <2>4. ASSUME NEW t \in Workers PROVE Promised(t)'
    <3>1. CASE t = c
      BY <3>1, <2>1, <1>3, <1>5 DEF Promised, TimerIInv
    <3>2. CASE t # c
      BY Zenon, <3>2, <2>2, <1>3 DEF Promised, TimerIInv
    <3> QED BY <3>1, <3>2
  <2>5. WellFormed(timer_queue)'
    BY Zenon, <2>1 DEF TimerIInv, WellFormed
  <2>6. \A e \in Queued' : ticks' < e.deadline /\ e.deadline <= MaxTicks
    BY <2>2, <1>3 DEF TimerIInv
  <2> QED BY <2>1, <2>3, <2>4, <2>5, <2>6, <1>3, <1>5 DEF TimerIInv
<1>8. ASSUME ticks < d,
             timer_queue' = InsertSorted(timer_queue, [thread |-> c, deadline |-> d]),
             Block
      PROVE  TimerIInv'
  <2> DEFINE e == [thread |-> c, deadline |-> d]
  <2>1. d = ticks + n /\ d <= MaxTicks /\ d < WORD /\ p <= d
    BY <1>2, <1>4, <1>5, <1>8
  <2>2. e \in Entries /\ e.thread = c /\ e.deadline = d
    <3>1. d \in 0..(WORD - 1)
      BY <2>1, <1>2, <1>4
    <3> QED BY Zenon, <3>1, <1>1 DEF Entries
  <2> HIDE DEF e
  <2>3. \A x \in Entries : InList(timer_queue, x) => x.thread # e.thread
    BY <2>2, <1>6 DEF Sleeper, Queued
  <2>4. /\ WellFormed(timer_queue')
        /\ \A x \in Entries : InList(timer_queue', x) <=> InList(timer_queue, x) \/ x = e
    <3>1. WellFormed(timer_queue) /\ timer_queue' = InsertSorted(timer_queue, e)
      BY <1>8 DEF TimerIInv, e
    <3> QED BY Zenon, <3>1, <2>2, <2>3, SleepInserts
  <2>5. Queued' = Queued \cup {e}
    BY <2>2, <2>4 DEF Queued
  <2>6. \A x \in Queued' : ticks' < x.deadline /\ x.deadline <= MaxTicks
    BY Zenon, <2>1, <2>2, <2>5, <1>3, <1>8 DEF TimerIInv
  <2>7. ASSUME NEW t \in Workers PROVE state'[t] = "blocked" <=> Sleeper(t)'
    <3>1. state'[t] = "blocked" <=> state[t] = "blocked" \/ t = c
      <4>1. BlockedIn([state EXCEPT ![c] = "blocked"])
        BY <1>1, <1>8
      <4>2. state \in [Threads -> States] /\ t \in Threads
        BY Zenon, CpuFacts DEF TimerIInv
      <4> QED BY <4>1, <4>2 DEF BlockedIn
    <3>2. Sleeper(t)' <=> Sleeper(t) \/ t = c
      BY <2>2, <2>5 DEF Sleeper
    <3> QED BY Zenon, <3>1, <3>2 DEF TimerIInv
  <2>8. ASSUME NEW t \in Workers PROVE Promised(t)'
    <3>1. CASE t = c
      <4>1. promised'[t] = p /\ e \in Queued'
        BY <3>1, <1>1, <2>5 DEF TimerIInv
      <4> QED BY <3>1, <4>1, <2>1, <2>2 DEF Promised
    <3>2. CASE t # c
      <4>1. promised'[t] = promised[t]
        BY <3>2 DEF TimerIInv
      <4> QED BY Zenon, <4>1, <2>5, <1>3 DEF Promised, TimerIInv
    <3> QED BY <3>1, <3>2
  <2>9. WellFormed(timer_queue)'
    BY Zenon, <2>4 DEF WellFormed
  <2> QED BY Zenon, <2>6, <2>7, <2>8, <2>9, <1>3, <1>5 DEF TimerIInv
<1> QED BY <1>3, <1>7, <1>8 DEF sleep_until

\* A sleep call acts on the scheduler as module Scheduler allows.
LEMMA SleepIsSchedStep ==
  ASSUME NEW n, Sleep(n)
  PROVE  OnceNext \/ UNCHANGED vars
BY DEF Sleep, sleep_until, OnceNext

\* do_sleep and do_nanosleep: the ticks they sleep are the ticks they promise, unless the
\* arithmetic wraps around.
LEMMA CallsSleep ==
  ASSUME TimerIInv
  PROVE  /\ \A s \in Seconds : do_sleep(s) =>
              \E n \in Nat, p \in Nat :
                /\ n < WORD /\ Sleep(n)
                /\ p = 0 \/ (p = ticks + n /\ p < WORD)
                /\ promised' = [promised EXCEPT ![current_thread] = p]
         /\ \A ns \in Nanoseconds : do_nanosleep(ns) =>
              \E n \in Nat, p \in Nat :
                /\ n < WORD /\ Sleep(n)
                /\ p = 0 \/ (p = ticks + n /\ p < WORD)
                /\ promised' = [promised EXCEPT ![current_thread] = p]
<1>1. /\ WORD \in Nat \ {0} /\ HZ \in Nat /\ NsPerTick \in Nat \ {0}
      /\ Seconds \subseteq Nat /\ Nanoseconds \subseteq Nat
      /\ ticks \in Nat
  BY TimerAssumption DEF TimerIInv
<1>2. ASSUME NEW n \in Nat, n < WORD, Sleep(n), NEW asked, NEW wraps \in BOOLEAN,
             wraps \/ asked = n, Promise(asked, wraps)
      PROVE  \E m \in Nat, p \in Nat :
                /\ m < WORD /\ Sleep(m)
                /\ p = 0 \/ (p = ticks + m /\ p < WORD)
                /\ promised' = [promised EXCEPT ![current_thread] = p]
  <2> DEFINE p == IF wraps \/ ticks + asked >= WORD THEN 0 ELSE ticks + asked
  <2>1. p \in Nat /\ (p = 0 \/ (p = ticks + n /\ p < WORD))
    BY <1>1, <1>2
  <2>2. promised' = [promised EXCEPT ![current_thread] = p]
    BY <1>2 DEF Promise
  <2> HIDE DEF p
  <2> QED BY Zenon, <1>2, <2>1, <2>2
<1>3. ASSUME NEW s \in Seconds, do_sleep(s)
      PROVE  \E n \in Nat, p \in Nat :
                /\ n < WORD /\ Sleep(n)
                /\ p = 0 \/ (p = ticks + n /\ p < WORD)
                /\ promised' = [promised EXCEPT ![current_thread] = p]
  <2> DEFINE a == s * HZ
             r == a % WORD
  <2>1. a \in Nat
    BY <1>1
  <2>2. Sleep(r) /\ Promise(a, a >= WORD)
    BY <1>3 DEF do_sleep
  <2> HIDE DEF a
  <2>3. IsRemainder(r, a, WORD)
    BY <1>1, <2>1, Remainder
  <2> HIDE DEF r
  <2>4. r \in Nat /\ r < WORD /\ (a >= WORD \/ a = r)
    BY <1>1, <2>1, <2>3 DEF IsRemainder
  <2>5. (a >= WORD) \in BOOLEAN
    OBVIOUS
  <2> QED BY Zenon, <1>2, <2>2, <2>4, <2>5
<1>4. ASSUME NEW ns \in Nanoseconds, do_nanosleep(ns)
      PROVE  \E n \in Nat, p \in Nat :
                /\ n < WORD /\ Sleep(n)
                /\ p = 0 \/ (p = ticks + n /\ p < WORD)
                /\ promised' = [promised EXCEPT ![current_thread] = p]
  <2> DEFINE a == ns + NsPerTick - 1
             r == a % WORD
             n == r \div NsPerTick
  <2>1. a \in Nat
    BY <1>1
  <2>2. Sleep(n) /\ Promise(TicksFor(ns), a >= WORD)
    BY <1>4 DEF do_nanosleep
  <2>3. TicksFor(ns) = a \div NsPerTick
    BY <1>1, RoundsUp
  <2> HIDE DEF a
  <2>4. IsRemainder(r, a, WORD)
    BY <1>1, <2>1, Remainder
  <2> HIDE DEF r
  <2>5. r \in Nat /\ r < WORD /\ (a >= WORD \/ a = r)
    BY <1>1, <2>1, <2>4 DEF IsRemainder
  <2>6. n \in Nat /\ n * NsPerTick <= r
    BY <1>1, <2>5, DivIs
  <2>7. a >= WORD \/ TicksFor(ns) = n
    BY <2>3, <2>5
  <2> HIDE DEF n
  <2>8. n < WORD
    <3>1. n <= n * NsPerTick
      BY <1>1, <2>6
    <3>2. n * NsPerTick \in Nat
      BY <1>1, <2>6
    <3> QED BY <1>1, <2>5, <2>6, <3>1, <3>2
  <2>9. (a >= WORD) \in BOOLEAN
    OBVIOUS
  <2> QED BY Zenon, <1>2, <2>2, <2>6, <2>7, <2>8, <2>9
<1> QED BY <1>3, <1>4

\* A call that finds no memory promises nothing.
LEMMA NoMemoryInv ==
  ASSUME TimerIInv, SleepNoMemory, CpuInv'
  PROVE  TimerIInv'
<1>1. /\ ticks' = ticks /\ timer_queue' = timer_queue /\ state' = state
      /\ promised' = [promised EXCEPT ![current_thread] = 0]
  BY DEF SleepNoMemory, vars, rqVars
<1>2. Queued' = Queued
  BY <1>1 DEF Queued, InList
<1>3. \A t : Sleeper(t)' <=> Sleeper(t)
  BY <1>2 DEF Sleeper
<1>4. current_thread \in Workers
  BY SleepBlocks DEF TimerIInv, SleepNoMemory
<1>5. promised' \in [Workers -> Nat] /\ ticks \in Nat
  BY <1>1, <1>4, TimerAssumption DEF TimerIInv
<1>6. ASSUME NEW t \in Workers PROVE Promised(t)'
  <2>1. CASE t = current_thread
    <3>1. promised'[t] = 0
      BY <2>1, <1>1, <1>4 DEF TimerIInv
    <3>2. promised'[t] <= ticks'
      BY <3>1, <1>1, <1>5
    <3> QED BY Zenon, <3>2 DEF Promised
  <2>2. CASE t # current_thread
    BY <2>2, <1>1, <1>2 DEF Promised, TimerIInv
  <2> QED BY <2>1, <2>2
<1>7. WellFormed(timer_queue)'
  BY Zenon, <1>1 DEF TimerIInv, WellFormed
<1>8. \A e \in Queued' : ticks' < e.deadline /\ e.deadline <= MaxTicks
  BY <1>1, <1>2 DEF TimerIInv
<1> QED BY <1>1, <1>3, <1>5, <1>6, <1>7, <1>8 DEF TimerIInv

-----------------------------------------------------------------------------

(***************************************************************************)
(* The timer interrupt.                                                    *)
(***************************************************************************)

\* The positions in timer_queue that the loop takes.
DuePlaces == {i \in 1..Len(timer_queue) :
                Due(timer_queue[i]) /\ state[timer_queue[i].thread] = "blocked"}

\* The threads that timer_tick wakes are blocked, different from each other, and the threads
\* of the entries reached.
LEMMA WokenAre ==
  ASSUME TimerIInv
  PROVE  /\ WokenThreads \in Seq(Workers)
         /\ \A k \in 1..Len(WokenThreads) : state[WokenThreads[k]] = "blocked"
         /\ \A k, l \in 1..Len(WokenThreads) : WokenThreads[k] = WokenThreads[l] => k = l
         /\ \A t : (\E k \in 1..Len(WokenThreads) : WokenThreads[k] = t)
                     <=> \E e \in Reached : e.thread = t
<1> DEFINE q == timer_queue
           r == Select(q, DuePlaces)
           w == [k \in 1..Len(r) |-> r[k].thread]
<1>1. WokenThreads = w
  BY DEF WokenThreads, DuePlaces
<1>2. /\ WellFormed(r)
      /\ \A x : InList(r, x) <=> \E i \in 1..Len(q) : i \in DuePlaces /\ q[i] = x
  BY SelectKeeps DEF TimerIInv
<1> HIDE DEF r
<1>3. /\ r \in Seq(Entries)
      /\ \A k, l \in 1..Len(r) : r[k].thread = r[l].thread => k = l
  BY <1>2 DEF WellFormed
<1>4. Len(r) \in Nat /\ \A k \in 1..Len(r) : r[k] \in Entries /\ r[k].thread \in Workers
  BY <1>3, Deadlines
<1>5. w \in [1..Len(r) -> Workers]
  BY <1>4
<1>6. w \in Seq(Workers) /\ Len(w) = Len(r)
  BY <1>4, <1>5
<1>7. \A k \in 1..Len(r) : w[k] = r[k].thread
  OBVIOUS
<1> HIDE DEF w
<1>8. ASSUME NEW x PROVE InList(r, x) <=> x \in Reached
  <2>1. /\ timer_queue \in Seq(Entries)
        /\ \A i \in 1..Len(q) : q[i] \in Queued
        /\ \A e \in Queued : \E i \in 1..Len(q) : q[i] = e
    BY QueuedIs DEF TimerIInv
  <2>2. \A e \in Queued : e.thread \in Workers /\ state[e.thread] = "blocked"
    <3>1. ASSUME NEW e \in Queued PROVE e.thread \in Workers /\ Sleeper(e.thread)
      BY Deadlines DEF Queued, Sleeper
    <3> QED BY <3>1 DEF TimerIInv
  <2>3. ASSUME NEW i \in 1..Len(q) PROVE i \in DuePlaces <=> q[i] \in Reached
    BY <2>1, <2>2 DEF DuePlaces, Reached
  <2>4. x \in Reached => \E i \in 1..Len(q) : q[i] = x
    BY <2>1 DEF Reached
  <2> QED BY <1>2, <2>3, <2>4
<1>9. ASSUME NEW k \in 1..Len(r) PROVE r[k] \in Reached
  BY <1>8 DEF InList
<1>10. ASSUME NEW t
       PROVE  (\E k \in 1..Len(r) : w[k] = t) <=> \E e \in Reached : e.thread = t
  <2>1. ASSUME NEW e \in Reached PROVE \E k \in 1..Len(r) : r[k] = e
    BY <1>8 DEF InList
  <2> QED BY <1>7, <1>9, <2>1
<1>11. ASSUME NEW k \in 1..Len(r) PROVE state[w[k]] = "blocked"
  <2>1. r[k] \in Queued /\ w[k] = r[k].thread /\ r[k].thread \in Workers
    BY <1>4, <1>7, <1>9 DEF Reached
  <2>2. Sleeper(w[k])
    BY <2>1 DEF Sleeper
  <2> QED BY <2>1, <2>2 DEF TimerIInv
<1>12. \A k, l \in 1..Len(r) : w[k] = w[l] => k = l
  BY <1>3, <1>7
<1> QED BY <1>1, <1>6, <1>10, <1>11, <1>12

\* So the list is one that thread_unblock calls can wake.
LEMMA WokenListed ==
  ASSUME TimerIInv
  PROVE  WokenThreads \in WakeLists
<1> DEFINE w == WokenThreads
           n == Len(w)
           B == {t \in Threads : state[t] = "blocked"}
<1>1. /\ w \in Seq(Workers)
      /\ \A k \in 1..n : state[w[k]] = "blocked"
      /\ \A k, l \in 1..n : w[k] = w[l] => k = l
  BY WokenAre
<1> HIDE DEF w
<1>2. n \in Nat /\ w \in [1..n -> B]
  <2>1. n \in Nat /\ w \in [1..n -> Workers]
    BY <1>1
  <2>2. \A k \in 1..n : w[k] \in B
    BY <1>1, <2>1 DEF Threads
  <2> QED BY <2>1, <2>2
<1>3. IsFiniteSet(B)
  <2>1. IsFiniteSet(Threads)
    BY ThreadsAssumption, FS_AddElement DEF Threads, Workers
  <2> QED BY <2>1, FS_Subset
<1>4. n \in 0..Cardinality(B)
  <2>1. IsFiniteSet(1..n) /\ Cardinality(1..n) = n
    BY <1>2, FS_Interval
  <2>2. Cardinality(B) \in Nat
    BY <1>3, FS_CardinalityType
  <2>3. ~(Cardinality(B) < Cardinality(1..n))
    BY <1>1, <1>2, <1>3, <2>1, FS_PigeonHole
  <2> QED BY <1>2, <2>1, <2>2, <2>3
<1> HIDE DEF n, B
<1> DEFINE L(m) == {ts \in [1..m -> B] : \A i, j \in 1..m : ts[i] = ts[j] => i = j}
<1>5. w \in L(n)
  BY <1>1, <1>2 DEF n
<1>6. L(n) \in {L(m) : m \in 0..Cardinality(B)}
  BY <1>4, Zenon
<1>7. w \in UNION {L(m) : m \in 0..Cardinality(B)}
  <2> HIDE DEF L
  <2> QED BY <1>5, <1>6, Zenon
<1> QED BY <1>7, Zenon DEF WakeLists, B, w

\* A tick leaves the others in the queue, in their order.
LEMMA StillWaitingAre ==
  ASSUME TimerIInv, timer_queue' = StillWaiting
  PROVE  WellFormed(timer_queue') /\ Queued' = Queued \ Reached
<1> DEFINE q == timer_queue
           I == {i \in 1..Len(q) : ~Due(q[i])}
           r == Select(q, I)
<1>1. timer_queue' = r
  BY DEF StillWaiting
<1> HIDE DEF I
<1>2. /\ WellFormed(r)
      /\ \A x : InList(r, x) <=> \E i \in 1..Len(q) : i \in I /\ q[i] = x
  BY SelectKeeps DEF TimerIInv
<1> HIDE DEF r
<1>3. \A e \in Queued : \E i \in 1..Len(q) : q[i] = e
  BY QueuedIs DEF TimerIInv
<1>4. \A i \in 1..Len(q) : q[i] \in Queued
  BY QueuedIs DEF TimerIInv
<1>5. \A i \in 1..Len(q) : i \in I <=> q[i] \in Queued \ Reached
  BY <1>4 DEF I, Reached
<1>6. \A x \in Entries : InList(r, x) <=> x \in Queued \ Reached
  BY <1>2, <1>3, <1>5
<1> QED BY <1>1, <1>2, <1>6 DEF Queued

\* The timer interrupt unblocks the threads that timer_tick wakes, and no others.
LEMMA TickBlocked ==
  ASSUME TimerIInv, TimerInterrupt(WokenThreads)
  PROVE  \A t \in Workers :
           state'[t] = "blocked" <=> state[t] = "blocked" /\ ~\E e \in Reached : e.thread = t
<1> DEFINE ts == WokenThreads
<1>0. /\ state \in [Threads -> States]
      /\ Lists(ready_queue, ReadyIn(state))
      /\ Threads = Workers \cup {idle}
      /\ cycle = "none"
  BY Zenon, CpuFacts DEF TimerIInv
<1>1. ts \in WakeLists /\ RQInv
  BY WokenListed DEF TimerIInv, CpuInv
<1>2. \A t : (\E k \in 1..Len(ts) : ts[k] = t) <=> \E e \in Reached : e.thread = t
  BY WokenAre
<1> HIDE DEF ts
<1>3. PICK W \in SUBSET {t \in Workers : state[t] = "blocked"} :
           /\ Lists(ts, W)
           /\ Woken(ts) \in [Threads -> States]
           /\ \A t \in Threads : Woken(ts)[t] = IF t \in W THEN "ready" ELSE state[t]
  BY <1>1, WakeListsList
<1>4. /\ ReadyIn(Woken(ts)) = ReadyIn(state) \cup W
      /\ ReadyIn(state) \cap W = {}
  BY <1>0, <1>3 DEF ReadyIn
<1>5. Lists(ready_queue \o ts, ReadyIn(Woken(ts)))
  BY <1>0, <1>3, <1>4, ListsConcat
<1>6. schedule(Woken(ts), ready_queue \o ts, "none")
  BY <1>0 DEF TimerInterrupt, Reschedule, Appended, ts
<1>7. BlockedIn(Woken(ts))
  BY Zenon, <1>3, <1>5, <1>6, ScheduleKeepsBlocked
<1>8. \A t : t \in W <=> \E k \in 1..Len(ts) : ts[k] = t
  BY <1>3 DEF Lists
<1> QED BY Zenon, <1>0, <1>2, <1>3, <1>7, <1>8 DEF BlockedIn

\* timer_tick keeps the invariant.
LEMMA TickInv ==
  ASSUME TimerIInv, timer_tick, CpuInv'
  PROVE  TimerIInv'
<1>1. /\ ticks' = NextTick /\ timer_queue' = StillWaiting /\ promised' = promised
      /\ TimerInterrupt(WokenThreads)
  BY DEF timer_tick
<1>2. WellFormed(timer_queue') /\ Queued' = Queued \ Reached
  BY <1>1, StillWaitingAre
<1>3. ticks' \in 0..MaxTicks /\ ticks <= ticks' /\ ticks \in Nat /\ ticks' \in Nat
  BY <1>1, TimerAssumption DEF NextTick, TimerIInv
<1>4. ASSUME NEW e \in Queued
      PROVE  e.deadline \in Nat /\ (e \in Reached <=> ticks' >= e.deadline)
  BY <1>1, Deadlines DEF Queued, Reached, Due
<1>5. ASSUME NEW e \in Queued' PROVE ticks' < e.deadline /\ e.deadline <= MaxTicks
  <2>1. e \in Queued /\ e \notin Reached
    BY <1>2
  <2>2. e.deadline \in Nat /\ ~(ticks' >= e.deadline)
    BY <2>1, <1>4
  <2> QED BY <2>1, <2>2, <1>3 DEF TimerIInv
<1>6. ASSUME NEW t \in Workers PROVE state'[t] = "blocked" <=> Sleeper(t)'
  <2>1. state'[t] = "blocked" <=> Sleeper(t) /\ ~\E e \in Reached : e.thread = t
    BY Zenon, <1>1, TickBlocked DEF TimerIInv
  <2>2. ASSUME NEW d \in Queued, NEW e \in Queued, d.thread = e.thread PROVE d = e
    <3>1. \E i \in 1..Len(timer_queue) : timer_queue[i] = d
      BY Zenon, QueuedIs DEF TimerIInv
    <3>2. \E i \in 1..Len(timer_queue) : timer_queue[i] = e
      BY QueuedIs DEF TimerIInv
    <3>3. \A i, j \in 1..Len(timer_queue) :
            timer_queue[i].thread = timer_queue[j].thread => i = j
      BY DEF TimerIInv, WellFormed
    <3> QED BY <2>2, <3>1, <3>2, <3>3
  <2>3. Sleeper(t)' <=> \E e \in Queued \ Reached : e.thread = t
    BY <1>2 DEF Sleeper
  <2>4. Reached \subseteq Queued
    BY DEF Reached
  <2> QED BY <2>1, <2>2, <2>3, <2>4 DEF Sleeper
<1>7. ASSUME NEW t \in Workers PROVE Promised(t)'
  <2>1. promised[t] \in Nat /\ promised'[t] = promised[t]
    BY <1>1 DEF TimerIInv
  <2>2. CASE promised[t] <= ticks
    <3>1. promised'[t] <= ticks'
      BY <2>1, <2>2, <1>3
    <3> QED BY Zenon, <3>1 DEF Promised
  <2>3. CASE \E e \in Queued : e.thread = t /\ promised[t] <= e.deadline
    <3>1. PICK e \in Queued : e.thread = t /\ promised[t] <= e.deadline
      BY <2>3
    <3>2. CASE e \in Reached
      <4>1. promised[t] <= ticks'
        BY <3>1, <3>2, <2>1, <1>3, <1>4
      <4> QED BY <4>1, <2>1 DEF Promised
    <3>3. CASE e \notin Reached
      <4>1. e \in Queued'
        BY <3>3, <1>2
      <4> QED BY <4>1, <3>1, <2>1 DEF Promised
    <3> QED BY <3>2, <3>3
  <2> QED BY Zenon, <2>2, <2>3 DEF Promised, TimerIInv
<1>8. WellFormed(timer_queue)'
  BY <1>2 DEF WellFormed
<1> QED BY Zenon, <1>1, <1>3, <1>5, <1>6, <1>7, <1>8 DEF TimerIInv

-----------------------------------------------------------------------------

\* Every step of the timer acts on the scheduler as module Scheduler allows: what timer_tick
\* passes to it is a list of blocked threads.
LEMMA TimerStepIsSchedStep ==
  ASSUME TimerIInv, TimerNext
  PROVE  OnceNext \/ UNCHANGED vars
<1>1. CASE OtherStep
  BY <1>1, OtherStepEffect DEF TimerIInv
<1>2. ASSUME NEW s \in Seconds, do_sleep(s) PROVE OnceNext \/ UNCHANGED vars
  BY <1>2, SleepIsSchedStep DEF do_sleep
<1>3. ASSUME NEW ns \in Nanoseconds, do_nanosleep(ns) PROVE OnceNext \/ UNCHANGED vars
  BY <1>3, SleepIsSchedStep DEF do_nanosleep
<1>4. CASE SleepNoMemory
  BY <1>4 DEF SleepNoMemory
<1>5. CASE timer_tick
  BY <1>5, WokenListed DEF timer_tick, OnceNext
<1> QED BY <1>1, <1>2, <1>3, <1>4, <1>5 DEF TimerNext

\* Every step of the timer keeps the invariant.
LEMMA TimerNextInv ==
  ASSUME TimerIInv, TimerNext
  PROVE  TimerIInv'
<1>0. CpuInv'
  BY CpuStutter, OnceNextInv, TimerStepIsSchedStep DEF TimerIInv
<1>1. CASE OtherStep
  BY Zenon, <1>0, <1>1, OtherStepEffect, OtherStepInv DEF OtherStep, TimerIInv
<1>2. ASSUME \E n \in Nat, p \in Nat :
                /\ n < WORD /\ Sleep(n)
                /\ p = 0 \/ (p = ticks + n /\ p < WORD)
                /\ promised' = [promised EXCEPT ![current_thread] = p]
      PROVE  TimerIInv'
  BY Zenon, <1>0, <1>2, SleepInv
<1>3. ASSUME NEW s \in Seconds, do_sleep(s) PROVE TimerIInv'
  BY <1>2, <1>3, CallsSleep
<1>4. ASSUME NEW ns \in Nanoseconds, do_nanosleep(ns) PROVE TimerIInv'
  BY <1>2, <1>4, CallsSleep
<1>5. CASE SleepNoMemory
  BY <1>0, <1>5, NoMemoryInv
<1>6. CASE timer_tick
  BY <1>0, <1>6, TickInv
<1> QED BY <1>1, <1>3, <1>4, <1>5, <1>6 DEF TimerNext

\* At boot nobody sleeps.
LEMMA TimerInitInv ==
  ASSUME TimerInit
  PROVE  TimerIInv
<1>1. CpuInv
  BY SchedInitInv DEF TimerInit
<1>2. ticks = 0 /\ timer_queue = <<>> /\ promised = [t \in Workers |-> 0]
  BY DEF TimerInit
<1>3. WellFormed(timer_queue) /\ Queued = {}
  BY <1>2 DEF WellFormed, Queued, InList
<1>4. ASSUME NEW t \in Workers PROVE state[t] # "blocked"
  BY DEF TimerInit, SchedInit, RQInit, Threads
<1>5. ticks \in 0..MaxTicks
  BY <1>2, TimerAssumption
<1>6. promised \in [Workers -> Nat] /\ \A t \in Workers : promised[t] <= ticks
  BY <1>2
<1> QED BY <1>1, <1>3, <1>4, <1>5, <1>6 DEF TimerIInv, Sleeper, Promised

\* The invariant holds always.
THEOREM TimerAlways == TimerSpec => []TimerIInv
<1>1. TimerInit => TimerIInv
  BY TimerInitInv
<1>2. TimerIInv /\ UNCHANGED allVars => TimerIInv'
  <2> SUFFICES ASSUME TimerIInv, UNCHANGED allVars PROVE TimerIInv'
    OBVIOUS
  <2>1. UNCHANGED vars /\ UNCHANGED timerVars
    BY DEF allVars
  <2>2. CpuInv'
    BY <2>1, CpuStutter DEF TimerIInv
  <2>3. BlockedIn(state)
    BY <2>1 DEF BlockedIn, vars, rqVars
  <2> QED BY <2>1, <2>2, <2>3, OtherStepInv
<1>3. TimerIInv /\ [TimerNext]_allVars => TimerIInv'
  BY <1>2, TimerNextInv
<1> QED BY <1>1, <1>3, PTL DEF TimerSpec

\* timer_queue stays sorted, holds one entry for each blocked thread and no other, and no
\* entry that a tick has passed, whatever the order of sleeps, ticks and exits.
THEOREM TimerQueueCorrect == TimerSpec => []TimerInv
<1>1. TimerIInv => TimerInv
  BY TimerIInvInv
<1> QED BY <1>1, TimerAlways, PTL

\* No sleep ends before the tick it was promised to last to, for every tick rate and request:
\* do_nanosleep rounds up, and only a request that wraps around 2^64 ends early.
THEOREM SleepsLongEnough == TimerSpec => []SleptEnough
<1>1. TimerIInv => SleptEnough
  BY TimerIInvInv
<1> QED BY <1>1, TimerAlways, PTL

\* The timer uses the scheduler as module Scheduler allows.
THEOREM TimerUsesScheduler == TimerSpec => UsesScheduler
<1>1. TimerInit => SchedInit
  BY DEF TimerInit
<1>2. TimerIInv /\ [TimerNext]_allVars => [SchedNext]_vars
  BY TimerStepIsSchedStep DEF allVars, SchedNext
<1> QED BY <1>1, <1>2, TimerAlways, PTL DEF TimerSpec, UsesScheduler, SchedSpec
=============================================================================
