-------------------------------- MODULE Timer --------------------------------
(***************************************************************************)
(* timer.c and the sleep system calls of syscalls.c, on the scheduler: the *)
(* tick counter, the queue of sleeping threads sorted by deadline, and the *)
(* timer interrupt that wakes them.                                        *)
(*                                                                         *)
(* Counters are 64-bit in the code; WORD stands for 2^64.  Every thread is *)
(* added to the ready queue once: elf.c's second add is left out here, see *)
(* modules Scheduler and Syscall.                                          *)
(***************************************************************************)
EXTENDS Scheduler

CONSTANTS
  WORD,         \* 2^64
  HZ,           \* ticks per second: 100
  NsPerTick,    \* nanoseconds per tick: 10000000
  Seconds,      \* arguments of SYS_sleep
  Nanoseconds,  \* arguments of SYS_nanosleep
  MaxTicks      \* bound: no thread asks to be woken after this tick

ASSUME TimerAssumption ==
  /\ WORD \in Nat /\ HZ \in Nat /\ NsPerTick \in Nat \ {0}
  /\ Seconds \subseteq Nat /\ Nanoseconds \subseteq Nat
  /\ MaxTicks \in Nat /\ MaxTicks < WORD

VARIABLES
  ticks,        \* ticks
  timer_queue,  \* the entries linked from timer_queue: [thread, deadline]
  promised      \* history: the tick before which each thread's last sleep must
                \* not end; 0 if the call promises nothing (see Promise)

timerVars == <<ticks, timer_queue, promised>>
allVars == <<vars, timerVars>>

Entries == [thread : Workers, deadline : 0..(WORD - 1)]

TimerInit ==
  /\ SchedInit
  /\ ticks = 0
  /\ timer_queue = <<>>
  /\ promised = [t \in Workers |-> 0]

-----------------------------------------------------------------------------

\* The insertion loop of sleep_until: before the first entry whose deadline
\* is not smaller.
InsertSorted(q, e) ==
  LET k == CHOOSE k \in 0..Len(q) :
             /\ \A i \in 1..k : q[i].deadline < e.deadline
             /\ k < Len(q) => q[k + 1].deadline >= e.deadline
  IN  SubSeq(q, 1, k) \o <<e>> \o SubSeq(q, k + 1, Len(q))

\* Mutant: the thread is marked BLOCKED and runs on.
sleep_until_NoSwitch(d) ==
  /\ timer_queue' = InsertSorted(timer_queue, [thread |-> current_thread, deadline |-> d])
  /\ state' = [state EXCEPT ![current_thread] = "blocked"]
  /\ UNCHANGED <<ready_queue, current_thread, cycle, cpuVars>>

\* sleep_until(d), called in a system call: a deadline already reached, or no
\* memory for the entry, returns at once; otherwise the thread is queued and
\* blocked.
sleep_until(d) ==
  \/ /\ ticks >= d
     /\ UNCHANGED <<vars, timer_queue>>
  \/ /\ ticks < d
     /\ timer_queue' = InsertSorted(timer_queue, [thread |-> current_thread, deadline |-> d])
     /\ Block

\* For the history: the caller asked for at least this many ticks; a request
\* that wraps around 2^64 is promised nothing.
Promise(asked, wraps) ==
  promised' = [promised EXCEPT ![current_thread] =
                 IF wraps \/ ticks + asked >= WORD THEN 0 ELSE ticks + asked]

\* A sleep system call for n ticks.
Sleep(n) ==
  /\ Here = "handler"
  /\ ticks + n <= MaxTicks \/ ticks + n >= WORD
  /\ sleep_until((ticks + n) % WORD)
  /\ UNCHANGED ticks

do_sleep(seconds) ==
  /\ Sleep((seconds * HZ) % WORD)
  /\ Promise(seconds * HZ, seconds * HZ >= WORD)

\* The least number of ticks not shorter than ns nanoseconds.
TicksFor(ns) == CHOOSE n \in 0..ns : n * NsPerTick >= ns /\ (n = 0 \/ (n - 1) * NsPerTick < ns)

\* Mutant: nanoseconds are rounded down.
do_nanosleep_RoundsDown(ns) ==
  /\ Sleep(ns \div NsPerTick)
  /\ Promise(TicksFor(ns), FALSE)

do_nanosleep(ns) ==
  LET rounded == ns + NsPerTick - 1
  IN  /\ Sleep((rounded % WORD) \div NsPerTick)
      /\ Promise(TicksFor(ns), rounded >= WORD)

\* sleep_until without memory for the entry: the call returns, nothing slept.
SleepNoMemory ==
  /\ Here = "handler"
  /\ promised' = [promised EXCEPT ![current_thread] = 0]
  /\ UNCHANGED <<vars, ticks, timer_queue>>

(***************************************************************************)
(* The timer interrupt with timer_tick: the counter advances, and every    *)
(* entry whose deadline is reached is unlinked and its thread unblocked,   *)
(* in queue order.  At MaxTicks nothing is left in the queue, and later    *)
(* ticks are not counted.                                                  *)
(***************************************************************************)
NextTick == IF ticks < MaxTicks THEN ticks + 1 ELSE ticks

\* Mutant: the deadline is compared with the counter before it advances.
Due_Late(e) == ticks >= e.deadline

Due(e) == NextTick >= e.deadline

\* The entries of q at the positions I, in the order of q: the loop over the list.
Select(q, I) ==
  LET f[n \in 0..Len(q)] ==
        IF n = 0 THEN <<>> ELSE IF n \in I THEN Append(f[n - 1], q[n]) ELSE f[n - 1]
  IN  f[Len(q)]

\* Mutant: one thread is woken per tick.
WokenThreads_One ==
  LET due == Select(timer_queue, {i \in 1..Len(timer_queue) : Due(timer_queue[i])})
  IN  IF due = <<>> THEN <<>> ELSE <<due[1].thread>>

WokenThreads ==
  LET woken == Select(timer_queue,
                      {i \in 1..Len(timer_queue) :
                         Due(timer_queue[i]) /\ state[timer_queue[i].thread] = "blocked"})
  IN  [k \in 1..Len(woken) |-> woken[k].thread]

StillWaiting ==
  Select(timer_queue, {i \in 1..Len(timer_queue) : ~Due(timer_queue[i])})

timer_tick ==
  /\ TimerInterrupt(WokenThreads)
  /\ ticks' = NextTick
  /\ timer_queue' = StillWaiting
  /\ UNCHANGED promised

-----------------------------------------------------------------------------

\* Steps of the scheduler that the timer has no part in.  No driver has
\* registered IRQ 0 here, so the rest of the interrupt wakes nobody.
OtherStep ==
  /\ \/ \E t \in Kthreads : thread_create(t)
     \/ \E t \in Uthreads : thread_create_user(t)
     \/ enable_interrupts
     \/ kernel_entry
     \/ userspace_entry
     \/ syscall_entry
     \/ syscall_return
     \/ UNCHANGED rqVars /\ isr_return
     \/ Yield
     \/ Exit
  /\ UNCHANGED timerVars

TimerNext ==
  \/ OtherStep
  \/ \E s \in Seconds : do_sleep(s)
  \/ \E ns \in Nanoseconds : do_nanosleep(ns)
  \/ SleepNoMemory
  \/ timer_tick

TimerSpec == TimerInit /\ [][TimerNext]_allVars

\* Fairness as in Scheduler.
TimerFairSpec ==
  /\ TimerSpec
  /\ WF_allVars(enable_interrupts /\ UNCHANGED timerVars)
  /\ WF_allVars(Resume /\ UNCHANGED <<rqVars, timerVars>>)
  /\ SF_allVars(timer_tick)

-----------------------------------------------------------------------------

\* Types; the tick counter stays below the bound on deadlines.
TimerTypeOK ==
  /\ SchedTypeOK
  /\ ticks \in 0..MaxTicks
  /\ timer_queue \in Seq(Entries)
  /\ promised \in [Workers -> Nat]

\* The queue is sorted, although entries are inserted between ticks, in any
\* order, and unlinked from the middle of the list.
Sorted ==
  \A i, j \in 1..Len(timer_queue) :
    i < j => timer_queue[i].deadline <= timer_queue[j].deadline

\* Every blocked thread has one entry and every entry a blocked thread: no
\* wake-up is lost between the queueing and thread_block, none is left over
\* to wake the thread from a later wait.
SleepersQueued ==
  /\ \A i, j \in 1..Len(timer_queue) :
       timer_queue[i].thread = timer_queue[j].thread => i = j
  /\ \A t \in Workers :
       (state[t] = "blocked") <=> (\E i \in 1..Len(timer_queue) : timer_queue[i].thread = t)

\* No sleeper is left behind by the tick that reaches its deadline.
NothingOverdue == \A i \in 1..Len(timer_queue) : timer_queue[i].deadline > ticks

\* timer_queue is well formed through every order of sleep_until and timer_tick:
\* sorted, with one entry for each blocked thread, and none of them overdue.
TimerInv == TimerTypeOK /\ Sorted /\ SleepersQueued /\ NothingOverdue

\* A sleep that has ended was as long as asked, unless its arithmetic had
\* wrapped around 2^64 or no memory was left for its entry.
SleptEnough ==
  \A t \in Workers : state[t] \in {"ready", "running"} => ticks >= promised[t]

\* The timer uses the scheduler as module Scheduler allows: so what is proved
\* of SchedSpec holds with the timer.
UsesScheduler == SchedSpec

\* timer.c, sleep_until: the thread "will be woken by timer_tick".  It is, if the
\* idle thread gets the CPU again and again: ticks reach no other thread.
SleepersWakeIfIdle ==
  ([]<>(current_thread = idle)) =>
    \A t \in Workers : (state[t] = "blocked") ~> (state[t] # "blocked")
=============================================================================
