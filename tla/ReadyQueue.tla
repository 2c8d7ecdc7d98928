----------------------------- MODULE ReadyQueue -----------------------------
(***************************************************************************)
(* The thread table and the ready queue of src/kernel/scheduler.c: what    *)
(* the scheduler promises its callers.  The singly linked list of the code *)
(* (ready_queue, thread_t.next) is here the sequence of the threads it     *)
(* links; module ReadyList models the pointers and implements this module. *)
(*                                                                         *)
(* elf_load and sys_exec add their thread twice; its next pointer then is  *)
(* the thread itself, and what was linked behind it is lost.  A walk to    *)
(* the tail of such a list does not end: the operation that begins it is   *)
(* no step here, and the CPU does nothing more.                            *)
(*                                                                         *)
(* Every operation runs on the only CPU with interrupts masked (module     *)
(* Scheduler proves it), so each is one step.                              *)
(***************************************************************************)
EXTENDS Naturals, Sequences, FiniteSets

CONSTANTS
  Kthreads,  \* threads made by thread_create: kernel code, kernel_cr3
  Uthreads,  \* threads made by thread_create_user: ring 3, own page tables
  idle       \* idle_thread_ptr

ASSUME ThreadsAssumption ==
  /\ IsFiniteSet(Kthreads \cup Uthreads)
  /\ Kthreads \cap Uthreads = {}
  /\ idle \notin Kthreads \cup Uthreads

Workers == Kthreads \cup Uthreads
Threads == Workers \cup {idle}

VARIABLES
  state,          \* thread_t.state; "unborn" before the thread is created
  ready_queue,    \* the threads linked from ready_queue, first to run first
  current_thread, \* current_thread
  cycle           \* "none": each thread was added once; "tail": the last thread
                  \* of ready_queue is its own next; "cut": it was, and cleared
                  \* its next pointer when it exited

rqVars == <<state, ready_queue, current_thread, cycle>>

States == {"unborn", "ready", "running", "blocked", "exited"}

(***************************************************************************)
(* scheduler_init: the idle thread is created READY, taken out of the      *)
(* queue by resetting it, and made current without being marked RUNNING.   *)
(***************************************************************************)
RQInit ==
  /\ state = [t \in Threads |-> IF t = idle THEN "ready" ELSE "unborn"]
  /\ ready_queue = <<>>
  /\ current_thread = idle
  /\ cycle = "none"

-----------------------------------------------------------------------------

\* thread_create, thread_create_user: a READY thread, added by
\* scheduler_add_thread at the head of the queue.
scheduler_add_thread(t) ==
  /\ state[t] = "unborn"
  /\ state' = [state EXCEPT ![t] = "ready"]
  /\ ready_queue' = <<t>> \o ready_queue
  /\ UNCHANGED <<current_thread, cycle>>

\* elf_load: load_raw has added the thread, and the second scheduler_add_thread
\* makes it its own next.
elf_load(t) ==
  /\ state[t] = "unborn"
  /\ state' = [state EXCEPT ![t] = "ready"]
  /\ ready_queue' = <<t>>
  /\ cycle' = "tail"
  /\ UNCHANGED current_thread

\* The threads ts are appended to queue q, with cycle c.  Each clears its own next
\* pointer and walks to the tail: without end if the last thread is its own
\* next, unless that thread is the one appended, which then is so again.
Appended(q, ts, c) == IF c = "tail" THEN q ELSE q \o ts
WalkEnds(q, ts, c) == c = "tail" => \A i \in 1..Len(ts) : ts[i] = q[Len(q)]

\* The states after thread_unblock has run on every thread of ts in turn.
Woken(ts) ==
  [t \in Threads |-> IF \E i \in 1..Len(ts) : ts[i] = t THEN "ready" ELSE state[t]]

\* The lists of threads that a run of thread_unblock calls can wake:
\* thread_unblock ignores a thread that is not BLOCKED.
WakeLists ==
  LET blocked == {t \in Threads : state[t] = "blocked"}
  IN  UNION {{ts \in [1..n -> blocked] : \A i, j \in 1..n : ts[i] = ts[j] => i = j}
               : n \in 0..Cardinality(blocked)}

\* Mutants: the woken thread goes to the head; it is not linked at all; an
\* exited thread is woken.
thread_unblock_AtHead(t) ==
  /\ state[t] = "blocked"
  /\ state' = [state EXCEPT ![t] = "ready"]
  /\ ready_queue' = <<t>> \o ready_queue
  /\ UNCHANGED <<current_thread, cycle>>
thread_unblock_Unlinked(t) ==
  /\ state[t] = "blocked"
  /\ state' = [state EXCEPT ![t] = "ready"]
  /\ UNCHANGED <<ready_queue, current_thread, cycle>>
thread_unblock_Exited(t) ==
  /\ state[t] \in {"blocked", "exited"}
  /\ state' = [state EXCEPT ![t] = "ready"]
  /\ ready_queue' = Append(ready_queue, t)
  /\ UNCHANGED <<current_thread, cycle>>

thread_unblock(t) ==
  /\ state[t] = "blocked"
  /\ WalkEnds(ready_queue, <<t>>, cycle)
  /\ state' = [state EXCEPT ![t] = "ready"]
  /\ ready_queue' = Appended(ready_queue, <<t>>, cycle)
  /\ UNCHANGED <<current_thread, cycle>>

(***************************************************************************)
(* schedule(), entered with thread states st, queue q and cycle c: the     *)
(* head of the queue runs next, the idle thread when the queue is empty;   *)
(* the current thread goes to the tail if it is still RUNNING and is not   *)
(* the idle one.  A thread that is its own next stays when it is taken.    *)
(***************************************************************************)
schedule(st, q, c) ==
  LET cur     == current_thread
      next    == IF q = <<>> THEN idle ELSE Head(q)
      rest    == IF q = <<>> \/ (c = "tail" /\ Len(q) = 1) THEN q ELSE Tail(q)
      requeue == st[cur] = "running" /\ cur # idle
  IN  /\ requeue => WalkEnds(rest, <<cur>>, c)
      /\ ready_queue' = IF requeue THEN Appended(rest, <<cur>>, c) ELSE rest
      /\ state' = [t \in Threads |->
                     IF t = next THEN "running"
                     ELSE IF t = cur /\ requeue THEN "ready"
                     ELSE st[t]]
      /\ current_thread' = next
      /\ cycle' = c

\* thread_block: the current thread is BLOCKED, then schedule().
thread_block ==
  /\ current_thread # idle
  /\ schedule([state EXCEPT ![current_thread] = "blocked"], ready_queue, cycle)

\* thread_exit: state 0 and next NULL, then schedule(), which is not to come back.
thread_exit ==
  LET last == cycle = "tail" /\ current_thread = ready_queue[Len(ready_queue)]
  IN  /\ current_thread # idle
      /\ schedule([state EXCEPT ![current_thread] = "exited"], ready_queue,
                  IF last THEN "cut" ELSE cycle)

\* sys_exec: the new thread is added twice, then thread_exit.
sys_exec(t) ==
  /\ current_thread \in Uthreads
  /\ state[t] = "unborn"
  /\ schedule([state EXCEPT ![t] = "ready", ![current_thread] = "exited"], <<t>>, "tail")

\* Mutant: the threads timer_tick wakes are marked and not linked.
Reschedule_Unlinked(ts) == schedule(Woken(ts), ready_queue, cycle)

\* schedule() called by SYS_yield (nothing woken) or by the timer interrupt
\* after timer_tick has unblocked the threads ts, in that order.
Reschedule(ts) ==
  /\ WalkEnds(ready_queue, ts, cycle)
  /\ schedule(Woken(ts), Appended(ready_queue, ts, cycle), cycle)

RQNext ==
  \/ \E t \in Workers : scheduler_add_thread(t)
  \/ \E t \in Uthreads : elf_load(t) \/ sys_exec(t)
  \/ \E t \in Workers : thread_unblock(t)
  \/ thread_block
  \/ thread_exit
  \/ \E ts \in WakeLists : Reschedule(ts)

RQSpec == RQInit /\ [][RQNext]_rqVars

-----------------------------------------------------------------------------

\* Types of the scheduler's own state.
RQTypeOK ==
  /\ state \in [Threads -> States]
  /\ ready_queue \in Seq(Workers)
  /\ current_thread \in Threads
  /\ cycle \in {"none", "tail", "cut"}

\* Every thread has been added to the queue once: no program came from elf_load
\* or sys_exec so far.
AddedOnce == cycle = "none"

\* The queue links every READY worker exactly once and nothing else: no
\* thread is lost, none runs twice per turn, no blocked, exited or running
\* thread is dispatched from it.
QueueExact ==
  /\ \A i, j \in 1..Len(ready_queue) : ready_queue[i] = ready_queue[j] => i = j
  /\ \A t \in Workers :
       (state[t] = "ready") <=> (\E i \in 1..Len(ready_queue) : ready_queue[i] = t)

\* A worker is RUNNING exactly while it is the current thread.  (The idle
\* thread is current with state READY until the first schedule(), and stays
\* RUNNING ever after, also while a worker runs.)
OneRunning ==
  /\ \A t \in Workers : state[t] = "running" <=> t = current_thread
  /\ state[idle] \in {"ready", "running"}

\* A waiting thread is overtaken only by threads created after it queued
\* (scheduler_add_thread inserts at the head); thread_unblock and schedule()
\* insert at the tail and keep the order of those already waiting.
NoOvertaking ==
  [][\A i \in 1..Len(ready_queue), j, k \in 1..Len(ready_queue') :
       (ready_queue'[k] = ready_queue[i] /\ j < k) =>
          \/ state[ready_queue'[j]] = "unborn"
          \/ \E h \in 1..(i - 1) : ready_queue[h] = ready_queue'[j]]_rqVars

\* A thread that has exited is never current, queued or revived: the code
\* after schedule() in thread_exit is __builtin_unreachable.  (Not so once elf.c
\* has added a thread twice, see ExitDoesNotReturn of module ReadyList.)
ExitIsFinal ==
  [][\A t \in Threads :
       AddedOnce /\ state[t] = "exited" => state'[t] = "exited" /\ current_thread' # t]_rqVars
=============================================================================
