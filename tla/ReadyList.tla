------------------------------ MODULE ReadyList ------------------------------
(***************************************************************************)
(* The ready queue as scheduler.c keeps it: a head pointer and a next      *)
(* pointer in each thread_t, walked to its end to append.  ListSpec, where *)
(* each thread is added once by thread_create or thread_create_user,       *)
(* implements ReadyQueue.  ElfSpec is the kernel in which user programs    *)
(* come from elf_load and sys_exec, which add their thread a second time.  *)
(***************************************************************************)
EXTENDS Naturals, Sequences, FiniteSets

CONSTANTS Kthreads, Uthreads, idle,
          NULL   \* the null pointer

Workers == Kthreads \cup Uthreads
Threads == Workers \cup {idle}

ASSUME ListAssumption ==
  /\ IsFiniteSet(Workers)
  /\ idle \notin Workers
  /\ NULL \notin Threads

VARIABLES
  state,          \* thread_t.state
  list,           \* [head |-> ready_queue, next |-> the next of each thread]
  current_thread,
  spinning,       \* the CPU walks a cyclic list for ever, sched_lock held
  doubled         \* a history variable: some thread has been added twice

vars == <<state, list, current_thread, spinning, doubled>>

Pointers == Threads \cup {NULL}
Links == [head : Pointers, next : [Threads -> Pointers]]

\* The first n threads met on the way from pointer p.
Walk(l, p, n) ==
  LET at[k \in 0..n] ==
        IF k = 0 THEN p
        ELSE LET q == at[k - 1] IN IF q = NULL THEN NULL ELSE l.next[q]
  IN  [k \in {i \in 1..n : at[i - 1] # NULL} |-> at[k - 1]]

\* The threads linked; more than there are when the list is cyclic.
Linked(l) == Walk(l, l.head, Cardinality(Threads) + 1)
Ends(l) == Len(Linked(l)) <= Cardinality(Threads)

\* Mutant: t->next is not set.
Push_Unlinked(l, t) == [l EXCEPT !.head = t]

Push(l, t) == [head |-> t, next |-> [l.next EXCEPT ![t] = l.head]]

\* Mutant: the next pointer is left as it was.
Cut_Nothing(l, t) == l

\* t->next = NULL, then "while (tail->next) tail = tail->next": the store into
\* t->next comes before the walk.
Cut(l, t) == [l EXCEPT !.next[t] = NULL]
AppendTail(l, t) ==
  LET c == Cut(l, t)
  IN  IF c.head = NULL THEN [c EXCEPT !.head = t]
      ELSE IF Ends(c) THEN [c EXCEPT !.next[Linked(c)[Len(Linked(c))]] = t]
      ELSE c

ListInit ==
  /\ state = [t \in Threads |-> IF t = idle THEN "ready" ELSE "unborn"]
  /\ list = [head |-> NULL, next |-> [t \in Threads |-> NULL]]
  /\ current_thread = idle
  /\ spinning = FALSE
  /\ doubled = FALSE

-----------------------------------------------------------------------------

\* thread_create, thread_create_user: one scheduler_add_thread.
Create(t) ==
  /\ ~spinning
  /\ state[t] = "unborn"
  /\ state' = [state EXCEPT ![t] = "ready"]
  /\ list' = Push(list, t)
  /\ UNCHANGED <<current_thread, spinning, doubled>>

\* elf_load: load_raw creates the thread, then scheduler_add_thread again.
elf_load(t) ==
  /\ ~spinning
  /\ state[t] = "unborn"
  /\ state' = [state EXCEPT ![t] = "ready"]
  /\ list' = Push(Push(list, t), t)
  /\ doubled' = TRUE
  /\ UNCHANGED <<current_thread, spinning>>

\* What thread_unblock and schedule() work on: thread states, links, and
\* whether a walk to the tail has met a cycle.
Memory(st, l) == [st |-> st, l |-> l, spin |-> FALSE]

Unblocked(m, t) ==
  IF m.spin \/ m.st[t] # "blocked" THEN m
  ELSE [st   |-> [m.st EXCEPT ![t] = "ready"],
        l    |-> AppendTail(m.l, t),
        spin |-> ~Ends(Cut(m.l, t))]

\* A walk that does not end: what was written before it is never read again.
Spin == spinning' = TRUE /\ UNCHANGED <<state, list, current_thread>>

thread_unblock(t) ==
  /\ ~spinning
  /\ state[t] = "blocked"
  /\ LET m == Unblocked(Memory(state, list), t)
     IN  IF m.spin THEN Spin
         ELSE state' = m.st /\ list' = m.l /\ UNCHANGED <<current_thread, spinning>>
  /\ UNCHANGED doubled

\* schedule(), entered with memory m.
schedule(m) ==
  LET cur     == current_thread
      next    == IF m.l.head = NULL THEN idle ELSE m.l.head
      popped  == IF m.l.head = NULL THEN m.l ELSE [m.l EXCEPT !.head = m.l.next[next]]
      requeue == m.st[cur] = "running" /\ cur # idle
      spin    == requeue /\ ~Ends(Cut(popped, cur))
      st      == IF requeue THEN [m.st EXCEPT ![cur] = "ready"] ELSE m.st
  IN  IF m.spin \/ spin THEN Spin
      ELSE /\ list' = IF requeue THEN AppendTail(popped, cur) ELSE popped
           /\ state' = [st EXCEPT ![next] = "running"]
           /\ current_thread' = next
           /\ UNCHANGED spinning

thread_block ==
  /\ ~spinning
  /\ current_thread # idle
  /\ schedule(Memory([state EXCEPT ![current_thread] = "blocked"], list))
  /\ UNCHANGED doubled

\* thread_exit also clears the next pointer of the thread.
thread_exit ==
  /\ ~spinning
  /\ current_thread # idle
  /\ schedule(Memory([state EXCEPT ![current_thread] = "exited"], Cut(list, current_thread)))
  /\ UNCHANGED doubled

\* SYS_YIELD, or a tick that first unblocks the threads ts.
Reschedule(ts) ==
  /\ ~spinning
  /\ LET woken[n \in 0..Len(ts)] ==
           IF n = 0 THEN Memory(state, list) ELSE Unblocked(woken[n - 1], ts[n])
     IN  schedule(woken[Len(ts)])
  /\ UNCHANGED doubled

\* sys_exec: the same, and the caller exits.
sys_exec(t) ==
  /\ ~spinning
  /\ current_thread \in Uthreads
  /\ state[t] = "unborn"
  /\ schedule(Memory([state EXCEPT ![t] = "ready", ![current_thread] = "exited"],
                     Cut(Push(Push(list, t), t), current_thread)))
  /\ doubled' = TRUE

WakeLists ==
  LET blocked == {t \in Workers : state[t] = "blocked"}
  IN  UNION {{ts \in [1..n -> blocked] : \A i, j \in 1..n : ts[i] = ts[j] => i = j}
               : n \in 0..Cardinality(blocked)}

ListNext ==
  \/ \E t \in Workers : Create(t)
  \/ \E t \in Workers : thread_unblock(t)
  \/ thread_block
  \/ thread_exit
  \/ \E ts \in WakeLists : Reschedule(ts)

ListSpec == ListInit /\ [][ListNext]_vars

ElfNext == ListNext \/ \E t \in Uthreads : elf_load(t) \/ sys_exec(t)

ElfSpec == ListInit /\ [][ElfNext]_vars

-----------------------------------------------------------------------------

\* Types of the pointer list.
ListTypeOK ==
  /\ list \in Links
  /\ state \in [Threads -> {"unborn", "ready", "running", "blocked", "exited"}]
  /\ current_thread \in Threads
  /\ spinning \in BOOLEAN
  /\ doubled \in BOOLEAN

\* The list is not cyclic, also seen from a thread outside it, and no operation
\* walks for ever.
Terminates ==
  /\ ~spinning
  /\ \A t \in Threads : Len(Walk(list, t, Cardinality(Threads) + 1)) <= Cardinality(Threads)

\* The list is well formed: every pointer is a thread or NULL, and no walk of
\* thread_unblock or schedule is endless unless elf.c has added a thread twice.
ListInv == ListTypeOK /\ (~doubled => Terminates)

\* The queue of module ReadyQueue: the threads linked, each once.
Queue(l) ==
  IF Ends(l) THEN Linked(l)
  ELSE SubSeq(Linked(l), 1, Cardinality({Linked(l)[i] : i \in 1..Len(Linked(l))}))

RQ == INSTANCE ReadyQueue
        WITH ready_queue <- Queue(list),
             cycle <- IF ~doubled THEN "none" ELSE IF Ends(list) THEN "cut" ELSE "tail"

\* The pointer operations implement the queue of module ReadyQueue, step by
\* step: no thread is lost from the list and none is linked twice, and what is
\* lost when elf.c adds a thread again is what ReadyQueue says.
ImplementsQueue == RQ!RQSpec

\* scheduler.c, thread_exit: "__builtin_unreachable()" after schedule(): a
\* thread that exits is not switched to again.
ExitDoesNotReturn == [][thread_exit => current_thread' # current_thread]_vars
=============================================================================
