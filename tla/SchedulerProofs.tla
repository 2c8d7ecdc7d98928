--------------------------- MODULE SchedulerProofs ---------------------------
(***************************************************************************)
(* Proofs about ReadyQueue and Scheduler, for any sets of threads.         *)
(***************************************************************************)
EXTENDS Scheduler, ListFacts, FiniteSetTheorems

ReadyIn(st) == {t \in Workers : st[t] = "ready"}

RQInv == RQTypeOK /\ AddedOnce /\ QueueExact /\ OneRunning

\* schedule() on a list that is not cyclic.
LEMMA ScheduleForm ==
  ASSUME NEW st, NEW S, NEW q \in Seq(S), schedule(st, q, "none")
  PROVE  LET next    == IF q = <<>> THEN idle ELSE Head(q)
             rest    == IF q = <<>> THEN <<>> ELSE Tail(q)
             requeue == st[current_thread] = "running" /\ current_thread # idle
         IN  /\ ready_queue' = IF requeue THEN Append(rest, current_thread) ELSE rest
             /\ state' = [t \in Threads |->
                            IF t = next THEN "running"
                            ELSE IF t = current_thread /\ requeue THEN "ready"
                            ELSE st[t]]
             /\ current_thread' = next
             /\ cycle' = "none"
<1> DEFINE rest    == IF q = <<>> THEN <<>> ELSE Tail(q)
           requeue == st[current_thread] = "running" /\ current_thread # idle
<1>1. rest \in Seq(S) /\ rest = IF q = <<>> \/ ("none" = "tail" /\ Len(q) = 1) THEN q ELSE Tail(q)
  OBVIOUS
<1>2. rest \o <<current_thread>> = Append(rest, current_thread)
  BY <1>1
<1>3. ready_queue' = IF requeue THEN rest \o <<current_thread>> ELSE rest
  BY <1>1 DEF schedule, Appended
<1> HIDE DEF rest
<1>4. ready_queue' = IF requeue THEN Append(rest, current_thread) ELSE rest
  BY <1>2, <1>3
<1> QED BY <1>4 DEF schedule, rest

\* QueueExact says that the queue links the READY workers.
LEMMA QueueLists ==
  ASSUME RQTypeOK, QueueExact
  PROVE  Lists(ready_queue, ReadyIn(state))
<1>1. \A i \in 1..Len(ready_queue) : ready_queue[i] \in ReadyIn(state)
  BY DEF RQTypeOK, QueueExact, ReadyIn
<1>2. ready_queue \in Seq(ReadyIn(state))
  BY <1>1, SeqOver DEF RQTypeOK
<1> QED BY <1>2 DEF Lists, QueueExact, ReadyIn

\* The converse, for the state after a step.
LEMMA ListsQueue ==
  ASSUME state' \in [Threads -> States],
         Lists(ready_queue', ReadyIn(state'))
  PROVE  ready_queue' \in Seq(Workers) /\ QueueExact'
<1>1. \A i \in 1..Len(ready_queue') : ready_queue'[i] \in ReadyIn(state')
  BY DEF Lists
<1>2. ready_queue' \in Seq(Workers)
  BY <1>1, SeqOver DEF Lists, ReadyIn
<1>3. \A t \in Workers :
        (state'[t] = "ready") <=> (\E i \in 1..Len(ready_queue') : ready_queue'[i] = t)
  BY <1>1 DEF Lists, ReadyIn
<1> QED BY <1>2, <1>3 DEF Lists, QueueExact

\* schedule() keeps the queue exact and one worker running, whatever the
\* caller did to the states and the queue before it, if it left them in step.
LEMMA ScheduleKeepsQueue ==
  ASSUME NEW st \in [Threads -> States], NEW q, Lists(q, ReadyIn(st)),
         current_thread \in Threads,
         \A t \in Workers : st[t] = "running" => t = current_thread,
         st[idle] \in {"ready", "running"},
         schedule(st, q, "none")
  PROVE  RQInv'
<1> DEFINE cur     == current_thread
           next    == IF q = <<>> THEN idle ELSE Head(q)
           rest    == IF q = <<>> THEN <<>> ELSE Tail(q)
           requeue == st[cur] = "running" /\ cur # idle
<1>0. /\ idle \in Threads
      /\ idle \notin Workers
      /\ Workers \subseteq Threads
      /\ \A t \in Threads : t \in Workers \/ t = idle
  BY ThreadsAssumption DEF Threads, Workers
<1>1. /\ ready_queue' = IF requeue THEN Append(rest, cur) ELSE rest
      /\ state' = [t \in Threads |-> IF t = next THEN "running"
                                     ELSE IF t = cur /\ requeue THEN "ready" ELSE st[t]]
      /\ current_thread' = next
      /\ cycle' = "none"
  BY ScheduleForm DEF Lists
<1>2. /\ next \in ReadyIn(st) \cup {idle}
      /\ Lists(rest, ReadyIn(st) \ {next})
  <2>1. CASE q = <<>>
    <3>1. ReadyIn(st) = {}
      BY <2>1, ListsEmpty
    <3>2. ReadyIn(st) \ {next} = {}
      BY <3>1
    <3> QED BY <2>1, <3>2, ListsEmpty
  <2>2. CASE q # <<>>
    BY <2>2, ListsPop
  <2> QED BY <2>1, <2>2
<1>3. next \in Threads /\ (requeue => next # cur)
  BY <1>0, <1>2 DEF ReadyIn
<1>4. state' \in [Threads -> States] /\ current_thread' \in Threads
  BY <1>1, <1>3 DEF States
<1>5. Lists(ready_queue', ReadyIn(state'))
  <2>1. CASE requeue
    <3>1. cur \notin ReadyIn(st) \ {next}
      BY <2>1 DEF ReadyIn
    <3>2. ReadyIn(state') = (ReadyIn(st) \ {next}) \cup {cur}
      BY <2>1, <1>0, <1>1, <1>3 DEF ReadyIn
    <3> QED BY <2>1, <3>1, <3>2, <1>1, <1>2, ListsAppend
  <2>2. CASE ~requeue
    <3>1. ReadyIn(state') = ReadyIn(st) \ {next}
      BY <2>2, <1>0, <1>1, <1>3 DEF ReadyIn
    <3> QED BY <2>2, <3>1, <1>1, <1>2
  <2> QED BY <2>1, <2>2
<1>6. OneRunning'
  BY <1>0, <1>1, <1>3 DEF OneRunning
<1> QED BY <1>1, <1>4, <1>5, <1>6, ListsQueue DEF RQInv, RQTypeOK, AddedOnce

\* A list that thread_unblock calls can wake links blocked workers, each once.
LEMMA WakeListsList ==
  ASSUME RQInv, NEW ts \in WakeLists
  PROVE  \E W \in SUBSET {t \in Workers : state[t] = "blocked"} :
           /\ Lists(ts, W)
           /\ Woken(ts) \in [Threads -> States]
           /\ \A t \in Threads : Woken(ts)[t] = IF t \in W THEN "ready" ELSE state[t]
<1> DEFINE W == {t \in Threads : \E i \in 1..Len(ts) : ts[i] = t}
           B == {t \in Threads : state[t] = "blocked"}
<1>1. PICK n \in 0..Cardinality(B) :
        ts \in [1..n -> B] /\ \A i, j \in 1..n : ts[i] = ts[j] => i = j
  BY DEF WakeLists
<1>2. /\ n \in Nat
      /\ ts \in Seq(B)
      /\ Len(ts) = n
  BY <1>1
<1>3. \A i \in 1..Len(ts) : ts[i] \in W
  BY <1>1, <1>2
<1>4. Lists(ts, W)
  BY <1>1, <1>2, <1>3, SeqOver DEF Lists
<1>5. W \subseteq {t \in Workers : state[t] = "blocked"}
  BY <1>1, <1>2 DEF RQInv, OneRunning, Threads
<1>6. /\ Woken(ts) \in [Threads -> States]
      /\ \A t \in Threads : Woken(ts)[t] = IF t \in W THEN "ready" ELSE state[t]
  BY DEF Woken, RQInv, RQTypeOK, States
<1> QED BY <1>4, <1>5, <1>6

\* Before the first thread_create the queue is empty.
LEMMA RQInitInv ==
  ASSUME RQInit
  PROVE  RQInv
BY ThreadsAssumption DEF RQInit, RQInv, RQTypeOK, AddedOnce, QueueExact, OneRunning, States,
                         Threads, Workers

\* Once a thread has been added twice, this is never undone.
LEMMA AddedOnceBefore ==
  ASSUME RQNext, AddedOnce'
  PROVE  AddedOnce
BY DEF RQNext, AddedOnce, scheduler_add_thread, elf_load, thread_unblock, thread_block, thread_exit,
       sys_exec, Reschedule, schedule

\* Every operation of the scheduler keeps the queue exact, as long as each
\* thread is added once.
LEMMA RQNextInv ==
  ASSUME RQInv, RQNext, AddedOnce'
  PROVE  RQInv'
<1> USE DEF RQInv
<1>0. /\ Lists(ready_queue, ReadyIn(state))
      /\ idle \in Threads
      /\ idle \notin Workers
      /\ Workers \subseteq Threads
      /\ state \in [Threads -> States]
      /\ current_thread \in Threads
      /\ cycle = "none"
  BY QueueLists, ThreadsAssumption DEF RQTypeOK, Threads, Workers, AddedOnce
<1>1. ASSUME NEW t \in Workers, scheduler_add_thread(t)
      PROVE  RQInv'
  <2>1. state' \in [Threads -> States] /\ current_thread' \in Threads
    BY <1>0, <1>1 DEF scheduler_add_thread, States
  <2>2. t \notin ReadyIn(state) /\ ReadyIn(state') = ReadyIn(state) \cup {t}
    BY <1>0, <1>1 DEF scheduler_add_thread, ReadyIn
  <2>3. Lists(ready_queue', ReadyIn(state'))
    <3>1. Lists(<<t>> \o ready_queue, ReadyIn(state) \cup {t})
      BY <1>0, <2>2, ListsPush
    <3>2. ready_queue' = <<t>> \o ready_queue
      BY <1>1 DEF scheduler_add_thread
    <3> QED BY <3>1, <3>2, <2>2
  <2>4. OneRunning'
    BY <1>0, <1>1 DEF scheduler_add_thread, OneRunning
  <2> QED BY <2>1, <2>3, <2>4, ListsQueue DEF RQTypeOK, AddedOnce
<1>2. ASSUME NEW t \in Workers, thread_unblock(t)
      PROVE  RQInv'
  <2>1. state' \in [Threads -> States] /\ current_thread' \in Threads
    BY <1>0, <1>2 DEF thread_unblock, States
  <2>2. t \notin ReadyIn(state) /\ ReadyIn(state') = ReadyIn(state) \cup {t}
    BY <1>0, <1>2 DEF thread_unblock, ReadyIn
  <2>3. Lists(ready_queue', ReadyIn(state'))
    <3>1. Lists(Append(ready_queue, t), ReadyIn(state) \cup {t})
      BY <1>0, <2>2, ListsAppend
    <3>2. ready_queue' = Append(ready_queue, t)
      BY <1>2, <1>0 DEF thread_unblock, Appended, RQTypeOK
    <3> QED BY <3>1, <3>2, <2>2
  <2>4. OneRunning'
    BY <1>0, <1>2 DEF thread_unblock, OneRunning
  <2> QED BY <2>1, <2>3, <2>4, ListsQueue DEF RQTypeOK, AddedOnce
<1>3. ASSUME NEW s \in {"blocked", "exited"}, current_thread # idle,
             schedule([state EXCEPT ![current_thread] = s], ready_queue, "none")
      PROVE  RQInv'
  <2> DEFINE st == [state EXCEPT ![current_thread] = s]
  <2>1. st \in [Threads -> States]
    BY <1>0 DEF States
  <2>2. ReadyIn(st) = ReadyIn(state)
    BY <1>0, <1>3 DEF ReadyIn, OneRunning, Threads
  <2>3. /\ \A t \in Workers : st[t] = "running" => t = current_thread
        /\ st[idle] \in {"ready", "running"}
    BY <1>0, <1>3 DEF OneRunning
  <2> QED BY Zenon, <2>1, <2>2, <2>3, <1>0, <1>3, ScheduleKeepsQueue
<1>4. ASSUME NEW ts \in WakeLists, Reschedule(ts)
      PROVE  RQInv'
  <2>1. PICK W \in SUBSET {t \in Workers : state[t] = "blocked"} :
           /\ Lists(ts, W)
           /\ Woken(ts) \in [Threads -> States]
           /\ \A t \in Threads : Woken(ts)[t] = IF t \in W THEN "ready" ELSE state[t]
    BY WakeListsList
  <2>2. /\ ReadyIn(Woken(ts)) = ReadyIn(state) \cup W
        /\ ReadyIn(state) \cap W = {}
    BY <2>1, <1>0 DEF ReadyIn
  <2>3. Lists(ready_queue \o ts, ReadyIn(Woken(ts)))
    BY <2>1, <2>2, <1>0, ListsConcat
  <2>4. /\ \A t \in Workers : Woken(ts)[t] = "running" => t = current_thread
        /\ Woken(ts)[idle] \in {"ready", "running"}
    BY <2>1, <1>0 DEF OneRunning
  <2>5. schedule(Woken(ts), ready_queue \o ts, "none")
    BY <1>0, <1>4 DEF Reschedule, Appended
  <2> QED BY <2>1, <2>3, <2>4, <2>5, <1>0, ScheduleKeepsQueue
<1>5. ASSUME NEW t \in Uthreads, elf_load(t) \/ sys_exec(t)
      PROVE  FALSE
  BY <1>5 DEF elf_load, sys_exec, schedule, AddedOnce
<1> QED BY <1>0, <1>1, <1>2, <1>3, <1>4, <1>5 DEF RQNext, thread_block, thread_exit

\* The ready queue, for any numbers of threads and any sequence of calls that
\* adds each thread once: every READY worker is linked exactly once and only
\* the current one runs.
THEOREM ReadyQueueCorrect == RQSpec => [](AddedOnce => RQInv)
<1>1. RQInit => RQInv
  BY RQInitInv
<1>2. (AddedOnce => RQInv) /\ [RQNext]_rqVars => (AddedOnce => RQInv)'
  <2>1. RQInv /\ UNCHANGED rqVars => RQInv'
    BY DEF RQInv, RQTypeOK, AddedOnce, QueueExact, OneRunning, rqVars
  <2>2. AddedOnce' /\ UNCHANGED rqVars => AddedOnce
    BY DEF AddedOnce, rqVars
  <2> QED BY <2>1, <2>2, RQNextInv, AddedOnceBefore
<1> QED BY <1>1, <1>2, PTL DEF RQSpec

-----------------------------------------------------------------------------

\* What is left of QueueExact once elf.c has added a thread twice: no thread is
\* linked twice, and who is linked is READY or has exited, except the last
\* thread of a cyclic list.
LinkFits(st, q, c) ==
  \A i \in 1..Len(q) : \/ st[q[i]] \in {"ready", "exited"}
                       \/ c = "tail" /\ i = Len(q) /\ st[q[i]] # "unborn"
NoneTwice(q) == \A i, j \in 1..Len(q) : q[i] = q[j] => i = j

QueueSound ==
  /\ RQTypeOK
  /\ state[idle] \in {"ready", "running"}
  /\ current_thread \in Workers => state[current_thread] = "running"
  /\ NoneTwice(ready_queue)
  /\ LinkFits(state, ready_queue, cycle)
  /\ cycle = "tail" => ready_queue # <<>>

Cycles == {"none", "tail", "cut"}

\* schedule() keeps this, on any list.
LEMMA ScheduleSound ==
  ASSUME NEW st \in [Threads -> States], NEW q \in Seq(Workers), NEW c \in Cycles,
         current_thread \in Threads, st[idle] \in {"ready", "running"},
         NoneTwice(q), LinkFits(st, q, c), c = "tail" => q # <<>>,
         schedule(st, q, c)
  PROVE  QueueSound'
<1> DEFINE cur     == current_thread
           next    == IF q = <<>> THEN idle ELSE Head(q)
           rest    == IF q = <<>> \/ (c = "tail" /\ Len(q) = 1) THEN q ELSE Tail(q)
           requeue == st[cur] = "running" /\ cur # idle
<1>0. /\ idle \in Threads /\ idle \notin Workers /\ Threads = Workers \cup {idle}
      /\ Len(q) \in Nat /\ \A i \in 1..Len(q) : q[i] \in Workers
  BY ThreadsAssumption DEF Threads, Workers
<1>1. /\ requeue => WalkEnds(rest, <<cur>>, c)
      /\ ready_queue' = IF requeue THEN Appended(rest, <<cur>>, c) ELSE rest
      /\ state' = [t \in Threads |-> IF t = next THEN "running"
                                     ELSE IF t = cur /\ requeue THEN "ready" ELSE st[t]]
      /\ current_thread' = next
      /\ cycle' = c
  BY DEF schedule
<1>2. next \in Threads /\ (q # <<>> => Len(q) >= 1 /\ next = q[1])
  BY <1>0
<1>3. state' \in [Threads -> States] /\ state'[idle] \in {"ready", "running"}
      /\ state'[next] = "running"
  BY <1>0, <1>1, <1>2 DEF States
<1>4. /\ rest \in Seq(Workers) /\ Len(rest) \in Nat
      /\ \A i \in 1..Len(rest) : rest[i] \in Workers
      /\ NoneTwice(rest)
      /\ \A i \in 1..Len(rest) : rest[i] # next \/ (c = "tail" /\ i = Len(rest))
      /\ LinkFits(st, rest, c)
      /\ c = "tail" => rest # <<>>
  <2>1. CASE rest = q
    BY <1>0, <2>1 DEF NoneTwice
  <2>2. CASE rest # q
    <3>1. /\ q # <<>> /\ rest = Tail(q) /\ Len(rest) = Len(q) - 1 /\ rest \in Seq(Workers)
          /\ \A i \in 1..Len(rest) : rest[i] \in Workers
          /\ \A i \in 1..Len(rest) : i + 1 \in 1..Len(q) /\ rest[i] = q[i + 1]
          /\ c = "tail" => Len(q) # 1
      BY <1>0, <2>2
    <3> HIDE DEF rest
    <3>0. Len(rest) \in Nat /\ Len(q) \in Nat /\ Len(q) >= 1 /\ next = q[1]
      BY <3>1, <1>2
    <3>2. ASSUME NEW i \in 1..Len(rest), NEW j \in 1..Len(rest), rest[i] = rest[j] PROVE i = j
      <4>1. q[i + 1] = q[j + 1] /\ i + 1 \in 1..Len(q) /\ j + 1 \in 1..Len(q)
        BY <3>1, <3>2
      <4>2. i + 1 = j + 1
        BY Zenon, <4>1 DEF NoneTwice
      <4> QED BY <4>2
    <3>3. ASSUME NEW i \in 1..Len(rest) PROVE rest[i] # next
      <4>1. rest[i] = q[i + 1] /\ i + 1 \in 1..Len(q) /\ 1 \in 1..Len(q) /\ i + 1 # 1
        BY <3>0, <3>1
      <4> QED BY Zenon, <4>1, <3>0 DEF NoneTwice
    <3>4. ASSUME NEW i \in 1..Len(rest)
          PROVE  \/ st[rest[i]] \in {"ready", "exited"}
                 \/ c = "tail" /\ i = Len(rest) /\ st[rest[i]] # "unborn"
      <4>1. rest[i] = q[i + 1] /\ i + 1 \in 1..Len(q)
        BY Zenon, <3>1
      <4> DEFINE m == Len(rest)
                 n == Len(q)
      <4>2. m \in Nat /\ n \in Nat /\ m = n - 1 /\ i \in 1..m
        BY Zenon, <3>0, <3>1
      <4> HIDE DEF m, n
      <4>3. i + 1 = n => i = m
        BY <4>2
      <4> QED BY Zenon, <4>1, <4>3 DEF LinkFits, m, n
    <3>5. c = "tail" => rest # <<>>
      <4>1. c = "tail" => Len(rest) # 0
        BY <3>0, <3>1
      <4> QED BY <4>1
    <3> QED BY Zenon, <3>0, <3>1, <3>2, <3>3, <3>4, <3>5, <1>0 DEF NoneTwice, LinkFits
  <2> QED BY <2>1, <2>2
<1> HIDE DEF next, rest
<1>5. LinkFits(state', rest, c)
  BY <1>0, <1>1, <1>4 DEF LinkFits
<1>6. CASE c = "tail" \/ ~requeue
  <2>1. ready_queue' = rest
    BY <1>1, <1>6 DEF Appended
  <2> QED BY <2>1, <1>1, <1>2, <1>3, <1>4, <1>5 DEF QueueSound, RQTypeOK, Cycles
<1>7. CASE c # "tail" /\ requeue
  <2> DEFINE r == Append(rest, cur)
  <2>1. ready_queue' = r
    BY <1>1, <1>4, <1>7 DEF Appended
  <2>2. cur \in Workers /\ \A i \in 1..Len(rest) : rest[i] # cur
    BY <1>0, <1>4, <1>7 DEF LinkFits
  <2>3. /\ r \in Seq(Workers) /\ Len(r) = Len(rest) + 1 /\ r[Len(rest) + 1] = cur
        /\ \A i \in 1..Len(rest) : r[i] = rest[i]
    BY <1>4, <2>2
  <2>4. next # cur /\ state'[cur] = "ready"
    <3>1. q # <<>> => st[next] # "running"
      BY <1>0, <1>2, <1>7 DEF LinkFits
    <3>2. next # cur
      BY <3>1, <1>7 DEF next
    <3> QED BY <3>2, <1>0, <1>1, <1>7
  <2> HIDE DEF r
  <2>5. NoneTwice(r)
    BY <1>4, <2>2, <2>3 DEF NoneTwice
  <2>6. LinkFits(state', r, c)
    BY <1>4, <1>5, <1>7, <2>3, <2>4 DEF LinkFits
  <2> QED BY <2>1, <2>3, <2>5, <2>6, <1>1, <1>2, <1>3, <1>7 DEF QueueSound, RQTypeOK, Cycles
<1> QED BY <1>6, <1>7

\* The threads woken are blocked workers, each once, on any list.
LEMMA WokenSound ==
  ASSUME QueueSound, NEW ts \in WakeLists
  PROVE  /\ ts \in Seq(Workers) /\ Len(ts) \in Nat /\ NoneTwice(ts)
         /\ \A i \in 1..Len(ts) : ts[i] \in Workers /\ state[ts[i]] = "blocked"
         /\ Woken(ts) \in [Threads -> States]
         /\ \A t \in Threads : Woken(ts)[t] = state[t] \/ (state[t] = "blocked" /\ Woken(ts)[t] = "ready")
         /\ \A i \in 1..Len(ts) : Woken(ts)[ts[i]] = "ready"
<1> DEFINE B == {t \in Threads : state[t] = "blocked"}
<1>1. PICK n \in 0..Cardinality(B) :
        ts \in [1..n -> B] /\ \A i, j \in 1..n : ts[i] = ts[j] => i = j
  BY DEF WakeLists
<1>2. n \in Nat /\ ts \in Seq(B) /\ Len(ts) = n /\ NoneTwice(ts)
  BY <1>1 DEF NoneTwice
<1>3. B \subseteq Workers
  BY DEF QueueSound, Threads
<1>4. \A i \in 1..Len(ts) : ts[i] \in Workers /\ ts[i] \in Threads /\ state[ts[i]] = "blocked"
  BY <1>1, <1>2, <1>3
<1>5. ts \in Seq(Workers)
  BY <1>2, <1>4, SeqOver
<1>6. /\ Woken(ts) \in [Threads -> States]
      /\ \A t \in Threads : Woken(ts)[t] = state[t] \/ (state[t] = "blocked" /\ Woken(ts)[t] = "ready")
  BY <1>4 DEF Woken, QueueSound, RQTypeOK, States
<1>7. \A i \in 1..Len(ts) : Woken(ts)[ts[i]] = "ready"
  BY <1>4 DEF Woken
<1> QED BY <1>2, <1>4, <1>5, <1>6, <1>7

\* Threads that are not linked are appended.
LEMMA AppendSound ==
  ASSUME NEW st, NEW c \in Cycles,
         NEW q \in Seq(Workers), NoneTwice(q), LinkFits(st, q, c), c = "tail" => q # <<>>,
         NEW ts \in Seq(Workers), NoneTwice(ts),
         \A i \in 1..Len(ts) : st[ts[i]] = "ready",
         c # "tail" => \A i \in 1..Len(ts), j \in 1..Len(q) : ts[i] # q[j]
  PROVE  LET Q == Appended(q, ts, c)
         IN  Q \in Seq(Workers) /\ NoneTwice(Q) /\ LinkFits(st, Q, c) /\ (c = "tail" => Q # <<>>)
<1>1. CASE c = "tail"
  BY <1>1 DEF Appended
<1>2. CASE c # "tail"
  <2> DEFINE Q == q \o ts
  <2>1. /\ Len(q) \in Nat /\ Len(ts) \in Nat /\ Q \in Seq(Workers) /\ Len(Q) = Len(q) + Len(ts)
        /\ \A n \in 1..Len(q) : Q[n] = q[n]
        /\ \A n \in (Len(q) + 1)..Len(Q) : n - Len(q) \in 1..Len(ts) /\ Q[n] = ts[n - Len(q)]
    OBVIOUS
  <2> HIDE DEF Q
  <2>2. ASSUME NEW i \in 1..Len(Q), NEW j \in 1..Len(Q), Q[i] = Q[j] PROVE i = j
    <3>1. CASE i <= Len(q) /\ j <= Len(q)
      BY <2>1, <2>2, <3>1 DEF NoneTwice
    <3>2. CASE i > Len(q) /\ j > Len(q)
      <4>1. i - Len(q) \in 1..Len(ts) /\ j - Len(q) \in 1..Len(ts)
            /\ ts[i - Len(q)] = ts[j - Len(q)]
        BY <2>1, <2>2, <3>2
      <4>2. i - Len(q) = j - Len(q)
        BY Zenon, <4>1 DEF NoneTwice
      <4> QED BY <4>2, <2>1
    <3>3. CASE i <= Len(q) /\ j > Len(q)
      <4>1. i \in 1..Len(q) /\ j - Len(q) \in 1..Len(ts) /\ q[i] = ts[j - Len(q)]
        BY <2>1, <2>2, <3>3
      <4> QED BY Zenon, <4>1, <1>2
    <3>4. CASE i > Len(q) /\ j <= Len(q)
      <4>1. j \in 1..Len(q) /\ i - Len(q) \in 1..Len(ts) /\ q[j] = ts[i - Len(q)]
        BY <2>1, <2>2, <3>4
      <4> QED BY Zenon, <4>1, <1>2
    <3> QED BY <3>1, <3>2, <3>3, <3>4, <2>1
  <2>3. LinkFits(st, Q, c)
    <3> SUFFICES ASSUME NEW i \in 1..Len(Q) PROVE st[Q[i]] \in {"ready", "exited"}
      BY DEF LinkFits
    <3>1. CASE i <= Len(q)
      <4>1. i \in 1..Len(q) /\ Q[i] = q[i]
        BY <2>1, <3>1
      <4> QED BY Zenon, <4>1, <1>2 DEF LinkFits
    <3>2. CASE i > Len(q)
      <4>1. i - Len(q) \in 1..Len(ts) /\ Q[i] = ts[i - Len(q)]
        BY <2>1, <3>2
      <4> QED BY Zenon, <4>1
    <3> QED BY <3>1, <3>2, <2>1
  <2>4. Appended(q, ts, c) = Q
    BY <1>2 DEF Appended, Q
  <2> QED BY <2>1, <2>2, <2>3, <2>4, <1>2 DEF NoneTwice
<1> QED BY <1>1, <1>2

\* Every operation of the scheduler keeps the list sound, those of elf.c too.
LEMMA SoundNext ==
  ASSUME QueueSound, RQNext
  PROVE  QueueSound'
<1>0. /\ state \in [Threads -> States] /\ current_thread \in Threads /\ cycle \in Cycles
      /\ ready_queue \in Seq(Workers) /\ Len(ready_queue) \in Nat
      /\ \A i \in 1..Len(ready_queue) : ready_queue[i] \in Workers
      /\ idle \in Threads /\ idle \notin Workers /\ Threads = Workers \cup {idle}
      /\ Uthreads \subseteq Workers
  BY ThreadsAssumption DEF QueueSound, RQTypeOK, Cycles, Threads, Workers
<1>00. /\ state[idle] \in {"ready", "running"}
       /\ current_thread \in Workers => state[current_thread] = "running"
       /\ NoneTwice(ready_queue) /\ LinkFits(state, ready_queue, cycle)
       /\ cycle = "tail" => ready_queue # <<>>
  BY DEF QueueSound
<1>1. ASSUME NEW t \in Workers, scheduler_add_thread(t)
      PROVE  QueueSound'
  <2> DEFINE r == <<t>> \o ready_queue
  <2>1. /\ state[t] = "unborn" /\ state' = [state EXCEPT ![t] = "ready"] /\ ready_queue' = r
        /\ current_thread' = current_thread /\ cycle' = cycle
    BY <1>1 DEF scheduler_add_thread
  <2>2. /\ r \in Seq(Workers) /\ Len(r) = Len(ready_queue) + 1 /\ r[1] = t /\ r # <<>>
        /\ \A i \in 2..Len(r) : i - 1 \in 1..Len(ready_queue) /\ r[i] = ready_queue[i - 1]
    BY <1>0
  <2>3. \A i \in 1..Len(ready_queue) : ready_queue[i] # t
    BY <2>1, <1>00 DEF LinkFits
  <2> HIDE DEF r
  <2>4. NoneTwice(r)
    <3> SUFFICES ASSUME NEW i \in 1..Len(r), NEW j \in 1..Len(r), r[i] = r[j] PROVE i = j
      BY DEF NoneTwice
    <3>1. CASE i = 1 \/ j = 1
      BY <3>1, <2>2, <2>3
    <3>2. CASE i # 1 /\ j # 1
      <4>1. /\ i - 1 \in 1..Len(ready_queue) /\ j - 1 \in 1..Len(ready_queue)
            /\ ready_queue[i - 1] = ready_queue[j - 1]
        BY <3>2, <2>2
      <4>2. i - 1 = j - 1
        BY Zenon, <4>1, <1>00 DEF NoneTwice
      <4> QED BY <4>2
    <3> QED BY <3>1, <3>2
  <2>5. LinkFits(state', r, cycle)
    <3> SUFFICES ASSUME NEW i \in 1..Len(r)
                 PROVE  \/ state'[r[i]] \in {"ready", "exited"}
                        \/ cycle = "tail" /\ i = Len(r) /\ state'[r[i]] # "unborn"
      BY DEF LinkFits
    <3>1. CASE i = 1
      BY <3>1, <2>1, <2>2, <1>0
    <3>2. CASE i # 1
      <4>1. i - 1 \in 1..Len(ready_queue) /\ r[i] = ready_queue[i - 1]
            /\ (i - 1 = Len(ready_queue) => i = Len(r))
        BY <3>2, <2>2, <1>0
      <4>2. state'[r[i]] = state[ready_queue[i - 1]]
        BY <4>1, <2>1, <2>3, <1>0
      <4> QED BY <4>1, <4>2, <1>00 DEF LinkFits
    <3> QED BY <3>1, <3>2
  <2>6. /\ state' \in [Threads -> States] /\ state'[idle] \in {"ready", "running"}
        /\ current_thread \in Workers => state'[current_thread] = "running"
    BY <2>1, <1>0, <1>00 DEF States
  <2> QED BY <2>1, <2>2, <2>4, <2>5, <2>6, <1>0 DEF QueueSound, RQTypeOK, Cycles
<1>2. ASSUME NEW t \in Uthreads, elf_load(t)
      PROVE  QueueSound'
  <2>1. /\ state[t] = "unborn" /\ state' = [state EXCEPT ![t] = "ready"] /\ ready_queue' = <<t>>
        /\ current_thread' = current_thread /\ cycle' = "tail"
    BY <1>2 DEF elf_load
  <2>2. /\ state' \in [Threads -> States] /\ state'[idle] \in {"ready", "running"}
        /\ current_thread \in Workers => state'[current_thread] = "running"
        /\ state'[t] = "ready"
    BY <2>1, <1>0, <1>00 DEF States
  <2> QED BY <2>1, <2>2, <1>0 DEF QueueSound, RQTypeOK, NoneTwice, LinkFits
<1>3. ASSUME NEW t \in Uthreads, sys_exec(t)
      PROVE  QueueSound'
  <2> DEFINE st == [state EXCEPT ![t] = "ready", ![current_thread] = "exited"]
  <2>1. current_thread \in Workers /\ state[t] = "unborn" /\ schedule(st, <<t>>, "tail")
    BY <1>3, <1>0 DEF sys_exec
  <2>2. t # current_thread
    BY <2>1, <1>00
  <2>3. st \in [Threads -> States] /\ st[t] = "ready" /\ st[idle] \in {"ready", "running"}
    BY <2>1, <2>2, <1>0, <1>00 DEF States
  <2> HIDE DEF st
  <2>4. /\ <<t>> \in Seq(Workers) /\ NoneTwice(<<t>>) /\ LinkFits(st, <<t>>, "tail")
        /\ <<t>> # <<>> /\ "tail" \in Cycles
    BY <2>3, <1>0 DEF NoneTwice, LinkFits, Cycles
  <2> QED BY Zenon, <2>1, <2>3, <2>4, <1>0, ScheduleSound
<1>4. ASSUME NEW t \in Workers, thread_unblock(t)
      PROVE  QueueSound'
  <2> DEFINE Q == Appended(ready_queue, <<t>>, cycle)
  <2>1. /\ state[t] = "blocked" /\ state' = [state EXCEPT ![t] = "ready"] /\ ready_queue' = Q
        /\ current_thread' = current_thread /\ cycle' = cycle
    BY <1>4 DEF thread_unblock
  <2>2. /\ state' \in [Threads -> States] /\ state'[idle] \in {"ready", "running"}
        /\ current_thread \in Workers => state'[current_thread] = "running"
        /\ state'[t] = "ready"
    BY <2>1, <1>0, <1>00 DEF States
  <2> DEFINE ts == <<t>>
  <2>3. ts \in Seq(Workers) /\ NoneTwice(ts) /\ Len(ts) = 1 /\ ts[1] = t
    BY DEF NoneTwice
  <2>4. LinkFits(state', ready_queue, cycle)
    BY <2>1, <1>0, <1>00 DEF LinkFits
  <2> HIDE DEF ts
  <2>5. cycle # "tail" => \A i \in 1..Len(ts), j \in 1..Len(ready_queue) : ts[i] # ready_queue[j]
    BY <2>1, <2>3, <1>00 DEF LinkFits
  <2>6. \A i \in 1..Len(ts) : state'[ts[i]] = "ready"
    BY <2>2, <2>3
  <2>7. LET R == Appended(ready_queue, ts, cycle)
        IN  R \in Seq(Workers) /\ NoneTwice(R) /\ LinkFits(state', R, cycle) /\ (cycle = "tail" => R # <<>>)
    BY <2>3, <2>4, <2>5, <2>6, <1>0, <1>00, AppendSound
  <2>8. Q \in Seq(Workers) /\ NoneTwice(Q) /\ LinkFits(state', Q, cycle) /\ (cycle = "tail" => Q # <<>>)
    BY <2>7 DEF ts
  <2> HIDE DEF Q
  <2> QED BY <2>1, <2>2, <2>8, <1>0 DEF QueueSound, RQTypeOK, Cycles
<1>5. ASSUME NEW s \in {"blocked", "exited"}, NEW c \in Cycles, current_thread # idle,
             schedule([state EXCEPT ![current_thread] = s], ready_queue, c),
             \/ c = cycle
             \/ c = "cut" /\ s = "exited" /\ current_thread = ready_queue[Len(ready_queue)]
      PROVE  QueueSound'
  <2> DEFINE st == [state EXCEPT ![current_thread] = s]
  <2>1. st \in [Threads -> States] /\ st[idle] \in {"ready", "running"}
        /\ st[current_thread] = s /\ \A t \in Threads : t # current_thread => st[t] = state[t]
    BY <1>5, <1>0, <1>00 DEF States
  <2> HIDE DEF st
  <2>2. LinkFits(st, ready_queue, c)
    <3>1. ASSUME NEW i \in 1..Len(ready_queue)
          PROVE  \/ st[ready_queue[i]] \in {"ready", "exited"}
                 \/ c = "tail" /\ i = Len(ready_queue) /\ st[ready_queue[i]] # "unborn"
      BY <2>1, <1>5, <1>0, <1>00 DEF LinkFits
    <3> QED BY <3>1 DEF LinkFits
  <2>3. c = "tail" => ready_queue # <<>>
    BY <1>5, <1>00
  <2>4. schedule(st, ready_queue, c)
    BY <1>5 DEF st
  <2> QED BY Zenon, <2>1, <2>2, <2>3, <2>4, <1>0, <1>00, ScheduleSound
<1>6. ASSUME NEW ts \in WakeLists, Reschedule(ts)
      PROVE  QueueSound'
  <2> DEFINE st == Woken(ts)
             Q  == Appended(ready_queue, ts, cycle)
  <2>1. schedule(st, Q, cycle)
    BY <1>6 DEF Reschedule
  <2>2. /\ ts \in Seq(Workers) /\ Len(ts) \in Nat /\ NoneTwice(ts)
        /\ \A i \in 1..Len(ts) : ts[i] \in Workers /\ state[ts[i]] = "blocked"
        /\ st \in [Threads -> States]
        /\ \A t \in Threads : st[t] = state[t] \/ (state[t] = "blocked" /\ st[t] = "ready")
        /\ \A i \in 1..Len(ts) : st[ts[i]] = "ready"
    BY WokenSound
  <2> HIDE DEF st, Q
  <2>3. LinkFits(st, ready_queue, cycle) /\ st[idle] \in {"ready", "running"}
    BY <2>2, <1>0, <1>00 DEF LinkFits
  <2>4. cycle # "tail" => \A i \in 1..Len(ts), j \in 1..Len(ready_queue) : ts[i] # ready_queue[j]
    BY <2>2, <1>00 DEF LinkFits
  <2>5. Q \in Seq(Workers) /\ NoneTwice(Q) /\ LinkFits(st, Q, cycle) /\ (cycle = "tail" => Q # <<>>)
    BY <2>2, <2>3, <2>4, <1>0, <1>00, AppendSound DEF Q
  <2> QED BY Zenon, <2>1, <2>2, <2>3, <2>5, <1>0, ScheduleSound
<1>7. CASE thread_block
  BY <1>7, <1>5, <1>0 DEF thread_block
<1>8. CASE thread_exit
  BY <1>8, <1>5, <1>0 DEF thread_exit, Cycles
<1> QED BY Zenon, <1>1, <1>2, <1>3, <1>4, <1>6, <1>7, <1>8 DEF RQNext

\* Before the first thread_create the list is empty.
LEMMA SoundInit ==
  ASSUME RQInit
  PROVE  QueueSound
<1>1. RQTypeOK /\ state[idle] \in {"ready", "running"} /\ current_thread \notin Workers
  BY RQInitInv, ThreadsAssumption DEF RQInv, OneRunning, RQInit, Workers
<1> QED BY <1>1 DEF RQInit, QueueSound, NoneTwice, LinkFits

-----------------------------------------------------------------------------

\* Kernel threads stay in kernel code, user threads never run it as threads,
\* and the idle thread is in _start or in the interrupt of its hlt loop.
KindFitsPlace ==
  /\ at[idle] \in {"boot", "hlt", "isr"}
  /\ \A t \in Kthreads : at[t] \in {"unborn", "fresh", "kernel", "dead"}
  /\ \A t \in Uthreads : at[t] \in {"unborn", "fresh", "handler", "syscall", "user", "dead"}

\* The registers are the current thread's from the switch on, not only in
\* ring 3.
ContextLoaded ==
  current_thread \in Uthreads =>
    rsp0 = current_thread /\ cr3 = current_thread /\ current_process = current_thread

\* No thread but the current one is in ring 3 or in a handler.
OneOut == \A t \in Workers : at[t] \in {"user", "handler"} => t = current_thread

\* The inductive invariant of all that the kernel does.
MachineInv ==
  /\ QueueSound
  /\ SchedTypeOK
  /\ KernelMasked
  /\ IdleOwesEOI
  /\ KindFitsPlace
  /\ ContextLoaded
  /\ OneOut

\* The inductive invariant as long as each thread is added once.
CpuInv ==
  /\ MachineInv
  /\ RQInv
  /\ PlaceFitsState

\* What a step that goes through schedule() does to the registers.
LEMMA ContextKeepsTypes ==
  ASSUME MachineInv, QueueSound', load_context
  PROVE  /\ current_process' \in Uthreads \cup {Kspace}
         /\ cr3' \in Uthreads \cup {Kspace}
         /\ rsp0' \in Threads \cup {Kspace}
         /\ ContextLoaded'
<1>1. current_thread' \in Threads /\ Kspace \notin Uthreads
  BY KspaceAssumption DEF QueueSound, RQTypeOK, Threads, Workers
<1>2. rsp0' = current_thread'
  BY DEF load_context
<1>3. CASE process(current_thread') = Kspace
  BY <1>1, <1>2, <1>3 DEF load_context, process, MachineInv, SchedTypeOK, ContextLoaded
<1>4. CASE process(current_thread') # Kspace
  BY <1>1, <1>2, <1>4 DEF load_context, process, MachineInv, SchedTypeOK, ContextLoaded
<1> QED BY <1>3, <1>4

\* _start leaves the CPU masked, with the idle thread current.
LEMMA SchedInitInv ==
  ASSUME SchedInit
  PROVE  CpuInv
<1>1. RQInv /\ QueueSound
  BY RQInitInv, SoundInit DEF SchedInit
<1>2. /\ idle \in Threads
      /\ idle \notin Workers
      /\ Kthreads \subseteq Workers
      /\ Uthreads \subseteq Workers
      /\ Workers \subseteq Threads
  BY ThreadsAssumption DEF Threads, Workers
<1> QED BY Zenon, <1>1, <1>2 DEF SchedInit, RQInit, CpuInv, MachineInv, RQInv, SchedTypeOK, Places,
     KernelMasked, Here, IdleOwesEOI, PlaceFitsState, KindFitsPlace, ContextLoaded, OneOut

\* What schedule() does to the states and the CPU, given the states st it is
\* entered with: the next thread was READY or is the idle thread, and only
\* the current and the next thread change.
LEMMA ScheduleEffect ==
  ASSUME NEW st \in [Threads -> States], NEW q, Lists(q, ReadyIn(st)), schedule(st, q, "none")
  PROVE  /\ current_thread' \in ReadyIn(st) \cup {idle}
         /\ \A t \in Threads : t # current_thread /\ t # current_thread' => state'[t] = st[t]
         /\ state'[current_thread'] = "running" \/ current_thread' \notin Threads
         /\ current_thread \in Threads /\ current_thread # current_thread' =>
              state'[current_thread] = IF st[current_thread] = "running" /\ current_thread # idle
                                       THEN "ready" ELSE st[current_thread]
<1>1. current_thread' = IF q = <<>> THEN idle ELSE Head(q)
  BY DEF schedule
<1>2. current_thread' \in ReadyIn(st) \cup {idle}
  BY Zenon, <1>1, ListsPop
<1>3. state' = [t \in Threads |->
                  IF t = current_thread' THEN "running"
                  ELSE IF t = current_thread /\ st[current_thread] = "running" /\ current_thread # idle
                  THEN "ready" ELSE st[t]]
  BY <1>1 DEF schedule
<1> QED BY <1>2, <1>3

\* The CPU after a switch away from a thread in ring 3, in kernel code or in
\* the hlt loop, on any list.
LEMMA SwitchKeepsMachine ==
  ASSUME MachineInv, QueueSound',
         NEW p \in Places, switch_to(p),
         intr' = FALSE, in_service' \in BOOLEAN,
         current_thread = idle => p = "isr" /\ in_service' = TRUE,
         current_thread # idle => in_service' = in_service,
         current_thread \in Kthreads => p \in {"kernel", "dead"},
         current_thread \in Uthreads => p \in {"syscall", "dead"}
  PROVE  MachineInv'
<1>0. /\ current_thread \in Threads
      /\ current_thread' \in Threads
      /\ Threads = Workers \cup {idle}
      /\ Workers = Kthreads \cup Uthreads
      /\ Kthreads \cap Uthreads = {}
      /\ idle \notin Workers
  BY ThreadsAssumption DEF MachineInv, QueueSound, RQTypeOK, Threads, Workers
<1>1. at \in [Threads -> Places] /\ at' = [at EXCEPT ![current_thread] = p]
  BY DEF switch_to, MachineInv, SchedTypeOK
<1>2. SchedTypeOK' /\ ContextLoaded'
  <2>1. at' \in [Threads -> Places] /\ intr' \in BOOLEAN
    BY <1>0, <1>1
  <2> QED BY Zenon, <2>1, ContextKeepsTypes DEF SchedTypeOK, QueueSound, switch_to
<1>3. KernelMasked'
  BY DEF KernelMasked
<1>4. IdleOwesEOI'
  <2>1. at'[idle] = "isr" /\ in_service'
    BY <1>0, <1>1 DEF MachineInv, IdleOwesEOI
  <2>2. \A t \in Workers : at'[t] # "isr"
    BY <1>0, <1>1 DEF MachineInv, IdleOwesEOI
  <2> QED BY <2>1, <2>2 DEF IdleOwesEOI
<1>5. KindFitsPlace' /\ OneOut'
  BY <1>0, <1>1 DEF MachineInv, KindFitsPlace, OneOut
<1> QED BY <1>2, <1>3, <1>4, <1>5 DEF MachineInv

\* States and places agree after such a switch.
LEMMA SwitchKeepsPlaces ==
  ASSUME CpuInv, current_thread' \in Threads,
         NEW st \in [Threads -> States], NEW q, Lists(q, ReadyIn(st)), schedule(st, q, "none"),
         NEW p \in Places, switch_to(p),
         current_thread \in Kthreads => p \in {"kernel", "dead"},
         current_thread \in Uthreads => p \in {"syscall", "dead"},
         current_thread \in Workers =>
           /\ st[current_thread] \in {"running", "blocked", "exited"}
           /\ st[current_thread] = "exited" <=> p = "dead",
         \A t \in Workers \ {current_thread} :
           st[t] = state[t] \/ (state[t] = "blocked" /\ st[t] = "ready")
  PROVE  PlaceFitsState'
<1>0. /\ current_thread \in Threads
      /\ Threads = Workers \cup {idle}
      /\ Workers = Kthreads \cup Uthreads
      /\ Kthreads \cap Uthreads = {}
      /\ idle \notin Workers
  BY ThreadsAssumption DEF CpuInv, RQInv, RQTypeOK, Threads, Workers
<1>1. at \in [Threads -> Places] /\ at' = [at EXCEPT ![current_thread] = p]
  BY DEF switch_to, CpuInv, MachineInv, SchedTypeOK
<1> SUFFICES ASSUME NEW t \in Workers
    PROVE /\ state'[t] = "unborn" <=> at'[t] = "unborn"
          /\ state'[t] = "exited" <=> at'[t] = "dead"
          /\ state'[t] = "ready" => at'[t] \in {"fresh", "kernel", "syscall"}
          /\ state'[t] = "blocked" => at'[t] = (IF t \in Uthreads THEN "syscall" ELSE "kernel")
          /\ at'[t] \in {"user", "handler"} => t = current_thread'
  BY DEF PlaceFitsState
<1>2. CASE t = current_thread
  BY <1>2, <1>0, <1>1, ScheduleEffect DEF ReadyIn
<1>3. CASE t # current_thread /\ t = current_thread'
  BY <1>3, <1>0, <1>1, ScheduleEffect, SMTT(60) DEF ReadyIn, CpuInv, PlaceFitsState
<1>4. CASE t # current_thread /\ t # current_thread'
  BY <1>4, <1>0, <1>1, ScheduleEffect DEF CpuInv, PlaceFitsState
<1> QED BY <1>2, <1>3, <1>4

\* A tick or a call may wake no thread at all.
LEMMA NoneWoken == <<>> \in WakeLists
<1> DEFINE B == {t \in Threads : state[t] = "blocked"}
<1>1. <<>> \in [1..0 -> B] /\ \A i, j \in 1..0 : <<>>[i] = <<>>[j] => i = j
  OBVIOUS
<1>2. 0 \in 0..Cardinality(B)
  <2>1. IsFiniteSet(Threads)
    BY ThreadsAssumption, FS_AddElement DEF Threads, Workers
  <2>2. IsFiniteSet(B)
    BY <2>1, FS_Subset
  <2> QED BY <2>2, FS_CardinalityType
<1>3. <<>> \in {ts \in [1..0 -> B] : \A i, j \in 1..0 : ts[i] = ts[j] => i = j}
  BY <1>1
<1>4. {ts \in [1..0 -> B] : \A i, j \in 1..0 : ts[i] = ts[j] => i = j}
        \in {{ts \in [1..n -> B] : \A i, j \in 1..n : ts[i] = ts[j] => i = j} : n \in 0..Cardinality(B)}
  BY <1>2, ZenonT(60)
<1> HIDE DEF B
<1>5. <<>> \in UNION {{ts \in [1..n -> B] : \A i, j \in 1..n : ts[i] = ts[j] => i = j} :
                       n \in 0..Cardinality(B)}
  BY <1>3, <1>4, ZenonT(60)
<1> QED BY <1>5, ZenonT(60) DEF WakeLists, B

\* Every action of Scheduler acts on the queue as ReadyQueue allows.
LEMMA SchedStepIsRQStep ==
  ASSUME SchedNext
  PROVE  RQNext \/ UNCHANGED rqVars
<1>1. ASSUME NEW t \in Kthreads, thread_create(t) PROVE RQNext
  BY <1>1 DEF thread_create, RQNext, Workers
<1>2. ASSUME NEW t \in Uthreads, thread_create_user(t) PROVE RQNext
  BY <1>2 DEF thread_create_user, RQNext, Workers
<1>3. ASSUME enable_interrupts \/ Resume \/ syscall_entry PROVE RQNext \/ UNCHANGED rqVars
  BY <1>3 DEF enable_interrupts, Resume, kernel_entry, userspace_entry, syscall_entry,
              syscall_return, isr_return, RQNext
<1>4. ASSUME Yield PROVE RQNext
  BY NoneWoken, <1>4 DEF Yield, RQNext
<1>5. ASSUME Block \/ Exit PROVE RQNext
  BY <1>5 DEF Block, Exit, RQNext
<1>6. ASSUME NEW t \in Workers, Unblock(t) PROVE RQNext
  BY <1>6 DEF Unblock, RQNext
<1>7. ASSUME NEW ts \in WakeLists, TimerInterrupt(ts) PROVE RQNext
  BY <1>7 DEF TimerInterrupt, RQNext
<1>8. ASSUME NEW t \in Uthreads, load_program(t) \/ Exec(t) PROVE RQNext
  BY <1>8 DEF load_program, Exec, RQNext
<1> QED BY <1>1, <1>2, <1>3, <1>4, <1>5, <1>6, <1>7, <1>8 DEF SchedNext, OnceNext

\* Only elf.c adds a thread twice, and this is never undone.
LEMMA OnceStays == OnceNext /\ AddedOnce => AddedOnce'
BY DEF OnceNext, AddedOnce, thread_create, thread_create_user, scheduler_add_thread,
       enable_interrupts, Resume, kernel_entry, userspace_entry, syscall_entry, syscall_return,
       isr_return, Yield, Block, Exit, Unblock, TimerInterrupt, thread_unblock, thread_block,
       thread_exit, Reschedule, schedule, rqVars

LEMMA OnceBefore ==
  ASSUME SchedNext, AddedOnce'
  PROVE  AddedOnce /\ OnceNext
<1>1. AddedOnce
  BY SchedStepIsRQStep, AddedOnceBefore DEF AddedOnce, rqVars
<1>2. ASSUME NEW t \in Uthreads, load_program(t) \/ Exec(t) PROVE FALSE
  BY <1>2 DEF load_program, elf_load, Exec, sys_exec, schedule, AddedOnce
<1> QED BY <1>1, <1>2 DEF SchedNext

\* Every action of Scheduler keeps the CPU in order.
LEMMA MachineNextInv ==
  ASSUME MachineInv, SchedNext
  PROVE  MachineInv'
<1>0. /\ QueueSound'
      /\ RQTypeOK'
      /\ Threads = Workers \cup {idle}
      /\ Workers = Kthreads \cup Uthreads
      /\ Kthreads \cap Uthreads = {}
      /\ idle \notin Workers
      /\ at \in [Threads -> Places]
      /\ current_thread \in Threads
      /\ current_thread' \in Threads
  <2>1. QueueSound'
    <3>1. QueueSound /\ UNCHANGED rqVars => QueueSound'
      BY DEF QueueSound, RQTypeOK, NoneTwice, LinkFits, rqVars
    <3> QED BY <3>1, SoundNext, SchedStepIsRQStep DEF MachineInv
  <2> QED BY <2>1, ThreadsAssumption
          DEF MachineInv, QueueSound, RQTypeOK, SchedTypeOK, Threads, Workers
<1>2. ASSUME NEW t \in Workers, state[t] = "unborn",
             current_thread' = current_thread,
             at' = [at EXCEPT ![t] = "fresh"],
             UNCHANGED <<intr, in_service, current_process, cr3, rsp0>>
      PROVE  MachineInv'
  <2>1. t # current_thread /\ t # idle
    BY <1>0, <1>2 DEF MachineInv, QueueSound
  <2>2. SchedTypeOK'
    BY <1>0, <1>2 DEF MachineInv, SchedTypeOK, Places
  <2> QED BY <1>0, <1>2, <2>1, <2>2
          DEF MachineInv, KernelMasked, Here, IdleOwesEOI, KindFitsPlace, ContextLoaded, OneOut
<1>3. CASE enable_interrupts
  BY <1>0, <1>3 DEF enable_interrupts, MachineInv, SchedTypeOK, Places, KernelMasked,
     Here, IdleOwesEOI, KindFitsPlace, ContextLoaded, OneOut, rqVars
<1>4. ASSUME kernel_entry \/ userspace_entry \/ syscall_return
      PROVE  MachineInv'
  <2>1. PICK p \in {"kernel", "user"} :
          /\ Here \in {"fresh", "handler", "syscall"}
          /\ at' = [at EXCEPT ![current_thread] = p]
          /\ p = "kernel" => current_thread \in Kthreads /\ intr' = intr
          /\ p = "user" => current_thread \in Uthreads /\ intr' = TRUE
          /\ UNCHANGED <<rqVars, in_service, current_process, cr3, rsp0>>
    BY Zenon, <1>0, <1>4 DEF kernel_entry, userspace_entry, syscall_return, MachineInv,
       KindFitsPlace, Here
  <2>2. current_thread \in Workers /\ current_thread' = current_thread
    BY <2>1, <1>0 DEF rqVars
  <2>3. SchedTypeOK'
    BY Zenon, <2>1, <2>2, <1>0 DEF MachineInv, SchedTypeOK, Places
  <2>4. KernelMasked' /\ IdleOwesEOI' /\ KindFitsPlace' /\ ContextLoaded'
    BY <2>1, <2>2, <1>0 DEF MachineInv, KernelMasked, Here, IdleOwesEOI, KindFitsPlace, ContextLoaded
  <2>5. OneOut'
    BY <2>1, <2>2, <1>0 DEF MachineInv, OneOut
  <2> QED BY <1>0, <2>3, <2>4, <2>5 DEF MachineInv
<1>9. CASE syscall_entry
  <2>1. current_thread \in Uthreads /\ current_thread' = current_thread
    BY <1>9, <1>0 DEF syscall_entry, MachineInv, KindFitsPlace, Here, rqVars
  <2>2. SchedTypeOK' /\ KernelMasked'
    BY Zenon, <1>9, <2>1, <1>0 DEF syscall_entry, MachineInv, SchedTypeOK, Places, KernelMasked
  <2>3. IdleOwesEOI' /\ KindFitsPlace' /\ ContextLoaded'
    BY <1>9, <2>1, <1>0 DEF syscall_entry, MachineInv, IdleOwesEOI, KindFitsPlace, ContextLoaded
  <2>4. OneOut'
    BY <1>9, <2>1, <1>0 DEF syscall_entry, MachineInv, OneOut
  <2> QED BY <1>0, <2>2, <2>3, <2>4 DEF MachineInv
<1>5. CASE isr_return
  <2>1. /\ current_thread = idle
        /\ current_thread' = idle
        /\ at' = [at EXCEPT ![idle] = "hlt"]
        /\ intr' = TRUE
        /\ in_service' = FALSE
        /\ UNCHANGED <<current_process, cr3, rsp0>>
    BY Zenon, <1>5, <1>0 DEF isr_return, MachineInv, IdleOwesEOI, Here, Interrupted,
       thread_unblock, rqVars
  <2>2. SchedTypeOK'
    BY Zenon, <2>1, <1>0 DEF MachineInv, SchedTypeOK, Places
  <2>3. KernelMasked' /\ IdleOwesEOI' /\ KindFitsPlace' /\ ContextLoaded' /\ OneOut'
    BY <2>1, <1>0 DEF MachineInv, KernelMasked, Here, IdleOwesEOI, KindFitsPlace, ContextLoaded, OneOut
  <2> QED BY <1>0, <2>2, <2>3 DEF MachineInv
<1>6. ASSUME Yield \/ Block \/ Exit
      PROVE  MachineInv'
  <2>1. current_thread \in Workers /\ Here \in {"user", "kernel", "handler", "syscall"} /\ intr' = FALSE
    BY Zenon, <1>6, <1>0 DEF Yield, Block, Exit, LeaveCpu, MachineInv, KindFitsPlace, KernelMasked,
       Here, SchedTypeOK
  <2>2. /\ current_thread \in Kthreads <=> Here = "kernel"
        /\ current_thread \in Uthreads <=> Here \in {"user", "handler", "syscall"}
    BY <2>1, <1>0 DEF MachineInv, KindFitsPlace, Here
  <2>3. PICK p \in Places :
          /\ switch_to(p)
          /\ in_service' = in_service
          /\ current_thread \in Kthreads => p \in {"kernel", "dead"}
          /\ current_thread \in Uthreads => p \in {"syscall", "dead"}
    BY <1>6, <2>1, <2>2, <1>0 DEF Yield, Block, Exit, LeaveCpu, Places
  <2>5. current_thread # idle /\ in_service \in BOOLEAN
    BY <1>0, <2>1 DEF MachineInv, SchedTypeOK
  <2> QED BY Zenon, <1>0, <2>1, <2>3, <2>5, SwitchKeepsMachine
<1>7. ASSUME NEW t \in Workers, Unblock(t)
      PROVE  MachineInv'
  BY <1>7, <1>0 DEF Unblock, thread_unblock, cpuVars, MachineInv, SchedTypeOK, KernelMasked, Here,
     IdleOwesEOI, KindFitsPlace, ContextLoaded, OneOut
<1>8. ASSUME NEW ts \in WakeLists, TimerInterrupt(ts)
      PROVE  MachineInv'
  <2>1. current_thread = idle
    BY <1>8 DEF TimerInterrupt, IrqDelivered, MachineInv, IdleOwesEOI
  <2>2. "isr" \in Places
    BY DEF Places
  <2> QED BY Zenon, <1>0, <1>8, <2>1, <2>2, ThreadsAssumption, SwitchKeepsMachine
          DEF TimerInterrupt, Workers
<1>10. ASSUME NEW t \in Uthreads, Exec(t)
       PROVE  MachineInv'
  <2>1. /\ current_thread \in Uthreads
        /\ at' = [at EXCEPT ![current_thread] = "dead", ![t] = "fresh"]
        /\ load_context
        /\ intr' = intr /\ in_service' = in_service
        /\ intr = FALSE
    BY Zenon, <1>10 DEF Exec, sys_exec, MachineInv, KernelMasked, SchedTypeOK
  <2>2. ContextLoaded' /\ SchedTypeOK'
    <3>1. at' \in [Threads -> Places] /\ intr' \in BOOLEAN /\ in_service' \in BOOLEAN
      BY <1>0, <2>1 DEF MachineInv, SchedTypeOK, Places
    <3> QED BY Zenon, <3>1, <2>1, <1>0, ContextKeepsTypes DEF SchedTypeOK
  <2>3. KernelMasked' /\ IdleOwesEOI'
    BY <1>0, <2>1 DEF MachineInv, KernelMasked, IdleOwesEOI
  <2>4. KindFitsPlace' /\ OneOut'
    BY <1>0, <2>1 DEF MachineInv, KindFitsPlace, OneOut
  <2> QED BY <1>0, <2>2, <2>3, <2>4 DEF MachineInv
<1>11. ASSUME NEW t \in Kthreads, thread_create(t) PROVE MachineInv'
  BY <1>11, <1>2, <1>0 DEF thread_create, scheduler_add_thread
<1>12. ASSUME NEW t \in Uthreads, thread_create_user(t) \/ load_program(t) PROVE MachineInv'
  BY <1>12, <1>2, <1>0 DEF thread_create_user, load_program, scheduler_add_thread, elf_load
<1> QED BY Zenon, <1>3, <1>4, <1>5, <1>6, <1>7, <1>8, <1>9, <1>10, <1>11, <1>12
        DEF SchedNext, OnceNext, Resume

\* As long as each thread is added once, every action keeps states and places
\* in agreement too.
LEMMA OnceNextInv ==
  ASSUME CpuInv, OnceNext
  PROVE  CpuInv'
<1>0. /\ MachineInv'
      /\ RQInv'
      /\ Threads = Workers \cup {idle}
      /\ Workers = Kthreads \cup Uthreads
      /\ Kthreads \cap Uthreads = {}
      /\ idle \notin Workers
      /\ state \in [Threads -> States]
      /\ at \in [Threads -> Places]
      /\ current_thread \in Threads
      /\ current_thread' \in Threads
      /\ Lists(ready_queue, ReadyIn(state))
      /\ cycle = "none"
  <2>1. SchedNext
    BY DEF SchedNext
  <2>2. MachineInv'
    BY <2>1, MachineNextInv DEF CpuInv
  <2>3. RQInv'
    <3>1. RQInv /\ UNCHANGED rqVars => RQInv'
      BY DEF RQInv, RQTypeOK, AddedOnce, QueueExact, OneRunning, rqVars
    <3>2. AddedOnce'
      BY OnceStays DEF CpuInv, RQInv
    <3> QED BY <2>1, <3>1, <3>2, RQNextInv, SchedStepIsRQStep DEF CpuInv
  <2> QED BY <2>2, <2>3, ThreadsAssumption, QueueLists
          DEF CpuInv, MachineInv, RQInv, RQTypeOK, AddedOnce, SchedTypeOK, Threads, Workers
<1> SUFFICES PlaceFitsState'
  BY <1>0 DEF CpuInv
<1>1. \A t \in Workers : state[t] = "running" <=> t = current_thread
  BY DEF CpuInv, RQInv, OneRunning
<1>2. ASSUME NEW t \in Workers, scheduler_add_thread(t), at' = [at EXCEPT ![t] = "fresh"]
      PROVE  PlaceFitsState'
  <2>1. t # current_thread /\ t # idle /\ current_thread' = current_thread
    BY <1>0, <1>1, <1>2 DEF scheduler_add_thread
  <2> QED BY <1>0, <1>1, <1>2, <2>1 DEF CpuInv, PlaceFitsState, scheduler_add_thread
<1>3. CASE enable_interrupts
  <2>1. current_thread = idle
    BY <1>0, <1>3 DEF enable_interrupts, Here, CpuInv, MachineInv, KindFitsPlace
  <2> QED BY <1>0, <1>3, <2>1 DEF enable_interrupts, CpuInv, PlaceFitsState, rqVars
<1>4. ASSUME kernel_entry \/ userspace_entry \/ syscall_return
      PROVE  PlaceFitsState'
  <2>1. PICK p \in {"kernel", "user"} :
          /\ Here \in {"fresh", "handler", "syscall"}
          /\ at' = [at EXCEPT ![current_thread] = p]
          /\ p = "kernel" => current_thread \in Kthreads
          /\ p = "user" => current_thread \in Uthreads
          /\ UNCHANGED rqVars
    BY Zenon, <1>0, <1>4 DEF kernel_entry, userspace_entry, syscall_return, CpuInv, MachineInv,
       KindFitsPlace, Here
  <2>2. current_thread \in Workers /\ current_thread' = current_thread /\ state' = state
    BY <2>1, <1>0 DEF rqVars
  <2> QED BY <2>1, <2>2, <1>0, <1>1 DEF CpuInv, PlaceFitsState, Here
<1>9. CASE syscall_entry
  <2>1. current_thread \in Uthreads /\ current_thread' = current_thread /\ state' = state
    BY <1>9, <1>0 DEF syscall_entry, CpuInv, MachineInv, KindFitsPlace, Here, rqVars
  <2> QED BY <1>9, <2>1, <1>0, <1>1 DEF syscall_entry, CpuInv, PlaceFitsState, Here
<1>5. CASE isr_return
  <2>1. /\ current_thread = idle
        /\ current_thread' = idle
        /\ at' = [at EXCEPT ![idle] = "hlt"]
    BY Zenon, <1>5, <1>0 DEF isr_return, CpuInv, MachineInv, IdleOwesEOI, Here, Interrupted,
       thread_unblock, rqVars
  <2>2. \A t \in Workers : /\ at'[t] = at[t]
                           /\ state'[t] = state[t] \/ (state[t] = "blocked" /\ state'[t] = "ready")
    BY <1>5, <2>1, <1>0 DEF isr_return, thread_unblock, rqVars
  <2> QED BY <2>1, <2>2, <1>0 DEF CpuInv, PlaceFitsState
<1>6. ASSUME Yield \/ Block \/ Exit
      PROVE  PlaceFitsState'
  <2>1. current_thread \in Workers /\ Here \in {"user", "kernel", "handler", "syscall"}
    BY Zenon, <1>6, <1>0 DEF Yield, Block, Exit, CpuInv, MachineInv, KindFitsPlace, Here
  <2>2. /\ current_thread \in Kthreads <=> Here = "kernel"
        /\ current_thread \in Uthreads <=> Here \in {"user", "handler", "syscall"}
    BY <2>1, <1>0 DEF CpuInv, MachineInv, KindFitsPlace, Here
  <2>3. PICK s \in {"running", "blocked", "exited"}, p \in Places :
          /\ schedule([state EXCEPT ![current_thread] = s], ready_queue, "none")
          /\ switch_to(p)
          /\ current_thread \in Kthreads => p \in {"kernel", "dead"}
          /\ current_thread \in Uthreads => p \in {"syscall", "dead"}
          /\ s = "exited" <=> p = "dead"
    <3>1. CASE Yield
      <4>1. Woken(<<>>) = state /\ Appended(ready_queue, <<>>, cycle) = ready_queue
        BY <1>0 DEF Woken, Appended, CpuInv, RQInv, RQTypeOK
      <4>2. state = [state EXCEPT ![current_thread] = "running"]
        BY <1>0, <1>1, <2>1
      <4> QED BY Zenon, <3>1, <4>1, <4>2, <2>1, <2>2, <1>0
              DEF Yield, Reschedule, LeaveCpu, Places
    <3>2. CASE Block
      BY <3>2, <2>1, <2>2, <1>0 DEF Block, thread_block, LeaveCpu, Places
    <3>3. CASE Exit
      BY <3>3, <2>1, <2>2, <1>0 DEF Exit, thread_exit, LeaveCpu, Places
    <3> QED BY Zenon, <1>6, <3>1, <3>2, <3>3
  <2> DEFINE st == [state EXCEPT ![current_thread] = s]
  <2>4. st \in [Threads -> States] /\ ReadyIn(st) = ReadyIn(state)
    BY <1>0, <1>1, <2>1 DEF ReadyIn, States
  <2>5. st[current_thread] = s
    BY <1>0, <2>1
  <2>6. \A t \in Workers \ {current_thread} : st[t] = state[t]
    BY <1>0
  <2> HIDE DEF st
  <2>7. schedule(st, ready_queue, "none") /\ Lists(ready_queue, ReadyIn(st))
    BY <2>3, <2>4, <1>0 DEF st
  <2> QED BY Zenon, <1>0, <2>3, <2>4, <2>5, <2>6, <2>7, SwitchKeepsPlaces
<1>7. ASSUME NEW t \in Workers, Unblock(t)
      PROVE  PlaceFitsState'
  BY <1>7, <1>0 DEF Unblock, thread_unblock, cpuVars, CpuInv, PlaceFitsState
<1>8. ASSUME NEW ts \in WakeLists, TimerInterrupt(ts)
      PROVE  PlaceFitsState'
  <2>1. current_thread = idle /\ current_thread \notin Workers
    BY <1>8, <1>0 DEF TimerInterrupt, IrqDelivered, CpuInv, MachineInv, IdleOwesEOI
  <2>2. PICK W \in SUBSET {t \in Workers : state[t] = "blocked"} :
           /\ Lists(ts, W)
           /\ Woken(ts) \in [Threads -> States]
           /\ \A t \in Threads : Woken(ts)[t] = IF t \in W THEN "ready" ELSE state[t]
    BY WakeListsList DEF CpuInv
  <2>3. /\ ReadyIn(Woken(ts)) = ReadyIn(state) \cup W
        /\ ReadyIn(state) \cap W = {}
    BY <2>2, <1>0 DEF ReadyIn
  <2>4. Lists(ready_queue \o ts, ReadyIn(Woken(ts)))
    BY <2>2, <2>3, <1>0, ListsConcat
  <2>5. \A t \in Workers \ {current_thread} :
          Woken(ts)[t] = state[t] \/ (state[t] = "blocked" /\ Woken(ts)[t] = "ready")
    BY <2>2, <1>0
  <2>6. "isr" \in Places /\ switch_to("isr") /\ schedule(Woken(ts), ready_queue \o ts, "none")
    BY <1>0, <1>8 DEF Places, TimerInterrupt, Reschedule, Appended
  <2>7. current_thread \notin Kthreads /\ current_thread \notin Uthreads
    BY <2>1, <1>0
  <2> QED BY Zenon, <1>0, <2>1, <2>2, <2>4, <2>5, <2>6, <2>7, SwitchKeepsPlaces
<1> QED BY <1>2, <1>3, <1>4, <1>5, <1>6, <1>7, <1>8, <1>9, <1>0
        DEF OnceNext, Resume, thread_create, thread_create_user

\* A step that leaves the scheduler alone keeps it as well.
LEMMA MachineStutter ==
  ASSUME MachineInv, UNCHANGED vars
  PROVE  MachineInv'
<1>1. UNCHANGED <<state, ready_queue, current_thread, cycle>>
  BY DEF vars, rqVars
<1>2. UNCHANGED <<at, intr, in_service, current_process, cr3, rsp0>>
  BY DEF vars, cpuVars
<1>3. QueueSound'
  BY <1>1 DEF MachineInv, QueueSound, RQTypeOK, NoneTwice, LinkFits
<1>4. SchedTypeOK'
  BY <1>1, <1>2, <1>3 DEF MachineInv, SchedTypeOK, QueueSound
<1>5. KernelMasked' /\ IdleOwesEOI'
  BY <1>1, <1>2 DEF MachineInv, KernelMasked, Here, IdleOwesEOI
<1>6. KindFitsPlace' /\ OneOut'
  BY <1>1, <1>2 DEF MachineInv, KindFitsPlace, OneOut
<1>7. ContextLoaded'
  BY <1>1, <1>2 DEF MachineInv, ContextLoaded
<1> QED BY <1>3, <1>4, <1>5, <1>6, <1>7 DEF MachineInv

LEMMA CpuStutter ==
  ASSUME CpuInv, UNCHANGED vars
  PROVE  CpuInv'
<1>1. UNCHANGED <<state, ready_queue, current_thread, cycle, at>>
  BY DEF vars, rqVars, cpuVars
<1>2. MachineInv'
  BY MachineStutter DEF CpuInv
<1>3. RQInv'
  BY <1>1 DEF CpuInv, RQInv, RQTypeOK, AddedOnce, QueueExact, OneRunning
<1>4. PlaceFitsState'
  BY <1>1 DEF CpuInv, PlaceFitsState
<1> QED BY <1>2, <1>3, <1>4 DEF CpuInv

\* The invariant of the whole: the CPU is always in order, and queue, states
\* and places agree as long as each thread is added once.
SchedInv == MachineInv /\ (AddedOnce => CpuInv)

\* Every step of the scheduler keeps it.
LEMMA SchedNextInv ==
  ASSUME SchedInv, [SchedNext]_vars
  PROVE  SchedInv'
<1>1. CASE SchedNext
  BY <1>1, MachineNextInv, OnceNextInv, OnceBefore DEF SchedInv
<1>2. CASE UNCHANGED vars
  <2>1. AddedOnce' => AddedOnce
    BY <1>2 DEF vars, rqVars, AddedOnce
  <2> QED BY <1>2, <2>1, MachineStutter, CpuStutter DEF SchedInv
<1> QED BY <1>1, <1>2

\* The scheduler and its CPU keep their invariant.
THEOREM SchedulerInv == SchedSpec => []SchedInv
<1>1. SchedInit => SchedInv
  BY SchedInitInv DEF SchedInv, CpuInv
<1> QED BY <1>1, SchedNextInv, PTL DEF SchedSpec

-----------------------------------------------------------------------------

\* The variables keep their types.
THEOREM TypeCorrect == SchedSpec => []SchedTypeOK
<1>1. SchedInv => SchedTypeOK
  BY DEF SchedInv, MachineInv
<1> QED BY <1>1, SchedulerInv, PTL

\* Until elf.c adds a thread a second time, the queue links exactly the READY
\* workers, each once.
THEOREM QueueCorrect == SchedSpec => [](AddedOnce => QueueExact)
<1>1. SchedInv => (AddedOnce => QueueExact)
  BY DEF SchedInv, CpuInv, RQInv
<1> QED BY <1>1, SchedulerInv, PTL

\* Kernel code is never interrupted: the reason why each handler of the kernel
\* is atomic, in this and in the other modules.
THEOREM KernelNeverInterrupted == SchedSpec => []KernelMasked
<1>1. SchedInv => KernelMasked
  BY DEF SchedInv, MachineInv
<1> QED BY <1>1, SchedulerInv, PTL

\* The EOI of the tick that took the CPU from the idle thread is outstanding
\* as long as any other thread runs.
THEOREM EOIOutstanding == SchedSpec => []IdleOwesEOI
<1>1. SchedInv => IdleOwesEOI
  BY DEF SchedInv, MachineInv
<1> QED BY <1>1, SchedulerInv, PTL

\* What the scheduler says of a thread agrees with where the thread is, until
\* elf.c adds a thread a second time.
THEOREM PlacesFit == SchedSpec => [](AddedOnce => PlaceFitsState)
<1>1. SchedInv => (AddedOnce => PlaceFitsState)
  BY DEF SchedInv, CpuInv
<1> QED BY <1>1, SchedulerInv, PTL

\* Ring 3 runs with its own kernel stack, address space and process loaded.
THEOREM UserContextLoaded == SchedSpec => []UserContext
<1>1. SchedInv => UserContext
  BY ThreadsAssumption DEF SchedInv, MachineInv, KindFitsPlace, ContextLoaded, UserContext, Here,
     SchedTypeOK, RQTypeOK, Threads, Workers
<1> QED BY <1>1, SchedulerInv, PTL

\* No worker is ever preempted, whatever elf.c does to the list.
THEOREM NeverPreempted == SchedSpec => SwitchIsVoluntary
<1> DEFINE A == (current_thread \in Workers /\ current_thread' # current_thread)
                  => Yield \/ Block \/ Exit \/ \E t \in Uthreads : Exec(t)
<1>1. SchedInv /\ [SchedNext]_vars => [A]_vars
  <2> SUFFICES ASSUME SchedInv, SchedNext, current_thread \in Workers,
                      current_thread' # current_thread
               PROVE  Yield \/ Block \/ Exit \/ \E t \in Uthreads : Exec(t)
    OBVIOUS
  <2>1. current_thread # idle
    BY ThreadsAssumption DEF Workers
  <2>2. \A ts \in WakeLists : ~TimerInterrupt(ts)
    BY <2>1 DEF SchedInv, MachineInv, IdleOwesEOI, TimerInterrupt, IrqDelivered
  <2> QED BY Zenon, <2>2 DEF SchedNext, OnceNext, thread_create, thread_create_user, load_program,
          scheduler_add_thread, elf_load, enable_interrupts, Resume, kernel_entry, userspace_entry,
          syscall_entry, syscall_return, isr_return, Unblock, thread_unblock, rqVars
<1> QED BY <1>1, SchedulerInv, PTL DEF SchedSpec, SwitchIsVoluntary

\* The actions of Scheduler act on the list as those of ReadyQueue.
LEMMA SchedulerImplementsQueue == SchedSpec => RQSpec
<1>1. SchedInit => RQInit
  BY DEF SchedInit
<1>2. [SchedNext]_vars => [RQNext]_rqVars
  BY SchedStepIsRQStep DEF vars, rqVars
<1> QED BY <1>1, <1>2, PTL DEF SchedSpec, RQSpec

\* Until elf.c adds a thread a second time, a thread that has exited stays so
\* and is not switched to.
THEOREM ExitFinal == SchedSpec => ExitIsFinal
<1> DEFINE A == \A t \in Threads :
                  AddedOnce /\ state[t] = "exited" => state'[t] = "exited" /\ current_thread' # t
<1>1. (AddedOnce => RQInv) /\ [RQNext]_rqVars => [A]_rqVars
  <2> SUFFICES ASSUME RQInv, RQNext, NEW t \in Threads, state[t] = "exited"
               PROVE  state'[t] = "exited" /\ current_thread' # t
    BY Zenon
  <2>0. /\ t \in Workers
        /\ t # current_thread
        /\ t # idle
        /\ state \in [Threads -> States]
        /\ current_thread \in Threads
        /\ Lists(ready_queue, ReadyIn(state))
        /\ cycle = "none"
    BY QueueLists DEF RQInv, RQTypeOK, OneRunning, Threads, AddedOnce
  <2>1. ASSUME NEW u \in Workers, scheduler_add_thread(u) \/ thread_unblock(u)
        PROVE  state'[t] = "exited" /\ current_thread' # t
    BY <2>0, <2>1 DEF scheduler_add_thread, thread_unblock
  <2>2. ASSUME NEW st \in [Threads -> States], NEW q, Lists(q, ReadyIn(st)), schedule(st, q, "none"),
               st[t] = "exited"
        PROVE  state'[t] = "exited" /\ current_thread' # t
    BY <2>0, <2>2, ScheduleEffect DEF ReadyIn
  <2>3. ASSUME NEW s \in {"blocked", "exited"}, current_thread # idle,
               schedule([state EXCEPT ![current_thread] = s], ready_queue, "none")
        PROVE  state'[t] = "exited" /\ current_thread' # t
    <3> DEFINE st == [state EXCEPT ![current_thread] = s]
    <3>1. st \in [Threads -> States] /\ st[t] = "exited" /\ ReadyIn(st) = ReadyIn(state)
      BY <2>0, <2>3 DEF RQInv, RQTypeOK, OneRunning, ReadyIn, States, Threads
    <3> QED BY Zenon, <3>1, <2>0, <2>2, <2>3
  <2>4. ASSUME NEW ts \in WakeLists, Reschedule(ts)
        PROVE  state'[t] = "exited" /\ current_thread' # t
    <3>1. PICK W \in SUBSET {u \in Workers : state[u] = "blocked"} :
             /\ Lists(ts, W)
             /\ Woken(ts) \in [Threads -> States]
             /\ \A u \in Threads : Woken(ts)[u] = IF u \in W THEN "ready" ELSE state[u]
      BY WakeListsList
    <3>2. ReadyIn(Woken(ts)) = ReadyIn(state) \cup W /\ ReadyIn(state) \cap W = {}
      BY <3>1 DEF ReadyIn, Threads
    <3>3. Lists(ready_queue \o ts, ReadyIn(Woken(ts)))
      BY <3>1, <3>2, <2>0, ListsConcat
    <3>4. schedule(Woken(ts), ready_queue \o ts, "none")
      BY <2>0, <2>4 DEF Reschedule, Appended
    <3> QED BY <3>1, <3>3, <3>4, <2>0, <2>2
  <2>5. ASSUME NEW u \in Uthreads, elf_load(u) \/ sys_exec(u)
        PROVE  state'[t] = "exited" /\ current_thread' # t
    <3>1. CASE elf_load(u)
      BY <2>0, <3>1 DEF elf_load
    <3>2. CASE sys_exec(u)
      <4>1. current_thread' = u /\ u # t
        BY <2>0, <3>2 DEF sys_exec, schedule
      <4>2. state'[t] = [state EXCEPT ![u] = "ready", ![current_thread] = "exited"][t]
        BY <2>0, <3>2, <4>1 DEF sys_exec, schedule
      <4> QED BY <4>1, <4>2, <2>0
    <3> QED BY <2>5, <3>1, <3>2
  <2>6. thread_exit => schedule([state EXCEPT ![current_thread] = "exited"], ready_queue, "none")
    BY <2>0 DEF thread_exit
  <2> QED BY <2>0, <2>1, <2>3, <2>4, <2>5, <2>6 DEF RQNext, thread_block, thread_exit
<1> QED BY <1>1, ReadyQueueCorrect, SchedulerImplementsQueue, PTL DEF RQSpec, ExitIsFinal

\* Queue r is what is left of queue q, whose first s threads were taken, and
\* others behind it.
Follows(q, r, s) ==
  /\ Len(q) \in Nat /\ Len(r) \in Nat
  /\ \A i, j \in 1..Len(q) : q[i] = q[j] => i = j
  /\ \A k \in 1..Len(r) : k + s <= Len(q) => r[k] = q[k + s]
  /\ \A k \in 1..Len(r) : k + s > Len(q) => \A i \in 1..Len(q) : r[k] # q[i]

\* Whoever is before the thread of place i in queue r was so in queue q.
Before(q, r, i, j) == \E h \in 1..(i - 1) : q[h] = r[j]

\* A queue that loses at most its head and grows at its end keeps its order.
LEMMA OrderKept ==
  ASSUME NEW q, NEW r, NEW s \in {0, 1}, Follows(q, r, s),
         NEW i \in 1..Len(q), NEW j \in 1..Len(r), NEW k \in 1..Len(r),
         r[k] = q[i], j < k
  PROVE  Before(q, r, i, j)
<1> USE DEF Follows
<1>1. k + s <= Len(q)
  OBVIOUS
<1>2. i = k + s
  BY <1>1
<1>3. j + s \in 1..(i - 1) /\ j + s <= Len(q)
  BY <1>1, <1>2
<1> QED BY <1>3 DEF Before

\* schedule() takes the head, and adds the threads woken and the current one
\* behind those that wait.
LEMMA ScheduleKeepsOrder ==
  ASSUME NEW S, ready_queue \in Seq(S), NEW ts \in Seq(S),
         NoneTwice(ready_queue),
         \A i \in 1..Len(ready_queue) : \A k \in 1..Len(ts) : ts[k] # ready_queue[i],
         \/ ready_queue' = Tail(ready_queue \o ts)
         \/ /\ ready_queue' = Append(Tail(ready_queue \o ts), current_thread)
            /\ \A i \in 1..Len(ready_queue) : current_thread # ready_queue[i],
         NEW i \in 1..Len(ready_queue), NEW j \in 1..Len(ready_queue'),
         NEW k \in 1..Len(ready_queue'), ready_queue'[k] = ready_queue[i], j < k
  PROVE  Before(ready_queue, ready_queue', i, j)
<1> DEFINE q == ready_queue
           Q == q \o ts
           r == ready_queue'
<1>1. /\ Len(q) \in Nat /\ Len(ts) \in Nat /\ Q \in Seq(S) /\ Len(Q) = Len(q) + Len(ts)
      /\ \A n \in 1..Len(q) : Q[n] = q[n]
      /\ \A n \in (Len(q) + 1)..Len(Q) : Q[n] = ts[n - Len(q)]
  OBVIOUS
<1>2. Len(q) >= 1 /\ Len(Q) >= 1 /\ Q # <<>>
  BY <1>1
<1>3. \/ r = Tail(Q)
      \/ r = Append(Tail(Q), current_thread) /\ \A m \in 1..Len(q) : current_thread # q[m]
  OBVIOUS
<1> HIDE DEF Q
<1>4. /\ Tail(Q) \in Seq(S) /\ Len(Tail(Q)) = Len(Q) - 1
      /\ \A n \in 1..(Len(Q) - 1) : Tail(Q)[n] = Q[n + 1]
  BY <1>1, <1>2
<1> DEFINE T == Tail(Q)
<1> HIDE DEF T
<1>5. /\ Len(r) \in Nat
      /\ \A n \in 1..(Len(Q) - 1) : r[n] = Q[n + 1]
      /\ \A n \in 1..Len(r) : n > Len(Q) - 1 =>
           r[n] = current_thread /\ \A m \in 1..Len(q) : current_thread # q[m]
  <2>1. T \in Seq(S) /\ Len(T) = Len(Q) - 1 /\ \A n \in 1..Len(T) : T[n] = Q[n + 1]
    BY <1>4 DEF T
  <2>2. CASE r = T
    <3>1. Len(T) \in Nat
      BY <2>1
    <3>2. Len(r) \in Nat /\ \A n \in 1..Len(r) : ~(n > Len(Q) - 1)
      BY <2>1, <2>2, <3>1
    <3>3. \A n \in 1..(Len(Q) - 1) : r[n] = Q[n + 1]
      BY Zenon, <2>1, <2>2
    <3> QED BY Zenon, <3>2, <3>3
  <2>3. CASE r = Append(T, current_thread) /\ \A m \in 1..Len(q) : current_thread # q[m]
    <3>1. Len(T) \in Nat
      BY <2>1
    <3>2. /\ Len(r) = Len(T) + 1 /\ r[Len(T) + 1] = current_thread
          /\ \A n \in 1..Len(T) : r[n] = T[n]
      BY <2>1, <2>3
    <3>3. \A n \in 1..Len(r) : n > Len(Q) - 1 => r[n] = current_thread
      BY <2>1, <3>1, <3>2
    <3>4. Len(r) \in Nat /\ \A n \in 1..(Len(Q) - 1) : r[n] = Q[n + 1]
      BY <2>1, <3>1, <3>2
    <3> QED BY Zenon, <2>3, <3>3, <3>4
  <2> QED BY <1>3, <2>2, <2>3 DEF T
<1> HIDE DEF q, r
<1>6. \A n \in 1..Len(r) : n + 1 <= Len(q) => r[n] = q[n + 1]
  BY <1>1, <1>5
<1>7. ASSUME NEW n \in 1..Len(r), n + 1 > Len(q), NEW m \in 1..Len(q) PROVE r[n] # q[m]
  <2>1. CASE n <= Len(Q) - 1
    <3>1. n + 1 \in (Len(q) + 1)..Len(Q) /\ n + 1 - Len(q) \in 1..Len(ts) /\ n \in 1..(Len(Q) - 1)
      BY <1>1, <1>5, <1>7, <2>1
    <3>2. r[n] = ts[n + 1 - Len(q)]
      BY <3>1, <1>1, <1>5
    <3> QED BY Zenon, <3>1, <3>2 DEF q
  <2>2. CASE n > Len(Q) - 1
    BY <2>2, <1>5
  <2> QED BY <2>1, <2>2, <1>1, <1>5
<1>8. /\ \A a, b \in 1..Len(q) : q[a] = q[b] => a = b
      /\ i \in 1..Len(q) /\ j \in 1..Len(r) /\ k \in 1..Len(r) /\ r[k] = q[i]
  BY DEF q, r, NoneTwice
<1>9. Follows(q, r, 1)
  BY Zenon, <1>1, <1>5, <1>6, <1>7, <1>8 DEF Follows
<1>10. Before(q, r, i, j)
  BY <1>8, <1>9, OrderKept
<1> QED BY <1>10 DEF q, r

\* A thread that waits is passed by new threads only, on cyclic lists too.
THEOREM NobodyOvertakes == SchedSpec => NoOvertaking
<1> DEFINE Kept(i, j) == \/ state[ready_queue'[j]] = "unborn"
                         \/ \E h \in 1..(i - 1) : ready_queue[h] = ready_queue'[j]
           A == \A i \in 1..Len(ready_queue), j, k \in 1..Len(ready_queue') :
                  (ready_queue'[k] = ready_queue[i] /\ j < k) => Kept(i, j)
<1>1. QueueSound /\ [RQNext]_rqVars => [A]_rqVars
  <2> SUFFICES ASSUME QueueSound, RQNext, NEW i \in 1..Len(ready_queue),
                      NEW j \in 1..Len(ready_queue'), NEW k \in 1..Len(ready_queue'),
                      ready_queue'[k] = ready_queue[i], j < k
               PROVE  Kept(i, j)
    OBVIOUS
  <2> DEFINE q == ready_queue
  <2>0. /\ q \in Seq(Workers) /\ Len(q) \in Nat
        /\ \A a, b \in 1..Len(q) : q[a] = q[b] => a = b
        /\ \A a \in 1..Len(q) : q[a] \in Workers
        /\ cycle # "tail" => \A a \in 1..Len(q) : state[q[a]] \in {"ready", "exited"}
        /\ current_thread \in Workers => state[current_thread] = "running"
        /\ cycle \in Cycles
    <3>1. q \in Seq(Workers) /\ Len(q) \in Nat /\ \A a \in 1..Len(q) : q[a] \in Workers
      BY DEF QueueSound, RQTypeOK
    <3> QED BY <3>1 DEF QueueSound, RQTypeOK, NoneTwice, LinkFits, Cycles
  <2>1. ASSUME NEW t \in Workers, scheduler_add_thread(t)
        PROVE  Kept(i, j)
    <3>1. ready_queue' = <<t>> \o q /\ state[t] = "unborn"
      BY <2>1 DEF scheduler_add_thread
    <3>2. /\ Len(ready_queue') = Len(q) + 1 /\ ready_queue'[1] = t
          /\ \A n \in 2..(Len(q) + 1) : ready_queue'[n] = q[n - 1]
      BY <3>1, <2>0
    <3>3. CASE j = 1
      BY <3>1, <3>2, <3>3
    <3>4. CASE j # 1
      <4>1. j \in 2..(Len(q) + 1) /\ k \in 2..(Len(q) + 1) /\ k - 1 \in 1..Len(q)
        BY <3>2, <3>4, <2>0
      <4>2. ready_queue'[j] = q[j - 1] /\ q[k - 1] = q[i]
        BY <4>1, <3>2
      <4>3. k - 1 = i
        BY <4>1, <4>2, <2>0
      <4>4. j - 1 \in 1..(i - 1)
        BY <4>1, <4>3
      <4> QED BY <4>2, <4>4
    <3> QED BY <3>3, <3>4
  <2>2. ASSUME NEW t \in Workers, thread_unblock(t)
        PROVE  Kept(i, j)
    <3>0. CASE cycle = "tail"
      <4>1. ready_queue' = q
        BY <2>2, <3>0 DEF thread_unblock, Appended
      <4> QED BY <4>1, <2>0
    <3>00. CASE cycle # "tail"
      <4>1. ready_queue' = Append(q, t) /\ state[t] = "blocked"
        BY <2>0, <2>2, <3>00 DEF thread_unblock, Appended
      <4> DEFINE r == ready_queue'
      <4>2. /\ Len(r) = Len(q) + 1 /\ r[Len(q) + 1] = t
            /\ \A n \in 1..Len(q) : r[n] = q[n]
        BY <4>1, <2>0
      <4>3. \A n \in 1..Len(q) : t # q[n]
        BY <4>1, <2>0, <3>00
      <4> HIDE DEF q, r
      <4>4. /\ Len(r) \in Nat
            /\ \A n \in 1..Len(r) : n + 0 <= Len(q) => r[n] = q[n + 0]
            /\ \A n \in 1..Len(r) : n + 0 > Len(q) => \A m \in 1..Len(q) : r[n] # q[m]
        BY <4>2, <4>3, <2>0
      <4>5. i \in 1..Len(q) /\ j \in 1..Len(r) /\ k \in 1..Len(r) /\ r[k] = q[i]
        BY DEF q, r
      <4>6. Follows(q, r, 0)
        BY <2>0, <4>4 DEF Follows
      <4>7. Before(q, r, i, j)
        BY <4>5, <4>6, OrderKept
      <4> QED BY <4>7 DEF q, r, Before
    <3> QED BY <3>0, <3>00
  <2>3. ASSUME NEW st, NEW ts \in Seq(Workers), NEW c \in Cycles,
               schedule(st, Appended(q, ts, c), c),
               c # "tail" => \A n \in 1..Len(q) : \A m \in 1..Len(ts) : ts[m] # q[n],
               c # "tail" /\ st[current_thread] = "running" =>
                 \A n \in 1..Len(q) : current_thread # q[n]
        PROVE  Kept(i, j)
    <3>0. Len(q) >= 1 /\ q # <<>>
      BY <2>0
    <3>1. CASE c = "tail" /\ Len(q) = 1
      <4>1. ready_queue' = q
        BY <2>3, <3>0, <3>1 DEF schedule, Appended
      <4> QED BY <4>1, <3>1, <2>0
    <3>2. CASE c = "tail" /\ Len(q) # 1
      <4>1. ready_queue' = Tail(q)
        BY <2>3, <3>0, <3>2 DEF schedule, Appended
      <4>2. q \o <<>> = q /\ <<>> \in Seq(Workers) /\ Len(<<>>) = 0
        BY <2>0
      <4>3. \A n \in 1..Len(q) : \A m \in 1..Len(<<>>) : <<>>[m] # q[n]
        BY <4>2
      <4> QED BY Zenon, <4>1, <4>2, <4>3, <2>0, ScheduleKeepsOrder DEF Before, NoneTwice
    <3>3. CASE c # "tail"
      <4> DEFINE Q == q \o ts
                 requeue == st[current_thread] = "running" /\ current_thread # idle
      <4>1. Appended(q, ts, c) = Q /\ Q # <<>> /\ Q \in Seq(Workers)
        BY <2>0, <2>3, <3>0, <3>3 DEF Appended
      <4> HIDE DEF Q
      <4>2. ready_queue' = IF requeue THEN Tail(Q) \o <<current_thread>> ELSE Tail(Q)
        BY <2>3, <4>1, <3>3 DEF schedule, Appended
      <4>3. Tail(Q) \o <<current_thread>> = Append(Tail(Q), current_thread)
        BY <4>1
      <4>4. \/ ready_queue' = Tail(Q)
            \/ /\ ready_queue' = Append(Tail(Q), current_thread)
               /\ \A n \in 1..Len(q) : current_thread # q[n]
        BY Zenon, <4>2, <4>3, <2>3, <3>3
      <4> QED BY Zenon, <4>4, <2>0, <2>3, <3>3, ScheduleKeepsOrder DEF Before, NoneTwice, Q
    <3> QED BY <3>1, <3>2, <3>3
  <2>4. ASSUME NEW s \in {"blocked", "exited"}, NEW c \in Cycles, current_thread # idle,
               schedule([state EXCEPT ![current_thread] = s], q, c)
        PROVE  Kept(i, j)
    <3> DEFINE st == [state EXCEPT ![current_thread] = s]
    <3>1. Appended(q, <<>>, c) = q /\ <<>> \in Seq(Workers) /\ Len(<<>>) = 0
      BY <2>0 DEF Appended
    <3>2. \A n \in 1..Len(q) : \A m \in 1..Len(<<>>) : <<>>[m] # q[n]
      BY <3>1
    <3>3. st[current_thread] # "running"
      BY DEF QueueSound, RQTypeOK
    <3> HIDE DEF st
    <3>4. schedule(st, Appended(q, <<>>, c), c)
      BY <2>4, <3>1 DEF st
    <3> QED BY Zenon, <3>1, <3>2, <3>3, <3>4, <2>3
  <2>5. ASSUME NEW ts \in WakeLists, Reschedule(ts)
        PROVE  Kept(i, j)
    <3>1. ts \in Seq(Workers) /\ \A m \in 1..Len(ts) : state[ts[m]] = "blocked"
      BY WokenSound
    <3>2. cycle # "tail" => \A n \in 1..Len(q) : \A m \in 1..Len(ts) : ts[m] # q[n]
      BY <3>1, <2>0
    <3>3. cycle # "tail" => \A n \in 1..Len(q) : current_thread # q[n]
      BY <2>0
    <3>4. schedule(Woken(ts), Appended(q, ts, cycle), cycle)
      BY <2>5 DEF Reschedule
    <3> QED BY Zenon, <3>1, <3>2, <3>3, <3>4, <2>0, <2>3
  <2>6. ASSUME NEW t \in Uthreads, elf_load(t) \/ sys_exec(t)
        PROVE  Kept(i, j)
    <3>1. ready_queue' = <<t>>
      BY <2>6 DEF elf_load, sys_exec, schedule, Appended
    <3> QED BY <3>1
  <2>7. thread_block \/ thread_exit => Kept(i, j)
    BY <2>0, <2>4 DEF thread_block, thread_exit, Cycles
  <2> QED BY Zenon, <2>1, <2>2, <2>5, <2>6, <2>7 DEF RQNext
<1>2. RQInit => QueueSound
  BY SoundInit
<1>3. QueueSound /\ [RQNext]_rqVars => QueueSound'
  <2>1. QueueSound /\ UNCHANGED rqVars => QueueSound'
    BY DEF QueueSound, RQTypeOK, NoneTwice, LinkFits, rqVars
  <2> QED BY <2>1, SoundNext
<1> QED BY <1>1, <1>2, <1>3, SchedulerImplementsQueue, PTL DEF RQSpec, NoOvertaking
=============================================================================
