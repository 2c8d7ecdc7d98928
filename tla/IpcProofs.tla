------------------------------ MODULE IpcProofs ------------------------------
(***************************************************************************)
(* Proofs about module Ipc, for any sets of threads, any number of ports   *)
(* and any number of messages.  IPC uses the scheduler as module Scheduler *)
(* allows, so CpuInv of SchedulerProofs holds, and with it IpcIInv is      *)
(* inductive.                                                              *)
(***************************************************************************)
EXTENDS Ipc, SchedulerProofs

(***************************************************************************)
(* Lists L[p] whose nodes carry a key (the thread that waits): which keys  *)
(* they hold, and that no two nodes hold the same.                         *)
(***************************************************************************)
Held(L, key, v) == \E p \in DOMAIN L : \E i \in 1..Len(L[p]) : key[L[p][i]] = v

Once(L, key) ==
  \A p, q \in DOMAIN L : \A i \in 1..Len(L[p]), j \in 1..Len(L[q]) :
    key[L[p][i]] = key[L[q][j]] => p = q /\ i = j

\* M is L with a node queued at the head of one list, and with the head of one
\* list taken.
Pushed(P, X, L, M, p, x) ==
  L \in [P -> Seq(X)] /\ p \in P /\ x \in X /\ M = [L EXCEPT ![p] = <<x>> \o @]
Popped(P, X, L, M, p) ==
  L \in [P -> Seq(X)] /\ p \in P /\ L[p] # <<>> /\ M = [L EXCEPT ![p] = Tail(@)]

\* Queueing a node, as ipc_send and ipc_recv do.
LEMMA PushHeld ==
  ASSUME NEW P, NEW X, NEW L, NEW M, NEW p, NEW x, Pushed(P, X, L, M, p, x),
         NEW key, Once(L, key), ~Held(L, key, key[x])
  PROVE  /\ M \in [P -> Seq(X)]
         /\ Once(M, key)
         /\ \A v : Held(M, key, v) <=> Held(L, key, v) \/ v = key[x]
         /\ \A q \in P : \A i \in 1..Len(M[q]) :
              M[q][i] = x \/ \E j \in 1..Len(L[q]) : M[q][i] = L[q][j]
<1> DEFINE s == L[p]
           n == Len(s)
<1>1. /\ DOMAIN L = P
      /\ DOMAIN M = P
      /\ M \in [P -> Seq(X)]
      /\ M[p] = <<x>> \o s
      /\ \A q \in P : q # p => M[q] = L[q]
      /\ \A q \in P : Len(L[q]) \in Nat
      /\ L \in [P -> Seq(X)] /\ p \in P /\ x \in X
  BY DEF Pushed
<1>2. /\ s \in Seq(X)
      /\ n \in Nat
      /\ Len(M[p]) = n + 1
      /\ M[p][1] = x
      /\ \A i \in 2..(n + 1) : M[p][i] = s[i - 1]
      /\ \A i \in 1..n : M[p][i + 1] = s[i]
  BY <1>1
<1>3. ASSUME NEW q \in P, NEW i \in 1..Len(M[q])
      PROVE  \/ q = p /\ i = 1 /\ M[q][i] = x
             \/ \E a \in 1..Len(L[q]) :
                  M[q][i] = L[q][a] /\ i = (IF q = p THEN a + 1 ELSE a)
  <2>1. CASE q = p /\ i # 1
    <3>1. i - 1 \in 1..Len(L[q]) /\ M[q][i] = L[q][i - 1] /\ i = (i - 1) + 1
      BY <2>1, <1>2
    <3> QED BY <2>1, <3>1
  <2>2. CASE q # p
    BY <2>2, <1>1
  <2> QED BY <2>1, <2>2, <1>2
<1>4. \A q \in P : \A i \in 1..Len(M[q]) :
        M[q][i] = x \/ \E j \in 1..Len(L[q]) : M[q][i] = L[q][j]
  BY <1>3
<1>5. ASSUME NEW v PROVE Held(M, key, v) <=> Held(L, key, v) \/ v = key[x]
  <2>1. ASSUME Held(M, key, v) PROVE Held(L, key, v) \/ v = key[x]
    <3>1. PICK q \in P : \E i \in 1..Len(M[q]) : key[M[q][i]] = v
      BY <2>1, <1>1 DEF Held
    <3>2. PICK i \in 1..Len(M[q]) : key[M[q][i]] = v
      BY <3>1
    <3>3. M[q][i] = x \/ \E j \in 1..Len(L[q]) : M[q][i] = L[q][j]
      BY <1>4
    <3> QED BY <3>2, <3>3, <1>1 DEF Held
  <2>2. ASSUME v = key[x] PROVE Held(M, key, v)
    BY <2>2, <1>1, <1>2 DEF Held
  <2>3. ASSUME Held(L, key, v) PROVE Held(M, key, v)
    <3>1. PICK q \in P : \E i \in 1..Len(L[q]) : key[L[q][i]] = v
      BY <2>3, <1>1 DEF Held
    <3>2. PICK i \in 1..Len(L[q]) : key[L[q][i]] = v
      BY <3>1
    <3>3. CASE q = p
      <4>1. i + 1 \in 1..Len(M[p]) /\ M[p][i + 1] = L[q][i]
        BY <3>3, <1>2
      <4> QED BY Zenon, <4>1, <3>2, <1>1 DEF Held
    <3>4. CASE q # p
      BY <3>4, <3>2, <1>1 DEF Held
    <3> QED BY <3>3, <3>4
  <2> QED BY <2>1, <2>2, <2>3
<1>6. \A q \in P : \A i \in 1..Len(L[q]) : key[L[q][i]] # key[x]
  BY <1>1 DEF Held
<1>7. ASSUME NEW q \in P, NEW r \in P, NEW i \in 1..Len(M[q]), NEW j \in 1..Len(M[r]),
             key[M[q][i]] = key[M[r][j]]
      PROVE  q = r /\ i = j
  <2>1. \/ q = p /\ i = 1 /\ M[q][i] = x
        \/ \E a \in 1..Len(L[q]) : M[q][i] = L[q][a] /\ i = (IF q = p THEN a + 1 ELSE a)
    BY <1>3
  <2>2. \/ r = p /\ j = 1 /\ M[r][j] = x
        \/ \E b \in 1..Len(L[r]) : M[r][j] = L[r][b] /\ j = (IF r = p THEN b + 1 ELSE b)
    BY <1>3
  <2>3. ASSUME NEW a \in 1..Len(L[q]), M[q][i] = L[q][a], i = (IF q = p THEN a + 1 ELSE a),
               NEW b \in 1..Len(L[r]), M[r][j] = L[r][b], j = (IF r = p THEN b + 1 ELSE b)
        PROVE  q = r /\ i = j
    <3>1. q = r /\ a = b
      BY <2>3, <1>7, <1>1 DEF Once
    <3> QED BY <3>1, <2>3
  <2> QED BY <2>1, <2>2, <2>3, <1>6, <1>7
<1>8. Once(M, key)
  BY Zenon, <1>1, <1>7 DEF Once
<1> QED BY <1>1, <1>4, <1>5, <1>8

\* Taking the node at the head of one list.
LEMMA PopHeld ==
  ASSUME NEW P, NEW X, NEW L, NEW M, NEW p, Popped(P, X, L, M, p),
         NEW key, Once(L, key)
  PROVE  /\ M \in [P -> Seq(X)]
         /\ Once(M, key)
         /\ Head(L[p]) \in X
         /\ Held(L, key, key[Head(L[p])])
         /\ \A v : Held(M, key, v) <=> Held(L, key, v) /\ v # key[Head(L[p])]
         /\ \A q \in P : \A i \in 1..Len(M[q]) : \E j \in 1..Len(L[q]) : M[q][i] = L[q][j]
<1> DEFINE s == L[p]
           n == Len(s)
<1>1. /\ DOMAIN L = P
      /\ DOMAIN M = P
      /\ M \in [P -> Seq(X)]
      /\ M[p] = Tail(s)
      /\ \A q \in P : q # p => M[q] = L[q]
      /\ \A q \in P : Len(L[q]) \in Nat
      /\ L \in [P -> Seq(X)] /\ p \in P /\ L[p] # <<>>
  BY DEF Popped
<1>2. /\ s \in Seq(X)
      /\ n \in Nat \ {0}
      /\ Len(M[p]) = n - 1
      /\ Head(s) = s[1]
      /\ Head(s) \in X
      /\ \A i \in 1..(n - 1) : M[p][i] = s[i + 1]
  BY <1>1
<1>3. ASSUME NEW q \in P, NEW i \in 1..Len(M[q])
      PROVE  \E a \in 1..Len(L[q]) :
               /\ M[q][i] = L[q][a]
               /\ i = (IF q = p THEN a - 1 ELSE a)
               /\ ~(q = p /\ a = 1)
  <2>1. CASE q = p
    <3>1. i + 1 \in 1..Len(L[q]) /\ M[q][i] = L[q][i + 1] /\ i = (i + 1) - 1 /\ i + 1 # 1
      BY <2>1, <1>2
    <3> QED BY <2>1, <3>1
  <2>2. CASE q # p
    BY <2>2, <1>1
  <2> QED BY <2>1, <2>2
<1>4. \A q \in P : \A i \in 1..Len(M[q]) : \E j \in 1..Len(L[q]) : M[q][i] = L[q][j]
  BY <1>3
<1>5. 1 \in 1..Len(L[p]) /\ Held(L, key, key[Head(s)])
  BY <1>1, <1>2 DEF Held
<1>6. ASSUME NEW v PROVE Held(M, key, v) <=> Held(L, key, v) /\ v # key[Head(s)]
  <2>1. ASSUME Held(M, key, v) PROVE Held(L, key, v) /\ v # key[Head(s)]
    <3>1. PICK q \in P : \E i \in 1..Len(M[q]) : key[M[q][i]] = v
      BY <2>1, <1>1 DEF Held
    <3>2. PICK i \in 1..Len(M[q]) : key[M[q][i]] = v
      BY <3>1
    <3>3. PICK a \in 1..Len(L[q]) : M[q][i] = L[q][a] /\ ~(q = p /\ a = 1)
      BY <1>3
    <3>4. v # key[s[1]]
      BY <3>2, <3>3, <1>1, <1>5 DEF Once
    <3> QED BY <3>2, <3>3, <3>4, <1>1, <1>2 DEF Held
  <2>2. ASSUME Held(L, key, v), v # key[Head(s)] PROVE Held(M, key, v)
    <3>1. PICK q \in P : \E i \in 1..Len(L[q]) : key[L[q][i]] = v
      BY <2>2, <1>1 DEF Held
    <3>2. PICK i \in 1..Len(L[q]) : key[L[q][i]] = v
      BY <3>1
    <3>3. CASE q = p
      <4>1. i - 1 \in 1..Len(M[p]) /\ M[p][i - 1] = L[q][i]
        BY <3>2, <3>3, <2>2, <1>2
      <4> QED BY Zenon, <4>1, <3>2, <1>1 DEF Held
    <3>4. CASE q # p
      BY Zenon, <3>4, <3>2, <1>1 DEF Held
    <3> QED BY <3>3, <3>4
  <2> QED BY <2>1, <2>2
<1>7. ASSUME NEW q \in P, NEW r \in P, NEW i \in 1..Len(M[q]), NEW j \in 1..Len(M[r]),
             key[M[q][i]] = key[M[r][j]]
      PROVE  q = r /\ i = j
  <2>1. PICK a \in 1..Len(L[q]) : M[q][i] = L[q][a] /\ i = (IF q = p THEN a - 1 ELSE a)
    BY <1>3
  <2>2. PICK b \in 1..Len(L[r]) : M[r][j] = L[r][b] /\ j = (IF r = p THEN b - 1 ELSE b)
    BY <1>3
  <2>3. q = r /\ a = b
    BY <2>1, <2>2, <1>7, <1>1 DEF Once
  <2> QED BY <2>1, <2>2, <2>3
<1>8. Once(M, key)
  BY Zenon, <1>1, <1>7 DEF Once
<1> QED BY <1>1, <1>2, <1>4, <1>5, <1>6, <1>8

-----------------------------------------------------------------------------

Nodes == [thread : Kthreads, msg : Messages]
threadOf == [n \in Nodes |-> n.thread]
self == [t \in Kthreads |-> t]

\* The threads in lists of senders.
LEMMA SenderKeys ==
  ASSUME NEW L \in [Ports -> Seq(Nodes)]
  PROVE  /\ \A t : (\E p \in Ports : \E i \in 1..Len(L[p]) : L[p][i].thread = t)
                     <=> Held(L, threadOf, t)
         /\ (\A p, q \in Ports : \A i \in 1..Len(L[p]), j \in 1..Len(L[q]) :
               L[p][i].thread = L[q][j].thread => p = q /\ i = j) <=> Once(L, threadOf)
<1>1. DOMAIN L = Ports
  OBVIOUS
<1>2. \A p \in Ports : \A i \in 1..Len(L[p]) : L[p][i] \in Nodes
  OBVIOUS
<1>3. \A p \in Ports : \A i \in 1..Len(L[p]) : threadOf[L[p][i]] = L[p][i].thread
  BY <1>2 DEF threadOf
<1> QED BY <1>1, <1>3 DEF Held, Once

\* The same for lists of receivers.
LEMMA RecverKeys ==
  ASSUME NEW L \in [Ports -> Seq(Kthreads)]
  PROVE  /\ \A t : (\E p \in Ports : \E i \in 1..Len(L[p]) : L[p][i] = t) <=> Held(L, self, t)
         /\ (\A p, q \in Ports : \A i \in 1..Len(L[p]), j \in 1..Len(L[q]) :
               L[p][i] = L[q][j] => p = q /\ i = j) <=> Once(L, self)
<1>1. DOMAIN L = Ports
  OBVIOUS
<1>2. \A p \in Ports : \A i \in 1..Len(L[p]) : L[p][i] \in Kthreads
  OBVIOUS
<1>3. \A p \in Ports : \A i \in 1..Len(L[p]) : self[L[p][i]] = L[p][i]
  BY <1>2 DEF self
<1>4. Once(L, self) <=> \A p, q \in Ports : \A i \in 1..Len(L[p]), j \in 1..Len(L[q]) :
                          self[L[p][i]] = self[L[q][j]] => p = q /\ i = j
  BY <1>1 DEF Once
<1>5. ASSUME NEW t
      PROVE  (\E p \in Ports : \E i \in 1..Len(L[p]) : L[p][i] = t) <=> Held(L, self, t)
  BY <1>1, <1>3 DEF Held
<1> QED BY <1>3, <1>4, <1>5

\* A waiting node holds the last message of its thread.
LastSent ==
  \A p \in Ports : \A i \in 1..Len(senders[p]) :
    LET n == senders[p][i]
    IN  sent[n.thread] >= 1 /\ n.msg.id = <<n.thread, sent[n.thread]>>

\* A buffer that ipc_recv has left unwritten belongs to a waiting receiver.
UnwrittenWaits == \A t \in Kthreads : buffer[t] = Garbage => Receiving(t)

\* The inductive invariant.
IpcIInv ==
  /\ CpuInv
  /\ IpcInv
  /\ LastSent
  /\ UnwrittenWaits
  /\ ExactlyOnce

\* A message waits exactly while its thread waits to send and has sent no other
\* since.
LEMMA WaitingLast ==
  ASSUME NEW L \in [Ports -> Seq(Nodes)], NEW n \in [Kthreads -> Nat],
         \A p \in Ports : \A i \in 1..Len(L[p]) :
           L[p][i].msg.id = <<L[p][i].thread, n[L[p][i].thread]>>,
         NEW id \in SendIds
  PROVE  (\E p \in Ports : \E i \in 1..Len(L[p]) : L[p][i].msg.id = id)
           <=> Held(L, threadOf, id[1]) /\ id[2] = n[id[1]]
<1> DEFINE W == \E p \in Ports : \E i \in 1..Len(L[p]) : L[p][i].msg.id = id
<1>1. id = <<id[1], id[2]>> /\ id[1] \in Kthreads
  BY DEF SendIds
<1>2. ASSUME W PROVE Held(L, threadOf, id[1]) /\ id[2] = n[id[1]]
  <2>1. PICK p \in Ports : \E i \in 1..Len(L[p]) : L[p][i].msg.id = id
    BY <1>2
  <2>2. PICK i \in 1..Len(L[p]) : L[p][i].msg.id = id
    BY <2>1
  <2>3. id[1] = L[p][i].thread /\ id[2] = n[L[p][i].thread]
    BY <2>2
  <2> QED BY <2>3, SenderKeys
<1>3. ASSUME Held(L, threadOf, id[1]), id[2] = n[id[1]] PROVE W
  <2>0. \A t : Held(L, threadOf, t)
                => \E p \in Ports : \E i \in 1..Len(L[p]) : L[p][i].thread = t
    BY SenderKeys
  <2>1. PICK p \in Ports : \E i \in 1..Len(L[p]) : L[p][i].thread = id[1]
    BY <2>0, <1>3
  <2>2. PICK i \in 1..Len(L[p]) : L[p][i].thread = id[1]
    BY <2>1
  <2>3. L[p][i].msg.id = <<id[1], id[2]>>
    BY <2>2, <1>3
  <2> QED BY Zenon, <2>3, <1>1
<1> QED BY <1>2, <1>3

\* The thread that makes a call of ipc.c is a kernel thread that runs and waits
\* nowhere.
LEMMA CallerRuns ==
  ASSUME IpcIInv, Here = "kernel"
  PROVE  /\ current_thread \in Kthreads
         /\ current_thread \in Workers
         /\ current_thread # idle
         /\ state[current_thread] = "running"
         /\ ~Sending(current_thread)
         /\ ~Receiving(current_thread)
<1>1. /\ current_thread \in Threads
      /\ Threads = Workers \cup {idle}
      /\ Workers = Kthreads \cup Uthreads
      /\ idle \notin Workers
  BY ThreadsAssumption DEF IpcIInv, CpuInv, RQInv, RQTypeOK, Threads, Workers
<1>2. current_thread \in Kthreads
  BY <1>1 DEF IpcIInv, CpuInv, MachineInv, KindFitsPlace, Here
<1>3. state[current_thread] = "running"
  BY <1>1, <1>2 DEF IpcIInv, CpuInv, RQInv, OneRunning
<1> QED BY <1>1, <1>2, <1>3 DEF IpcIInv, IpcInv, BlockedIffQueued

\* thread_block, called by ipc.c, blocks the caller and no other thread.
LEMMA BlockEffect ==
  ASSUME IpcIInv, Here = "kernel", Block
  PROVE  \A t \in Kthreads : state'[t] = "blocked" <=> state[t] = "blocked" \/ t = current_thread
<1> DEFINE st == [state EXCEPT ![current_thread] = "blocked"]
<1>1. /\ current_thread \in Kthreads
      /\ state[current_thread] = "running"
  BY CallerRuns
<1>2. /\ state \in [Threads -> States]
      /\ Lists(ready_queue, ReadyIn(state))
      /\ Kthreads \subseteq Threads
      /\ Kthreads \subseteq Workers
      /\ idle \notin Kthreads
      /\ cycle = "none"
  BY QueueLists, ThreadsAssumption
     DEF IpcIInv, CpuInv, RQInv, RQTypeOK, AddedOnce, Threads, Workers
<1>3. schedule(st, ready_queue, "none")
  BY <1>2 DEF Block, thread_block
<1>4. st \in [Threads -> States] /\ ReadyIn(st) = ReadyIn(state)
  BY <1>1, <1>2 DEF States, ReadyIn
<1>5. Lists(ready_queue, ReadyIn(st))
  BY <1>2, <1>4
<1>6. /\ current_thread' \in ReadyIn(st) \cup {idle}
      /\ \A t \in Threads : t # current_thread /\ t # current_thread' => state'[t] = st[t]
      /\ state'[current_thread'] = "running" \/ current_thread' \notin Threads
      /\ current_thread \in Threads /\ current_thread # current_thread' =>
           state'[current_thread] = IF st[current_thread] = "running" /\ current_thread # idle
                                    THEN "ready" ELSE st[current_thread]
  BY Zenon, <1>3, <1>4, <1>5, ScheduleEffect
<1>7. /\ current_thread' # current_thread
      /\ state'[current_thread] = "blocked"
  BY <1>1, <1>2, <1>6 DEF ReadyIn
<1>8. ASSUME NEW t \in Kthreads, t # current_thread
      PROVE  state'[t] = "blocked" <=> state[t] = "blocked"
  BY <1>1, <1>2, <1>6, <1>8 DEF ReadyIn
<1> QED BY <1>7, <1>8

\* A wake-up by ipc.c unblocks its thread and no other.
LEMMA WakeEffect ==
  ASSUME IpcIInv, NEW t \in Kthreads, state[t] = "blocked", Wake(t)
  PROVE  /\ Unblock(t)
         /\ \A u \in Kthreads : state'[u] = "blocked" <=> state[u] = "blocked" /\ u # t
<1>1. Unblock(t)
  BY DEF Wake
<1>2. state \in [Threads -> States] /\ Kthreads \subseteq Threads
  BY DEF IpcIInv, CpuInv, RQInv, RQTypeOK, Threads, Workers
<1>3. state' = [state EXCEPT ![t] = "ready"]
  BY <1>1 DEF Unblock, thread_unblock
<1> QED BY <1>1, <1>2, <1>3

\* The head of a list of receivers, or of senders, is a blocked thread.
LEMMA HeadBlocked ==
  ASSUME IpcIInv, NEW p \in Ports
  PROVE  /\ recvers[p] # <<>> => /\ Head(recvers[p]) \in Kthreads
                                 /\ Receiving(Head(recvers[p]))
                                 /\ ~Sending(Head(recvers[p]))
                                 /\ state[Head(recvers[p])] = "blocked"
         /\ senders[p] # <<>> => /\ Head(senders[p]) \in Nodes
                                 /\ Sending(Head(senders[p]).thread)
                                 /\ ~Receiving(Head(senders[p]).thread)
                                 /\ state[Head(senders[p]).thread] = "blocked"
                                 /\ sent[Head(senders[p]).thread] >= 1
                                 /\ Head(senders[p]).msg.id =
                                      <<Head(senders[p]).thread, sent[Head(senders[p]).thread]>>
<1>1. /\ senders[p] \in Seq(Nodes)
      /\ recvers[p] \in Seq(Kthreads)
  BY Zenon DEF IpcIInv, IpcInv, IpcTypeOK, Nodes
<1>2. ASSUME recvers[p] # <<>>
      PROVE  Head(recvers[p]) \in Kthreads /\ Receiving(Head(recvers[p]))
  <2>1. 1 \in 1..Len(recvers[p]) /\ Head(recvers[p]) = recvers[p][1]
    BY <1>1, <1>2
  <2> QED BY <1>1, <2>1 DEF Receiving
<1>3. ASSUME senders[p] # <<>>
      PROVE  /\ Head(senders[p]) \in Nodes
             /\ Head(senders[p]).thread \in Kthreads
             /\ Sending(Head(senders[p]).thread)
             /\ sent[Head(senders[p]).thread] >= 1
             /\ Head(senders[p]).msg.id =
                  <<Head(senders[p]).thread, sent[Head(senders[p]).thread]>>
  <2>1. 1 \in 1..Len(senders[p]) /\ Head(senders[p]) = senders[p][1]
    BY <1>1, <1>3
  <2>2. Head(senders[p]) \in Nodes
    BY <1>1, <1>3
  <2> QED BY <2>1, <2>2 DEF Sending, Nodes, IpcIInv, LastSent
<1> QED BY Zenon, <1>2, <1>3 DEF IpcIInv, IpcInv, BlockedIffQueued, OneNode

\* Every step of IPC acts on the scheduler as module Scheduler allows.
LEMMA IpcStepIsSchedStep ==
  ASSUME IpcIInv, IpcNext
  PROVE  OnceNext \/ UNCHANGED vars
<1>1. CASE OtherStep
  BY <1>1, NoneWoken DEF OtherStep, OnceNext, Resume
<1>2. CASE QuietIsrReturn
  BY <1>2 DEF QuietIsrReturn, OnceNext, Resume
<1>3. ASSUME NEW t \in Kthreads, Wake(t) PROVE OnceNext \/ UNCHANGED vars
  BY <1>3 DEF Wake, OnceNext, Workers
<1>4. ASSUME NEW p \in Ports, NEW len \in Lengths, ipc_send(p, len)
      PROVE  OnceNext \/ UNCHANGED vars
  BY Zenon, <1>3, <1>4, HeadBlocked DEF ipc_send, SendToReceiver, SendAndBlock, SendNoMemory, OnceNext
<1>5. ASSUME NEW p \in Ports, ipc_recv(p)
      PROVE  OnceNext \/ UNCHANGED vars
  BY Zenon, <1>3, <1>5, HeadBlocked
     DEF ipc_recv, RecvFromSender, RecvAndBlock, RecvNoMemory, OnceNext, Nodes
<1> QED BY <1>1, <1>2, <1>4, <1>5 DEF IpcNext

\* With CpuInv kept, the scheduler's part of the step is done.
LEMMA IpcKeepsCpu ==
  ASSUME IpcIInv, IpcNext
  PROVE  CpuInv'
BY CpuStutter, IpcStepIsSchedStep, OnceNextInv DEF IpcIInv

\* The invariant in terms of the threads the lists hold.
LEMMA InvHeld ==
  ASSUME IpcIInv
  PROVE  /\ senders \in [Ports -> Seq(Nodes)]
         /\ recvers \in [Ports -> Seq(Kthreads)]
         /\ Once(senders, threadOf)
         /\ Once(recvers, self)
         /\ \A t \in Kthreads :
              /\ Sending(t) <=> Held(senders, threadOf, t)
              /\ Receiving(t) <=> Held(recvers, self, t)
              /\ state[t] = "blocked" <=> Held(senders, threadOf, t) \/ Held(recvers, self, t)
              /\ ~(Held(senders, threadOf, t) /\ Held(recvers, self, t))
<1>1. senders \in [Ports -> Seq(Nodes)] /\ recvers \in [Ports -> Seq(Kthreads)]
  BY Zenon DEF IpcIInv, IpcInv, IpcTypeOK, Nodes
<1>2. \A t : Sending(t) <=> Held(senders, threadOf, t)
  BY <1>1, SenderKeys DEF Sending
<1>3. \A t : Receiving(t) <=> Held(recvers, self, t)
  BY Zenon, <1>1, RecverKeys DEF Receiving
<1>4. Once(senders, threadOf) /\ Once(recvers, self)
  BY <1>1, SenderKeys, RecverKeys DEF IpcIInv, IpcInv, OneNode
<1> QED BY <1>1, <1>2, <1>3, <1>4 DEF IpcIInv, IpcInv, BlockedIffQueued, OneNode

\* ... and for the state after a step.
LEMMA HeldInv ==
  ASSUME senders' \in [Ports -> Seq(Nodes)],
         recvers' \in [Ports -> Seq(Kthreads)],
         Once(senders', threadOf),
         Once(recvers', self),
         \A t \in Kthreads :
           /\ state'[t] = "blocked" <=> Held(senders', threadOf, t) \/ Held(recvers', self, t)
           /\ ~(Held(senders', threadOf, t) /\ Held(recvers', self, t))
  PROVE  /\ BlockedIffQueued'
         /\ OneNode'
         /\ \A t : Receiving(t)' <=> Held(recvers', self, t)
<1>1. \A t : Sending(t)' <=> Held(senders', threadOf, t)
  BY Zenon, SenderKeys DEF Sending
<1>2. \A t : Receiving(t)' <=> Held(recvers', self, t)
  BY RecverKeys DEF Receiving
<1>3. BlockedIffQueued'
  BY <1>1, <1>2 DEF BlockedIffQueued
<1>4. OneNode'
  BY Zenon, <1>1, <1>2, SenderKeys, RecverKeys DEF OneNode
<1> QED BY <1>2, <1>3, <1>4

\* A step that leaves the lists and the states alone keeps what relates them.
LEMMA ListsStay ==
  ASSUME IpcIInv, state' = state, senders' = senders, recvers' = recvers
  PROVE  BlockedIffQueued' /\ OneNode' /\ NoMissedRendezvous'
<1>1. /\ senders' \in [Ports -> Seq(Nodes)] /\ Once(senders', threadOf)
      /\ recvers' \in [Ports -> Seq(Kthreads)] /\ Once(recvers', self)
  BY InvHeld
<1>2. \A t \in Kthreads :
        /\ state'[t] = "blocked" <=> Held(senders', threadOf, t) \/ Held(recvers', self, t)
        /\ ~(Held(senders', threadOf, t) /\ Held(recvers', self, t))
  BY InvHeld
<1>3. BlockedIffQueued' /\ OneNode'
  BY <1>1, <1>2, HeldInv
<1>4. NoMissedRendezvous'
  BY DEF IpcIInv, IpcInv, NoMissedRendezvous
<1> QED BY <1>3, <1>4

\* What ExactlyOnce says of one message, by whether its sender waits.
Fate(id) ==
  /\ id[2] > sent[id[1]] => delivered[id] = 0 /\ id \notin dropped
  /\ id[2] <= sent[id[1]] =>
       \/ /\ Held(senders, threadOf, id[1]) /\ id[2] = sent[id[1]]
          /\ delivered[id] = 0 /\ id \notin dropped
       \/ /\ ~(Held(senders, threadOf, id[1]) /\ id[2] = sent[id[1]])
          /\ \/ delivered[id] = 1 /\ id \notin dropped
             \/ delivered[id] = 0 /\ id \in dropped

\* Every message has the fate ExactlyOnce allows it.
LEMMA OnceHeld ==
  ASSUME IpcIInv, NEW id \in SendIds
  PROVE  Fate(id)
<1>1. /\ senders \in [Ports -> Seq(Nodes)]
      /\ sent \in [Kthreads -> Nat]
      /\ id[1] \in Kthreads /\ id[2] \in Nat
  <2>1. sent \in [Kthreads -> 0..MaxSends] /\ MaxSends \in Nat
    BY IpcAssumption DEF IpcIInv, IpcInv, IpcTypeOK
  <2> QED BY <2>1, InvHeld DEF SendIds
<1>2. Waiting(id) <=> Held(senders, threadOf, id[1]) /\ id[2] = sent[id[1]]
  BY Zenon, <1>1, WaitingLast DEF Waiting, IpcIInv, LastSent
<1>3. sent[id[1]] \in Nat
  BY <1>1
<1>4. IF id[2] > sent[id[1]]
      THEN ~Waiting(id) /\ delivered[id] = 0 /\ id \notin dropped
      ELSE \/ Waiting(id) /\ delivered[id] = 0 /\ id \notin dropped
           \/ ~Waiting(id) /\ delivered[id] = 1 /\ id \notin dropped
           \/ ~Waiting(id) /\ delivered[id] = 0 /\ id \in dropped
  BY DEF IpcIInv, ExactlyOnce
<1> QED BY <1>1, <1>2, <1>3, <1>4 DEF Fate

\* A message of a thread that waits nowhere to send is over, or not yet begun.
LEMMA UnheldOnce ==
  ASSUME IpcIInv, NEW id \in SendIds, ~Held(senders, threadOf, id[1])
  PROVE  /\ id[2] > sent[id[1]] => delivered[id] = 0 /\ id \notin dropped
         /\ id[2] <= sent[id[1]] => \/ delivered[id] = 1 /\ id \notin dropped
                                    \/ delivered[id] = 0 /\ id \in dropped
<1>1. Fate(id)
  BY OnceHeld
<1> QED BY <1>1 DEF Fate

\* ... and for the state after a step.
LEMMA HeldOnce ==
  ASSUME senders' \in [Ports -> Seq(Nodes)],
         sent' \in [Kthreads -> Nat],
         LastSent',
         \A id \in SendIds : Fate(id)'
  PROVE  ExactlyOnce'
<1> SUFFICES ASSUME NEW id \in SendIds
    PROVE  IF id[2] > sent'[id[1]]
           THEN ~Waiting(id)' /\ delivered'[id] = 0 /\ id \notin dropped'
           ELSE \/ Waiting(id)' /\ delivered'[id] = 0 /\ id \notin dropped'
                \/ ~Waiting(id)' /\ delivered'[id] = 1 /\ id \notin dropped'
                \/ ~Waiting(id)' /\ delivered'[id] = 0 /\ id \in dropped'
  BY DEF ExactlyOnce
<1>1. id[1] \in Kthreads /\ id[2] \in Nat /\ sent'[id[1]] \in Nat
  BY DEF SendIds
<1>2. Waiting(id)' <=> Held(senders', threadOf, id[1]) /\ id[2] = sent'[id[1]]
  <2>1. (\E p \in Ports : \E i \in 1..Len(senders'[p]) : senders'[p][i].msg.id = id)
          <=> Held(senders', threadOf, id[1]) /\ id[2] = sent'[id[1]]
    BY Zenon, WaitingLast DEF LastSent
  <2> QED BY <2>1 DEF Waiting
<1>3. Fate(id)'
  OBVIOUS
<1>4. /\ id[2] > sent'[id[1]] => id[2] # sent'[id[1]]
      /\ ~(id[2] > sent'[id[1]]) => id[2] <= sent'[id[1]]
  BY <1>1
<1> QED BY <1>2, <1>3, <1>4, Zenon DEF Fate

\* Steps of the scheduler block and unblock no kernel thread behind IPC's back.
LEMMA OtherKeepsBlocked ==
  ASSUME IpcIInv, OtherStep \/ QuietIsrReturn
  PROVE  \A t \in Kthreads : state'[t] = "blocked" <=> state[t] = "blocked"
<1>0. /\ state \in [Threads -> States]
      /\ Lists(ready_queue, ReadyIn(state))
      /\ ready_queue \in Seq(Workers)
      /\ Threads = Workers \cup {idle}
      /\ Workers = Kthreads \cup Uthreads
      /\ idle \notin Workers
      /\ current_thread \in Threads
      /\ \A t \in Workers : state[t] = "running" <=> t = current_thread
      /\ cycle = "none"
  BY QueueLists, ThreadsAssumption
     DEF IpcIInv, CpuInv, RQInv, RQTypeOK, AddedOnce, OneRunning, Threads, Workers
<1>1. ASSUME NEW st \in [Threads -> States], schedule(st, ready_queue, "none"),
             ReadyIn(st) = ReadyIn(state),
             \A t \in Kthreads : st[t] = "blocked" <=> state[t] = "blocked"
      PROVE  \A t \in Kthreads : state'[t] = "blocked" <=> state[t] = "blocked"
  <2>1. Lists(ready_queue, ReadyIn(st))
    BY <1>0, <1>1
  <2>2. /\ current_thread' \in ReadyIn(st) \cup {idle}
        /\ \A t \in Threads : t # current_thread /\ t # current_thread' => state'[t] = st[t]
        /\ state'[current_thread'] = "running" \/ current_thread' \notin Threads
        /\ current_thread \in Threads /\ current_thread # current_thread' =>
             state'[current_thread] = IF st[current_thread] = "running" /\ current_thread # idle
                                      THEN "ready" ELSE st[current_thread]
    BY <1>1, <2>1, ScheduleEffect
  <2>3. ASSUME NEW t \in Kthreads PROVE state'[t] = "blocked" <=> st[t] = "blocked"
    <3>0. t \in Workers /\ t \in Threads /\ t # idle
      BY <1>0
    <3>1. CASE t = current_thread'
      <4>1. state'[t] = "running" /\ t \in ReadyIn(st)
        BY <3>0, <3>1, <2>2
      <4> QED BY <4>1 DEF ReadyIn
    <3>2. CASE t # current_thread' /\ t = current_thread
      <4>1. state'[t] = IF st[t] = "running" /\ t # idle THEN "ready" ELSE st[t]
        BY <3>0, <3>2, <2>2
      <4> QED BY <4>1
    <3>3. CASE t # current_thread' /\ t # current_thread
      BY <3>0, <3>3, <2>2
    <3> QED BY <3>1, <3>2, <3>3
  <2> QED BY Zenon, <1>1, <2>3
<1>2. Woken(<<>>) = state /\ Appended(ready_queue, <<>>, "none") = ready_queue
  BY <1>0 DEF Woken, Appended
<1>3. ASSUME Yield \/ TimerInterrupt(<<>>)
      PROVE  \A t \in Kthreads : state'[t] = "blocked" <=> state[t] = "blocked"
  BY Zenon, <1>0, <1>1, <1>2, <1>3 DEF Yield, TimerInterrupt, Reschedule
<1>4. ASSUME Exit
      PROVE  \A t \in Kthreads : state'[t] = "blocked" <=> state[t] = "blocked"
  <2> DEFINE st == [state EXCEPT ![current_thread] = "exited"]
  <2>1. st \in [Threads -> States] /\ current_thread \in Workers
    BY <1>0, <1>4 DEF Exit, thread_exit, States
  <2>2. /\ ReadyIn(st) = ReadyIn(state)
        /\ \A t \in Kthreads : st[t] = "blocked" <=> state[t] = "blocked"
    BY <1>0, <2>1 DEF ReadyIn
  <2>3. schedule(st, ready_queue, "none")
    BY <1>0, <1>4 DEF Exit, thread_exit
  <2> QED BY Zenon, <2>1, <2>2, <2>3, <1>1
<1>5. ASSUME NEW u \in Workers, scheduler_add_thread(u)
      PROVE  \A t \in Kthreads : state'[t] = "blocked" <=> state[t] = "blocked"
  BY <1>0, <1>5 DEF scheduler_add_thread
<1>6. CASE OtherStep
  BY Zenon, <1>0, <1>3, <1>4, <1>5, <1>6 DEF OtherStep, thread_create, thread_create_user,
     enable_interrupts, kernel_entry, userspace_entry, syscall_entry, syscall_return, rqVars
<1> QED BY <1>6 DEF QuietIsrReturn, rqVars

\* IpcIInv depends on the scheduler only through CpuInv and who is blocked.
LEMMA OtherKeepsInv ==
  ASSUME IpcIInv, UNCHANGED ipcVars, CpuInv',
         \A t \in Kthreads : state'[t] = "blocked" <=> state[t] = "blocked"
  PROVE  IpcIInv'
<1>1. /\ UNCHANGED <<senders, recvers, buffer, sent, delivered, dropped>>
      /\ \A t : Sending(t)' <=> Sending(t)
      /\ \A t : Receiving(t)' <=> Receiving(t)
      /\ \A id : Waiting(id)' <=> Waiting(id)
  BY DEF ipcVars, Sending, Receiving, Waiting
<1>2. IpcTypeOK'
  BY Zenon, <1>1 DEF IpcIInv, IpcInv, IpcTypeOK, CpuInv, MachineInv
<1>3. BlockedIffQueued' /\ OneNode' /\ NoMissedRendezvous'
  <2>1. BlockedIffQueued'
    BY <1>1 DEF IpcIInv, IpcInv, BlockedIffQueued
  <2>2. OneNode'
    <3>1. OneNode /\ senders' = senders /\ recvers' = recvers
      BY <1>1 DEF IpcIInv, IpcInv
    <3> QED BY <3>1, <1>1 DEF OneNode
  <2>3. NoMissedRendezvous'
    BY Zenon, <1>1 DEF IpcIInv, IpcInv, NoMissedRendezvous
  <2> QED BY <2>1, <2>2, <2>3
<1>4. LastSent' /\ UnwrittenWaits'
  BY Zenon, <1>1 DEF IpcIInv, LastSent, UnwrittenWaits
<1>5. ExactlyOnce'
  BY <1>1 DEF IpcIInv, ExactlyOnce
<1> QED BY <1>2, <1>3, <1>4, <1>5 DEF IpcIInv, IpcInv

\* An ipc_send counts its message.
Counted ==
  /\ sent[current_thread] < MaxSends
  /\ sent' = [sent EXCEPT ![current_thread] = @ + 1]

\* The message of a new ipc_send.
LEMMA NewMessageFacts ==
  ASSUME IpcIInv, Here = "kernel", NEW len \in Lengths, Counted
  PROVE  /\ NewMessage(len).id = <<current_thread, sent[current_thread] + 1>>
         /\ Copy(NewMessage(len)).id = <<current_thread, sent[current_thread] + 1>>
         /\ <<current_thread, sent[current_thread] + 1>> \in SendIds
         /\ Copy(NewMessage(len)) \in Messages
         /\ Copy(NewMessage(len)) # Garbage
         /\ sent \in [Kthreads -> Nat]
         /\ sent' \in [Kthreads -> 0..MaxSends]
         /\ sent' \in [Kthreads -> Nat]
         /\ sent'[current_thread] = sent[current_thread] + 1
         /\ \A t \in Kthreads \ {current_thread} : sent'[t] = sent[t]
<1>1. current_thread \in Kthreads
  BY CallerRuns
<1>2. sent \in [Kthreads -> 0..MaxSends] /\ MaxSends \in Nat /\ IPC_MSG_MAX \in Nat /\ len \in Nat
  BY IpcAssumption DEF IpcIInv, IpcInv, IpcTypeOK
<1>3. /\ sent[current_thread] + 1 \in 1..MaxSends
      /\ sent \in [Kthreads -> Nat]
      /\ sent' \in [Kthreads -> 0..MaxSends]
      /\ sent' \in [Kthreads -> Nat]
      /\ sent'[current_thread] = sent[current_thread] + 1
      /\ \A t \in Kthreads \ {current_thread} : sent'[t] = sent[t]
  BY <1>1, <1>2 DEF Counted
<1>4. <<current_thread, sent[current_thread] + 1>> \in SendIds
  BY <1>1, <1>3 DEF SendIds
<1>5. NewMessage(len).id = <<current_thread, sent[current_thread] + 1>>
  BY DEF NewMessage
<1>6. Copy(NewMessage(len)) = [id |-> <<current_thread, sent[current_thread] + 1>>,
                               length |-> IF len > IPC_MSG_MAX THEN IPC_MSG_MAX ELSE len]
  BY DEF NewMessage, Copy
<1>7. Copy(NewMessage(len)) \in [id : SendIds, length : 0..IPC_MSG_MAX]
  BY <1>2, <1>4, <1>6
<1>8. Copy(NewMessage(len)) # Garbage
  <2>1. <<current_thread, sent[current_thread] + 1>> # <<"garbage", 0>>
    BY <1>3
  <2> QED BY <1>6, <2>1 DEF Garbage
<1>9. Copy(NewMessage(len)) \in Messages
  BY <1>7 DEF Messages
<1>10. Copy(NewMessage(len)).id = <<current_thread, sent[current_thread] + 1>>
  BY <1>6
<1> QED BY <1>3, <1>4, <1>5, <1>8, <1>9, <1>10

\* ipc_send with a receiver waiting keeps the invariant.
LEMMA SendToReceiverInv ==
  ASSUME IpcIInv, CpuInv', Here = "kernel", NEW p \in Ports, NEW len \in Lengths,
         Counted,
         SendToReceiver(p, NewMessage(len))
  PROVE  IpcIInv'
<1> DEFINE cur == current_thread
           id0 == <<cur, sent[cur] + 1>>
           h == Head(recvers[p])
           msg == Copy(NewMessage(len))
<1>1. /\ cur \in Kthreads
      /\ ~Sending(cur)
      /\ ~Receiving(cur)
  BY CallerRuns
<1>2. /\ recvers[p] # <<>>
      /\ recvers' = [recvers EXCEPT ![p] = Tail(@)]
      /\ buffer' = [buffer EXCEPT ![h] = msg]
      /\ Wake(h)
      /\ delivered' = [id \in SendIds |-> delivered[id] + (IF id = id0 THEN 1 ELSE 0)]
      /\ senders' = senders
      /\ dropped' = dropped
  BY Zenon, NewMessageFacts DEF SendToReceiver, Received
<1>3. /\ h \in Kthreads
      /\ Receiving(h)
      /\ ~Sending(h)
      /\ state[h] = "blocked"
  BY Zenon, <1>2, HeadBlocked
<1>4. \A u \in Kthreads : state'[u] = "blocked" <=> state[u] = "blocked" /\ u # h
  BY Zenon, <1>2, <1>3, WakeEffect
<1>5. /\ id0 \in SendIds
      /\ msg \in Messages
      /\ msg # Garbage
      /\ sent \in [Kthreads -> Nat]
      /\ sent' \in [Kthreads -> 0..MaxSends]
      /\ sent' \in [Kthreads -> Nat]
      /\ sent'[cur] = sent[cur] + 1
      /\ \A t \in Kthreads \ {cur} : sent'[t] = sent[t]
  BY Zenon, NewMessageFacts
<1> HIDE DEF msg
<1>6. /\ recvers' \in [Ports -> Seq(Kthreads)]
      /\ Once(recvers', self)
      /\ \A v : Held(recvers', self, v) <=> Held(recvers, self, v) /\ v # self[h]
  <2>1. Popped(Ports, Kthreads, recvers, recvers', p) /\ Once(recvers, self)
    BY Zenon, <1>2, InvHeld DEF Popped
  <2> QED BY <2>1, PopHeld
<1>7. self[h] = h
  BY <1>3 DEF self
<1>8. /\ BlockedIffQueued'
      /\ OneNode'
      /\ \A t : Receiving(t)' <=> Held(recvers', self, t)
  <2>1. \A t \in Kthreads :
           /\ state'[t] = "blocked" <=> Held(senders', threadOf, t) \/ Held(recvers', self, t)
           /\ ~(Held(senders', threadOf, t) /\ Held(recvers', self, t))
    BY Zenon, <1>2, <1>3, <1>4, <1>6, <1>7, InvHeld
  <2>2. senders' \in [Ports -> Seq(Nodes)] /\ Once(senders', threadOf)
    BY Zenon, <1>2, InvHeld
  <2> QED BY Zenon, <2>1, <2>2, <1>6, HeldInv
<1>9. IpcTypeOK'
  <2>1. buffer' \in [Kthreads -> Messages]
    BY <1>2, <1>3, <1>5 DEF IpcIInv, IpcInv, IpcTypeOK
  <2>2. delivered' \in [SendIds -> Nat]
    BY <1>2 DEF IpcIInv, IpcInv, IpcTypeOK
  <2> QED BY Zenon, <2>1, <2>2, <1>2, <1>5, <1>6 DEF IpcIInv, IpcInv, IpcTypeOK, CpuInv, MachineInv
<1>10. NoMissedRendezvous'
  BY <1>2 DEF IpcIInv, IpcInv, IpcTypeOK, NoMissedRendezvous
<1>11. LastSent'
  <2> SUFFICES ASSUME NEW q \in Ports, NEW i \in 1..Len(senders[q])
      PROVE  /\ sent'[senders[q][i].thread] >= 1
             /\ senders[q][i].msg.id = <<senders[q][i].thread, sent'[senders[q][i].thread]>>
    BY Zenon, <1>2 DEF LastSent
  <2>1. Sending(senders[q][i].thread)
    BY DEF Sending
  <2>2. senders[q][i].thread \in Kthreads \ {cur}
    <3>1. senders[q][i] \in Nodes
      BY InvHeld
    <3> QED BY Zenon, <2>1, <3>1, <1>1 DEF Nodes
  <2> QED BY Zenon, <2>2, <1>5 DEF IpcIInv, LastSent
<1>12. UnwrittenWaits'
  <2> SUFFICES ASSUME NEW t \in Kthreads, buffer'[t] = Garbage
      PROVE  Receiving(t)'
    BY DEF UnwrittenWaits
  <2>1. t # h /\ buffer[t] = Garbage
    BY <1>2, <1>3, <1>5 DEF IpcIInv, IpcInv, IpcTypeOK
  <2> QED BY Zenon, <2>1, <1>6, <1>7, <1>8, InvHeld DEF IpcIInv, UnwrittenWaits
<1>13. ExactlyOnce'
  <2>1. ASSUME NEW id \in SendIds
        PROVE  Fate(id)'
    <3>1. /\ id = <<id[1], id[2]>> /\ id[1] \in Kthreads /\ id[2] \in Nat
          /\ sent[id[1]] \in Nat
          /\ id0[1] = cur /\ id0[2] = sent[cur] + 1
      BY <1>5 DEF SendIds
    <3>2. ~Held(senders, threadOf, cur)
      BY <1>1, InvHeld
    <3>3. CASE id = id0
      <4>1. id[1] = cur /\ id[2] = sent[cur] + 1
        BY <3>1, <3>3
      <4>2. delivered[id] = 0 /\ id \notin dropped
        BY <4>1, <3>1, <3>2, UnheldOnce
      <4>3. delivered'[id] = 1 /\ id \notin dropped'
        BY <4>2, <3>3, <1>2
      <4>4. sent'[id[1]] = id[2] /\ ~Held(senders', threadOf, id[1])
        BY <4>1, <3>2, <1>2, <1>5
      <4> QED BY <4>3, <4>4, <3>1 DEF Fate
    <3>4. CASE id # id0
      <4>1. delivered'[id] = delivered[id] /\ dropped' = dropped /\ senders' = senders
        BY <3>4, <1>2 DEF IpcIInv, IpcInv, IpcTypeOK
      <4>2. CASE id[1] # cur
        <5>1. sent'[id[1]] = sent[id[1]]
          BY <4>2, <3>1, <1>5
        <5>2. Fate(id)
          BY OnceHeld
        <5> QED BY Zenon, <4>1, <5>1, <5>2 DEF Fate
      <4>3. CASE id[1] = cur
        <5>1. id[2] # sent[id[1]] + 1 /\ ~Held(senders, threadOf, id[1])
          BY <4>3, <3>1, <3>2, <3>4
        <5>2. sent'[id[1]] = sent[id[1]] + 1
          BY <4>3, <1>5
        <5>3. /\ id[2] > sent[id[1]] => delivered[id] = 0 /\ id \notin dropped
              /\ id[2] <= sent[id[1]] => \/ delivered[id] = 1 /\ id \notin dropped
                                         \/ delivered[id] = 0 /\ id \in dropped
          BY <5>1, UnheldOnce
        <5>4. /\ id[2] > sent'[id[1]] => id[2] > sent[id[1]]
              /\ id[2] <= sent'[id[1]] => id[2] <= sent[id[1]]
          BY <5>1, <5>2, <3>1
        <5>5. delivered'[id] = delivered[id] /\ ~Held(senders', threadOf, id[1])
          BY <4>1, <5>1, <3>1
        <5> QED BY <4>1, <5>3, <5>4, <5>5, Zenon DEF Fate
      <4> QED BY <4>2, <4>3
    <3> QED BY <3>3, <3>4
  <2>2. senders' \in [Ports -> Seq(Nodes)]
    BY Zenon, <1>2, InvHeld
  <2> QED BY <2>1, <2>2, <1>11, <1>5, HeldOnce
<1> QED BY <1>8, <1>9, <1>10, <1>11, <1>12, <1>13 DEF IpcIInv, IpcInv

\* ipc_send with none waiting: the caller queues its message and blocks.
LEMMA SendAndBlockInv ==
  ASSUME IpcIInv, CpuInv', Here = "kernel", NEW p \in Ports, NEW len \in Lengths,
         Counted,
         SendAndBlock(p, NewMessage(len))
  PROVE  IpcIInv'
<1> DEFINE cur == current_thread
           id0 == <<cur, sent[cur] + 1>>
           node == [thread |-> cur, msg |-> Copy(NewMessage(len))]
<1>1. /\ cur \in Kthreads
      /\ ~Sending(cur)
      /\ ~Receiving(cur)
  BY CallerRuns
<1>2. /\ recvers[p] = <<>>
      /\ senders' = [senders EXCEPT ![p] = <<node>> \o @]
      /\ Block
      /\ UNCHANGED <<recvers, buffer, delivered, dropped>>
  BY Zenon DEF SendAndBlock
<1>3. \A t \in Kthreads : state'[t] = "blocked" <=> state[t] = "blocked" \/ t = cur
  BY <1>2, BlockEffect
<1>4. /\ id0 \in SendIds
      /\ node \in Nodes
      /\ node.thread = cur
      /\ node.msg.id = id0
      /\ sent \in [Kthreads -> Nat]
      /\ sent' \in [Kthreads -> 0..MaxSends]
      /\ sent' \in [Kthreads -> Nat]
      /\ sent'[cur] = sent[cur] + 1
      /\ \A t \in Kthreads \ {cur} : sent'[t] = sent[t]
  BY Zenon, <1>1, NewMessageFacts DEF Nodes
<1>5. threadOf[node] = cur
  BY Zenon, <1>4 DEF threadOf
<1> HIDE DEF node
<1>6. /\ senders' \in [Ports -> Seq(Nodes)]
      /\ Once(senders', threadOf)
      /\ \A v : Held(senders', threadOf, v) <=> Held(senders, threadOf, v) \/ v = cur
      /\ \A q \in Ports : \A i \in 1..Len(senders'[q]) :
           senders'[q][i] = node \/ \E j \in 1..Len(senders[q]) : senders'[q][i] = senders[q][j]
  <2>1. /\ Pushed(Ports, Nodes, senders, senders', p, node)
        /\ Once(senders, threadOf)
        /\ ~Held(senders, threadOf, threadOf[node])
    BY Zenon, <1>1, <1>2, <1>4, <1>5, InvHeld DEF Pushed
  <2> QED BY <2>1, <1>5, PushHeld
<1>7. /\ BlockedIffQueued'
      /\ OneNode'
      /\ \A t : Receiving(t)' <=> Held(recvers', self, t)
  <2>1. \A t \in Kthreads :
           /\ state'[t] = "blocked" <=> Held(senders', threadOf, t) \/ Held(recvers', self, t)
           /\ ~(Held(senders', threadOf, t) /\ Held(recvers', self, t))
    BY Zenon, <1>1, <1>2, <1>3, <1>6, InvHeld
  <2>2. recvers' \in [Ports -> Seq(Kthreads)] /\ Once(recvers', self)
    BY <1>2, InvHeld
  <2> QED BY <2>1, <2>2, <1>6, HeldInv
<1>8. IpcTypeOK'
  BY Zenon, <1>2, <1>4, <1>6 DEF IpcIInv, IpcInv, IpcTypeOK, CpuInv, MachineInv, Nodes
<1>9. NoMissedRendezvous'
  BY <1>2 DEF IpcIInv, IpcInv, IpcTypeOK, NoMissedRendezvous
<1>10. LastSent'
  <2> SUFFICES ASSUME NEW q \in Ports, NEW i \in 1..Len(senders'[q])
      PROVE  /\ sent'[senders'[q][i].thread] >= 1
             /\ senders'[q][i].msg.id = <<senders'[q][i].thread, sent'[senders'[q][i].thread]>>
    BY Zenon DEF LastSent
  <2>1. CASE senders'[q][i] = node
    <3>1. sent'[cur] = sent[cur] + 1 /\ sent[cur] \in Nat
      BY Zenon, <1>1, <1>4
    <3>2. senders'[q][i].thread = cur /\ senders'[q][i].msg.id = <<cur, sent[cur] + 1>>
      BY <1>4, <2>1
    <3>3. sent'[cur] >= 1
      BY <3>1
    <3> QED BY <3>1, <3>2, <3>3, Zenon
  <2>2. ASSUME NEW j \in 1..Len(senders[q]), senders'[q][i] = senders[q][j]
        PROVE  /\ sent'[senders'[q][i].thread] >= 1
               /\ senders'[q][i].msg.id = <<senders'[q][i].thread, sent'[senders'[q][i].thread]>>
    <3>0. Sending(senders[q][j].thread)
      BY DEF Sending
    <3>1. senders[q][j] \in Nodes
      BY InvHeld
    <3>2. senders[q][j].thread \in Kthreads \ {cur}
      BY <3>0, <3>1, <1>1 DEF Nodes
    <3>3. sent'[senders[q][j].thread] = sent[senders[q][j].thread]
      BY <3>2, <1>4
    <3>4. /\ sent[senders[q][j].thread] >= 1
          /\ senders[q][j].msg.id = <<senders[q][j].thread, sent[senders[q][j].thread]>>
      BY Zenon DEF IpcIInv, LastSent
    <3> QED BY Zenon, <2>2, <3>3, <3>4
  <2> QED BY Zenon, <2>1, <2>2, <1>6
<1>11. UnwrittenWaits'
  BY Zenon, <1>2, <1>7, InvHeld DEF IpcIInv, UnwrittenWaits
<1>12. ExactlyOnce'
  <2>1. ASSUME NEW id \in SendIds
        PROVE  Fate(id)'
    <3>1. /\ id[1] \in Kthreads /\ id[2] \in Nat
          /\ sent[id[1]] \in Nat
          /\ delivered' = delivered /\ dropped' = dropped
      <4>1. delivered' = delivered /\ dropped' = dropped
        BY <1>2
      <4>2. sent \in [Kthreads -> Nat]
        BY <1>4
      <4> QED BY <4>1, <4>2 DEF SendIds
    <3>2. ~Held(senders, threadOf, cur)
      BY <1>1, InvHeld
    <3>3. CASE id[1] # cur
      <4>1. sent'[id[1]] = sent[id[1]]
        <5>1. \A t \in Kthreads \ {cur} : sent'[t] = sent[t]
          BY Zenon, <1>4
        <5> QED BY <5>1, <3>3, <3>1
      <4>2. Held(senders', threadOf, id[1]) <=> Held(senders, threadOf, id[1])
        BY <3>3, <1>6
      <4>3. Fate(id)
        BY OnceHeld
      <4> QED BY Zenon, <4>1, <4>2, <4>3, <3>1 DEF Fate
    <3>4. CASE id[1] = cur
      <4>1. sent'[id[1]] = sent[id[1]] + 1 /\ Held(senders', threadOf, id[1])
        BY Zenon, <3>4, <1>4, <1>6
      <4>2. ~Held(senders, threadOf, id[1])
        BY <3>2, <3>4
      <4>3. /\ id[2] > sent[id[1]] => delivered[id] = 0 /\ id \notin dropped
            /\ id[2] <= sent[id[1]] => \/ delivered[id] = 1 /\ id \notin dropped
                                       \/ delivered[id] = 0 /\ id \in dropped
        BY Zenon, <4>2, UnheldOnce
      <4>4. /\ id[2] > sent'[id[1]] => id[2] > sent[id[1]]
            /\ id[2] = sent'[id[1]] => id[2] > sent[id[1]]
            /\ id[2] <= sent'[id[1]] /\ id[2] # sent'[id[1]] => id[2] <= sent[id[1]]
        BY <4>1, <3>1
      <4>5. delivered'[id] = delivered[id] /\ (id \in dropped' <=> id \in dropped)
        BY Zenon, <3>1
      <4> QED BY <4>1, <4>3, <4>4, <4>5, Zenon DEF Fate
    <3> QED BY <3>3, <3>4
  <2> QED BY Zenon, <2>1, <1>10, <1>4, <1>6, HeldOnce
<1> QED BY <1>7, <1>8, <1>9, <1>10, <1>11, <1>12 DEF IpcIInv, IpcInv

\* ipc_recv with a sender waiting keeps the invariant.
LEMMA RecvFromSenderInv ==
  ASSUME IpcIInv, CpuInv', Here = "kernel", NEW p \in Ports, RecvFromSender(p)
  PROVE  IpcIInv'
<1> DEFINE cur == current_thread
           node == Head(senders[p])
           h == node.thread
           msg == Copy(node.msg)
<1>1. /\ cur \in Kthreads
      /\ ~Sending(cur)
      /\ ~Receiving(cur)
  BY CallerRuns
<1>2. /\ senders[p] # <<>>
      /\ senders' = [senders EXCEPT ![p] = Tail(@)]
      /\ buffer' = [buffer EXCEPT ![cur] = msg]
      /\ Wake(h)
      /\ delivered' = [id \in SendIds |-> delivered[id] + (IF id = node.msg.id THEN 1 ELSE 0)]
      /\ UNCHANGED <<recvers, sent, dropped>>
  BY DEF RecvFromSender, Received
<1>3. /\ node \in Nodes
      /\ Sending(h)
      /\ ~Receiving(h)
      /\ state[h] = "blocked"
      /\ node.msg.id = <<h, sent[h]>>
      /\ sent[h] >= 1
  BY Zenon, <1>2, HeadBlocked
<1>4. h \in Kthreads /\ node.msg \in Messages /\ threadOf[node] = h
  BY <1>3 DEF Nodes, threadOf
<1>5. \A u \in Kthreads : state'[u] = "blocked" <=> state[u] = "blocked" /\ u # h
  BY Zenon, <1>2, <1>3, <1>4, WakeEffect
<1>6. sent \in [Kthreads -> Nat] /\ sent' = sent
  <2>1. sent \in [Kthreads -> 0..MaxSends] /\ MaxSends \in Nat
    BY IpcAssumption DEF IpcIInv, IpcInv, IpcTypeOK
  <2> QED BY <2>1, <1>2
<1> HIDE DEF node, h
<1>7. msg \in Messages /\ msg # Garbage
  <2>0. sent[h] # 0
    BY <1>3, <1>4, <1>6
  <2>1. \A name : node.msg.id # <<name, 0>>
    BY <2>0, <1>3
  <2>2. node.msg \in [id : SendIds, length : 0..IPC_MSG_MAX]
    <3>0. /\ Unused.id = <<"unused", 0>>
          /\ Garbage.id = <<"garbage", 0>>
          /\ NoMemory.id = <<"no memory", 0>>
          /\ IrqMessage.id = <<"irq", 0>>
      BY DEF Unused, Garbage, NoMemory, IrqMessage
    <3>1. /\ node.msg # Unused
          /\ node.msg # Garbage
          /\ node.msg # NoMemory
          /\ node.msg # IrqMessage
      BY <3>0, <2>1, Zenon
    <3> QED BY <3>1, <1>4 DEF Messages
  <2>3. msg \in [id : SendIds, length : 0..IPC_MSG_MAX] /\ msg.id = node.msg.id
    BY <2>2, IpcAssumption DEF Copy
  <2> QED BY <2>1, <2>3 DEF Messages, Garbage
<1> HIDE DEF msg
<1>8. /\ senders' \in [Ports -> Seq(Nodes)]
      /\ Once(senders', threadOf)
      /\ \A v : Held(senders', threadOf, v) <=> Held(senders, threadOf, v) /\ v # h
      /\ \A q \in Ports : \A i \in 1..Len(senders'[q]) :
           \E j \in 1..Len(senders[q]) : senders'[q][i] = senders[q][j]
  <2>1. Popped(Ports, Nodes, senders, senders', p) /\ Once(senders, threadOf)
    BY Zenon, <1>2, InvHeld DEF Popped
  <2>2. h = threadOf[Head(senders[p])]
    BY <1>4 DEF node
  <2> QED BY <2>1, <2>2, PopHeld
<1>9. /\ BlockedIffQueued'
      /\ OneNode'
      /\ \A t : Receiving(t)' <=> Held(recvers', self, t)
  <2>1. \A t \in Kthreads :
           /\ state'[t] = "blocked" <=> Held(senders', threadOf, t) \/ Held(recvers', self, t)
           /\ ~(Held(senders', threadOf, t) /\ Held(recvers', self, t))
    BY Zenon, <1>2, <1>3, <1>4, <1>5, <1>8, InvHeld
  <2>2. recvers' \in [Ports -> Seq(Kthreads)] /\ Once(recvers', self)
    BY Zenon, <1>2, InvHeld
  <2> QED BY <2>1, <2>2, <1>8, HeldInv
<1>10. IpcTypeOK'
  <2>1. buffer' \in [Kthreads -> Messages]
    BY <1>1, <1>2, <1>7 DEF IpcIInv, IpcInv, IpcTypeOK
  <2>2. delivered' \in [SendIds -> Nat]
    BY <1>2 DEF IpcIInv, IpcInv, IpcTypeOK
  <2> QED BY Zenon, <2>1, <2>2, <1>2, <1>8 DEF IpcIInv, IpcInv, IpcTypeOK, CpuInv, MachineInv, Nodes
<1>11. NoMissedRendezvous'
  BY <1>2 DEF IpcIInv, IpcInv, IpcTypeOK, NoMissedRendezvous
<1>12. LastSent'
  <2> SUFFICES ASSUME NEW q \in Ports, NEW i \in 1..Len(senders'[q])
      PROVE  /\ sent[senders'[q][i].thread] >= 1
             /\ senders'[q][i].msg.id = <<senders'[q][i].thread, sent[senders'[q][i].thread]>>
    BY Zenon, <1>6 DEF LastSent
  <2>1. PICK j \in 1..Len(senders[q]) : senders'[q][i] = senders[q][j]
    BY <1>8
  <2> QED BY Zenon, <2>1 DEF IpcIInv, LastSent
<1>13. UnwrittenWaits'
  <2> SUFFICES ASSUME NEW t \in Kthreads, buffer'[t] = Garbage
      PROVE  Receiving(t)'
    BY DEF UnwrittenWaits
  <2>1. buffer[t] = Garbage
    BY <1>1, <1>2, <1>7 DEF IpcIInv, IpcInv, IpcTypeOK
  <2> QED BY Zenon, <2>1, <1>2, <1>9, InvHeld DEF IpcIInv, UnwrittenWaits
<1>14. ExactlyOnce'
  <2>1. ASSUME NEW id \in SendIds
        PROVE  Fate(id)'
    <3>1. /\ id = <<id[1], id[2]>> /\ id[1] \in Kthreads /\ id[2] \in Nat
          /\ sent[id[1]] \in Nat
          /\ sent' = sent /\ dropped' = dropped
      <4>1. id = <<id[1], id[2]>> /\ id[1] \in Kthreads /\ id[2] \in Nat
        BY DEF SendIds
      <4> QED BY <4>1, <1>2, <1>6
    <3>2. Held(senders, threadOf, h) /\ ~Held(senders', threadOf, h)
      BY Zenon, <1>3, <1>4, <1>8, InvHeld
    <3>3. CASE id = node.msg.id
      <4>1. id[1] = h /\ id[2] = sent[h]
        <5>1. node.msg.id = <<h, sent[h]>>
          BY <1>3
        <5> QED BY <5>1, <3>3
      <4>2. delivered[id] = 0 /\ id \notin dropped
        <5>1. Fate(id)
          BY OnceHeld
        <5>2. id[2] <= sent[id[1]] /\ id[2] = sent[id[1]] /\ Held(senders, threadOf, id[1])
          BY <4>1, <3>1, <3>2
        <5> QED BY <5>1, <5>2, Zenon DEF Fate
      <4>3. delivered'[id] = 1
        <5>1. delivered' = [i \in SendIds |-> delivered[i] + (IF i = node.msg.id THEN 1 ELSE 0)]
          BY <1>2
        <5> QED BY <5>1, <4>2, <3>3
      <4> QED BY <4>1, <4>2, <4>3, <3>1, <3>2 DEF Fate
    <3>4. CASE id # node.msg.id
      <4>1. delivered'[id] = delivered[id]
        BY <3>4, <1>2 DEF IpcIInv, IpcInv, IpcTypeOK
      <4>2. ~(id[1] = h /\ id[2] = sent[h])
        BY <3>1, <3>4, <1>3
      <4>3. (Held(senders', threadOf, id[1]) /\ id[2] = sent[id[1]])
              <=> (Held(senders, threadOf, id[1]) /\ id[2] = sent[id[1]])
        <5>1. Held(senders', threadOf, id[1]) <=> Held(senders, threadOf, id[1]) /\ id[1] # h
          BY <1>8
        <5> QED BY <5>1, <4>2
      <4>4. Fate(id)
        BY OnceHeld
      <4> QED BY Zenon, <4>1, <4>3, <4>4, <3>1 DEF Fate
    <3> QED BY <3>3, <3>4
  <2> QED BY <2>1, <1>12, <1>6, <1>8, HeldOnce
<1> QED BY <1>9, <1>10, <1>11, <1>12, <1>13, <1>14 DEF IpcIInv, IpcInv

\* ipc_recv with none waiting: the caller waits with its buffer.
LEMMA RecvAndBlockInv ==
  ASSUME IpcIInv, CpuInv', Here = "kernel", NEW p \in Ports, RecvAndBlock(p)
  PROVE  IpcIInv'
<1> DEFINE cur == current_thread
<1>1. /\ cur \in Kthreads
      /\ ~Sending(cur)
      /\ ~Receiving(cur)
  BY CallerRuns
<1>2. /\ senders[p] = <<>>
      /\ recvers' = [recvers EXCEPT ![p] = <<cur>> \o @]
      /\ buffer' = [buffer EXCEPT ![cur] = Garbage]
      /\ Block
      /\ UNCHANGED <<senders, sent, delivered, dropped>>
  BY DEF RecvAndBlock
<1>3. \A t \in Kthreads : state'[t] = "blocked" <=> state[t] = "blocked" \/ t = cur
  BY <1>2, BlockEffect
<1>4. self[cur] = cur
  BY <1>1 DEF self
<1>5. /\ recvers' \in [Ports -> Seq(Kthreads)]
      /\ Once(recvers', self)
      /\ \A v : Held(recvers', self, v) <=> Held(recvers, self, v) \/ v = cur
  <2>1. /\ Pushed(Ports, Kthreads, recvers, recvers', p, cur)
        /\ Once(recvers, self)
        /\ ~Held(recvers, self, self[cur])
    BY Zenon, <1>1, <1>2, <1>4, InvHeld DEF Pushed
  <2> QED BY <2>1, <1>4, PushHeld
<1>6. /\ BlockedIffQueued'
      /\ OneNode'
      /\ \A t : Receiving(t)' <=> Held(recvers', self, t)
  <2>1. \A t \in Kthreads :
           /\ state'[t] = "blocked" <=> Held(senders', threadOf, t) \/ Held(recvers', self, t)
           /\ ~(Held(senders', threadOf, t) /\ Held(recvers', self, t))
    BY Zenon, <1>1, <1>2, <1>3, <1>5, InvHeld
  <2>2. senders' \in [Ports -> Seq(Nodes)] /\ Once(senders', threadOf)
    BY Zenon, <1>2, InvHeld
  <2> QED BY <2>1, <2>2, <1>5, HeldInv
<1>7. IpcTypeOK'
  <2>1. buffer' \in [Kthreads -> Messages]
    BY Zenon, <1>1, <1>2 DEF IpcIInv, IpcInv, IpcTypeOK, Messages
  <2> QED BY Zenon, <2>1, <1>2, <1>5 DEF IpcIInv, IpcInv, IpcTypeOK, CpuInv, MachineInv
<1>8. NoMissedRendezvous'
  BY <1>2 DEF IpcIInv, IpcInv, IpcTypeOK, NoMissedRendezvous
<1>9. LastSent'
  BY Zenon, <1>2 DEF IpcIInv, LastSent
<1>10. UnwrittenWaits'
  <2> SUFFICES ASSUME NEW t \in Kthreads, buffer'[t] = Garbage
      PROVE  Receiving(t)'
    BY DEF UnwrittenWaits
  <2>1. t = cur \/ buffer[t] = Garbage
    BY <1>1, <1>2 DEF IpcIInv, IpcInv, IpcTypeOK
  <2>2. t = cur \/ Receiving(t)
    BY <2>1 DEF IpcIInv, UnwrittenWaits
  <2>3. t = cur \/ Held(recvers, self, t)
    BY Zenon, <2>2, InvHeld
  <2>4. Held(recvers', self, t)
    BY <2>3, <1>5
  <2> QED BY <2>4, <1>6
<1>11. ExactlyOnce'
  BY Zenon, <1>2 DEF IpcIInv, ExactlyOnce, Waiting
<1> QED BY <1>6, <1>7, <1>8, <1>9, <1>10, <1>11 DEF IpcIInv, IpcInv

\* Without memory for a node ipc_send queues nothing and drops its message.
LEMMA SendNoMemoryInv ==
  ASSUME IpcIInv, CpuInv', Here = "kernel", NEW p \in Ports, NEW len \in Lengths,
         Counted,
         SendNoMemory(p, NewMessage(len))
  PROVE  IpcIInv'
<1> DEFINE cur == current_thread
           id0 == <<cur, sent[cur] + 1>>
<1>1. /\ cur \in Kthreads
      /\ ~Sending(cur)
  BY CallerRuns
<1>2. /\ dropped' = dropped \cup {id0}
      /\ UNCHANGED <<state, senders, recvers, buffer, delivered>>
  BY Zenon, NewMessageFacts DEF SendNoMemory, vars, rqVars
<1>3. /\ id0 \in SendIds
      /\ sent \in [Kthreads -> Nat]
      /\ sent' \in [Kthreads -> 0..MaxSends]
      /\ sent' \in [Kthreads -> Nat]
      /\ sent'[cur] = sent[cur] + 1
      /\ \A t \in Kthreads \ {cur} : sent'[t] = sent[t]
  BY Zenon, NewMessageFacts
<1>4. IpcTypeOK'
  BY Zenon, <1>2, <1>3 DEF IpcIInv, IpcInv, IpcTypeOK, CpuInv, MachineInv
<1>5. BlockedIffQueued' /\ OneNode' /\ NoMissedRendezvous'
  BY <1>2, ListsStay
<1>6. LastSent'
  <2> SUFFICES ASSUME NEW q \in Ports, NEW i \in 1..Len(senders[q])
      PROVE  /\ sent'[senders[q][i].thread] >= 1
             /\ senders[q][i].msg.id = <<senders[q][i].thread, sent'[senders[q][i].thread]>>
    BY Zenon, <1>2 DEF LastSent
  <2>1. Sending(senders[q][i].thread)
    BY DEF Sending
  <2>2. senders[q][i] \in Nodes
    BY InvHeld
  <2>3. senders[q][i].thread \in Kthreads \ {cur}
    BY Zenon, <2>1, <2>2, <1>1 DEF Nodes
  <2> QED BY Zenon, <2>3, <1>3 DEF IpcIInv, LastSent
<1>7. UnwrittenWaits'
  BY Zenon, <1>2 DEF IpcIInv, UnwrittenWaits, Receiving
<1>8. ExactlyOnce'
  <2>1. ASSUME NEW id \in SendIds
        PROVE  Fate(id)'
    <3>1. /\ id = <<id[1], id[2]>> /\ id[1] \in Kthreads /\ id[2] \in Nat
          /\ sent[id[1]] \in Nat
          /\ id0[1] = cur /\ id0[2] = sent[cur] + 1
          /\ delivered' = delivered /\ senders' = senders
      <4>1. delivered' = delivered /\ senders' = senders
        BY <1>2
      <4>2. sent \in [Kthreads -> Nat]
        BY <1>3
      <4> QED BY <4>1, <4>2 DEF SendIds
    <3>2. ~Held(senders, threadOf, cur)
      BY <1>1, InvHeld
    <3>3. CASE id = id0
      <4>1. id[1] = cur /\ id[2] = sent[cur] + 1 /\ id \in dropped'
        BY <3>1, <3>3, <1>2
      <4>2. delivered[id] = 0
        BY <4>1, <3>1, <3>2, UnheldOnce
      <4>3. sent'[id[1]] = id[2] /\ ~Held(senders, threadOf, id[1])
        BY <4>1, <3>2, <1>3
      <4> QED BY <4>1, <4>2, <4>3, <3>1 DEF Fate
    <3>4. CASE id # id0
      <4>1. id \in dropped' <=> id \in dropped
        BY <3>4, <1>2
      <4>2. CASE id[1] # cur
        <5>1. sent'[id[1]] = sent[id[1]]
          BY <4>2, <3>1, <1>3
        <5>2. Fate(id)
          BY OnceHeld
        <5> QED BY Zenon, <4>1, <5>1, <5>2, <3>1 DEF Fate
      <4>3. CASE id[1] = cur
        <5>1. id[2] # sent[id[1]] + 1 /\ ~Held(senders, threadOf, id[1])
          BY <4>3, <3>1, <3>2, <3>4
        <5>2. sent'[id[1]] = sent[id[1]] + 1
          BY <4>3, <1>3
        <5>3. /\ id[2] > sent[id[1]] => delivered[id] = 0 /\ id \notin dropped
              /\ id[2] <= sent[id[1]] => \/ delivered[id] = 1 /\ id \notin dropped
                                         \/ delivered[id] = 0 /\ id \in dropped
          BY <5>1, UnheldOnce
        <5>4. /\ id[2] > sent'[id[1]] => id[2] > sent[id[1]]
              /\ id[2] <= sent'[id[1]] => id[2] <= sent[id[1]]
          BY <5>1, <5>2, <3>1
        <5>5. delivered'[id] = delivered[id] /\ ~Held(senders', threadOf, id[1])
          BY <4>1, <5>1, <3>1
        <5> QED BY <4>1, <5>3, <5>4, <5>5, Zenon DEF Fate
      <4> QED BY <4>2, <4>3
    <3> QED BY <3>3, <3>4
  <2>2. senders' \in [Ports -> Seq(Nodes)]
    BY <1>2, InvHeld
  <2> QED BY <2>1, <2>2, <1>6, <1>3, HeldOnce
<1> QED BY Zenon, <1>4, <1>5, <1>6, <1>7, <1>8 DEF IpcIInv, IpcInv

\* Without memory for a node ipc_recv queues nothing and writes nothing.
LEMMA RecvNoMemoryInv ==
  ASSUME IpcIInv, CpuInv', Here = "kernel", NEW p \in Ports, RecvNoMemory(p)
  PROVE  IpcIInv'
<1>1. current_thread \in Kthreads
  BY CallerRuns
<1>2. /\ buffer' = [buffer EXCEPT ![current_thread] = NoMemory]
      /\ UNCHANGED <<state, senders, recvers, sent, delivered, dropped>>
  BY DEF RecvNoMemory, vars, rqVars
<1>3. NoMemory # Garbage /\ NoMemory \in Messages
  BY Zenon DEF NoMemory, Garbage, Messages
<1>4. buffer' \in [Kthreads -> Messages]
  BY <1>1, <1>2, <1>3 DEF IpcIInv, IpcInv, IpcTypeOK
<1>5. IpcTypeOK'
  BY Zenon, <1>2, <1>4 DEF IpcIInv, IpcInv, IpcTypeOK, CpuInv, MachineInv
<1>6. BlockedIffQueued' /\ OneNode' /\ NoMissedRendezvous'
  BY <1>2, ListsStay
<1>9. LastSent'
  BY Zenon, <1>2 DEF IpcIInv, LastSent
<1>7. UnwrittenWaits'
  <2> SUFFICES ASSUME NEW t \in Kthreads, buffer'[t] = Garbage
      PROVE  Receiving(t)'
    BY DEF UnwrittenWaits
  <2>1. buffer[t] = Garbage
    BY <1>1, <1>2, <1>3 DEF IpcIInv, IpcInv, IpcTypeOK
  <2> QED BY Zenon, <2>1, <1>2 DEF IpcIInv, UnwrittenWaits, Receiving
<1>8. ExactlyOnce'
  BY Zenon, <1>2 DEF IpcIInv, ExactlyOnce, Waiting
<1> QED BY <1>5, <1>6, <1>7, <1>8, <1>9 DEF IpcIInv, IpcInv

\* Every step of IPC keeps the invariant.
LEMMA IpcNextInv ==
  ASSUME IpcIInv, IpcNext
  PROVE  IpcIInv'
<1>0. CpuInv'
  BY IpcKeepsCpu
<1>1. CASE OtherStep \/ QuietIsrReturn
  <2>1. UNCHANGED ipcVars
    BY <1>1 DEF OtherStep, QuietIsrReturn
  <2> QED BY <1>0, <1>1, <2>1, OtherKeepsBlocked, OtherKeepsInv
<1>2. ASSUME NEW p \in Ports, NEW len \in Lengths, ipc_send(p, len)
      PROVE  IpcIInv'
  BY <1>0, <1>2, SendToReceiverInv, SendAndBlockInv, SendNoMemoryInv DEF ipc_send, Counted
<1>3. ASSUME NEW p \in Ports, ipc_recv(p)
      PROVE  IpcIInv'
  BY <1>0, <1>3, RecvFromSenderInv, RecvAndBlockInv, RecvNoMemoryInv DEF ipc_recv
<1> QED BY <1>1, <1>2, <1>3 DEF IpcNext

\* Before the first call the lists are empty.
LEMMA IpcInitInv ==
  ASSUME IpcInit
  PROVE  IpcIInv
<1>1. CpuInv
  BY SchedInitInv DEF IpcInit
<1>2. /\ senders = [p \in Ports |-> <<>>]
      /\ recvers = [p \in Ports |-> <<>>]
      /\ buffer = [t \in Kthreads |-> Unused]
      /\ sent = [t \in Kthreads |-> 0]
      /\ delivered = [id \in SendIds |-> 0]
      /\ dropped = {}
      /\ \A t \in Kthreads : state[t] = "unborn"
  BY ThreadsAssumption DEF IpcInit, SchedInit, RQInit, Threads, Workers
<1>3. \A p \in Ports : Len(senders[p]) = 0 /\ Len(recvers[p]) = 0
  BY <1>2
<1>4. /\ \A t : ~Sending(t)
      /\ \A t : ~Receiving(t)
      /\ \A id : ~Waiting(id)
  BY <1>3 DEF Sending, Receiving, Waiting
<1>5. IpcTypeOK
  BY <1>1, <1>2, IpcAssumption DEF IpcTypeOK, Messages, CpuInv, MachineInv
<1>6. BlockedIffQueued /\ OneNode /\ NoMissedRendezvous
  BY <1>2, <1>3, <1>4 DEF BlockedIffQueued, OneNode, NoMissedRendezvous
<1>7. LastSent /\ UnwrittenWaits
  <2>1. Unused # Garbage
    BY DEF Unused, Garbage
  <2>2. UnwrittenWaits
    BY <2>1, <1>2 DEF UnwrittenWaits
  <2>3. LastSent
    <3> SUFFICES ASSUME NEW q \in Ports, NEW i \in 1..Len(senders[q])
        PROVE  FALSE
      BY Zenon DEF LastSent
    <3>1. Len(senders[q]) = 0
      BY <1>3
    <3> QED BY <3>1
  <2> QED BY <2>2, <2>3
<1>8. ExactlyOnce
  BY <1>2, <1>4, IpcAssumption DEF ExactlyOnce, SendIds
<1> QED BY <1>1, <1>5, <1>6, <1>7, <1>8 DEF IpcIInv, IpcInv

-----------------------------------------------------------------------------

\* IPC keeps its invariant.
THEOREM IpcAlways == IpcSpec => []IpcIInv
<1>1. IpcIInv /\ [IpcNext]_ipcAll => IpcIInv'
  <2>1. ASSUME IpcIInv, UNCHANGED ipcAll PROVE IpcIInv'
    <3>1. UNCHANGED vars /\ UNCHANGED ipcVars /\ state' = state
      BY <2>1 DEF ipcAll, vars, rqVars
    <3> QED BY <2>1, <3>1, CpuStutter, OtherKeepsInv DEF IpcIInv
  <2> QED BY <2>1, IpcNextInv
<1> QED BY <1>1, IpcInitInv, PTL DEF IpcSpec

\* The wait lists of ipc.c are exact: one node for each blocked thread, none for
\* any other, and no sender and receiver wait for each other.
THEOREM WaitListsExact == IpcSpec => []IpcInv
<1>1. IpcIInv => IpcInv
  BY DEF IpcIInv
<1> QED BY <1>1, IpcAlways, PTL

\* No message is lost or delivered twice.
THEOREM DeliveredOnce == IpcSpec => []ExactlyOnce
<1>1. IpcIInv => ExactlyOnce
  BY DEF IpcIInv
<1> QED BY <1>1, IpcAlways, PTL

\* What Synchronous takes from the invariant.
LEMMA InvSynchronous ==
  ASSUME IpcIInv
  PROVE  Synchronous
<1>1. SendIsSynchronous
  <2> SUFFICES ASSUME NEW id \in SendIds, id[2] <= sent[id[1]], state[id[1]] # "blocked",
                      id \notin dropped
               PROVE  delivered[id] = 1
    BY DEF SendIsSynchronous
  <2>1. id[1] \in Kthreads
    BY DEF SendIds
  <2>2. ~Held(senders, threadOf, id[1])
    BY <2>1, InvHeld
  <2> QED BY <2>2, UnheldOnce
<1>2. RecvIsSynchronous
  BY DEF RecvIsSynchronous, IpcIInv, UnwrittenWaits, IpcInv, BlockedIffQueued
<1> QED BY <1>1, <1>2 DEF Synchronous

\* A call of ipc.c that has returned has exchanged its message, or had no memory.
THEOREM CallsSynchronous == IpcSpec => []Synchronous
BY InvSynchronous, IpcAlways, PTL
=============================================================================
