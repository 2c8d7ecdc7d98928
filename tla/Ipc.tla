--------------------------------- MODULE Ipc ---------------------------------
(***************************************************************************)
(* ipc.c on the scheduler: ports with a list of waiting senders and a list *)
(* of waiting receivers.  Only kernel threads call ipc_send and ipc_recv   *)
(* (there is no IPC system call), with interrupts masked, so a call is one *)
(* step up to its return or its thread_block.                              *)
(*                                                                         *)
(* A message is the identity of the ipc_send call it belongs to and its    *)
(* length; the data bytes go with it.  Every thread is added to the ready  *)
(* queue once, here and in the modules Irq and Echo that build on this     *)
(* one: elf.c's second add is in modules Scheduler and Syscall.            *)
(***************************************************************************)
EXTENDS Scheduler

CONSTANTS
  MAX_PORTS,     \* ports 0 .. MAX_PORTS - 1
  IPC_MSG_MAX,   \* data bytes of a message
  Lengths,       \* msg->length of the messages sent
  MaxSends       \* bound: ipc_send calls per thread

ASSUME IpcAssumption ==
  /\ MAX_PORTS \in Nat
  /\ IPC_MSG_MAX \in Nat
  /\ Lengths \subseteq Nat
  /\ MaxSends \in Nat

Ports == 0..(MAX_PORTS - 1)
SendIds == Kthreads \X (1..MaxSends)
Unused == [id |-> <<"unused", 0>>, length |-> 0]    \* before the first ipc_recv
Garbage == [id |-> <<"garbage", 0>>, length |-> 0]  \* not written yet
NoMemory == [id |-> <<"no memory", 0>>, length |-> 0]  \* not written, kmalloc failed
IrqMessage == [id |-> <<"irq", 0>>, length |-> 0]
Messages == [id : SendIds, length : 0..IPC_MSG_MAX] \cup {Unused, Garbage, NoMemory, IrqMessage}

VARIABLES
  senders,   \* ports[p].senders, first to be served first: [thread, msg]
  recvers,   \* ports[p].recvers: the waiting threads; node->rcv.buffer is
             \* the buffer of the thread
  buffer,    \* the struct ipc_message each thread last passed to ipc_recv
  sent,      \* history: ipc_send calls each thread has made
  delivered, \* history: how often each message was copied to a receiver
  dropped    \* history: messages whose ipc_send returned for lack of memory

ipcVars == <<senders, recvers, buffer, sent, delivered, dropped>>
ipcAll == <<vars, ipcVars>>

IpcInit ==
  /\ SchedInit
  /\ senders = [p \in Ports |-> <<>>]
  /\ recvers = [p \in Ports |-> <<>>]
  /\ buffer = [t \in Kthreads |-> Unused]
  /\ sent = [t \in Kthreads |-> 0]
  /\ delivered = [id \in SendIds |-> 0]
  /\ dropped = {}

-----------------------------------------------------------------------------

\* The length is clamped wherever a message is copied.
Copy(msg) == [msg EXCEPT !.length = IF @ > IPC_MSG_MAX THEN IPC_MSG_MAX ELSE @]

\* thread_unblock called by a running kernel thread.
Wake(t) == IF state[t] = "blocked" THEN Unblock(t) ELSE UNCHANGED vars

\* A message copied to a receiver's buffer, for the history.
Received(msg) ==
  delivered' = [id \in SendIds |-> delivered[id] + (IF id = msg.id THEN 1 ELSE 0)]

NewMessage(len) == [id |-> <<current_thread, sent[current_thread] + 1>>, length |-> len]

\* Mutant: the receiver's buffer is not written.
SendToReceiver_NoCopy(p, msg) ==
  /\ recvers[p] # <<>>
  /\ recvers' = [recvers EXCEPT ![p] = Tail(@)]
  /\ Wake(Head(recvers[p]))
  /\ Received(msg)
  /\ UNCHANGED <<senders, buffer, dropped>>

\* ipc_send with a receiver waiting: the last one to have come is served.
SendToReceiver(p, msg) ==
  /\ recvers[p] # <<>>
  /\ recvers' = [recvers EXCEPT ![p] = Tail(@)]
  /\ buffer' = [buffer EXCEPT ![Head(recvers[p])] = Copy(msg)]
  /\ Wake(Head(recvers[p]))
  /\ Received(msg)
  /\ UNCHANGED <<senders, dropped>>

\* Mutant: the sender does not wait for the message to be taken.
SendAndBlock_NoBlock(p, msg) ==
  /\ recvers[p] = <<>>
  /\ senders' = [senders EXCEPT ![p] = <<[thread |-> current_thread, msg |-> Copy(msg)]>> \o @]
  /\ UNCHANGED <<vars, recvers, buffer, delivered, dropped>>

\* ipc_send with none waiting: queue a copy at the head and block.
SendAndBlock(p, msg) ==
  /\ recvers[p] = <<>>
  /\ senders' = [senders EXCEPT ![p] = <<[thread |-> current_thread, msg |-> Copy(msg)]>> \o @]
  /\ Block
  /\ UNCHANGED <<recvers, buffer, delivered, dropped>>

\* ipc_send without memory for the node: return, the message is gone.
SendNoMemory(p, msg) ==
  /\ recvers[p] = <<>>
  /\ dropped' = dropped \cup {msg.id}
  /\ UNCHANGED <<vars, senders, recvers, buffer, delivered>>

ipc_send(p, len) ==
  /\ Here = "kernel"
  /\ sent[current_thread] < MaxSends
  /\ sent' = [sent EXCEPT ![current_thread] = @ + 1]
  /\ LET msg == NewMessage(len)
     IN  \/ SendToReceiver(p, msg)
         \/ SendAndBlock(p, msg)
         \/ SendNoMemory(p, msg)

\* Mutant: the sender's node stays in the list.
RecvFromSender_KeepsNode(p) ==
  /\ senders[p] # <<>>
  /\ buffer' = [buffer EXCEPT ![current_thread] = Copy(Head(senders[p]).msg)]
  /\ Wake(Head(senders[p]).thread)
  /\ Received(Head(senders[p]).msg)
  /\ UNCHANGED <<senders, recvers, sent, dropped>>

\* ipc_recv with a sender waiting, again the last to have come.
RecvFromSender(p) ==
  /\ senders[p] # <<>>
  /\ senders' = [senders EXCEPT ![p] = Tail(@)]
  /\ buffer' = [buffer EXCEPT ![current_thread] = Copy(Head(senders[p]).msg)]
  /\ Wake(Head(senders[p]).thread)
  /\ Received(Head(senders[p]).msg)
  /\ UNCHANGED <<recvers, sent, dropped>>

\* ipc_recv with none waiting; the buffer is a local variable of the caller.
RecvAndBlock(p) ==
  /\ senders[p] = <<>>
  /\ recvers' = [recvers EXCEPT ![p] = <<current_thread>> \o @]
  /\ buffer' = [buffer EXCEPT ![current_thread] = Garbage]
  /\ Block
  /\ UNCHANGED <<senders, sent, delivered, dropped>>

\* ipc_recv without memory for the node: return, the buffer is not written.
RecvNoMemory(p) ==
  /\ senders[p] = <<>>
  /\ buffer' = [buffer EXCEPT ![current_thread] = NoMemory]
  /\ UNCHANGED <<vars, senders, recvers, sent, delivered, dropped>>

ipc_recv(p) ==
  /\ Here = "kernel"
  /\ RecvFromSender(p) \/ RecvAndBlock(p) \/ RecvNoMemory(p)

-----------------------------------------------------------------------------

\* Steps of the scheduler that IPC has no part in.
OtherStep ==
  /\ \/ \E t \in Kthreads : thread_create(t)
     \/ \E t \in Uthreads : thread_create_user(t)
     \/ enable_interrupts
     \/ kernel_entry
     \/ userspace_entry
     \/ syscall_entry
     \/ syscall_return
     \/ Yield
     \/ Exit
     \/ TimerInterrupt(<<>>)
  /\ UNCHANGED ipcVars

\* The end of a timer interrupt when no driver has registered IRQ 0.
QuietIsrReturn == UNCHANGED rqVars /\ isr_return /\ UNCHANGED ipcVars

IpcNext ==
  \/ OtherStep
  \/ QuietIsrReturn
  \/ \E p \in Ports, len \in Lengths : ipc_send(p, len)
  \/ \E p \in Ports : ipc_recv(p)

IpcSpec == IpcInit /\ [][IpcNext]_ipcAll

-----------------------------------------------------------------------------

Waiting(id) == \E p \in Ports : \E i \in 1..Len(senders[p]) : senders[p][i].msg.id = id

\* Types of the wait lists and the history; lengths are clamped.
IpcTypeOK ==
  /\ SchedTypeOK
  /\ senders \in [Ports -> Seq([thread : Kthreads, msg : Messages])]
  /\ recvers \in [Ports -> Seq(Kthreads)]
  /\ buffer \in [Kthreads -> Messages]
  /\ sent \in [Kthreads -> 0..MaxSends]
  /\ delivered \in [SendIds -> Nat]
  /\ dropped \subseteq SendIds

\* A port never has senders and receivers waiting for each other.
NoMissedRendezvous == \A p \in Ports : senders[p] = <<>> \/ recvers[p] = <<>>

Sending(t) == \E p \in Ports : \E i \in 1..Len(senders[p]) : senders[p][i].thread = t
Receiving(t) == \E p \in Ports : \E i \in 1..Len(recvers[p]) : recvers[p][i] = t

\* A kernel thread is blocked exactly while a node holds it: no wake-up is lost,
\* and no node outlives the wait it was made for.
BlockedIffQueued ==
  \A t \in Kthreads : state[t] = "blocked" <=> Sending(t) \/ Receiving(t)

\* No two nodes, of one list or of two, hold the same thread.
OneNode ==
  /\ \A p, q \in Ports : \A i \in 1..Len(senders[p]), j \in 1..Len(senders[q]) :
       senders[p][i].thread = senders[q][j].thread => p = q /\ i = j
  /\ \A p, q \in Ports : \A i \in 1..Len(recvers[p]), j \in 1..Len(recvers[q]) :
       recvers[p][i] = recvers[q][j] => p = q /\ i = j
  /\ \A t \in Kthreads : ~(Sending(t) /\ Receiving(t))

\* The wait lists of ipc.c are well formed: types, one node for each blocked
\* thread, and no port where a sender and a receiver wait for each other.
IpcInv == IpcTypeOK /\ BlockedIffQueued /\ OneNode /\ NoMissedRendezvous

\* Each message sent is waiting, or was delivered once, or was dropped: never
\* two of these, never delivered twice.
ExactlyOnce ==
  \A id \in SendIds :
    IF id[2] > sent[id[1]] THEN ~Waiting(id) /\ delivered[id] = 0 /\ id \notin dropped
    ELSE \/ Waiting(id) /\ delivered[id] = 0 /\ id \notin dropped
         \/ ~Waiting(id) /\ delivered[id] = 1 /\ id \notin dropped
         \/ ~Waiting(id) /\ delivered[id] = 0 /\ id \in dropped

\* README.md, "Synchronous IPC (send/receive, blocking)": an ipc_send that has
\* returned has handed its message to a receiver, unless kmalloc had no memory
\* for its node.
SendIsSynchronous ==
  \A id \in SendIds :
    (id[2] <= sent[id[1]] /\ state[id[1]] # "blocked" /\ id \notin dropped)
      => delivered[id] = 1

\* ... and an ipc_recv that has returned has filled the caller's buffer, with the same
\* exception.
RecvIsSynchronous == \A t \in Kthreads : state[t] # "blocked" => buffer[t] # Garbage

Synchronous == SendIsSynchronous /\ RecvIsSynchronous
=============================================================================
