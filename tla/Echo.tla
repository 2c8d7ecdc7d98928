-------------------------------- MODULE Echo ---------------------------------
(***************************************************************************)
(* The kernel threads of main.c on the service bus, IPC and the scheduler: *)
(* echo_service, echo_client, and the threads that only print (thread_a,   *)
(* thread_b).  There may be several of each, started in any order, and a   *)
(* service and a client choose their name among Names (main.c has the one  *)
(* name "echo").  Kernel code runs with interrupts masked, so the code     *)
(* between two calls belongs to the step of the call before it; the delay  *)
(* loops and the serial output leave nothing behind.  _start also loads    *)
(* the program init, after these threads; elf_load adds it twice and so    *)
(* loses them (module ReadyQueue).  Here they run without it.              *)
(***************************************************************************)
EXTENDS Ipc, Bus, Integers

CONSTANTS
  Services,    \* threads started at echo_service
  Clients,     \* threads started at echo_client
  MaxFailures  \* bound: kmalloc calls of ipc.c that fail

ASSUME EchoAssumption ==
  /\ Services \subseteq Kthreads
  /\ Clients \subseteq Kthreads \ Services
  /\ MAX_SERVICES <= MAX_PORTS
  /\ MaxFailures \in Nat

VARIABLES
  pc,       \* the next call of each kernel thread
  handle,   \* its local variable port
  name,     \* history: the name it registered or looked up
  text,     \* whose "Hello, world!" each message carries
  failures  \* history: failed kmalloc calls of ipc.c

echoVars == <<pc, handle, name, text, failures>>
echoAll == <<ipcAll, busVars, echoVars>>

NoText == "none"

EchoInit ==
  /\ IpcInit
  /\ BusInit
  /\ pc = [t \in Kthreads |-> IF t \in Services \cup Clients THEN "start" ELSE "exit"]
  /\ handle = [t \in Kthreads |-> NotFound]
  /\ name = [t \in Kthreads |-> <<>>]
  /\ text = [id \in SendIds |-> NoText]
  /\ failures = 0

-----------------------------------------------------------------------------

\* The call at pc c of the thread that runs is made, and returns to pc d.
Calls(c, d) ==
  /\ Here = "kernel"
  /\ pc[current_thread] = c
  /\ pc' = [pc EXCEPT ![current_thread] = d]

\* The port obtained under name n, and what the thread does next; without one it
\* exits.
Opens(n, port, next) ==
  /\ Calls("start", IF port = NotFound THEN "exit" ELSE next)
  /\ handle' = [handle EXCEPT ![current_thread] = port]
  /\ name' = [name EXCEPT ![current_thread] = n]
  /\ UNCHANGED <<ipcAll, text, failures>>

\* echo_service: bus_register, which a full table refuses.
Register(n) ==
  /\ current_thread \in Services
  /\ \/ /\ bus_register(n)
        /\ Opens(n, next_port, "recv")
     \/ /\ Len(services) = MAX_SERVICES
        /\ Opens(n, NotFound, "recv")
        /\ UNCHANGED busVars

\* echo_client: bus_lookup.
Lookup(n) ==
  /\ current_thread \in Clients
  /\ Opens(n, bus_lookup(n), "send")
  /\ UNCHANGED busVars

\* What the thread's msg holds when it calls ipc_send.
Content(t) ==
  IF t \in Clients THEN t
  ELSE IF buffer[t].id \in SendIds THEN text[buffer[t].id] ELSE NoText

\* ipc_send(port, &msg): the client's request, then it receives; the service's
\* reply, then it receives again.
Send ==
  /\ Calls("send", "recv")
  /\ \E len \in Lengths : ipc_send(handle[current_thread], len)
  /\ text' = [text EXCEPT ![<<current_thread, sent'[current_thread]>>] = Content(current_thread)]
  /\ failures' = failures + (IF dropped' = dropped THEN 0 ELSE 1)
  /\ failures' <= MaxFailures
  /\ UNCHANGED <<busVars, handle, name>>

\* Mutant: the service goes back to ipc_recv and does not reply.
Receive_NoReply ==
  /\ Calls("recv", IF current_thread \in Clients THEN "exit" ELSE "recv")
  /\ ipc_recv(handle[current_thread])
  /\ failures' = failures + (IF buffer'[current_thread] = NoMemory THEN 1 ELSE 0)
  /\ failures' <= MaxFailures
  /\ UNCHANGED <<busVars, handle, name, text>>

\* ipc_recv(port, &msg): the service's request, then it replies; the client's
\* reply, then it exits.
Receive ==
  /\ Calls("recv", IF current_thread \in Clients THEN "exit" ELSE "send")
  /\ ipc_recv(handle[current_thread])
  /\ failures' = failures + (IF buffer'[current_thread] = NoMemory THEN 1 ELSE 0)
  /\ failures' <= MaxFailures
  /\ UNCHANGED <<busVars, handle, name, text>>

\* Mutant: thread_block in the place of thread_exit.
Leave_Blocks ==
  /\ Calls("exit", "exit")
  /\ Block
  /\ UNCHANGED <<ipcVars, busVars, handle, name, text, failures>>

\* thread_exit.
Leave ==
  /\ Calls("exit", "exit")
  /\ Exit
  /\ UNCHANGED <<ipcVars, busVars, handle, name, text, failures>>

ThreadStep ==
  \/ \E n \in Names : Register(n)
  \/ \E n \in Names : Lookup(n)
  \/ Send
  \/ Receive
  \/ Leave

\* Steps of _start and of the CPU.
BootStep ==
  /\ \/ \E t \in Kthreads : thread_create(t)
     \/ enable_interrupts
  /\ UNCHANGED <<ipcVars, busVars, echoVars>>
ResumeStep ==
  /\ \/ kernel_entry /\ UNCHANGED ipcVars
     \/ QuietIsrReturn
  /\ UNCHANGED <<busVars, echoVars>>
TickStep == TimerInterrupt(<<>>) /\ UNCHANGED <<ipcVars, busVars, echoVars>>

EchoNext == BootStep \/ ResumeStep \/ TickStep \/ ThreadStep

\* The CPU executes the thread that has it, and ticks keep coming (see CpuRuns
\* of module Scheduler).
EchoSpec ==
  /\ EchoInit /\ [][EchoNext]_echoAll
  /\ WF_echoAll(enable_interrupts /\ BootStep)
  /\ WF_echoAll(ResumeStep \/ ThreadStep)
  /\ SF_echoAll(TickStep)

-----------------------------------------------------------------------------

\* The threads of main.c use IPC as module Ipc allows, on ports that exist.
UsesIpc == IpcSpec

Alone(c) == \A d \in Clients \ {c} : handle[d] # handle[c]
Replied(c) == pc[c] = "exit" /\ handle[c] # NotFound /\ state[c] # "blocked"

\* The client gets its own words back, from the service of the name it looked
\* up, if no other client talks to that port and kmalloc did not fail.  (Two
\* clients of one port may receive each other's requests: a port has one list
\* of senders for both directions.)
EchoAnswered ==
  \A c \in Clients :
    (Replied(c) /\ Alone(c) /\ failures = 0) =>
      LET id == buffer[c].id
      IN  /\ id \in SendIds
          /\ text[id] = c
          /\ id[1] \in Services
          /\ Len(name[id[1]]) < NAME_MAX => name[id[1]] = name[c]

\* Every client that is started comes to its end, whatever the order in which
\* the threads are created and run, unless kmalloc fails.
ClientsFinish ==
  \A c \in Clients :
    (state[c] = "ready") ~> (state[c] = "exited" \/ failures > 0)
=============================================================================
