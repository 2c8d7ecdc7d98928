--------------------------------- MODULE Irq ---------------------------------
(***************************************************************************)
(* Interrupts and what they feed, composed with IPC and the keyboard       *)
(* buffer: irq.c, the keyboard and generic parts of isr_handler.c, SYS_read*)
(* and SYS_irq_register of syscalls.c, and kbd_buf.c (module KbdBuf).      *)
(*                                                                         *)
(* Only IRQ 0 and IRQ 1 are unmasked (_start writes 0xFC to the 8259).     *)
(***************************************************************************)
EXTENDS Ipc, KbdBuf

CONSTANT
  Irqs  \* the IRQs that programs register; the entry of IRQ 1 is never read

ASSUME IrqAssumption == 0 \in Irqs

NotInUse == MAX_PORTS + 1  \* irq_table[irq].in_use = 0

VARIABLES
  irq_table,  \* the port each IRQ is registered for; the system call does
              \* not check it against MAX_PORTS
  nested      \* threads inside the system call made by kbd_buf_get itself

irqVars == <<irq_table, nested>>
irqAll == <<ipcAll, kbdVars, irqVars>>

IrqInit ==
  /\ IpcInit
  /\ KbdInit
  /\ irq_table = [i \in Irqs |-> NotInUse]
  /\ nested = {}

-----------------------------------------------------------------------------

\* SYS_irq_register: the first registration of an IRQ stays.
irq_register(irq, port) ==
  /\ Here = "handler"
  /\ irq_table[irq] = NotInUse
  /\ irq_table' = [irq_table EXCEPT ![irq] = port]
  /\ UNCHANGED <<ipcAll, kbdVars, nested>>

\* Mutant: the node stays in the list.
ipc_kernel_send_KeepsNode(p) ==
  IF p \in Ports /\ recvers[p] # <<>> /\ state[Head(recvers[p])] = "blocked"
  THEN /\ buffer' = [buffer EXCEPT ![Head(recvers[p])] = IrqMessage]
       /\ thread_unblock(Head(recvers[p]))
       /\ UNCHANGED <<senders, recvers, sent, delivered, dropped>>
  ELSE UNCHANGED <<rqVars, ipcVars>>

\* ipc_kernel_send of the empty message: a waiting receiver gets it; without
\* one it is dropped.
ipc_kernel_send(p) ==
  IF p \in Ports /\ recvers[p] # <<>>
  THEN /\ recvers' = [recvers EXCEPT ![p] = Tail(@)]
       /\ buffer' = [buffer EXCEPT ![Head(recvers[p])] = IrqMessage]
       /\ IF state[Head(recvers[p])] = "blocked"
          THEN thread_unblock(Head(recvers[p]))
          ELSE UNCHANGED rqVars
       /\ UNCHANGED <<senders, sent, delivered, dropped>>
  ELSE UNCHANGED <<rqVars, ipcVars>>

irq_handler(irq) ==
  IF irq_table[irq] # NotInUse THEN ipc_kernel_send(irq_table[irq])
                               ELSE UNCHANGED <<rqVars, ipcVars>>

\* The end of the timer interrupt.
timer_isr_return ==
  /\ Here = "isr"
  /\ irq_handler(0)
  /\ isr_return
  /\ UNCHANGED <<kbdVars, irqVars>>

(***************************************************************************)
(* The keyboard interrupt: delivered only while no IRQ 0 is in service,    *)
(* which has the higher priority.  isr_handler buffers the character,      *)
(* sends the EOI and returns before it comes to irq_handler.               *)
(***************************************************************************)
keyboard_interrupt(c) ==
  /\ IrqDelivered
  /\ kbd_buf_put(c)
  /\ UNCHANGED <<ipcAll, irqVars>>

\* SYS_read of standard input with a character in the buffer.
ReadChar ==
  /\ Here = "handler"
  /\ kbd_buf_get
  /\ UNCHANGED <<ipcAll, irqVars>>

\* ... with an empty one: kbd_buf_get yields by executing a syscall
\* instruction in ring 0.
ReadEmpty ==
  /\ tail = head
  /\ Yield
  /\ nested' = nested \cup {current_thread}
  /\ UNCHANGED <<ipcVars, kbdVars, irq_table>>

\* sysretq ends that inner system call in ring 3, at an address of kernel code;
\* the instruction fetch faults and the page fault handler ends the thread.
NestedReturn ==
  /\ Here = "syscall"
  /\ current_thread \in nested
  /\ Exit
  /\ nested' = nested \ {current_thread}
  /\ UNCHANGED <<ipcVars, kbdVars, irq_table>>

-----------------------------------------------------------------------------

SchedStep ==
  /\ \/ \E t \in Kthreads : thread_create(t)
     \/ \E t \in Uthreads : thread_create_user(t)
     \/ enable_interrupts
     \/ kernel_entry
     \/ userspace_entry
     \/ syscall_entry
     \/ syscall_return /\ current_thread \notin nested
     \/ Yield
     \/ Exit /\ current_thread \notin nested
     \/ TimerInterrupt(<<>>)
  /\ UNCHANGED <<ipcVars, kbdVars, irqVars>>

IpcStep ==
  /\ \/ \E p \in Ports, len \in Lengths : ipc_send(p, len)
     \/ \E p \in Ports : ipc_recv(p)
  /\ UNCHANGED <<kbdVars, irqVars>>

IrqNext ==
  \/ SchedStep
  \/ IpcStep
  \/ timer_isr_return
  \/ \E irq \in Irqs, p \in 0..MAX_PORTS : irq_register(irq, p)
  \/ \E c \in Chars : keyboard_interrupt(c)
  \/ ReadChar
  \/ ReadEmpty
  \/ NestedReturn

IrqSpec == IrqInit /\ [][IrqNext]_irqAll

-----------------------------------------------------------------------------

\* Types of the composition.
IrqTypeOK ==
  /\ IpcTypeOK
  /\ KbdTypeOK
  /\ irq_table \in [Irqs -> 0..NotInUse]
  /\ nested \subseteq Uthreads

\* The wait lists stay well formed when ipc_kernel_send works on them from
\* interrupt context: a receiver is blocked exactly while one node holds it.
IrqInv == IrqTypeOK /\ IpcInv
=============================================================================
