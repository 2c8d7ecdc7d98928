------------------------------ MODULE IrqProofs ------------------------------
(***************************************************************************)
(* Proofs about module Irq, for any sets of threads, ports, IRQs and       *)
(* characters: the invariant of IpcProofs is also kept by the messages     *)
(* that interrupts send, and the ring buffer of kbd_buf.c is a bounded     *)
(* FIFO of any size.                                                       *)
(***************************************************************************)
EXTENDS Irq, IpcProofs, SequenceTheorems

\* Indices that run around the end of the buffer.
LEMMA Around ==
  ASSUME NEW x \in Nat, x < 2 * BUF_SIZE
  PROVE  x % BUF_SIZE = IF x < BUF_SIZE THEN x ELSE x - BUF_SIZE
<1>1. BUF_SIZE \in Nat \ {0}
  BY KbdAssumption
<1>2. CASE x < BUF_SIZE
  BY <1>1, <1>2
<1>3. CASE x >= BUF_SIZE
  BY <1>1, <1>3
<1> QED BY <1>1, <1>2, <1>3

\* The number of characters in the buffer.
LEMMA CountIs ==
  ASSUME NEW h \in Slot, NEW t \in Slot
  PROVE  /\ (h + BUF_SIZE - t) % BUF_SIZE = IF h >= t THEN h - t ELSE h + BUF_SIZE - t
         /\ (h + BUF_SIZE - t) % BUF_SIZE \in Slot
         /\ (h + 1) % BUF_SIZE = IF h + 1 = BUF_SIZE THEN 0 ELSE h + 1
         /\ (h + 1) % BUF_SIZE \in Slot
<1>1. BUF_SIZE \in Nat \ {0} /\ h \in 0..(BUF_SIZE - 1) /\ t \in 0..(BUF_SIZE - 1)
  BY KbdAssumption DEF Slot
<1>2. h + BUF_SIZE - t \in Nat /\ h + BUF_SIZE - t < 2 * BUF_SIZE
  BY <1>1
<1>3. h + 1 \in Nat /\ h + 1 < 2 * BUF_SIZE
  BY <1>1
<1>4. (h + BUF_SIZE - t) % BUF_SIZE = IF h >= t THEN h - t ELSE h + BUF_SIZE - t
  BY <1>1, <1>2, Around
<1>5. (h + 1) % BUF_SIZE = IF h + 1 = BUF_SIZE THEN 0 ELSE h + 1
  BY <1>1, <1>3, Around
<1> QED BY <1>1, <1>4, <1>5 DEF Slot

\* The operations of kbd_buf.c keep head and tail inside the buffer.
LEMMA KbdNextType ==
  ASSUME KbdTypeOK, KbdNext
  PROVE  KbdTypeOK'
<1>1. CASE kbd_buf_get
  <2>1. tail' \in Slot
    BY <1>1, CountIs DEF KbdTypeOK, kbd_buf_get
  <2> QED BY <1>1, <2>1 DEF KbdTypeOK, kbd_buf_get
<1>2. ASSUME NEW c \in Chars, kbd_buf_put(c) PROVE KbdTypeOK'
  <2>1. (head + 1) % BUF_SIZE \in Slot
    BY CountIs DEF KbdTypeOK
  <2> QED BY <1>2, <2>1 DEF KbdTypeOK, kbd_buf_put
<1> QED BY <1>1, <1>2 DEF KbdNext

\* kbd_buf_put appends the character, or drops it when the buffer is full.
LEMMA PutIsAppend ==
  ASSUME KbdTypeOK, NEW c \in Chars, kbd_buf_put(c)
  PROVE  Fifo!PutChar(c) \/ UNCHANGED <<Buffered, got>>
<1> DEFINE next == (head + 1) % BUF_SIZE
<1>1. /\ BUF_SIZE \in Nat \ {0}
      /\ head \in 0..(BUF_SIZE - 1)
      /\ tail \in 0..(BUF_SIZE - 1)
      /\ buf \in [0..(BUF_SIZE - 1) -> Chars \cup {NoChar}]
      /\ tail' = tail /\ got' = got
  BY KbdAssumption DEF KbdTypeOK, Slot, kbd_buf_put
<1>2. CASE next = tail
  <2>1. buf' = buf /\ head' = head
    BY <1>2 DEF kbd_buf_put
  <2> QED BY <1>1, <2>1 DEF Buffered, Count
<1>3. CASE next # tail
  <2>1. buf' = [buf EXCEPT ![head] = c] /\ head' = next
    BY <1>3 DEF kbd_buf_put
  <2>2. /\ next = IF head + 1 = BUF_SIZE THEN 0 ELSE head + 1
        /\ next \in 0..(BUF_SIZE - 1)
    BY CountIs DEF KbdTypeOK, Slot
  <2>3. Count = IF head >= tail THEN head - tail ELSE head + BUF_SIZE - tail
    BY Zenon, CountIs DEF KbdTypeOK, Count
  <2>4. Count' = IF next >= tail THEN next - tail ELSE next + BUF_SIZE - tail
    <3>1. Count' = (next + BUF_SIZE - tail) % BUF_SIZE
      BY <2>1, <1>1 DEF Count
    <3> QED BY <3>1, <2>2, <1>1, CountIs DEF Slot
  <2> HIDE DEF next
  <2>5. Count \in Nat /\ Count' = Count + 1 /\ Count < BUF_SIZE - 1
    BY <2>2, <2>3, <2>4, <1>1, <1>3
  <2>6. ASSUME NEW i \in 1..Count
        PROVE  Buffered[i] \in Chars \cup {NoChar} /\ Buffered'[i] = Buffered[i]
    <3> DEFINE x == tail + i - 1
    <3>1. x \in Nat /\ x < 2 * BUF_SIZE /\ i \in Nat /\ 1 <= i /\ i <= Count
      BY <2>5, <1>1
    <3>2. x % BUF_SIZE = IF x < BUF_SIZE THEN x ELSE x - BUF_SIZE
      <4> HIDE DEF x
      <4> QED BY <3>1, Around
    <3>3. x % BUF_SIZE \in 0..(BUF_SIZE - 1) /\ x % BUF_SIZE # head
      <4>1. CASE x < BUF_SIZE
        BY <4>1, <3>1, <3>2, <2>3, <1>1
      <4>2. CASE x >= BUF_SIZE
        BY <4>2, <3>1, <3>2, <2>3, <1>1
      <4> QED BY <4>1, <4>2, <3>1, <1>1
    <3>4. Buffered[i] = buf[(tail + i - 1) % BUF_SIZE]
      BY DEF Buffered
    <3>5. Buffered'[i] = buf'[(tail + i - 1) % BUF_SIZE]
      BY <2>5, <1>1 DEF Buffered
    <3> QED BY <3>3, <3>4, <3>5, <2>1, <1>1
  <2>7. Buffered'[Count + 1] = c
    <3>1. tail + Count \in Nat /\ tail + Count < 2 * BUF_SIZE
      BY <2>5, <1>1
    <3>2. (tail + Count) % BUF_SIZE = head
      BY <3>1, <2>3, <1>1, Around
    <3>3. Buffered'[Count + 1] = buf'[(tail + (Count + 1) - 1) % BUF_SIZE]
      BY <2>5, <1>1 DEF Buffered
    <3>4. tail + (Count + 1) - 1 = tail + Count
      BY <2>5, <1>1
    <3> QED BY <3>2, <3>3, <3>4, <2>1, <1>1
  <2>8. /\ Buffered \in Seq(Chars \cup {NoChar})
        /\ Len(Buffered) = Count
        /\ DOMAIN Buffered' = 1..(Count + 1)
    <3>1. Buffered \in [1..Count -> Chars \cup {NoChar}]
      BY Zenon, <2>6 DEF Buffered
    <3> QED BY <3>1, <2>5 DEF Buffered
  <2>9. Buffered' = Append(Buffered, c)
    <3> DEFINE S == Chars \cup {NoChar}
    <3>1. /\ Append(Buffered, c) \in Seq(S)
          /\ Len(Append(Buffered, c)) = Count + 1
          /\ \A i \in 1..Count : Append(Buffered, c)[i] = Buffered[i]
          /\ Append(Buffered, c)[Count + 1] = c
      BY <2>8, AppendProperties
    <3>2. ASSUME NEW i \in 1..(Count + 1)
          PROVE  Buffered'[i] \in S /\ Buffered'[i] = Append(Buffered, c)[i]
      BY <2>5, <2>6, <2>7, <3>1
    <3>3. Buffered' = [i \in 1..(Count + 1) |-> Buffered'[i]]
      BY <2>5 DEF Buffered
    <3>4. Buffered' \in Seq(S) /\ Len(Buffered') = Count + 1
      BY <2>5, <3>2, <3>3
    <3> QED BY <3>1, <3>2, <3>4, SeqEqual
  <2> QED BY <2>5, <2>8, <2>9, <1>1 DEF Fifo!PutChar
<1> QED BY <1>2, <1>3

\* kbd_buf_get takes the oldest character.
LEMMA GetIsHead ==
  ASSUME KbdTypeOK, kbd_buf_get
  PROVE  Fifo!GetChar
<1> DEFINE next == (tail + 1) % BUF_SIZE
<1>1. /\ BUF_SIZE \in Nat \ {0}
      /\ head \in 0..(BUF_SIZE - 1)
      /\ tail \in 0..(BUF_SIZE - 1)
      /\ tail # head
      /\ buf \in [0..(BUF_SIZE - 1) -> Chars \cup {NoChar}]
      /\ buf' = buf /\ head' = head /\ got' = buf[tail] /\ tail' = next
  BY KbdAssumption DEF KbdTypeOK, Slot, kbd_buf_get
<1>2. /\ next = IF tail + 1 = BUF_SIZE THEN 0 ELSE tail + 1
      /\ next \in 0..(BUF_SIZE - 1)
  BY CountIs DEF KbdTypeOK, Slot
<1>3. Count = IF head >= tail THEN head - tail ELSE head + BUF_SIZE - tail
  BY CountIs DEF KbdTypeOK, Count
<1>4. Count' = IF head >= next THEN head - next ELSE head + BUF_SIZE - next
  <2>1. Count' = (head + BUF_SIZE - next) % BUF_SIZE
    BY <1>1 DEF Count
  <2> QED BY <2>1, <1>1, <1>2, CountIs DEF Slot
<1> HIDE DEF next
<1>5. Count \in Nat \ {0} /\ Count' = Count - 1 /\ Count < BUF_SIZE
  BY <1>1, <1>2, <1>3, <1>4
<1>6. ASSUME NEW i \in 1..Count
      PROVE  Buffered[i] \in Chars \cup {NoChar}
  <2>1. tail + i - 1 \in Nat /\ tail + i - 1 < 2 * BUF_SIZE
    BY <1>5, <1>1
  <2>2. (tail + i - 1) % BUF_SIZE \in 0..(BUF_SIZE - 1)
    BY <2>1, <1>1, Around
  <2>3. Buffered[i] = buf[(tail + i - 1) % BUF_SIZE]
    BY DEF Buffered
  <2> QED BY <2>2, <2>3, <1>1
<1>7. Buffered[1] = buf[tail]
  <2>1. tail + 1 - 1 = tail /\ tail % BUF_SIZE = tail
    BY <1>1, Around
  <2> QED BY <2>1, <1>5 DEF Buffered
<1>8. ASSUME NEW i \in 1..(Count - 1)
      PROVE  Buffered'[i] = Buffered[i + 1]
  <2>1. Buffered'[i] = buf[(next + i - 1) % BUF_SIZE]
    BY <1>1, <1>5 DEF Buffered
  <2>2. Buffered[i + 1] = buf[(tail + (i + 1) - 1) % BUF_SIZE]
    BY <1>5 DEF Buffered
  <2>3. /\ next + i - 1 \in Nat /\ next + i - 1 < 2 * BUF_SIZE
        /\ tail + (i + 1) - 1 \in Nat /\ tail + (i + 1) - 1 < 2 * BUF_SIZE
    BY <1>1, <1>2, <1>5
  <2>4. (next + i - 1) % BUF_SIZE = (tail + (i + 1) - 1) % BUF_SIZE
    <3> DEFINE x == next + i - 1
               y == tail + (i + 1) - 1
    <3>1. i \in Nat /\ 1 <= i /\ i < BUF_SIZE
      BY <1>1, <1>5
    <3>2. /\ x % BUF_SIZE = IF x < BUF_SIZE THEN x ELSE x - BUF_SIZE
          /\ y % BUF_SIZE = IF y < BUF_SIZE THEN y ELSE y - BUF_SIZE
      <4>1. x \in Nat /\ x < 2 * BUF_SIZE /\ y \in Nat /\ y < 2 * BUF_SIZE
        BY <2>3
      <4> HIDE DEF x, y
      <4> QED BY <4>1, Around
    <3>3. CASE tail + 1 = BUF_SIZE
      <4>1. x = i - 1 /\ y = i - 1 + BUF_SIZE
        BY <3>1, <3>3, <1>1, <1>2
      <4> QED BY <4>1, <3>1, <3>2, <1>1
    <3>4. CASE tail + 1 # BUF_SIZE
      <4>1. x = y
        BY <3>1, <3>4, <1>1, <1>2
      <4> QED BY <4>1
    <3> QED BY <3>3, <3>4
  <2> QED BY <2>1, <2>2, <2>4
<1>9. /\ Buffered \in Seq(Chars \cup {NoChar})
      /\ Len(Buffered) = Count
      /\ Buffered # <<>>
      /\ Head(Buffered) = buf[tail]
  <2>1. Buffered \in [1..Count -> Chars \cup {NoChar}]
    BY <1>6 DEF Buffered
  <2>2. Buffered \in Seq(Chars \cup {NoChar}) /\ Len(Buffered) = Count
    BY <2>1, <1>5 DEF Buffered
  <2> QED BY <2>2, <1>5, <1>7
<1>10. Buffered' = Tail(Buffered)
  <2> DEFINE S == Chars \cup {NoChar}
  <2>1. /\ Tail(Buffered) \in Seq(S)
        /\ Len(Tail(Buffered)) = Count - 1
        /\ \A i \in 1..(Count - 1) : Tail(Buffered)[i] = Buffered[i + 1]
    BY <1>9, HeadTailProperties
  <2>2. ASSUME NEW i \in 1..(Count - 1)
        PROVE  Buffered'[i] \in S /\ Buffered'[i] = Tail(Buffered)[i]
    <3>1. i + 1 \in 1..Count
      BY <1>5
    <3> QED BY <3>1, <2>1, <1>6, <1>8
  <2>3. Buffered' = [i \in 1..(Count - 1) |-> Buffered'[i]]
    BY <1>5 DEF Buffered
  <2>4. Buffered' \in Seq(S) /\ Len(Buffered') = Count - 1
    BY <1>5, <2>2, <2>3
  <2> QED BY <2>1, <2>2, <2>4, SeqEqual
<1> QED BY <1>1, <1>9, <1>10 DEF Fifo!GetChar

-----------------------------------------------------------------------------

\* The inductive invariant: that of IPC, with the types of this module.
IrqIInv == IpcIInv /\ IrqTypeOK

\* To IPC, kbd_buf_get's system call and its end are steps of the scheduler alone.
LEMMA IrqOtherStep ==
  ASSUME SchedStep \/ ReadEmpty \/ NestedReturn
  PROVE  OtherStep
BY DEF SchedStep, ReadEmpty, NestedReturn, OtherStep

\* The end of a timer interrupt: the receiver that gets the message of the IRQ is
\* taken off its list and unblocked.
LEMMA IrqDeliverInv ==
  ASSUME IpcIInv, CpuInv', NEW p \in Ports, recvers[p] # <<>>, ipc_kernel_send(p)
  PROVE  IpcIInv'
<1> DEFINE h == Head(recvers[p])
<1>1. /\ h \in Kthreads
      /\ Receiving(h)
      /\ ~Sending(h)
      /\ state[h] = "blocked"
  BY HeadBlocked
<1>2. /\ recvers' = [recvers EXCEPT ![p] = Tail(@)]
      /\ buffer' = [buffer EXCEPT ![h] = IrqMessage]
      /\ thread_unblock(h)
      /\ UNCHANGED <<senders, sent, delivered, dropped>>
  BY <1>1 DEF ipc_kernel_send
<1>3. \A t \in Kthreads : state'[t] = "blocked" <=> state[t] = "blocked" /\ t # h
  <2>1. state \in [Threads -> States] /\ Kthreads \subseteq Threads
    BY DEF IpcIInv, CpuInv, MachineInv, RQInv, RQTypeOK, Threads, Workers
  <2> QED BY <2>1, <1>1, <1>2 DEF thread_unblock
<1>4. /\ recvers' \in [Ports -> Seq(Kthreads)]
      /\ Once(recvers', self)
      /\ \A v : Held(recvers', self, v) <=> Held(recvers, self, v) /\ v # h
  <2>1. Popped(Ports, Kthreads, recvers, recvers', p) /\ Once(recvers, self)
    BY <1>2, InvHeld DEF Popped
  <2>2. h = self[h]
    BY <1>1 DEF self
  <2> QED BY <2>1, <2>2, PopHeld
<1>5. /\ BlockedIffQueued'
      /\ OneNode'
      /\ \A t : Receiving(t)' <=> Held(recvers', self, t)
  <2>1. \A t \in Kthreads :
           /\ state'[t] = "blocked" <=> Held(senders', threadOf, t) \/ Held(recvers', self, t)
           /\ ~(Held(senders', threadOf, t) /\ Held(recvers', self, t))
    BY Zenon, <1>1, <1>2, <1>3, <1>4, InvHeld
  <2>2. senders' \in [Ports -> Seq(Nodes)] /\ Once(senders', threadOf)
    BY <1>2, InvHeld
  <2> QED BY <2>1, <2>2, <1>4, HeldInv
<1>6. IpcTypeOK'
  <2>1. buffer' \in [Kthreads -> Messages]
    BY Zenon, <1>1, <1>2 DEF IpcIInv, IpcInv, IpcTypeOK, Messages
  <2> QED BY Zenon, <2>1, <1>2, <1>4 DEF IpcIInv, IpcInv, IpcTypeOK, CpuInv, MachineInv
<1>7. NoMissedRendezvous'
  BY <1>2 DEF IpcIInv, IpcInv, IpcTypeOK, NoMissedRendezvous
<1>8. LastSent'
  BY Zenon, <1>2 DEF IpcIInv, LastSent
<1>9. UnwrittenWaits'
  <2> SUFFICES ASSUME NEW t \in Kthreads, buffer'[t] = Garbage
      PROVE  Receiving(t)'
    BY DEF UnwrittenWaits
  <2>1. IrqMessage # Garbage
    <3>1. <<"irq", 0>> # <<"garbage", 0>>
      OBVIOUS
    <3> QED BY <3>1 DEF IrqMessage, Garbage
  <2>2. t # h /\ buffer[t] = Garbage
    BY <2>1, <1>1, <1>2 DEF IpcIInv, IpcInv, IpcTypeOK
  <2> QED BY <2>2, <1>4, <1>5, InvHeld DEF IpcIInv, UnwrittenWaits
<1>10. ExactlyOnce'
  BY Zenon, <1>2 DEF IpcIInv, ExactlyOnce, Waiting
<1> QED BY <1>5, <1>6, <1>7, <1>8, <1>9, <1>10 DEF IpcIInv, IpcInv

\* The end of a timer interrupt, with and without a receiver to wake.
LEMMA TimerReturnInv ==
  ASSUME IrqIInv, timer_isr_return
  PROVE  IpcIInv' /\ OnceNext
<1>1. OnceNext
  BY DEF timer_isr_return, OnceNext, Resume
<1>2. CpuInv'
  BY <1>1, OnceNextInv DEF IrqIInv, IpcIInv
<1>3. CASE UNCHANGED <<rqVars, ipcVars>>
  <2>1. UNCHANGED ipcVars /\ state' = state
    BY <1>3 DEF rqVars
  <2> QED BY <2>1, <1>1, <1>2, OtherKeepsInv DEF IrqIInv
<1>4. ASSUME NEW p \in Ports, recvers[p] # <<>>, ipc_kernel_send(p)
      PROVE  IpcIInv'
  BY <1>2, <1>4, IrqDeliverInv DEF IrqIInv
<1>5. \/ UNCHANGED <<rqVars, ipcVars>>
      \/ \E p \in Ports : recvers[p] # <<>> /\ ipc_kernel_send(p)
  BY Zenon DEF timer_isr_return, irq_handler, ipc_kernel_send
<1> QED BY <1>1, <1>3, <1>4, <1>5

\* Every step keeps the invariant of IPC and is one of the scheduler.
LEMMA IrqKeepsIpc ==
  ASSUME IrqIInv, IrqNext
  PROVE  IpcIInv' /\ (OnceNext \/ UNCHANGED vars)
<1>1. CASE UNCHANGED ipcAll
  <2>1. UNCHANGED vars /\ UNCHANGED ipcVars /\ state' = state
    BY <1>1 DEF ipcAll, vars, rqVars
  <2> QED BY <2>1, CpuStutter, OtherKeepsInv DEF IrqIInv, IpcIInv
<1>2. CASE IpcNext
  BY <1>2, IpcNextInv, IpcStepIsSchedStep DEF IrqIInv
<1>3. CASE timer_isr_return
  BY <1>3, TimerReturnInv
<1>4. IpcNext \/ timer_isr_return \/ UNCHANGED ipcAll
  BY IrqOtherStep DEF IrqNext, IpcStep, IpcNext, irq_register, keyboard_interrupt, ReadChar
<1> QED BY <1>1, <1>2, <1>3, <1>4

\* Every step works the buffer through kbd_buf_put and kbd_buf_get, or not at all.
LEMMA IrqKbdStep ==
  ASSUME IrqNext
  PROVE  KbdNext \/ UNCHANGED kbdVars
BY DEF IrqNext, SchedStep, IpcStep, timer_isr_return, irq_register, keyboard_interrupt,
   ReadChar, ReadEmpty, NestedReturn, KbdNext

\* Registrations name a port, and only user threads read the keyboard.
LEMMA IrqNextInv ==
  ASSUME IrqIInv, IrqNext
  PROVE  IrqIInv'
<1>1. IpcIInv'
  BY IrqKeepsIpc
<1>2. IpcTypeOK'
  BY <1>1 DEF IpcIInv, IpcInv
<1>3. KbdTypeOK'
  <2>1. CASE UNCHANGED kbdVars
    BY <2>1 DEF IrqIInv, IrqTypeOK, KbdTypeOK, kbdVars
  <2> QED BY <2>1, IrqKbdStep, KbdNextType DEF IrqIInv, IrqTypeOK
<1>4. irq_table' \in [Irqs -> 0..NotInUse]
  <2>1. irq_table \in [Irqs -> 0..NotInUse] /\ MAX_PORTS \in Nat
    BY IpcAssumption DEF IrqIInv, IrqTypeOK
  <2>2. \A p \in 0..MAX_PORTS : p \in 0..NotInUse
    BY <2>1 DEF NotInUse
  <2>3. ASSUME NEW i \in Irqs, NEW p \in 0..MAX_PORTS, irq_register(i, p)
        PROVE  irq_table' \in [Irqs -> 0..NotInUse]
    BY <2>1, <2>2, <2>3 DEF irq_register
  <2>4. CASE irq_table' = irq_table
    BY <2>1, <2>4
  <2> QED BY <2>3, <2>4 DEF IrqNext, SchedStep, IpcStep, timer_isr_return, keyboard_interrupt,
             ReadChar, ReadEmpty, NestedReturn, irqVars
<1>5. nested' \subseteq Uthreads
  <2>1. nested \subseteq Uthreads
    BY DEF IrqIInv, IrqTypeOK
  <2>2. CASE ReadEmpty
    <3>1. Here = "handler"
      BY <2>2 DEF ReadEmpty, Yield
    <3>2. current_thread \in Uthreads
      BY <3>1, ThreadsAssumption DEF IrqIInv, IpcIInv, CpuInv, MachineInv, RQInv, RQTypeOK, KindFitsPlace,
         Here, Threads, Workers
    <3> QED BY <2>1, <2>2, <3>2 DEF ReadEmpty
  <2>3. CASE NestedReturn
    BY <2>1, <2>3 DEF NestedReturn
  <2>4. CASE nested' = nested
    BY <2>1, <2>4
  <2> QED BY <2>2, <2>3, <2>4 DEF IrqNext, SchedStep, IpcStep, timer_isr_return, irq_register,
             keyboard_interrupt, ReadChar, irqVars
<1> QED BY <1>1, <1>2, <1>3, <1>4, <1>5 DEF IrqIInv, IrqTypeOK

\* The initial state.
LEMMA IrqInitInv ==
  ASSUME IrqInit
  PROVE  IrqIInv
<1>1. IpcIInv
  BY IpcInitInv DEF IrqInit
<1>2. KbdTypeOK
  BY KbdAssumption DEF IrqInit, KbdInit, KbdTypeOK, Slot
<1>3. irq_table \in [Irqs -> 0..NotInUse] /\ nested \subseteq Uthreads
  BY IpcAssumption DEF IrqInit, NotInUse
<1> QED BY <1>1, <1>2, <1>3 DEF IrqIInv, IrqTypeOK, IpcIInv, IpcInv

\* The invariant holds throughout.
THEOREM IrqAlways == IrqSpec => []IrqIInv
<1>1. IrqIInv /\ [IrqNext]_irqAll => IrqIInv'
  <2>1. ASSUME IrqIInv, UNCHANGED irqAll PROVE IrqIInv'
    <3>1. /\ UNCHANGED vars /\ UNCHANGED ipcVars /\ state' = state
          /\ UNCHANGED <<buf, head, tail, got, irq_table, nested>>
      BY <2>1 DEF irqAll, ipcAll, vars, rqVars, kbdVars, irqVars
    <3>2. IpcIInv'
      BY <2>1, <3>1, CpuStutter, OtherKeepsInv DEF IrqIInv, IpcIInv
    <3> QED BY <2>1, <3>1, <3>2 DEF IrqIInv, IrqTypeOK, KbdTypeOK, IpcIInv, IpcInv
  <2> QED BY <2>1, IrqNextInv
<1> QED BY <1>1, IrqInitInv, PTL DEF IrqSpec

\* The wait lists stay exact with messages sent from interrupt context.
THEOREM WaitListsSurviveIrqs == IrqSpec => []IrqInv
<1>1. IrqIInv => IrqInv
  BY DEF IrqIInv, IpcIInv, IrqInv
<1> QED BY <1>1, IrqAlways, PTL

\* No message between threads is lost or doubled because of an interrupt, and
\* calls stay synchronous.
THEOREM IrqsKeepMessages == IrqSpec => []ExactlyOnce /\ []Synchronous
<1>1. IrqIInv => ExactlyOnce
  BY DEF IrqIInv, IpcIInv
<1>2. IrqIInv => Synchronous
  BY InvSynchronous DEF IrqIInv
<1> QED BY <1>1, <1>2, IrqAlways, PTL

\* The ring buffer of kbd_buf.c, of any size, is a bounded FIFO: what is typed is
\* read once and in order, and only a character that does not fit is lost.
THEOREM KeyboardIsFifo == IrqSpec => ImplementsFifo
<1>1. IrqInit => Fifo!CQInit
  <2> SUFFICES ASSUME IrqInit PROVE Fifo!CQInit
    OBVIOUS
  <2>1. head = 0 /\ tail = 0 /\ got = NoChar /\ BUF_SIZE \in Nat \ {0}
    BY KbdAssumption DEF IrqInit, KbdInit
  <2>2. Count = 0
    <3>1. 0 \in Slot
      BY <2>1 DEF Slot
    <3> QED BY <2>1, <3>1, CountIs DEF Count
  <2>3. Buffered = <<>>
    BY <2>2 DEF Buffered
  <2> QED BY <2>1, <2>3 DEF Fifo!CQInit, NoChar, Fifo!NoChar
<1>2. IrqIInv /\ [IrqNext]_irqAll => [Fifo!CQNext]_<<Buffered, got>>
  <2> SUFFICES ASSUME IrqIInv, [IrqNext]_irqAll PROVE [Fifo!CQNext]_<<Buffered, got>>
    OBVIOUS
  <2>1. KbdTypeOK
    BY DEF IrqIInv, IrqTypeOK
  <2>2. CASE UNCHANGED kbdVars
    BY <2>2 DEF kbdVars, Buffered, Count
  <2>3. CASE kbd_buf_get
    BY <2>1, <2>3, GetIsHead DEF Fifo!CQNext
  <2>4. ASSUME NEW c \in Chars, kbd_buf_put(c) PROVE [Fifo!CQNext]_<<Buffered, got>>
    BY <2>1, <2>4, PutIsAppend DEF Fifo!CQNext
  <2>5. KbdNext \/ UNCHANGED kbdVars
    BY IrqKbdStep DEF irqAll
  <2> QED BY <2>2, <2>3, <2>4, <2>5 DEF KbdNext
<1> QED BY <1>1, <1>2, IrqAlways, PTL DEF IrqSpec, ImplementsFifo, Fifo!CQSpec
=============================================================================
