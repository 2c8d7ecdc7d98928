------------------------------ MODULE EchoProofs -----------------------------
(***************************************************************************)
(* Proofs about module Echo, for any numbers of services, clients, ports   *)
(* and names: the table of bus.c only grows, a name keeps its port, every  *)
(* port a thread holds exists, and so the threads of main.c use IPC as     *)
(* module Ipc allows.                                                      *)
(***************************************************************************)
EXTENDS Echo, IpcProofs, SequenceTheorems, WellFoundedInduction

\* A non-empty set of naturals has a least member, and Min is it.
LEMMA Least ==
  ASSUME NEW I, I \subseteq Nat, I # {}
  PROVE  Min(I) \in I /\ \A i \in I : Min(I) <= i
<1> DEFINE R == OpToRel(<, Nat)
<1>1. \A x, y \in Nat : <<y, x>> \in R <=> y < x
  BY DEF OpToRel
<1> HIDE DEF R
<1>2. \E x \in I : \A y \in I : ~(<<y, x>> \in R)
  <2>1. IsWellFoundedOn(R, Nat)
    BY NatLessThanWellFounded DEF R
  <2> QED BY <2>1, WFMin
<1>3. \E x \in I : \A y \in I : x <= y
  <2>1. PICK x \in I : \A y \in I : ~(<<y, x>> \in R)
    BY <1>2
  <2>2. \A y \in I : y \in Nat /\ x \in Nat
    OBVIOUS
  <2>3. \A y \in I : ~(y < x)
    BY <2>1, <2>2, <1>1
  <2>4. \A y \in I : x <= y
    BY <2>2, <2>3
  <2> QED BY <2>4
<1> QED BY <1>3 DEF Min

\* A name as bus.c stores it.
Entries == [name : Seq(STRING), port : Nat]

\* What fits into service_t.name is stored as it is, and the rest is cut.
LEMMA StoredName ==
  ASSUME NEW n \in Seq(STRING)
  PROVE  /\ Stored(n) \in Seq(STRING)
         /\ Len(n) < NAME_MAX => Stored(n) = n
<1>1. Len(n) \in Nat /\ NAME_MAX \in Nat \ {0}
  BY BusAssumption, LenProperties
<1> DEFINE k == IF Len(n) < NAME_MAX - 1 THEN Len(n) ELSE NAME_MAX - 1
<1>2. k \in 0..Len(n)
  BY <1>1
<1>3. Stored(n) \in Seq(STRING) /\ Len(Stored(n)) = k
      /\ \A i \in 1..k : Stored(n)[i] = n[i]
  BY <1>1, <1>2 DEF Stored
<1>4. Len(n) < NAME_MAX => k = Len(n)
  BY <1>1
<1> QED BY <1>3, <1>4, SeqEqual

\* The table of bus.c: ports are given out in order, entry i - 1 has port i - 1,
\* and each entry belongs to a registration, whose name it holds as far as it
\* fits.
BusOK ==
  /\ services \in Seq(Entries)
  /\ given \in Seq(Entries)
  /\ next_port = Len(services)
  /\ Len(services) <= MAX_SERVICES
  /\ Len(given) = Len(services)
  /\ \A i \in 1..Len(services) :
       /\ services[i].port = i - 1
       /\ given[i].port = i - 1
       /\ services[i].name = Stored(given[i].name)

\* The entries with name n of a list of entries.
Hits(list, n) == {i \in 1..Len(list) : list[i].name = n}

\* The port of the first of them.
FirstPort(list, n) == IF Hits(list, n) = {} THEN NotFound ELSE list[Min(Hits(list, n))].port

\* A lookup returns the port of the first entry with its name.
LEMMA LookupIsFirst ==
  ASSUME services \in Seq(Entries), given \in Seq(Entries), NEW n
  PROVE  bus_lookup(n) = FirstPort(services, n) /\ Expected(n) = FirstPort(given, n)
<1>1. ASSUME NEW list \in Seq(Entries), Hits(list, n) # {}
      PROVE  Min(Hits(list, n)) # 0
  <2>1. Hits(list, n) \subseteq 1..Len(list) /\ Len(list) \in Nat
    BY DEF Hits
  <2>2. Hits(list, n) \subseteq Nat
    BY <2>1
  <2> QED BY <1>1, <2>1, <2>2, Least
<1>2. bus_lookup(n) = FirstPort(services, n)
  BY <1>1 DEF bus_lookup, FirstPort, SelectInSeq, Hits
<1>3. Expected(n) = FirstPort(given, n)
  BY <1>1 DEF Expected, FirstPort, SelectInSeq, Hits
<1> QED BY <1>2, <1>3

\* The port of a lookup that finds something.
LEMMA LookupPort ==
  ASSUME BusOK, NEW n
  PROVE  /\ bus_lookup(n) = NotFound <=> Hits(services, n) = {}
         /\ bus_lookup(n) # NotFound =>
              /\ Min(Hits(services, n)) \in Hits(services, n)
              /\ \A i \in Hits(services, n) : Min(Hits(services, n)) <= i
              /\ bus_lookup(n) = Min(Hits(services, n)) - 1
              /\ bus_lookup(n) \in 0..(next_port - 1)
<1>1. bus_lookup(n) = FirstPort(services, n)
  BY LookupIsFirst DEF BusOK
<1>2. CASE Hits(services, n) = {}
  BY <1>1, <1>2 DEF FirstPort
<1>3. CASE Hits(services, n) # {}
  <2> DEFINE m == Min(Hits(services, n))
  <2>1. Len(services) \in Nat /\ Hits(services, n) \subseteq 1..Len(services)
    BY DEF BusOK, Hits
  <2>2. m \in Hits(services, n) /\ \A i \in Hits(services, n) : m <= i
    <3>1. Hits(services, n) \subseteq Nat
      BY <2>1
    <3> QED BY <3>1, <1>3, Least
  <2>3. m \in 1..Len(services) /\ services[m].port = m - 1
    BY <2>1, <2>2 DEF BusOK
  <2> HIDE DEF m
  <2>4. bus_lookup(n) = m - 1
    BY <1>1, <1>3, <2>3 DEF FirstPort, m
  <2>5. m - 1 \in 0..(next_port - 1) /\ m - 1 # NotFound
    BY <2>1, <2>3 DEF BusOK, NotFound
  <2> QED BY <2>2, <2>4, <2>5, <1>3 DEF m
<1> QED BY <1>2, <1>3

\* A registration keeps the table as it is and adds an entry with the next port.
LEMMA RegisterKeepsBus ==
  ASSUME BusOK, NEW n \in Names, bus_register(n)
  PROVE  /\ BusOK'
         /\ Len(services') = Len(services) + 1
         /\ \A i \in 1..Len(services) : services'[i] = services[i]
<1>1. /\ Len(services) \in Nat
      /\ MAX_SERVICES \in Nat
      /\ n \in Seq(STRING)
      /\ Stored(n) \in Seq(STRING)
  BY BusAssumption, StoredName DEF BusOK
<1> DEFINE e == [name |-> Stored(n), port |-> next_port]
           g == [name |-> n, port |-> next_port]
<1>2. e \in Entries /\ g \in Entries
  BY <1>1 DEF BusOK, Entries
<1>3. /\ e.port = next_port
      /\ g.port = next_port
      /\ e.name = Stored(g.name)
  OBVIOUS
<1>4. services' = Append(services, e) /\ given' = Append(given, g)
  BY DEF bus_register
<1> HIDE DEF e, g
<1>5. /\ services' \in Seq(Entries)
      /\ Len(services') = Len(services) + 1
      /\ \A i \in 1..Len(services) : services'[i] = services[i]
      /\ services'[Len(services) + 1] = e
  BY <1>2, <1>4 DEF BusOK
<1>6. /\ given' \in Seq(Entries)
      /\ Len(given') = Len(services) + 1
      /\ \A i \in 1..Len(services) : given'[i] = given[i]
      /\ given'[Len(services) + 1] = g
  BY <1>2, <1>4 DEF BusOK
<1>7. next_port' = Len(services') /\ Len(services') <= MAX_SERVICES
  BY <1>1, <1>5 DEF BusOK, bus_register
<1>8. ASSUME NEW i \in 1..Len(services')
      PROVE  /\ services'[i].port = i - 1
             /\ given'[i].port = i - 1
             /\ services'[i].name = Stored(given'[i].name)
  <2>1. CASE i \in 1..Len(services)
    BY <2>1, <1>5, <1>6 DEF BusOK
  <2>2. CASE i = Len(services) + 1
    BY <2>2, <1>1, <1>3, <1>5, <1>6 DEF BusOK
  <2> QED BY <2>1, <2>2, <1>1, <1>5
<1>9. \A x, y : (x = y => Stored(x)' = Stored(y)) 
  BY DEF Stored
<1>10. BusOK'
  BY <1>1, <1>5, <1>6, <1>7, <1>8, <1>9 DEF BusOK
<1> QED BY <1>5, <1>10

\* A step that leaves the table alone, or adds an entry at its end, leaves every
\* name with the port it has.
LEMMA GrowthKeepsPorts ==
  ASSUME BusOK, BusOK', NEW n,
         Len(services') >= Len(services),
         \A i \in 1..Len(services) : services'[i] = services[i],
         bus_lookup(n) # NotFound
  PROVE  bus_lookup(n)' = bus_lookup(n) /\ next_port' > bus_lookup(n)
<1> DEFINE H == Hits(services, n)
           J == Hits(services', n)
<1>1. Len(services) \in Nat /\ Len(services') \in Nat
  BY DEF BusOK
<1>2. H \subseteq J /\ \A j \in J : j \in H \/ j > Len(services)
  BY <1>1 DEF Hits
<1>3. /\ Min(H) \in H
      /\ \A i \in H : Min(H) <= i
      /\ bus_lookup(n) = Min(H) - 1
      /\ bus_lookup(n) \in 0..(next_port - 1)
  BY LookupPort
<1>4. H \subseteq 1..Len(services) /\ J \subseteq 1..Len(services')
  BY DEF Hits
<1>5. Hits(services, n)' = J
  BY DEF Hits
<1>6. J # {}
  BY <1>2, <1>3
<1>7. /\ bus_lookup(n)' # NotFound
      /\ Min(J) \in J
      /\ \A i \in J : Min(J) <= i
      /\ bus_lookup(n)' = Min(J) - 1
  <2>1. /\ (bus_lookup(n) = NotFound <=> Hits(services, n) = {})'
        /\ (bus_lookup(n) # NotFound =>
              /\ Min(Hits(services, n)) \in Hits(services, n)
              /\ \A i \in Hits(services, n) : Min(Hits(services, n)) <= i
              /\ bus_lookup(n) = Min(Hits(services, n)) - 1)'
    BY LookupPort, PTL
  <2> QED BY <2>1, <1>5, <1>6 DEF NotFound
<1> HIDE DEF H, J
<1>8. Min(J) = Min(H)
  <2> DEFINE a == Min(H)
             b == Min(J)
  <2>1. a \in H /\ b \in J /\ (\A i \in H : a <= i) /\ (\A i \in J : b <= i)
    BY <1>3, <1>7
  <2> HIDE DEF a, b
  <2>2. a \in 1..Len(services) /\ b \in 1..Len(services')
    BY <2>1, <1>4
  <2>3. b <= a
    BY <2>1, <1>2
  <2>4. b \in H
    BY <2>1, <2>2, <2>3, <1>1, <1>2
  <2>5. a <= b
    BY <2>1, <2>4
  <2>6. a = b
    BY <2>2, <2>3, <2>5, <1>1
  <2> QED BY <2>6 DEF a, b
<1>9. bus_lookup(n)' = bus_lookup(n)
  BY <1>3, <1>7, <1>8
<1>10. next_port \in Nat /\ next_port' \in Nat /\ next_port' >= next_port
  BY <1>1 DEF BusOK
<1>11. next_port' > bus_lookup(n)
  BY <1>3, <1>10
<1> QED BY <1>9, <1>11

\* With names that fit, the table and the registrations have the same names.
LEMMA BusResolves ==
  ASSUME BusOK
  PROVE  ShortNamesResolve
<1> SUFFICES ASSUME \A i \in 1..Len(given) : Len(given[i].name) < NAME_MAX,
                    NEW n \in Names
             PROVE  bus_lookup(n) = Expected(n)
  BY DEF ShortNamesResolve
<1>1. bus_lookup(n) = FirstPort(services, n) /\ Expected(n) = FirstPort(given, n)
  BY LookupIsFirst DEF BusOK
<1>2. ASSUME NEW i \in 1..Len(services)
      PROVE  services[i].name = given[i].name /\ services[i].port = given[i].port
  <2>1. given[i] \in Entries /\ Len(given[i].name) < NAME_MAX
    BY DEF BusOK
  <2>2. given[i].name \in Seq(STRING)
    BY <2>1 DEF Entries
  <2>3. Stored(given[i].name) = given[i].name
    BY <2>1, <2>2, StoredName
  <2> QED BY <2>3 DEF BusOK
<1>3. Hits(services, n) = Hits(given, n)
  BY <1>2 DEF Hits, BusOK
<1>4. CASE Hits(services, n) = {}
  BY <1>1, <1>3, <1>4 DEF FirstPort
<1>5. CASE Hits(services, n) # {}
  <2>1. Hits(services, n) \subseteq 1..Len(services) /\ Len(services) \in Nat
    BY DEF Hits, BusOK
  <2>2. Hits(services, n) \subseteq Nat
    BY <2>1
  <2>3. Min(Hits(services, n)) \in 1..Len(services)
    BY <2>1, <2>2, <1>5, Least
  <2> QED BY <1>1, <1>2, <1>3, <1>5, <2>3 DEF FirstPort
<1> QED BY <1>4, <1>5

-----------------------------------------------------------------------------

Pcs == {"start", "send", "recv", "exit"}

\* A thread that talks has a port of ipc.c.
PcOK ==
  /\ pc \in [Kthreads -> Pcs]
  /\ handle \in [Kthreads -> Ports \cup {NotFound}]
  /\ \A t \in Kthreads : pc[t] \in {"send", "recv"} => handle[t] \in Ports

\* The inductive invariant.
EchoIInv == IpcIInv /\ BusOK /\ PcOK

\* The table of bus.c changes at its end only.
Grows ==
  /\ Len(services') >= Len(services)
  /\ \A i \in 1..Len(services) : services'[i] = services[i]

\* A step that does not call bus_register.
LEMMA SameBus ==
  ASSUME BusOK, UNCHANGED busVars
  PROVE  BusOK' /\ Grows
<1>1. services' = services /\ next_port' = next_port /\ given' = given
  BY DEF busVars
<1>2. Len(services) \in Nat
  BY DEF BusOK
<1> QED BY <1>1, <1>2 DEF BusOK, Grows, Stored

\* A call that returns with a port that exists, or that leads to the exit.
LEMMA CallKeepsPc ==
  ASSUME EchoIInv, NEW c, NEW d \in Pcs, Calls(c, d), UNCHANGED handle,
         d \in {"send", "recv"} => handle[current_thread] \in Ports
  PROVE  PcOK'
<1>1. current_thread \in Kthreads
  BY CallerRuns DEF EchoIInv, Calls
<1>2. pc' = [pc EXCEPT ![current_thread] = d]
  BY DEF Calls
<1> QED BY <1>1, <1>2 DEF EchoIInv, PcOK, Ports

\* The port of a new registration, or of a lookup, goes to the thread.
LEMMA OpenKeepsPc ==
  ASSUME EchoIInv, NEW n, NEW port \in Ports \cup {NotFound}, NEW next \in Pcs,
         Opens(n, port, next)
  PROVE  PcOK' /\ UNCHANGED ipcAll
<1>1. current_thread \in Kthreads
  BY CallerRuns DEF EchoIInv, Opens, Calls
<1>2. /\ pc' = [pc EXCEPT ![current_thread] = IF port = NotFound THEN "exit" ELSE next]
      /\ handle' = [handle EXCEPT ![current_thread] = port]
  BY DEF Opens, Calls
<1>3. UNCHANGED ipcAll
  BY DEF Opens
<1>4. PcOK'
  BY <1>1, <1>2 DEF EchoIInv, PcOK, Pcs, Ports
<1> QED BY <1>3, <1>4

\* bus_register gives out ports that exist.
LEMMA RegisterStep ==
  ASSUME EchoIInv, NEW n \in Names, Register(n)
  PROVE  UNCHANGED ipcAll /\ BusOK' /\ PcOK' /\ Grows
<1>1. CASE bus_register(n) /\ Opens(n, next_port, "recv")
  <2>1. next_port \in Ports
    <3>1. /\ next_port \in Nat
          /\ next_port < MAX_SERVICES
          /\ MAX_SERVICES \in Nat
      BY <1>1, BusAssumption DEF EchoIInv, BusOK, bus_register
    <3>2. MAX_SERVICES <= MAX_PORTS /\ MAX_PORTS \in Nat
      BY EchoAssumption, IpcAssumption
    <3> QED BY <3>1, <3>2 DEF Ports
  <2>2. PcOK' /\ UNCHANGED ipcAll
    BY <1>1, <2>1, OpenKeepsPc DEF Pcs
  <2>3. /\ BusOK'
        /\ Len(services') = Len(services) + 1
        /\ \A i \in 1..Len(services) : services'[i] = services[i]
    BY <1>1, RegisterKeepsBus DEF EchoIInv
  <2>4. Len(services) \in Nat
    BY DEF EchoIInv, BusOK
  <2> QED BY <2>2, <2>3, <2>4 DEF Grows
<1>2. CASE Opens(n, NotFound, "recv") /\ UNCHANGED busVars
  <2>1. PcOK' /\ UNCHANGED ipcAll
    BY <1>2, OpenKeepsPc DEF Pcs
  <2> QED BY <2>1, <1>2, SameBus DEF EchoIInv
<1> QED BY <1>1, <1>2 DEF Register

\* bus_lookup returns one of them, or none.
LEMMA LookupStep ==
  ASSUME EchoIInv, NEW n \in Names, Lookup(n)
  PROVE  UNCHANGED ipcAll /\ BusOK' /\ PcOK' /\ Grows
<1>1. bus_lookup(n) \in Ports \cup {NotFound}
  <2>1. bus_lookup(n) # NotFound => bus_lookup(n) \in 0..(next_port - 1)
    BY LookupPort DEF EchoIInv
  <2>2. next_port \in Nat /\ next_port <= MAX_SERVICES /\ MAX_SERVICES \in Nat
    BY BusAssumption DEF EchoIInv, BusOK
  <2>3. MAX_SERVICES <= MAX_PORTS /\ MAX_PORTS \in Nat
    BY EchoAssumption, IpcAssumption
  <2>4. 0..(next_port - 1) \subseteq Ports
    BY <2>2, <2>3 DEF Ports
  <2> QED BY <2>1, <2>4
<1>2. PcOK' /\ UNCHANGED ipcAll
  BY <1>1, OpenKeepsPc DEF Lookup, Pcs
<1> QED BY <1>2, SameBus DEF Lookup, EchoIInv

\* Every step of the threads of main.c is a step of IPC, of the scheduler below
\* it, or of the bus alone.
LEMMA EchoStep ==
  ASSUME EchoIInv, EchoNext
  PROVE  (IpcNext \/ UNCHANGED ipcAll) /\ BusOK' /\ PcOK' /\ Grows
<1>1. CASE BootStep \/ ResumeStep \/ TickStep
  <2>1. UNCHANGED busVars /\ UNCHANGED echoVars
    BY <1>1 DEF BootStep, ResumeStep, TickStep
  <2>2. PcOK'
    BY <2>1 DEF EchoIInv, PcOK, echoVars
  <2>3. OtherStep \/ QuietIsrReturn
    BY <1>1 DEF BootStep, ResumeStep, TickStep, OtherStep
  <2> QED BY <2>1, <2>2, <2>3, SameBus DEF IpcNext, EchoIInv
<1>2. ASSUME NEW n \in Names, Register(n) \/ Lookup(n)
      PROVE  (IpcNext \/ UNCHANGED ipcAll) /\ BusOK' /\ PcOK' /\ Grows
  BY <1>2, RegisterStep, LookupStep
<1>3. CASE Send
  <2>1. current_thread \in Kthreads /\ pc[current_thread] = "send"
    BY <1>3, CallerRuns DEF Send, Calls, EchoIInv
  <2>2. handle[current_thread] \in Ports
    BY <2>1 DEF EchoIInv, PcOK
  <2>3. IpcNext
    BY <1>3, <2>2 DEF Send, IpcNext
  <2>4. PcOK'
    BY <1>3, <2>2, CallKeepsPc DEF Send, Pcs
  <2>5. UNCHANGED busVars
    BY <1>3 DEF Send
  <2> QED BY <2>3, <2>4, <2>5, SameBus DEF EchoIInv
<1>4. CASE Receive
  <2>1. current_thread \in Kthreads /\ pc[current_thread] = "recv"
    BY <1>4, CallerRuns DEF Receive, Calls, EchoIInv
  <2>2. handle[current_thread] \in Ports
    BY <2>1 DEF EchoIInv, PcOK
  <2>3. IpcNext
    BY <1>4, <2>2 DEF Receive, IpcNext
  <2>4. PcOK'
    <3>1. (IF current_thread \in Clients THEN "exit" ELSE "send") \in Pcs
      BY DEF Pcs
    <3> QED BY <1>4, <2>2, <3>1, CallKeepsPc DEF Receive
  <2>5. UNCHANGED busVars
    BY <1>4 DEF Receive
  <2> QED BY <2>3, <2>4, <2>5, SameBus DEF EchoIInv
<1>5. CASE Leave
  <2>1. PcOK'
    BY <1>5, CallKeepsPc DEF Leave, Pcs
  <2>2. OtherStep /\ UNCHANGED busVars
    BY <1>5 DEF Leave, OtherStep
  <2> QED BY <2>1, <2>2, SameBus DEF EchoIInv, IpcNext
<1> QED BY <1>1, <1>2, <1>3, <1>4, <1>5 DEF EchoNext, ThreadStep

\* Before the first registration the table is empty.
LEMMA EchoInitInv ==
  ASSUME EchoInit
  PROVE  EchoIInv
<1>1. IpcIInv
  BY IpcInitInv DEF EchoInit
<1>2. services = <<>> /\ next_port = 0 /\ given = <<>>
  BY DEF EchoInit, BusInit
<1>3. services \in Seq(Entries) /\ given \in Seq(Entries) /\ Len(services) = 0 /\ Len(given) = 0
  BY <1>2
<1>4. BusOK
  BY <1>2, <1>3, BusAssumption DEF BusOK
<1>5. PcOK
  BY DEF EchoInit, PcOK, Pcs
<1> QED BY <1>1, <1>4, <1>5 DEF EchoIInv

\* A step of the whole system is a step of IPC or leaves IPC alone, and keeps
\* the invariant.
LEMMA EchoStepInv ==
  ASSUME EchoIInv, [EchoNext]_echoAll
  PROVE  EchoIInv' /\ [IpcNext]_ipcAll /\ Grows
<1>1. /\ IpcNext \/ UNCHANGED ipcAll
      /\ BusOK' /\ PcOK' /\ Grows
  <2>1. CASE EchoNext
    BY <2>1, EchoStep
  <2>2. CASE UNCHANGED echoAll
    <3>1. UNCHANGED ipcAll /\ UNCHANGED busVars /\ UNCHANGED pc /\ UNCHANGED handle
      BY <2>2 DEF echoAll, echoVars
    <3>2. PcOK'
      BY <3>1 DEF EchoIInv, PcOK
    <3> QED BY <3>1, <3>2, SameBus DEF EchoIInv
  <2> QED BY <2>1, <2>2
<1>2. ASSUME UNCHANGED ipcAll PROVE IpcIInv'
  <2>1. UNCHANGED vars /\ UNCHANGED ipcVars /\ state' = state
    BY <1>2 DEF ipcAll, vars, rqVars
  <2> QED BY <2>1, CpuStutter, OtherKeepsInv DEF EchoIInv, IpcIInv
<1>3. IpcIInv'
  BY <1>1, <1>2, IpcNextInv DEF EchoIInv
<1> QED BY <1>1, <1>3 DEF EchoIInv

-----------------------------------------------------------------------------

\* The table, the ports the threads hold and the wait lists stay well formed.
THEOREM EchoAlways == EchoSpec => []EchoIInv
<1>1. EchoIInv /\ [EchoNext]_echoAll => EchoIInv'
  BY EchoStepInv
<1> QED BY <1>1, EchoInitInv, PTL DEF EchoSpec

\* The threads of main.c use IPC as module Ipc allows, on ports that exist: all
\* that is proved of IpcSpec holds of them.
THEOREM EchoUsesIpc == EchoSpec => UsesIpc
<1>1. EchoInit => IpcInit
  BY DEF EchoInit
<1>2. EchoIInv /\ [EchoNext]_echoAll => [IpcNext]_ipcAll
  BY EchoStepInv
<1> QED BY <1>1, <1>2, EchoAlways, PTL DEF EchoSpec, UsesIpc, IpcSpec

\* A name that fits resolves to the service that registered it first.
THEOREM NamesResolve == EchoSpec => []ShortNamesResolve
<1>1. EchoIInv => ShortNamesResolve
  BY BusResolves DEF EchoIInv
<1> QED BY <1>1, EchoAlways, PTL

\* A name keeps its port, and the port is not given out again.
THEOREM NamesKeepPorts == EchoSpec => PortsStay
<1> DEFINE A == \A n \in Names :
                  Resolved[n] # NotFound =>
                    Resolved'[n] = Resolved[n] /\ next_port' > Resolved[n]
<1>1. EchoIInv /\ EchoIInv' /\ [EchoNext]_echoAll => [A]_busVars
  BY EchoStepInv, GrowthKeepsPorts DEF EchoIInv, Grows, Resolved
<1> QED BY <1>1, EchoAlways, PTL DEF EchoSpec, PortsStay
=============================================================================
