--------------------------------- MODULE Bus ---------------------------------
(***************************************************************************)
(* bus.c: the registry of service names.  A name is the sequence of its    *)
(* characters, without the terminating 0.  Each call holds bus_lock and is *)
(* one step.                                                               *)
(***************************************************************************)
EXTENDS Integers, SequencesExt

CONSTANTS
  MAX_SERVICES,
  NAME_MAX,    \* size of service_t.name
  Names        \* names that services register under and clients look up

ASSUME BusAssumption ==
  /\ MAX_SERVICES \in Nat
  /\ NAME_MAX \in Nat \ {0}
  /\ Names \subseteq Seq(STRING)

VARIABLES
  services,  \* services[0 .. num_services - 1], as [name, port]
  next_port,
  given      \* history: the name and port of each registration

busVars == <<services, next_port, given>>

BusInit == services = <<>> /\ next_port = 0 /\ given = <<>>

\* What the loop of bus_register copies; the rest of name[] is 0 from the start.
Stored(name) == SubSeq(name, 1, IF Len(name) < NAME_MAX - 1 THEN Len(name) ELSE NAME_MAX - 1)

\* Mutant: new services come first.
bus_register_AtFront(name) ==
  /\ Len(services) < MAX_SERVICES
  /\ services' = <<[name |-> Stored(name), port |-> next_port]>> \o services
  /\ next_port' = next_port + 1
  /\ given' = Append(given, [name |-> name, port |-> next_port])

\* A full table refuses, and nothing changes.
bus_register(name) ==
  /\ Len(services) < MAX_SERVICES
  /\ services' = Append(services, [name |-> Stored(name), port |-> next_port])
  /\ next_port' = next_port + 1
  /\ given' = Append(given, [name |-> name, port |-> next_port])

NotFound == -1

\* Mutant: the comparison ends with the name looked up.
bus_lookup_Prefix(name) ==
  LET i == SelectInSeq(services, LAMBDA s : IsPrefix(name, s.name))
  IN  IF i = 0 THEN NotFound ELSE services[i].port

\* The first entry with this name.
bus_lookup(name) ==
  LET i == SelectInSeq(services, LAMBDA s : s.name = name)
  IN  IF i = 0 THEN NotFound ELSE services[i].port

-----------------------------------------------------------------------------

\* What a lookup must return: the port given to the first service of the name.
Expected(name) ==
  LET i == SelectInSeq(given, LAMBDA g : g.name = name)
  IN  IF i = 0 THEN NotFound ELSE given[i].port

\* Names that fit into service_t.name with their terminator resolve to their
\* own service, as long as no longer name was registered.
ShortNamesResolve ==
  (\A i \in 1..Len(given) : Len(given[i].name) < NAME_MAX) =>
     \A name \in Names : bus_lookup(name) = Expected(name)

\* What each name resolves to.
Resolved == [n \in Names |-> bus_lookup(n)]

\* A port that was given out stays with its name, and is not given out again.
PortsStay ==
  [][\A n \in Names :
       Resolved[n] # NotFound => Resolved'[n] = Resolved[n] /\ next_port' > Resolved[n]]_busVars
=============================================================================
