SPECIFICATION EchoSpec
CONSTANTS
  Kthreads = {s1, s2, s3, c1, c2}
  Services = {s1, s2, s3}
  Clients = {c1, c2}
  Uthreads = {}
  idle = idle
  Repaired = TRUE
  MAX_PORTS = 2
  IPC_MSG_MAX = 2
  Lengths = {2}
  MaxSends = 4
  MAX_SERVICES = 2
  NAME_MAX = 3
  Names <- Words
  MaxFailures = 1
INVARIANTS
  ShortNamesResolve
  EchoAnswered
PROPERTIES
  UsesIpc
  PortsStay
  ClientsFinish
