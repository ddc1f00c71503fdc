SPECIFICATION FairSpec

CONSTANTS
  c1 = c1
  c2 = c2
  c3 = c3
  Conns <- MCConns
  NoConn = NoConn
  MaxClients = 2
  Packets = {"command", "panic", "endless", "exit"}
  CanVanish = TRUE
  MaxSends = 1

INVARIANTS
  TypeOK
  AdmissionLimited
  HolderIsInside

PROPERTIES
  Answered
