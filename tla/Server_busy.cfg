SPECIFICATION Spec

CONSTANTS
  c1 = c1
  c2 = c2
  c3 = c3
  Conns <- MCConns
  NoConn = NoConn
  MaxClients = 2
  Packets = {"command", "exit"}
  CanVanish = TRUE
  MaxSends = 1

PROPERTIES
  BusyOnlyWhenFull
