SPECIFICATION FairSpec

CONSTANTS
  c1 = c1
  c2 = c2
  c3 = c3
  Conns <- MCConns
  NoConn = NoConn
  MaxClients = 2
  Packets = {"command", "malformed", "exit"}
  CanVanish = FALSE
  MaxSends = 2

INVARIANTS
  CountExact
  NoPhantomRequest

PROPERTIES
  BusyOnlyWhenFull
  SlotsReturned
