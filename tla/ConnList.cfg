SPECIFICATION Spec

CONSTANTS
  c1 = c1
  c2 = c2
  c3 = c3
  Conns <- MCConns
  Fds = {1, 2, 3}
  NULL = NULL
  Listener = Listener
  MaxEvents = 3

INVARIANTS
  TypeOK
  NoUseAfterFree
  MirrorImage
  OneOwner
  AllClosed

PROPERTIES
  RecencyOrder
  Stops
