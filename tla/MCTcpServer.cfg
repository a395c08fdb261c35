SPECIFICATION FairSpec
CONSTANTS
  Conns = {c1, c2, c3}
  NoConn = NoConn
  NoHandler = NoHandler
  MaxConn = 2
  NSlots = 3
  MaxFd = 9
INVARIANTS
  Inv
  FdsAreOwned
PROPERTIES
  TimeoutIsExact
  ImplementsWheel
  SilentIsClosed
