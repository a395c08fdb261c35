SPECIFICATION FairSpec
CONSTANTS
  h1 = h1
  h2 = h2
  h3 = h3
  bad = bad
  NoHandler = NoHandler
  Handlers <- MCHandlers
  BadFd <- MCBadFd
  Talkers <- MCTalkers
  Writers <- MCWriters
  MaxEvs = 2
INVARIANTS
  Inv
  EventsReachTheirHandler
PROPERTIES
  ReadyIsServed
CHECK_DEADLOCK FALSE
