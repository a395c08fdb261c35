SPECIFICATION FairSpec
CONSTANTS
  h1 = h1
  h2 = h2
  h3 = h3
  bad = bad
  NoHandler = NoHandler
  Handlers <- MCHandlers
  FdOf <- MCFdOf
INVARIANTS
  Inv
  ReadinessIsOwn
  ScanCoversDue
PROPERTIES
  ReadyIsServed
CHECK_DEADLOCK FALSE
