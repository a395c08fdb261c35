SPECIFICATION BufferSpec
CONSTANTS
  o1 = o1
  o2 = o2
  cr = cr
  lf = lf
  x = x
  y = y
  Junk = Junk
  NoObserver = NoObserver
  Observers <- MCObservers
  InitialSize = 2
  ExtraBufSize = 3
  Streams <- MCStreams
  Patterns <- MCPatterns
INVARIANT
  HeaderOrder
CHECK_DEADLOCK FALSE
