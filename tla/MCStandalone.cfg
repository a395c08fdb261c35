SPECIFICATION StandaloneSpec
CONSTANTS
  Callers = {c1, c2}
  Free = Free
  MaxTasks = 4
  NumBuffers = 3
  o1 = o1
  o2 = o2
  cr = cr
  lf = lf
  x = x
  y = y
  Junk = Junk
  NoObserver = NoObserver
  Observers <- MCObservers
  InitialSize = 2
  ExtraBufSize = 3
  Streams <- MCStreams
  Patterns <- MCPatterns
INVARIANTS
  Inv
  ExactlyOnceInOrder
  JoinNeverReturns
  CaptureInv
  LentIsTheConsumersOwn
  BufferInv
  EditsAreSequenceEdits
  SearchMissesOnlyOverlapped
PROPERTIES
  TaskIsRun
  FramesKeepComing
  ImplementsTee
CHECK_DEADLOCK FALSE
