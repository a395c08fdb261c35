SPECIFICATION FairSpec
CONSTANTS
  Requests <- SomeRequests
  BodyLength = 2
  LoadSize = 2
  SizeLimit = 16
  FileSizes = {0, 2, 3}
  Gone = Gone
  MaxRequests = 2
  MaxLoads = 5
INVARIANTS
  Inv
  AnswerFits
  AnnouncedIsDone
  WholeFileIsSent
PROPERTIES
  RequestIsAnswered
CHECK_DEADLOCK FALSE
