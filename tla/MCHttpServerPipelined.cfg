SPECIFICATION FairSpec
CONSTANTS
  Requests <- PlainRequests
  BodyLength = 2
  LoadSize = 2
  SizeLimit = 16
  FileSizes = {0, 2, 3}
  Gone = Gone
  MaxRequests = 2
  MaxLoads = 5
PROPERTIES
  MessageEnds
CHECK_DEADLOCK FALSE
