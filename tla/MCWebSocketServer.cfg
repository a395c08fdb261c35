SPECIFICATION FairSpec
CONSTANTS
  Frames <- SomeFrames
  Workers = {w1, w2}
  Len64Bytes = 3
  MaskBytes = 2
  MaxFrames = 2
  MaxMsgs = 2
INVARIANTS
  Inv
  MessagesFit
  SentInOrder
PROPERTIES
  PushedIsSent
CHECK_DEADLOCK FALSE
