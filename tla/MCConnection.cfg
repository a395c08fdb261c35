SPECIFICATION FairSpec
CONSTANTS
  Values = {1, 2, 3, 4, 5, 6, 7}
  Junk = Junk
  MaxBytes = 7
  MaxSend = 3
  Workers = {w1, w2}
INVARIANTS
  Inv
  StreamInOrder
PROPERTIES
  GivenIsSent
CHECK_DEADLOCK FALSE
