SPECIFICATION QueueSpec
CONSTANTS
  Values = {a, b}
  Junk = Junk
  MaxBatch = 4
  MaxSize = 7
  Capacities = {4, 7}
  LeaveRoom = TRUE
INVARIANTS
  QueueInv
PROPERTIES
  FailsJustOnExactFill
  ImplementsDeque
CHECK_DEADLOCK FALSE
