SPECIFICATION WheelSpec
CONSTANTS
  Conns = {c1, c2, c3}
  Heads = {s1, s2, s3}
  NoNode = NoNode
  Nodes <- MCNodes
SYMMETRY Symmetric
INVARIANTS
  ListsAreClosed
PROPERTIES
  ImplementsWheel
CHECK_DEADLOCK FALSE
