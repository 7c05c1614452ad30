SPECIFICATION RestSpec
CONSTANTS
  Node = {n1, n2}
  CycleLen = 4
INVARIANTS
  TypeOK
  RestBounded
