\* The driver with two or three nodes: is it LEACH that runs?
SPECIFICATION Spec
CONSTANTS
  NodeCounts = {2, 3}
INVARIANT RunsLeach
CHECK_DEADLOCK FALSE
