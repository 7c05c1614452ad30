SPECIFICATION Spec
CONSTANTS
  n1 = n1
  n2 = n2
  Node = {n1, n2}
  Sink = Sink
  NoAddr = NoAddr
  Loopback = Loopback
  AllOnes = AllOnes
  AdvDest = Broadcast
  SubnetBroadcast = Broadcast
  Position <- MCPosition
  Origin = 0
  PositionOf <- MCPositionOf
  SqDist <- MCSqDist
  MaxDist = 10
  CycleLen = 2
  StartMin = 0
  StartMax = 0
  BcastMin = 1
  BcastMax = 1
  RespondMin = 2
  RespondMax = 2
  Interval = 6
  Jitter = 1
  MaxDelay = 1
PROPERTIES
  JoinIsSent
