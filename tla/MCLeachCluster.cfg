SPECIFICATION FairSpec
CONSTANTS
  n1 = n1
  n2 = n2
  Node = {n1, n2}
  Sink = Sink
  NoAddr = NoAddr
  Loopback = Loopback
  AllOnes = AllOnes
  AdvDest = Broadcast
  SubnetBroadcast = Broadcast
  Position <- MCPosition
  Origin = 0
  PositionOf <- MCPositionOf
  SqDist <- MCSqDist
  MaxDist = 10
  CycleLen = 3
  StartMin = 0
  StartMax = 1
  BcastMin = 2
  BcastMax = 3
  RespondMin = 4
  RespondMax = 5
  Interval = 11
  Jitter = 1
  MaxDelay = 1
INVARIANTS
  TypeOK
  NoTimerRearmed
  NoUninitialisedRead
  RoutesMatchRole
  JoinFindsItsHead
PROPERTIES
  RotatesHeads
  EveryNodeLeadsAgain
