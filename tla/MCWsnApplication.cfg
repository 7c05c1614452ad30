SPECIFICATION Spec
CONSTANTS
  PacketSize = 2
  Limit <- MCLimit
  PktTime = 1
  Period = 1
  PoissonTime <- MCPoissonTime
  Second = 2
  Word = 100
  StartTime <- MCStartTime
  StopTime <- MCStopTime
  TotalTime = 12
INVARIANTS
  TypeOK
  OneChain
  NoUnderflow
  LimitEndsSending
  CountsWhatLeft
CHECK_DEADLOCK FALSE
