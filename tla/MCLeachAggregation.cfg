SPECIFICATION Spec
CONSTANTS
  Policies = {"PROP", "OPT", "CL", "SF", "NONE"}
  Gap = 2
  DeadlineIn = {4, 7}
  DeadlineWord = 8
  PerPacket = 2
  Air = 1
  MsPerTick = 500
  FlushTime = 11
  Period = 6
  AppSize = 504
  HeaderWritten = 80
  MaxFar = 1
  TotalTime = 14
INVARIANTS
  TypeOK
  Conservation
PROPERTIES
  CustodyKept
  DeadlinesDecide
  OptTMGivesUpWaiting
CHECK_DEADLOCK FALSE
