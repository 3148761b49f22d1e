CONSTANTS
  PongLimit = 30
  PingPeriod = 3
  Delays <- MCDelays
  Gaps <- MCGaps
  LastSecond = 75
SPECIFICATION Spec
INVARIANTS
  TypeOK
  AnsweringStays
  SilentIsClosed
CHECK_DEADLOCK FALSE
