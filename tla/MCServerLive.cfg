CONSTANTS
  Conn = {c1, c2, c3}
  Place <- Line
  ViewDistance = 1
  Unreadable <- NoChunk
  Spawn <- Origin
  WritesFail = FALSE
  Trouble = {}
  MaxUpsets = 0
SPECIFICATION FairSpec
PROPERTIES
  KeepsPromise
  CrossingServed
  EveryoneServed
CHECK_DEADLOCK FALSE
