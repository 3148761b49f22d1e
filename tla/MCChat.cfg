CONSTANTS
  Conn = {c1, c2, c3}
  MaxSaid = 3
  MaxFailures = 2
SPECIFICATION FairSpec
INVARIANTS
  TypeOK
  HeardInOrder
  LossBounded
PROPERTIES
  EverythingSent
CHECK_DEADLOCK FALSE
