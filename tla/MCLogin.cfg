CONSTANTS
  Name = {"alice", "bob"}
  Secret = {"s1", "s2"}
  Plain = "plain"
  Nobody = "nobody"
  Sessions <- MCSessions
SPECIFICATION Spec
INVARIANTS
  TypeOK
  SwitchTogether
  JoinedIsVouched
  
 
CHECK_DEADLOCK FALSE
