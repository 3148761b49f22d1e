CONSTANTS
  Conn = {c1, c2}
  Place <- Corner
  ViewDistance = 1
  Unreadable <- Gap
  Spawn <- Origin
  WritesFail = TRUE
  Trouble = {"recross", "moving", "noEnd", "join"}
  MaxUpsets = 1
SPECIFICATION Spec
SYMMETRY ConnSymmetry
INVARIANTS
  IInv
  PendingHasMoved
  CountsViewers
  ClientHoldsView
  VisibleResident
  NoIdleChunks

  
CHECK_DEADLOCK FALSE
