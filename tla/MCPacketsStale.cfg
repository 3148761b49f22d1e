CONSTANTS
  Parts = {"read"}
  Radix = 4
  BlockSize = 8
  MaxLen = 61
  WriteLens <- MCWriteLens
  ReadLens <- MCReadLens
  Kind <- MCKind
  Need <- MCNeed
  Accepts <- MCAccepts
  Ignored <- MCIgnored
  Login <- MCLogin
  ZeroId = "two"
  Finished = "finished"
  Modes <- MCOnlyPieces
  Cap = 3
  Described <- MCDescribed
  Lens = {0, 1, 2}
  Masks <- MCMasks
  Overlong = Overlong
  NoConstant = NoConstant
SPECIFICATION Spec
INVARIANT NothingStale
CHECK_DEADLOCK FALSE
