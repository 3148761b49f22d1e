CONSTANTS
  Reach = 600
  Halves = 4
  Parts = {"coords", "list", "hashmap", "section", "anvil", "nbt", "json", "blocks",
           "chunk", "tick"}
  Node = {n1, n2, n3, n4}
  Item = {a, b}
  Null = Null
  Key <- MCKey
  Value <- MCOneValue
  Hashes <- MCHashes
  None = None
  Freed = Freed
  FirstLens = {1, 3}
  MaxEntries = 8
  PaletteLens <- MCPaletteLens
  Longs = 3
  Side = 2
  PageSize = 2
  Entries <- MCEntries
  Ranges <- MCRanges
  Loaded <- MCLoaded
  NoChunk = NoChunk
  Tag <- MCTag
  Text = {"", "a"}
  Counts <- MCCounts
  ElemMax = 2
  NbtLens <- MCNbtLens
  MaxNodes = 4
  Forms <- MCForms
  BlockFiles <- MCBlockFiles
  NameMax = 8
  ChunkDocs <- MCChunkDocs
  ChunkSectionsLen = 2
  TickLen = 2
  Second = 8
  Works <- MCWorks
  TicksCount = 4
SPECIFICATION Spec
INVARIANTS
  LibsTypeOK
  PositionsLocated
  NothingLeaks
  LoadKnown
  RangeAccounted
  ReadRight
  FreedOnce
  TickPaced
PROPERTIES
  ListIsWalk
  MapIsKeyValue
  
CHECK_DEADLOCK FALSE
