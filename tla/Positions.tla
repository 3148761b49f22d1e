------------------------------- MODULE Positions -------------------------------
(***************************************************************************)
(* The conversions of Coords along an axis of the world: a walker passes   *)
(* every block of it, through zero and the borders of chunks and regions,  *)
(* and `along' is read as a block, a chunk, a spawn or a player's          *)
(* coordinate in fractions of a block.                                     *)
(***************************************************************************)
EXTENDS Coords

CONSTANTS
  Reach, \* the walk goes from -Reach to Reach, in blocks
  Halves \* fractions of a block used for player coordinates

\* A block's coordinate fits the 26 bits with sign of a packed Position.
ASSUME PositionsAssumption ==
  /\ Reach \in 0..PositionField \div 2
  /\ Halves \in Nat \ {0}

VARIABLE along

AlongFrom(x) == along = x

PositionsInit == AlongFrom(-Reach)

PositionsNext == along < Reach /\ along' = along + 1

PositionsSpec == PositionsInit /\ [][PositionsNext]_along

-----------------------------------------------------------------------------
\* The three conversions are division rounding towards minus infinity, on
\* both sides of zero (mc.c:3-21).
ConversionsRoundDown ==
  /\ CoordToChunk(along) = along \div 16
  /\ CoordToRegion(along) = along \div 512
  /\ ChunkToRegion(along) = along \div 32

\* The region of a block is the region of its chunk (mc.c:8-21).
RegionOfChunk == CoordToRegion(along) = ChunkToRegion(CoordToChunk(along))

\* A chunk's slot is within the region's 32 by 32 array, as region.c:43 and
\* region.c:52 assert, and the header entry read from the file is the one the
\* region format gives that chunk (anvil.c:19).
SlotInRegion ==
  /\ Slot(along) \in 0..31
  /\ HeaderIdx(LocalizedChunk(along)) = along % 32

\* Two chunks of one region never share a slot: the region and the slot tell the
\* chunk (region.c:43-57).
SlotsDistinct ==
  LET region == ChunkToRegion(along)
      slot == Slot(along)
  IN along = 32 * region + IF region >= 0 THEN slot ELSE 31 - slot

\* The loop that counts and sends the spawn chunks covers the same columns as
\* the view loaded for it, so every chunk it visits is loaded
\* (server.c:211-255).
SpawnLoopIsView ==
  \A size \in 0..3 :
    /\ SpawnLoopLow(along, size) = CoordToChunk(along) - size
    /\ SpawnLoopHigh(along, size) = CoordToChunk(along) + size

\* A fractional coordinate is attributed to the chunk that contains it, except
\* in the last block before a negative chunk border, where the conversion to
\* int moves it into the next chunk (conn.c:133-136).
FractionMisplacedOnlyAtBorder ==
  LET true_chunk == along \div (16 * Halves)
  IN /\ along >= 0 => DoubleToChunk(along, Halves) = true_chunk
     /\ along < 0 => DoubleToChunk(along, Halves) - true_chunk =
                   IF along % (16 * Halves) > 15 * Halves THEN 1 ELSE 0

\* The chunk loaded for a joining player is the spawn's chunk when the spawn
\* coordinate is not negative; a negative one is decoded without its sign and
\* loads the chunk 2^22 further (world.c:71-74, server.c:148-154, 211).
SpawnChunkAfterPosition ==
  CoordToChunk(DecodeField(EncodeField(along))) =
    IF along < 0 THEN CoordToChunk(along) + 4194304 ELSE CoordToChunk(along)

\* A block leads to the same chunk, region and slot on every way through the code;
\* coordinates of players and of the spawn, with their fractions and their signs,
\* lead to the right chunk but for the two cases above.
PositionsLocated ==
  /\ ConversionsRoundDown /\ RegionOfChunk /\ SlotInRegion /\ SlotsDistinct
  /\ SpawnLoopIsView /\ FractionMisplacedOnlyAtBorder /\ SpawnChunkAfterPosition
=============================================================================
