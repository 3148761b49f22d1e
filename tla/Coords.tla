------------------------------- MODULE Coords -------------------------------
(***************************************************************************)
(* Coordinate arithmetic of libs/mc and of the places that use it: blocks  *)
(* to chunks, chunks to regions, chunks to slots of a region, the square   *)
(* view around a chunk, and the packed "Position" of the wire protocol.    *)
(*                                                                         *)
(* C's integer division truncates towards zero, so the code corrects it by *)
(* hand for negative numbers; CQuot and CRem are C's / and %.              *)
(***************************************************************************)
EXTENDS Integers

CQuot(a, b) == IF a >= 0 THEN a \div b ELSE -((-a) \div b)

CRem(a, b) == a - b * CQuot(a, b)

\* Mistake: C's division alone.
ScaleTruncating(x, factor) == CQuot(x, factor)

Scale(x, factor) ==
  IF x >= 0 THEN CQuot(x, factor) ELSE CQuot(x + 1, factor) - 1

\* Mistake: the negative side forgotten in one conversion only.
CoordToRegionTruncating(x) == CQuot(x, 512)

CoordToRegion(x) == Scale(x, 512)
CoordToChunk(x) == Scale(x, 16)
ChunkToRegion(x) == Scale(x, 32)

\* Mistake: C's remainder alone.
LocalizedChunkRemainder(x) == CRem(x, 32)

\* A chunk's coordinate within its region: 0..31 on the positive side of the
\* axis, -1..-32 on the negative side.
LocalizedChunk(x) == IF x > 0 THEN CRem(x, 32) ELSE CRem(x + 1, 32) - 1

\* Mistake: the magnitude of a negative coordinate.
ChunkArrayIdxMagnitude(n) == IF n < 0 THEN -n ELSE n

\* The row or column of region.chunks that a localized coordinate selects.
ChunkArrayIdx(n) == IF n < 0 THEN -(n + 1) ELSE n

Slot(x) == ChunkArrayIdx(LocalizedChunk(x))

\* The entry of the region file's header read for a localized coordinate:
\* n & 31 in two's complement.
HeaderIdx(n) == n % 32

\* Mistake: rounding to the nearest block.
DoubleToChunkRounding(h, d) == CoordToChunk(CQuot(h + d \div 2, d))

(***************************************************************************)
(* A player's coordinates are doubles and are converted to int at the call *)
(* of mc_coord_to_chunk.  A double is a whole number h of 1/d blocks.      *)
(***************************************************************************)
DoubleToChunk(h, d) == CoordToChunk(CQuot(h, d))

(***************************************************************************)
(* view.h: the square of chunks within `size' of a center.                 *)
(***************************************************************************)
ViewOf(v, size) ==
  {<<x, z>> : x \in (v[1] - size)..(v[1] + size),
              z \in (v[2] - size)..(v[2] + size)}

ViewContains(v, size, ch) ==
  /\ ch[1] >= v[1] - size /\ ch[2] >= v[2] - size
  /\ ch[1] <= v[1] + size /\ ch[2] <= v[2] + size

\* Order in which VIEW_FOREACH visits chunks: x in the outer loop.
VisitedBefore(a, b) == a[1] < b[1] \/ (a[1] = b[1] /\ a[2] < b[2])

\* The bounds of the loop that joining uses instead of VIEW_FOREACH: chunk
\* coordinates of the blocks `size' chunks to each side of the spawn block.
SpawnLoopLow(x, size) == CoordToChunk(x - size * 16)
\* Mistake: an exclusive upper bound in an inclusive loop.
SpawnLoopHighExclusive(x, size) == CoordToChunk(x + size * 16 - 16)

SpawnLoopHigh(x, size) == CoordToChunk(x + size * 16)

(***************************************************************************)
(* The horizontal fields of a packed Position: 26 bits each.  Encoding     *)
(* masks, decoding takes the field as an unsigned number.                  *)
(***************************************************************************)
PositionField == 67108864 \* 2^26

\* Mistake: a mask one bit short.
EncodeFieldNarrow(x) == x % (PositionField \div 2)

EncodeField(x) == x % PositionField
DecodeField(f) == f
=============================================================================
