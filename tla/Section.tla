------------------------------- MODULE Section -------------------------------
(***************************************************************************)
(* The block states of a section (libs/anvil/section.c): palette indexes   *)
(* of bits_per_block bits, packed into 64-bit longs without padding, so    *)
(* that an index may straddle two longs.                                   *)
(*                                                                         *)
(* A long is the set of its bits that are 1, and so is an index.           *)
(***************************************************************************)
EXTENDS Integers, FiniteSetsExt

CONSTANTS
  PaletteLens, \* lengths a palette may have
  Longs        \* bound: how many longs are kept

\* A palette of more than 256 entries has indexes wider than the mask.
ASSUME SectionAssumption ==
  /\ PaletteLens \subseteq 1..256
  /\ Longs \in 2..256

VARIABLES
  paletteLen,  \* palette_len
  blockstates, \* the first longs of the section
  boundary,    \* the long at whose start the blocks of interest lie
  placed       \* history: the block that was written last, or NoBlock

sectionVars == <<paletteLen, blockstates, boundary, placed>>

NoBlock == -1

Pow2[k \in 0..13] == IF k = 0 THEN 1 ELSE 2 * Pow2[k - 1]

\* ceil(log2(n))
Log2Up(n) == CHOOSE k \in 0..12 : n <= Pow2[k] /\ (k = 0 \/ Pow2[k - 1] < n)

BitsPerBlock(n) ==
  IF Log2Up(n) < 4 THEN 4 ELSE IF Log2Up(n) > 8 THEN 14 ELSE Log2Up(n)

\* The length of the array of a section with b bits for each of its 4096 blocks.
BlockstatesLen(b) == (4096 * b) \div 64

AllBlocks == 0..4095

Bit == 0..63

Mask(b) == IF b > 8 THEN 0..7 ELSE 0..b - 1

ToBits(v) == {k \in 0..13 : (v \div Pow2[k]) % 2 = 1}

FromBits(S) == MapThenSumSet(LAMBDA k : Pow2[k], S)

\* Mistake: what does not fit in the long is not cut off.
LeftWide(S, n) == {k + n : k \in S}

Left(S, n) == {k + n : k \in S} \cap Bit

Right(S, n) == {k - n : k \in {m \in S : m >= n}}

(***************************************************************************)
(* block_pos, for block i = x + (y * 16 + z) * 16.                         *)
(***************************************************************************)
Offset(i, b) == (i * b) % 64

StartLong(i, b) == (i * b) \div 64

\* Mistake: an index that ends with its long is taken to straddle.
EndLongStraddling(i, b) == ((i + 1) * b) \div 64

EndLong(i, b) ==
  IF 64 - Offset(i, b) = b THEN StartLong(i, b) ELSE ((i + 1) * b) \div 64

Straddles(i, b) == StartLong(i, b) # EndLong(i, b)

ReadAt(longs, i, b) ==
  LET low == Right(longs[StartLong(i, b)], Offset(i, b))
      high == IF Straddles(i, b)
                THEN Left(longs[EndLong(i, b)], 64 - Offset(i, b)) ELSE {}
  IN (low \cup high) \cap Mask(b)

\* Mistake: the rest of a straddling index is not shifted down.
WriteAtUnshifted(longs, i, b, v) ==
  LET bits == ToBits(v) \cap Mask(b)
      first == [longs EXCEPT ![StartLong(i, b)] = @ \cup Left(bits, Offset(i, b))]
  IN IF Straddles(i, b)
       THEN [first EXCEPT ![EndLong(i, b)] = @ \cup bits]
       ELSE first

\* The bits are added to what is there.
WriteAt(longs, i, b, v) ==
  LET bits == ToBits(v) \cap Mask(b)
      first == [longs EXCEPT ![StartLong(i, b)] = @ \cup Left(bits, Offset(i, b))]
  IN IF Straddles(i, b)
       THEN [first EXCEPT ![EndLong(i, b)] = @ \cup Right(bits, 64 - Offset(i, b))]
       ELSE first

-----------------------------------------------------------------------------
Bits == BitsPerBlock(paletteLen)

\* The block at the boundary, and those on either side of it.
Middle == (64 * boundary) \div Bits

Blocks == {Middle - 1, Middle, Middle + 1}

Read(i) == ReadAt(blockstates, i, Bits)

SectionTypeOK ==
  /\ paletteLen \in PaletteLens /\ boundary \in 1..Longs - 1
  /\ blockstates \in [0..Longs - 1 -> SUBSET Bit]
  /\ placed \in Blocks \cup {NoBlock}

\* Some indexes of the palette, the first and the last among them.
Indexes == {0, 1, paletteLen \div 2, paletteLen - 1} \cap 0..paletteLen - 1

\* The longs in which block i has index f[i], and every other block index 0.
Packed(f) ==
  LET first == WriteAt([l \in 0..Longs - 1 |-> {}], Middle - 1, Bits, f[Middle - 1])
      second == WriteAt(first, Middle, Bits, f[Middle])
  IN WriteAt(second, Middle + 1, Bits, f[Middle + 1])

\* A section as the region file holds it.
SectionFrom(n, l) ==
  /\ paletteLen = n /\ boundary = l
  /\ \E f \in [Blocks -> Indexes] : blockstates = Packed(f)
  /\ placed = NoBlock

SectionInit == \E n \in PaletteLens, l \in 1..Longs - 1 : SectionFrom(n, l)

\* Mistake: the length of the palette is written.
PlaceBlockLen(i) ==
  /\ blockstates' = WriteAt(blockstates, i, Bits, paletteLen)
  /\ placed' = i
  /\ UNCHANGED <<paletteLen, boundary>>

\* act_player_block_placement writes the last index of the palette.
PlaceBlock(i) ==
  /\ blockstates' = WriteAt(blockstates, i, Bits, paletteLen - 1)
  /\ placed' = i
  /\ UNCHANGED <<paletteLen, boundary>>

SectionNext == \E i \in Blocks : PlaceBlock(i)

SectionSpec == SectionInit /\ [][SectionNext]_sectionVars

-----------------------------------------------------------------------------
\* Placing a block changes no other block, also when their indexes share a long
\* or straddle two (write_blockstate_at), and the block reads as the last entry of
\* the palette if the first was there before (air, in most sections).
PlacesOneBlock ==
  [][/\ \A i \in Blocks \ {placed'} : Read(i)' = Read(i)
     /\ \A i \in Blocks :
          i = placed' /\ Read(i) = {} => Read(i)' = ToBits(paletteLen - 1)]_sectionVars

\* Both longs of each of the 4096 blocks are inside the array.
InBounds ==
  LET b == Bits
      len == BlockstatesLen(b)
  IN \A i \in AllBlocks : EndLong(i, b) \in 0..len - 1

\* Every block has an index of the palette, as tests/read_region.c verifies for
\* every section it loads.
IndexInPalette == \A i \in Blocks : FromBits(Read(i)) < paletteLen
=============================================================================
