--------------------------- MODULE ArithmeticProofs ---------------------------
(***************************************************************************)
(* The arithmetic of coordinates and of the clock, for all numbers: not    *)
(* only the coordinates that a walk reaches, or the ticks of one length.   *)
(***************************************************************************)
EXTENDS Positions, Tick, FiniteSetTheorems, TLAPS

-----------------------------------------------------------------------------
(* Coordinates. *)

\* The three hand-corrected divisions of mc.c are floor divisions.
THEOREM ScaleIsFloor ==
  ASSUME NEW x \in Int
  PROVE  /\ CoordToChunk(x) = x \div 16
         /\ ChunkToRegion(x) = x \div 32
         /\ CoordToRegion(x) = x \div 512
<1>1. CoordToChunk(x) = x \div 16
  BY SMT DEF CoordToChunk, Scale, CQuot
<1>2. ChunkToRegion(x) = x \div 32
  BY SMT DEF ChunkToRegion, Scale, CQuot
<1>3. CoordToRegion(x) = x \div 512
  BY SMT DEF CoordToRegion, Scale, CQuot
<1> QED
  BY <1>1, <1>2, <1>3

\* The region of a block computed directly and by way of its chunk is the same
\* (mc.c:8-21), so world_load_chunks and world_chunk_at agree on the region.
THEOREM RegionOfBlockIsRegionOfChunk ==
  ASSUME NEW x \in Int
  PROVE  CoordToRegion(x) = ChunkToRegion(CoordToChunk(x))
<1>1. CoordToChunk(x) = x \div 16 /\ CoordToRegion(x) = x \div 512
  BY ScaleIsFloor
<1>2. CoordToChunk(x) \in Int
  BY <1>1
<1>3. ChunkToRegion(CoordToChunk(x)) = (x \div 16) \div 32
  BY <1>1, <1>2, ScaleIsFloor
<1>4. (x \div 16) \div 32 = x \div 512
  BY SMT
<1> QED
  BY <1>1, <1>3, <1>4

\* The slot of a chunk in its region's array, as one floor remainder per side
\* of the axis.
LEMMA SlotFormula ==
  ASSUME NEW x \in Int
  PROVE  Slot(x) = IF x >= 0 THEN x % 32 ELSE 31 - (x % 32)
BY SMT DEF Slot, ChunkArrayIdx, LocalizedChunk, CRem, CQuot

\* region.c:43 and region.c:52 assert that a slot is below 32; it is, and it
\* is never negative, for every chunk.
THEOREM SlotInRange ==
  ASSUME NEW x \in Int
  PROVE  Slot(x) \in 0..31
BY SlotFormula, SMT

\* Two chunks of a region never share a slot: a slot and a region determine
\* the chunk.
THEOREM SlotInjective ==
  ASSUME NEW x \in Int, NEW y \in Int,
         ChunkToRegion(x) = ChunkToRegion(y), Slot(x) = Slot(y)
  PROVE  x = y
<1>1. x \div 32 = y \div 32
  <2>1. ChunkToRegion(x) = x \div 32
    BY ScaleIsFloor
  <2>2. ChunkToRegion(y) = y \div 32
    BY ScaleIsFloor
  <2> QED
    BY <2>1, <2>2
<1>2. (x >= 0) <=> (y >= 0)
  BY <1>1, SMT
<1>3. x % 32 = y % 32
  <2>1. x % 32 \in 0..31 /\ y % 32 \in 0..31
    BY SMT
  <2> QED
    BY <1>2, <2>1, SlotFormula, SMT
<1> QED
  BY <1>1, <1>3, SMT

\* Joining iterates over chunk coordinates of blocks (server.c:244-254) and
\* loading over a view (world.c:127-133): for every spawn and every view
\* distance they cover the same range.
THEOREM SpawnLoopCoversView ==
  ASSUME NEW x \in Int, NEW size \in Nat
  PROVE  /\ SpawnLoopLow(x, size) = CoordToChunk(x) - size
         /\ SpawnLoopHigh(x, size) = CoordToChunk(x) + size
<1>1. x - size * 16 \in Int /\ x + size * 16 \in Int
  OBVIOUS
<1>2. /\ SpawnLoopLow(x, size) = (x - size * 16) \div 16
      /\ SpawnLoopHigh(x, size) = (x + size * 16) \div 16
  <2>1. CoordToChunk(x - size * 16) = (x - size * 16) \div 16
    BY <1>1, ScaleIsFloor
  <2>2. CoordToChunk(x + size * 16) = (x + size * 16) \div 16
    BY <1>1, ScaleIsFloor
  <2> QED
    BY <2>1, <2>2 DEF SpawnLoopLow, SpawnLoopHigh
<1>3. /\ (x - size * 16) \div 16 = (x \div 16) - size
      /\ (x + size * 16) \div 16 = (x \div 16) + size
  BY SMT
<1> QED
  BY <1>2, <1>3, ScaleIsFloor

\* VIEW_CONTAINS accepts exactly the chunks VIEW_FOREACH visits (view.h:12-18),
\* so the two loops of server_update_view split old and new view exactly.
THEOREM ViewContainsIsMembership ==
  ASSUME NEW v \in Int \X Int, NEW size \in Nat, NEW ch \in Int \X Int
  PROVE  ViewContains(v, size, ch) <=> ch \in ViewOf(v, size)
BY SMT DEF ViewContains, ViewOf

\* The entry of the header for a chunk is the one that the format of a region gives it.
LEMMA HeaderEntry ==
  ASSUME NEW x \in Int
  PROVE  HeaderIdx(LocalizedChunk(x)) = x % 32
<1>1. CASE x > 0
  BY <1>1, SMT DEF HeaderIdx, LocalizedChunk, CRem, CQuot
<1>2. CASE x <= 0
  <2>1. CASE x = 0
    BY <2>1, SMT DEF HeaderIdx, LocalizedChunk, CRem, CQuot
  <2>2. CASE x < 0
    <3>1. LocalizedChunk(x) = x + 32 * ((-(x + 1)) \div 32)
      BY <2>2, SMT DEF LocalizedChunk, CRem, CQuot
    <3> QED
      BY <3>1, SMT DEF HeaderIdx
  <2> QED
    BY <1>2, <2>1, <2>2
<1> QED
  BY <1>1, <1>2

\* Only the quotient leaves a remainder that is less than the divisor.
LEMMA OnlyQuotient ==
  ASSUME NEW x \in Int, NEW d \in Nat \ {0}, NEW q \in Int, NEW r \in 0..d - 1,
         x = d * q + r
  PROVE  x \div d = q /\ x % d = r
BY SMT

LEMMA Quotient ==
  ASSUME NEW x \in Int, NEW d \in Nat \ {0}
  PROVE  x = d * (x \div d) + (x % d) /\ x \div d \in Int /\ x % d \in 0..d - 1
BY SMT

\* The spawn that a client sends comes back from the packed Position without its sign.
LEMMA SpawnComesBack ==
  ASSUME NEW x \in Int, -PositionField <= x, x < PositionField
  PROVE  CoordToChunk(DecodeField(EncodeField(x)))
           = IF x < 0 THEN CoordToChunk(x) + 4194304 ELSE CoordToChunk(x)
<1> DEFINE y == x + PositionField
           far == CoordToChunk(x) + 4194304
<1>1. PositionField \in Nat
  BY SMT DEF PositionField
<1>2. EncodeField(x) = IF x < 0 THEN y ELSE x
  BY SMT DEF EncodeField, PositionField
<1>3. y \in Int
  BY <1>1
<1>4. CoordToChunk(y) = y \div 16 /\ CoordToChunk(x) = x \div 16
  <2> HIDE DEF y
  <2> QED
    BY <1>3, ScaleIsFloor
<1>5. y \div 16 = (x \div 16) + 4194304
  BY SMT DEF PositionField
<1>6. CoordToChunk(y) = far
  BY <1>4, <1>5, SMT
<1> HIDE DEF y, far
<1>7. CoordToChunk(DecodeField(EncodeField(x))) = IF x < 0 THEN far ELSE CoordToChunk(x)
  BY <1>2, <1>6 DEF DecodeField
<1> QED
  BY <1>7, SMT DEF far

\* A player's coordinate of x fractions of a block, d to the block, is in the chunk that
\* contains it, but for the last block before a border of a negative chunk.
LEMMA FractionToChunk ==
  ASSUME NEW x \in Int, NEW d \in Nat \ {0}
  PROVE  /\ x >= 0 => DoubleToChunk(x, d) = x \div (16 * d)
         /\ x < 0 => DoubleToChunk(x, d) - (x \div (16 * d))
                       = IF x % (16 * d) > 15 * d THEN 1 ELSE 0
<1> DEFINE w == 16 * d
           q == CQuot(x, d)
           p == q \div 16
           s == q % 16
<1>1. w \in Nat \ {0}
  OBVIOUS
<1>2. q \in Int
  BY Quotient DEF CQuot
<1>3. DoubleToChunk(x, d) = p
  BY <1>2, ScaleIsFloor DEF DoubleToChunk
<1> HIDE DEF q
<1>4. q = 16 * p + s /\ p \in Int /\ s \in 0..15
  BY <1>2, SMT
<1>5. CASE x >= 0
  <2> DEFINE r == x % d
             t == d * s + r
  <2>1. q = x \div d
    BY <1>5 DEF CQuot, q
  <2>2. x = d * q + r /\ r \in 0..d - 1
    BY <2>1, Quotient
  <2> HIDE DEF r, p, s
  <2>3. d * q = w * p + d * s
    BY <1>4, SMT
  <2>4. d * s \in Int /\ 0 <= d * s /\ d * s <= 15 * d
    BY <1>4, SMT
  <2>5. x = w * p + t /\ t \in 0..w - 1
    <3>1. w * p \in Int
      BY <1>4, SMT
    <3>2. t \in Int /\ 0 <= t /\ t <= 16 * d - 1
      BY <2>2, <2>4
    <3> QED
      BY <1>1, <2>2, <2>3, <2>4, <3>1, <3>2
  <2> HIDE DEF t, w
  <2>6. x \div w = p
    BY <1>1, <1>4, <2>5, OnlyQuotient
  <2> QED
    BY <1>3, <1>5, <2>6 DEF w
<1>6. CASE x < 0
  <2> DEFINE n == -x
             m == n \div d
             r == n % d
             t == d * s - r
  <2>1. n \in Nat /\ q = -m
    BY <1>6 DEF CQuot, q
  <2>2. n = d * m + r /\ r \in 0..d - 1 /\ m \in Int
    <3> HIDE DEF n
    <3> QED
      BY <2>1, Quotient
  <2> HIDE DEF n, m, r, p, s
  <2>3. d * m = -(d * q)
    BY <2>1, <2>2, SMT
  <2>4. d * q = w * p + d * s
    BY <1>4, SMT
  <2>5. d * s \in Int /\ 0 <= d * s /\ d * s <= 15 * d /\ w * p \in Int
    BY <1>4, SMT
  <2>6. x = w * p + t
    BY <2>1, <2>2, <2>3, <2>4, <2>5 DEF n
  <2>7. CASE s > 0 \/ r = 0
    <3>1. s > 0 => d * s >= d
      BY <1>4, SMT
    <3>2. t \in Int /\ 0 <= t /\ t <= 15 * d
      BY <2>2, <2>5, <2>7, <3>1
    <3>3. t \in 0..w - 1
      BY <3>2
    <3> HIDE DEF t, w
    <3>4. x \div w = p /\ x % w = t
      BY <1>1, <1>4, <2>6, <3>3, OnlyQuotient
    <3> QED
      BY <1>3, <1>4, <1>6, <3>2, <3>4 DEF w
  <2>8. CASE s = 0 /\ r # 0
    <3> DEFINE u == w - r
               v == p - 1
    <3>1. d * s = 0
      BY <2>8, SMT
    <3>2. w * v = w * p - w
      BY <1>4, SMT
    <3>3. x = w * v + u
      BY <1>1, <2>2, <2>5, <2>6, <3>1, <3>2
    <3>4. u \in 0..w - 1 /\ u > 15 * d
      BY <2>2, <2>8
    <3>5. v \in Int /\ p - v = 1
      BY <1>4
    <3> HIDE DEF u, v, w
    <3>6. x \div w = v /\ x % w = u
      BY <1>1, <3>3, <3>4, <3>5, OnlyQuotient
    <3> QED
      BY <1>3, <1>6, <3>4, <3>5, <3>6 DEF w
  <2> QED
    BY <1>4, <2>2, <2>7, <2>8
<1> QED
  BY <1>5, <1>6

\* The walk stays within its reach.
LEMMA WalkStays == PositionsSpec => [](along \in -Reach..Reach)
<1>1. Reach \in Nat
  BY PositionsAssumption
<1>2. PositionsInit => along \in -Reach..Reach
  BY <1>1 DEF PositionsInit, AlongFrom
<1>3. along \in -Reach..Reach /\ [PositionsNext]_along => (along \in -Reach..Reach)'
  BY <1>1 DEF PositionsNext
<1> QED
  BY <1>2, <1>3, PTL DEF PositionsSpec

LEMMA LocatedWithinReach ==
  ASSUME along \in -Reach..Reach
  PROVE  PositionsLocated
<1>1. /\ along \in Int /\ -PositionField <= along /\ along < PositionField
      /\ Halves \in Nat \ {0}
  <2> DEFINE f == PositionField
             h == f \div 2
  <2>1. f \in Nat \ {0}
    BY SMT DEF PositionField
  <2>2. Reach \in 0..h /\ Halves \in Nat \ {0}
    BY PositionsAssumption, SMT
  <2> HIDE DEF f
  <2>3. h \in Nat /\ h < f
    BY <2>1, SMT
  <2> HIDE DEF h
  <2>4. along \in Int /\ -f <= along /\ along < f
    BY <2>1, <2>2, <2>3, SMT
  <2> QED
    BY <2>2, <2>4, SMT DEF f
<1>2. ConversionsRoundDown /\ RegionOfChunk
  BY <1>1, ScaleIsFloor, RegionOfBlockIsRegionOfChunk DEF ConversionsRoundDown, RegionOfChunk
<1>3. SlotInRegion
  BY <1>1, SlotInRange, HeaderEntry DEF SlotInRegion
<1>4. SlotsDistinct
  <2> DEFINE region == ChunkToRegion(along)
             slot == Slot(along)
  <2>1. region = along \div 32
    BY <1>1, ScaleIsFloor
  <2>2. slot = IF along >= 0 THEN along % 32 ELSE 31 - (along % 32)
    BY <1>1, SlotFormula
  <2> HIDE DEF region, slot
  <2>3. along = 32 * region + IF region >= 0 THEN slot ELSE 31 - slot
    BY <1>1, <2>1, <2>2, SMT
  <2> QED
    BY <2>3 DEF SlotsDistinct, region, slot
<1>5. SpawnLoopIsView
  <2>1. ASSUME NEW size \in 0..3
        PROVE  /\ SpawnLoopLow(along, size) = CoordToChunk(along) - size
               /\ SpawnLoopHigh(along, size) = CoordToChunk(along) + size
    <3>1. size \in Nat
      OBVIOUS
    <3> QED
      BY <1>1, <3>1, SpawnLoopCoversView
  <2> QED
    BY <2>1 DEF SpawnLoopIsView
<1>6. FractionMisplacedOnlyAtBorder
  BY <1>1, FractionToChunk DEF FractionMisplacedOnlyAtBorder
<1>7. SpawnChunkAfterPosition
  BY <1>1, SpawnComesBack, SMT DEF SpawnChunkAfterPosition
<1> QED
  BY <1>2, <1>3, <1>4, <1>5, <1>6, <1>7 DEF PositionsLocated

\* The conversions agree with one another and with the format of a region for every
\* block whose coordinate fits a Position and every fraction of a block (mc.c:3-21,
\* region.c:43-52, server.c:211-255, conn.c:133-136, world.c:71-74).
THEOREM PositionsAreLocated == PositionsSpec => []PositionsLocated
BY WalkStays, LocatedWithinReach, PTL

-----------------------------------------------------------------------------
(* The clock. *)

\* A number is what fills whole seconds and less than a second more.
LEMMA WholeSeconds ==
  ASSUME NEW a \in Nat, NEW s \in Nat \ {0}
  PROVE  /\ a = s * (a \div s) + (a % s)
         /\ a % s \in 0..s - 1 /\ a \div s \in Nat
BY SMT

\* A product grows with its factor.
LEMMA Product ==
  ASSUME NEW a \in Int, NEW b \in Int, NEW t \in Nat, a >= b
  PROVE  a * t >= b * t
BY SMT

\* One more is one time more.
LEMMA OneMore ==
  ASSUME NEW a \in Int, NEW t \in Nat
  PROVE  (a + 1) * t = a * t + t /\ a * t \in Int
BY SMT

\* Of a product and what is added to it, the product cancels.
LEMMA Cancel ==
  ASSUME NEW a \in Int, NEW w \in Int, NEW s \in Int, NEW q \in Int, NEW r \in Int,
         NEW t \in Int, a = s * q + r, a + w = s * q + t
  PROVE  t - r = w
BY SMT

\* A reading of the clock has seconds, tv_sec, and nanoseconds, tv_nsec.
Sec(a) == a \div Second
Nsec(a) == a % Second

\* The seconds of a reading, in nanoseconds, and its nanoseconds are the reading.
LEMMA Reading ==
  ASSUME NEW a \in Nat
  PROVE  a = Second * Sec(a) + Nsec(a) /\ Sec(a) \in Nat /\ Nsec(a) \in 0..Second - 1
<1>1. Second \in Nat \ {0}
  BY TickAssumption
<1> QED
  BY <1>1, WholeSeconds DEF Sec, Nsec

\* The nanoseconds of two readings that are w apart differ by w within a second,
\* and by a second less than w if they are less than a second apart in two.
LEMMA Nanoseconds ==
  ASSUME NEW a \in Nat, NEW w \in Nat
  PROVE  /\ Sec(a) = Sec(a + w) => Nsec(a + w) - Nsec(a) = w
         /\ Sec(a) # Sec(a + w) =>
              /\ Sec(a + w) >= Sec(a) + 1
              /\ w < Second => Nsec(a + w) - Nsec(a) = w - Second
<1>1. Second \in Nat \ {0} /\ a + w \in Nat
  BY TickAssumption
<1>2. PICK s \in Nat \ {0}, q \in Nat, r \in Int :
        s = Second /\ q = Sec(a) /\ r = Nsec(a) /\ a = s * q + r /\ 0 <= r /\ r < s
  <2>1. a = Second * Sec(a) + Nsec(a) /\ Sec(a) \in Nat /\ Nsec(a) \in 0..Second - 1
    BY Reading
  <2>2. Nsec(a) \in Int /\ 0 <= Nsec(a) /\ Nsec(a) < Second
    BY <1>1, <2>1
  <2> QED
    BY <1>1, <2>1, <2>2
<1>3. PICK p \in Nat, t \in Int :
        p = Sec(a + w) /\ t = Nsec(a + w) /\ a + w = s * p + t /\ 0 <= t /\ t < s
  BY <1>1, <1>2, Reading
<1>4. CASE p = q
  <2>1. t - r = w
    BY <1>2, <1>3, <1>4, Cancel
  <2> QED
    BY <1>2, <1>3, <1>4, <2>1
<1>5. CASE p # q
  <2>1. p >= q + 1
    <3> SUFFICES ASSUME q >= p + 1 PROVE FALSE
      BY <1>5
    <3>1. q * s >= (p + 1) * s
      BY Product
    <3>2. (p + 1) * s = p * s + s /\ p * s \in Int
      BY OneMore
    <3> QED
      BY <1>2, <1>3, <3>1, <3>2
  <2>2. ASSUME w < s PROVE t - r = w - s
    <3>1. (q + 1) * s = q * s + s /\ q * s \in Int
      BY OneMore
    <3>2. ~(p >= (q + 1) + 1)
      <4> SUFFICES ASSUME p >= (q + 1) + 1 PROVE FALSE
        OBVIOUS
      <4>1. p * s >= ((q + 1) + 1) * s
        BY Product
      <4>2. ((q + 1) + 1) * s = (q + 1) * s + s
        BY OneMore
      <4> QED
        BY <1>2, <1>3, <2>2, <3>1, <4>1, <4>2
    <3>3. p = q + 1
      BY <2>1, <3>2
    <3>4. a + s = s * p + r
      <4>1. s * p = s * (q + 1)
        BY <3>3
      <4>2. s * (q + 1) = s * q + s /\ s * q \in Int
        OBVIOUS
      <4> QED
        BY <1>2, <4>1, <4>2
    <3>5. (a + s) + (w - s) = s * p + t
      BY <1>2, <1>3
    <3> QED
      BY <3>4, <3>5, Cancel
  <2> QED
    BY <1>2, <1>3, <1>5, <2>1, <2>2
<1> QED
  BY <1>4, <1>5

-----------------------------------------------------------------------------
(* The pace of the main loop. *)

\* Ticks that have ended began before this one, so that no two of them are the same.
Earlier == \A p \in paces : p.from < tickStart

\* Light ticks are never late, and on time but for one in each second.
Paced ==
  AllLight =>
    /\ tickStart - began <= Cardinality(paces) * TickLen
    /\ tickStart - began >= (Cardinality(paces) - Sec(tickStart)) * TickLen

\* The inductive invariant.
TInv ==
  /\ TickTypeOK /\ began <= tickStart
  /\ ~worked => clock = tickStart
  /\ worked => Cardinality(paces) < TicksCount
  /\ Earlier /\ TickLasts /\ Paced

\* What the types and the assumption say.
LEMMA Types ==
  ASSUME TInv
  PROVE  /\ clock \in Nat /\ tickStart \in Nat /\ tickStart <= clock /\ worked \in BOOLEAN
         /\ began \in 0..Second - 1 /\ began <= tickStart
         /\ paces \subseteq [from : Nat, work : Nat, lasted : Nat]
         /\ IsFiniteSet(paces) /\ Cardinality(paces) \in Nat
         /\ Cardinality(paces) <= TicksCount
         /\ TickLen \in Nat \ {0} /\ Second \in Nat \ {0} /\ TickLen < Second
         /\ TicksCount \in Nat /\ Works \subseteq Nat
BY FS_CardinalityType, TickAssumption DEF TInv, TickTypeOK

\* It says that the ticks are paced.
LEMMA InvPaces == TInv => TickPaced
<1> SUFFICES ASSUME TInv, AllLight
             PROVE  LET elapsed == tickStart - began
                        ticks == Cardinality(paces)
                    IN /\ elapsed <= ticks * TickLen
                       /\ elapsed >= (ticks - 1 - elapsed \div Second) * TickLen
  BY DEF TickPaced, TInv
<1>1. /\ tickStart \in Nat /\ began \in 0..Second - 1 /\ began <= tickStart
      /\ Second \in Nat \ {0}
  BY Types
<1>2. PICK e \in Nat, n \in Nat, len \in Nat, s \in Nat :
        e = tickStart - began /\ n = Cardinality(paces) /\ len = TickLen /\ s = Second
  <2>1. tickStart - began \in Nat
    BY <1>1
  <2>2. Cardinality(paces) \in Nat /\ TickLen \in Nat
    BY Types
  <2> QED
    BY <1>1, <2>1, <2>2
<1>3. PICK q \in Nat, r \in Int : q = Sec(e) /\ e = s * q + r /\ 0 <= r /\ r < s
  BY <1>1, <1>2, Reading
<1>4. PICK p \in Nat, t \in Int :
        p = Sec(tickStart) /\ tickStart = s * p + t /\ 0 <= t /\ t < s
  BY <1>1, <1>2, Reading
<1>5. p <= q + 1
  <2> SUFFICES ASSUME p >= (q + 1) + 1 PROVE FALSE
    OBVIOUS
  <2>1. p * s >= ((q + 1) + 1) * s
    BY Product
  <2>2. /\ ((q + 1) + 1) * s = (q + 1) * s + s
        /\ (q + 1) * s = q * s + s /\ q * s \in Int
    BY OneMore
  <2>3. tickStart < e + s
    BY <1>1, <1>2
  <2> QED
    BY <1>1, <1>3, <1>4, <2>1, <2>2, <2>3
<1>6. (n - p) * len >= (n - 1 - q) * len
  BY <1>5, Product
<1>7. e <= n * len /\ e >= (n - p) * len
  BY <1>2, <1>4 DEF TInv, Paced
<1>8. e >= (n - 1 - q) * len
  BY <1>6, <1>7
<1> QED
  BY <1>2, <1>3, <1>7, <1>8 DEF Sec

\* It holds at the start.
LEMMA PaceInit == TickInit => TInv
<1> SUFFICES ASSUME NEW t \in 0..Second - 1, TickFrom(t)
             PROVE  TInv
  BY DEF TickInit
<1>1. /\ clock = t /\ tickStart = t /\ worked = FALSE /\ began = t /\ paces = {}
      /\ Second \in Nat /\ TickLen \in Nat /\ TicksCount \in Nat
  BY TickAssumption DEF TickFrom
<1>2. IsFiniteSet({}) /\ Cardinality({}) = 0
  BY FS_EmptySet
<1>3. TickTypeOK
  <2>1. clock \in Nat /\ tickStart \in 0..clock /\ began \in 0..Second - 1
    BY <1>1
  <2>2. IsFiniteSet(paces) /\ Cardinality(paces) <= TicksCount
    BY <1>1, <1>2
  <2>3. worked \in BOOLEAN /\ paces \subseteq [from : Nat, work : Nat, lasted : Nat]
    BY <1>1
  <2> QED
    BY <2>1, <2>2, <2>3 DEF TickTypeOK
<1>4. Sec(t) \in Nat
  BY <1>1, Reading
<1>5. (0 - Sec(t)) * TickLen <= 0 /\ 0 * TickLen = 0
  <2>1. \A n, len \in Nat : (0 - n) * len <= 0 /\ 0 * len = 0
    BY SMT
  <2> QED
    BY <2>1, <1>1, <1>4
<1>6. Paced
  BY <1>1, <1>2, <1>5 DEF Paced
<1> QED
  BY <1>1, <1>3, <1>6 DEF TInv, Earlier, TickLasts

\* How long a tick with work w lasts, and when it crosses a second.
LEMMA LengthOfTick ==
  ASSUME TInv, worked, TickEnd, NEW w \in Nat, w = clock - tickStart
  PROVE  /\ tickStart' \in Nat /\ tickStart' >= clock /\ tickStart' > tickStart
         /\ tickStart' - tickStart <= w + Second
         /\ Sec(tickStart) = Sec(clock) =>
              tickStart' - tickStart = IF w > TickLen THEN w ELSE TickLen
         /\ Sec(tickStart) # Sec(clock) =>
              /\ Sec(clock) >= Sec(tickStart) + 1
              /\ w <= TickLen => tickStart' - tickStart = w
<1>1. /\ clock \in Nat /\ tickStart \in Nat /\ clock = tickStart + w
      /\ TickLen \in Nat \ {0} /\ Second \in Nat \ {0} /\ TickLen < Second
  BY Types
<1>2. PICK passed \in Int : passed = Nsec(clock) - Nsec(tickStart)
  BY <1>1, Reading
<1>3. Rest = IF passed < TickLen THEN TickLen - passed ELSE 0
  BY <1>2 DEF Rest, Nsec
<1>4. PICK slept \in Nat :
        /\ slept = IF Rest < Second THEN Rest ELSE 0
        /\ tickStart' = clock + slept
  BY <1>1, <1>2, <1>3 DEF TickEnd
<1>5. /\ Sec(tickStart) = Sec(clock) => passed = w
      /\ Sec(tickStart) # Sec(clock) =>
           /\ Sec(clock) >= Sec(tickStart) + 1
           /\ w < Second => passed = w - Second
  BY <1>1, <1>2, Nanoseconds
<1>6. tickStart' \in Nat /\ tickStart' >= clock /\ tickStart' - tickStart <= w + Second
  BY <1>1, <1>2, <1>3, <1>4
<1>7. CASE Sec(tickStart) = Sec(clock)
  BY <1>1, <1>3, <1>4, <1>5, <1>6, <1>7
<1>8. CASE Sec(tickStart) # Sec(clock)
  <2>1. w # 0
    BY <1>1, <1>8
  <2> QED
    BY <1>1, <1>3, <1>4, <1>5, <1>6, <1>8, <2>1
<1> QED
  BY <1>7, <1>8

\* A later reading has no earlier second.
LEMMA SecondsGoOn ==
  ASSUME NEW a \in Nat, NEW b \in Nat, a <= b
  PROVE  Sec(a) <= Sec(b)
<1>1. PICK w \in Nat : b = a + w
  BY b - a \in Nat
<1>2. Sec(a) \in Nat /\ Sec(b) \in Nat
  BY Reading
<1>3. Sec(a) # Sec(b) => Sec(b) >= Sec(a) + 1
  BY <1>1, Nanoseconds
<1> QED
  BY <1>2, <1>3

\* The time between two readings.
LEMMA Difference ==
  ASSUME NEW a \in Nat, NEW b \in Nat, b > a
  PROVE  /\ b - a \in Nat /\ b - a > 0
         /\ \A c \in Int : b - c = (a - c) + (b - a)
OBVIOUS

\* Every step keeps the invariant.
LEMMA PaceNext == TInv /\ [TickNext]_paceVars => TInv'
<1> SUFFICES ASSUME TInv, [TickNext]_paceVars
             PROVE  TInv'
  OBVIOUS
<1>1. /\ clock \in Nat /\ tickStart \in Nat /\ tickStart <= clock
      /\ began \in 0..Second - 1 /\ began <= tickStart
      /\ paces \subseteq [from : Nat, work : Nat, lasted : Nat]
      /\ IsFiniteSet(paces) /\ Cardinality(paces) \in Nat
      /\ Cardinality(paces) <= TicksCount
      /\ TickLen \in Nat \ {0} /\ Second \in Nat \ {0} /\ TicksCount \in Nat
      /\ Works \subseteq Nat
  BY Types
<1>2. CASE \E w \in Works : TickWork(w)
  <2>1. PICK w \in Works : TickWork(w)
    BY <1>2
  <2>2. /\ clock' = clock + w /\ worked' = TRUE /\ tickStart' = tickStart
        /\ began' = began /\ paces' = paces
    BY <2>1 DEF TickWork
  <2>3. TickTypeOK'
    <3>1. clock' \in Nat /\ tickStart' \in 0..clock'
      BY <1>1, <2>2
    <3> QED
      BY <1>1, <2>2, <3>1 DEF TickTypeOK
  <2>4. Earlier' /\ TickLasts' /\ Paced'
    BY <2>2 DEF TInv, Earlier, TickLasts, Crosses, Paced, AllLight, Sec
  <2>5. Cardinality(paces') < TicksCount
    BY <2>1, <2>2 DEF TickWork
  <2> QED
    BY <1>1, <2>2, <2>3, <2>4, <2>5 DEF TInv
<1>3. CASE TickEnd
  <2>1. PICK w \in Nat : w = clock - tickStart
    BY <1>1
  <2>2. /\ worked /\ tickStart' = clock' /\ worked' = FALSE /\ began' = began
        /\ paces' = paces \cup {[from |-> tickStart, work |-> w,
                                 lasted |-> tickStart' - tickStart]}
    BY <1>3, <2>1 DEF TickEnd
  <2>3. PICK long \in Nat :
        /\ long = tickStart' - tickStart /\ tickStart' \in Nat
        /\ tickStart' >= clock /\ long > 0 /\ long <= w + Second
        /\ Sec(tickStart) = Sec(clock) => long = IF w > TickLen THEN w ELSE TickLen
        /\ Sec(tickStart) # Sec(clock) =>
             /\ Sec(clock) >= Sec(tickStart) + 1
             /\ w <= TickLen => long = w
    <3>1. /\ tickStart' \in Nat /\ tickStart' >= clock /\ tickStart' > tickStart
          /\ tickStart' - tickStart <= w + Second
          /\ Sec(tickStart) = Sec(clock) =>
               tickStart' - tickStart = IF w > TickLen THEN w ELSE TickLen
          /\ Sec(tickStart) # Sec(clock) =>
               /\ Sec(clock) >= Sec(tickStart) + 1
               /\ w <= TickLen => tickStart' - tickStart = w
      BY <1>3, <2>1, <2>2, LengthOfTick
    <3>2. tickStart' - tickStart \in Nat /\ tickStart' - tickStart > 0
      <4>1. tickStart \in Nat /\ tickStart' \in Nat /\ tickStart' > tickStart
        BY <1>1, <3>1
      <4> QED
        BY <4>1, Difference
    <3> QED
      BY <3>1, <3>2
  <2>4. PICK p : p = [from |-> tickStart, work |-> w, lasted |-> long]
    OBVIOUS
  <2>5. /\ p.from = tickStart /\ p.work = w /\ p.lasted = long
        /\ p \in [from : Nat, work : Nat, lasted : Nat]
        /\ paces' = paces \cup {p}
    BY <1>1, <2>2, <2>3, <2>4
  <2>6. IsFiniteSet(paces') /\ Cardinality(paces') = Cardinality(paces) + 1
    <3>1. p \notin paces
      BY <1>1, <2>5 DEF TInv, Earlier
    <3> QED
      BY <3>1, <1>1, <2>5, FS_AddElement
  <2>7. Crosses(p) <=> Sec(tickStart) # Sec(clock)
    <3>1. tickStart + w = clock
      BY <1>1, <2>1
    <3> QED
      BY <2>5, <3>1 DEF Crosses, Sec
  <2>8. TickLasts'
    <3>1. /\ ~Crosses(p) => p.lasted = IF p.work > TickLen THEN p.work ELSE TickLen
          /\ Crosses(p) /\ p.work <= TickLen => p.lasted = p.work
          /\ p.lasted <= p.work + Second
      BY <2>3, <2>5, <2>7
    <3> QED
      BY <3>1, <2>5 DEF TInv, TickLasts, Crosses
  <2>9. Earlier'
    <3>1. tickStart \in Nat /\ tickStart' \in Nat /\ tickStart' > tickStart
      BY <1>1, <1>3, <2>1, <2>2, LengthOfTick
    <3>2. \A o \in paces : o.from \in Nat /\ o.from < tickStart
      BY <1>1 DEF TInv, Earlier
    <3>3. \A o \in paces : o.from < tickStart'
      BY <3>1, <3>2
    <3> QED
      BY <2>5, <3>1, <3>3 DEF Earlier
  <2>10. Paced'
    <3> SUFFICES ASSUME AllLight'
                 PROVE  (/\ tickStart - began <= Cardinality(paces) * TickLen
                         /\ tickStart - began >=
                              (Cardinality(paces) - Sec(tickStart)) * TickLen)'
      BY DEF Paced
    <3>1. AllLight /\ w <= TickLen
      BY <2>5 DEF AllLight
    <3>2. PICK e \in Nat, n \in Nat, len \in Nat, q \in Nat, q2 \in Nat :
            /\ e = tickStart - began /\ n = Cardinality(paces) /\ len = TickLen
            /\ q = Sec(tickStart) /\ q2 = Sec(tickStart')
      <4>1. tickStart - began \in Nat
        BY <1>1
      <4>2. Sec(tickStart) \in Nat /\ Sec(tickStart') \in Nat
        BY <1>1, <2>3, Reading
      <4> QED
        BY <1>1, <4>1, <4>2
    <3>3. e <= n * len /\ e >= (n - q) * len
      BY <3>1, <3>2 DEF TInv, Paced
    <3>4. tickStart' - began' = e + long /\ long <= len
      <4>1. long <= len
        BY <2>3, <3>1, <3>2
      <4>2. tickStart \in Nat /\ tickStart' \in Nat /\ tickStart' > tickStart
        BY <1>1, <1>3, <2>1, <2>2, LengthOfTick
      <4>3. tickStart' - began = (tickStart - began) + (tickStart' - tickStart)
        BY <1>1, <4>2, Difference
      <4> QED
        BY <4>1, <4>3, <2>2, <2>3, <3>2
    <3>5. (n + 1) * len = n * len + len /\ n * len \in Int
      BY OneMore
    <3>6. e + long <= (n + 1) * len
      BY <3>3, <3>4, <3>5
    <3>7. e + long >= (n + 1 - q2) * len
      <4>1. Sec(clock) \in Nat /\ Sec(clock) <= q2
        BY <1>1, <2>3, <3>2, SecondsGoOn, Reading
      <4>2. Sec(tickStart) <= Sec(clock)
        BY <1>1, SecondsGoOn
      <4>3. CASE Sec(tickStart) = Sec(clock)
        <5>1. long = len
          BY <2>3, <3>1, <3>2, <4>3
        <5>2. ((n - q) + 1) * len = (n - q) * len + len /\ (n - q) * len \in Int
          BY OneMore
        <5>3. ((n - q) + 1) * len >= (n + 1 - q2) * len
          BY <3>2, <4>1, <4>2, Product
        <5> QED
          BY <3>3, <5>1, <5>2, <5>3
      <4>4. CASE Sec(tickStart) # Sec(clock)
        <5>1. q2 >= q + 1
          BY <2>3, <3>2, <4>1, <4>4
        <5>2. (n - q) * len >= (n + 1 - q2) * len
          BY <5>1, Product
        <5> QED
          BY <3>3, <5>2
      <4> QED
        BY <4>3, <4>4
    <3> QED
      BY <2>6, <3>2, <3>4, <3>6, <3>7
  <2>11. TickTypeOK'
    <3>1. Cardinality(paces') <= TicksCount
      <4>1. Cardinality(paces) < TicksCount
        BY <2>2 DEF TInv
      <4> QED
        BY <4>1, <1>1, <2>6
    <3>2. clock' \in Nat /\ tickStart' \in 0..clock'
      BY <2>2, <2>3
    <3>3. paces' \subseteq [from : Nat, work : Nat, lasted : Nat]
      BY <1>1, <2>5
    <3> QED
      BY <1>1, <2>2, <2>6, <3>1, <3>2, <3>3 DEF TickTypeOK
  <2>12. began' <= tickStart'
    BY <1>1, <2>2, <2>3
  <2> QED
    BY <2>2, <2>8, <2>9, <2>10, <2>11, <2>12 DEF TInv
<1>4. CASE UNCHANGED paceVars
  BY <1>4 DEF paceVars, TInv, TickTypeOK, Earlier, TickLasts, Crosses, Paced, AllLight, Sec
<1> QED
  BY <1>2, <1>3, <1>4 DEF TickNext

\* The main loop keeps its pace as far as TickPaced says, for every length of the
\* tick and of the second, every work of every tick, and whenever it starts
\* (main.c:99-162): a tick that stays within a second lasts 50 ms or as long as its
\* work, one that crosses it is cut short or sleeps too long, and light ticks fall
\* short by no more than one for each second.
THEOREM MainLoopPaced == TickSpec => []TickPaced
BY PaceInit, PaceNext, InvPaces, PTL DEF TickSpec
=============================================================================
