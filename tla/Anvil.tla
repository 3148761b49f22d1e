--------------------------------- MODULE Anvil ---------------------------------
(***************************************************************************)
(* Reading a range of chunks from a region file into the region            *)
(* (anvil_get_chunks), chunk after chunk through one buffer that inflation *)
(* fills and enlarges (anvil_read_chunk).                                  *)
(*                                                                         *)
(* Bytes are counted in units of which PageSize make up a sector.  A chunk *)
(* in memory is known by the place its data was read from.                 *)
(***************************************************************************)
EXTENDS Integers, FiniteSets

CONSTANTS
  Side,     \* chunks along a side of a region, 32
  PageSize, \* 4096
  Entries,  \* what the file may hold for a chunk
  Ranges,   \* arguments <<cx1, cz1, cx2, cz2>>
  Loaded,   \* sets of chunks that are in the region already
  NoChunk   \* the null pointer

\* sectors is what the header says; size the bytes the data inflates to, before
\* it ends (whole) or its input does.
Entry ==
  [kind : {"missing", "unreadable", "foreign", "corrupt", "whole", "cut"},
   sectors : Nat, size : Nat, parses : BOOLEAN]

Chunk == (0..Side - 1) \X (0..Side - 1)

\* A range begins in the region, as anvil.h:30 asks; that it ends there is tested.
ASSUME AnvilAssumption ==
  /\ Side \in Nat \ {0} /\ PageSize \in Nat \ {0}
  /\ Entries \subseteq Entry /\ \A e \in Entries : e.sectors > 0 /\ e.size > 0
  /\ Ranges \subseteq (0..Side - 1) \X (0..Side - 1) \X Int \X Int
  /\ NoChunk \notin Chunk

VARIABLES
  file,      \* chunk |-> entry
  range,
  region,    \* chunk |-> what its slot points to
  pc,        \* start, loop, inflate, done, aborted (assert), starved
  at,        \* <<x, z>>
  err,
  missing,
  errAt,     \* err_x and err_z
  bufLen,    \* chunk_buf_len
  availOut,
  totalOut,
  chunk      \* the local pointer

ctx == <<file, range>>
stream == <<bufLen, availOut, totalOut>>
anvilVars == <<ctx, region, pc, at, err, missing, errAt, stream, chunk>>

AnvilTypeOK ==
  /\ file \in [Chunk -> Entries] /\ range \in Ranges
  /\ region \in [Chunk -> Chunk \cup {NoChunk}]
  /\ pc \in {"start", "loop", "inflate", "done", "aborted", "starved"}
  /\ at \in (0..Side) \X (0..Side)
  /\ err \in {"ok", "missing", "read", "zlib", "parse", "range"}
  /\ missing \in 0..Side * Side
  /\ {bufLen, availOut, totalOut} \subseteq Nat
  /\ chunk \in Chunk \cup {NoChunk} /\ errAt \in Chunk \cup {NoChunk}

\* File f is to be read in range r, with the chunks of S in the region.
AnvilFrom(f, r, S) ==
  /\ file = f /\ range = r
  /\ region = [c \in Chunk |-> IF c \in S THEN c ELSE NoChunk]
  /\ pc = "start" /\ at = <<0, 0>> /\ err = "ok"
  /\ missing = 0 /\ errAt = NoChunk
  /\ bufLen = 0 /\ availOut = 0 /\ totalOut = 0 /\ chunk = NoChunk

AnvilInit ==
  \E f \in [Chunk -> Entries], r \in Ranges, S \in Loaded : AnvilFrom(f, r, S)

-----------------------------------------------------------------------------
InRegion(n) == n \in 0..Side - 1

\* Both ends of the range lie in this region.
Start ==
  /\ pc = "start" /\ at' = <<range[1], range[2]>>
  /\ IF InRegion(range[3]) /\ InRegion(range[4])
       THEN pc' = "loop" /\ UNCHANGED err
       ELSE pc' = "done" /\ err' = "range"
  /\ UNCHANGED <<ctx, region, missing, errAt, stream, chunk>>

Entered == file[at]

InRange == at[1] <= range[3] /\ at[2] <= range[4]

\* Mistake: one row only.
NextInRow == <<at[1] + 1, at[2]>>

\* The end of the row is the start of the next.
NextAt == IF at[1] < range[3] THEN <<at[1] + 1, at[2]>> ELSE <<range[1], at[2] + 1>>

\* Mistake: err_x and err_z are taken before x and z are increased.
TurnEarly(e) ==
  /\ err' = e
  /\ IF e \in {"ok", "missing"}
       THEN pc' = "loop" /\ at' = NextAt /\ UNCHANGED errAt
       ELSE pc' = "done" /\ errAt' = <<at[1] - 1, at[2] - 1>> /\ UNCHANGED at

\* The end of a turn with result e, which stops both loops unless it is OK or
\* MISSING.
Turn(e) ==
  /\ err' = e
  /\ IF e \in {"ok", "missing"}
       THEN pc' = "loop" /\ at' = NextAt /\ UNCHANGED errAt
       ELSE pc' = "done" /\ errAt' = at /\ UNCHANGED at

\* The slot gets the local pointer whatever the result, unless it is MISSING.
Store(c) == region' = [region EXCEPT ![at] = c]

Skip ==
  /\ pc = "loop" /\ InRange /\ region[at] # NoChunk
  /\ at' = NextAt
  /\ UNCHANGED <<ctx, region, pc, err, missing, errAt, stream, chunk>>

\* Mistake: the local pointer is stored for a missing chunk too.
MissingStores ==
  /\ pc = "loop" /\ InRange /\ region[at] = NoChunk /\ Entered.kind = "missing"
  /\ missing' = missing + 1 /\ Turn("missing") /\ Store(chunk)
  /\ UNCHANGED <<ctx, stream, chunk>>

Missing ==
  /\ pc = "loop" /\ InRange /\ region[at] = NoChunk /\ Entered.kind = "missing"
  /\ missing' = missing + 1 /\ Turn("missing")
  /\ UNCHANGED <<ctx, region, stream, chunk>>

Unreadable ==
  /\ pc = "loop" /\ InRange /\ region[at] = NoChunk /\ Entered.kind = "unreadable"
  /\ Turn("read") /\ Store(chunk)
  /\ UNCHANGED <<ctx, missing, stream, chunk>>

\* An assertion fails for a compression other than zlib.
Foreign ==
  /\ pc = "loop" /\ InRange /\ region[at] = NoChunk /\ Entered.kind = "foreign"
  /\ pc' = "aborted"
  /\ UNCHANGED <<ctx, region, at, err, missing, errAt, stream, chunk>>

\* The buffer only grows.
RoomFor == IF PageSize * Entered.sectors > bufLen THEN PageSize * Entered.sectors ELSE bufLen

Open ==
  /\ pc = "loop" /\ InRange /\ region[at] = NoChunk
  /\ Entered.kind \in {"corrupt", "whole", "cut"}
  /\ bufLen' = RoomFor /\ availOut' = bufLen' /\ totalOut' = 0
  /\ pc' = "inflate" /\ UNCHANGED <<ctx, region, at, err, missing, errAt, chunk>>

Remaining == Entered.size - totalOut

Fits == Remaining <= availOut

\* inflate reaches the end, and the chunk is parsed.
InflateEnds ==
  /\ pc = "inflate" /\ Entered.kind = "whole" /\ Fits
  /\ totalOut' = Entered.size /\ availOut' = availOut - Remaining
  /\ LET e == IF Entered.parses THEN "ok" ELSE "parse"
         c == IF Entered.parses THEN at ELSE chunk
     IN Turn(e) /\ Store(c) /\ chunk' = c
  /\ UNCHANGED <<ctx, missing, bufLen>>

\* Bad data, or the input ends with room left in the buffer.
InflateFails ==
  /\ pc = "inflate"
  /\ \/ Entered.kind = "corrupt"
     \/ Entered.kind = "cut" /\ 0 < Remaining /\ Remaining < availOut
  /\ Turn("zlib") /\ Store(chunk)
  /\ UNCHANGED <<ctx, missing, stream, chunk>>

Full == IF Entered.kind = "whole" THEN ~Fits ELSE Entered.kind = "cut" /\ Remaining >= availOut

\* Mistake: the room that inflate is told of is not added to the buffer.
EnlargeRoomOnly ==
  /\ pc = "inflate" /\ Full
  /\ totalOut' = totalOut + availOut /\ availOut' = PageSize
  /\ UNCHANGED <<ctx, region, pc, at, err, missing, errAt, bufLen, chunk>>

\* The buffer is full, and inflate is called again with another page.
Enlarge ==
  /\ pc = "inflate" /\ Full
  /\ totalOut' = totalOut + availOut
  /\ bufLen' = bufLen + PageSize /\ availOut' = PageSize
  /\ UNCHANGED <<ctx, region, pc, at, err, missing, errAt, chunk>>

\* The input ended as the buffer was full.  inflate says Z_BUF_ERROR from now on,
\* and every page it is given is answered with another, while memory lasts.
Starve ==
  /\ pc = "inflate" /\ Entered.kind = "cut" /\ Remaining = 0
  /\ pc' = "starved"
  /\ UNCHANGED <<ctx, region, at, err, missing, errAt, stream, chunk>>

Finish ==
  /\ pc = "loop" /\ ~InRange
  /\ pc' = "done"
  /\ err' = IF err = "missing" THEN "ok" ELSE err
  /\ UNCHANGED <<ctx, region, at, missing, errAt, stream, chunk>>

AnvilNext ==
  \/ Start \/ Skip \/ Missing \/ Unreadable \/ Foreign
  \/ Open \/ InflateEnds \/ InflateFails
  \/ Enlarge \/ Starve \/ Finish

AnvilSpec == AnvilInit /\ [][AnvilNext]_anvilVars

-----------------------------------------------------------------------------
InRangeChunk == {c \in Chunk : c[1] \in range[1]..range[3] /\ c[2] \in range[2]..range[4]}

ReadBefore(c, d) == c[2] < d[2] \/ (c[2] = d[2] /\ c[1] < d[1])

Readable(c) == file[c].kind = "whole" /\ file[c].parses

\* Success means that every chunk of the range that is in the file is in memory,
\* and the others are counted (anvil.c:316-343).
AllRead ==
  pc = "done" /\ err = "ok" =>
    /\ \A c \in InRangeChunk : region[c] # NoChunk \/ file[c].kind = "missing"
    /\ missing = Cardinality({c \in InRangeChunk : region[c] = NoChunk})

\* A failure is reported with the first chunk that cannot be read; those before
\* it are in memory and those after it were not touched (anvil.c:337-340).
FailureLocated ==
  pc = "done" /\ err \notin {"ok", "range"} =>
    /\ errAt \in InRangeChunk /\ ~Readable(errAt)
    /\ \A c \in InRangeChunk : ReadBefore(c, errAt) =>
         region[c] # NoChunk \/ file[c].kind = "missing"
    /\ \A c \in InRangeChunk : ReadBefore(errAt, c) => region[c] \in {NoChunk, c}

\* A slot points to its own chunk or to none, as anvil.h:30 has it; only the
\* slot of the chunk that failed may point to another.
OwnChunkUntilError == \A c \in Chunk : region[c] \in {NoChunk, c} \/ c = errAt

\* inflate never writes beyond the buffer, which other chunks left larger or
\* whose size the header's sectors understate.
RoomInBuffer == pc = "inflate" => totalOut + availOut <= bufLen

\* What a read leaves behind is accounted for, whatever fails.
RangeAccounted == AllRead /\ FailureLocated /\ OwnChunkUntilError /\ RoomInBuffer
=============================================================================
