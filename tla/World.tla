-------------------------------- MODULE World --------------------------------
(***************************************************************************)
(* The chunks of the world that are in memory (world.c).                   *)
(*                                                                         *)
(* A chunk is a pair of chunk coordinates.  It is resident when its        *)
(* region's array points to it; a resident chunk carries player_count, the *)
(* number of players that can see it.  A chunk that is not resident has    *)
(* count 0 here: anvil_parse_chunk starts a chunk at 0.                    *)
(***************************************************************************)
EXTENDS Coords, FiniteSets

CONSTANTS
  Place,        \* chunk coordinates players can stand in
  ViewDistance, \* server_properties.view_distance
  Unreadable    \* chunks whose region or entry may fail to open or parse

ASSUME WorldAssumption ==
  /\ Place \subseteq Int \X Int
  /\ ViewDistance \in 0..255 \* struct conn holds it in a uint8_t

View(p) == ViewOf(p, ViewDistance)

Chunk == UNION {View(p) : p \in Place}

VARIABLES
  resident, \* the chunks in memory
  count     \* player_count of each chunk

worldVars == <<resident, count>>

WorldTypeOK ==
  /\ resident \subseteq Chunk
  /\ count \in [Chunk -> Int]

WorldInit ==
  /\ resident = {}
  /\ count = [ch \in Chunk |-> 0]

-----------------------------------------------------------------------------
(***************************************************************************)
(* world_load_chunks: visits the view in order and stops at the first      *)
(* chunk that cannot be loaded; those before it stay.                      *)
(***************************************************************************)
LoadStops(p, bad) == bad \in (View(p) \cap Unreadable) \ resident

\* Mistake: loads a border of one chunk around the view.
LoadedBeforeWide(p, bad) ==
  {ch \in ViewOf(p, ViewDistance + 1) : VisitedBefore(ch, bad)}

LoadedBefore(p, bad) == {ch \in View(p) : VisitedBefore(ch, bad)}

LoadPart(p, bad) ==
  /\ LoadStops(p, bad)
  /\ resident' = resident \cup LoadedBefore(p, bad)
  /\ UNCHANGED count

(***************************************************************************)
(* `++chunk->player_count' over a set of chunks, and                       *)
(* world_chunk_dec_players over a set of chunks: the ones that are not     *)
(* resident are skipped, and the ones that drop to 0 are freed.            *)
(***************************************************************************)
Increment(n, S) == [ch \in Chunk |-> IF ch \in S THEN n[ch] + 1 ELSE n[ch]]

Decrement(n, S) == [ch \in Chunk |-> IF ch \in S THEN n[ch] - 1 ELSE n[ch]]

\* Mistakes: frees a chunk that one player still sees; one step too late.
DecPlayersEager(r, n, S) ==
  /\ count' = Decrement(n, S \cap r)
  /\ resident' = r \ {ch \in S : n[ch] <= 2}

DecPlayersLate(r, n, S) ==
  /\ count' = Decrement(n, S \cap r)
  /\ resident' = r \ {ch \in S : n[ch] = 0}

DecPlayers(r, n, S) ==
  /\ count' = Decrement(n, S \cap r)
  /\ resident' = r \ {ch \in S : n[ch] = 1}
=============================================================================
