# A verification of chowder

chowder is a server for Minecraft Java Edition 1.15.2, written in C. These
modules model its core in TLA+, check small instances with TLC and prove the
properties that matter most, for every instance, with TLAPS.

The source is `src/` of the repository (`src/src` is the server, `src/libs` its
libraries). Line numbers below are of that tree.

## The system

One process, one thread. `main` (src/src/main.c) reads `server.properties`,
binds a socket, builds the block table, opens the world, and then runs ticks
until an interrupt. A tick

1. accepts at most one connection. The accepted socket blocks: handshake,
   login (RSA, AES, a request to the session server) and joining run to
   completion before anyone else is served;
2. walks the list of connections. `server_play` reads packets until `poll`
   says there are none, checks the keep alive, and either keeps the connection
   or has it removed; if the player crossed a chunk border,
   `server_update_view` loads, counts and sends chunks;
3. writes the queued chat messages to everyone, and sleeps.

| Component | State | Operations | Interacts with |
|---|---|---|---|
| Main loop (main.c) | list of connections, cursor | accept, serve, remove, send | all |
| Connections (server.c, conn.c, actions/) | per player: position, `old_chunk`, `requesting_chunks`, pings, `messages_out` | join, move, leave, update view | world, packets |
| World (world.c) | regions, chunks in memory, `player_count` per chunk | load a view, count, free at 0 | anvil, hashmap, coordinates |
| Coordinates (libs/mc, region.c, view.h) | none | blocks to chunks to regions to slots, views | world, server |
| Keep alive (server.c, act_sb_keep_alive.c) | last ping, last pong, id | ping, answer, time out | connections |
| Chat (server.c, main.c, message.c) | a queue per connection | say, broadcast | connections |
| Login (server.c, login.c) | socket, cipher, what is allocated | handshake, status, login | packets, session server, world |
| Packets (packet.c, protocol.c, conn.c) | one buffer for writing, one per connection for reading | read, write, finalize, encrypt | connections |
| Anvil (libs/anvil) | region files, chunks, sections | read a range, parse a chunk, read and write block states | world, NBT, block table |
| NBT, JSON (libs/nbt, libs/json) | a tree on the heap | read, write, search, free | anvil, packets, login, block table |
| Block table (blocks.c) | name to id | build, look up | main, anvil |
| Configuration (config.c) | `server_properties`, the file | write defaults, read | main |
| Hash map, list (libs) | entries; nodes | add, get, remove; walk | all |
| Code generator (utils/packet-auto-gen) | the fields of a description | resolve references, print C | build |

What is hard here is not parallelism but order: players' packets, logins,
failures of writes, reads and loads, and departures interleave at the level of
the tick, each handler leaves state behind that a later one relies on
(`old_chunk`, `requesting_chunks`, counts, queues, a keep-alive id), several
handlers fail half way and undo nothing, and the integer conversions must agree
on both sides of zero. The hazards are listed one by one, at their lines, in
PROJECT.json.

## The modules

| Module | Models | State and actions |
|---|---|---|
| `Coords` | libs/mc, view.h, region.c's slots, packed positions | operators only |
| `Positions` | the conversions of `Coords` together | a coordinate; the next one |
| `World` | world.c | `resident`, `count`; loading, counting and freeing sets of chunks |
| `Server` (extends `World`) | main.c, server.c, conn.c | the tick (`phase`, `done`, `todo`: the list is `done \o todo`), players (`pos`, `old`, `requesting`), what each client holds (`sent`) |
| `Visibility` | the promise of `Server` | what players see and which chunks are kept for them |
| `KeepAlive` | the end of server_play, act_sb_keep_alive.c | a clock in seconds, the latest ping, answers under way |
| `Chat` | messages_out, server_send_messages | the list with its cursor, a queue per connection, what each client was sent |
| `Hashmap`, promise `KeyValue` | libs/hashmap | entries, `occupied`, an arbitrary hash function; add (with resizing), remove |
| `LinkedList`, promise `Walk` | libs/list | a heap of nodes, the head, the cursor of a walk |
| `Section` | section.c, act_player_block_placement.c | the longs around one boundary, the palette's length; place a block |
| `Anvil` | anvil_read_chunk, anvil_get_chunks | the cursor over a range, the inflate buffer, the region's slots |
| `Chunk` | anvil_parse_chunk, free_section, free_chunk | who owns each array, the tree or the chunk |
| `Nbt` | libs/nbt | the document, the stack of open nodes, what is allocated and freed |
| `Json` | libs/json | the text, the stack of open values, strings in the text, what is allocated and freed |
| `Blocks` | blocks.c, the lookup of anvil.c | the table as it is filled, the buffer for a name |
| `Tick` | the end of the loop in main.c | the clock, the two readings of a tick |
| `Varint` | variable-length integers of packet.c | operators only |
| `Packet` (extends `Varint`) | writing in packet.c, and the header of a packet read into the same buffer | `data_len`, `packet_len`, `index`, the bytes; make, write, finalize, read a header |
| `Wire` | reading in packet.c, conn.c, protocol.c, server_play | the stream in pieces, the buffer, the id, packets acted on |
| `Codegen` | parser.c and gen.c of the code generator | references between fields; the generated functions, a field at a time |
| `Descriptions` | protocol/*.packet | operators only: what twelve descriptions parse to |
| `Config` | config.c | the file's lines, the properties, starts |
| `Login` | server.c's handshake, login.c, conn_init and conn_finish | the next step, what is allocated, the cipher, messages both ways |
| `MC...` | instances for TLC | constants; `MCLibs` and `MCPackets` hold several components side by side |
| `...Proofs` | theorems | see below |

Definitions whose comment begins with "Mistake" are not part of a model: each is
a variant of the definition below it that a plausible slip in the code would
produce, and each breaks a property of a run. PROJECT.json ("mutants") pairs
them.

### Server and World

A chunk is a pair of chunk coordinates. `resident` are the chunks some region's
array points to, `count` is `player_count`, and a chunk that is not resident has
count 0, as `anvil_parse_chunk` makes it. The actions are the handlers:
`Join` and its failures are `server_initialize_play_state`, split by how far it
gets; `Move` is the three position packets' call of
`conn_update_view_position_if_needed` with the assignments that follow;
`Leave` and `Drop` are the returns 0 and -1 of `server_play` with the removal in
`main`; `Served` is the return 1; `UpdateView`, `ViewLoadFails` and
`ViewPositionFails` are `server_update_view`. Packets that change none of this
state are stuttering steps. A tick handles any number of `Move`s of the
connection it serves, then ends its turn in one of the other ways.

A load visits the view in the order of `VIEW_FOREACH` and stops at the first
chunk that fails: `LoadPart` keeps the ones before it. Chunks that may fail are
`Unreadable`; they may also load.

The code's books are wrong in four situations, the *upsets* of the module: a
border crossed while a crossing is pending (`old_chunk` is overwritten), a
departure with a crossing pending (the wrong view is subtracted), a connection
dropped without `server_end_play`, and a join that fails after counting. The
constant `Trouble` says which may happen and `MaxUpsets` bounds how often; the
history variable `upsets` counts them. The properties about counts and views
hold until the first upset, in every interleaving; `server_negative` shows that
they need not after it. What protects memory
and the loop itself (`PendingHasMoved`, `ListIsPlaying`) holds with any number
of upsets. A process that dies (SIGPIPE, which is not handled; the null pointers
of `conn_finish` after an early login failure and of a block placed in a chunk
that is not loaded) is the phase `crashed`.

### KeepAlive

Time is counted in seconds, as `time(NULL)` is. Each step of the server is one
`server_play` at the end of which the connection is closed, pinged or left;
ticks follow after a gap that `Gaps` allows, which stands for what other
connections cost. A client answers a ping after one of `Delays` or never. An answer is read by the first `server_play` after it
arrived. Identifiers are told apart by the second they were sent in: `rand()` is
assumed not to repeat itself among the few answers under way.

### Chat

Each connection has a queue, `messages_out`. The sending loop of `main` stops at
the first failing write and `server_send_messages` pops a message before it
writes it, so that `Send` is one message with all its writes, and `SendFails`
one that fails after any number of them. `heard`, `said` and `spoken` are histories.

### Hashmap and LinkedList

`Hashmap` quantifies over the hash function: every placement of keys is tried.
`Add` is `hashmap_add` with its possible resize. `RemoveKey` leaves the pointer to
the freed key in the entry, as the code does; nothing calls it yet. `KeyValue` is
what callers rely on, and the refinement is by `hashmap_get`, through the same
probing as the code.

`LinkedList` has the nodes as a heap, because what can go wrong is a pointer: to
remove a node the next one is copied over it and freed. `Walk` is what `Server`
and `Chat` assume of their lists.

### Section

A long is the set of its bits, and so is an index. `boundary` chooses one boundary
between longs and the model has the blocks around it, so that a section of 4096
blocks need not be in the state. Palettes longer than 256 entries are left out: `build_palette`
then switches to 14 bits while `palette_len` still bounds the index.

### Packet, Varint and Wire

`Packet` keeps for each byte which byte of the body it is, which is what a move
or a reallocation may get wrong. `realloc` is taken to succeed. Writes of numbers,
slots and NBT are writes of some number of bytes. `ReadHeader` is
`packet_read_header` growing the same `data_len` for a packet that arrives. It
grows by blocks until the packet has room, before the limit is looked at, and
does not shrink again: after a packet that is refused as too big `data_len` is
larger than the buffer, every later header is refused as well, and what is
written may leave the buffer. `WritesKept` joins what writing, growing, finalizing
and reading a header must do (`Contiguous`, `BytesReported`, `BufferHolds`,
`FrameReadsBack`, `OverrunOnlyAtBlockEnd`), the last but for a buffer in which a
packet was refused.

`Wire` knows a byte by its frame and its place, so that `NothingStale` can ask
where a packet came from. An encrypted `mode` is `parse_encrypted_packet` and
the loop of `server_play`; the other `packet_read_header` and the sequence of a
login, with the server's own packets in the same buffer (`Reply`). Lengths and
ids have one byte here; `Varint` has the rest.

What a reading function takes is `Need`, and how many bytes satisfy it is
`Accepts`: the generated code tests what the reading of a number returns for less
than 0, though it is a bool (gen.c:835; packet.h says it is false at the end), and
a VarInt or the length of a text that is missing reads as 0. A packet short of a
number is acted on, with the value memory had; one that is short of characters or
of a byte array is rejected. `packetId` is the id in the buffer: at the end of the
stream, before encryption, it is that of the packet before, and the generated
function asserts that it is its own (`HandleExpected`).

### Codegen and Descriptions

The generator is a compiler, and what can be wrong with it is what it prints; the
model therefore runs the generated functions rather than print them. `Resolve` is
`create_parent_links` and `resolve_field_name_refs`: a name is found by its
beginning, in the innermost struct that has one. From then on `agenda` is the code
that remains to be run: `Write...` take a field as `write_field` prints it,
`Read...` as `read_field` does. `members` are the members of the C struct that
others refer to; the server may have put any of `Lens`, `Masks` or the constants
of an enumeration there, a constant that is none, and texts that are too long.

There are two readers. The generated one passes over what the code has no case
for, a Chat, and ignores conditions; a client goes by the description, for whom a
name is the whole name. `ReadsBack` asks that the client reads what was written,
and that the generated function does too where it passes over nothing (`lossy`).
What is in `Descriptions` was read off the files by hand, and holds those with a
length, a condition, an enumeration, a union or a Chat. Reading text into fields is
not modelled.

### Config

A line is a name and a text. Starts, restarts, a death in the middle of writing
the defaults (`WriteTorn`) and changes by an operator (`Edit`) interleave. A last
line without a newline makes the program search beyond it; the model goes to
`undefined` from there, or reads the line if the newline is found in time. Of the
table `ConfigAssumption` asks what config.c's has: no name is empty, the default
of a number is written as a number and that of a string is not empty, a mapping
has a first entry.

### Login

The client is a process of its own, with messages both ways, and may send what
the reading functions reject, return another token, and close at any time. A
message carries the cipher it was written with, and `garbled` records that one
was read with another. `heap` names what is allocated. `conn_finish` empties
`messages_out`, which `conn_init` makes: a failure before that ends the process
(`crashed`). So may the end of the stream in place of a message: the buffer still
has the id of the message before, or that of what the server wrote, and the
generated function asserts another (`Aborts`); in place of the login's start it may
also be taken for one with an empty name.

### Anvil

Bytes are counted in units of half a sector. The file is one record per chunk:
missing, unreadable, not compressed by zlib (an assertion fails), corrupt, whole,
or cut. Data that is cut exactly where the buffer is full makes zlib ask for room
for ever; the model calls that `starved`.

### Nbt

A document is chosen as it is read: each step asks what a writer of NBT could have
put there, so that the documents need not be listed. It may go on beyond the bytes
there are, anywhere. `stack` is the recursion of `nbt_unpack_node`. After reading,
the tree is written (`Pack`), measured (`NbtLen`), searched (`TreeSearch`) and
freed cell by cell (`NbtFree`); `Cells` is what `nbt_new` and the reading
functions allocate. `ElemMax` scales down the 16 bits that elements are counted in.
`undefined` is where the code goes on with memory nobody wrote: `nbt_read_string`
cannot report an error, `nbt_read_array` leaves a pointer unwritten, a list that is
longer than its counter can say does not end.

### Json

`json_parse` works in place, and so does the model: `StringChar` moves characters
back over an escape in the text that is still being read. The text is chosen a
character at a time, from one of `Forms`: kinds of text with the characters that
occur in them and a largest length, so that deep nesting, long strings and odd
numbers each get the length they need. `TextUnderstood` compares with what the
text means by the grammar of the code's author: numbers in arrays are lenient
(`[-]`), white space around the root and within `{ }` is rejected, `\u` unknown.

### Blocks and Chunk

The name of a block state is written by `add_block_state` from blocks.json, and by
`palette_entry_to_block_id` from a palette; both sort the properties, since
objects have no order, and the model tries every order of both. Characters are
scaled to `NameMax`; in blocks.json the longest of 11756 names has 108 of the 255
characters there are. `Chunk` follows each array of a section from the tree into
the chunk: it is set to a null pointer in the tree, so that the free of the tree,
on success and on each failure, and that of the chunk free it once between them.

### Tick

Ticks of 50 ms are 2 units of 8 to the second. The code subtracts `tv_nsec` alone.
A tick that crosses a second comes out as negative: a light one asks for a sleep of
more than a second, which `nanosleep` refuses, a heavy one sleeps although it is
late. `TickPaced` says by how much, and that every other tick has its length.

## The runs

| Run | Question | Bounds | Result |
|---|---|---|---|
| `server` | are the books right until an upset, and the loop always? | 2 players, 3 places whose views (3 by 3) overlap in rows and columns, 2 unreadable chunks, all four troubles, 1 upset | hold |
| `server_live` | does `Server` implement `Visibility`, is everyone served, and every crossing? | 3 players, places on a line, no trouble, loads and writes succeed | hold |
| `server_negative` | may a count be negative? | 1 player, 1 upset | violated |
| `keep_alive` | does an answering client stay, and is a silent one noticed? | delays 0, 3, 4 and 12 s, pings may be ignored, gaps between ticks 1, 3 and 25 s, 75 s | hold; with a gap of 26 s the first does not |
| `chat` | order, loss, and is every message sent or discarded? | 3 connections, 3 messages, 2 failing writes | hold |
| `login` | cipher, identity, memory, return | 2 names, 2 secrets, each name known with one | hold |
| `packets` | is a packet what was written, and acted on as it was sent? | blocks of 8, limit 61, groups of 2 bits: lengths of 1, 2 and 3 groups; streams of 3 frames of 1 or 2 bytes, one kind ignored: in play whole but some too short, in play and before encryption cut anywhere; headers of 5, 20, 60 and 75 bytes | hold |
| `packets`, generate | is what the generated functions write read back? | 12 descriptions; lengths 0 to 2, masks with 0, 1 and 2 bits, every constant and one that is none, conditions that hold and do not, fixed arrays of 2 | hold |
| `wire_stale` | is a packet made only of its own bytes? | in play, cut anywhere | violated |
| `config` | what does a file mean? | one property of each type and a string without a default, 3 edits | hold |
| `config_restart` | does a restart keep the defaults? | as above | violated |
| `libs`, coordinates | do the conversions agree? | every block from -600 to 600, in quarter blocks for positions: region and chunk borders on each side | hold |
| `libs`, list | is a list under a cursor what it promises? | 4 nodes, 2 items | hold |
| `libs`, hash map | are keys kept, counted, and is there room? | 4 keys, tables that grow from 1 entry to 4 and from 3 to 6, removals, 6 hash functions with homes at both ends | hold |
| `libs`, section | does placing a block change only that block? | palettes of 1, 5, 17, 40, 128 and 256 entries, 3 longs | hold |
| `libs`, anvil | is a range read, or the failure named? | regions of 2 by 2 chunks of 8 kinds, 3 ranges, 2 sets in memory | hold |
| `libs`, chunk | is each array freed once? | every pair of sections with and without a palette and each array, and one section too many for 2 | hold |
| `libs`, nbt | is a tree what was written, and freed once? | up to 4 nodes, names and texts of 0 and 1 characters, counts of 0, 2 and 3 where a counter reaches 2, data of 8, 13 and 20 bytes that ends anywhere | hold |
| `libs`, json | is a text understood, and freed once? | seven kinds of text of at most 5 to 11 characters | hold |
| `libs`, blocks | does a palette's entry find its block? | 2 files, names of at most 8, every order of properties | hold |
| `libs`, tick | do ticks keep their pace? | 4 ticks of 2 units, 8 to the second, work of 0 to 9 | hold |
| `section_index` | is a placed index in the palette? | 2 longs | violated |

`MCLibs` and `MCPackets` put components side by side that share nothing: a
variable `part`, chosen at the start, says which one of them moves, and the
others stay in an initial state. That saves runs, not behaviours.

Why the bounds are enough: freeing and counting depend on which of two views a
chunk is in, and three places give every combination of views that overlap,
touch and differ; a third player (`server_live`) lets a count go from 2 to 1
while another player moves. One upset shows the state after it, and the
invariants that survive it are proved for any number. Deadlock is not checked
where the process may stop or die, or where a bound ends the behaviour.

Fairness. `Server` and `Chat` assume weak fairness of the actions the loop takes
by itself: accepting nobody, ending a connection's turn, updating a view,
sending, ending the tick. `accept` and `poll` do not block, so the loop always
continues; that a client stops sending for an instant, so that the drain in
`server_play` ends, is an assumption about clients. Nothing is assumed about
joining, leaving or failures. `Wire` assumes that what was sent arrives and that
the server reads what arrived; `Login` that the server goes on and that a client it
waits for sends or closes, which the code does not ensure: it has no time-out
there (the hazard at server.c:348).

## What is proved

`ServerProofs` proves, for every finite set of connections, every set of places,
every view distance from 0 to 255, every choice of unreadable chunks and
troubles, and without a bound on upsets:

- `TypeCorrect`, `AssertionHolds` (`PendingHasMoved`), `ListHoldsPlayers`
  (`ListIsPlaying`);
- `Inductive` (`IInv`), and from it `CountsAreViewers`, `ClientsHoldTheirViews`,
  `VisibleChunksStay`, `NoChunkIdles` and the action property `FreedChunksUnseen`;
- `ImplementsVisibility`: with no trouble, `Spec => KeepsPromise`.

The argument. Types, the list and pending crossings form `ListInv`, which is
inductive by itself and owes nothing to the counts. The books need one another:
`world_chunk_dec_players` frees a chunk rightly only if the count is the number
of viewers (`CountsViewers`); a count changes rightly only if the view that is
subtracted is the one the client holds (`ClientHoldsView`), which needs
`PendingHasMoved` and that nobody but the players holds anything
(`OthersHoldNothing`); and an increment reaches its chunk only if counted chunks
are resident (`CountedResident`). The proof has one lemma per kind of change
(a player gains a set of chunks, loses a set, does both) about the cardinality
of the set of viewers, and one step per action. The assumptions are those of
the modules: `WorldAssumption` and `ServerAssumption`.

`ArithmeticProofs` proves that `scale` is division rounding down, that a block and
its chunk are in one region, that slots lie in 0..31 and are distinct within a
region, that the loop which joins with bounds of its own covers the loaded view,
and that `VIEW_CONTAINS` decides membership in what `VIEW_FOREACH` visits: for all
integers, where the runs try a range. `PositionsAreLocated` gathers these for the walk
of `Positions` (`PositionsLocated`), for every reach that fits the 26 bits of a packed
Position and every fraction of a block: the header's entry of a chunk
(`HeaderEntry`), the chunk of a fractional coordinate on both sides of zero
(`FractionToChunk`) and of a spawn that comes back without its sign
(`SpawnComesBack`). C's `int` is modelled by the integers; the
coordinates of a world (30 million blocks) stay far from its limits.

`MainLoopPaced`, also in `ArithmeticProofs`, proves `TickPaced` for every length of a
tick and of a second, every work and every start. The invariant counts seconds: as
long as the work was light, the time since the start is at least that of all
ticks but as many as seconds began (`Paced`). It rests on one fact about the
difference of two tv_nsec (`Nanoseconds`). The bound on the number of ticks is a
constant, so the theorem is about any number of them.

`LoginProofs` proves, for all names, secrets and sessions, whatever the client
sends and whenever it closes: `LoginTyped`, `CiphersSwitchTogether`
(`SwitchTogether`), `JoinsAreVouched` (`JoinedIsVouched`), `JoinsAsClaimed` and
`LoginHeap` (`HeapAccounted`). None of them is inductive. That nothing is garbled
needs to know whose turn it is and which message is under way (`InTurn`,
`Expected`); that who joins is vouched for needs what the server knows between
decrypting and the answer of the session server (`Known`), and that the messages
are this client's (`OwnMessages`); what is left on the heap needs what was
allocated before each step (`HeapBefore`).

`ChatProofs` proves, for any finite set of connections and any bounds on messages
and failures: `ChatTyped`, `ChatInOrder` (`HeardInOrder`) and `ChatLoss`
(`LossBounded`). The invariant says that a queue holds what was said and has not
left it, in order (`QueuedInOrder`), that whatever was heard has left its queue
(`HeardIsGone`), and which queues are empty while the tick sends (`Draining`,
`TickDrains`). Order in each client is then order of leaving the queues, and that
is the same for everybody. A loss is counted when it happens, since a message that
left its queue never comes back.

`KeepAliveProofs` proves two inequalities, for every limit, period, set of delays
and set of gaps. `AnsweringClientStays`: if each gap g between two ticks satisfies
g + 2 * PingPeriod <= PongLimit + 1, a client that answers each ping before the
next is due is never closed; with the code's 30 and 3 seconds that is 25, and the
model checker finds a client that is closed with 26. The invariant is that the
answer to the last ping is under way, and will be read in time, or has been read
(`Answering`). `SilentClientIsClosed`: if there is a longest gap, a connection is
open only if the last ping that was answered while it was the latest is at most
PongLimit + PingPeriod and that gap old. Old answers still arrive after a client
fell silent, and each is taken for a sign of life; the invariant (`Recent`) is
that none arrives late enough. Both rest on `Clock`: the stream is in the order in
which it becomes readable, and a ping is at most a period old when a turn ends.

`ConfigProofs` proves, for every table that satisfies `ConfigAssumption`, every
file and any number of edits and starts: `ConfigRunsOnlyAccepted`
(`RunsOnlyAccepted`) and `ConfigFileDecides` (`FileDecides`). The invariant ties
what is stored to the lines before the one that is read next (`Decided`,
`Accepted`), and a file that nobody touched to the defaults (`Untouched`).

`LibsProofs` proves of the list, for any number of nodes and elements: `ListInvariant`,
`ListLeaksNothing` (`NothingLeaks`), and the refinement `ListImplementsWalk`
(`ListIsWalk`): the pointers of libs/list keep the promise on which the models of
the main loop and of the chat are built. The invariant is that the nodes on the
heap form one path without a repetition, from the head to the empty node, that
passes the cursor (`Path`). `ListLen` and `Items` walk that path by recursion
(`Steps`); what they return is proved without induction, from the least step at
which the recursion and the path would differ (`LeastNumber`). For each operation
one lemma gives the path after it (`NextAlong`, `RemoveAlong`, `AppendAlong`), and
one says what that does to the elements before and after the cursor (`Along...`).

Of region files it proves `RangeIsAccounted` (`RangeAccounted`) for every size of a
region and of a page, every file, range and set of chunks in memory. The assumption on
ranges is that they begin in the region, which anvil.h:30 asks of callers. The
invariant says of the loops that what they passed is in memory, or missing from
the file and counted (`Reading`), and of inflation that it is of such a chunk's
data (`Inflating`). Whatever ends a turn, one of two lemmas applies: it goes on
(`TurnGoesOn`) or it fails (`TurnFails`).

Of the hash map it proves, for any keys, values, hash functions and lengths:
`MapInvariant`, `MapLoadIsKnown` (`LoadKnown`) and the refinement
`MapImplementsKeyValue` (`MapIsKeyValue`). The invariant (`MapInv`) is that a
search for each key in the table ends where the key is (`Located`), that entries
are empty, removed or hold a key of the map (`Filled`), and that `occupied` counts
the entries with a key. A search is first characterised without `CHOOSE` (`ProbeIs`, `ProbeEnds`), then shown not to be
misled by what an addition fills or a removal leaves (`PutAdds`, `RemoveTakes`).
A resize is a loop; that after each of its steps the new table holds what was
passed of the old is proved from the least step at which it would not
(`CopiesExist`, `ResizedHolds`).

Of a chunk it proves, for every document that `ChunkAssumption` admits and any length
of the array of sections: `ChunkInvariant` and `ChunkOwnsItsArrays` (`ChunkOwned`,
the chunk's part of `FreedOnce`). The invariant (`ChunkInv`) says what the
sections that were parsed hold (`Made`), and who owns each array at each stage and
what was freed (`Owners`). An array leaves the tree when its section takes it
(`TakenFromTree`), and one section at most frees it (`FreedBy`).

Of a section it proves, for every length of its palette up to 256 and any boundary
between two longs: `SectionStaysInBounds` (`InBounds`) and `SectionPlacesOneBlock`
(`PlacesOneBlock`). All longs together are one row of bits, in which block i has
those from i * bits_per_block on (`BlockPos`). `read_blockstate_at` returns these
bits (`ReadIs`), `write_blockstate_at` adds to these and to no other (`WriteIs`,
`BitOfWrite`), and no two blocks have a bit in common (`BlocksApart`); both hold
whether or not an index straddles (`ReadOfWrite`).

`WireProofs` proves `StaysInStep` (`InStep`) for any packets, any frames, any number
of them and any way to cut the stream. The invariant has two halves. The bytes that
have not been read follow each other as in the frames that were sent, and as long
as the client has not closed they go on to the end of the last (`Carries`). And
unless the end of what had arrived was taken for bytes of a frame, there is a frame
such that the stream begins where the server is in it (`Begins`, `InFrame`), and
what was acted on is what is due before it (`ActedOn`). Five lemmas carry the proof:
bytes that arrive stay in the stream (`Passing`); a frame that is sent moves nothing
(`CarriesAppend`, `BeginsAppend`); in a frame the next bytes of the stream are its
next bytes, and after its last comes the next frame (`FrameAt`); a frame whose bytes
the reading function takes is acted on if it is due (`FrameHandled`). The theorem
has a hypothesis, `WholeBeforePlay`: frames may lack their end in play only. Before
encryption the length that the reading functions go by counts the id, so that a
frame that is one byte short is accepted with the byte that the buffer held.

Of what the server writes it proves `VarintReadsBack` and `PacketWritesKept`
(`WritesKept`), for every size of a group, a block and the limit and every
sequence of packets, writes and headers. The one assumption on these sizes is that
the lengths that are written fit five groups, the 32 bits of the code's integers.
What was read of a varint and what is left of it once so many groups are shifted
out make up the value at each step of the two loops (`Tally`). The
invariant of the buffer (`PacketInv`) is that its length counts whole blocks and is
its size unless a packet was refused (`Buffer`), and that a packet which is being
written is its body so far (`Unfinished`). Growing by blocks holds what is asked for
(`GrownIs`); that `finalize_packet` leaves the buffer only where a body ends in the
last bytes of a block is division with remainder (`PastBlocks`).

Only model-checked: the liveness properties (fairness is outside what the prover
handles), the generator of packet functions, `EverythingSent` and what
else `Login` and `Chat` promise of the end of a behaviour, and what is computed by
recursion over data of any shape (NBT, JSON, the paths of `Codegen`, the names that
`Blocks` sorts and joins). `LibsTypeOK`, `FreedOnce`, `ReadRight` and
`PacketsTypeOK` are conjunctions over several parts, of which the theorems above
state some.

## What the project found

Four runs are violated; each is an entry under "findings" in PROJECT.json with
the line that says otherwise.

- Player counts (`server_negative`): two border crossings in one tick leave a
  count below zero, as world.c:188 suspects.
- Reading (`wire_stale`): a body that arrives in two pieces is taken for
  complete.
- Configuration (`config_restart`): booleans are written and read back inverted.
- Sections (`section_index`): a block placed where another is gets the union of
  both indexes' bits.

Other facts are in the models without a run of their own, in the exceptions that
the properties name:

- Counts and views stay wrong after any upset: a departure with a crossing
  pending, a connection dropped by `server_play`, a join that fails late.
- A client that answers each ping later than the next one is closed although its
  answers keep arriving (`prompt` in `AnsweringStays`).
- `finalize_packet` moves a body that ends at the end of a block beyond the
  buffer (`OverrunOnlyAtBlockEnd`); at the limit `packet_write_varint` and
  `packet_write_string` report bytes they did not write (`last` in `Packet`).
- Before encryption a packet one byte short is accepted with a byte of an earlier
  one: packet_read_header's bound counts the id (`ReadPlainBody`). In both ways of
  reading, one short of a number is acted on with what memory held (`Accepts`).
- Before encryption the end of the stream is read as a packet with the id of the
  last one: the generated assertion may end the process (`HandleExpected`,
  `Aborts`). The Makefile does not define NDEBUG.
- A header that is refused as too big leaves a `data_len` that is larger than the
  buffer (`ReadHeader`).
- A tick that crosses a second does not sleep if it was light, and up to a second
  more if it was heavy (`Rest`).
- NBT: `nbt_unpack` leaks the name of the root, since `nbt_new` copies it
  (`Cells`); data whose last byte is missing is accepted, with a length that is
  larger than the data (`CloseCompound`); a null name or string would be an
  argument of `strlen` or `strcmp` in writing and searching; a list of more than
  32767 elements is read for ever, and an element that fails in a list is not
  noticed (`ReadList`, `AllElements`).
- JSON: a backslash at the end of the text is read past the end (`Escape`), and
  json.c:112 compares an index with NUL. `json_set` of a key that exists frees the
  value that the map keeps; only tests call it.
- `anvil_parse_chunk` leaks the tree when a chunk has no Sections (`FindSections`);
  an unknown block's message prints a name that was freed (anvil.c:157).
- The generator: int enumerations are not validated, though its README says that
  enum values are; generated readers ignore conditions and pass over Chat, so that
  only a client can read `player_info`, `cb_chat_message` and a `chunk_data`
  without biomes (`PassedOver`). None of these is read by the server.
- A number that cannot be read goes unnoticed, and a named value becomes the
  first of its list (`ReadNumber`, `Read` in `Config`).
- Every login failure before encryption ends the process (`Fail` in `Login`).
- The slot of a chunk that cannot be read gets the chunk read before it, and data
  that stops exactly where the buffer is full asks for room for ever
  (`OwnChunkUntilError`, `Starve` in `Anvil`). Nothing calls `anvil_get_chunks`
  yet, but the second also concerns `anvil_get_chunk`.
- Removed entries of a map are neither reused nor counted, and fill the table
  (`FindsRoom`). Nothing calls `hashmap_remove` yet.

## Not modelled, and the plan

Not modelled: the generator's lexer and parser of text, and the C structs it
prints; the command-line viewers, scripts and tests; cryptography (a message is
readable with the cipher it was written with); `json_get`, `json_apply` and the
other functions of libs/json that change nothing; inflating level.dat, which gives
the spawn; the functions of libs/hashmap and libs/list that only visit.

What the plan has left, in order:

1. Composition: `Server` with `Chat` over one list that is `LinkedList`'s; today
   both use what `Walk` promises, and `LinkedList` is shown to keep it.
2. `World` reading through `Anvil` and `Chunk`; today a chunk may fail to load, for
   whatever reason (`Unreadable`).
3. The generator's parser, from tokens to the fields that `Descriptions` lists.
