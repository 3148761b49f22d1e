-------------------------------- MODULE MCLibs --------------------------------
(***************************************************************************)
(* The sequential libraries side by side: a run chooses one of them at the *)
(* start, and the others stay in one of their initial states.  They share  *)
(* nothing, so no behaviour of any of them is left out.                    *)
(***************************************************************************)
EXTENDS Positions, LinkedList, Hashmap, Section, Anvil, Nbt, Json, Blocks, Chunk, Tick

CONSTANT Parts \* libraries to choose from

VARIABLE part

vars == <<part, along, listVars, mapVars, sectionVars, anvilVars, nbtVars, jsonVars,
          blocksVars, chunkVars, paceVars>>

-----------------------------------------------------------------------------
\* Values of the constants.
MCKey == 1..4

\* The hash functions, up to a renaming of the keys, whose homes are the first and
\* the last entry of every table (0 and 11: tables grow from 1 to 4 and from 3 to 6),
\* and one that gives each key an entry of its own once the table is large.
MCHashes ==
  {h \in [MCKey -> {0, 11}] : \A k \in 1..3 : h[k] <= h[k + 1]}
    \cup {[k \in MCKey |-> k]}

MCOneValue == {1}

\* Indexes of 4 and 8 bits never straddle two longs; those of 5, 6 and 7 bits do
\* at every boundary or at all but one in Longs.  The smallest and the full
\* palettes are among them.
MCPaletteLens == {1, 5, 17, 40, 128, 256}

MCEntry(kind, sectors, size, parses) ==
  [kind |-> kind, sectors |-> sectors, size |-> size, parses |-> parses]

MCMissing == MCEntry("missing", 1, 1, TRUE)

\* Data that fits the sectors in its header (a sector is two units) or needs two
\* pages beyond, and all that may fail; what is cut fills the buffer of its own
\* sector and not one that a chunk before it left larger.
MCEntries ==
  {MCEntry("whole", 1, 5, TRUE), MCEntry("whole", 2, 4, TRUE),
   MCEntry("whole", 1, 1, FALSE), MCEntry("cut", 1, 2, TRUE),
   MCEntry("unreadable", 1, 1, TRUE), MCEntry("foreign", 1, 1, TRUE),
   MCEntry("corrupt", 1, 1, TRUE), MCMissing}

\* The region, a column, and a range that leaves it.
MCRanges == {<<0, 0, 1, 1>>, <<1, 0, 1, 1>>, <<0, 0, 2, 1>>}

MCLoaded == {{}, {<<1, 0>>}}

\* One tag of each kind that the code treats differently.
MCTag == {"Byte", "Long", "String", "Byte_Array", "List", "Compound"}

\* Arrays and lists without elements, with as many as a list may have, and with more;
\* data that ends within the first tag, between two tags, in a list, and after all.
MCCounts == {0, 2, 3}

MCNbtLens == {8, 13, 20}

MCForm(outside, inside, max) == [outside |-> outside, inside |-> inside, max |-> max]

\* Objects and arrays in each other, with members of the same name; whitespace;
\* numbers; escapes; words.
MCForms ==
  {MCForm({"{", "}", ",", ":", "Q", "1"}, {"Q"}, 11),
   MCForm({"{", "}", "[", "]", ",", ":", "Q", "1"}, {"Q"}, 8),
   MCForm({"{", "}", "[", "]", ",", ":", "Q", " "}, {"Q"}, 7),
   MCForm({"1", "-", ".", "e", " "}, {}, 7), MCForm({"[", "]", ",", "1", "-", " "}, {}, 5),
   MCForm({"[", "]", ",", "Q"}, {"Q", "\\", "n", "x", "^"}, 7),
   MCForm({"[", "]", ",", "true", " ", "x"}, {}, 5)}

MCState(i, default, props) == [id |-> i, default |-> default, props |-> props]

MCPlain == [p \in {} |-> 0]

\* A block without properties, one with one, two of which one has properties that
\* sort differently from how they come, and one with a name too long for the table.
MCBlockFiles ==
  {("air" :> <<MCState(0, TRUE, MCPlain)>>)
     @@ ("grass" :> <<MCState(1, FALSE, 7 :> 1), MCState(2, TRUE, 7 :> 0)>>)
     @@ ("lever" :> <<MCState(3, TRUE, 5 :> 1 @@ 3 :> 0), MCState(4, FALSE, 5 :> 0 @@ 3 :> 0),
                      MCState(5, FALSE, 5 :> 0 @@ 3 :> 1)>>)
     @@ ("wire" :> <<MCState(6, FALSE, 5 :> 1 @@ 3 :> 0 @@ 4 :> 0),
                     MCState(7, TRUE, 5 :> 1 @@ 3 :> 0 @@ 4 :> 1)>>),
   ("air" :> <<MCState(0, TRUE, MCPlain)>>)
     @@ ("long" :> <<MCState(1, TRUE, [p \in 1..4 |-> 0]),
                     MCState(2, FALSE, [p \in 1..4 |-> p \div 4])>>)}

MCDoc(reads, version, level, has, s, b) ==
  [reads |-> reads, version |-> version, level |-> level, hasSections |-> has,
   sections |-> s, biomes |-> b]

\* Data that fails in each way, and every pair of sections and one section too many,
\* with and without biomes.
MCChunkDocs ==
  {MCDoc(FALSE, TRUE, TRUE, TRUE, <<>>, "none"), MCDoc(TRUE, FALSE, TRUE, TRUE, <<>>, "right"),
   MCDoc(TRUE, TRUE, FALSE, TRUE, <<>>, "none"), MCDoc(TRUE, TRUE, TRUE, FALSE, <<>>, "right")}
  \cup {MCDoc(TRUE, TRUE, TRUE, TRUE, s, b) :
          s \in SeqOf(SUBSET (Moved \cup {"Palette"}), 2) \cup {<<{}, Moved, {"Palette"}>>},
          b \in {"none", "right", "short"}}

\* Work that takes no time, less than a tick, all of it, more, and more than seconds.
MCWorks == {0, 1, 2, 3, 9}

-----------------------------------------------------------------------------
First(S) == CHOOSE e \in S : TRUE

\* Where the libraries that are not chosen stay.
NoNode == First(Node)
NoForm == First(Forms)
NoFile == First(BlockFiles)
NoDoc == First(ChunkDocs)

Init ==
  /\ part \in Parts
  /\ IF part = "coords" THEN PositionsInit ELSE AlongFrom(0)
  /\ IF part = "list" THEN ListInit ELSE NewList(NoNode)
  /\ IF part = "hashmap" THEN MapInit ELSE NewMap([k \in Key |-> 0], 1)
  /\ IF part = "section" THEN SectionInit ELSE SectionFrom(1, 1)
  /\ IF part = "anvil"
       THEN AnvilInit
       ELSE AnvilFrom([c \in Chunk |-> MCMissing], <<0, 0, 1, 1>>, {})
  /\ IF part = "nbt" THEN NbtInit ELSE NbtFrom(First(NbtLens))
  /\ IF part = "json" THEN JsonInit ELSE JsonFrom(NoForm, "end")
  /\ IF part = "blocks" THEN BlocksInit ELSE BlocksFrom(NoFile)
  /\ IF part = "chunk" THEN ChunkInit ELSE ChunkFrom(NoDoc)
  /\ IF part = "tick" THEN TickInit ELSE TickFrom(0)

Next ==
  \/ /\ part = "coords" /\ PositionsNext
     /\ UNCHANGED <<part, listVars, mapVars, sectionVars, anvilVars, nbtVars,
                    jsonVars, blocksVars, chunkVars, paceVars>>
  \/ /\ part = "list" /\ ListStep
     /\ UNCHANGED <<part, along, mapVars, sectionVars, anvilVars, nbtVars,
                    jsonVars, blocksVars, chunkVars, paceVars>>
  \/ /\ part = "hashmap" /\ MapNext
     /\ UNCHANGED <<part, along, listVars, sectionVars, anvilVars, nbtVars,
                    jsonVars, blocksVars, chunkVars, paceVars>>
  \/ /\ part = "section" /\ SectionNext
     /\ UNCHANGED <<part, along, listVars, mapVars, anvilVars, nbtVars,
                    jsonVars, blocksVars, chunkVars, paceVars>>
  \/ /\ part = "anvil" /\ AnvilNext
     /\ UNCHANGED <<part, along, listVars, mapVars, sectionVars, nbtVars,
                    jsonVars, blocksVars, chunkVars, paceVars>>
  \/ /\ part = "nbt" /\ NbtNext
     /\ UNCHANGED <<part, along, listVars, mapVars, sectionVars, anvilVars,
                    jsonVars, blocksVars, chunkVars, paceVars>>
  \/ /\ part = "json" /\ JsonNext
     /\ UNCHANGED <<part, along, listVars, mapVars, sectionVars, anvilVars,
                    nbtVars, blocksVars, chunkVars, paceVars>>
  \/ /\ part = "blocks" /\ BlocksNext
     /\ UNCHANGED <<part, along, listVars, mapVars, sectionVars, anvilVars,
                    nbtVars, jsonVars, chunkVars, paceVars>>
  \/ /\ part = "chunk" /\ ChunkNext
     /\ UNCHANGED <<part, along, listVars, mapVars, sectionVars, anvilVars,
                    nbtVars, jsonVars, blocksVars, paceVars>>
  \/ /\ part = "tick" /\ TickNext
     /\ UNCHANGED <<part, along, listVars, mapVars, sectionVars, anvilVars,
                    nbtVars, jsonVars, blocksVars, chunkVars>>

Spec == Init /\ [][Next]_vars

\* Each library's state is well-formed; both longs of each of the 4096 blocks of a
\* section are inside its array, whatever is in it (section.c:45-66).
LibsTypeOK ==
  /\ ListTypeOK /\ MapTypeOK /\ SectionTypeOK /\ AnvilTypeOK
  /\ NbtTypeOK /\ JsonTypeOK /\ BlocksTypeOK /\ ChunkTypeOK /\ TickTypeOK
  /\ part = "section" /\ boundary = 1 /\ placed = NoBlock => InBounds

\* What is read is what was written: NBT by whoever packed it, JSON as its grammar
\* says, a palette's entries by the names of the block table, whatever order their
\* properties come in (nbt.c, json.c, blocks.c).
ReadRight == NbtKept /\ TextUnderstood /\ BlocksIdentified

\* Whether reading succeeded or failed half-way, and though a chunk takes arrays out
\* of the tree it is read from, everything allocated for a document is freed once
\* (nbt.c:29-94, json.c:500-521, anvil.c:193-290).
FreedOnce == TreeFreedOnce /\ ValuesFreedOnce /\ ChunkOwned
=============================================================================
