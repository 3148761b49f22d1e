--------------------------------- MODULE Chunk ---------------------------------
(***************************************************************************)
(* Making a chunk of the NBT read from a region (anvil_parse_chunk) and    *)
(* freeing it (free_chunk): arrays are moved from the tree into the chunk, *)
(* whose sections keep them after the tree is freed.                       *)
(***************************************************************************)
EXTENDS Integers, FiniteSets, Sequences

CONSTANTS
  ChunkDocs,       \* what the data of a chunk may hold
  ChunkSectionsLen \* CHUNK_SECTIONS_LEN, 18

\* Arrays of a section that are moved.
Moved == {"BlockStates", "SkyLight", "BlockLight"}

\* Whether the data can be read and has the right version; whether it has a Level
\* and that Sections, the arrays of each and whether it has a Palette; its Biomes.
ASSUME ChunkAssumption ==
  /\ ChunkSectionsLen \in Nat
  /\ \A d \in ChunkDocs :
       /\ {d.reads, d.version, d.level, d.hasSections} \subseteq BOOLEAN
       /\ d.sections \in Seq(SUBSET (Moved \cup {"Palette"}))
       /\ d.biomes \in {"none", "right", "short"}

VARIABLES
  chunkDoc,
  inTree,   \* arrays the tree points to
  sections, \* the sections of the chunk and what each points to
  biomes,   \* what the chunk's biomes point to, as a set
  stage,    \* how far anvil_parse_chunk has come; returned, freed, aborted by an
            \* assertion, or undefined beyond the array of sections
  answer,   \* the anvil_err returned
  letGo     \* history: pointer |-> how often it was freed

chunkVars == <<chunkDoc, inTree, sections, biomes, stage, answer, letGo>>

\* The arrays of a document.
Arrays(d) ==
  {p \in Moved \X DOMAIN d.sections : p[1] \in d.sections[p[2]]}
    \cup IF d.biomes = "none" THEN {} ELSE {<<"Biomes", 0>>}

\* All that may be allocated for a document.
Pointers(d) ==
  ((Moved \cup {"Palette", "section"}) \X DOMAIN d.sections)
    \cup {<<"Biomes", 0>>, <<"tree", 0>>, <<"chunk", 0>>}

ChunkTypeOK ==
  /\ inTree \subseteq Arrays(chunkDoc)
  /\ Len(sections) <= ChunkSectionsLen /\ biomes \subseteq {<<"Biomes", 0>>}
  /\ stage \in {"start", "unpacked", "sections", "returned", "freed", "aborted",
                "undefined"}
  /\ answer \in {"none", "ok", "BAD_NBT", "BAD_DATA_VERSION", "BAD_CHUNK"}
  /\ letGo \in [Pointers(chunkDoc) -> Nat]

ChunkFrom(d) ==
  /\ chunkDoc = d /\ inTree = {} /\ sections = <<>> /\ biomes = {}
  /\ stage = "start" /\ answer = "none" /\ letGo = [p \in Pointers(d) |-> 0]

ChunkInit == \E d \in ChunkDocs : ChunkFrom(d)

-----------------------------------------------------------------------------
Freeing(pointers) ==
  [p \in DOMAIN letGo |-> letGo[p] + IF p \in pointers THEN 1 ELSE 0]

\* nbt_free frees the tree and the arrays it still points to.
TreeFreed == inTree' = {} /\ letGo' = Freeing(inTree \cup {<<"tree", 0>>})

\* nbt_unpack frees what it could not read to the end.
Unpack ==
  /\ stage = "start"
  /\ IF chunkDoc.reads
       THEN inTree' = Arrays(chunkDoc) /\ stage' = "unpacked" /\ UNCHANGED answer
       ELSE stage' = "returned" /\ answer' = "BAD_NBT" /\ UNCHANGED inTree
  /\ UNCHANGED <<chunkDoc, sections, biomes, letGo>>

WrongVersion ==
  /\ stage = "unpacked" /\ ~chunkDoc.version
  /\ TreeFreed /\ stage' = "returned" /\ answer' = "BAD_DATA_VERSION"
  /\ UNCHANGED <<chunkDoc, sections, biomes>>

\* A chunk without sections is given up, and its tree is not freed.
FindSections ==
  /\ stage = "unpacked" /\ chunkDoc.version
  /\ stage' = IF ~chunkDoc.level THEN "aborted"
              ELSE IF ~chunkDoc.hasSections THEN "returned" ELSE "sections"
  /\ answer' = IF stage' = "returned" THEN "BAD_CHUNK" ELSE answer
  /\ UNCHANGED <<chunkDoc, inTree, sections, biomes, letGo>>

\* Mistake: the tree keeps its pointers to the arrays of a section.
LeftInTreeAll(k) == inTree

\* The pointer to an array that was moved is cleared.
LeftInTree(k) == inTree \ (Moved \X {k})

\* One more section; the array of them is as long as the game's chunks are high.
ParseSection ==
  LET k == Len(sections) + 1
      pointers == chunkDoc.sections[k] \X {k}
  IN /\ stage = "sections" /\ k \in DOMAIN chunkDoc.sections
     /\ IF k <= ChunkSectionsLen
          THEN /\ sections' = Append(sections, pointers)
               /\ inTree' = LeftInTree(k) /\ UNCHANGED stage
          ELSE stage' = "undefined" /\ UNCHANGED <<sections, inTree>>
     /\ UNCHANGED <<chunkDoc, biomes, answer, letGo>>

\* The biomes have a fixed length; then the rest of the tree is freed.
FinishChunk ==
  /\ stage = "sections" /\ Len(sections) = Len(chunkDoc.sections)
  /\ IF chunkDoc.biomes = "short"
       THEN stage' = "aborted" /\ UNCHANGED <<inTree, biomes, answer, letGo>>
       ELSE /\ biomes' = {<<"Biomes", 0>>} \cap inTree
            /\ letGo' = Freeing((inTree \ {<<"Biomes", 0>>}) \cup {<<"tree", 0>>})
            /\ inTree' = {} /\ stage' = "returned" /\ answer' = "ok"
  /\ UNCHANGED <<chunkDoc, sections>>

\* free_section
SectionFrees(k) == sections[k] \cup {<<"section", k>>}

\* free_chunk
FreeChunk ==
  /\ stage = "returned" /\ answer = "ok"
  /\ letGo' = [p \in DOMAIN letGo |->
                 Freeing(biomes \cup {<<"chunk", 0>>})[p]
                   + Cardinality({k \in DOMAIN sections : p \in SectionFrees(k)})]
  /\ stage' = "freed" /\ UNCHANGED <<chunkDoc, inTree, sections, biomes, answer>>

ChunkNext ==
  Unpack \/ WrongVersion \/ FindSections \/ ParseSection \/ FinishChunk \/ FreeChunk

ChunkSpec == ChunkInit /\ [][ChunkNext]_chunkVars

-----------------------------------------------------------------------------
Palettes == {<<"Palette", k>> : k \in {j \in DOMAIN sections :
                                        "Palette" \in chunkDoc.sections[j]}}

\* All that is allocated for a document that became a chunk, or did not.
ChunkMade ==
  (IF chunkDoc.reads THEN Arrays(chunkDoc) \cup {<<"tree", 0>>} ELSE {})
    \cup IF answer # "ok" THEN {}
         ELSE {<<"chunk", 0>>} \cup {<<"section", k>> : k \in DOMAIN sections}
                \cup Palettes

\* Each of S was freed once, and nothing else.
OnceEach(S) == \A p \in DOMAIN letGo : letGo[p] = IF p \in S THEN 1 ELSE 0

\* A chunk that is in use holds all that its document has for it, none of it freed
\* with the tree; when it is freed, or there is none, everything is freed once,
\* but for the tree of a chunk without sections (anvil.c:206-210).
ChunkOwned ==
  /\ \A p \in DOMAIN letGo : letGo[p] <= 1
  /\ stage = "returned" /\ answer = "ok" =>
       /\ (UNION {sections[k] : k \in DOMAIN sections}) \cup biomes =
            Arrays(chunkDoc) \cup Palettes
       /\ OnceEach({<<"tree", 0>>})
  /\ stage = "freed" \/ (stage = "returned" /\ answer # "ok") =>
       OnceEach(IF answer = "BAD_CHUNK" THEN {} ELSE ChunkMade)
=============================================================================
