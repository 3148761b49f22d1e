--------------------------------- MODULE Blocks --------------------------------
(***************************************************************************)
(* The block table (src/blocks.c) and its use for the entries of a palette *)
(* (libs/anvil/anvil.c): both write a block and its properties as one      *)
(* name, from objects whose members come in any order.                     *)
(*                                                                         *)
(* A name is a sequence: the block, then each property and its value; one  *)
(* element stands for as many characters as the next.                      *)
(***************************************************************************)
EXTENDS Integers, FiniteSetsExt, SequencesExt

CONSTANTS
  BlockFiles, \* contents of blocks.json: block |-> its states, each with its id,
              \* whether it is the default, and property |-> value
  NameMax     \* the buffer for a name and its NUL, 256 characters

\* Ids are given out from 0, and a block has a state without properties only if that
\* is its default.
ASSUME BlocksAssumption ==
  /\ NameMax \in Nat \ {0}
  /\ \A f \in BlockFiles :
       LET states == UNION {ToSet(f[b]) : b \in DOMAIN f}
       IN /\ {s.id : s \in states} = 0..Cardinality(states) - 1
          /\ \A s \in states : s.default \/ DOMAIN s.props # {}

VARIABLES
  blockFile,  \* root, what was parsed
  blocksLeft, \* blocks hashmap_apply has not come to
  block,      \* the block whose states are added, with those that are left
  nameBuf,    \* name_with_properties
  blockTable, \* the names added to the table, each with its id
  blockNames  \* block_names: a name for each id, <<>> where there is none

blocksVars == <<blockFile, blocksLeft, block, nameBuf, blockTable, blockNames>>

States(b) == ToSet(blockFile[b])

HasProperties(s) == DOMAIN s.props # {}

\* update_block_table_size over all blocks: the names there are going to be.
TableSize(f) ==
  MapThenSumSet(LAMBDA b : Len(SelectSeq(f[b], LAMBDA s : HasProperties(s)))
                             + Len(SelectSeq(f[b], LAMBDA s : s.default)), DOMAIN f)

NoBlockLeft == [name |-> "", left |-> <<>>]

BlocksTypeOK ==
  /\ blockFile \in BlockFiles /\ blocksLeft \subseteq DOMAIN blockFile
  /\ block.left # <<>> => block.name \in DOMAIN blockFile
  /\ Len(nameBuf) < NameMax
  /\ \A e \in blockTable : Len(e[1]) < NameMax /\ e[2] \in Nat
  /\ DOMAIN blockNames = 0..TableSize(blockFile) - 1

BlocksFrom(f) ==
  /\ blockFile = f /\ blocksLeft = DOMAIN f /\ block = NoBlockLeft
  /\ nameBuf = <<>> /\ blockTable = {}
  /\ blockNames = [i \in 0..TableSize(f) - 1 |-> <<>>]

BlocksInit == \E f \in BlockFiles : BlocksFrom(f)

-----------------------------------------------------------------------------
\* qsort by strcmp of the names.
Sorted(names) == SortSeq(names, <)

\* append_properties_to_name, onto what is in the buffer; snprintf cuts it off.
Appended(buffer, props, names) ==
  LET pairs == [i \in DOMAIN names |-> <<names[i], props[names[i]]>>]
      whole == buffer \o FlattenSeq(pairs)
  IN SubSeq(whole, 1, Min({Len(whole), NameMax - 1}))

\* add_block_states begins with a block, in the order of the hash table.
NextBlock(b) ==
  /\ block.left = <<>> /\ b \in blocksLeft
  /\ block' = [name |-> b, left |-> blockFile[b]]
  /\ blocksLeft' = blocksLeft \ {b}
  /\ UNCHANGED <<blockFile, nameBuf, blockTable, blockNames>>

\* Mistake: the buffer still holds the last state's properties.
NameBufKept(b) == IF nameBuf # <<>> /\ Head(nameBuf) = b THEN nameBuf ELSE <<b>>

\* snprintf(name_with_properties, 256, "%s", name)
NameBufFor(b) == <<b>>

\* add_block_state: the default state is found by the block's name alone, and each
\* with properties by them; the id is named once.
AddBlockState ==
  /\ block.left # <<>>
  /\ LET s == Head(block.left)
         plain == NameBufFor(block.name)
         full == Appended(plain, s.props, Sorted(SetToSeq(DOMAIN s.props)))
         added == (IF s.default THEN {plain} ELSE {})
                    \cup (IF HasProperties(s) THEN {full} ELSE {})
     IN /\ nameBuf' = full
        /\ blockTable' = blockTable \cup (added \X {s.id})
        /\ blockNames' = [blockNames EXCEPT ![s.id] = IF s.default THEN plain ELSE full]
  /\ block' = [block EXCEPT !.left = Tail(@)]
  /\ UNCHANGED <<blockFile, blocksLeft>>

BlocksNext == AddBlockState \/ \E b \in blocksLeft : NextBlock(b)

BlocksSpec == BlocksInit /\ [][BlocksNext]_blocksVars

-----------------------------------------------------------------------------
\* Mistake: the properties are taken as they come.
PaletteNameUnsorted(b, props, order) ==
  <<b>> \o FlattenSeq([i \in DOMAIN order |-> <<order[i], props[order[i]]>>])

\* The name palette_entry_to_block_id writes, in a buffer that is long enough; it
\* sorts by strcoll, which is strcmp as nothing sets a locale.
PaletteName(b, props, order) ==
  LET names == Sorted(order)
  IN <<b>> \o FlattenSeq([i \in DOMAIN names |-> <<names[i], props[names[i]]>>])

\* The ids a name may be found with: one that is not in the table is air.
BlockIds(name) ==
  LET ids == {e[2] : e \in {d \in blockTable : d[1] = name}}
  IN IF ids = {} THEN {0} ELSE ids

\* Once the table is built, an entry of a palette with the properties of a state, in
\* any order, is found with that state's id, and one without them with the id of
\* its default; a name too long for the table's buffer is not found.
EntryFound ==
  blocksLeft = {} /\ block.left = <<>> =>
    \A b \in DOMAIN blockFile : \A s \in States(b) :
      /\ s.default => BlockIds(<<b>>) = {s.id}
      /\ \A order \in SetToSeqs(DOMAIN s.props) :
           LET name == PaletteName(b, s.props, order)
           IN HasProperties(s) =>
                BlockIds(name) = {IF Len(name) < NameMax THEN s.id ELSE 0}

\* The table has room for as many names as are added, and every id has one.
AllNamedOnce ==
  blocksLeft = {} /\ block.left = <<>> =>
    /\ \A b \in DOMAIN blockFile : \A s \in States(b) :
         <<blockNames[s.id], s.id>> \in blockTable
    /\ \A e \in blockTable : e[2] \in DOMAIN blockNames
    /\ Cardinality(blockTable) = TableSize(blockFile)

BlocksIdentified == EntryFound /\ AllNamedOnce
=============================================================================
