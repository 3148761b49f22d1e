---------------------------------- MODULE Nbt ----------------------------------
(***************************************************************************)
(* libs/nbt: reading a tree of tags from len bytes (nbt_unpack), writing   *)
(* it (nbt_pack), looking something up in it and freeing it.               *)
(*                                                                         *)
(* The bytes are chosen as they are read: a document is what a writer of   *)
(* NBT could have put there, and it may go on beyond len.  The recursion   *)
(* is a stack of nodes; a node is known by its place in the document, and  *)
(* the root is node 1.                                                     *)
(***************************************************************************)
EXTENDS Integers, FiniteSets, SequencesExt

CONSTANTS
  Tag,      \* tags that occur
  Text,     \* names and strings; the empty one is read as a null pointer
  Counts,   \* lengths of arrays and lists
  ElemMax,  \* the largest number the counter of elements holds, 32767
  NbtLens,  \* lengths of the data
  MaxNodes  \* bound on the nodes of a document

NoText == ""

ASSUME NbtAssumption ==
  /\ NoText \in Text /\ Counts \subseteq Nat /\ ElemMax \in Nat
  /\ NbtLens \subseteq Nat \ {0} /\ MaxNodes \in Nat \ {0}

VARIABLES
  nbtLen,   \* len
  nbtAt,    \* i, counted from the start of the document
  nodes,    \* the tree, in the document's order
  unclosed, \* nodes whose end has not been read, the innermost last
  outcome,  \* start, reading, accepted, rejected; built by nbt_new; undefined
            \* after a read beyond len or of memory nobody wrote; endless
  tape,     \* history: what was read, piece after piece
  lacked    \* history: the bytes needed where reading failed

nbtVars == <<nbtLen, nbtAt, nodes, unclosed, outcome, tape, lacked>>

Scalar == [Byte |-> 1, Short |-> 2, Int |-> 4, Long |-> 8, Float |-> 4, Double |-> 8]

Element == [Byte_Array |-> 1, Int_Array |-> 4, Long_Array |-> 8]

NameLen(s) == IF s = NoText THEN 0 ELSE 1

\* tag and name; the value of a string or the length of an array or a list; the
\* type of a list's elements; the children.
NbtNode(t, s, v, e) == [tag |-> t, name |-> s, value |-> v, type |-> e, kids |-> <<>>]

NbtTypeOK ==
  /\ nbtLen \in NbtLens /\ nbtAt \in Nat /\ lacked \in Nat
  /\ Len(nodes) \in 0..MaxNodes
  /\ \A n \in DOMAIN nodes :
       /\ nodes[n].tag \in Tag /\ nodes[n].name \in Text
       /\ ToSet(nodes[n].kids) \subseteq n + 1..Len(nodes)
  /\ ToSet(unclosed) \subseteq DOMAIN nodes
  /\ outcome \in {"start", "reading", "accepted", "rejected", "built",
                  "undefined", "endless"}

NbtFrom(l) ==
  /\ nbtLen = l /\ nbtAt = 0 /\ nodes = <<>> /\ unclosed = <<>>
  /\ outcome = "start" /\ tape = <<>> /\ lacked = 0

NbtInit == \E l \in NbtLens : NbtFrom(l)

-----------------------------------------------------------------------------
\* What is read and written: a tag, a string with its length, a value of so many
\* bytes, the number of elements.
Piece(kind, what, size) == [kind |-> kind, what |-> what, size |-> size]

TagByte(t) == Piece("tag", t, 1)
TextBytes(s) == Piece("text", s, 2 + NameLen(s))
PayloadBytes(n) == Piece("value", "", n)
CountBytes(n) == Piece("count", ToString(n), 4)

Innermost == Last(unclosed)

InList == nodes[Innermost].tag = "List"

\* A list whose elements have all been read.
AllElements(n) == nodes[n].tag = "List" /\ Len(nodes[n].kids) = nodes[n].value

\* nbt_read_bytes: what is read never ends with the data, as the end of a
\* compound follows.
InData(i, n) == i + n < nbtLen

\* A node becomes a child of the innermost unclosed one.
AttachNode(node) ==
  Append([nodes EXCEPT ![Innermost].kids = Append(@, Len(nodes) + 1)], node)

\* A tag and a name precede a child of a compound, nothing an element of a list.
HeadLen(s) == IF InList THEN 0 ELSE 3 + NameLen(s)

HeadPieces(t, s) == IF InList THEN <<>> ELSE <<TagByte(t), TextBytes(s)>>

\* nbt_read_string returns a length or 0, never an error: a name that is not
\* there is not written either, and reading goes on behind what was there.
NameFits(s) == InList \/ InData(nbtAt + 1, 2 + NameLen(s))

Take(node, size, pieces) ==
  /\ nodes' = AttachNode(node)
  /\ nbtAt' = nbtAt + HeadLen(node.name) + size
  /\ tape' = tape \o HeadPieces(node.tag, node.name) \o pieces
  /\ UNCHANGED <<nbtLen, lacked>>

EndReading(s, n) ==
  /\ outcome' = s /\ lacked' = n
  /\ UNCHANGED <<nbtLen, nbtAt, unclosed, tape>>

\* A failure that a list does not notice leaves an element nobody wrote.
FailsAs == IF \E n \in ToSet(unclosed) : nodes[n].tag = "List"
             THEN "undefined" ELSE "rejected"

MayRead == outcome = "reading" /\ ~AllElements(Innermost) /\ Len(nodes) < MaxNodes

\* The next byte is the tag of a child of this name, or an element comes next.
Upcoming(t, s) ==
  /\ MayRead /\ t \in Tag /\ (nbtAt = 0 => t # "Compound")
  /\ IF InList THEN t = nodes[Innermost].type /\ s = NoText ELSE nbtAt < nbtLen

\* A name is cut off.
CutName(t, s) ==
  /\ Upcoming(t, s) /\ ~NameFits(s)
  /\ EndReading("undefined", HeadLen(s)) /\ UNCHANGED nodes

ReadScalar(t, s) ==
  /\ Upcoming(t, s) /\ NameFits(s) /\ t \in DOMAIN Scalar
  /\ LET i == nbtAt + HeadLen(s)
         fits == IF t = "Byte" THEN i < nbtLen ELSE InData(i, Scalar[t])
     IN IF fits
          THEN Take(NbtNode(t, s, 0, "End"), Scalar[t], <<PayloadBytes(Scalar[t])>>)
               /\ UNCHANGED <<unclosed, outcome>>
          ELSE /\ nodes' = AttachNode(NbtNode(t, s, 0, "End"))
               /\ EndReading(FailsAs, HeadLen(s) + Scalar[t])

\* A string that is not there is freed or read all the same.
ReadString(s, v) ==
  /\ Upcoming("String", s) /\ NameFits(s)
  /\ IF InData(nbtAt + HeadLen(s), 2 + NameLen(v))
       THEN Take(NbtNode("String", s, v, "End"), 2 + NameLen(v), <<TextBytes(v)>>)
            /\ UNCHANGED <<unclosed, outcome>>
       ELSE EndReading("undefined", HeadLen(s) + 2 + NameLen(v)) /\ UNCHANGED nodes

\* nbt_read_array compares with len - n * size, which wraps for an array that
\* is longer than the data; a failure leaves the pointer unwritten.
ReadArray(t, s, n) ==
  /\ Upcoming(t, s) /\ NameFits(s) /\ t \in DOMAIN Element
  /\ LET size == 4 + n * Element[t]
     IN IF InData(nbtAt + HeadLen(s), size)
          THEN Take(NbtNode(t, s, n, "End"), size, <<PayloadBytes(size)>>)
               /\ UNCHANGED <<unclosed, outcome>>
          ELSE EndReading("undefined", HeadLen(s) + size) /\ UNCHANGED nodes

\* nbt_read_list reads its first byte without a test; it does not notice when
\* an element fails.
ReadList(s, e, n) ==
  /\ Upcoming("List", s) /\ NameFits(s) /\ e \in Tag /\ n \in 0..ElemMax
  /\ LET i == nbtAt + HeadLen(s)
     IN IF InData(i, 5)
          THEN /\ Take(NbtNode("List", s, n, e), 5, <<TagByte(e), CountBytes(n)>>)
               /\ unclosed' = Append(unclosed, Len(nodes) + 1) /\ UNCHANGED outcome
          ELSE /\ nodes' = AttachNode(NbtNode("List", s, n, e))
               /\ EndReading(IF i < nbtLen THEN FailsAs ELSE "undefined", HeadLen(s) + 5)

\* Its counter never reaches the length.
ReadLongList(s, e, n) ==
  /\ Upcoming("List", s) /\ NameFits(s) /\ e \in Tag /\ n > ElemMax
  /\ InData(nbtAt + HeadLen(s), 5)
  /\ EndReading("endless", 0) /\ UNCHANGED nodes

\* At the end of the data a compound has no list of children, and is freed with
\* one all the same.
ReadCompound(s) ==
  /\ Upcoming("Compound", s) /\ NameFits(s)
  /\ IF nbtAt + HeadLen(s) < nbtLen
       THEN /\ Take(NbtNode("Compound", s, 0, "End"), 0, <<>>)
            /\ unclosed' = Append(unclosed, Len(nodes) + 1) /\ UNCHANGED outcome
       ELSE EndReading("undefined", HeadLen(s) + 1) /\ UNCHANGED nodes

\* TAG_End, or the end of the data, which is not told from it; it counts as a
\* byte too.
CloseCompound ==
  /\ outcome = "reading" /\ ~InList
  /\ nbtAt' = nbtAt + 1
  /\ tape' = IF nbtAt < nbtLen THEN Append(tape, TagByte("End")) ELSE tape
  /\ unclosed' = Front(unclosed)
  /\ outcome' = IF unclosed' = <<>> THEN "accepted" ELSE outcome
  /\ UNCHANGED <<nbtLen, nodes, lacked>>

\* A list whose last element was a value.
CloseList ==
  /\ outcome = "reading" /\ AllElements(Innermost)
  /\ unclosed' = Front(unclosed)
  /\ UNCHANGED <<nbtLen, nbtAt, nodes, outcome, tape, lacked>>

\* The root's tag and name.
ReadRoot(s) ==
  /\ outcome = "start"
  /\ IF InData(1, 2 + NameLen(s))
       THEN /\ nodes' = <<NbtNode("Compound", s, 0, "End")>> /\ unclosed' = <<1>>
            /\ nbtAt' = 3 + NameLen(s) /\ tape' = <<TagByte("Compound"), TextBytes(s)>>
            /\ outcome' = "reading" /\ UNCHANGED <<nbtLen, lacked>>
       ELSE EndReading("undefined", 3 + NameLen(s)) /\ UNCHANGED nodes

\* Anything else is read as the children of a root without a name.
ReadRootless ==
  /\ outcome = "start"
  /\ nodes' = <<NbtNode("Compound", NoText, 0, "End")>> /\ unclosed' = <<1>>
  /\ outcome' = "reading" /\ UNCHANGED <<nbtLen, nbtAt, tape, lacked>>

\* nbt_new, with a tag that is not a compound: the root is an unnamed one.
NbtNew(t, s) ==
  /\ outcome = "start" /\ t \in DOMAIN Element /\ s # NoText
  /\ nodes' = <<[NbtNode("Compound", NoText, 0, "End") EXCEPT !.kids = <<2>>],
                NbtNode(t, s, 1, "End")>>
  /\ outcome' = "built" /\ UNCHANGED <<nbtLen, nbtAt, unclosed, tape, lacked>>

NbtNext ==
  \/ ReadRootless \/ CloseCompound \/ CloseList
  \/ \E s \in Text :
       \/ ReadRoot(s) \/ ReadCompound(s)
       \/ \E t \in Tag :
            \/ NbtNew(t, s) \/ CutName(t, s) \/ ReadScalar(t, s)
            \/ \E n \in Counts :
                 ReadArray(t, s, n) \/ ReadList(s, t, n) \/ ReadLongList(s, t, n)
       \/ \E v \in Text : ReadString(s, v)

NbtSpec == NbtInit /\ [][NbtNext]_nbtVars

-----------------------------------------------------------------------------
\* nbt_pack_node_data: what is written for each node, its children after it.
PackedData[n \in DOMAIN nodes] ==
  LET node == nodes[n]
      kids == FlattenSeq([j \in DOMAIN node.kids |->
                LET k == node.kids[j]
                IN IF node.tag = "Compound"
                     THEN <<TagByte(nodes[k].tag), TextBytes(nodes[k].name)>>
                            \o PackedData[k]
                     ELSE PackedData[k]])
  IN CASE node.tag \in DOMAIN Scalar -> <<PayloadBytes(Scalar[node.tag])>>
       [] node.tag = "String" -> <<TextBytes(node.value)>>
       [] node.tag \in DOMAIN Element -> <<PayloadBytes(4 + node.value * Element[node.tag])>>
       [] node.tag = "List" -> <<TagByte(node.type), CountBytes(Len(node.kids))>> \o kids
       [] node.tag = "Compound" -> Append(kids, TagByte("End"))

Pack == <<TagByte("Compound"), TextBytes(nodes[1].name)>> \o PackedData[1]

\* Mistake: the byte that ends a compound is not counted.
CompoundLenUnended(kids) == kids

CompoundLen(kids) == kids + 1

\* nbt_data_len: the room that is made for it.
DataLen[n \in DOMAIN nodes] ==
  LET node == nodes[n]
      kids == FoldLeft(LAMBDA sum, k : sum + DataLen[k]
                         + IF node.tag = "Compound" THEN 3 + NameLen(nodes[k].name) ELSE 0,
                       0, node.kids)
  IN CASE node.tag \in DOMAIN Scalar -> Scalar[node.tag]
       [] node.tag = "String" -> 2 + NameLen(node.value)
       [] node.tag \in DOMAIN Element -> 4 + node.value * Element[node.tag]
       [] node.tag = "List" -> 5 + kids
       [] node.tag = "Compound" -> CompoundLen(kids)

NbtLen == 3 + NameLen(nodes[1].name) + DataLen[1]

\* The first of a sequence of results that is not 0, or 0.
FirstFound(results) ==
  LET found == SelectSeq(results, LAMBDA r : r # 0)
  IN IF found = <<>> THEN 0 ELSE Head(found)

\* nbt_tree_search: a child comes before what is in it, and before its siblings.
TreeSearch(t, s, recurse) ==
  LET search[n \in DOMAIN nodes] ==
        FirstFound([j \in DOMAIN nodes[n].kids |->
          LET k == nodes[n].kids[j]
          IN IF nodes[k].tag = t /\ nodes[k].name = s THEN k
             ELSE IF nodes[k].tag = "Compound" /\ recurse THEN search[k]
             ELSE IF nodes[k].tag = "List" /\ nodes[k].type = "Compound" /\ recurse
               THEN FirstFound([i \in DOMAIN nodes[k].kids |-> search[nodes[k].kids[i]]])
             ELSE 0])
  IN search[1]

\* What is allocated for a node.
Cells(n) ==
  LET node == nodes[n]
      data == CASE node.tag = "String" /\ node.value # NoText -> {"data"}
                [] node.tag \in DOMAIN Element -> {"array", "data"}
                [] node.tag = "List" -> {"list", "head"}
                [] node.tag = "Compound" -> {"head"}
                [] OTHER -> {}
      name == IF node.name = NoText THEN {} ELSE {"name"}
  IN {<<c, n>> : c \in {"node"} \cup name \cup data}

\* free(NULL) frees nothing.
FreeCell(c, n) == IF <<c, n>> \in Cells(n) THEN <<<<c, n>>>> ELSE <<>>

\* Mistake: the name of every child is freed with it.
FreeNameAlways(k) == FreeCell("name", k)

\* The name of a child of a compound; a compound frees its own.
FreeName(k) == IF nodes[k].tag = "Compound" THEN <<>> ELSE FreeCell("name", k)

\* nbt_free_node_data: what is freed with each node, in this order.
NodeFrees[n \in DOMAIN nodes] ==
  LET node == nodes[n]
      kids(own) == FlattenSeq([j \in DOMAIN node.kids |->
        LET k == node.kids[j]
        IN NodeFrees[k] \o (IF own THEN FreeName(k) ELSE <<>>) \o FreeCell("node", k)])
  IN CASE node.tag = "String" -> FreeCell("data", n)
       [] node.tag \in DOMAIN Element -> FreeCell("data", n) \o FreeCell("array", n)
       [] node.tag = "List" -> kids(FALSE) \o FreeCell("head", n) \o FreeCell("list", n)
       [] node.tag = "Compound" -> FreeCell("name", n) \o kids(TRUE) \o FreeCell("head", n)
       [] OTHER -> <<>>

NbtFree == NodeFrees[1] \o FreeCell("node", 1)

-----------------------------------------------------------------------------
\* A document that lies within the data is read to its end: reading fails only
\* where the rest of it and the byte that ends its root do not fit, and lists no
\* longer than the counter come to an end.
FailsOnlyCut ==
  /\ outcome \in {"rejected", "undefined"} => nbtAt + lacked >= nbtLen
  /\ outcome = "endless" => \E n \in Counts : n > ElemMax

\* Names and strings that are empty are null pointers, which the writer and the
\* search do not expect (nbt.c:377, nbt.c:397, nbt.c:628).
AllNamed ==
  \A n \in DOMAIN nodes :
    /\ nodes[n].tag = "String" => nodes[n].value # NoText
    /\ nodes[n].tag = "Compound" => \A k \in ToSet(nodes[n].kids) : nodes[k].name # NoText

Rooted(items) == IF items # <<>> /\ Head(items) = TagByte("Compound") THEN items
                 ELSE <<TagByte("Compound"), TextBytes(NoText)>> \o items

Unended == IF nbtAt > nbtLen THEN nbtAt - nbtLen ELSE 0

\* A tree is written as it was read, item by item; one that was accepted from cut
\* data lacked nothing but the ends of compounds.
WrittenAsRead ==
  outcome = "accepted" /\ AllNamed =>
    Pack = Rooted(tape) \o [j \in 1..Unended |-> TagByte("End")]

\* nbt_pack writes as many bytes as it made room for, as it asserts (nbt.c:599).
RoomIsExact ==
  outcome \in {"accepted", "built"} /\ AllNamed =>
    NbtLen = FoldLeft(LAMBDA sum, i : sum + i.size, 0, Pack)

\* A search of the whole tree finds the first node of that tag and name in the
\* document that is not inside a list of lists (nbt.c:604-641).
Searchable(n) ==
  LET above[m \in DOMAIN nodes] ==
        {m} \cup UNION {above[p] : p \in {q \in DOMAIN nodes : m \in ToSet(nodes[q].kids)}}
  IN \A m \in above[n] \ {n} : nodes[m].tag = "List" => nodes[m].type = "Compound"

FindsFirst ==
  outcome = "accepted" /\ AllNamed =>
    \A t \in Tag, s \in Text \ {NoText} :
      LET hits == {n \in DOMAIN nodes \ {1} :
                    nodes[n].tag = t /\ nodes[n].name = s /\ Searchable(n)}
      IN TreeSearch(t, s, TRUE) = IF hits = {} THEN 0 ELSE Min(hits)

\* Reading, writing and searching NBT agree.
NbtKept == FailsOnlyCut /\ WrittenAsRead /\ RoomIsExact /\ FindsFirst

\* Whether it was accepted or rejected half-way, every part of a tree is freed
\* once, but for the buffer its root's name was read into, which nbt_new copies.
TreeFreedOnce ==
  outcome \in {"accepted", "rejected", "built"} =>
    /\ ToSet(NbtFree) = UNION {Cells(n) : n \in DOMAIN nodes}
    /\ IsInjective(NbtFree)
=============================================================================
