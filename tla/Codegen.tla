-------------------------------- MODULE Codegen --------------------------------
(***************************************************************************)
(* The packet generator (utils/packet-auto-gen) and what it generates: the *)
(* references between the fields of a description are resolved (parser.c), *)
(* and the functions that write and read the packet (gen.c) are run, a     *)
(* field at a time.                                                        *)
(*                                                                         *)
(* A field is known by its path, the numbers of the fields from the root   *)
(* down to it, and an instance of it by the elements of the arrays it is   *)
(* in.  A name is a sequence of words.  What a packet_write function puts  *)
(* in the packet takes one place; a byte array takes one for each byte.    *)
(***************************************************************************)
EXTENDS Integers, Sequences, FiniteSets

LOCAL Ext == INSTANCE SequencesExt

LOCAL INSTANCE TLC

CONSTANTS
  Described, \* packet |-> the struct that its description parses to
  Lens,      \* lengths the server sets
  Masks,     \* bit masks it sets
  Overlong,   \* a text longer than its description allows
  NoConstant \* a value that an enumeration does not have

VARIABLES
  phase,   \* parsed, refused, write, rejected, written, read, unreadable, done
  packet,  \* the packet that is generated
  refs,    \* len_field, enum_field and the operand of a condition, by path
  agenda,  \* what is left to write or to read, in order
  members, \* the members of the struct, written or read, that others refer to
  out,     \* the packet, and on it the byte arrays with a type being written
  lossy,   \* history: something was written that the reading function passes over,
           \* or not written that it reads
  reader,  \* the generated function, or a client that goes by the description
  cursors, \* index and packet_len of the packet, and on it of the byte arrays in it
  got      \* what was read

codegenVars == <<phase, packet, refs, agenda, members, out, lossy, reader, cursors, got>>

Atoms == {"number", "varint", "text", "chat", "enum", "text_enum"}

Holders == {"struct", "struct_array", "union"}

Field(p) == Ext!FoldLeft(LAMBDA f, i : f.kids[i], Described[packet], p)

RECURSIVE PathsOf(_)
PathsOf(f) ==
  {<<>>} \cup UNION {{<<i>> \o q : q \in PathsOf(f.kids[i])} : i \in DOMAIN f.kids}

Upto(p, n) == SubSeq(p, 1, n)

Largest(S) == CHOOSE n \in S : \A m \in S : m <= n

Smallest(S) == CHOOSE n \in S : \A m \in S : n <= m

-----------------------------------------------------------------------------
\* Mistake: only the fields of the packet itself have names.
ParentsOutermost(p) == {0}

\* create_parent_links: the fields above p whose kids have names of their own.
Parents(p) == {n \in 0..Len(p) - 1 : Field(Upto(p, n)).type \in Holders}

Nowhere == <<0>>

Named(name, sought, exact) == IF exact THEN name = sought ELSE Ext!IsPrefix(sought, name)

\* find_field: the first kid, of the innermost struct that has one, whose name
\* begins with the one that is sought.  The search ends at a union.
FindField(p, sought, types, exact) ==
  LET found(n) == {i \in DOMAIN Field(Upto(p, n)).kids :
                     LET k == Field(Upto(p, n)).kids[i]
                     IN Named(k.name, sought, exact) /\ k.type \in types}
      unions == {n \in Parents(p) : Field(Upto(p, n)).type = "union"}
      hits == {n \in Parents(p) : found(n) # {} /\ \A u \in unions : u < n}
  IN IF hits = {} THEN Nowhere
     ELSE Append(Upto(p, Largest(hits)), Smallest(found(Largest(hits))))

\* resolve_field_name_refs; without a length of its own an array has one that is
\* named after it.
Resolved(exact) ==
  LET paths == PathsOf(Described[packet])
      any == {Field(p).type : p \in paths}
      ref(p) == LET f == Field(p)
                IN CASE f.from.how = "len" -> FindField(p, f.name \o <<"len">>, any, exact)
                     [] f.from.how = "bitcount" -> FindField(p, f.from.name, any, exact)
                     [] f.from.how = "enum" -> FindField(p, f.from.name, {"enum", "text_enum"}, exact)
                     [] OTHER -> <<>>
      cond(p) == IF Field(p).cond = <<>> THEN <<>> ELSE FindField(p, Field(p).cond, any, exact)
  IN [p \in paths |-> [from |-> ref(p), cond |-> cond(p)]]

Referred == UNION {{refs[p].from, refs[p].cond} : p \in DOMAIN refs} \ {<<>>}

\* FT_BYTE_ARRAY_LEN: the lengths of the byte arrays that have a type.
ByteArrayLens ==
  {refs[p].from : p \in {q \in DOMAIN refs : Field(q).type = "byte_array" /\ Field(q).kids # <<>>}}

-----------------------------------------------------------------------------
Task(p, idx) == [path |-> p, idx |-> idx, closes |-> FALSE]

Current == Head(agenda)

CurrentField == Field(Current.path)

Ref == refs[Current.path].from

\* put_path: the member q that is in scope where the elements idx are at hand.
Member(q, idx) ==
  <<q, Upto(idx, Cardinality({n \in 1..Len(q) :
                   Field(Upto(q, n - 1)).type \in {"array", "struct_array"}}))>>

Value(q) == members[Member(q, Current.idx)]

\* put_bitcount.
Bits(n) == Cardinality({b \in 0..7 : (n \div 2^b) % 2 = 1})

\* put_struct_array_len, put_array.
Count ==
  CASE CurrentField.from.how = "fixed" -> CurrentField.from.n
    [] CurrentField.from.how = "len" -> Value(Ref)
    [] CurrentField.from.how = "bitcount" -> Bits(Value(Ref))

Each(idx) == [i \in DOMAIN CurrentField.kids |-> Task(Append(Current.path, i), idx)]

\* What write_fields and put_array and write_union, and their counterparts, go on
\* with: the kid of a union that has the place of the constant.
Inside ==
  CASE CurrentField.type = "struct" -> Each(Current.idx)
    [] CurrentField.type \in {"array", "struct_array"} ->
         Ext!FlattenSeq([k \in 1..Count |-> Each(Append(Current.idx, k))])
    [] CurrentField.type = "union" ->
         LET constants == Field(Ref).constants
         IN SelectSeq(Each(Current.idx),
              LAMBDA t : \E i \in DOMAIN constants : /\ i = t.path[Len(t.path)]
                                                     /\ constants[i] = Value(Ref))
    [] OTHER -> <<>>

Excluded == CurrentField.cond # <<>> /\ Value(refs[Current.path].cond) = 0

\* The next field to write or read has one of these types.
At(step, types) ==
  /\ phase = step /\ agenda # <<>>
  /\ ~Current.closes /\ CurrentField.type \in types

Closing(step) == phase = step /\ agenda # <<>> /\ Current.closes

Goes(tasks) == agenda' = tasks \o Tail(agenda)

Remember(q, idx, n) ==
  members' = IF q \in Referred THEN (Member(q, idx) :> n) @@ members ELSE members

-----------------------------------------------------------------------------
\* pc is given a description.
CodegenInit ==
  /\ phase = "parsed" /\ packet \in DOMAIN Described
  /\ refs = <<>> /\ agenda = <<>> /\ members = <<>> /\ out = <<>> /\ lossy = FALSE
  /\ reader = "none" /\ cursors = <<>> /\ got = <<>>

\* Nothing is generated when a name is not found.
Resolve ==
  /\ phase = "parsed"
  /\ refs' = Resolved(FALSE)
  /\ IF \E p \in DOMAIN refs' : Nowhere \in {refs'[p].from, refs'[p].cond}
       THEN phase' = "refused" /\ UNCHANGED <<agenda, out>>
       ELSE phase' = "write" /\ agenda' = <<Task(<<>>, <<>>)>> /\ out' = <<<<>>>>
  /\ UNCHANGED <<packet, members, lossy, reader, cursors, got>>

\* What the server may have put in a member of the struct.
Settable ==
  LET f == CurrentField
      refersBy(how) == \E p \in DOMAIN refs : refs[p].from = Current.path /\ Field(p).from.how = how
  IN CASE f.type \in {"enum", "text_enum"} -> Ext!ToSet(f.constants) \cup {NoConstant}
       [] f.type \in {"text", "chat"} -> {0, Overlong}
       [] \E p \in DOMAIN refs : refs[p].cond = Current.path -> {0, 1}
       [] refersBy("bitcount") -> Masks
       [] refersBy("len") -> Lens
       [] OTHER -> {0}

Put(items) == out' = [out EXCEPT ![Len(out)] = @ \o items]

WriteUnchanged == UNCHANGED <<packet, refs, reader, cursors, got>>

\* A condition that does not hold.
WriteNothing ==
  /\ At("write", {CurrentField.type}) /\ Excluded
  /\ Goes(<<>>) /\ lossy' = TRUE
  /\ UNCHANGED <<phase, members, out>> /\ WriteUnchanged

\* A text that is too long, or that is none of an enumeration's, is an error; a
\* number that is none of an enumeration's is not.  The length of a byte array with
\* a type is not written in its place.
WriteAtom ==
  /\ At("write", Atoms) /\ ~Excluded
  /\ LET f == CurrentField
     IN IF Current.path \in ByteArrayLens
          THEN Goes(<<>>) /\ UNCHANGED <<phase, members, out, lossy>>
        ELSE \E n \in Settable :
          IF n = Overlong \/ (f.type = "text_enum" /\ n = NoConstant)
            THEN phase' = "rejected" /\ UNCHANGED <<agenda, members, out, lossy>>
            ELSE /\ Goes(<<>>) /\ Put(<<[path |-> Current.path, idx |-> Current.idx, n |-> n]>>)
                 /\ Remember(Current.path, Current.idx, n)
                 /\ lossy' = (lossy \/ f.type = "chat") /\ UNCHANGED phase
  /\ WriteUnchanged

WriteInside ==
  /\ At("write", {"struct", "struct_array", "array", "union", "empty"}) /\ ~Excluded
  /\ Goes(Inside)
  /\ UNCHANGED <<phase, members, out, lossy>> /\ WriteUnchanged

ByteItems(n) ==
  [k \in 1..n |-> [path |-> Current.path, idx |-> Append(Current.idx, k), n |-> 0]]

Opened == <<Task(Append(Current.path, 1), Current.idx), [Current EXCEPT !.closes = TRUE]>>

\* write_byte_array: with a type it is a packet of its own.
WriteByteArray ==
  /\ At("write", {"byte_array"}) /\ ~Excluded
  /\ IF CurrentField.kids = <<>>
       THEN Goes(<<>>) /\ Put(ByteItems(Count))
       ELSE Goes(Opened) /\ out' = Append(out, <<>>)
  /\ UNCHANGED <<phase, members, lossy>> /\ WriteUnchanged

\* Mistake: the length is written after the bytes.
LengthThenBytesSwapped(len, bytes) == bytes \o <<len>>

LengthThenBytes(len, bytes) == <<len>> \o bytes

\* Then its length, which is set to what was written, and what was written.
WriteByteArrayEnd ==
  /\ Closing("write")
  /\ LET bytes == out[Len(out)]
         len == [path |-> Ref, idx |-> Member(Ref, Current.idx)[2], n |-> Len(bytes)]
     IN /\ out' = [k \in 1..Len(out) - 1 |->
                     IF k < Len(out) - 1 THEN out[k] ELSE out[k] \o LengthThenBytes(len, bytes)]
        /\ Remember(Ref, Current.idx, Len(bytes))
  /\ Goes(<<>>)
  /\ UNCHANGED <<phase, lossy>> /\ WriteUnchanged

Written ==
  /\ phase = "write" /\ agenda = <<>> /\ phase' = "written"
  /\ UNCHANGED <<packet, refs, agenda, members, out, lossy, reader, cursors, got>>

Write == WriteNothing \/ WriteAtom \/ WriteInside \/ WriteByteArray \/ WriteByteArrayEnd \/ Written

-----------------------------------------------------------------------------
\* The packet is read by the generated function, or by a client for whom a name
\* is the whole name.
StartReading ==
  /\ phase = "written" /\ phase' = "read"
  /\ reader' \in {"generated", "client"}
  /\ refs' = IF reader' = "client" THEN Resolved(TRUE) ELSE refs
  /\ agenda' = <<Task(<<>>, <<>>)>> /\ members' = <<>> /\ got' = <<>>
  /\ cursors' = <<[at |-> 0, len |-> Len(out[1])]>>
  /\ UNCHANGED <<packet, out, lossy>>

ReadUnchanged == UNCHANGED <<packet, refs, out, lossy, reader>>

\* The client passes over what a condition excludes; the generated function over
\* a Chat, for which there is no packet_read function.
PassedOver ==
  IF reader = "client" THEN Excluded ELSE CurrentField.type = "chat"

ReadNothing ==
  /\ At("read", {CurrentField.type}) /\ PassedOver
  /\ Goes(<<>>)
  /\ UNCHANGED <<phase, members, cursors, got>> /\ ReadUnchanged

Cursor == cursors[Len(cursors)]

Advance(n) == cursors' = [cursors EXCEPT ![Len(cursors)].at = @ + n]

Took(n) == [path |-> Current.path, idx |-> Current.idx, n |-> n]

\* Nobody looks at what the reading of a number returns: at the end it keeps
\* the value it had.  A VarInt and a text have none there.
ReadAtom ==
  /\ At("read", Atoms) /\ ~PassedOver
  /\ LET left == Cursor.at < Cursor.len /\ Cursor.at < Len(out[1])
         values == IF left THEN {out[1][Cursor.at + 1].n}
                   ELSE IF CurrentField.type = "number" THEN Settable ELSE {0}
     IN \E n \in values :
          /\ got' = Append(got, Took(n))
          /\ Remember(Current.path, Current.idx, n)
          /\ IF left THEN Advance(1) ELSE UNCHANGED cursors
  /\ Goes(<<>>)
  /\ UNCHANGED phase /\ ReadUnchanged

ReadInside ==
  /\ At("read", {"struct", "struct_array", "array", "union", "empty"}) /\ ~PassedOver
  /\ Goes(Inside)
  /\ UNCHANGED <<phase, members, cursors, got>> /\ ReadUnchanged

\* read_byte_array: with a type it is a packet of its own, of the length before it.
ReadByteArray ==
  /\ At("read", {"byte_array"}) /\ ~PassedOver
  /\ IF CurrentField.kids # <<>>
       THEN /\ Goes(Opened) /\ cursors' = Append(cursors, [at |-> Cursor.at, len |-> Cursor.at + Count])
            /\ UNCHANGED <<phase, got>>
     ELSE IF Cursor.at + Count <= Cursor.len
       THEN /\ Goes(<<>>) /\ Advance(Count) /\ got' = got \o ByteItems(Count)
            /\ UNCHANGED phase
       ELSE phase' = "unreadable" /\ UNCHANGED <<agenda, cursors, got>>
  /\ UNCHANGED members /\ ReadUnchanged

ReadByteArrayEnd ==
  /\ Closing("read")
  /\ Goes(<<>>)
  /\ cursors' = [k \in 1..Len(cursors) - 1 |->
                   IF k < Len(cursors) - 1 THEN cursors[k]
                   ELSE [cursors[k] EXCEPT !.at = @ + Value(Ref)]]
  /\ UNCHANGED <<phase, members, got>> /\ ReadUnchanged

ReadDone ==
  /\ phase = "read" /\ agenda = <<>> /\ phase' = "done"
  /\ UNCHANGED <<agenda, members, cursors, got>> /\ ReadUnchanged

ReadBack ==
  ReadNothing \/ ReadAtom \/ ReadInside \/ ReadByteArray \/ ReadByteArrayEnd \/ ReadDone

CodegenNext == Resolve \/ Write \/ StartReading \/ ReadBack

CodegenSpec == CodegenInit /\ [][CodegenNext]_codegenVars

-----------------------------------------------------------------------------
CodegenTypeOK ==
  /\ phase \in {"parsed", "refused", "write", "rejected", "written", "read", "unreadable",
                "done"}
  /\ packet \in DOMAIN Described /\ lossy \in BOOLEAN
  /\ reader \in {"none", "generated", "client"}
  /\ phase = "written" => Len(out) = 1
  /\ \A k \in DOMAIN cursors : 0 <= cursors[k].at

\* Every name in a description is found.  A client that goes by the description
\* reads what was written and no more, whatever lengths, masks, conditions and
\* constants it was written with; so does the generated function, unless it was
\* written without a field whose condition does not hold, or with a Chat.
ReadsBack ==
  /\ phase # "refused"
  /\ reader = "client" \/ ~lossy =>
       /\ phase # "unreadable"
       /\ phase = "done" => got = out[1] /\ Cursor.at = Len(out[1])
=============================================================================
