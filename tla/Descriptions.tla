------------------------------ MODULE Descriptions ------------------------------
(***************************************************************************)
(* What the descriptions in protocol/ parse to, those with a length, a     *)
(* condition, an enumeration, a union or a Chat.  An array of fixed length *)
(* has 2 elements.                                                         *)
(***************************************************************************)
EXTENDS Integers, Sequences

\* parse_field: a field without arguments, condition or body.
FieldOf(type, name) ==
  [type |-> type, name |-> name, cond |-> <<>>, kids |-> <<>>, constants |-> <<>>,
   from |-> [how |-> "none", name |-> <<>>, n |-> 0]]

Number(name) == FieldOf("number", name)

VarInt(name) == FieldOf("varint", name)

String(name) == FieldOf("text", name)

Chat(name) == FieldOf("chat", name)

If(cond, f) == [f EXCEPT !.cond = cond]

With(f, kids) == [f EXCEPT !.kids = kids]

From(f, how, name, n) == [f EXCEPT !.from = [how |-> how, name |-> name, n |-> n]]

Enum(type, name, constants) == [FieldOf(type, name) EXCEPT !.constants = constants]

Struct(name, kids) == With(FieldOf("struct", name), kids)

Packet(kids) == Struct(<<>>, kids)

Union(enum, kids) == From(With(FieldOf("union", <<>>), kids), "enum", enum, 0)

\* Array(type) name, Array(struct s) name { ... } and ByteArray name, whose lengths
\* are name_len.
Array(name, kid) == From(With(FieldOf("array", name), <<kid>>), "len", <<>>, 0)

StructArray(name, kids) == From(With(FieldOf("struct_array", name), kids), "len", <<>>, 0)

ByteArray(name) == From(FieldOf("byte_array", name), "len", <<>>, 0)

BitCount(f, mask) == From(f, "bitcount", mask, 0)

Fixed(f) == From(f, "fixed", <<>>, 2)

-----------------------------------------------------------------------------
ChunkData == Packet(<<
  Number(<<"chunk", "x">>), Number(<<"chunk", "z">>), Number(<<"full", "chunk">>),
  VarInt(<<"primary", "bit", "mask">>), Number(<<"heightmaps">>),
  If(<<"full", "chunk">>, Fixed(Array(<<"biomes">>, Number(<<"biomes">>)))),
  VarInt(<<"data", "len">>),
  With(ByteArray(<<"data">>), <<
    BitCount(StructArray(<<"data">>, <<
      Number(<<"block", "count">>), Number(<<"bits", "per", "block">>),
      VarInt(<<"palette", "len">>), Array(<<"palette">>, VarInt(<<"palette">>)),
      VarInt(<<"data", "array", "len">>),
      Array(<<"data", "array">>, Number(<<"data", "array">>))>>),
    <<"primary", "bit", "mask">>)>>),
  VarInt(<<"block", "entities", "len">>),
  Array(<<"block", "entities">>, Number(<<"block", "entities">>))>>)

PlayerInfo == Packet(<<
  Enum("enum", <<"action">>, <<0, 1, 2, 3, 4>>),
  VarInt(<<"players", "len">>),
  StructArray(<<"players">>, <<
    Number(<<"uuid">>),
    Union(<<"action">>, <<
      Struct(<<"add", "player">>, <<
        String(<<"name">>),
        VarInt(<<"properties", "len">>),
        StructArray(<<"properties">>, <<
          String(<<"name">>), String(<<"value">>), Number(<<"is", "signed">>),
          If(<<"is", "signed">>, String(<<"signature">>))>>),
        VarInt(<<"gamemode">>), VarInt(<<"ping">>), Number(<<"has", "display", "name">>),
        If(<<"has", "display", "name">>, Chat(<<"display", "name">>))>>),
      VarInt(<<"new", "gamemode">>),
      VarInt(<<"new", "ping">>),
      Struct(<<"display", "name">>, <<
        Number(<<"has">>), If(<<"has">>, Chat(<<"name">>))>>),
      FieldOf("empty", <<"remove", "player">>)>>)>>)>>)

UpdateLight == Packet(<<
  VarInt(<<"chunk", "x">>), VarInt(<<"chunk", "z">>),
  VarInt(<<"sky", "light", "mask">>), VarInt(<<"block", "light", "mask">>),
  VarInt(<<"empty", "sky", "light", "mask">>), VarInt(<<"empty", "block", "light", "mask">>),
  BitCount(StructArray(<<"sky", "light", "arrays">>,
                       <<VarInt(<<"bytes", "len">>), ByteArray(<<"bytes">>)>>),
           <<"sky", "light", "mask">>),
  BitCount(StructArray(<<"block", "light", "arrays">>,
                       <<VarInt(<<"bytes", "len">>), ByteArray(<<"bytes">>)>>),
           <<"block", "light", "mask">>)>>)

FacePlayer == Packet(<<
  Enum("enum", <<"feet", "eyes">>, <<0, 1>>),
  Number(<<"target", "x">>), Number(<<"target", "y">>), Number(<<"target", "z">>),
  Number(<<"is", "entity">>),
  If(<<"is", "entity">>, VarInt(<<"entity", "id">>)),
  If(<<"is", "entity">>, Enum("enum", <<"entity", "feet", "eyes">>, <<0, 1>>))>>)

WindowItems == Packet(<<
  Number(<<"window", "id">>), Number(<<"slot", "data", "len">>),
  Array(<<"slot", "data">>, Number(<<"slot", "data">>))>>)

EncryptionRequest == Packet(<<
  String(<<"server", "id">>),
  VarInt(<<"pubkey", "len">>), ByteArray(<<"pubkey">>),
  VarInt(<<"verify", "token", "len">>), ByteArray(<<"verify", "token">>)>>)

EncryptionResponse == Packet(<<
  VarInt(<<"shared", "secret", "len">>), ByteArray(<<"shared", "secret">>),
  VarInt(<<"verify", "token", "len">>), ByteArray(<<"verify", "token">>)>>)

Handshake == Packet(<<
  VarInt(<<"protocol", "version">>), String(<<"server", "address">>),
  Number(<<"server", "port">>), Enum("enum", <<"next", "state">>, <<1, 2>>)>>)

JoinGame == Packet(<<
  Number(<<"entity", "id">>), Number(<<"gamemode">>),
  Enum("enum", <<"dimension">>, <<-1, 0, 1>>),
  Number(<<"hashed", "seed">>), Number(<<"max", "players">>),
  Enum("text_enum", <<"level", "type">>, <<1, 2>>),
  VarInt(<<"view", "distance">>),
  Number(<<"reduced", "debug", "info">>), Number(<<"enable", "respawn", "screen">>)>>)

ClientSettings == Packet(<<
  String(<<"locale">>), Number(<<"view", "distance">>),
  Enum("enum", <<"chat", "mode">>, <<0, 1, 2>>), Number(<<"chat", "colors">>),
  Number(<<"displayed", "skin", "parts">>), Enum("enum", <<"main", "hand">>, <<0, 1>>)>>)

PlayerBlockPlacement == Packet(<<
  Enum("enum", <<"hand">>, <<0, 1>>), Number(<<"location">>),
  Enum("enum", <<"face">>, <<0, 1, 2, 3, 4, 5>>),
  Number(<<"cursor", "pos", "x">>), Number(<<"cursor", "pos", "y">>),
  Number(<<"cursor", "pos", "z">>), Number(<<"inside", "block">>)>>)

CbChatMessage == Packet(<<Chat(<<"chat", "json">>), Enum("enum", <<"position">>, <<0, 1, 2>>)>>)
=============================================================================
