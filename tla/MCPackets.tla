------------------------------- MODULE MCPackets -------------------------------
(***************************************************************************)
(* Writing packets, reading them, and the functions generated for them,    *)
(* side by side: a run chooses one at the start.  They share nothing.      *)
(*                                                                         *)
(* The buffer is scaled down: groups of two bits, blocks of eight bytes,   *)
(* and a limit of 61 bytes, so that a packet crosses every number of       *)
(* blocks and its length takes one, two and three groups.  The client's    *)
(* packets have one or two bytes, and one of them has no action.           *)
(***************************************************************************)
EXTENDS Packet, Wire, Codegen, Descriptions

CONSTANT Parts \* what to choose from

VARIABLE part

vars == <<part, packetVars, wireVars, codegenVars>>

MCWriteLens == {1, 3, 8}

\* Packets that fit the first block, need more of them, need more than there may
\* be though they are shorter than the limit, and are longer than it.
MCReadLens == {5, 20, 60, 75}

MCKind == {"one", "two", "other"}

MCNeed == [one |-> 1, two |-> 2, other |-> 1]

\* A number, and a text of one character after its length.
MCAccepts == [one |-> {0, 1}, two |-> {0, 2}, other |-> {1}]

MCIgnored == {"other"}

MCLogin == <<"two", "two", "one">>

MCMode(encrypted, whole, truncated, frames) ==
  [encrypted |-> encrypted, whole |-> whole, truncated |-> truncated,
   maxFrames |-> frames]

MCPlay == MCMode(TRUE, TRUE, TRUE, 3)

MCPieces == MCMode(TRUE, FALSE, FALSE, 3)

MCBefore == MCMode(FALSE, FALSE, FALSE, 3)

MCModes == {MCPlay, MCPieces, MCBefore}

MCOnlyPieces == {MCPieces}

MCDescribed ==
  [chunk_data |-> ChunkData, player_info |-> PlayerInfo, update_light |-> UpdateLight,
   face_player |-> FacePlayer, window_items |-> WindowItems,
   encryption_request |-> EncryptionRequest, encryption_response |-> EncryptionResponse,
   handshake |-> Handshake, join_game |-> JoinGame, cb_chat_message |-> CbChatMessage,
   client_settings |-> ClientSettings, player_block_placement |-> PlayerBlockPlacement]

\* No bits, one, and more than one.
MCMasks == {0, 2, 3}

-----------------------------------------------------------------------------
Init ==
  /\ part \in Parts
  /\ PacketInit
  /\ IF part = "read" THEN WireInit
     ELSE Accepted(MCPieces)
  /\ CodegenInit /\ (part # "generate" => packet = "handshake")

Next ==
  \/ part = "write" /\ PacketNext /\ UNCHANGED <<part, wireVars, codegenVars>>
  \/ part = "read" /\ WireNext /\ UNCHANGED <<part, packetVars, codegenVars>>
  \/ part = "generate" /\ CodegenNext /\ UNCHANGED <<part, packetVars, wireVars>>

Spec == Init /\ [][Next]_vars /\ WireFairness

\* Both buffers are well-formed, and so is what is generated.
PacketsTypeOK == PacketTypeOK /\ WireTypeOK /\ CodegenTypeOK
=============================================================================
