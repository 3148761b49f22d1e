--------------------------------- MODULE Wire ---------------------------------
(***************************************************************************)
(* Reading one client's packets from its socket: packet_read_header        *)
(* (packet.c) before encryption is set up, parse_encrypted_packet (conn.c) *)
(* after, and the reading functions on the buffer that both fill.          *)
(*                                                                         *)
(* A frame is a length, an id and a payload; the length counts the id.     *)
(* Lengths and ids take one byte.  A byte is known by its frame and place; *)
(* one that is read for something it is not may have any value.            *)
(***************************************************************************)
EXTENDS Integers, Sequences, FiniteSets

CONSTANTS
  Kind,      \* packet ids
  Need,      \* Kind |-> bytes that the reading function takes
  Accepts,   \* Kind |-> how many of them it must find: a number that is missing is
             \* not missed, nor is the length of a text, only its characters
  Ignored,   \* kinds without an action in play
  Login,     \* the kinds that are read, in this order, before encryption
  ZeroId,    \* the kind with the id 0
  Finished,  \* FINISHED_PACKET_ID
  Modes,     \* connections to consider
  Cap        \* bound on the length of a frame

\* encrypted: in play; otherwise before encryption.  whole: frames arrive in one
\* piece and the client closes between them.  truncated: frames may lack the end
\* of their payload.  maxFrames bounds the frames sent.
Mode == [encrypted : BOOLEAN, whole : BOOLEAN, truncated : BOOLEAN, maxFrames : Nat]

ASSUME WireAssumption ==
  /\ Need \in [Kind -> 0..Cap - 1] /\ Ignored \subseteq Kind
  /\ \A k \in Kind : Need[k] \in Accepts[k] /\ Accepts[k] \subseteq 0..Need[k]
  /\ Login \in Seq(Kind) /\ ZeroId \in Kind /\ Finished \notin Kind
  /\ Cap \in Nat \ {0}
  /\ Modes \subseteq Mode /\ \A m \in Modes : Len(Login) >= m.maxFrames

VARIABLES
  mode,      \* the kind of connection, fixed
  sent,      \* the frames of the client
  flight,    \* bytes on their way
  arrived,   \* bytes that read() can return
  closed,    \* the client has closed its end
  pc,        \* what the server reads next; stopped
  packetId,  \* packet_id
  readLen,   \* packet_len
  readIndex, \* index
  buffer,    \* data, 0..Cap - 1
  handled,   \* history: packets that were read and acted on
  result,    \* why the server stopped: closed, error, hangs, aborts
  short      \* history: the end of what had arrived was taken for bytes of a frame

client == <<mode, sent, flight, closed>>

server == <<pc, packetId, readLen, readIndex, buffer, handled, result, short>>

wireVars == <<client, arrived, server>>

Encrypted == mode.encrypted

ClientFrame == {f \in [kind : Kind, size : 0..Cap - 1] :
            \/ f.size = Need[f.kind]
            \/ mode.truncated /\ f.size < Need[f.kind]}

\* The length and the id come before the payload.
LengthAt == -1

IdAt == 0

BytesOf(n, f) == [i \in 1..f.size + 2 |-> [frame |-> n, at |-> i - 2]]

Stale == [frame |-> 0, at |-> 0]

WireTypeOK ==
  /\ mode \in Modes
  /\ sent \in Seq(ClientFrame) /\ Len(sent) <= mode.maxFrames
  /\ closed \in BOOLEAN /\ pc \in {"length", "id", "body", "stopped"}
  /\ packetId \in Kind \cup {Finished}
  /\ readLen \in 0..Cap /\ readIndex \in 0..Cap
  /\ DOMAIN buffer = 0..Cap - 1
  /\ result \in {"none", "closed", "error", "hangs", "aborts"}
  /\ short \in BOOLEAN

\* A connection of mode m is accepted.  The packet was another connection's.
Accepted(m) ==
  /\ mode = m
  /\ sent = <<>> /\ flight = <<>> /\ arrived = <<>> /\ closed = FALSE
  /\ pc = "length" /\ packetId \in IF m.encrypted THEN {Finished} ELSE Kind \cup {Finished}
  /\ readLen = 0 /\ readIndex = 0
  /\ buffer = [i \in 0..Cap - 1 |-> Stale]
  /\ handled = <<>> /\ result = "none" /\ short = FALSE

WireInit == \E m \in Modes : Accepted(m)

-----------------------------------------------------------------------------
\* Before encryption the client keeps to the order of a login.
Send(f) ==
  /\ ~closed /\ Len(sent) < mode.maxFrames
  /\ Encrypted \/ f.kind = Login[Len(sent) + 1]
  /\ sent' = Append(sent, f)
  /\ flight' = flight \o BytesOf(Len(sent) + 1, f)
  /\ UNCHANGED <<mode, arrived, closed>> /\ UNCHANGED server

Pieces == {k \in 1..Len(flight) :
             mode.whole /\ k < Len(flight) => flight[k + 1].at = LengthAt}

Arrive ==
  /\ \E k \in Pieces :
       /\ arrived' = arrived \o SubSeq(flight, 1, k)
       /\ flight' = SubSeq(flight, k + 1, Len(flight))
  /\ UNCHANGED <<mode, sent, closed>> /\ UNCHANGED server

\* What was on its way may be lost.
Close ==
  /\ ~closed /\ closed' = TRUE
  /\ flight' \in IF mode.whole THEN {flight}
                 ELSE {SubSeq(flight, 1, k) : k \in 0..Len(flight)}
  /\ UNCHANGED <<mode, sent, arrived>> /\ UNCHANGED server

-----------------------------------------------------------------------------
AtEnd == closed /\ flight = <<>> /\ arrived = <<>>

LengthsIn(b) == IF b.at = LengthAt THEN {sent[b.frame].size + 1} ELSE 0..Cap

KindsIn(b) == IF b.at = IdAt /\ b # Stale THEN {sent[b.frame].kind} ELSE Kind

\* The bytes from index i that the reading function of kind k finds and takes.
Taken(k, d, i, len) ==
  LET left == IF i < len THEN len - i ELSE 0
  IN [j \in 1..(IF left < Need[k] THEN left ELSE Need[k]) |-> d[i + j - 1]]

\* Mistake: a packet that is rejected ends the connection.
HandleCloses(k, d, i, len) ==
  LET bytes == Taken(k, d, i, len)
  IN /\ readIndex' = i + Len(bytes)
     /\ IF Len(bytes) \in Accepts[k]
          THEN /\ pc' = "length" /\ UNCHANGED result
               /\ handled' = Append(handled, [kind |-> k, payload |-> bytes])
          ELSE pc' = "stopped" /\ result' = "closed" /\ UNCHANGED handled

\* The reading function of kind k, and what is done with what it read.  What it
\* does not find keeps whatever value it had.  In play a packet that is rejected
\* is passed over; before, it ends the connection.
Handle(k, d, i, len) ==
  LET bytes == Taken(k, d, i, len)
  IN IF Encrypted /\ k \in Ignored
       THEN pc' = "length" /\ readIndex' = i /\ UNCHANGED <<handled, result>>
     ELSE /\ readIndex' = i + Len(bytes)
          /\ IF Len(bytes) \in Accepts[k]
               THEN /\ pc' = "length" /\ UNCHANGED result
                    /\ handled' = Append(handled, [kind |-> k, payload |-> bytes])
               ELSE /\ pc' = IF Encrypted THEN "length" ELSE "stopped"
                    /\ result' = IF Encrypted THEN result ELSE "error"
                    /\ UNCHANGED handled

Stop(r) ==
  /\ pc' = "stopped" /\ result' = r
  /\ UNCHANGED <<client, packetId, readIndex, buffer, handled, short>>

\* Before encryption the reading function of the packet that is expected asserts
\* that id is its own.
HandleExpected(id, d, i, len) ==
  LET k == Login[Len(handled) + 1]
  IN IF id = k THEN Handle(k, d, i, len)
     ELSE pc' = "stopped" /\ result' = "aborts" /\ UNCHANGED <<readIndex, handled>>

\* The server writes its packets in the same buffer.
Reply ==
  /\ pc = "length" /\ ~Encrypted
  /\ buffer' = [i \in DOMAIN buffer |-> Stale] /\ readIndex' = 1
  /\ packetId' = Finished
  /\ UNCHANGED <<client, arrived, pc, readLen, handled, result, short>>

\* Before encryption packets are read as long as the login expects one.
Expecting == Encrypted \/ Len(handled) < Len(Login)

ReadLength ==
  /\ pc = "length" /\ Expecting /\ arrived # <<>>
  /\ readLen' \in LengthsIn(Head(arrived))
  /\ arrived' = Tail(arrived)
  /\ pc' = IF Encrypted THEN "body" ELSE "id"
  /\ UNCHANGED <<client, packetId, readIndex, buffer, handled, result, short>>

\* Mistakes: what read() returned goes into the length; the end of the stream
\* is passed over like a packet without an action.
ReadLengthEndStores ==
  /\ pc = "length" /\ Expecting /\ AtEnd /\ readLen' = -1
  /\ Stop("closed") /\ UNCHANGED arrived

ReadLengthEndIgnored ==
  /\ pc = "length" /\ Expecting /\ AtEnd /\ readLen' = 0
  /\ UNCHANGED <<client, arrived, pc, packetId, readIndex, buffer, handled, result, short>>

\* At the end of the stream the length reads as 0.  In play an empty packet is
\* the end; before, it is read like any other, under the id of the last one.
ReadLengthEnd ==
  /\ pc = "length" /\ Expecting /\ AtEnd /\ readLen' = 0
  /\ IF Encrypted
       THEN /\ pc' = "stopped" /\ result' = "closed" /\ packetId' = ZeroId
            /\ readIndex' = 0 /\ UNCHANGED <<handled, short>>
       ELSE /\ HandleExpected(packetId, buffer, readIndex, 0)
            /\ short' = TRUE /\ UNCHANGED packetId
  /\ UNCHANGED <<client, arrived, buffer>>

\* Before encryption the id is read from the socket.  A length of 0 minus that of
\* the id is a huge unsigned number, to which no buffer grows.
ReadId ==
  /\ pc = "id" /\ arrived # <<>>
  /\ arrived' = Tail(arrived) /\ UNCHANGED readLen
  /\ IF readLen = 0 THEN Stop("hangs")
     ELSE /\ pc' = "body" /\ packetId' \in KindsIn(Head(arrived))
          /\ UNCHANGED <<client, readIndex, buffer, handled, result, short>>

\* The end of the stream in place of the id is no error: the id reads as 0,
\* packet_read_header returns the length of the length, and what the buffer holds
\* is read.
ReadIdEnd ==
  /\ pc = "id" /\ AtEnd
  /\ HandleExpected(ZeroId, buffer, readIndex, readLen)
  /\ packetId' = ZeroId /\ short' = TRUE
  /\ UNCHANGED <<client, arrived, readLen, buffer>>

\* Mistake: a read takes all that has arrived, and the rest of it is forgotten.
ReceivedAll(n) == arrived

\* read() returns what has arrived, at most n bytes; nothing at the end.
Received(n) == SubSeq(arrived, 1, IF n < Len(arrived) THEN n ELSE Len(arrived))

Readable(n) == n = 0 \/ arrived # <<>> \/ AtEnd

\* parse_encrypted_packet decrypts packet_len bytes however many were read.
ReadEncryptedBody ==
  /\ pc = "body" /\ Encrypted /\ Readable(readLen)
  /\ LET in == Received(readLen)
         d == [i \in 0..Cap - 1 |-> IF i < Len(in) THEN in[i + 1]
                                    ELSE IF i < readLen THEN Stale ELSE buffer[i]]
     IN /\ buffer' = d /\ arrived' = SubSeq(arrived, Len(in) + 1, Len(arrived))
        /\ short' = (short \/ Len(in) < readLen)
        /\ IF readLen = 0
             THEN /\ pc' = "stopped" /\ result' = "closed" /\ packetId' = ZeroId
                  /\ readIndex' = 0 /\ UNCHANGED handled
             ELSE \E k \in KindsIn(d[0]) : packetId' = k /\ Handle(k, d, 1, readLen)
  /\ UNCHANGED <<client, readLen>>

\* Mistake: the id is not taken off the length.
PlainBodyLenWithId == readLen

\* The bytes packet_read_header reads after the id.
PlainBodyLen == readLen - 1

\* packet_read_header reads the rest into the buffer, and the reading function
\* goes up to packet_len, which counts the id.  When nothing is read, index
\* stays where the last packet, read or written, left it.
ReadPlainBody ==
  /\ pc = "body" /\ ~Encrypted /\ Readable(PlainBodyLen)
  /\ LET in == Received(PlainBodyLen)
         d == [i \in 0..Cap - 1 |-> IF i < Len(in) THEN in[i + 1] ELSE buffer[i]]
     IN /\ buffer' = d /\ arrived' = SubSeq(arrived, Len(in) + 1, Len(arrived))
        /\ short' = (short \/ Len(in) < PlainBodyLen)
        /\ HandleExpected(packetId, d, IF in = <<>> THEN readIndex ELSE 0, readLen)
  /\ UNCHANGED <<client, packetId, readLen>>

Read ==
  \/ ReadLength \/ ReadLengthEnd
  \/ ReadId \/ ReadIdEnd
  \/ ReadEncryptedBody \/ ReadPlainBody

WireNext ==
  \/ \E f \in ClientFrame : Send(f)
  \/ Arrive
  \/ Close
  \/ Reply
  \/ Read

\* What was sent arrives, and the server comes back to the connection.
WireFairness == WF_wireVars(Arrive) /\ WF_wireVars(Read)

WireSpec == WireInit /\ [][WireNext]_wireVars /\ WireFairness

-----------------------------------------------------------------------------
Acceptable(n) == sent[n].size \in Accepts[sent[n].kind]

\* The frames that must be acted on: those of a kind with an action that are
\* complete, or short of what is not missed.
Due == {n \in DOMAIN sent : Acceptable(n) /\ ~(Encrypted /\ sent[n].kind \in Ignored)}

DueBefore(n) == Cardinality({m \in Due : m < n})

PacketOf(n) ==
  [kind |-> sent[n].kind, payload |-> [j \in 1..sent[n].size |-> [frame |-> n, at |-> j]]]

\* The k-th packet that was acted on is the k-th that is due.
HandledAreDue ==
  /\ Len(handled) <= Cardinality(Due)
  /\ \A n \in Due : DueBefore(n) < Len(handled) =>
       handled[DueBefore(n) + 1] = PacketOf(n)

\* Every packet is acted on once, in order and as it was sent, whatever else
\* arrived before it: incomplete packets, packets without an action, several
\* at once, pieces that end between two bytes the server reads one by one.
\* Only a piece that ends inside a body undoes it.
InOrder == ~short => HandledAreDue

\* "client closed connection" (server.c:391) is said only of a client that did,
\* with the same exception.
ClosedByClient == result = "closed" /\ ~short => AtEnd

\* The server stays in step with the stream.
InStep == InOrder /\ ClosedByClient

\* A client in play that closes is noticed, after everything it sent was acted
\* on, unless a piece ended inside a frame.
EndNoticed ==
  Encrypted /\ mode.whole /\ closed ~>
    result = "closed" /\ HandledAreDue /\ Len(handled) = Cardinality(Due)

\* packet.h:51: the primitive reads "return false if there's no data left to be
\* read", so no packet is made of bytes that its frame did not have.
NothingStale ==
  \A i \in DOMAIN handled :
    \E n \in DOMAIN sent : \A j \in DOMAIN handled[i].payload :
      handled[i].payload[j] = [frame |-> n, at |-> j]
=============================================================================
