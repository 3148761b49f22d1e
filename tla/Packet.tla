-------------------------------- MODULE Packet --------------------------------
(***************************************************************************)
(* struct packet in write mode (packet.c): a buffer that grows by blocks   *)
(* up to a limit, is filled by the packet_write functions, and gets the    *)
(* packet's length in front of it when it is finalized.  One buffer serves *)
(* every packet to every client, and the packets read while they log in.   *)
(*                                                                         *)
(* A byte of the body is known by its position there; a reader who takes it*)
(* for a length finds one that goes on.  realloc is taken to succeed.      *)
(***************************************************************************)
EXTENDS Varint

CONSTANTS
  BlockSize, \* PACKET_BLOCK_SIZE
  MaxLen,    \* MAX_PACKET_LEN
  WriteLens, \* lengths of what is written by one call
  ReadLens   \* lengths in the headers of packets that are read

ASSUME PacketAssumption ==
  /\ BlockSize \in Nat \ {0} /\ MaxLen \in Nat \ {0}
  /\ WriteLens \cup 0..MaxLen \subseteq Varints /\ ReadLens \subseteq Nat

VARIABLES
  dataLen,   \* data_len
  allotted,  \* the size of what data points to
  packetLen, \* packet_len
  index,
  data,      \* data[0..data_len - 1]
  finished,  \* packet_id = FINISHED_PACKET_ID
  overrun,   \* a byte beyond it was written
  body,      \* history: bytes of the body written since make_packet
  last       \* history: the last call, what it should have written, what it
             \* wrote and what it returned

packetVars == <<dataLen, allotted, packetLen, index, data, finished, overrun, body, last>>

BodyByte(i) == [more |-> TRUE, low |-> 0, at |-> i]

Garbage == BodyByte(-1)

TooBig == -3

Idle == [call |-> "none", asked |-> 0, wrote |-> 0, result |-> 0]

\* Mistake: grows to what is asked for instead of by blocks.
GrownExactly(n, m) == IF m <= n THEN n ELSE m

\* The smallest data_len that grows from n by blocks and holds m bytes.
Grown(n, m) == IF m <= n THEN n
               ELSE n + BlockSize * ((m - n + BlockSize - 1) \div BlockSize)

PacketTypeOK ==
  /\ dataLen \in {k * BlockSize : k \in 1..MaxLen} /\ packetLen \in 0..MaxLen
  /\ allotted \in {k * BlockSize : k \in 1..MaxLen}
  /\ index \in 0..packetLen
  /\ DOMAIN data = 0..dataLen - 1
  /\ finished \in BOOLEAN /\ overrun \in BOOLEAN /\ body \in 0..MaxLen

\* packet_init; the first packet has not been made.
PacketInit ==
  /\ dataLen = BlockSize /\ allotted = BlockSize /\ data = [i \in 0..BlockSize - 1 |-> Garbage]
  /\ packetLen = 0 /\ index = 0 /\ finished = FALSE /\ overrun = FALSE
  /\ body = 0 /\ last = Idle

-----------------------------------------------------------------------------
\* Mistake: grows only when the index, not the new length, leaves the buffer.
AppendLate(k) ==
  LET n == IF packetLen > dataLen THEN Grown(dataLen, packetLen) ELSE dataLen
  IN /\ dataLen' = n
     /\ data' = [i \in 0..n - 1 |->
                   IF i \in index..index + k - 1 THEN BodyByte(body + i - index)
                   ELSE IF i < dataLen THEN data[i] ELSE Garbage]
     /\ allotted' = IF n = dataLen THEN allotted ELSE n
     /\ overrun' = (packetLen + k > allotted')
     /\ packetLen' = packetLen + k /\ index' = index + k /\ body' = body + k
     /\ UNCHANGED finished

\* k more bytes of the body, after packet_try_resize.
AppendBytes(k) ==
  LET n == Grown(dataLen, packetLen + k)
  IN /\ dataLen' = n
     /\ data' = [i \in 0..n - 1 |->
                   IF i \in index..index + k - 1 THEN BodyByte(body + i - index)
                   ELSE IF i < dataLen THEN data[i] ELSE Garbage]
     /\ allotted' = IF n = dataLen THEN allotted ELSE n
     /\ overrun' = (packetLen + k > allotted')
     /\ packetLen' = packetLen + k /\ index' = index + k /\ body' = body + k
     /\ UNCHANGED finished

Room == MaxLen - packetLen

Writing == ~finished /\ ~overrun

\* make_packet; the body begins with the packet's id.  What an earlier packet
\* left in the buffer is garbage.
MakePacket ==
  /\ ~overrun
  /\ packetLen' = 1 /\ index' = 1 /\ body' = 1 /\ finished' = FALSE
  /\ data' = [i \in DOMAIN data |-> IF i = 0 THEN BodyByte(0) ELSE Garbage]
  /\ last' = Idle
  /\ UNCHANGED <<dataLen, allotted, overrun>>

\* Mistake: a buffer that is not large enough is taken to be.
ReadHeaderUnallotted(k) ==
  /\ ~overrun
  /\ dataLen' = Grown(dataLen, k)
  /\ data' = [i \in 0..dataLen' - 1 |-> Garbage]
  /\ packetLen' = 0 /\ index' = 0 /\ body' = 0 /\ finished' = FALSE
  /\ last' = [call |-> "header", asked |-> k, wrote |-> 0, result |-> k]
  /\ UNCHANGED <<allotted, overrun>>

\* packet_read_header, of a packet with k bytes after its id: data_len grows first,
\* and stays what it is when that is too big, then and ever after.  No packet is
\* being written any more.
ReadHeader(k) ==
  /\ ~overrun
  /\ dataLen' = Grown(dataLen, k)
  /\ allotted' = IF dataLen' > MaxLen \/ dataLen' = dataLen THEN allotted ELSE dataLen'
  /\ data' = [i \in 0..dataLen' - 1 |-> Garbage]
  /\ packetLen' = 0 /\ index' = 0 /\ body' = 0 /\ finished' = FALSE
  /\ last' = [call |-> "header", asked |-> k, wrote |-> 0,
              result |-> IF dataLen' > MaxLen THEN TooBig ELSE k]
  /\ UNCHANGED overrun

\* Mistake: writes as much as fits.
WriteBytesClipped(k) ==
  /\ Writing /\ packetLen > 0
  /\ AppendBytes(Min({k, Room}))
  /\ last' = [call |-> "bytes", asked |-> k, wrote |-> Min({k, Room}), result |-> k]

\* packet_write_byte and packet_write_bytes, and with them int, long, float,
\* double and short: all or nothing.
WriteBytes(k) ==
  /\ Writing /\ packetLen > 0
  /\ IF k <= Room
       THEN /\ AppendBytes(k)
            /\ last' = [call |-> "bytes", asked |-> k, wrote |-> k, result |-> k]
       ELSE /\ last' = [call |-> "bytes", asked |-> k, wrote |-> 0, result |-> TooBig]
            /\ UNCHANGED <<dataLen, allotted, packetLen, index, data, finished, overrun,
                          body>>

\* packet_write_varint ignores that a byte may not fit.
WriteVarintOf(k) ==
  /\ Writing /\ packetLen > 0
  /\ LET fits == Min({k, Room})
     IN /\ AppendBytes(fits)
        /\ last' = [call |-> "varint", asked |-> k, wrote |-> fits, result |-> k]

\* packet_write_string: its length as a varint, then byte for byte until one
\* does not fit.  The failing byte counts as tried, and its error as a length.
WriteString(k) ==
  /\ Writing /\ packetLen > 0
  /\ LET head == VarintLen(k)
         fits == Min({k, Max({Room - head, 0})})
     IN /\ AppendBytes(Min({Room, head}) + fits)
        /\ last' = [call |-> "string", asked |-> head + k,
                    wrote |-> Min({Room, head}) + fits,
                    result |-> IF fits = k THEN head + k
                               ELSE IF fits = k - 1 THEN head + fits + TooBig
                               ELSE TooBig]

\* Mistake: the length always takes the longest.
PrefixLenLongest(len) == MostGroups

\* How far finalize_packet moves the body.
PrefixLen(len) == IF len = 0 THEN 0 ELSE VarintLen(len)

\* finalize_packet: the body is moved up, then the length is written in front
\* by packet_write_varint, which grows the buffer only afterwards.
Finalize ==
  /\ Writing /\ packetLen + PrefixLen(packetLen) <= MaxLen
  /\ LET k == PrefixLen(packetLen)
         prefix == WriteVarint(packetLen)
         n == Grown(dataLen, packetLen + Len(prefix))
     IN /\ overrun' = (packetLen + k > allotted)
        /\ dataLen' = n
        /\ allotted' = IF n = dataLen THEN allotted ELSE n
        /\ data' = [i \in 0..n - 1 |->
                      IF i < Len(prefix) THEN prefix[i + 1]
                      ELSE IF i \in k..k + packetLen - 1 /\ i < dataLen
                        THEN data[i - k]
                      ELSE IF i < dataLen THEN data[i] ELSE Garbage]
        /\ index' = Len(prefix) /\ packetLen' = packetLen + Len(prefix)
  /\ finished' = TRUE /\ last' = Idle
  /\ UNCHANGED body

PacketNext ==
  \/ MakePacket
  \/ Finalize
  \/ \E k \in ReadLens : ReadHeader(k)
  \/ \E k \in WriteLens : WriteBytes(k) \/ WriteString(k)
  \/ \E k \in 1..MostGroups : WriteVarintOf(k)

PacketSpec == PacketInit /\ [][PacketNext]_packetVars

-----------------------------------------------------------------------------
\* What is written to the socket, data[0..packet_len - 1].
Frame == [i \in 1..packetLen |-> data[i - 1]]

\* Between calls the packet lies inside the buffer, and nothing of its body was
\* lost or moved by a reallocation.
Contiguous ==
  ~finished /\ packetLen > 0 =>
    /\ packetLen <= dataLen /\ index = packetLen
    /\ \A i \in 0..packetLen - 1 : data[i] = BodyByte(i)

\* A finalized packet is read back by its receiver: the length in front is that
\* of the body, which follows unharmed, also when make_packet reused a buffer
\* that held a longer packet.
FrameReadsBack ==
  finished /\ ~overrun =>
    LET head == ReadVarint(Frame)
    IN /\ head.result > 0 /\ head.value = body
       /\ SubSeq(Frame, head.taken + 1, packetLen) = [i \in 1..body |-> BodyByte(i - 1)]

\* data_len is the size of the buffer unless a packet was refused as too big, after
\* which every header is refused: what is read always fits the buffer.
BufferHolds ==
  /\ dataLen # allotted => dataLen > MaxLen
  /\ last.call = "header" /\ last.result >= 0 => last.asked <= allotted

\* Writing leaves the buffer once it is smaller than data_len says, and else only
\* when finalize_packet meets a body that ends in the last bytes of a block, fewer
\* than its length takes.
OverrunOnlyAtBlockEnd ==
  overrun /\ dataLen = allotted =>
    (body + VarintLen(body) - 1) % BlockSize < VarintLen(body)

\* packet.h:70: the packet_write functions "return how many bytes were written,
\* or a negative number on error"; the primitive writes do, and write all or
\* nothing.
BytesReported ==
  last.call = "bytes" =>
    \/ last.result = last.wrote /\ last.wrote = last.asked
    \/ last.result < 0 /\ last.wrote = 0

\* A write is all or nothing, what was written stays, and it is what the receiver
\* of the finalized packet reads.
WritesKept ==
  /\ Contiguous /\ BytesReported /\ BufferHolds
  /\ FrameReadsBack /\ OverrunOnlyAtBlockEnd
=============================================================================
