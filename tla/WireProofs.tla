------------------------------ MODULE WireProofs ------------------------------
(***************************************************************************)
(* Packets, on their way in and out.                                       *)
(*                                                                         *)
(* The server stays in step with the stream of a client, for all packets,  *)
(* frames and ways to cut the stream.                                      *)
(*                                                                         *)
(* Variable-length integers are read as they were written, and a packet    *)
(* that is finalized is read as it was written, for all sizes of group,    *)
(* block, packet and write.                                                *)
(***************************************************************************)
EXTENDS Wire, Packet, SequenceTheorems, FiniteSetTheorems, TLAPS

AnyByte == [frame : Nat, at : Int]

Handled == [kind : Kind, payload : Seq(AnyByte)]

\* What the server has not read yet.
Stream == arrived \o flight

\* A byte of one of the frames S.
ByteOf(S, b) ==
  /\ b \in AnyByte
  /\ b.frame \in 1..Len(S) /\ b.at \in LengthAt..S[b.frame].size

\* The byte d places after b, as far as the first of the next frame.
ByteAfter(S, b, d) ==
  IF b.at + d <= S[b.frame].size THEN [frame |-> b.frame, at |-> b.at + d]
  ELSE [frame |-> b.frame + 1, at |-> LengthAt]

\* The bytes of s follow each other as in the frames S, and unless the client
\* has closed (c) they go on to the end of the last frame.
Carries(S, s, c) ==
  /\ \A i \in 1..Len(s) : ByteOf(S, s[i])
  /\ \A i \in 1..Len(s) : \A d \in 0..S[s[i].frame].size + 1 - s[i].at :
       i + d <= Len(s) => s[i + d] = ByteAfter(S, s[i], d)
  /\ ~c /\ s # <<>> => s[Len(s)] = [frame |-> Len(S), at |-> S[Len(S)].size]

\* s begins with byte i of frame m, or with the next frame if that has no such byte.
First(S, m, i) ==
  IF m <= Len(S) /\ i > S[m].size THEN [frame |-> m + 1, at |-> LengthAt]
  ELSE [frame |-> m, at |-> i]

Begins(S, s, c, m, i) ==
  IF s # <<>> THEN s[1] = First(S, m, i)
  ELSE c \/ First(S, m, i) = [frame |-> Len(S) + 1, at |-> LengthAt]

\* The packets h are those that are due before frame m, and nothing else.
ActedOn(h, m) ==
  /\ Len(h) = DueBefore(m)
  /\ \A n \in Due : n < m => h[DueBefore(n) + 1] = PacketOf(n)

\* The server is reading frame m.
InFrame(m) ==
  /\ m \in 1..Len(sent) /\ readLen = sent[m].size + 1
  /\ IF pc = "id" THEN Begins(sent, Stream, closed, m, IdAt)
     ELSE IF Encrypted THEN Begins(sent, Stream, closed, m, IdAt)
     ELSE Begins(sent, Stream, closed, m, 1) /\ packetId = sent[m].kind

\* Unless the end of what had arrived was taken for bytes of a frame, the server
\* is where the next frame begins, or in a frame.
InPlace ==
  ~short =>
    \E m \in 1..Len(sent) + 1 :
      /\ ActedOn(handled, m)
      /\ pc = "length" => Begins(sent, Stream, closed, m, LengthAt)
      /\ pc \in {"id", "body"} => InFrame(m)

\* Bytes are bytes of frames, and what is read before encryption is expected.
Bytes ==
  /\ arrived \in Seq(AnyByte) /\ flight \in Seq(AnyByte)
  /\ \A i \in 0..Cap - 1 : buffer[i] = Stale \/ ByteOf(sent, buffer[i])
  /\ handled \in Seq(Handled)
  /\ pc = "id" => ~Encrypted
  /\ ~Encrypted /\ pc \in {"id", "body"} => Len(handled) < Len(Login)
  /\ ~Encrypted /\ pc = "body" => readLen > 0

\* The server runs until there is a reason to stop.
Running == pc # "stopped" => result = "none"

\* Before encryption frames are complete: the length a frame has there counts its id,
\* so that one byte less is made up for by what the buffer held.
WholeBeforePlay == \A m \in Modes : m.truncated => m.encrypted

\* The inductive invariant.
WInv ==
  /\ WireTypeOK /\ Running /\ Bytes /\ Carries(sent, Stream, closed)
  /\ InPlace /\ ClosedByClient

SentFrame == [kind : Kind, size : 0..Cap - 1]

-----------------------------------------------------------------------------
(* Sequences. *)

\* What is left of a sequence without its first k elements.
LEMMA Drop ==
  ASSUME NEW T, NEW s \in Seq(T), NEW k \in 0..Len(s)
  PROVE  /\ SubSeq(s, k + 1, Len(s)) \in Seq(T)
         /\ Len(SubSeq(s, k + 1, Len(s))) = Len(s) - k
         /\ \A i \in 1..Len(s) - k : SubSeq(s, k + 1, Len(s))[i] = s[i + k]
<1>1. Len(s) \in Nat /\ \A i \in 1..Len(s) : s[i] \in T
  BY LenProperties, ElementOfSeq
<1>2. k + 1 \in Int /\ \A i \in k + 1..Len(s) : s[i] \in T
  BY <1>1
<1>3. /\ SubSeq(s, k + 1, Len(s)) \in Seq(T)
      /\ Len(SubSeq(s, k + 1, Len(s))) =
           IF k + 1 <= Len(s) THEN Len(s) - (k + 1) + 1 ELSE 0
      /\ \A i \in 1..Len(s) - (k + 1) + 1 :
           SubSeq(s, k + 1, Len(s))[i] = s[(k + 1) + i - 1]
  BY <1>1, <1>2, SubSeqProperties
<1>4. \A i \in 1..Len(s) - k : i \in 1..Len(s) - (k + 1) + 1 /\ (k + 1) + i - 1 = i + k
  BY <1>1
<1> QED
  BY <1>1, <1>3, <1>4

\* The first k elements of a sequence.
LEMMA Take ==
  ASSUME NEW T, NEW s \in Seq(T), NEW k \in 0..Len(s)
  PROVE  /\ SubSeq(s, 1, k) \in Seq(T) /\ Len(SubSeq(s, 1, k)) = k
         /\ \A i \in 1..k : SubSeq(s, 1, k)[i] = s[i]
<1>1. Len(s) \in Nat /\ \A i \in 1..Len(s) : s[i] \in T
  BY LenProperties, ElementOfSeq
<1>2. k \in Int /\ 1 \in Int /\ \A i \in 1..k : s[i] \in T
  BY <1>1
<1>3. /\ SubSeq(s, 1, k) \in Seq(T)
      /\ Len(SubSeq(s, 1, k)) = IF 1 <= k THEN k - 1 + 1 ELSE 0
      /\ \A i \in 1..k - 1 + 1 : SubSeq(s, 1, k)[i] = s[1 + i - 1]
  BY <1>2, SubSeqProperties
<1>4. \A i \in 1..k : i \in 1..k - 1 + 1 /\ 1 + i - 1 = i
  BY <1>1
<1> QED
  BY <1>1, <1>3, <1>4

\* The elements of a concatenation.
LEMMA Join ==
  ASSUME NEW T, NEW a \in Seq(T), NEW f \in Seq(T)
  PROVE  /\ Len(a) \in Nat /\ Len(f) \in Nat /\ a \o f \in Seq(T)
         /\ Len(a \o f) = Len(a) + Len(f)
         /\ \A i \in 1..Len(a) : (a \o f)[i] = a[i]
         /\ \A i \in 1..Len(f) : (a \o f)[Len(a) + i] = f[i]
<1>1. /\ Len(a) \in Nat /\ Len(f) \in Nat /\ a \o f \in Seq(T)
      /\ Len(a \o f) = Len(a) + Len(f)
      /\ \A i \in 1..Len(a) + Len(f) :
           (a \o f)[i] = IF i <= Len(a) THEN a[i] ELSE f[i - Len(a)]
  BY ConcatProperties, LenProperties
<1>2. ASSUME NEW i \in 1..Len(a) PROVE (a \o f)[i] = a[i]
  <2>1. i \in 1..Len(a) + Len(f) /\ i <= Len(a)
    BY <1>1
  <2> QED
    BY <1>1, <2>1
<1>3. ASSUME NEW i \in 1..Len(f) PROVE (a \o f)[Len(a) + i] = f[i]
  <2>1. Len(a) + i \in 1..Len(a) + Len(f) /\ ~(Len(a) + i <= Len(a)) /\ Len(a) + i - Len(a) = i
    BY <1>1
  <2> QED
    BY <1>1, <2>1
<1> QED
  BY <1>1, <1>2, <1>3

\* A sequence is what is taken off it and what is left.
LEMMA Split ==
  ASSUME NEW T, NEW s \in Seq(T), NEW k \in 0..Len(s)
  PROVE  SubSeq(s, 1, k) \o SubSeq(s, k + 1, Len(s)) = s
<1>1. Len(s) \in Nat
  BY LenProperties
<1>2. 1 \in 1..Len(s) + 1 /\ k \in 1 - 1..Len(s) /\ Len(s) \in k..Len(s)
  BY <1>1
<1>3. SubSeq(s, 1, k) \o SubSeq(s, k + 1, Len(s)) = SubSeq(s, 1, Len(s))
  BY <1>2, ConcatAdjacentSubSeq
<1> QED
  BY <1>3, SubSeqFull

\* What is read off the front of what has arrived is read off the stream.
LEMMA DropFirst ==
  ASSUME NEW T, NEW a \in Seq(T), NEW f \in Seq(T), NEW k \in 0..Len(a)
  PROVE  SubSeq(a, k + 1, Len(a)) \o f = SubSeq(a \o f, k + 1, Len(a \o f))
<1> DEFINE b == SubSeq(a, k + 1, Len(a))
           w == a \o f
           t == SubSeq(w, k + 1, Len(w))
           u == b \o f
<1>1. /\ Len(a) \in Nat /\ Len(f) \in Nat /\ w \in Seq(T) /\ Len(w) = Len(a) + Len(f)
      /\ \A i \in 1..Len(a) : w[i] = a[i]
      /\ \A i \in 1..Len(f) : w[Len(a) + i] = f[i]
  BY Join
<1>2. b \in Seq(T) /\ Len(b) = Len(a) - k /\ \A i \in 1..Len(a) - k : b[i] = a[i + k]
  BY Drop
<1> HIDE DEF b, w
<1>3. k \in 0..Len(w)
  BY <1>1
<1>4. t \in Seq(T) /\ Len(t) = Len(w) - k /\ \A i \in 1..Len(w) - k : t[i] = w[i + k]
  BY <1>1, <1>3, Drop
<1>5. /\ u \in Seq(T) /\ Len(u) = Len(b) + Len(f)
      /\ \A i \in 1..Len(b) : u[i] = b[i]
      /\ \A i \in 1..Len(f) : u[Len(b) + i] = f[i]
  <2>1. b \in Seq(T)
    BY <1>2
  <2> QED
    BY <2>1, Join
<1> HIDE DEF t, u
<1>6. ASSUME NEW i \in 1..Len(u) PROVE u[i] = t[i]
  <2>1. CASE i <= Len(b)
    <3>1. i \in 1..Len(b) /\ i \in 1..Len(a) - k /\ i + k \in 1..Len(a) /\ i \in 1..Len(w) - k
      BY <2>1, <1>1, <1>2, <1>5
    <3> QED
      BY <3>1, <1>1, <1>2, <1>4, <1>5
  <2>2. CASE i > Len(b)
    <3> DEFINE j == i - Len(b)
    <3>1. /\ j \in 1..Len(f) /\ i = Len(b) + j /\ i + k = Len(a) + j
          /\ i \in 1..Len(w) - k
      BY <2>2, <1>1, <1>2, <1>5
    <3> HIDE DEF j
    <3>2. u[i] = f[j]
      BY <3>1, <1>5
    <3>3. t[i] = f[j]
      BY <3>1, <1>1, <1>4
    <3> QED
      BY <3>2, <3>3
  <2> QED
    BY <2>1, <2>2, <1>1, <1>2
<1>7. Len(u) = Len(t)
  BY <1>1, <1>2, <1>4, <1>5
<1>8. u = t
  BY <1>4, <1>5, <1>6, <1>7, SeqEqual
<1> QED
  BY <1>8 DEF u, t, b, w

\* What is lost at the end of what is on its way is lost at the end of the stream.
LEMMA TakeLast ==
  ASSUME NEW T, NEW a \in Seq(T), NEW f \in Seq(T), NEW k \in 0..Len(f)
  PROVE  /\ SubSeq(f, 1, k) \in Seq(T)
         /\ Len(a) + k \in 0..Len(a \o f)
         /\ a \o SubSeq(f, 1, k) = SubSeq(a \o f, 1, Len(a) + k)
<1> DEFINE g == SubSeq(f, 1, k)
           w == a \o f
           t == SubSeq(w, 1, Len(a) + k)
           u == a \o g
<1>1. /\ Len(a) \in Nat /\ Len(f) \in Nat /\ w \in Seq(T) /\ Len(w) = Len(a) + Len(f)
      /\ \A i \in 1..Len(a) : w[i] = a[i]
      /\ \A i \in 1..Len(f) : w[Len(a) + i] = f[i]
  BY Join
<1>2. g \in Seq(T) /\ Len(g) = k /\ \A i \in 1..k : g[i] = f[i]
  BY Take
<1> HIDE DEF g, w
<1>3. Len(a) + k \in 0..Len(w)
  BY <1>1
<1>4. t \in Seq(T) /\ Len(t) = Len(a) + k /\ \A i \in 1..Len(a) + k : t[i] = w[i]
  BY <1>1, <1>3, Take
<1>5. /\ u \in Seq(T) /\ Len(u) = Len(a) + Len(g)
      /\ \A i \in 1..Len(a) : u[i] = a[i]
      /\ \A i \in 1..Len(g) : u[Len(a) + i] = g[i]
  <2>1. g \in Seq(T)
    BY <1>2
  <2> QED
    BY <2>1, Join
<1> HIDE DEF t, u
<1>6. ASSUME NEW i \in 1..Len(u) PROVE u[i] = t[i]
  <2>1. CASE i <= Len(a)
    <3>1. i \in 1..Len(a) /\ i \in 1..Len(a) + k
      BY <2>1, <1>1, <1>2, <1>5
    <3> QED
      BY <3>1, <1>1, <1>4, <1>5
  <2>2. CASE i > Len(a)
    <3> DEFINE j == i - Len(a)
    <3>1. j \in 1..Len(f) /\ j \in 1..k /\ i = Len(a) + j /\ i \in 1..Len(a) + k
      BY <2>2, <1>1, <1>2, <1>5
    <3> HIDE DEF j
    <3>2. u[i] = f[j]
      BY <3>1, <1>2, <1>5
    <3>3. t[i] = f[j]
      BY <3>1, <1>1, <1>4
    <3> QED
      BY <3>2, <3>3
  <2> QED
    BY <2>1, <2>2, <1>1
<1>7. u = t
  BY <1>2, <1>4, <1>5, <1>6, SeqEqual
<1> QED
  BY <1>2, <1>3, <1>7 DEF u, t, g, w

\* Bytes that arrive stay in the stream.
LEMMA Passing ==
  ASSUME NEW T, NEW a \in Seq(T), NEW f \in Seq(T), NEW k \in 1..Len(f)
  PROVE  /\ a \o SubSeq(f, 1, k) \in Seq(T) /\ SubSeq(f, k + 1, Len(f)) \in Seq(T)
         /\ (a \o SubSeq(f, 1, k)) \o SubSeq(f, k + 1, Len(f)) = a \o f
<1> DEFINE g == SubSeq(f, 1, k)
           h == SubSeq(f, k + 1, Len(f))
<1>1. k \in 0..Len(f)
  OBVIOUS
<1>2. g \in Seq(T) /\ h \in Seq(T)
  BY <1>1, Take, Drop
<1>3. g \o h = f
  BY <1>1, Split
<1> HIDE DEF g, h
<1>4. (a \o g) \o h = a \o (g \o h) /\ a \o g \in Seq(T)
  BY <1>2, ConcatAssociative, ConcatProperties
<1> QED
  BY <1>2, <1>3, <1>4 DEF g, h

\* Reading one element takes off the first.
LEMMA One ==
  ASSUME NEW T, NEW a \in Seq(T), NEW f \in Seq(T), a # <<>>
  PROVE  /\ 1 \in 0..Len(a) /\ 1 \in 0..Len(a \o f) /\ a \o f # <<>>
         /\ Head(a) = (a \o f)[1] /\ Tail(a) \in Seq(T)
         /\ Tail(a) \o f = SubSeq(a \o f, 1 + 1, Len(a \o f))
<1>1. /\ Len(a) \in Nat /\ Len(f) \in Nat /\ a \o f \in Seq(T)
      /\ Len(a \o f) = Len(a) + Len(f)
      /\ \A i \in 1..Len(a) : (a \o f)[i] = a[i]
  BY Join
<1>2. Len(a) # 0
  BY EmptySeq
<1>3. 1 \in 0..Len(a) /\ 1 \in 0..Len(a \o f) /\ 1 \in 1..Len(a) /\ Len(a \o f) # 0
  BY <1>1, <1>2
<1>4. a \o f # <<>>
  BY <1>1, <1>3, EmptySeq
<1>5. Head(a) = a[1] /\ Tail(a) = SubSeq(a, 1 + 1, Len(a)) /\ Tail(a) \in Seq(T)
  BY <1>2, <1>3, HeadTailProperties, TailIsSubSeq, EmptySeq
<1>6. SubSeq(a, 1 + 1, Len(a)) \o f = SubSeq(a \o f, 1 + 1, Len(a \o f))
  BY <1>3, DropFirst
<1> QED
  BY <1>1, <1>3, <1>4, <1>5, <1>6

-----------------------------------------------------------------------------
(* Frames in the stream. *)

\* A byte is known by its frame and its place.
LEMMA ByteIs ==
  /\ \A b \in AnyByte : b = [frame |-> b.frame, at |-> b.at] /\ b.frame \in Nat /\ b.at \in Int
  /\ \A m \in Nat, i \in Int : [frame |-> m, at |-> i] \in AnyByte
BY DEF AnyByte

\* The frames have sizes below Cap.
LEMMA FrameIs ==
  ASSUME NEW S \in Seq(SentFrame)
  PROVE  /\ Len(S) \in Nat /\ Cap \in Nat \ {0}
         /\ \A m \in 1..Len(S) :
              S[m] \in SentFrame /\ S[m].kind \in Kind /\ S[m].size \in 0..Cap - 1
<1>1. Cap \in Nat \ {0}
  BY WireAssumption
<1>2. Len(S) \in Nat /\ \A m \in 1..Len(S) : S[m] \in SentFrame
  BY LenProperties, ElementOfSeq
<1>3. \A g \in SentFrame : g.kind \in Kind /\ g.size \in 0..Cap - 1
  BY DEF SentFrame
<1> QED
  BY <1>1, <1>2, <1>3

\* What is left of a stream carries the frames.
LEMMA CarriesDrop ==
  ASSUME NEW S \in Seq(SentFrame), NEW s \in Seq(AnyByte), NEW c \in BOOLEAN,
         NEW k \in 0..Len(s), Carries(S, s, c)
  PROVE  Carries(S, SubSeq(s, k + 1, Len(s)), c)
<1> DEFINE t == SubSeq(s, k + 1, Len(s))
<1>1. /\ Len(s) \in Nat /\ t \in Seq(AnyByte) /\ Len(t) = Len(s) - k
      /\ \A i \in 1..Len(s) - k : t[i] = s[i + k]
  BY Drop, LenProperties
<1> HIDE DEF t
<1>2. \A i \in 1..Len(t) : i + k \in 1..Len(s) /\ t[i] = s[i + k]
  BY <1>1
<1>3. \A i \in 1..Len(t) : ByteOf(S, t[i])
  BY <1>2 DEF Carries
<1>4. ASSUME NEW i \in 1..Len(t), NEW d \in 0..S[t[i].frame].size + 1 - t[i].at,
             i + d <= Len(t)
      PROVE  t[i + d] = ByteAfter(S, t[i], d)
  <2> DEFINE j == i + k
  <2>1. j \in 1..Len(s) /\ t[i] = s[j]
    BY <1>2
  <2>2. d \in Int /\ d >= 0
    <3>1. ByteOf(S, t[i])
      BY <1>3
    <3>2. t[i].at \in Int /\ S[t[i].frame].size \in Int
      BY <3>1, FrameIs, ByteIs DEF ByteOf
    <3> QED
      BY <3>2
  <2>3. i + d \in 1..Len(s) - k /\ j + d <= Len(s) /\ (i + d) + k = j + d
    BY <1>1, <1>4, <2>2
  <2>4. t[i + d] = s[j + d]
    BY <1>1, <2>3
  <2> HIDE DEF j
  <2>5. s[j + d] = ByteAfter(S, s[j], d)
    BY <2>1, <2>3 DEF Carries
  <2> QED
    BY <2>1, <2>4, <2>5
<1>5. ASSUME ~c, t # <<>> PROVE t[Len(t)] = [frame |-> Len(S), at |-> S[Len(S)].size]
  <2>1. Len(t) \in Nat \ {0}
    BY <1>1, <1>5, EmptySeq
  <2>2. t[Len(t)] = s[Len(s)] /\ Len(s) # 0
    BY <1>1, <2>1
  <2>3. s # <<>>
    BY <2>2, EmptySeq
  <2> QED
    BY <1>5, <2>2, <2>3 DEF Carries
<1>6. Carries(S, t, c)
  BY <1>3, <1>4, <1>5 DEF Carries
<1> QED
  BY <1>6 DEF t

\* So does the beginning of a stream that was cut.
LEMMA CarriesPrefix ==
  ASSUME NEW S \in Seq(SentFrame), NEW s \in Seq(AnyByte), NEW c \in BOOLEAN,
         NEW k \in 0..Len(s), Carries(S, s, c)
  PROVE  Carries(S, SubSeq(s, 1, k), TRUE)
<1> DEFINE t == SubSeq(s, 1, k)
<1>1. /\ Len(s) \in Nat /\ t \in Seq(AnyByte) /\ Len(t) = k
      /\ \A i \in 1..k : t[i] = s[i]
  BY Take, LenProperties
<1> HIDE DEF t
<1>2. \A i \in 1..Len(t) : i \in 1..Len(s) /\ t[i] = s[i]
  BY <1>1
<1>3. \A i \in 1..Len(t) : ByteOf(S, t[i])
  BY <1>2 DEF Carries
<1>4. ASSUME NEW i \in 1..Len(t), NEW d \in 0..S[t[i].frame].size + 1 - t[i].at,
             i + d <= Len(t)
      PROVE  t[i + d] = ByteAfter(S, t[i], d)
  <2>1. d \in Int /\ d >= 0
    <3>1. ByteOf(S, t[i])
      BY <1>3
    <3>2. t[i].at \in Int /\ S[t[i].frame].size \in Int
      BY <3>1, FrameIs, ByteIs DEF ByteOf
    <3> QED
      BY <3>2
  <2>2. i + d \in 1..k /\ i + d <= Len(s)
    BY <1>1, <1>4, <2>1
  <2>3. t[i + d] = s[i + d] /\ t[i] = s[i] /\ i \in 1..Len(s)
    BY <1>1, <1>2, <2>2
  <2>4. s[i + d] = ByteAfter(S, s[i], d)
    BY <2>2, <2>3 DEF Carries
  <2> QED
    BY <2>3, <2>4
<1>5. Carries(S, t, TRUE)
  BY <1>3, <1>4 DEF Carries
<1> QED
  BY <1>5 DEF t

\* And a place in it stays where it was.
LEMMA BeginsPrefix ==
  ASSUME NEW S \in Seq(SentFrame), NEW s \in Seq(AnyByte), NEW c \in BOOLEAN,
         NEW k \in 0..Len(s), NEW m, NEW i, Begins(S, s, c, m, i)
  PROVE  Begins(S, SubSeq(s, 1, k), TRUE, m, i)
<1> DEFINE t == SubSeq(s, 1, k)
<1>1. /\ Len(s) \in Nat /\ t \in Seq(AnyByte) /\ Len(t) = k
      /\ \A j \in 1..k : t[j] = s[j]
  BY Take, LenProperties
<1> HIDE DEF t
<1>2. CASE t # <<>>
  <2>1. k # 0 /\ 1 \in 1..k /\ t[1] = s[1] /\ Len(s) # 0
    BY <1>1, <1>2, EmptySeq
  <2>2. s # <<>>
    BY <2>1, EmptySeq
  <2>3. t[1] = First(S, m, i)
    BY <2>1, <2>2 DEF Begins
  <2>4. Begins(S, t, TRUE, m, i)
    BY <1>2, <2>3 DEF Begins
  <2> QED
    BY <2>4 DEF t
<1>3. CASE t = <<>>
  <2>1. Begins(S, t, TRUE, m, i)
    BY <1>3 DEF Begins
  <2> QED
    BY <2>1 DEF t
<1> QED
  BY <1>2, <1>3

\* What comes after a frame is the next one.
LEMMA NextFrame ==
  ASSUME NEW S \in Seq(SentFrame), NEW s, NEW c, NEW m \in 1..Len(S),
         Begins(S, s, c, m, S[m].size + 1)
  PROVE  Begins(S, s, c, m + 1, LengthAt)
<1>1. S[m].size \in Nat /\ Len(S) \in Nat /\ m <= Len(S)
  BY FrameIs
<1>2. First(S, m, S[m].size + 1) = [frame |-> m + 1, at |-> LengthAt]
  BY <1>1 DEF First
<1>3. First(S, m + 1, LengthAt) = [frame |-> m + 1, at |-> LengthAt]
  <2>1. m + 1 <= Len(S) => ~(LengthAt > S[m + 1].size)
    <3> HAVE m + 1 <= Len(S)
    <3>1. m + 1 \in 1..Len(S)
      BY <1>1
    <3>2. S[m + 1].size \in Nat
      BY <3>1, FrameIs
    <3> QED
      BY <3>2 DEF LengthAt
  <2> QED
    BY <2>1 DEF First
<1> QED
  BY <1>2, <1>3 DEF Begins

\* Between frames, the first byte of the stream is the length of a frame that was sent.
LEMMA ReadingFrame ==
  ASSUME NEW S \in Seq(SentFrame), NEW s \in Seq(AnyByte), NEW c \in BOOLEAN,
         Carries(S, s, c), s # <<>>,
         NEW m \in 1..Len(S) + 1, Begins(S, s, c, m, LengthAt)
  PROVE  m \in 1..Len(S) /\ s[1] = [frame |-> m, at |-> LengthAt]
<1>1. Len(S) \in Nat /\ \A n \in 1..Len(S) : S[n].size \in Nat
  BY FrameIs
<1>2. First(S, m, LengthAt) = [frame |-> m, at |-> LengthAt]
  <2>1. m <= Len(S) => ~(LengthAt > S[m].size)
    BY <1>1 DEF LengthAt
  <2> QED
    BY <2>1 DEF First
<1>3. Len(s) \in Nat \ {0}
  BY EmptySeq
<1>4. 1 \in 1..Len(s)
  BY <1>3
<1>5. s[1] = [frame |-> m, at |-> LengthAt] /\ ByteOf(S, s[1])
  BY <1>2, <1>4 DEF Carries, Begins
<1>6. s[1].frame = m /\ s[1].frame \in 1..Len(S)
  BY <1>5 DEF ByteOf
<1> QED
  BY <1>5, <1>6

\* In a frame, the next bytes of the stream are the next bytes of the frame.
LEMMA FrameAt ==
  ASSUME NEW S \in Seq(SentFrame), NEW s \in Seq(AnyByte), NEW c \in BOOLEAN, Carries(S, s, c),
         NEW m \in 1..Len(S), NEW i \in LengthAt..S[m].size + 1, Begins(S, s, c, m, i),
         NEW k \in 0..Len(s), i + k <= S[m].size + 1
  PROVE  /\ \A j \in 1..k : s[j] = [frame |-> m, at |-> i + j - 1]
         /\ Begins(S, SubSeq(s, k + 1, Len(s)), c, m, i + k)
<1> DEFINE t == SubSeq(s, k + 1, Len(s))
           size == S[m].size
<1>1. /\ Len(S) \in Nat /\ size \in Nat /\ m <= Len(S) /\ m \in Nat
      /\ LengthAt = -1 /\ i \in Int /\ Len(s) \in Nat
  BY FrameIs, LenProperties DEF LengthAt
<1>2. /\ t \in Seq(AnyByte) /\ Len(t) = Len(s) - k
      /\ \A j \in 1..Len(s) - k : t[j] = s[j + k]
  BY Drop
<1> HIDE DEF t
<1>3. CASE k = 0
  <2>1. \A j \in 1..Len(s) : t[j] = s[j]
    BY <1>1, <1>2, <1>3
  <2>2. t = s
    BY <1>1, <1>2, <1>3, <2>1, SeqEqual
  <2>3. i + k = i /\ 1..k = {}
    BY <1>1, <1>3
  <2>4. Begins(S, t, c, m, i + k)
    BY <2>2, <2>3
  <2> QED
    BY <2>3, <2>4 DEF t
<1>4. CASE k # 0
  <2>1. 1 \in 1..Len(s) /\ k \in 1..Len(s) /\ i <= size /\ Len(s) # 0
    BY <1>1, <1>4
  <2>2. s # <<>>
    BY <2>1, EmptySeq
  <2>3. s[1] = [frame |-> m, at |-> i]
    <3>1. First(S, m, i) = [frame |-> m, at |-> i]
      BY <2>1, <1>1 DEF First
    <3> QED
      BY <3>1, <2>2 DEF Begins
  <2>4. ASSUME NEW d \in 0..size + 1 - i, 1 + d <= Len(s)
        PROVE  s[1 + d] = IF i + d <= size THEN [frame |-> m, at |-> i + d]
                          ELSE [frame |-> m + 1, at |-> LengthAt]
    <3>1. s[1].frame = m /\ s[1].at = i
      BY <2>3
    <3>2. s[1 + d] = ByteAfter(S, s[1], d)
      BY <2>1, <2>4, <3>1 DEF Carries
    <3> QED
      BY <3>1, <3>2 DEF ByteAfter
  <2>5. ASSUME NEW j \in 1..k PROVE s[j] = [frame |-> m, at |-> i + j - 1]
    <3> DEFINE d == j - 1
    <3>1. /\ d \in 0..size + 1 - i /\ 1 + d <= Len(s) /\ i + d <= size
          /\ 1 + d = j /\ i + d = i + j - 1
      BY <1>1, <2>1
    <3> HIDE DEF d
    <3>2. s[1 + d] = [frame |-> m, at |-> i + d]
      BY <2>4, <3>1
    <3> QED
      BY <3>1, <3>2
  <2>6. Begins(S, t, c, m, i + k)
    <3>1. CASE t # <<>>
      <4>1. Len(t) \in Nat \ {0}
        BY <3>1, <1>2, EmptySeq
      <4>2. k \in 0..size + 1 - i /\ 1 + k <= Len(s) /\ 1 \in 1..Len(s) - k /\ 1 + k = k + 1
        BY <4>1, <1>1, <1>2
      <4>3. t[1] = s[1 + k]
        BY <1>2, <4>2
      <4>4. s[1 + k] = IF i + k <= size THEN [frame |-> m, at |-> i + k]
                       ELSE [frame |-> m + 1, at |-> LengthAt]
        BY <4>2, <2>4
      <4>5. (i + k > size) <=> ~(i + k <= size)
        BY <1>1
      <4>6. First(S, m, i + k) = s[1 + k]
        BY <4>4, <4>5, <1>1 DEF First
      <4> QED
        BY <3>1, <4>3, <4>6 DEF Begins
    <3>2. CASE t = <<>>
      <4>1. SUFFICES ASSUME ~c
                     PROVE  First(S, m, i + k) = [frame |-> Len(S) + 1, at |-> LengthAt]
        BY <3>2 DEF Begins
      <4>2. Len(t) = 0
        BY <3>2, EmptySeq
      <4>3. Len(s) = k
        BY <4>2, <1>1, <1>2
      <4>4. s[k] = [frame |-> m, at |-> i + k - 1]
        BY <2>5, <2>1, <1>1
      <4>5. s[Len(s)] = [frame |-> Len(S), at |-> S[Len(S)].size]
        BY <4>1, <2>2 DEF Carries
      <4>6. m = Len(S) /\ i + k - 1 = size
        BY <4>3, <4>4, <4>5
      <4>7. i + k > size
        BY <4>6, <1>1
      <4> QED
        BY <4>6, <4>7, <1>1 DEF First
    <3> QED
      BY <3>1, <3>2
  <2> QED
    BY <2>5, <2>6 DEF t
<1> QED
  BY <1>3, <1>4

\* The frames and bytes of a client that sends one more.
LEMMA OneMoreFrame ==
  ASSUME NEW S \in Seq(SentFrame), NEW f \in SentFrame
  PROVE  /\ Append(S, f) \in Seq(SentFrame) /\ Len(Append(S, f)) = Len(S) + 1
         /\ \A m \in 1..Len(S) : Append(S, f)[m] = S[m]
         /\ Append(S, f)[Len(S) + 1] = f
         /\ BytesOf(Len(S) + 1, f) \in Seq(AnyByte)
         /\ Len(BytesOf(Len(S) + 1, f)) = f.size + 2
         /\ \A j \in 1..f.size + 2 :
              BytesOf(Len(S) + 1, f)[j] = [frame |-> Len(S) + 1, at |-> j - 2]
         /\ f.size \in Nat
<1>1. /\ Append(S, f) \in Seq(SentFrame) /\ Len(Append(S, f)) = Len(S) + 1
      /\ \A m \in 1..Len(S) : Append(S, f)[m] = S[m]
      /\ Append(S, f)[Len(S) + 1] = f
  BY AppendProperties, LenProperties
<1>2. f.size \in Nat /\ Len(S) + 1 \in Nat
  BY WireAssumption, LenProperties DEF SentFrame
<1>3. \A j \in 1..f.size + 2 : [frame |-> Len(S) + 1, at |-> j - 2] \in AnyByte
  BY <1>2 DEF AnyByte
<1> DEFINE g == BytesOf(Len(S) + 1, f)
           n == f.size + 2
<1>4. n \in Nat
  BY <1>2
<1>5. /\ g = [j \in 1..n |-> [frame |-> Len(S) + 1, at |-> j - 2]]
      /\ g \in [1..n -> AnyByte]
  BY <1>3 DEF BytesOf
<1> HIDE DEF g, n
<1>6. g \in Seq(AnyByte) /\ Len(g) = n
  BY <1>4, <1>5
<1>7. \A j \in 1..n : g[j] = [frame |-> Len(S) + 1, at |-> j - 2]
  BY <1>5
<1> QED
  BY <1>1, <1>2, <1>6, <1>7 DEF g, n

\* The stream of a client that sends one more frame.
LEMMA CarriesAppend ==
  ASSUME NEW S \in Seq(SentFrame), NEW s \in Seq(AnyByte), Carries(S, s, FALSE), NEW f \in SentFrame
  PROVE  Carries(Append(S, f), s \o BytesOf(Len(S) + 1, f), FALSE)
<1> DEFINE n == Len(S) + 1
           g == BytesOf(n, f)
           U == Append(S, f)
           t == s \o g
<1>1. /\ U \in Seq(SentFrame) /\ Len(U) = n /\ \A m \in 1..Len(S) : U[m] = S[m]
      /\ U[n] = f /\ f.size \in Nat /\ g \in Seq(AnyByte) /\ Len(g) = f.size + 2
      /\ \A j \in 1..f.size + 2 : g[j] = [frame |-> n, at |-> j - 2]
  BY OneMoreFrame
<1>2. Len(S) \in Nat /\ LengthAt = -1
  BY FrameIs DEF LengthAt
<1> HIDE DEF g, U
<1>3. n \in Nat /\ n = Len(S) + 1
  BY <1>2
<1> HIDE DEF n
<1>4. /\ Len(s) \in Nat /\ t \in Seq(AnyByte) /\ Len(t) = Len(s) + Len(g)
      /\ \A i \in 1..Len(s) : t[i] = s[i]
      /\ \A i \in 1..Len(g) : t[Len(s) + i] = g[i]
  <2>1. g \in Seq(AnyByte)
    BY <1>1
  <2> QED
    BY <2>1, Join
<1> HIDE DEF t
\* A byte of the frames that were there.
<1>5. ASSUME NEW i \in 1..Len(s)
      PROVE  /\ t[i] = s[i] /\ s[i] \in AnyByte /\ s[i].frame \in 1..Len(S)
             /\ s[i].at \in Int /\ s[i].at >= -1 /\ s[i].at <= S[s[i].frame].size
             /\ S[s[i].frame].size \in Nat /\ U[s[i].frame] = S[s[i].frame]
  <2>1. ByteOf(S, s[i])
    BY DEF Carries
  <2>2. s[i] \in AnyByte /\ s[i].frame \in 1..Len(S) /\ s[i].at \in -1..S[s[i].frame].size
    BY <2>1, <1>2 DEF ByteOf
  <2>3. S[s[i].frame].size \in Nat
    BY <2>2, FrameIs
  <2> QED
    BY <2>2, <2>3, <1>1, <1>4
\* A byte of the new frame.
<1>6. ASSUME NEW i \in 1..Len(t), i > Len(s)
      PROVE  /\ i - Len(s) \in 1..f.size + 2
             /\ t[i] = [frame |-> n, at |-> (i - Len(s)) - 2]
  <2> DEFINE j == i - Len(s)
  <2>1. j \in 1..Len(g) /\ j \in 1..f.size + 2 /\ i = Len(s) + j
    BY <1>1, <1>4, <1>6
  <2> HIDE DEF j
  <2>2. t[i] = g[j]
    BY <2>1, <1>4
  <2>3. g[j] = [frame |-> n, at |-> j - 2]
    BY <2>1, <1>1
  <2> QED
    BY <2>1, <2>2, <2>3 DEF j
<1>7. ASSUME NEW i \in 1..Len(t) PROVE ByteOf(U, t[i])
  <2>1. CASE i <= Len(s)
    <3>1. i \in 1..Len(s)
      BY <2>1, <1>4
    <3>2. /\ t[i] \in AnyByte /\ t[i].frame \in 1..Len(U)
          /\ t[i].at \in -1..U[t[i].frame].size
      BY <3>1, <1>5, <1>1, <1>2, <1>3
    <3> QED
      BY <3>2, <1>2 DEF ByteOf
  <2>2. CASE i > Len(s)
    <3> DEFINE a == (i - Len(s)) - 2
    <3>0. i - Len(s) \in 1..f.size + 2 /\ t[i] = [frame |-> n, at |-> (i - Len(s)) - 2]
      BY <2>2, <1>6
    <3>1. t[i] = [frame |-> n, at |-> a] /\ a \in -1..f.size
      <4> DEFINE j == i - Len(s)
                 size == f.size
      <4>1. j \in 1..size + 2 /\ size \in Nat /\ a = j - 2
        BY <3>0, <1>1
      <4> HIDE DEF j, a, size
      <4>2. a \in -1..size
        BY <4>1
      <4>3. a \in -1..f.size
        BY <4>2 DEF size
      <4> QED
        BY <3>0, <4>3 DEF a
    <3> HIDE DEF a
    <3>2. t[i] \in AnyByte
      BY <3>1, <1>1, <1>3 DEF AnyByte
    <3>3. t[i].frame = n /\ t[i].at = a /\ n \in 1..Len(U) /\ U[t[i].frame].size = f.size
      BY <3>1, <1>1, <1>2, <1>3
    <3> QED
      BY <3>1, <3>2, <3>3, <1>2 DEF ByteOf
  <2> QED
    BY <2>1, <2>2, <1>4
<1>8. ASSUME NEW i \in 1..Len(t), NEW d \in 0..U[t[i].frame].size + 1 - t[i].at,
             i + d <= Len(t)
      PROVE  t[i + d] = ByteAfter(U, t[i], d)
  <2>1. CASE i > Len(s)
    <3>1. /\ t[i] = [frame |-> n, at |-> (i - Len(s)) - 2]
          /\ t[i].frame = n /\ t[i].at = (i - Len(s)) - 2 /\ U[t[i].frame] = f
      BY <2>1, <1>6, <1>1
    <3>2. d \in Nat /\ i \in Nat
      BY <3>1, <1>1, <1>4
    <3>3. i + d \in 1..Len(t) /\ i + d > Len(s)
      BY <3>2, <2>1, <1>4, <1>8
    <3>4. /\ t[i + d] = [frame |-> n, at |-> (i + d - Len(s)) - 2]
          /\ i + d - Len(s) \in 1..f.size + 2
      BY <3>3, <1>6
    <3>5. /\ (i + d - Len(s)) - 2 = ((i - Len(s)) - 2) + d
          /\ ((i - Len(s)) - 2) + d <= f.size
      BY <3>2, <3>4, <1>1, <1>4
    <3> QED
      BY <3>1, <3>4, <3>5 DEF ByteAfter
  <2>2. CASE i <= Len(s)
    <3>1. i \in 1..Len(s)
      BY <2>2, <1>4
    <3>2. /\ t[i] = s[i] /\ s[i].frame \in 1..Len(S) /\ U[s[i].frame] = S[s[i].frame]
          /\ s[i].at \in Int /\ S[s[i].frame].size \in Nat
          /\ s[i].at <= S[s[i].frame].size
      BY <3>1, <1>5
    <3>3. d \in 0..S[s[i].frame].size + 1 - s[i].at /\ d \in Nat
      BY <3>2
    <3>4. CASE i + d <= Len(s)
      <4>1. s[i + d] = ByteAfter(S, s[i], d)
        BY <3>1, <3>3, <3>4 DEF Carries
      <4>2. i + d \in 1..Len(s)
        BY <3>1, <3>3, <3>4
      <4>3. t[i + d] = s[i + d]
        BY <4>2, <1>5
      <4> QED
        BY <4>1, <4>3, <3>2 DEF ByteAfter
    <3>5. CASE i + d > Len(s)
      <4> DEFINE e == Len(s) - i
                 at == s[i].at
                 size == S[s[i].frame].size
      <4>1. /\ e \in Nat /\ e < d /\ i + e = Len(s)
            /\ e \in 0..S[s[i].frame].size + 1 - s[i].at
            /\ s[i].at + e <= S[s[i].frame].size
        <5>1. at \in Int /\ size \in Nat /\ d \in Nat /\ d <= size + 1 - at
          BY <3>2, <3>3
        <5> HIDE DEF at, size
        <5>2. e \in Nat /\ e < d /\ i + e = Len(s)
          BY <3>1, <5>1, <3>5, <1>4
        <5> HIDE DEF e
        <5>3. e \in 0..size + 1 - at /\ at + e <= size
          BY <5>1, <5>2
        <5> QED
          BY <5>2, <5>3 DEF at, size
      <4> HIDE DEF e, at, size
      <4>2. s[Len(s)] = [frame |-> s[i].frame, at |-> s[i].at + e]
        <5>1. s[i + e] = ByteAfter(S, s[i], e)
          BY <3>1, <4>1, <1>4 DEF Carries
        <5> QED
          BY <5>1, <4>1 DEF ByteAfter
      <4>3. s[Len(s)] = [frame |-> Len(S), at |-> S[Len(S)].size]
        <5>1. s # <<>>
          <6>1. Len(s) # 0
            BY <3>1, <1>4
          <6> QED
            BY <6>1, EmptySeq
        <5> QED
          BY <5>1 DEF Carries
      <4>4. s[i].frame = Len(S) /\ s[i].at + e = S[Len(S)].size
        BY <4>2, <4>3
      <4>5. d = e + 1 /\ s[i].at + d = S[s[i].frame].size + 1
        <5>1. /\ at \in Int /\ size \in Nat /\ d \in Nat /\ d <= size + 1 - at
              /\ at + e = size
          BY <3>2, <3>3, <4>4 DEF at, size
        <5>2. d = e + 1 /\ at + d = size + 1
          BY <5>1, <4>1
        <5> QED
          BY <5>2 DEF at, size
      <4>6. i + d = Len(s) + 1
        <5>1. i \in Nat /\ i + e = Len(s) /\ d = e + 1 /\ e \in Nat
          BY <4>5, <4>1, <3>1
        <5> QED
          BY <5>1
      <4>7. Len(s) + 1 \in 1..Len(t) /\ Len(s) + 1 > Len(s) /\ (Len(s) + 1 - Len(s)) - 2 = -1
        BY <4>6, <1>4, <1>8
      <4>8. t[i + d] = [frame |-> n, at |-> -1]
        BY <4>6, <4>7, <1>6
      <4>9. /\ ~(t[i].at + d <= U[t[i].frame].size) /\ t[i].frame + 1 = n
        BY <4>4, <4>5, <3>2, <1>3
      <4> QED
        BY <4>8, <4>9, <1>2 DEF ByteAfter
    <3> QED
      BY <3>4, <3>5, <3>1, <3>3, <1>4
  <2> QED
    BY <2>1, <2>2, <1>4
<1>9. t[Len(t)] = [frame |-> Len(U), at |-> U[Len(U)].size]
  <2>1. Len(t) \in 1..Len(t) /\ Len(t) > Len(s) /\ (Len(t) - Len(s)) - 2 = f.size
    BY <1>1, <1>4
  <2>2. t[Len(t)] = [frame |-> n, at |-> f.size]
    BY <2>1, <1>6
  <2> QED
    BY <2>2, <1>1
<1>10. Carries(U, t, FALSE)
  BY <1>7, <1>8, <1>9 DEF Carries
<1> QED
  BY <1>10 DEF U, t, g, n

\* Where the server is in the stream does not change when a frame is sent.
LEMMA BeginsAppend ==
  ASSUME NEW S \in Seq(SentFrame), NEW s \in Seq(AnyByte), Carries(S, s, FALSE), NEW f \in SentFrame,
         NEW m \in 1..Len(S) + 1, NEW i \in Int,
         m = Len(S) + 1 => i = LengthAt,
         Begins(S, s, FALSE, m, i)
  PROVE  Begins(Append(S, f), s \o BytesOf(Len(S) + 1, f), FALSE, m, i)
<1> DEFINE n == Len(S) + 1
           g == BytesOf(n, f)
           U == Append(S, f)
           t == s \o g
<1>1. /\ U \in Seq(SentFrame) /\ Len(U) = n /\ \A x \in 1..Len(S) : U[x] = S[x]
      /\ U[n] = f /\ f.size \in Nat /\ g \in Seq(AnyByte) /\ Len(g) = f.size + 2
      /\ \A j \in 1..f.size + 2 : g[j] = [frame |-> n, at |-> j - 2]
  BY OneMoreFrame
<1>2. Len(S) \in Nat /\ LengthAt = -1 /\ \A x \in 1..Len(S) : S[x].size \in Nat
  BY FrameIs DEF LengthAt
<1> HIDE DEF g, U
<1>3. n \in Nat /\ n = Len(S) + 1
  BY <1>2
<1> HIDE DEF n
<1>4. /\ Len(s) \in Nat /\ t \in Seq(AnyByte) /\ Len(t) = Len(s) + Len(g)
      /\ \A x \in 1..Len(s) : t[x] = s[x]
      /\ \A x \in 1..Len(g) : t[Len(s) + x] = g[x]
  <2>1. g \in Seq(AnyByte)
    BY <1>1
  <2> QED
    BY <2>1, Join
<1> HIDE DEF t
<1>5. First(U, m, i) = First(S, m, i)
  <2>1. CASE m <= Len(S)
    <3>1. m \in 1..Len(S) /\ m <= Len(U)
      BY <2>1, <1>1, <1>2, <1>3
    <3> QED
      BY <2>1, <3>1, <1>1 DEF First
  <2>2. CASE m = n
    <3>1. m <= Len(U) /\ ~(i > U[m].size) /\ ~(m <= Len(S))
      BY <2>2, <1>1, <1>2, <1>3
    <3> QED
      BY <3>1 DEF First
  <2> QED
    BY <2>1, <2>2, <1>2, <1>3
<1>6. t # <<>>
  <2>1. Len(t) # 0
    BY <1>1, <1>4
  <2> QED
    BY <2>1, EmptySeq
<1>7. t[1] = First(S, m, i)
  <2>1. CASE s # <<>>
    <3>1. Len(s) \in Nat \ {0}
      BY <2>1, EmptySeq
    <3>2. t[1] = s[1]
      BY <3>1, <1>4
    <3> QED
      BY <3>2, <2>1 DEF Begins
  <2>2. CASE s = <<>>
    <3>1. Len(s) = 0
      BY <2>2, EmptySeq
    <3>2. 1 \in 1..Len(g) /\ 1 \in 1..f.size + 2 /\ Len(s) + 1 = 1 /\ 1 - 2 = -1
      BY <3>1, <1>1
    <3>3. t[1] = [frame |-> n, at |-> -1]
      BY <3>2, <1>1, <1>4
    <3> QED
      BY <3>3, <2>2, <1>2, <1>3 DEF Begins
  <2> QED
    BY <2>1, <2>2
<1>8. Begins(U, t, FALSE, m, i)
  BY <1>5, <1>6, <1>7 DEF Begins
<1> QED
  BY <1>8 DEF U, t, g, n

-----------------------------------------------------------------------------
(* What is due. *)

\* The frames that are due are counted.
LEMMA DueCounted ==
  ASSUME NEW T, sent \in Seq(T)
  PROVE  /\ Due \subseteq 1..Len(sent) /\ Cardinality(Due) \in Nat
         /\ \A m \in Nat : DueBefore(m) \in 0..Cardinality(Due)
         /\ \A m, n \in Nat : m <= n => DueBefore(m) <= DueBefore(n)
         /\ \A m \in Nat :
              DueBefore(m + 1) = IF m \in Due THEN DueBefore(m) + 1 ELSE DueBefore(m)
<1> DEFINE B(m) == {n \in Due : n < m}
<1>1. Len(sent) \in Nat /\ Due \subseteq 1..Len(sent)
  BY LenProperties DEF Due
<1>2. IsFiniteSet(Due)
  <2>1. IsFiniteSet(1..Len(sent))
    BY <1>1, FS_Interval
  <2> QED
    BY <1>1, <2>1, FS_Subset
<1>3. \A m : B(m) \subseteq Due
  OBVIOUS
<1>4. ASSUME NEW m, NEW n, B(m) \subseteq B(n)
      PROVE  IsFiniteSet(B(n)) /\ DueBefore(m) <= DueBefore(n)
  <2>1. IsFiniteSet(B(n))
    BY <1>2, <1>3, FS_Subset
  <2>2. Cardinality(B(m)) <= Cardinality(B(n))
    BY <2>1, <1>4, FS_Subset
  <2> QED
    BY <2>1, <2>2 DEF DueBefore
<1>5. Cardinality(Due) \in Nat
  BY <1>2, FS_CardinalityType
<1>6. ASSUME NEW m \in Nat PROVE DueBefore(m) \in 0..Cardinality(Due)
  <2>1. IsFiniteSet(B(m)) /\ Cardinality(B(m)) <= Cardinality(Due)
    BY <1>2, <1>3, FS_Subset
  <2>2. Cardinality(B(m)) \in Nat
    BY <2>1, FS_CardinalityType
  <2>3. Cardinality(B(m)) \in 0..Cardinality(Due)
    BY <1>5, <2>1, <2>2
  <2> QED
    BY <2>3 DEF DueBefore
<1>7. ASSUME NEW m \in Nat, NEW n \in Nat, m <= n PROVE DueBefore(m) <= DueBefore(n)
  <2>1. \A x \in 1..Len(sent) : x < m => x < n
    BY <1>1, <1>7
  <2>2. B(m) \subseteq B(n)
    BY <2>1, <1>1
  <2> QED
    BY <2>2, <1>4
<1>8. ASSUME NEW m \in Nat
      PROVE  DueBefore(m + 1) = IF m \in Due THEN DueBefore(m) + 1 ELSE DueBefore(m)
  <2>1. \A x \in 1..Len(sent) : x < m + 1 <=> x < m \/ x = m
    BY <1>1
  <2>2. IsFiniteSet(B(m)) /\ m \notin B(m)
    BY <1>2, <1>3, FS_Subset
  <2>3. CASE m \in Due
    <3>1. B(m + 1) = B(m) \cup {m}
      BY <2>1, <2>3, <1>1
    <3>2. Cardinality(B(m) \cup {m}) = Cardinality(B(m)) + 1
      BY <2>2, FS_AddElement
    <3> QED
      BY <2>3, <3>1, <3>2 DEF DueBefore
  <2>4. CASE m \notin Due
    <3>1. B(m + 1) = B(m)
      BY <2>1, <2>4, <1>1
    <3> QED
      BY <2>4, <3>1 DEF DueBefore
  <2> QED
    BY <2>3, <2>4
<1> QED
  BY <1>1, <1>5, <1>6, <1>7, <1>8

\* Passing over a frame that is not due, and acting on one that is.
LEMMA OneMoreHandled ==
  ASSUME NEW T, sent \in Seq(T), NEW U, NEW h \in Seq(U), NEW m \in 1..Len(sent), ActedOn(h, m)
  PROVE  /\ m \notin Due => ActedOn(h, m + 1)
         /\ m \in Due /\ PacketOf(m) \in U => ActedOn(Append(h, PacketOf(m)), m + 1)
<1>1. m \in Nat /\ Len(sent) \in Nat
  BY LenProperties
<1>2. \A n \in Due : n \in Nat /\ (n < m + 1 <=> n < m \/ n = m)
  <2>1. \A n \in 1..Len(sent) : n \in Nat /\ (n < m + 1 <=> n < m \/ n = m)
    BY <1>1
  <2>2. Due \subseteq 1..Len(sent)
    BY DueCounted
  <2> QED
    BY <2>1, <2>2
<1>3. ASSUME m \notin Due PROVE ActedOn(h, m + 1)
  <2>1. Len(h) = DueBefore(m + 1)
    BY <1>1, <1>3, DueCounted DEF ActedOn
  <2>2. \A n \in Due : n < m + 1 => h[DueBefore(n) + 1] = PacketOf(n)
    BY <1>2, <1>3 DEF ActedOn
  <2> QED
    BY <2>1, <2>2 DEF ActedOn
<1>4. ASSUME m \in Due, PacketOf(m) \in U PROVE ActedOn(Append(h, PacketOf(m)), m + 1)
  <2> DEFINE p == PacketOf(m)
             H == Append(h, p)
  <2>1. /\ Len(h) \in Nat /\ Len(H) = Len(h) + 1
        /\ \A i \in 1..Len(h) : H[i] = h[i]
        /\ H[Len(h) + 1] = p
    <3>1. p \in U
      BY <1>4
    <3> HIDE DEF p
    <3> QED
      BY <3>1, AppendProperties, LenProperties
  <2> HIDE DEF H, p
  <2>2. Len(h) = DueBefore(m) /\ DueBefore(m + 1) = DueBefore(m) + 1
    BY <1>1, <1>4, DueCounted DEF ActedOn
  <2>3. ASSUME NEW n \in Due, n < m + 1 PROVE H[DueBefore(n) + 1] = PacketOf(n)
    <3>1. CASE n = m
      BY <3>1, <2>1, <2>2 DEF p
    <3>2. CASE n < m
      <4>1. n \in Nat /\ n + 1 \in Nat /\ n + 1 <= m
        BY <3>2, <1>1, <1>2
      <4>2. DueBefore(n + 1) = DueBefore(n) + 1 /\ DueBefore(n + 1) <= DueBefore(m)
        BY <4>1, <1>1, DueCounted
      <4>3. DueBefore(n) \in Nat
        BY <4>1, DueCounted
      <4>4. DueBefore(n) + 1 \in 1..Len(h)
        BY <4>2, <4>3, <2>1, <2>2
      <4>5. h[DueBefore(n) + 1] = PacketOf(n)
        BY <3>2 DEF ActedOn
      <4> QED
        BY <4>4, <4>5, <2>1
    <3> QED
      BY <3>1, <3>2, <2>3, <1>2
  <2>4. ActedOn(H, m + 1)
    BY <2>1, <2>2, <2>3 DEF ActedOn
  <2> QED
    BY <2>4 DEF H, p
<1> QED
  BY <1>3, <1>4

\* A place that was reached with what is due before it is one where no packet was missed.
LEMMA NothingMissed ==
  ASSUME NEW T, sent \in Seq(T), NEW m \in Nat, ActedOn(handled, m)
  PROVE  HandledAreDue
<1>1. Len(handled) = DueBefore(m) /\ DueBefore(m) <= Cardinality(Due)
  BY DueCounted DEF ActedOn
<1>2. ASSUME NEW n \in Due, DueBefore(n) < Len(handled)
      PROVE  handled[DueBefore(n) + 1] = PacketOf(n)
  <2>1. n \in Nat
    BY DueCounted, LenProperties
  <2>2. DueBefore(n) \in Nat /\ DueBefore(m) \in Nat /\ (m <= n => DueBefore(m) <= DueBefore(n))
    BY <2>1, DueCounted
  <2>3. n < m
    BY <1>1, <1>2, <2>1, <2>2
  <2> QED
    BY <2>3 DEF ActedOn
<1> QED
  BY <1>1, <1>2 DEF HandledAreDue

\* What is due is a matter of the frames alone.
LEMMA DueSame ==
  ASSUME sent' = sent, mode' = mode
  PROVE  Due' = Due /\ \A n : DueBefore(n)' = DueBefore(n) /\ PacketOf(n)' = PacketOf(n)
BY DEF Due, Acceptable, Encrypted, DueBefore, PacketOf

\* What was acted on, with the frames as they were.
LEMMA ActedSame ==
  ASSUME sent' = sent, mode' = mode, NEW h, handled' = h, NEW m, ActedOn(h, m)
  PROVE  ActedOn(handled, m)'
BY DueSame DEF ActedOn

\* What was due stays so when a frame is sent.
LEMMA DueAppend ==
  ASSUME NEW T, sent \in Seq(T), NEW f \in T, sent' = Append(sent, f), mode' = mode,
         NEW h, handled' = h, NEW m \in 1..Len(sent) + 1, ActedOn(h, m)
  PROVE  ActedOn(handled, m)'
<1>1. /\ Len(sent) \in Nat /\ Len(sent') = Len(sent) + 1
      /\ \A n \in 1..Len(sent) : sent'[n] = sent[n]
      /\ DOMAIN sent = 1..Len(sent) /\ DOMAIN sent' = 1..Len(sent) + 1
  <2>1. sent' \in Seq(T) /\ Len(sent') = Len(sent) + 1 /\ \A n \in 1..Len(sent) : sent'[n] = sent[n]
    BY AppendProperties
  <2>2. DOMAIN sent' = 1..Len(sent') /\ DOMAIN sent = 1..Len(sent) /\ Len(sent) \in Nat
    BY <2>1, LenProperties
  <2> QED
    BY <2>1, <2>2
<1>2. ASSUME NEW n, n < m PROVE n \in Due' <=> n \in Due
  <2>1. n \in 1..Len(sent) + 1 <=> n \in 1..Len(sent)
    BY <1>1, <1>2
  <2>2. n \in 1..Len(sent) => sent'[n] = sent[n]
    BY <1>1
  <2> QED
    BY <2>1, <2>2, <1>1 DEF Due, Acceptable, Encrypted
<1>3. \A n \in Due : n \in Nat /\ n \in 1..Len(sent)
  BY <1>1 DEF Due
<1>4. \A n \in Due' : n \in Nat
  BY <1>1 DEF Due
<1>5. m \in Nat
  BY <1>1
<1>6. ASSUME NEW x \in Nat, x <= m PROVE DueBefore(x)' = DueBefore(x)
  <2>1. \A n \in Nat : n < x => n < m
    BY <1>5, <1>6
  <2>2. {n \in Due' : n < x} = {n \in Due : n < x}
    BY <1>2, <1>3, <1>4, <2>1
  <2> QED
    BY <2>2 DEF DueBefore
<1>7. DueBefore(m)' = DueBefore(m)
  BY <1>5, <1>6
<1>8. ASSUME NEW n \in Due', n < m PROVE h[DueBefore(n)' + 1] = PacketOf(n)'
  <2>1. n \in Due
    BY <1>2, <1>8
  <2>2. n \in Nat /\ n <= m /\ n \in 1..Len(sent)
    BY <2>1, <1>3, <1>5, <1>8
  <2>3. DueBefore(n)' = DueBefore(n) /\ PacketOf(n)' = PacketOf(n)
    BY <2>2, <1>1, <1>6 DEF PacketOf
  <2> QED
    BY <2>1, <2>3, <1>8 DEF ActedOn
<1> QED
  BY <1>7, <1>8 DEF ActedOn

-----------------------------------------------------------------------------
(* Steps. *)

\* What the variables are.
LEMMA Typed ==
  ASSUME WireTypeOK, Bytes
  PROVE  /\ sent \in Seq(SentFrame) /\ Len(sent) \in Nat /\ DOMAIN sent = 1..Len(sent)
         /\ arrived \in Seq(AnyByte) /\ flight \in Seq(AnyByte) /\ Stream \in Seq(AnyByte)
         /\ closed \in BOOLEAN /\ short \in BOOLEAN /\ Cap \in Nat \ {0}
         /\ handled \in Seq(Handled) /\ Len(handled) \in Nat
         /\ mode \in Modes /\ mode.encrypted \in BOOLEAN
         /\ Len(Login) \in Nat /\ \A i \in 1..Len(Login) : Login[i] \in Kind
<1>1. Cap \in Nat \ {0} /\ Len(Login) \in Nat /\ \A i \in 1..Len(Login) : Login[i] \in Kind
  BY WireAssumption
<1>2. mode \in Modes /\ mode \in Mode /\ mode.encrypted \in BOOLEAN
  BY WireAssumption DEF WireTypeOK, Mode
<1>3. /\ arrived \in Seq(AnyByte) /\ flight \in Seq(AnyByte)
      /\ handled \in Seq(Handled) /\ Len(handled) \in Nat
  BY LenProperties DEF Bytes
<1>4. Stream \in Seq(AnyByte)
  BY <1>3, ConcatProperties DEF Stream
<1>5. sent \in Seq(SentFrame)
  <2>1. ClientFrame \subseteq SentFrame
    BY DEF ClientFrame, SentFrame
  <2>2. sent \in Seq(ClientFrame)
    BY DEF WireTypeOK
  <2> QED
    BY <2>1, <2>2
<1>6. Len(sent) \in Nat /\ DOMAIN sent = 1..Len(sent)
  BY <1>5, LenProperties
<1> QED
  BY <1>1, <1>2, <1>3, <1>4, <1>5, <1>6 DEF WireTypeOK

\* The frames of a client have at most the bytes that their kind needs.
LEMMA SentIs ==
  ASSUME WireTypeOK, NEW m \in 1..Len(sent)
  PROVE  /\ sent[m].kind \in Kind /\ sent[m].size \in 0..Cap - 1
         /\ Need[sent[m].kind] \in 0..Cap - 1 /\ sent[m].size <= Need[sent[m].kind]
         /\ ~mode.truncated => sent[m].size = Need[sent[m].kind]
<1>1. Need \in [Kind -> 0..Cap - 1] /\ Cap \in Nat \ {0}
  BY WireAssumption
<1>2. sent[m] \in ClientFrame
  <2>1. sent \in Seq(ClientFrame)
    BY DEF WireTypeOK
  <2> QED
    BY <2>1, ElementOfSeq
<1>3. /\ sent[m] \in [kind : Kind, size : 0..Cap - 1]
      /\ \/ sent[m].size = Need[sent[m].kind]
         \/ mode.truncated /\ sent[m].size < Need[sent[m].kind]
  BY <1>2 DEF ClientFrame
<1>4. sent[m].kind \in Kind /\ sent[m].size \in 0..Cap - 1
  BY <1>3
<1>5. Need[sent[m].kind] \in 0..Cap - 1
  BY <1>1, <1>4
<1> QED
  BY <1>1, <1>3, <1>4, <1>5

\* What the server takes off what has arrived is taken off the stream.
LEMMA Served ==
  ASSUME WireTypeOK, Bytes, Carries(sent, Stream, closed), UNCHANGED client,
         NEW k \in 0..Len(arrived), arrived' = SubSeq(arrived, k + 1, Len(arrived))
  PROVE  /\ arrived' \in Seq(AnyByte) /\ flight' \in Seq(AnyByte) /\ k \in 0..Len(Stream)
         /\ sent' = sent /\ mode' = mode /\ closed' = closed
         /\ Stream' = SubSeq(Stream, k + 1, Len(Stream))
         /\ Carries(sent, Stream, closed)'
<1>1. flight' = flight /\ sent' = sent /\ mode' = mode /\ closed' = closed
  BY DEF client
<1>2. /\ sent \in Seq(SentFrame) /\ arrived \in Seq(AnyByte) /\ flight \in Seq(AnyByte)
      /\ Stream \in Seq(AnyByte) /\ closed \in BOOLEAN
  BY Typed
<1>3. arrived' \in Seq(AnyByte)
  BY <1>2, Drop
<1>4. k \in 0..Len(Stream)
  BY <1>2, Join DEF Stream
<1>5. Stream' = SubSeq(Stream, k + 1, Len(Stream))
  BY <1>1, <1>2, DropFirst DEF Stream
<1>6. Carries(sent, SubSeq(Stream, k + 1, Len(Stream)), closed)
  BY <1>2, <1>4, CarriesDrop
<1> QED
  BY <1>1, <1>2, <1>3, <1>4, <1>5, <1>6

\* A step of the server that does not read leaves the stream as it is.
LEMMA NotServed ==
  ASSUME WireTypeOK, Bytes, Carries(sent, Stream, closed), UNCHANGED client, arrived' = arrived
  PROVE  /\ arrived' \in Seq(AnyByte) /\ flight' \in Seq(AnyByte)
         /\ sent' = sent /\ mode' = mode /\ closed' = closed /\ Stream' = Stream
         /\ Carries(sent, Stream, closed)'
<1>1. /\ flight' = flight /\ sent' = sent /\ mode' = mode /\ closed' = closed
      /\ Stream' = Stream
  BY DEF client, Stream
<1> QED
  BY <1>1, Typed

\* What a reading function takes: at most what there is, and what its kind needs.
LEMMA TakenIs ==
  ASSUME NEW k \in Kind, NEW d, \A i \in 0..Cap - 1 : d[i] \in AnyByte,
         NEW i \in 0..Cap, NEW len \in 0..Cap
  PROVE  /\ Taken(k, d, i, len) \in Seq(AnyByte)
         /\ i + Len(Taken(k, d, i, len)) \in 0..Cap
         /\ Len(Taken(k, d, i, len)) =
              IF (IF i < len THEN len - i ELSE 0) < Need[k]
                THEN IF i < len THEN len - i ELSE 0 ELSE Need[k]
<1> DEFINE left == IF i < len THEN len - i ELSE 0
           n == IF left < Need[k] THEN left ELSE Need[k]
           b == Taken(k, d, i, len)
<1>1. Cap \in Nat \ {0} /\ Need[k] \in 0..Cap - 1
  BY WireAssumption
<1>2. left \in Nat /\ i + left \in 0..Cap /\ (left # 0 => i + left <= len)
  BY <1>1
<1>3. b = [j \in 1..n |-> d[i + j - 1]]
  BY DEF Taken
<1> HIDE DEF b
<1>4. n \in Nat /\ i + n \in 0..Cap /\ (n # 0 => i + n <= Cap)
  BY <1>1, <1>2
<1> HIDE DEF n
<1>5. ASSUME NEW j \in 1..n PROVE d[i + j - 1] \in AnyByte
  <2>1. i + j - 1 \in 0..Cap - 1
    BY <1>1, <1>4
  <2> QED
    BY <2>1
<1>6. b \in [1..n -> AnyByte]
  BY <1>3, <1>5
<1>7. b \in Seq(AnyByte) /\ Len(b) = n
  BY <1>4, <1>6
<1> QED
  BY <1>3, <1>4, <1>7 DEF b, n

\* It takes them in their order.
LEMMA TakenAt ==
  ASSUME NEW k \in Kind, NEW d, \A i \in 0..Cap - 1 : d[i] \in AnyByte,
         NEW i \in 0..Cap, NEW len \in 0..Cap,
         NEW j \in 1..Len(Taken(k, d, i, len)), NEW x \in Int, x = i + j - 1
  PROVE  Taken(k, d, i, len)[j] = d[x]
<1> DEFINE left == IF i < len THEN len - i ELSE 0
           n == IF left < Need[k] THEN left ELSE Need[k]
           b == Taken(k, d, i, len)
<1>1. Len(b) = n
  BY TakenIs
<1>2. b = [y \in 1..n |-> d[i + y - 1]]
  BY DEF Taken
<1>3. j \in 1..Len(b)
  OBVIOUS
<1> HIDE DEF b, n
<1>4. b[j] = d[i + j - 1]
  BY <1>1, <1>2, <1>3
<1> QED
  BY <1>4 DEF b

\* The buffer d starts with the size bytes of frame m's payload; a packet's
\* bytes b are that payload.
StartsWith(d, m, size) ==
  /\ \A i \in 0..Cap - 1 : d[i] \in AnyByte
  /\ \A i \in 0..Cap - 1 : i < size => d[i] = [frame |-> m, at |-> i + 1]

IsPayload(b, m, size) ==
  /\ b \in Seq(AnyByte) /\ Len(b) = size
  /\ \A j \in 1..size : b[j] = [frame |-> m, at |-> j]

\* From such a buffer it takes the payload, whole.
LEMMA TakenWhole ==
  ASSUME NEW k \in Kind, NEW d, NEW i \in 0..Cap, NEW len \in 0..Cap, NEW m,
         StartsWith(d, m, Need[k]), len = Need[k] + 1, Need[k] # 0 => i = 0
  PROVE  IsPayload(Taken(k, d, i, len), m, Need[k])
<1> DEFINE left == IF i < len THEN len - i ELSE 0
           n == IF left < Need[k] THEN left ELSE Need[k]
           b == Taken(k, d, i, len)
<1>1. Cap \in Nat \ {0} /\ Need[k] \in 0..Cap - 1
  BY WireAssumption
<1>2. n = Need[k]
  BY <1>1
<1>3. b = [y \in 1..n |-> d[i + y - 1]]
  BY DEF Taken
<1> HIDE DEF b, n
<1>4. ASSUME NEW j \in 1..Need[k]
      PROVE  b[j] = [frame |-> m, at |-> j] /\ b[j] \in AnyByte
  <2>1. i + j - 1 \in 0..Cap - 1 /\ i + j - 1 < Need[k] /\ (i + j - 1) + 1 = j
    BY <1>1
  <2>2. b[j] = d[i + j - 1]
    BY <1>2, <1>3
  <2>3. /\ d[i + j - 1] = [frame |-> m, at |-> (i + j - 1) + 1]
        /\ d[i + j - 1] \in AnyByte
    BY <2>1 DEF StartsWith
  <2> QED
    BY <2>1, <2>2, <2>3
<1>5. b \in [1..Need[k] -> AnyByte]
  <2>1. b = [y \in 1..Need[k] |-> b[y]]
    BY <1>2, <1>3
  <2> QED
    BY <2>1, <1>4
<1>6. b \in Seq(AnyByte) /\ Len(b) = Need[k]
  BY <1>1, <1>5
<1> QED
  BY <1>4, <1>6 DEF b, IsPayload

\* A packet that was read is acted on, passed over, or ends the connection.
LEMMA HandleTyped ==
  ASSUME NEW k \in Kind, NEW d, \A i \in 0..Cap - 1 : d[i] \in AnyByte,
         NEW i \in 0..Cap, NEW len \in 0..Cap, handled \in Seq(Handled), result = "none",
         Handle(k, d, i, len)
  PROVE  /\ readIndex' \in 0..Cap /\ handled' \in Seq(Handled)
         /\ \/ pc' = "length" /\ result' = "none"
            \/ pc' = "stopped" /\ result' = "error"
<1> DEFINE b == Taken(k, d, i, len)
<1>1. b \in Seq(AnyByte) /\ i + Len(b) \in 0..Cap
  BY TakenIs
<1>2. Append(handled, [kind |-> k, payload |-> b]) \in Seq(Handled)
  <2>1. [kind |-> k, payload |-> b] \in Handled
    BY <1>1 DEF Handled
  <2> HIDE DEF b
  <2> QED
    BY <2>1, AppendProperties
<1>3. CASE Encrypted /\ k \in Ignored
  BY <1>3 DEF Handle
<1>4. CASE ~(Encrypted /\ k \in Ignored)
  <2>1. /\ readIndex' = i + Len(b)
        /\ IF Len(b) \in Accepts[k]
             THEN /\ pc' = "length" /\ result' = result
                  /\ handled' = Append(handled, [kind |-> k, payload |-> b])
             ELSE /\ pc' = IF Encrypted THEN "length" ELSE "stopped"
                  /\ result' = IF Encrypted THEN result ELSE "error"
                  /\ handled' = handled
    BY <1>4 DEF Handle
  <2> HIDE DEF b
  <2> QED
    BY <2>1, <1>1, <1>2
<1> QED
  BY <1>3, <1>4

\* The same where the kind is the expected one, or the server aborts.
LEMMA HandleExpectedTyped ==
  ASSUME WireTypeOK, Bytes, Len(handled) < Len(Login), result = "none",
         NEW id, NEW d, \A i \in 0..Cap - 1 : d[i] \in AnyByte,
         NEW i \in 0..Cap, NEW len \in 0..Cap, HandleExpected(id, d, i, len)
  PROVE  /\ readIndex' \in 0..Cap /\ handled' \in Seq(Handled)
         /\ \/ pc' = "length" /\ result' = "none"
            \/ pc' = "stopped" /\ result' \in {"error", "aborts"}
<1>1. Login[Len(handled) + 1] \in Kind /\ handled \in Seq(Handled)
  <2>1. Len(handled) + 1 \in 1..Len(Login)
    BY Typed
  <2> QED
    BY <2>1, Typed
<1>2. CASE id = Login[Len(handled) + 1]
  <2>1. Handle(id, d, i, len) /\ id \in Kind
    BY <1>1, <1>2 DEF HandleExpected
  <2> QED
    BY <1>1, <2>1, HandleTyped
<1>3. CASE id # Login[Len(handled) + 1]
  BY <1>1, <1>3 DEF HandleExpected, WireTypeOK
<1> QED
  BY <1>2, <1>3

\* A connection that is accepted is at the beginning of the first frame.
LEMMA InitInPlace ==
  WireInit => WInv
<1> SUFFICES ASSUME NEW m \in Modes, Accepted(m) PROVE WInv
  BY DEF WireInit
<1>1. m \in Mode /\ Cap \in Nat \ {0} /\ ZeroId \in Kind
  BY WireAssumption
<1>2. /\ sent = <<>> /\ flight = <<>> /\ arrived = <<>> /\ closed = FALSE /\ mode = m
      /\ pc = "length" /\ readLen = 0 /\ readIndex = 0 /\ result = "none" /\ short = FALSE
      /\ buffer = [i \in 0..Cap - 1 |-> Stale] /\ handled = <<>>
      /\ packetId \in Kind \cup {Finished}
  BY DEF Accepted
<1>3. Len(sent) = 0 /\ sent \in Seq(ClientFrame) /\ Len(sent) <= m.maxFrames
  <2>1. m.maxFrames \in Nat
    BY <1>1 DEF Mode
  <2>2. Len(sent) = 0 /\ sent \in Seq(ClientFrame)
    BY <1>2, EmptySeq
  <2> QED
    BY <2>1, <2>2
<1>4. WireTypeOK
  <2>1. readLen \in 0..Cap /\ readIndex \in 0..Cap /\ DOMAIN buffer = 0..Cap - 1
    BY <1>1, <1>2
  <2>2. mode \in Modes /\ sent \in Seq(ClientFrame) /\ Len(sent) <= mode.maxFrames
    BY <1>2, <1>3
  <2> QED
    BY <1>2, <2>1, <2>2 DEF WireTypeOK
<1>5. Bytes
  <2>1. handled \in Seq(Handled) /\ arrived \in Seq(AnyByte) /\ flight \in Seq(AnyByte)
    BY <1>2, EmptySeq
  <2> QED
    BY <1>2, <2>1 DEF Bytes
<1>6. Stream = <<>> /\ Len(Stream) = 0
  <2>1. Stream = <<>>
    BY <1>2, EmptySeq DEF Stream
  <2> QED
    BY <2>1, EmptySeq
<1>7. Carries(sent, Stream, closed)
  BY <1>6 DEF Carries
<1>8. Begins(sent, Stream, closed, 1, LengthAt)
  <2>1. First(sent, 1, LengthAt) = [frame |-> 1, at |-> LengthAt] /\ Len(sent) + 1 = 1
    BY <1>3 DEF First
  <2> QED
    BY <1>6, <2>1 DEF Begins
<1>9. ActedOn(handled, 1)
  <2>1. DOMAIN sent = {}
    BY <1>3
  <2>2. Due = {} /\ {n \in Due : n < 1} = {}
    BY <2>1 DEF Due
  <2>3. DueBefore(1) = 0
    BY <2>2, FS_EmptySet DEF DueBefore
  <2>4. Len(handled) = 0
    BY <1>2, EmptySeq
  <2> QED
    BY <2>2, <2>3, <2>4 DEF ActedOn
<1>10. InPlace
  <2>1. 1 \in 1..Len(sent) + 1
    BY <1>3
  <2> QED
    BY <2>1, <1>2, <1>8, <1>9 DEF InPlace
<1> QED
  BY <1>2, <1>4, <1>5, <1>7, <1>10 DEF WInv, Running, ClosedByClient

\* The client sends a frame.
LEMMA SendInPlace ==
  ASSUME WInv, NEW f \in ClientFrame, Send(f)
  PROVE  WInv'
<1>1. /\ ~closed /\ Len(sent) < mode.maxFrames
      /\ sent' = Append(sent, f) /\ flight' = flight \o BytesOf(Len(sent) + 1, f)
      /\ mode' = mode /\ arrived' = arrived /\ closed' = closed
      /\ pc' = pc /\ packetId' = packetId /\ readLen' = readLen /\ readIndex' = readIndex
      /\ buffer' = buffer /\ handled' = handled /\ result' = result /\ short' = short
  BY DEF Send, server
<1>2. WireTypeOK /\ Bytes /\ Running /\ InPlace /\ ClosedByClient /\ Carries(sent, Stream, closed)
  BY DEF WInv
<1>3. /\ sent \in Seq(SentFrame) /\ Len(sent) \in Nat /\ closed = FALSE
      /\ Stream \in Seq(AnyByte) /\ arrived \in Seq(AnyByte) /\ flight \in Seq(AnyByte)
      /\ mode \in Modes /\ sent \in Seq(ClientFrame)
  BY <1>1, <1>2, Typed DEF WireTypeOK
<1>4. f \in SentFrame
  BY DEF ClientFrame, SentFrame
<1>5. /\ sent' \in Seq(SentFrame) /\ Len(sent') = Len(sent) + 1
      /\ \A m \in 1..Len(sent) : sent'[m] = sent[m]
      /\ BytesOf(Len(sent) + 1, f) \in Seq(AnyByte)
  BY <1>1, <1>3, <1>4, OneMoreFrame
<1>6. Stream' = Stream \o BytesOf(Len(sent) + 1, f) /\ flight' \in Seq(AnyByte)
  <2> DEFINE g == BytesOf(Len(sent) + 1, f)
  <2>1. g \in Seq(AnyByte)
    BY <1>5
  <2> HIDE DEF g
  <2>2. arrived \o (flight \o g) = (arrived \o flight) \o g /\ flight \o g \in Seq(AnyByte)
    <3>1. arrived \in Seq(AnyByte) /\ flight \in Seq(AnyByte)
      BY <1>3
    <3>2. (arrived \o flight) \o g = arrived \o (flight \o g)
      BY <3>1, <2>1, ConcatAssociative
    <3>3. flight \o g \in Seq(AnyByte)
      BY <3>1, <2>1, ConcatProperties
    <3> QED
      BY <3>2, <3>3
  <2> QED
    BY <2>2, <1>1 DEF Stream, g
<1>7. WireTypeOK'
  <2>1. sent' \in Seq(ClientFrame)
    BY <1>1, <1>3, AppendProperties
  <2>2. Len(sent') <= mode.maxFrames
    <3>1. mode.maxFrames \in Nat
      BY <1>3, WireAssumption DEF Mode
    <3> QED
      BY <3>1, <1>1, <1>3, <1>5
  <2>3. ClientFrame' = ClientFrame
    BY <1>1 DEF ClientFrame
  <2> QED
    BY <2>1, <2>2, <2>3, <1>1, <1>2 DEF WireTypeOK
<1>8. Bytes'
  <2>1. ASSUME NEW b, ByteOf(sent, b) PROVE ByteOf(sent', b)
    <3>1. b.frame \in 1..Len(sent) /\ b.frame \in 1..Len(sent')
      BY <2>1, <1>3, <1>5 DEF ByteOf
    <3> QED
      BY <2>1, <3>1, <1>5 DEF ByteOf
  <2>2. Encrypted' = Encrypted
    BY <1>1 DEF Encrypted
  <2> QED
    BY <2>1, <2>2, <1>1, <1>2, <1>6 DEF Bytes
<1>9. Carries(sent', Stream', closed')
  BY <1>1, <1>2, <1>3, <1>4, <1>6, CarriesAppend
<1>10. InPlace'
  <2> SUFFICES ASSUME ~short PROVE InPlace'
    BY <1>1 DEF InPlace
  <2>1. PICK m \in 1..Len(sent) + 1 :
          /\ ActedOn(handled, m)
          /\ pc = "length" => Begins(sent, Stream, closed, m, LengthAt)
          /\ pc \in {"id", "body"} => InFrame(m)
    BY <1>2 DEF InPlace
  <2>2. m \in 1..Len(sent') + 1
    BY <1>3, <1>5
  <2>3. ActedOn(handled, m)'
    BY <2>1, <1>1, <1>3, DueAppend
  <2>4. ASSUME NEW i \in Int, m = Len(sent) + 1 => i = LengthAt,
               Begins(sent, Stream, closed, m, i)
        PROVE  Begins(sent', Stream', closed', m, i)
    BY <2>4, <1>1, <1>2, <1>3, <1>4, <1>6, BeginsAppend
  <2>5. pc = "length" => Begins(sent', Stream', closed', m, LengthAt)
    <3>1. LengthAt \in Int
      BY DEF LengthAt
    <3> QED
      BY <3>1, <2>1, <2>4
  <2>6. ASSUME pc \in {"id", "body"} PROVE InFrame(m)'
    <3>1. InFrame(m)
      BY <2>1, <2>6
    <3>2. m \in 1..Len(sent) /\ m # Len(sent) + 1
      BY <3>1, <1>3 DEF InFrame
    <3>3. m \in 1..Len(sent') /\ sent'[m] = sent[m] /\ IdAt \in Int /\ 1 \in Int
      BY <3>2, <1>3, <1>5 DEF IdAt
    <3>4. \A i \in Int : Begins(sent, Stream, closed, m, i) => Begins(sent', Stream', closed', m, i)
      BY <2>4, <3>2
    <3>5. Encrypted' = Encrypted
      BY <1>1 DEF Encrypted
    <3> QED
      BY <3>1, <3>3, <3>4, <3>5, <1>1 DEF InFrame
  <2> QED
    BY <2>2, <2>3, <2>5, <2>6, <1>1 DEF InPlace
<1>11. ClosedByClient'
  BY <1>1, <1>2 DEF ClosedByClient, AtEnd
<1>12. Running'
  BY <1>1, <1>2 DEF Running
<1> QED
  BY <1>7, <1>8, <1>9, <1>10, <1>11, <1>12 DEF WInv

\* Bytes arrive.
LEMMA ArriveInPlace ==
  ASSUME WInv, Arrive
  PROVE  WInv'
<1>1. PICK k \in Pieces :
        /\ arrived' = arrived \o SubSeq(flight, 1, k)
        /\ flight' = SubSeq(flight, k + 1, Len(flight))
  BY DEF Arrive
<1>2. /\ mode' = mode /\ sent' = sent /\ closed' = closed
      /\ pc' = pc /\ packetId' = packetId /\ readLen' = readLen /\ readIndex' = readIndex
      /\ buffer' = buffer /\ handled' = handled /\ result' = result /\ short' = short
  BY DEF Arrive, server
<1>3. WireTypeOK /\ Bytes /\ Running /\ InPlace /\ ClosedByClient /\ Carries(sent, Stream, closed)
  BY DEF WInv
<1>4. k \in 1..Len(flight) /\ arrived \in Seq(AnyByte) /\ flight \in Seq(AnyByte)
  BY <1>3, Typed DEF Pieces
<1>5. arrived' \in Seq(AnyByte) /\ flight' \in Seq(AnyByte) /\ Stream' = Stream
  BY <1>1, <1>4, Passing DEF Stream
<1>6. flight # <<>>
  <2>1. Len(flight) # 0
    BY <1>4
  <2> QED
    BY <2>1, EmptySeq
<1>7. WireTypeOK'
  BY <1>2, <1>3 DEF WireTypeOK, ClientFrame
<1>8. Bytes'
  BY <1>2, <1>3, <1>5 DEF Bytes, Encrypted
<1>9. Carries(sent, Stream, closed)'
  BY <1>2, <1>3, <1>5
<1>10. InPlace'
  <2> SUFFICES ASSUME ~short PROVE InPlace'
    BY <1>2 DEF InPlace
  <2>1. PICK m \in 1..Len(sent) + 1 :
          /\ ActedOn(handled, m)
          /\ pc = "length" => Begins(sent, Stream, closed, m, LengthAt)
          /\ pc \in {"id", "body"} => InFrame(m)
    BY <1>3 DEF InPlace
  <2>2. ActedOn(handled, m)'
    BY <2>1, <1>2, ActedSame
  <2>3. InFrame(m)' <=> InFrame(m)
    BY <1>2, <1>5 DEF InFrame, Encrypted
  <2> QED
    BY <2>1, <2>2, <2>3, <1>2, <1>5 DEF InPlace
<1>11. ClosedByClient' /\ Running'
  BY <1>2, <1>3, <1>6 DEF ClosedByClient, AtEnd, Running
<1> QED
  BY <1>7, <1>8, <1>9, <1>10, <1>11 DEF WInv

\* The client closes, and what was on its way may be lost.
LEMMA CloseInPlace ==
  ASSUME WInv, Close
  PROVE  WInv'
<1>1. /\ ~closed /\ closed' = TRUE /\ mode' = mode /\ sent' = sent /\ arrived' = arrived
      /\ pc' = pc /\ packetId' = packetId /\ readLen' = readLen /\ readIndex' = readIndex
      /\ buffer' = buffer /\ handled' = handled /\ result' = result /\ short' = short
  BY DEF Close, server
<1>2. WireTypeOK /\ Bytes /\ Running /\ InPlace /\ ClosedByClient /\ Carries(sent, Stream, closed)
  BY DEF WInv
<1>3. /\ arrived \in Seq(AnyByte) /\ flight \in Seq(AnyByte) /\ Stream \in Seq(AnyByte)
      /\ sent \in Seq(SentFrame) /\ closed \in BOOLEAN
  BY <1>2, Typed
<1>4. PICK k \in 0..Len(flight) : flight' = SubSeq(flight, 1, k)
  <2>1. Len(flight) \in 0..Len(flight) /\ SubSeq(flight, 1, Len(flight)) = flight
    BY <1>3, LenProperties, SubSeqFull
  <2> QED
    BY <2>1 DEF Close
<1>5. /\ flight' \in Seq(AnyByte) /\ Len(arrived) + k \in 0..Len(Stream)
      /\ Stream' = SubSeq(Stream, 1, Len(arrived) + k)
  BY <1>1, <1>3, <1>4, TakeLast DEF Stream
<1>6. Carries(sent', Stream', closed')
  BY <1>1, <1>2, <1>3, <1>5, CarriesPrefix
<1>7. WireTypeOK'
  BY <1>1, <1>2 DEF WireTypeOK, ClientFrame
<1>8. Bytes'
  BY <1>1, <1>2, <1>5 DEF Bytes, Encrypted
<1>9. InPlace'
  <2> SUFFICES ASSUME ~short PROVE InPlace'
    BY <1>1 DEF InPlace
  <2>1. PICK m \in 1..Len(sent) + 1 :
          /\ ActedOn(handled, m)
          /\ pc = "length" => Begins(sent, Stream, closed, m, LengthAt)
          /\ pc \in {"id", "body"} => InFrame(m)
    BY <1>2 DEF InPlace
  <2>2. ActedOn(handled, m)'
    BY <2>1, <1>1, ActedSame
  <2>3. ASSUME NEW i, Begins(sent, Stream, closed, m, i)
        PROVE  Begins(sent', Stream', closed', m, i)
    BY <2>3, <1>1, <1>3, <1>5, BeginsPrefix
  <2>4. InFrame(m) => InFrame(m)'
    BY <2>3, <1>1 DEF InFrame, Encrypted
  <2> QED
    BY <2>1, <2>2, <2>3, <2>4, <1>1 DEF InPlace
<1>10. ClosedByClient' /\ Running'
  BY <1>1, <1>2 DEF ClosedByClient, AtEnd, Running
<1> QED
  BY <1>6, <1>7, <1>8, <1>9, <1>10 DEF WInv

\* The server writes into the buffer.
LEMMA ReplyInPlace ==
  ASSUME WInv, Reply
  PROVE  WInv'
<1>1. /\ pc = "length" /\ UNCHANGED client /\ arrived' = arrived /\ readIndex' = 1
      /\ packetId' = Finished /\ buffer' = [i \in DOMAIN buffer |-> Stale]
      /\ pc' = pc /\ readLen' = readLen /\ handled' = handled /\ result' = result
      /\ short' = short
  BY DEF Reply
<1>2. WireTypeOK /\ Bytes /\ Running /\ InPlace /\ ClosedByClient /\ Carries(sent, Stream, closed)
  BY DEF WInv
<1>3. /\ sent' = sent /\ mode' = mode /\ closed' = closed /\ flight' = flight
      /\ Stream' = Stream /\ Carries(sent, Stream, closed)'
  BY <1>1, <1>2, NotServed DEF client
<1>4. Cap \in Nat \ {0} /\ DOMAIN buffer = 0..Cap - 1
  BY <1>2, Typed DEF WireTypeOK
<1>5. WireTypeOK'
  <2>1. 1 \in 0..Cap /\ DOMAIN buffer' = 0..Cap - 1
    BY <1>1, <1>4
  <2> QED
    BY <2>1, <1>1, <1>2, <1>3 DEF WireTypeOK, ClientFrame
<1>6. Bytes'
  <2>1. \A i \in 0..Cap - 1 : buffer'[i] = Stale
    BY <1>1, <1>4
  <2> QED
    BY <2>1, <1>1, <1>2, <1>3 DEF Bytes, Encrypted
<1>7. InPlace'
  <2> SUFFICES ASSUME ~short PROVE InPlace'
    BY <1>1 DEF InPlace
  <2>1. PICK m \in 1..Len(sent) + 1 :
          ActedOn(handled, m) /\ Begins(sent, Stream, closed, m, LengthAt)
    BY <1>1, <1>2 DEF InPlace
  <2>2. ActedOn(handled, m)'
    BY <2>1, <1>1, <1>3, ActedSame
  <2>3. Begins(sent, Stream, closed, m, LengthAt)'
    BY <2>1, <1>3
  <2> QED
    BY <2>2, <2>3, <1>1, <1>3 DEF InPlace
<1>8. ClosedByClient' /\ Running'
  BY <1>1, <1>2, <1>3 DEF ClosedByClient, AtEnd, Running
<1> QED
  BY <1>3, <1>5, <1>6, <1>7, <1>8 DEF WInv

\* The server reads a length.
LEMMA ReadLengthInPlace ==
  ASSUME WInv, ReadLength
  PROVE  WInv'
<1>1. /\ pc = "length" /\ Expecting /\ arrived # <<>> /\ UNCHANGED client
      /\ readLen' \in LengthsIn(Head(arrived)) /\ arrived' = Tail(arrived)
      /\ pc' = IF Encrypted THEN "body" ELSE "id"
      /\ packetId' = packetId /\ readIndex' = readIndex /\ buffer' = buffer
      /\ handled' = handled /\ result' = result /\ short' = short
  BY DEF ReadLength
<1>2. WireTypeOK /\ Bytes /\ Running /\ InPlace /\ ClosedByClient /\ Carries(sent, Stream, closed)
  BY DEF WInv
<1>3. /\ sent \in Seq(SentFrame) /\ arrived \in Seq(AnyByte) /\ flight \in Seq(AnyByte)
      /\ Stream \in Seq(AnyByte) /\ closed \in BOOLEAN /\ Cap \in Nat \ {0}
      /\ Len(sent) \in Nat
  BY <1>2, Typed
<1>4. /\ 1 \in 0..Len(arrived) /\ 1 \in 0..Len(Stream) /\ Stream # <<>>
      /\ Head(arrived) = Stream[1] /\ Tail(arrived) = SubSeq(arrived, 1 + 1, Len(arrived))
  <2>1. Len(arrived) \in Nat \ {0}
    BY <1>1, <1>3, EmptySeq
  <2>2. Tail(arrived) = SubSeq(arrived, 1 + 1, Len(arrived))
    BY <1>1, <1>3, TailIsSubSeq
  <2> QED
    BY <2>1, <2>2, <1>1, <1>3, One DEF Stream
<1>5. /\ arrived' \in Seq(AnyByte) /\ flight' \in Seq(AnyByte)
      /\ sent' = sent /\ mode' = mode /\ closed' = closed
      /\ Stream' = SubSeq(Stream, 1 + 1, Len(Stream)) /\ Carries(sent, Stream, closed)'
  BY <1>1, <1>2, <1>4, Served
<1>6. Encrypted' = Encrypted
  BY <1>5 DEF Encrypted
<1>7. readLen' \in 0..Cap
  <2>1. ByteOf(sent, Stream[1])
    <3>1. 1 \in 1..Len(Stream)
      BY <1>4
    <3> QED
      BY <3>1, <1>2 DEF Carries
  <2>2. sent[Stream[1].frame].size + 1 \in 0..Cap
    BY <2>1, <1>3, FrameIs DEF ByteOf
  <2> QED
    BY <2>2, <1>1, <1>4 DEF LengthsIn
<1>8. WireTypeOK'
  BY <1>1, <1>2, <1>5, <1>7 DEF WireTypeOK, ClientFrame
<1>9. Bytes'
  BY <1>1, <1>2, <1>5, <1>6 DEF Bytes, Expecting
<1>10. InPlace'
  <2> SUFFICES ASSUME ~short PROVE InPlace'
    BY <1>1 DEF InPlace
  <2>1. PICK m \in 1..Len(sent) + 1 :
          ActedOn(handled, m) /\ Begins(sent, Stream, closed, m, LengthAt)
    BY <1>1, <1>2 DEF InPlace
  <2>2. m \in 1..Len(sent) /\ Stream[1] = [frame |-> m, at |-> LengthAt]
    BY <2>1, <1>2, <1>3, <1>4, ReadingFrame
  <2>3. readLen' = sent[m].size + 1
    BY <2>2, <1>1, <1>4 DEF LengthsIn
  <2>4. Begins(sent, SubSeq(Stream, 1 + 1, Len(Stream)), closed, m, IdAt)
    <3>1. sent[m].size \in Nat
      BY <2>2, <1>3, FrameIs
    <3>2. /\ LengthAt \in LengthAt..sent[m].size + 1 /\ LengthAt + 1 <= sent[m].size + 1
          /\ LengthAt + 1 = IdAt
      BY <3>1 DEF LengthAt, IdAt
    <3>3. Begins(sent, SubSeq(Stream, 1 + 1, Len(Stream)), closed, m, LengthAt + 1)
      BY <3>2, <2>1, <2>2, <1>2, <1>3, <1>4, FrameAt
    <3> QED
      BY <3>2, <3>3
  <2>5. ActedOn(handled, m)'
    BY <2>1, <1>1, <1>5, ActedSame
  <2>6. InFrame(m)'
    BY <2>2, <2>3, <2>4, <1>1, <1>5, <1>6 DEF InFrame
  <2> QED
    BY <2>2, <2>5, <2>6, <1>1, <1>3, <1>5 DEF InPlace
<1>11. ClosedByClient' /\ Running'
  BY <1>1, <1>2 DEF ClosedByClient, AtEnd, Running
<1> QED
  BY <1>5, <1>8, <1>9, <1>10, <1>11 DEF WInv

\* The server reads an id.
LEMMA ReadIdInPlace ==
  ASSUME WInv, ReadId
  PROVE  WInv'
<1>1. /\ pc = "id" /\ arrived # <<>> /\ arrived' = Tail(arrived) /\ readLen' = readLen
      /\ UNCHANGED client /\ readIndex' = readIndex /\ buffer' = buffer
      /\ handled' = handled /\ short' = short
  BY DEF ReadId, Stop
<1>2. \/ readLen = 0 /\ pc' = "stopped" /\ result' = "hangs" /\ packetId' = packetId
      \/ /\ readLen # 0 /\ pc' = "body" /\ packetId' \in KindsIn(Head(arrived))
         /\ result' = result
  BY DEF ReadId, Stop
<1>3. WireTypeOK /\ Bytes /\ Running /\ InPlace /\ ClosedByClient /\ Carries(sent, Stream, closed)
  BY DEF WInv
<1>4. /\ sent \in Seq(SentFrame) /\ arrived \in Seq(AnyByte) /\ flight \in Seq(AnyByte)
      /\ Stream \in Seq(AnyByte) /\ closed \in BOOLEAN /\ Cap \in Nat \ {0}
      /\ Len(sent) \in Nat
  BY <1>3, Typed
<1>5. /\ 1 \in 0..Len(arrived) /\ 1 \in 0..Len(Stream) /\ Stream # <<>>
      /\ Head(arrived) = Stream[1] /\ Tail(arrived) = SubSeq(arrived, 1 + 1, Len(arrived))
  <2>1. Len(arrived) \in Nat \ {0}
    BY <1>1, <1>4, EmptySeq
  <2>2. Tail(arrived) = SubSeq(arrived, 1 + 1, Len(arrived))
    BY <1>1, <1>4, TailIsSubSeq
  <2> QED
    BY <2>1, <2>2, <1>1, <1>4, One DEF Stream
<1>6. /\ arrived' \in Seq(AnyByte) /\ flight' \in Seq(AnyByte)
      /\ sent' = sent /\ mode' = mode /\ closed' = closed
      /\ Stream' = SubSeq(Stream, 1 + 1, Len(Stream)) /\ Carries(sent, Stream, closed)'
  BY <1>1, <1>3, <1>5, Served
<1>7. Encrypted' = Encrypted
  BY <1>6 DEF Encrypted
<1>8. packetId' \in Kind \cup {Finished}
  <2>1. CASE packetId' = packetId
    BY <2>1, <1>3 DEF WireTypeOK
  <2>2. CASE packetId' \in KindsIn(Head(arrived))
    <3>1. ByteOf(sent, Stream[1])
      <4>1. 1 \in 1..Len(Stream)
        BY <1>5
      <4> QED
        BY <4>1, <1>3 DEF Carries
    <3>2. sent[Stream[1].frame].kind \in Kind
      BY <3>1, <1>4, FrameIs DEF ByteOf
    <3> QED
      BY <2>2, <3>2, <1>5 DEF KindsIn
  <2> QED
    BY <2>1, <2>2, <1>2
<1>9. WireTypeOK'
  BY <1>1, <1>2, <1>3, <1>6, <1>8 DEF WireTypeOK, ClientFrame
<1>10. Bytes'
  <2>1. readLen \in Nat
    BY <1>3, <1>4 DEF WireTypeOK
  <2>2. pc' = "body" => readLen' > 0
    BY <2>1, <1>1, <1>2
  <2> QED
    BY <2>2, <1>1, <1>2, <1>3, <1>6, <1>7 DEF Bytes
<1>11. InPlace'
  <2> SUFFICES ASSUME ~short PROVE InPlace'
    BY <1>1 DEF InPlace
  <2>1. PICK m \in 1..Len(sent) + 1 : ActedOn(handled, m) /\ InFrame(m)
    BY <1>1, <1>3 DEF InPlace
  <2>2. /\ m \in 1..Len(sent) /\ readLen = sent[m].size + 1
        /\ Begins(sent, Stream, closed, m, IdAt)
    BY <2>1, <1>1 DEF InFrame
  <2>3. sent[m].size \in Nat /\ m \in Nat \ {0}
    BY <2>2, <1>4, FrameIs
  <2>4. Stream[1] = [frame |-> m, at |-> IdAt]
    <3>1. ~(m <= Len(sent) /\ IdAt > sent[m].size)
      BY <2>3 DEF IdAt
    <3> QED
      BY <3>1, <2>2, <1>5 DEF Begins, First
  <2>5. Begins(sent, SubSeq(Stream, 1 + 1, Len(Stream)), closed, m, 1)
    <3>1. /\ IdAt \in LengthAt..sent[m].size + 1 /\ IdAt + 1 <= sent[m].size + 1
          /\ IdAt + 1 = 1
      BY <2>3 DEF LengthAt, IdAt
    <3>2. Begins(sent, SubSeq(Stream, 1 + 1, Len(Stream)), closed, m, IdAt + 1)
      BY <3>1, <2>2, <1>3, <1>4, <1>5, FrameAt
    <3> QED
      BY <3>1, <3>2
  <2>6. ActedOn(handled, m)'
    BY <2>1, <1>1, <1>6, ActedSame
  <2>7. KindsIn(Stream[1]) = {sent[m].kind}
    <3>1. Stream[1] # Stale /\ Stream[1].at = IdAt /\ Stream[1].frame = m
      BY <2>3, <2>4 DEF Stale
    <3> QED
      BY <3>1 DEF KindsIn
  <2>8. pc' = "body" /\ packetId' = sent[m].kind
    BY <2>2, <2>3, <2>7, <1>2, <1>5
  <2>9. ~Encrypted
    BY <1>1, <1>3 DEF Bytes
  <2>10. InFrame(m)'
    BY <2>9, <2>2, <2>5, <2>8, <1>1, <1>6, <1>7 DEF InFrame
  <2> QED
    BY <2>10, <2>2, <2>6, <2>8, <1>1, <1>4, <1>6 DEF InPlace
<1>12. ClosedByClient' /\ Running'
  BY <1>1, <1>2, <1>3 DEF ClosedByClient, AtEnd, Running
<1> QED
  BY <1>6, <1>9, <1>10, <1>11, <1>12 DEF WInv

\* What the buffer holds are bytes.
LEMMA BufferIs ==
  ASSUME Bytes
  PROVE  \A i \in 0..Cap - 1 : buffer[i] \in AnyByte
<1>1. Stale \in AnyByte
  BY DEF Stale, AnyByte
<1>2. \A b : ByteOf(sent, b) => b \in AnyByte
  BY DEF ByteOf
<1> QED
  BY <1>1, <1>2 DEF Bytes

\* At the end of the stream a length is read.
LEMMA ReadLengthEndInPlace ==
  ASSUME WInv, ReadLengthEnd
  PROVE  WInv'
<1>1. /\ pc = "length" /\ Expecting /\ AtEnd /\ readLen' = 0
      /\ UNCHANGED client /\ arrived' = arrived /\ buffer' = buffer
  BY DEF ReadLengthEnd
<1>2. WireTypeOK /\ Bytes /\ Running /\ InPlace /\ ClosedByClient /\ Carries(sent, Stream, closed)
  BY DEF WInv
<1>3. /\ arrived' \in Seq(AnyByte) /\ flight' \in Seq(AnyByte) /\ flight' = flight
      /\ sent' = sent /\ mode' = mode /\ closed' = closed /\ Stream' = Stream
      /\ Carries(sent, Stream, closed)'
  BY <1>1, <1>2, NotServed DEF client
<1>4. Encrypted' = Encrypted /\ Cap \in Nat \ {0} /\ 0 \in 0..Cap /\ result = "none"
  BY <1>1, <1>2, <1>3, Typed DEF Encrypted, Running
<1>5. CASE Encrypted
  <2>1. /\ pc' = "stopped" /\ result' = "closed" /\ packetId' = ZeroId /\ readIndex' = 0
        /\ handled' = handled /\ short' = short
    BY <1>5 DEF ReadLengthEnd
  <2>2. WireTypeOK'
    <3>1. ZeroId \in Kind
      BY WireAssumption
    <3> QED
      BY <2>1, <3>1, <1>1, <1>2, <1>3, <1>4 DEF WireTypeOK, ClientFrame
  <2>3. Bytes'
    BY <2>1, <1>1, <1>2, <1>3, <1>4 DEF Bytes
  <2>4. InPlace'
    <3> SUFFICES ASSUME ~short PROVE InPlace'
      BY <2>1 DEF InPlace
    <3>1. PICK m \in 1..Len(sent) + 1 : ActedOn(handled, m)
      BY <1>2 DEF InPlace
    <3>2. ActedOn(handled, m)'
      BY <3>1, <2>1, <1>3, ActedSame
    <3> QED
      BY <3>2, <2>1, <1>3 DEF InPlace
  <2>5. ClosedByClient' /\ Running'
    BY <2>1, <1>1, <1>3 DEF ClosedByClient, AtEnd, Running
  <2> QED
    BY <2>2, <2>3, <2>4, <2>5, <1>3 DEF WInv
<1>6. CASE ~Encrypted
  <2>1. HandleExpected(packetId, buffer, readIndex, 0) /\ short' = TRUE /\ packetId' = packetId
    BY <1>6 DEF ReadLengthEnd
  <2>2. Len(handled) < Len(Login) /\ readIndex \in 0..Cap
    BY <1>1, <1>2, <1>6 DEF Expecting, WireTypeOK
  <2>3. /\ readIndex' \in 0..Cap /\ handled' \in Seq(Handled)
        /\ \/ pc' = "length" /\ result' = "none"
           \/ pc' = "stopped" /\ result' \in {"error", "aborts"}
    BY <2>1, <2>2, <1>2, <1>4, BufferIs, HandleExpectedTyped
  <2>4. WireTypeOK'
    BY <2>1, <2>3, <1>1, <1>2, <1>3, <1>4 DEF WireTypeOK, ClientFrame
  <2>5. Bytes'
    BY <2>3, <1>1, <1>2, <1>3, <1>4 DEF Bytes
  <2>6. InPlace' /\ ClosedByClient' /\ Running'
    BY <2>1, <2>3 DEF InPlace, ClosedByClient, Running
  <2> QED
    BY <2>4, <2>5, <2>6, <1>3 DEF WInv
<1> QED
  BY <1>5, <1>6

\* At the end of the stream an id is read.
LEMMA ReadIdEndInPlace ==
  ASSUME WInv, ReadIdEnd
  PROVE  WInv'
<1>1. /\ pc = "id" /\ HandleExpected(ZeroId, buffer, readIndex, readLen)
      /\ packetId' = ZeroId /\ short' = TRUE
      /\ UNCHANGED client /\ arrived' = arrived /\ buffer' = buffer /\ readLen' = readLen
  BY DEF ReadIdEnd
<1>2. WireTypeOK /\ Bytes /\ Running /\ Carries(sent, Stream, closed)
  BY DEF WInv
<1>3. /\ arrived' \in Seq(AnyByte) /\ flight' \in Seq(AnyByte)
      /\ sent' = sent /\ mode' = mode /\ closed' = closed
      /\ Carries(sent, Stream, closed)'
  BY <1>1, <1>2, NotServed
<1>4. /\ Encrypted' = Encrypted /\ ~Encrypted /\ result = "none" /\ Len(handled) < Len(Login)
      /\ readIndex \in 0..Cap /\ readLen \in 0..Cap
  BY <1>1, <1>2, <1>3 DEF Encrypted, Running, Bytes, WireTypeOK
<1>5. /\ readIndex' \in 0..Cap /\ handled' \in Seq(Handled)
      /\ \/ pc' = "length" /\ result' = "none"
         \/ pc' = "stopped" /\ result' \in {"error", "aborts"}
  BY <1>1, <1>2, <1>4, BufferIs, HandleExpectedTyped
<1>6. WireTypeOK'
  <2>1. ZeroId \in Kind
    BY WireAssumption
  <2> QED
    BY <2>1, <1>1, <1>2, <1>3, <1>5 DEF WireTypeOK, ClientFrame
<1>7. Bytes'
  BY <1>1, <1>2, <1>3, <1>4, <1>5 DEF Bytes
<1>8. InPlace' /\ ClosedByClient' /\ Running'
  BY <1>1, <1>5 DEF InPlace, ClosedByClient, Running
<1> QED
  BY <1>3, <1>6, <1>7, <1>8 DEF WInv

\* A read returns what has arrived, and no more than it asks for.
LEMMA ReceivedIs ==
  ASSUME arrived \in Seq(AnyByte), flight \in Seq(AnyByte), NEW n \in Nat
  PROVE  /\ Len(Received(n)) \in 0..Len(arrived) /\ Len(Received(n)) <= n
         /\ Len(Received(n)) \in 0..Len(Stream)
         /\ \A j \in 1..Len(Received(n)) : Received(n)[j] = Stream[j] /\ j \in 1..Len(Stream)
         /\ Received(n) = <<>> <=> Len(Received(n)) = 0
<1> DEFINE k == IF n < Len(arrived) THEN n ELSE Len(arrived)
           r == SubSeq(arrived, 1, k)
<1>1. /\ Len(arrived) \in Nat /\ Len(flight) \in Nat
      /\ Len(Stream) = Len(arrived) + Len(flight)
      /\ \A i \in 1..Len(arrived) : Stream[i] = arrived[i]
  BY Join DEF Stream
<1>2. k \in 0..Len(arrived) /\ k <= n
  BY <1>1
<1> HIDE DEF k
<1>3. r \in Seq(AnyByte) /\ Len(r) = k /\ \A j \in 1..k : r[j] = arrived[j]
  BY <1>2, Take
<1> HIDE DEF r
<1>4. \A j \in 1..k : j \in 1..Len(arrived) /\ j \in 1..Len(Stream)
  BY <1>1, <1>2
<1>5. k \in 0..Len(Stream)
  BY <1>1, <1>2
<1>6. r = <<>> <=> Len(r) = 0
  BY <1>3, EmptySeq
<1>7. Received(n) = r
  BY DEF Received, r, k
<1> QED
  BY <1>1, <1>2, <1>3, <1>4, <1>5, <1>6, <1>7

\* A frame whose bytes the reading function takes is acted on if it is due, and
\* passed over if it is not.
LEMMA FrameHandled ==
  ASSUME WireTypeOK, Bytes, sent' = sent, mode' = mode, NEW m \in 1..Len(sent),
         ActedOn(handled, m), NEW d, NEW i, NEW len, Handle(sent[m].kind, d, i, len),
         Taken(sent[m].kind, d, i, len) \in Seq(AnyByte),
         Len(Taken(sent[m].kind, d, i, len)) = sent[m].size,
         \A j \in 1..sent[m].size :
           Taken(sent[m].kind, d, i, len)[j] = [frame |-> m, at |-> j]
  PROVE  ActedOn(handled, m + 1)'
<1> DEFINE k == sent[m].kind
           size == sent[m].size
           b == Taken(k, d, i, len)
           p == [j \in 1..size |-> [frame |-> m, at |-> j]]
<1>1. k \in Kind /\ size \in Nat /\ m \in Nat /\ handled \in Seq(Handled)
  <2>1. size \in 0..Cap - 1 /\ k \in Kind /\ Cap \in Nat /\ Len(sent) \in Nat
    BY SentIs, Typed
  <2> QED
    BY <2>1, Typed
<1>2. PacketOf(m) = [kind |-> k, payload |-> p]
  BY DEF PacketOf
<1>3. m \in Due <=> size \in Accepts[k] /\ ~(Encrypted /\ k \in Ignored)
  <2>1. m \in DOMAIN sent
    BY Typed
  <2> QED
    BY <2>1 DEF Due, Acceptable
<1>4. b \in Seq(AnyByte) /\ Len(b) = size /\ \A j \in 1..size : b[j] = [frame |-> m, at |-> j]
  OBVIOUS
<1>5. \/ Encrypted /\ k \in Ignored /\ handled' = handled
      \/ /\ ~(Encrypted /\ k \in Ignored)
         /\ IF Len(b) \in Accepts[k]
              THEN handled' = Append(handled, [kind |-> k, payload |-> b])
              ELSE handled' = handled
  BY DEF Handle
<1> HIDE DEF b, k, size
<1>6. p \in Seq(AnyByte) /\ Len(p) = size /\ \A j \in 1..size : p[j] = [frame |-> m, at |-> j]
  <2>1. \A j \in 1..size : [frame |-> m, at |-> j] \in AnyByte
    BY <1>1 DEF AnyByte
  <2>2. p \in [1..size -> AnyByte]
    BY <2>1
  <2>3. \A j \in 1..size : p[j] = [frame |-> m, at |-> j]
    OBVIOUS
  <2> HIDE DEF p
  <2> QED
    BY <2>2, <2>3, <1>1
<1> HIDE DEF p
<1>7. b = p
  BY <1>4, <1>6, SeqEqual
<1>8. PacketOf(m) \in Handled
  BY <1>1, <1>2, <1>6 DEF Handled
<1>9. sent \in Seq(SentFrame)
  BY Typed
<1>10. CASE m \in Due
  <2>1. handled' = Append(handled, PacketOf(m))
    BY <1>10, <1>2, <1>3, <1>4, <1>5, <1>7
  <2>2. ActedOn(Append(handled, PacketOf(m)), m + 1)
    BY <1>1, <1>8, <1>9, <1>10, OneMoreHandled
  <2> QED
    BY <2>1, <2>2, ActedSame
<1>11. CASE m \notin Due
  <2>1. handled' = handled
    BY <1>11, <1>3, <1>4, <1>5
  <2>2. ActedOn(handled, m + 1)
    BY <1>1, <1>9, <1>11, OneMoreHandled
  <2> QED
    BY <2>1, <2>2, ActedSame
<1> QED
  BY <1>10, <1>11

\* In play the server reads a body.
LEMMA ReadEncryptedBodyInPlace ==
  ASSUME WInv, ReadEncryptedBody
  PROVE  WInv'
<1> DEFINE n == Len(Received(readLen))
           d == [i \in 0..Cap - 1 |-> IF i < n THEN Received(readLen)[i + 1]
                                      ELSE IF i < readLen THEN Stale ELSE buffer[i]]
<1>1. /\ pc = "body" /\ Encrypted /\ UNCHANGED client /\ readLen' = readLen
      /\ buffer' = d /\ arrived' = SubSeq(arrived, n + 1, Len(arrived))
      /\ short' = (short \/ n < readLen)
  BY DEF ReadEncryptedBody
<1>2. \/ /\ readLen = 0 /\ pc' = "stopped" /\ result' = "closed" /\ packetId' = ZeroId
         /\ readIndex' = 0 /\ handled' = handled
      \/ readLen # 0 /\ \E k \in KindsIn(d[0]) : packetId' = k /\ Handle(k, d, 1, readLen)
  BY DEF ReadEncryptedBody
<1>3. WireTypeOK /\ Bytes /\ Running /\ InPlace /\ ClosedByClient /\ Carries(sent, Stream, closed)
  BY DEF WInv
<1>4. /\ sent \in Seq(SentFrame) /\ arrived \in Seq(AnyByte) /\ flight \in Seq(AnyByte)
      /\ Stream \in Seq(AnyByte) /\ closed \in BOOLEAN /\ Cap \in Nat \ {0}
      /\ Len(sent) \in Nat /\ handled \in Seq(Handled)
      /\ readLen \in 0..Cap /\ readLen \in Nat /\ result = "none"
  BY <1>1, <1>3, Typed DEF WireTypeOK, Running
<1>5. /\ n \in 0..Len(arrived) /\ n <= readLen /\ n \in 0..Len(Stream)
      /\ \A j \in 1..n : Received(readLen)[j] = Stream[j] /\ j \in 1..Len(Stream)
  BY <1>4, ReceivedIs
<1>6. /\ arrived' \in Seq(AnyByte) /\ flight' \in Seq(AnyByte)
      /\ sent' = sent /\ mode' = mode /\ closed' = closed
      /\ Stream' = SubSeq(Stream, n + 1, Len(Stream)) /\ Carries(sent, Stream, closed)'
  BY <1>1, <1>3, <1>5, Served
<1>7. Encrypted' = Encrypted
  BY <1>6 DEF Encrypted
<1>8. \A i \in 0..Cap - 1 : i < n => d[i] = Stream[i + 1] /\ i + 1 \in 1..Len(Stream)
  <2> SUFFICES ASSUME NEW i \in 0..Cap - 1, i < n
               PROVE  d[i] = Stream[i + 1] /\ i + 1 \in 1..Len(Stream)
    OBVIOUS
  <2>1. i + 1 \in 1..n
    BY <1>4, <1>5
  <2> QED
    BY <2>1, <1>5
<1>9. \A i \in 0..Cap - 1 : d[i] = Stale \/ ByteOf(sent, d[i])
  <2> SUFFICES ASSUME NEW i \in 0..Cap - 1 PROVE d[i] = Stale \/ ByteOf(sent, d[i])
    OBVIOUS
  <2>1. CASE i < n
    BY <2>1, <1>3, <1>8 DEF Carries
  <2>2. CASE ~(i < n)
    <3>1. d[i] = Stale \/ d[i] = buffer[i]
      BY <2>2
    <3> QED
      BY <3>1, <1>3 DEF Bytes
  <2> QED
    BY <2>1, <2>2
<1>10. DOMAIN d = 0..Cap - 1
  OBVIOUS
<1> HIDE DEF n, d
<1>11. \A i \in 0..Cap - 1 : d[i] \in AnyByte
  <2>1. Stale \in AnyByte
    BY DEF Stale, AnyByte
  <2> QED
    BY <2>1, <1>9 DEF ByteOf
<1>12. 0 \in 0..Cap - 1 /\ 1 \in 0..Cap
  BY <1>4
<1>13. KindsIn(d[0]) \subseteq Kind
  <2>1. CASE d[0] = Stale
    BY <2>1 DEF KindsIn
  <2>2. CASE ByteOf(sent, d[0])
    <3>1. sent[d[0].frame].kind \in Kind
      BY <2>2, <1>4, FrameIs DEF ByteOf
    <3> QED
      BY <3>1 DEF KindsIn
  <2> QED
    BY <2>1, <2>2, <1>9, <1>12
<1>14. /\ packetId' \in Kind /\ readIndex' \in 0..Cap /\ handled' \in Seq(Handled)
       /\ \/ pc' = "length" /\ result' = "none"
          \/ pc' = "stopped" /\ result' = "error"
          \/ pc' = "stopped" /\ result' = "closed" /\ readLen = 0
  <2>1. CASE readLen = 0
    <3>1. ZeroId \in Kind
      BY WireAssumption
    <3> QED
      BY <2>1, <3>1, <1>2, <1>4
  <2>2. CASE readLen # 0
    <3>1. PICK k \in KindsIn(d[0]) : packetId' = k /\ Handle(k, d, 1, readLen)
      BY <2>2, <1>2
    <3>2. k \in Kind
      BY <1>13
    <3> QED
      BY <3>1, <3>2, <1>4, <1>11, <1>12, HandleTyped
  <2> QED
    BY <2>1, <2>2
<1>15. WireTypeOK'
  BY <1>1, <1>3, <1>6, <1>10, <1>14 DEF WireTypeOK, ClientFrame
<1>16. Bytes'
  <2>1. pc' \notin {"id", "body"}
    BY <1>14
  <2>2. \A i \in 0..Cap - 1 : buffer'[i] = Stale \/ ByteOf(sent', buffer'[i])
    BY <1>1, <1>6, <1>9
  <2> QED
    BY <2>1, <2>2, <1>6, <1>14 DEF Bytes
<1>17. ASSUME ~short'
       PROVE  InPlace' /\ readLen # 0
  <2>1. ~short /\ n = readLen
    <3>1. ~short /\ ~(n < readLen)
      BY <1>1, <1>17
    <3> QED
      BY <3>1, <1>4, <1>5
  <2>2. PICK m \in 1..Len(sent) + 1 : ActedOn(handled, m) /\ InFrame(m)
    BY <2>1, <1>1, <1>3 DEF InPlace
  <2> DEFINE size == sent[m].size
  <2>3. /\ m \in 1..Len(sent) /\ readLen = size + 1
        /\ Begins(sent, Stream, closed, m, IdAt)
    BY <2>2, <1>1 DEF InFrame
  <2>4. /\ size \in 0..Cap - 1 /\ sent[m].kind \in Kind /\ size <= Need[sent[m].kind]
        /\ Need[sent[m].kind] \in 0..Cap - 1 /\ m \in Nat \ {0}
    BY <2>3, <1>3, SentIs
  <2>5. /\ \A j \in 1..n : Stream[j] = [frame |-> m, at |-> IdAt + j - 1]
        /\ Begins(sent, SubSeq(Stream, n + 1, Len(Stream)), closed, m, IdAt + n)
    <3>1. IdAt \in LengthAt..sent[m].size + 1 /\ IdAt + n <= sent[m].size + 1
      BY <2>1, <2>3, <2>4 DEF IdAt, LengthAt
    <3> QED
      BY <3>1, <2>3, <1>3, <1>4, <1>5, FrameAt
  <2>6. Begins(sent, Stream', closed, m + 1, LengthAt)
    <3>1. IdAt + n = sent[m].size + 1
      BY <2>1, <2>3, <2>4 DEF IdAt
    <3>2. Begins(sent, Stream', closed, m, sent[m].size + 1)
      BY <3>1, <2>5, <1>6
    <3> QED
      BY <3>2, <2>3, <1>4, NextFrame
  <2>7. \A i \in 0..size : d[i] = [frame |-> m, at |-> i]
    <3> SUFFICES ASSUME NEW i \in 0..size PROVE d[i] = [frame |-> m, at |-> i]
      OBVIOUS
    <3>1. i \in 0..Cap - 1 /\ i < n /\ i + 1 \in 1..n /\ IdAt + (i + 1) - 1 = i
      <4>1. n = size + 1 /\ size \in 0..Cap - 1 /\ Cap \in Nat
        BY <2>1, <2>3, <2>4, <1>4
      <4> HIDE DEF size
      <4> QED
        BY <4>1 DEF IdAt
    <3> QED
      BY <3>1, <2>5, <1>8
  <2>8. KindsIn(d[0]) = {sent[m].kind}
    <3>1. d[0] = [frame |-> m, at |-> 0]
      BY <2>4, <2>7
    <3>2. d[0] # Stale /\ d[0].at = IdAt /\ d[0].frame = m
      BY <3>1, <2>4 DEF Stale, IdAt
    <3> QED
      BY <3>2 DEF KindsIn
  <2>9. readLen # 0
    BY <2>3, <2>4
  <2>10. Handle(sent[m].kind, d, 1, readLen)
    BY <2>8, <2>9, <1>2
  <2>11. /\ Taken(sent[m].kind, d, 1, readLen) \in Seq(AnyByte)
         /\ Len(Taken(sent[m].kind, d, 1, readLen)) = size
         /\ \A j \in 1..size : Taken(sent[m].kind, d, 1, readLen)[j] = [frame |-> m, at |-> j]
    <3> DEFINE b == Taken(sent[m].kind, d, 1, readLen)
    <3>1. /\ b \in Seq(AnyByte)
          /\ Len(b) = IF (IF 1 < readLen THEN readLen - 1 ELSE 0) < Need[sent[m].kind]
                        THEN IF 1 < readLen THEN readLen - 1 ELSE 0
                        ELSE Need[sent[m].kind]
          /\ \A j \in 1..Len(b), x \in Int : x = 1 + j - 1 => b[j] = d[x]
      <4> DEFINE kind == sent[m].kind
      <4>1. kind \in Kind /\ 1 \in 0..Cap /\ readLen \in 0..Cap
        BY <2>4, <1>4, <1>12
      <4> HIDE DEF kind
      <4>2. ASSUME NEW i \in 0..Cap
            PROVE  /\ Taken(kind, d, i, readLen) \in Seq(AnyByte)
                   /\ Len(Taken(kind, d, i, readLen)) =
                        IF (IF i < readLen THEN readLen - i ELSE 0) < Need[kind]
                          THEN IF i < readLen THEN readLen - i ELSE 0 ELSE Need[kind]
        <5>1. Taken(kind, d, i, readLen) \in Seq(AnyByte)
          BY <4>1, <1>11, TakenIs
        <5>2. Len(Taken(kind, d, i, readLen)) =
                IF (IF i < readLen THEN readLen - i ELSE 0) < Need[kind]
                  THEN IF i < readLen THEN readLen - i ELSE 0 ELSE Need[kind]
          BY <4>1, <1>11, TakenIs
        <5> QED
          BY <5>1, <5>2
      <4>3. ASSUME NEW i \in 0..Cap,
                   NEW j \in 1..Len(Taken(kind, d, i, readLen)), NEW x \in Int, x = i + j - 1
            PROVE  Taken(kind, d, i, readLen)[j] = d[x]
        BY <4>1, <4>3, <1>11, TakenAt
      <4> QED
        BY <4>1, <4>2, <4>3 DEF kind
    <3> HIDE DEF b
    <3>2. (IF 1 < readLen THEN readLen - 1 ELSE 0) = size
      BY <2>3, <2>4
    <3>3. Len(b) = size
      BY <3>1, <3>2, <2>4
    <3>4. \A j \in 1..size : j = 1 + j - 1 /\ j \in Int /\ j \in 0..size
      BY <2>4
    <3> QED
      BY <3>1, <3>3, <3>4, <2>7 DEF b
  <2>12. ActedOn(handled, m + 1)'
    <3> DEFINE one == 1
    <3>1. WireTypeOK /\ Bytes /\ sent' = sent /\ mode' = mode /\ ActedOn(handled, m)
      BY <2>2, <1>3, <1>6
    <3>2. /\ Handle(sent[m].kind, d, one, readLen)
          /\ Taken(sent[m].kind, d, one, readLen) \in Seq(AnyByte)
          /\ Len(Taken(sent[m].kind, d, one, readLen)) = sent[m].size
          /\ \A j \in 1..sent[m].size :
               Taken(sent[m].kind, d, one, readLen)[j] = [frame |-> m, at |-> j]
      BY <2>10, <2>11
    <3> HIDE DEF one
    <3> QED
      BY <3>1, <3>2, <2>3, FrameHandled
  <2>13. m + 1 \in 1..Len(sent) + 1
    BY <2>3, <1>4
  <2>14. pc' \notin {"id", "body"}
    BY <1>14
  <2> QED
    BY <2>6, <2>9, <2>12, <2>13, <2>14, <1>6 DEF InPlace
<1>18. InPlace' /\ ClosedByClient' /\ Running'
  <2>1. InPlace'
    BY <1>17 DEF InPlace
  <2>2. ClosedByClient'
    BY <1>14, <1>17 DEF ClosedByClient
  <2>3. Running'
    BY <1>14 DEF Running
  <2> QED
    BY <2>1, <2>2, <2>3
<1> QED
  BY <1>6, <1>15, <1>16, <1>18 DEF WInv

\* Before encryption the server reads a body.
LEMMA ReadPlainBodyInPlace ==
  ASSUME WholeBeforePlay, WInv, ReadPlainBody
  PROVE  WInv'
<1> DEFINE r == Received(PlainBodyLen)
           n == Len(r)
           i0 == IF r = <<>> THEN readIndex ELSE 0
           d == [i \in 0..Cap - 1 |-> IF i < n THEN r[i + 1] ELSE buffer[i]]
<1>1. /\ pc = "body" /\ ~Encrypted /\ UNCHANGED client /\ readLen' = readLen
      /\ packetId' = packetId
      /\ buffer' = d /\ arrived' = SubSeq(arrived, n + 1, Len(arrived))
      /\ short' = (short \/ n < PlainBodyLen) /\ HandleExpected(packetId, d, i0, readLen)
  BY DEF ReadPlainBody
<1>2. WireTypeOK /\ Bytes /\ Running /\ InPlace /\ ClosedByClient /\ Carries(sent, Stream, closed)
  BY DEF WInv
<1>3. /\ sent \in Seq(SentFrame) /\ arrived \in Seq(AnyByte) /\ flight \in Seq(AnyByte)
      /\ Stream \in Seq(AnyByte) /\ closed \in BOOLEAN /\ Cap \in Nat \ {0}
      /\ Len(sent) \in Nat /\ handled \in Seq(Handled)
      /\ readLen \in 0..Cap /\ readIndex \in 0..Cap /\ result = "none"
      /\ Len(handled) < Len(Login) /\ readLen > 0
  BY <1>1, <1>2, Typed DEF WireTypeOK, Running, Bytes
<1>4. PlainBodyLen \in Nat /\ readLen = PlainBodyLen + 1
  BY <1>3 DEF PlainBodyLen
<1>5. /\ n \in 0..Len(arrived) /\ n <= PlainBodyLen /\ n \in 0..Len(Stream)
      /\ \A j \in 1..n : r[j] = Stream[j] /\ j \in 1..Len(Stream)
      /\ r = <<>> <=> n = 0
  BY <1>3, <1>4, ReceivedIs
<1> HIDE DEF r
<1>6. /\ arrived' \in Seq(AnyByte) /\ flight' \in Seq(AnyByte)
      /\ sent' = sent /\ mode' = mode /\ closed' = closed
      /\ Stream' = SubSeq(Stream, n + 1, Len(Stream)) /\ Carries(sent, Stream, closed)'
  BY <1>1, <1>2, <1>5, Served
<1>7. Encrypted' = Encrypted
  BY <1>6 DEF Encrypted
<1>8. \A i \in 0..Cap - 1 : i < n => d[i] = Stream[i + 1] /\ i + 1 \in 1..Len(Stream)
  <2> SUFFICES ASSUME NEW i \in 0..Cap - 1, i < n
               PROVE  d[i] = Stream[i + 1] /\ i + 1 \in 1..Len(Stream)
    OBVIOUS
  <2>1. i + 1 \in 1..n
    BY <1>3, <1>5
  <2> QED
    BY <2>1, <1>5
<1>9. \A i \in 0..Cap - 1 : d[i] = Stale \/ ByteOf(sent, d[i])
  <2> SUFFICES ASSUME NEW i \in 0..Cap - 1 PROVE d[i] = Stale \/ ByteOf(sent, d[i])
    OBVIOUS
  <2>1. CASE i < n
    BY <2>1, <1>2, <1>8 DEF Carries
  <2>2. CASE ~(i < n)
    <3>1. d[i] = buffer[i]
      BY <2>2
    <3> QED
      BY <3>1, <1>2 DEF Bytes
  <2> QED
    BY <2>1, <2>2
<1>10. DOMAIN d = 0..Cap - 1
  OBVIOUS
<1>11. i0 \in 0..Cap
  BY <1>3
<1> HIDE DEF n, d
<1>12. \A i \in 0..Cap - 1 : d[i] \in AnyByte
  <2>1. Stale \in AnyByte
    BY DEF Stale, AnyByte
  <2> QED
    BY <2>1, <1>9 DEF ByteOf
<1>13. /\ readIndex' \in 0..Cap /\ handled' \in Seq(Handled)
       /\ \/ pc' = "length" /\ result' = "none"
          \/ pc' = "stopped" /\ result' \in {"error", "aborts"}
  <2> HIDE DEF i0
  <2> QED
    BY <1>1, <1>2, <1>3, <1>11, <1>12, HandleExpectedTyped
<1>14. WireTypeOK'
  BY <1>1, <1>2, <1>6, <1>10, <1>13 DEF WireTypeOK, ClientFrame
<1>15. Bytes'
  <2>1. pc' \notin {"id", "body"}
    BY <1>13
  <2>2. \A i \in 0..Cap - 1 : buffer'[i] = Stale \/ ByteOf(sent', buffer'[i])
    BY <1>1, <1>6, <1>9
  <2> QED
    BY <2>1, <2>2, <1>6, <1>13 DEF Bytes
<1>16. ASSUME ~short'
       PROVE  InPlace'
  <2>1. ~short /\ n = PlainBodyLen
    <3>1. ~short /\ ~(n < PlainBodyLen)
      BY <1>1, <1>16
    <3> QED
      BY <3>1, <1>4, <1>5
  <2>2. PICK m \in 1..Len(sent) + 1 : ActedOn(handled, m) /\ InFrame(m)
    BY <2>1, <1>1, <1>2 DEF InPlace
  <2> DEFINE size == sent[m].size
  <2>3. /\ m \in 1..Len(sent) /\ readLen = size + 1 /\ packetId = sent[m].kind
        /\ Begins(sent, Stream, closed, m, 1)
    BY <2>2, <1>1 DEF InFrame
  <2>4. /\ size \in 0..Cap - 1 /\ sent[m].kind \in Kind /\ size = Need[sent[m].kind]
        /\ Need[sent[m].kind] \in 0..Cap - 1 /\ m \in Nat \ {0} /\ n = size
    <3>1. ~mode.truncated
      BY <1>1, <1>2, Typed DEF WholeBeforePlay, Encrypted
    <3>2. n = size
      <4>1. size \in Nat
        BY <2>3, <1>2, <1>3, SentIs
      <4> QED
        BY <4>1, <2>1, <2>3, <1>4
    <3> QED
      BY <3>1, <3>2, <2>3, <1>2, SentIs
  <2>5. /\ \A j \in 1..n : Stream[j] = [frame |-> m, at |-> 1 + j - 1]
        /\ Begins(sent, SubSeq(Stream, n + 1, Len(Stream)), closed, m, 1 + n)
    <3>1. 1 \in LengthAt..sent[m].size + 1 /\ 1 + n <= sent[m].size + 1
      BY <2>4 DEF LengthAt
    <3> QED
      BY <3>1, <2>3, <1>2, <1>3, <1>5, FrameAt
  <2>6. Begins(sent, Stream', closed, m + 1, LengthAt)
    <3>1. 1 + n = sent[m].size + 1
      BY <2>4
    <3>2. Begins(sent, Stream', closed, m, sent[m].size + 1)
      BY <3>1, <2>5, <1>6
    <3> QED
      BY <3>2, <2>3, <1>3, NextFrame
  <2>7. \A i \in 0..Cap - 1 : i < size => d[i] = [frame |-> m, at |-> i + 1]
    <3> SUFFICES ASSUME NEW i \in 0..Cap - 1, i < size PROVE d[i] = [frame |-> m, at |-> i + 1]
      OBVIOUS
    <3>1. i < n /\ i + 1 \in 1..n /\ 1 + (i + 1) - 1 = i + 1
      BY <2>4
    <3> QED
      BY <3>1, <2>5, <1>8
  <2>8. CASE packetId = Login[Len(handled) + 1]
    <3>1. Handle(sent[m].kind, d, i0, readLen)
      BY <2>3, <2>8, <1>1 DEF HandleExpected
    <3>2. /\ Taken(sent[m].kind, d, i0, readLen) \in Seq(AnyByte)
          /\ Len(Taken(sent[m].kind, d, i0, readLen)) = size
          /\ \A j \in 1..size :
               Taken(sent[m].kind, d, i0, readLen)[j] = [frame |-> m, at |-> j]
      <4> DEFINE kind == sent[m].kind
      <4>1. kind \in Kind /\ i0 \in 0..Cap /\ readLen \in 0..Cap /\ size = Need[kind]
        BY <2>4, <1>3, <1>11
      <4>2. readLen = Need[kind] + 1
        BY <2>3, <4>1
      <4>3. Need[kind] # 0 => i0 = 0
        BY <2>4, <1>5
      <4>4. StartsWith(d, m, Need[kind])
        BY <1>12, <2>7, <4>1 DEF StartsWith
      <4> HIDE DEF kind, i0, d, size
      <4>5. IsPayload(Taken(kind, d, i0, readLen), m, Need[kind])
        BY <4>1, <4>2, <4>3, <4>4, TakenWhole
      <4> QED
        BY <4>1, <4>5 DEF IsPayload, kind
    <3>3. ActedOn(handled, m + 1)'
      BY <2>2, <2>3, <3>1, <3>2, <1>2, <1>6, FrameHandled
    <3>4. m + 1 \in 1..Len(sent) + 1
      BY <2>3, <1>3
    <3>5. pc' \notin {"id", "body"}
      BY <1>13
    <3> QED
      BY <2>6, <3>3, <3>4, <3>5, <1>6 DEF InPlace
  <2>9. CASE packetId # Login[Len(handled) + 1]
    <3>1. pc' = "stopped" /\ handled' = handled
      BY <2>9, <1>1 DEF HandleExpected
    <3>2. ActedOn(handled, m)'
      BY <3>1, <2>2, <1>6, ActedSame
    <3> QED
      BY <3>1, <3>2, <1>6 DEF InPlace
  <2> QED
    BY <2>8, <2>9
<1>17. InPlace' /\ ClosedByClient' /\ Running'
  <2>1. InPlace'
    BY <1>16 DEF InPlace
  <2>2. ClosedByClient' /\ Running'
    BY <1>13 DEF ClosedByClient, Running
  <2> QED
    BY <2>1, <2>2
<1> QED
  BY <1>6, <1>14, <1>15, <1>17 DEF WInv

-----------------------------------------------------------------------------
\* A step that changes nothing of the connection keeps the invariant.
LEMMA UnchangedInPlace ==
  ASSUME WInv, UNCHANGED wireVars
  PROVE  WInv'
<1>1. /\ mode' = mode /\ sent' = sent /\ flight' = flight /\ closed' = closed
      /\ arrived' = arrived /\ pc' = pc /\ packetId' = packetId /\ readLen' = readLen
      /\ readIndex' = readIndex /\ buffer' = buffer /\ handled' = handled
      /\ result' = result /\ short' = short
  BY DEF wireVars, client, server
<1>2. WireTypeOK /\ Bytes /\ Running /\ InPlace /\ ClosedByClient /\ Carries(sent, Stream, closed)
  BY DEF WInv
<1>3. Stream' = Stream
  BY <1>1 DEF Stream
<1>4. WireTypeOK' /\ Bytes' /\ Running' /\ ClosedByClient'
  BY <1>1, <1>2
     DEF WireTypeOK, ClientFrame, Bytes, Encrypted, Running, ClosedByClient, AtEnd
<1>5. InPlace'
  <2> SUFFICES ASSUME ~short PROVE InPlace'
    BY <1>1 DEF InPlace
  <2>1. PICK m \in 1..Len(sent) + 1 :
          /\ ActedOn(handled, m)
          /\ pc = "length" => Begins(sent, Stream, closed, m, LengthAt)
          /\ pc \in {"id", "body"} => InFrame(m)
    BY <1>2 DEF InPlace
  <2>2. ActedOn(handled, m)'
    BY <2>1, <1>1, ActedSame
  <2>3. InFrame(m)' <=> InFrame(m)
    BY <1>1, <1>3 DEF InFrame, Encrypted
  <2> QED
    BY <2>1, <2>2, <2>3, <1>1, <1>3 DEF InPlace
<1> QED
  BY <1>1, <1>2, <1>3, <1>4, <1>5 DEF WInv

\* The server is where a frame begins or in one, for every client whose frames are
\* complete before encryption, whatever the client sends and however it is cut.
THEOREM WireInvariant ==
  ASSUME WholeBeforePlay
  PROVE  WireSpec => []WInv
<1>1. WInv /\ [WireNext]_wireVars => WInv'
  <2> SUFFICES ASSUME WInv, [WireNext]_wireVars PROVE WInv'
    OBVIOUS
  <2>1. ASSUME NEW f \in ClientFrame, Send(f) PROVE WInv'
    BY <2>1, SendInPlace
  <2>2. CASE Arrive
    BY <2>2, ArriveInPlace
  <2>3. CASE Close
    BY <2>3, CloseInPlace
  <2>4. CASE Reply
    BY <2>4, ReplyInPlace
  <2>5. CASE ReadLength
    BY <2>5, ReadLengthInPlace
  <2>6. CASE ReadLengthEnd
    BY <2>6, ReadLengthEndInPlace
  <2>7. CASE ReadId
    BY <2>7, ReadIdInPlace
  <2>8. CASE ReadIdEnd
    BY <2>8, ReadIdEndInPlace
  <2>9. CASE ReadEncryptedBody
    BY <2>9, ReadEncryptedBodyInPlace
  <2>10. CASE ReadPlainBody
    BY <2>10, ReadPlainBodyInPlace
  <2>11. CASE UNCHANGED wireVars
    BY <2>11, UnchangedInPlace
  <2> QED
    BY <2>1, <2>2, <2>3, <2>4, <2>5, <2>6, <2>7, <2>8, <2>9, <2>10, <2>11 DEF WireNext, Read
<1> QED
  BY <1>1, InitInPlace, PTL DEF WireSpec

\* The server stays in step with the stream: until the end of what had arrived is
\* taken for bytes of a frame, the packets that are acted on are those that are due,
\* in order and as they were sent, and only a client that closed is said to have.
THEOREM StaysInStep ==
  ASSUME WholeBeforePlay
  PROVE  WireSpec => []InStep
<1>1. WInv => InStep
  <2> SUFFICES ASSUME WInv PROVE InStep
    OBVIOUS
  <2>1. WireTypeOK /\ Bytes /\ InPlace /\ ClosedByClient
    BY DEF WInv
  <2>2. sent \in Seq(SentFrame) /\ Len(sent) \in Nat
    BY <2>1, Typed
  <2>3. ASSUME ~short PROVE HandledAreDue
    <3>1. PICK m \in 1..Len(sent) + 1 : ActedOn(handled, m)
      BY <2>1, <2>3 DEF InPlace
    <3>2. m \in Nat
      BY <2>2
    <3> QED
      BY <3>1, <3>2, <2>2, NothingMissed
  <2> QED
    BY <2>1, <2>3 DEF InStep, InOrder
<1> QED
  BY <1>1, WireInvariant, PTL

-----------------------------------------------------------------------------
(* Variable-length integers, written. *)

LEMMA ShiftedIs ==
  ASSUME NEW v
  PROVE  Shifted(v) = [i \in 0..MostGroups |->
                         IF i = 0 THEN v ELSE Shifted(v)[i - 1] \div Radix]
<1> DEFINE shift(w) == w \div Radix
           v1 == shift(v)
           v2 == shift(v1)
           v3 == shift(v2)
           v4 == shift(v3)
           v5 == shift(v4)
           f == [i \in 0..MostGroups |->
                   IF i = 0 THEN v ELSE IF i = 1 THEN v1 ELSE IF i = 2 THEN v2
                   ELSE IF i = 3 THEN v3 ELSE IF i = 4 THEN v4 ELSE v5]
           step(g) == [i \in 0..MostGroups |-> IF i = 0 THEN v ELSE shift(g[i - 1])]
<1>1. f = step(f)
  <2> HIDE DEF shift
  <2>1. ASSUME NEW i \in 0..MostGroups
        PROVE  f[i] = IF i = 0 THEN v ELSE shift(f[i - 1])
    <3>1. i \in {0, 1, 2, 3, 4, 5} /\ MostGroups = 5
      BY DEF MostGroups
    <3>2. CASE i = 0
      BY <3>1, <3>2
    <3>3. CASE i = 1
      BY <3>1, <3>3
    <3>4. CASE i = 2
      BY <3>1, <3>4
    <3>5. CASE i = 3
      BY <3>1, <3>5
    <3>6. CASE i = 4
      BY <3>1, <3>6
    <3>7. CASE i = 5
      BY <3>1, <3>7
    <3> QED
      BY <3>1, <3>2, <3>3, <3>4, <3>5, <3>6, <3>7
  <2> QED
    BY <2>1
<1>2. Shifted(v) = CHOOSE g : g = step(g)
  BY DEF Shifted
<1> QED
  BY <1>1, <1>2

\* A number is its quotient, so many times, and the remainder.
LEMMA Division ==
  ASSUME NEW a \in Nat, NEW r \in Nat \ {0}
  PROVE  a \div r \in Nat /\ a % r \in Nat /\ a % r < r /\ a = r * (a \div r) + (a % r)
BY SMT

\* What is left of a number is a number.
LEMMA ShiftedOnce ==
  ASSUME NEW v \in Nat, NEW i \in 0..MostGroups, i < MostGroups, Shifted(v)[i] \in Nat
  PROVE  /\ Shifted(v)[i + 1] = Shifted(v)[i] \div Radix
         /\ Shifted(v)[i + 1] \in Nat
         /\ Shifted(v)[i] % Radix \in Nat
         /\ Shifted(v)[i] = Radix * Shifted(v)[i + 1] + (Shifted(v)[i] % Radix)
<1>1. Radix \in Nat \ {0} /\ MostGroups = 5
  BY VarintAssumption DEF MostGroups
<1>2. Shifted(v)[i + 1] = Shifted(v)[i] \div Radix
  <2> DEFINE s == Shifted(v)
             j == i + 1
  <2>1. j \in 0..MostGroups /\ j # 0 /\ j - 1 = i
    BY <1>1
  <2>2. s = [k \in 0..MostGroups |-> IF k = 0 THEN v ELSE s[k - 1] \div Radix]
    BY ShiftedIs
  <2>3. s[j] = s[i] \div Radix
    <3> HIDE DEF s, j
    <3> QED
      BY <2>1, <2>2
  <2> QED
    BY <2>3
<1> DEFINE w == Shifted(v)[i]
           r == Radix
<1>3. w \in Nat /\ r \in Nat \ {0}
  BY <1>1
<1>4. w \div r \in Nat /\ w % r \in Nat /\ w = r * (w \div r) + (w % r)
  <2> HIDE DEF w, r
  <2> QED
    BY <1>3, Division
<1> QED
  BY <1>2, <1>4

\* Before the first step nothing is shifted out.
LEMMA ShiftedZero ==
  ASSUME NEW v
  PROVE  Shifted(v)[0] = v
<1> DEFINE s == Shifted(v)
<1>1. s = [k \in 0..MostGroups |-> IF k = 0 THEN v ELSE s[k - 1] \div Radix]
  BY ShiftedIs
<1>2. 0 \in 0..MostGroups
  BY DEF MostGroups
<1>3. s[0] = v
  <2> HIDE DEF s
  <2> QED
    BY <1>1, <1>2
<1> QED
  BY <1>3

\* What is left is a number throughout.
LEMMA ShiftedNat ==
  ASSUME NEW v \in Nat, NEW i \in 0..MostGroups
  PROVE  Shifted(v)[i] \in Nat
<1>1. MostGroups = 5 /\ i \in {0, 1, 2, 3, 4, 5}
  BY DEF MostGroups
<1> DEFINE s == Shifted(v)
<1>2. s[0] = v
  BY ShiftedZero
<1>3. ASSUME NEW j \in 0..MostGroups, j < MostGroups, s[j] \in Nat PROVE s[j + 1] \in Nat
  BY <1>3, ShiftedOnce
<1> HIDE DEF s
<1>4. s[1] \in Nat
  BY <1>1, <1>2, <1>3
<1>5. s[2] \in Nat
  BY <1>1, <1>4, <1>3
<1>6. s[3] \in Nat
  BY <1>1, <1>5, <1>3
<1>7. s[4] \in Nat
  BY <1>1, <1>6, <1>3
<1>8. s[5] \in Nat
  BY <1>1, <1>7, <1>3
<1>9. s[i] \in Nat
  BY <1>1, <1>2, <1>4, <1>5, <1>6, <1>7, <1>8
<1> QED
  BY <1>9 DEF s

\* The length of what a varint can hold: the first group after which nothing is left.
LEMMA VarintLenIs ==
  ASSUME NEW v \in Varints
  PROVE  /\ VarintLen(v) \in 1..MostGroups
         /\ Shifted(v)[VarintLen(v)] = 0
         /\ \A i \in 1..VarintLen(v) - 1 : Shifted(v)[i] # 0
<1> DEFINE s == Shifted(v)
           P(k) == s[k] = 0 /\ \A i \in 1..k - 1 : s[i] # 0
<1>1. s[MostGroups] = 0 /\ MostGroups = 5
  BY DEF Varints, MostGroups
<1>2. VarintLen(v) = CHOOSE k \in 1..MostGroups : P(k)
  BY DEF VarintLen
<1> HIDE DEF s
<1>3. \E k \in 1..MostGroups : P(k)
  <2>1. CASE s[1] = 0
    BY <2>1, <1>1
  <2>2. CASE s[1] # 0 /\ s[2] = 0
    <3>1. P(2)
      BY <2>2
    <3> QED
      BY <3>1, <1>1
  <2>3. CASE s[1] # 0 /\ s[2] # 0 /\ s[3] = 0
    <3>1. P(3)
      BY <2>3
    <3> QED
      BY <3>1, <1>1
  <2>4. CASE s[1] # 0 /\ s[2] # 0 /\ s[3] # 0 /\ s[4] = 0
    <3>1. P(4)
      BY <2>4
    <3> QED
      BY <3>1, <1>1
  <2>5. CASE s[1] # 0 /\ s[2] # 0 /\ s[3] # 0 /\ s[4] # 0
    <3>1. P(5)
      BY <2>5, <1>1
    <3> QED
      BY <3>1, <1>1
  <2> QED
    BY <2>1, <2>2, <2>3, <2>4, <2>5
<1>4. VarintLen(v) \in 1..MostGroups /\ P(VarintLen(v))
  <2> HIDE DEF P
  <2> QED
    BY <1>2, <1>3
<1> QED
  BY <1>4 DEF s

-----------------------------------------------------------------------------
(* Reading. *)

\* Before the first byte.
Unread == [value |-> 0, unit |-> 1]

\* The loop of read_varint_gen: what is known after each byte.
ReadSoFar(s, n) ==
  CHOOSE f : f = [i \in 0..n |-> IF i = 0 THEN Unread ELSE GroupRead(f[i - 1], s[i])]

\* Each step of it reads one more byte.
LEMMA ReadSoFarIs ==
  ASSUME NEW s, NEW n \in 0..MostGroups
  PROVE  ReadSoFar(s, n) =
           [i \in 0..n |-> IF i = 0 THEN Unread ELSE GroupRead(ReadSoFar(s, n)[i - 1], s[i])]
<1> DEFINE next(r, i) == GroupRead(r, s[i])
           r0 == Unread
           r1 == next(r0, 1)
           r2 == next(r1, 2)
           r3 == next(r2, 3)
           r4 == next(r3, 4)
           r5 == next(r4, 5)
           f == [i \in 0..n |->
                   IF i = 0 THEN r0 ELSE IF i = 1 THEN r1 ELSE IF i = 2 THEN r2
                   ELSE IF i = 3 THEN r3 ELSE IF i = 4 THEN r4 ELSE r5]
           step(g) == [i \in 0..n |-> IF i = 0 THEN r0 ELSE next(g[i - 1], i)]
<1>1. f = step(f)
  <2> HIDE DEF next, r0
  <2>1. ASSUME NEW i \in 0..n
        PROVE  f[i] = IF i = 0 THEN r0 ELSE next(f[i - 1], i)
    <3>1. i \in {0, 1, 2, 3, 4, 5} /\ n \in Nat /\ i \in Nat /\ i <= n
      BY DEF MostGroups
    <3>2. CASE i = 0
      BY <3>1, <3>2
    <3>3. CASE i = 1
      BY <3>1, <3>3
    <3>4. CASE i = 2
      BY <3>1, <3>4
    <3>5. CASE i = 3
      BY <3>1, <3>5
    <3>6. CASE i = 4
      BY <3>1, <3>6
    <3>7. CASE i = 5
      BY <3>1, <3>7
    <3> QED
      BY <3>1, <3>2, <3>3, <3>4, <3>5, <3>6, <3>7
  <2> QED
    BY <2>1
<1>2. ReadSoFar(s, n) = CHOOSE g : g = step(g)
  BY DEF ReadSoFar
<1> QED
  BY <1>1, <1>2

\* ValueOf is what that loop ends with.
LEMMA ValueIs ==
  ASSUME NEW s, NEW n
  PROVE  ValueOf(s, n) = ReadSoFar(s, n)[n].value
BY DEF ValueOf, ReadSoFar, Unread

\* One more group of a value.
LEMMA OneGroupMore ==
  ASSUME NEW a \in Nat, NEW u \in Nat, NEW low \in Nat, NEW w \in Nat, NEW x \in Nat,
         NEW r \in Nat, NEW v \in Nat,
         v = a + u * w, w = r * x + low
  PROVE  v = (a + low * u) + (r * u) * x
<1>1. u * w = u * (r * x) + u * low
  BY SMT
<1>2. u * (r * x) = (r * u) * x
  BY SMT
<1>3. u * low = low * u
  BY SMT
<1>4. u * low \in Nat /\ (r * u) * x \in Nat
  BY SMT
<1> QED
  BY <1>1, <1>2, <1>3, <1>4, SMT

\* The first n bytes of s carry the lowest groups of v.
Begun(s, v, n) ==
  \A i \in 1..n : s[i].low = Shifted(v)[i - 1] % Radix

\* What was read of a value's first groups and what is left are the value.
Tally(r, w, v) ==
  r.value \in Nat /\ r.unit \in Nat /\ w \in Nat /\ v = r.value + r.unit * w

\* After each group, what was read and what is left make up the value; at the end
\* nothing is left.
LEMMA ValueReadBack ==
  ASSUME NEW v \in Nat, NEW n \in 0..MostGroups, NEW s, Begun(s, v, n),
         Shifted(v)[n] = 0
  PROVE  ValueOf(s, n) = v
<1> DEFINE f == ReadSoFar(s, n)
           w == Shifted(v)
<1>1. f = [i \in 0..n |-> IF i = 0 THEN Unread ELSE GroupRead(f[i - 1], s[i])]
  BY ReadSoFarIs
<1>2. n \in Nat /\ n <= 5 /\ MostGroups = 5
  BY DEF MostGroups
<1>3. Tally(f[0], w[0], v)
  <2>1. f[0] = Unread
    <3> HIDE DEF f
    <3> QED
      BY <1>1, <1>2
  <2>2. w[0] = v
    BY ShiftedZero
  <2> QED
    BY <2>1, <2>2 DEF Tally, Unread
<1>4. ASSUME NEW i \in 0..n, i < n, Tally(f[i], w[i], v)
      PROVE  Tally(f[i + 1], w[i + 1], v)
  <2> DEFINE j == i + 1
             low == s[j].low
             x == w[j]
             y == w[i]
             a == f[i].value
             u == f[i].unit
             r == Radix
  <2>1. j \in 1..n /\ j \in 0..n /\ j # 0 /\ j - 1 = i /\ i \in 0..MostGroups /\ i < MostGroups
    BY <1>2, <1>4
  <2>2. f[j] = GroupRead(f[i], s[j])
    <3> HIDE DEF f, j
    <3> QED
      BY <1>1, <2>1
  <2>3. x \in Nat /\ y % r \in Nat /\ y = r * x + (y % r)
    BY <1>4, <2>1, ShiftedOnce DEF Tally
  <2>4. low = y % r
    <3>1. s[j].low = Shifted(v)[j - 1] % Radix
      BY <2>1 DEF Begun
    <3> QED
      BY <2>1, <3>1
  <2>5. a \in Nat /\ u \in Nat /\ y \in Nat /\ v = a + u * y
    BY <1>4 DEF Tally
  <2>6. r \in Nat
    BY VarintAssumption
  <2>7. f[j].value = a + low * u /\ f[j].unit = r * u
    BY <2>2 DEF GroupRead
  <2>8. v = (a + low * u) + (r * u) * x
    <3>1. y = r * x + low /\ low \in Nat
      BY <2>3, <2>4
    <3> HIDE DEF j, low, x, y, a, u, r
    <3> QED
      BY <2>3, <2>5, <2>6, <3>1, OneGroupMore
  <2>9. a + low * u \in Nat /\ r * u \in Nat
    <3> HIDE DEF j, low, x, y, a, u, r
    <3> QED
      BY <2>3, <2>4, <2>5, <2>6, SMT
  <2> QED
    BY <2>3, <2>7, <2>8, <2>9 DEF Tally
<1>5. Tally(f[n], w[n], v)
  <2> HIDE DEF f, w
  <2>1. n >= 1 => Tally(f[1], w[1], v)
    BY <1>2, <1>3, <1>4
  <2>2. n >= 2 => Tally(f[2], w[2], v)
    BY <1>2, <2>1, <1>4
  <2>3. n >= 3 => Tally(f[3], w[3], v)
    BY <1>2, <2>2, <1>4
  <2>4. n >= 4 => Tally(f[4], w[4], v)
    BY <1>2, <2>3, <1>4
  <2>5. n >= 5 => Tally(f[5], w[5], v)
    BY <1>2, <2>4, <1>4
  <2>6. n \in {0, 1, 2, 3, 4, 5}
    BY <1>2
  <2> QED
    BY <1>3, <2>1, <2>2, <2>3, <2>4, <2>5, <2>6
<1> DEFINE a == f[n].value
           u == f[n].unit
<1>6. a \in Nat /\ u \in Nat /\ v = a + u * 0
  BY <1>5 DEF Tally
<1>7. v = a
  <2> HIDE DEF a, u
  <2> QED
    BY <1>6, SMT
<1> QED
  BY <1>7, ValueIs

\* Zero takes one group.
LEMMA ZeroLen ==
  ASSUME NEW v \in Varints, v = 0
  PROVE  VarintLen(v) = 1
<1> DEFINE k == VarintLen(v)
           s == Shifted(v)
           one == 1
<1>1. k \in Nat /\ k >= 1 /\ \A i \in 1..k - 1 : s[i] # 0
  BY VarintLenIs DEF MostGroups
<1>2. s[one] = 0
  <2> DEFINE r == Radix
             z == 0
  <2>1. s[z] = 0 /\ z \in Nat /\ z \in 0..MostGroups /\ z < MostGroups
    BY ShiftedZero DEF MostGroups, Varints
  <2>2. s[z] \in Nat
    BY <2>1
  <2>3. s[z + 1] = s[z] \div r
    <3>1. v \in Nat
      BY DEF Varints
    <3> HIDE DEF z
    <3> QED
      BY <2>1, <2>2, <3>1, ShiftedOnce
  <2>4. z \div r = 0
    BY VarintAssumption, SMT
  <2> QED
    BY <2>1, <2>3, <2>4
<1> HIDE DEF k, s
<1>3. k = 1
  BY <1>1, <1>2
<1> QED
  BY <1>3 DEF k

\* s begins with the varint of v.
StartsWithVarint(s, v) ==
  /\ Len(s) \in Nat /\ VarintLen(v) <= Len(s)
  /\ \A i \in 1..VarintLen(v) : s[i] = WriteVarint(v)[i]

\* Each byte but the last says that another follows.
LEMMA WrittenByte ==
  ASSUME NEW v \in Varints, NEW i \in 1..VarintLen(v)
  PROVE  /\ WriteVarint(v)[i].more <=> i < VarintLen(v)
         /\ WriteVarint(v)[i].low = Shifted(v)[i - 1] % Radix
<1>1. VarintLen(v) \in Nat /\ Shifted(v)[VarintLen(v)] = 0
      /\ \A j \in 1..VarintLen(v) - 1 : Shifted(v)[j] # 0
  BY VarintLenIs DEF MostGroups
<1>2. WriteVarint(v)[i] = [more |-> Shifted(v)[i] # 0, low |-> Shifted(v)[i - 1] % Radix]
  BY DEF WriteVarint
<1>3. (Shifted(v)[i] # 0) <=> i < VarintLen(v)
  <2>1. CASE i < VarintLen(v)
    BY <1>1, <2>1
  <2>2. CASE i = VarintLen(v)
    BY <1>1, <2>2
  <2> QED
    BY <1>1, <2>1, <2>2
<1> QED
  <2>1. WriteVarint(v)[i].low = Shifted(v)[i - 1] % Radix
    BY <1>2
  <2>2. WriteVarint(v)[i].more = (Shifted(v)[i] # 0)
    BY <1>2
  <2> QED
    BY <1>3, <2>1, <2>2

\* What packet_write_varint writes, read_varint_gen reads back, whatever follows it:
\* the same value, the same number of bytes, and no error.
THEOREM VarintReadsBack ==
  ASSUME NEW v \in Varints, NEW s, StartsWithVarint(s, v)
  PROVE  /\ ReadVarint(s).taken = VarintLen(v)
         /\ ReadVarint(s).value = v
         /\ ReadVarint(s).result = VarintLen(v)
<1> DEFINE k == VarintLen(v)
           ends == {i \in 1..MostGroups : i <= Len(s) /\ ~s[i].more}
           n == IF ends # {} THEN Min(ends) ELSE Min({Len(s), MostGroups + 1})
<1>1. k \in 1..MostGroups /\ k \in Nat /\ k <= Len(s) /\ Len(s) \in Nat /\ MostGroups = 5
  BY VarintLenIs DEF StartsWithVarint, MostGroups
<1>2. ASSUME NEW i \in 1..k
      PROVE  (s[i].more <=> i < k) /\ s[i].low = Shifted(v)[i - 1] % Radix
  BY WrittenByte DEF StartsWithVarint
<1>3. k \in ends /\ \A i \in ends : k <= i
  <2>1. k \in 1..k
    BY <1>1
  <2>2. ~s[k].more
    BY <1>1, <1>2, <2>1
  <2>3. ASSUME NEW i \in ends PROVE k <= i
    <3> SUFFICES ASSUME ~(k <= i) PROVE FALSE
      OBVIOUS
    <3>1. i \in 1..k /\ i < k
      BY <1>1
    <3> QED
      BY <1>2, <3>1
  <2> QED
    BY <1>1, <2>2, <2>3
<1>4. Min(ends) = k
  <2>1. Min(ends) = CHOOSE x \in ends : \A y \in ends : x <= y
    BY DEF Min
  <2>2. \A x \in ends : x \in Int
    BY <1>1
  <2>3. k \in ends /\ k \in Int /\ \A i \in ends : k <= i
    BY <1>1, <1>3
  <2> HIDE DEF ends, k
  <2>4. ASSUME NEW x \in ends, \A y \in ends : x <= y PROVE x = k
    <3>1. x \in Int /\ x <= k /\ k <= x
      BY <2>2, <2>3, <2>4
    <3> QED
      BY <2>3, <3>1
  <2> QED
    BY <2>1, <2>3, <2>4
<1>5. n = k /\ ends # {}
  <2> HIDE DEF ends, k
  <2> QED
    BY <1>3, <1>4
<1>6. ReadVarint(s) = [taken |-> n, value |-> ValueOf(s, n),
        result |-> IF ends # {} THEN n ELSE IF n > MostGroups THEN TooLong ELSE 0]
  BY DEF ReadVarint
<1>7. ValueOf(s, k) = v
  <2>1. Begun(s, v, k)
    BY <1>2 DEF Begun
  <2>2. k \in 0..MostGroups /\ v \in Nat
    BY <1>1 DEF Varints
  <2>3. Shifted(v)[k] = 0
    BY VarintLenIs
  <2> HIDE DEF k
  <2> QED
    BY <2>1, <2>2, <2>3, ValueReadBack
<1> QED
  <2> HIDE DEF n, k, ends
  <2>1. ReadVarint(s) = [taken |-> k, value |-> v, result |-> k]
    BY <1>5, <1>6, <1>7
  <2>2. ReadVarint(s).taken = k /\ ReadVarint(s).value = v /\ ReadVarint(s).result = k
    BY <2>1
  <2> QED
    BY <2>2 DEF k

-----------------------------------------------------------------------------
(* Writing packets. *)

\* The first n bytes of d.
FrameOf(d, n) == [i \in 1..n |-> d[i - 1]]

\* The bytes of a frame from one on.
LEMMA FramePart ==
  ASSUME NEW d, NEW n \in Nat, NEW a \in 0..n
  PROVE  /\ Len(FrameOf(d, n)) = n
         /\ SubSeq(FrameOf(d, n), a + 1, n) = [i \in 1..n - a |-> d[a + i - 1]]
<1> DEFINE S == {d[i - 1] : i \in 1..n}
           f == FrameOf(d, n)
<1>1. f \in Seq(S)
  <2>1. \A i \in 1..n : d[i - 1] \in S
    OBVIOUS
  <2> HIDE DEF S
  <2> QED
    BY <2>1 DEF FrameOf
<1>2. Len(f) = n
  BY <1>1 DEF FrameOf
<1>3. SubSeq(f, a + 1, n) = [i \in 1..n - a |-> f[a + i]]
  BY <1>1, <1>2
<1>4. ASSUME NEW i \in 1..n - a PROVE f[a + i] = d[a + i - 1]
  BY DEF FrameOf
<1> QED
  BY <1>2, <1>3, <1>4

\* The bytes of d are the varint of b and b bytes of the body.
FramedIn(d, b) ==
  /\ \A i \in 1..VarintLen(b) : d[i - 1] = WriteVarint(b)[i]
  /\ \A i \in 1..b : d[VarintLen(b) + i - 1] = BodyByte(i - 1)

\* A frame with its length in front is read back.
LEMMA FrameBack ==
  ASSUME NEW d, NEW b \in Varints, NEW n, n = b + VarintLen(b), FramedIn(d, b)
  PROVE  LET f == FrameOf(d, n)
             head == ReadVarint(f)
         IN /\ head.result > 0 /\ head.value = b
            /\ SubSeq(f, head.taken + 1, n) = [i \in 1..b |-> BodyByte(i - 1)]
<1> DEFINE f == FrameOf(d, n)
           k == VarintLen(b)
<1>1. b \in Nat /\ k \in 1..5 /\ n \in Nat /\ k \in 0..n /\ n - k = b
  BY VarintLenIs DEF Varints, MostGroups
<1>2. StartsWithVarint(f, b)
  <2>1. Len(f) = n
    BY <1>1, FramePart
  <2>2. ASSUME NEW i \in 1..k PROVE f[i] = WriteVarint(b)[i]
    BY <1>1 DEF FrameOf, FramedIn
  <2> QED
    BY <1>1, <2>1, <2>2 DEF StartsWithVarint
<1>3. ReadVarint(f).taken = k /\ ReadVarint(f).value = b /\ ReadVarint(f).result = k
  BY <1>2, VarintReadsBack
<1>4. SubSeq(f, k + 1, n) = [i \in 1..b |-> d[k + i - 1]]
  <2> HIDE DEF k
  <2>1. SubSeq(f, k + 1, n) = [i \in 1..n - k |-> d[k + i - 1]]
    BY <1>1, FramePart
  <2> QED
    BY <1>1, <2>1
<1>5. SubSeq(f, k + 1, n) = [i \in 1..b |-> BodyByte(i - 1)]
  BY <1>4 DEF FramedIn
<1> QED
  <2> HIDE DEF k, f
  <2>1. ReadVarint(f).result > 0
    BY <1>1, <1>3
  <2> QED
    BY <1>3, <1>5, <2>1 DEF f

\* A buffer is so many blocks long.
InBlocks(n) == \E q \in Nat : n = BlockSize * q

\* So many blocks more hold what is asked for.
LEMMA MoreBlocks ==
  ASSUME NEW b \in Nat \ {0}, NEW n \in Nat, NEW m \in Nat, m > n,
         NEW q, q = (m - n + b - 1) \div b
  PROVE  q \in Nat /\ n + b * q \in Nat /\ m <= n + b * q
<1> DEFINE a == m - n + b - 1
<1>1. a \in Nat /\ a = m - n + b - 1
  OBVIOUS
<1> HIDE DEF a
<1>2. q \in Nat /\ a % b \in Nat /\ a % b < b /\ a = b * q + (a % b)
  BY <1>1, Division
<1>3. b * q \in Nat
  BY <1>2, SMT
<1> QED
  BY <1>1, <1>2, <1>3

\* Blocks and blocks are blocks.
LEMMA BlocksAdd ==
  ASSUME NEW b \in Nat, NEW p \in Nat, NEW q \in Nat
  PROVE  b * p + b * q = b * (p + q)
BY SMT

\* packet_try_resize: the buffer grows by blocks, no further than it must, and
\* holds what is asked for.
LEMMA GrownIs ==
  ASSUME NEW n \in Nat, InBlocks(n), NEW m \in Nat
  PROVE  /\ Grown(n, m) \in Nat /\ InBlocks(Grown(n, m))
         /\ n <= Grown(n, m) /\ m <= Grown(n, m)
         /\ m <= n => Grown(n, m) = n
<1>1. CASE m <= n
  BY <1>1 DEF Grown
<1>2. CASE m > n
  <2> DEFINE b == BlockSize
             q == (m - n + BlockSize - 1) \div BlockSize
  <2>1. b \in Nat \ {0}
    BY PacketAssumption
  <2>2. Grown(n, m) = n + b * q
    BY <1>2 DEF Grown
  <2>3. q \in Nat /\ n + b * q \in Nat /\ m <= n + b * q
    <3>1. q = (m - n + b - 1) \div b
      OBVIOUS
    <3> HIDE DEF b, q
    <3> QED
      BY <1>2, <2>1, <3>1, MoreBlocks
  <2>4. PICK p \in Nat : n = b * p
    BY DEF InBlocks
  <2>5. n + b * q = b * (p + q) /\ p + q \in Nat
    <3> HIDE DEF b, q
    <3> QED
      BY <2>1, <2>3, <2>4, BlocksAdd
  <2>6. InBlocks(n + b * q)
    BY <2>5 DEF InBlocks
  <2> QED
    BY <1>2, <2>2, <2>3, <2>6
<1> QED
  BY <1>1, <1>2

\* A number that lies less than k after so many blocks has a remainder less than k.
LEMMA PastBlocks ==
  ASSUME NEW b \in Nat \ {0}, NEW q \in Nat, NEW x \in Nat, NEW k \in Nat,
         b * q <= x, x < b * q + k
  PROVE  x % b < k
<1> DEFINE p == x \div b
           r == x % b
<1>1. p \in Nat /\ r \in Nat /\ r < b /\ x = b * p + r
  BY Division
<1> HIDE DEF p, r
<1>2. b * q \in Nat /\ b * p \in Nat
  BY <1>1, SMT
<1>3. p >= q
  <2> SUFFICES ASSUME p < q PROVE FALSE
    BY <1>1
  <2>1. b * (p + 1) = b * p + b /\ b * (p + 1) <= b * q
    BY <1>1, SMT
  <2> QED
    BY <1>1, <1>2, <2>1
<1>4. b * q <= b * p
  BY <1>1, <1>3, SMT
<1>5. r < k
  BY <1>1, <1>2, <1>4
<1> QED
  BY <1>5 DEF r

-----------------------------------------------------------------------------
(* The packet. *)

\* The buffer: data_len is its size unless a packet was refused.
Buffer ==
  /\ dataLen \in Nat /\ dataLen > 0 /\ InBlocks(dataLen) /\ allotted \in Nat
  /\ DOMAIN data = 0..dataLen - 1
  /\ dataLen # allotted => dataLen > MaxLen

\* A packet that is being written is its body so far.
Unfinished ==
  ~finished =>
    /\ packetLen \in 0..MaxLen /\ packetLen <= dataLen
    /\ index = packetLen /\ body = packetLen
    /\ \A i \in 0..packetLen - 1 : data[i] = BodyByte(i)

\* What a header announces fits the buffer.
HeaderFits == last.call = "header" /\ last.result >= 0 => last.asked <= allotted

\* The invariant: buffer and body agree, and a finished packet is read back.
PacketInv ==
  /\ Buffer /\ Unfinished /\ FrameReadsBack /\ HeaderFits
  /\ BytesReported /\ OverrunOnlyAtBlockEnd

\* The invariant holds after packet_init.
LEMMA PacketStart == PacketInit => PacketInv
<1> SUFFICES ASSUME PacketInit PROVE PacketInv
  OBVIOUS
<1>1. BlockSize \in Nat \ {0} /\ MaxLen \in Nat
  BY PacketAssumption
<1>2. InBlocks(BlockSize)
  <2>1. BlockSize = BlockSize * 1
    BY <1>1, SMT
  <2> QED
    BY <2>1 DEF InBlocks
<1>3. Buffer
  BY <1>1, <1>2 DEF PacketInit, Buffer
<1> QED
  BY <1>1, <1>3 DEF PacketInit, PacketInv, Unfinished, HeaderFits, FrameReadsBack,
                    BytesReported, OverrunOnlyAtBlockEnd, Idle

\* Bytes that the limit has room for go on where the body ended, and the buffer
\* is grown before them.
LEMMA Appended ==
  ASSUME PacketInv, Writing, NEW k \in 0..Room, AppendBytes(k)
  PROVE  Buffer' /\ Unfinished' /\ FrameReadsBack' /\ OverrunOnlyAtBlockEnd'
<1> DEFINE n == Grown(dataLen, packetLen + k)
<1>1. /\ MaxLen \in Nat /\ packetLen \in Nat /\ k \in Nat /\ packetLen + k <= MaxLen
      /\ packetLen <= dataLen /\ index = packetLen /\ body = packetLen
      /\ \A i \in 0..packetLen - 1 : data[i] = BodyByte(i)
  BY PacketAssumption DEF PacketInv, Unfinished, Writing, Room
<1>2. dataLen \in Nat /\ dataLen > 0 /\ InBlocks(dataLen) /\ allotted \in Nat
      /\ DOMAIN data = 0..dataLen - 1 /\ (dataLen # allotted => dataLen > MaxLen)
  BY DEF PacketInv, Buffer
<1>3. n \in Nat /\ InBlocks(n) /\ dataLen <= n /\ packetLen + k <= n
      /\ (packetLen + k <= dataLen => n = dataLen)
  BY <1>1, <1>2, GrownIs
<1>4. /\ dataLen' = n /\ packetLen' = packetLen + k /\ index' = index + k
      /\ body' = body + k /\ finished' = finished /\ ~finished
      /\ allotted' = (IF n = dataLen THEN allotted ELSE n)
      /\ overrun' = (packetLen + k > allotted')
  BY DEF AppendBytes, Writing
<1>5. data' = [i \in 0..n - 1 |->
                 IF i \in index..index + k - 1 THEN BodyByte(body + i - index)
                 ELSE IF i < dataLen THEN data[i] ELSE Garbage]
  BY DEF AppendBytes
<1> HIDE DEF n
<1>6. Buffer'
  <2>1. InBlocks(dataLen')
    BY <1>3, <1>4
  <2>2. (dataLen # allotted => dataLen > MaxLen)'
    BY <1>1, <1>2, <1>3, <1>4
  <2>3. (dataLen \in Nat /\ dataLen > 0 /\ allotted \in Nat)' /\ DOMAIN data' = 0..dataLen' - 1
    BY <1>2, <1>3, <1>4, <1>5
  <2> QED
    BY <2>1, <2>2, <2>3 DEF Buffer, InBlocks
<1>7. Unfinished'
  <2>1. ASSUME NEW i \in 0..packetLen + k - 1 PROVE data'[i] = BodyByte(i)
    <3>1. i \in 0..n - 1
      BY <1>1, <1>3
    <3>2. CASE i < packetLen
      <4>1. i \in Int /\ i \in 0..packetLen - 1 /\ i < dataLen /\ i < index
        BY <1>1, <1>2, <3>2
      <4> QED
        BY <1>1, <1>5, <3>1, <4>1
    <3>3. CASE i >= packetLen
      <4>1. i \in index..index + k - 1 /\ body + i - index = i
        BY <1>1, <3>3
      <4> QED
        BY <1>5, <3>1, <4>1
    <3> QED
      BY <1>1, <3>2, <3>3
  <2> QED
    BY <1>1, <1>3, <1>4, <2>1 DEF Unfinished
<1>8. OverrunOnlyAtBlockEnd'
  <2>1. ~(overrun' /\ dataLen' = allotted')
    <3>1. overrun' => packetLen + k > allotted'
      BY <1>4
    <3>2. dataLen' = allotted' => allotted' = n
      BY <1>4
    <3>3. ~(packetLen + k > n)
      BY <1>1, <1>3
    <3> QED
      BY <3>1, <3>2, <3>3
  <2> QED
    BY <2>1 DEF OverrunOnlyAtBlockEnd
<1>9. FrameReadsBack'
  BY <1>4 DEF FrameReadsBack
<1> QED
  BY <1>6, <1>7, <1>8, <1>9

\* The smaller of two numbers, and what is left of a number after another.
LEMMA Smaller ==
  ASSUME NEW a \in Nat, NEW b \in Nat
  PROVE  Min({a, b}) = IF a <= b THEN a ELSE b
BY DEF Min

LEMMA Larger ==
  ASSUME NEW a \in Int, NEW b \in Int
  PROVE  Max({a, b}) = IF a >= b THEN a ELSE b
BY DEF Max

\* What is no call of the primitive writes leaves what they and headers promise.
LEMMA OtherCall ==
  ASSUME last'.call \notin {"bytes", "header"}
  PROVE  BytesReported' /\ HeaderFits'
BY DEF BytesReported, HeaderFits

\* There is never less room than none.
LEMMA RoomIs ==
  ASSUME PacketInv, Writing
  PROVE  Room \in Nat
BY PacketAssumption DEF PacketInv, Unfinished, Writing, Room

\* make_packet.
LEMMA MadeStays == ASSUME PacketInv, MakePacket PROVE PacketInv'
<1>1. dataLen \in Nat /\ dataLen > 0 /\ DOMAIN data = 0..dataLen - 1
      /\ MaxLen \in Nat \ {0} /\ ~overrun
  BY PacketAssumption DEF PacketInv, Buffer, MakePacket
<1>2. data' = [i \in 0..dataLen - 1 |-> IF i = 0 THEN BodyByte(0) ELSE Garbage]
  BY <1>1 DEF MakePacket
<1>3. Buffer'
  <2>1. Buffer /\ UNCHANGED <<dataLen, allotted>> /\ DOMAIN data' = 0..dataLen - 1
    BY <1>2 DEF PacketInv, MakePacket
  <2> QED
    BY <2>1 DEF Buffer, InBlocks
<1>4. Unfinished'
  <2>1. data'[0] = BodyByte(0)
    BY <1>1, <1>2
  <2> QED
    BY <1>1, <2>1 DEF Unfinished, MakePacket
<1>5. FrameReadsBack' /\ OverrunOnlyAtBlockEnd'
  BY <1>1 DEF FrameReadsBack, OverrunOnlyAtBlockEnd, MakePacket
<1>6. BytesReported' /\ HeaderFits'
  <2>1. last'.call = "none"
    BY DEF MakePacket, Idle
  <2> QED
    BY <2>1, OtherCall
<1> QED
  BY <1>3, <1>4, <1>5, <1>6 DEF PacketInv

\* packet_read_header: data_len is not the size of the buffer only beyond the limit.
LEMMA HeaderStays ==
  ASSUME PacketInv, NEW k \in ReadLens, ReadHeader(k)
  PROVE  PacketInv'
<1> DEFINE n == Grown(dataLen, k)
<1>1. dataLen \in Nat /\ dataLen > 0 /\ InBlocks(dataLen) /\ allotted \in Nat
      /\ (dataLen # allotted => dataLen > MaxLen) /\ MaxLen \in Nat \ {0} /\ k \in Nat
  BY PacketAssumption DEF PacketInv, Buffer
<1>2. n \in Nat /\ InBlocks(n) /\ dataLen <= n /\ k <= n
  BY <1>1, GrownIs
<1>3. dataLen' = n /\ packetLen' = 0 /\ index' = 0 /\ body' = 0 /\ ~finished'
      /\ data' = [i \in 0..dataLen' - 1 |-> Garbage]
      /\ allotted' = (IF dataLen' > MaxLen \/ dataLen' = dataLen THEN allotted ELSE dataLen')
      /\ ~overrun /\ overrun' = overrun
  BY DEF ReadHeader
<1>4. last' = [call |-> "header", asked |-> k, wrote |-> 0,
               result |-> IF dataLen' > MaxLen THEN TooBig ELSE k]
  BY DEF ReadHeader
<1> HIDE DEF n
<1>5. Buffer'
  <2>1. InBlocks(dataLen') /\ dataLen' \in Nat /\ dataLen' > 0 /\ DOMAIN data' = 0..dataLen' - 1
    BY <1>1, <1>2, <1>3
  <2>2. allotted' \in Nat /\ (dataLen' # allotted' => dataLen' > MaxLen)
    BY <1>1, <1>2, <1>3
  <2> QED
    BY <2>1, <2>2 DEF Buffer, InBlocks
<1>6. Unfinished'
  BY <1>1, <1>2, <1>3 DEF Unfinished
<1>7. FrameReadsBack' /\ OverrunOnlyAtBlockEnd'
  BY <1>3 DEF FrameReadsBack, OverrunOnlyAtBlockEnd
<1>8. HeaderFits'
  <2>1. ASSUME last'.result >= 0 PROVE last'.asked <= allotted'
    <3>1. ~(dataLen' > MaxLen)
      <4> SUFFICES ASSUME dataLen' > MaxLen PROVE FALSE
        OBVIOUS
      <4>1. last'.result = -3
        BY <1>4 DEF TooBig
      <4> QED
        BY <2>1, <4>1
    <3>2. allotted' = n
      BY <1>1, <1>2, <1>3, <3>1
    <3> QED
      BY <1>2, <1>4, <3>2
  <2> QED
    BY <2>1 DEF HeaderFits
<1>9. BytesReported'
  BY <1>4 DEF BytesReported
<1> QED
  BY <1>5, <1>6, <1>7, <1>8, <1>9 DEF PacketInv

\* packet_write_bytes writes all or nothing.
LEMMA BytesStay ==
  ASSUME PacketInv, NEW k \in WriteLens, WriteBytes(k)
  PROVE  PacketInv'
<1>1. Writing /\ k \in Nat /\ Room \in Nat
  BY PacketAssumption, RoomIs DEF WriteBytes, Varints
<1>2. CASE k <= Room
  <2>1. AppendBytes(k) /\ k \in 0..Room
        /\ last' = [call |-> "bytes", asked |-> k, wrote |-> k, result |-> k]
    BY <1>1, <1>2 DEF WriteBytes
  <2>2. Buffer' /\ Unfinished' /\ FrameReadsBack' /\ OverrunOnlyAtBlockEnd'
    BY <1>1, <2>1, Appended
  <2>3. BytesReported' /\ HeaderFits'
    BY <2>1 DEF BytesReported, HeaderFits
  <2> QED
    BY <2>2, <2>3 DEF PacketInv
<1>3. CASE ~(k <= Room)
  <2>1. last' = [call |-> "bytes", asked |-> k, wrote |-> 0, result |-> TooBig]
        /\ UNCHANGED <<dataLen, allotted, packetLen, index, data, finished, overrun, body>>
    BY <1>3 DEF WriteBytes
  <2>2. Buffer' /\ Unfinished' /\ FrameReadsBack' /\ OverrunOnlyAtBlockEnd'
    <3>1. Buffer' /\ Unfinished'
      BY <2>1 DEF PacketInv, Buffer, Unfinished, InBlocks
    <3>2. OverrunOnlyAtBlockEnd'
      BY <2>1 DEF PacketInv, OverrunOnlyAtBlockEnd
    <3>3. FrameReadsBack'
      BY <1>1, <2>1 DEF FrameReadsBack, Writing
    <3> QED
      BY <3>1, <3>2, <3>3
  <2>3. BytesReported' /\ HeaderFits'
    BY <2>1 DEF BytesReported, HeaderFits, TooBig
  <2> QED
    BY <2>2, <2>3 DEF PacketInv
<1> QED
  BY <1>2, <1>3

\* packet_write_varint writes what there is room for.
LEMMA VarintStays ==
  ASSUME PacketInv, NEW k \in 1..MostGroups, WriteVarintOf(k)
  PROVE  PacketInv'
<1> DEFINE fits == Min({k, Room})
<1>1. Writing /\ k \in Nat /\ Room \in Nat /\ AppendBytes(fits)
      /\ last' = [call |-> "varint", asked |-> k, wrote |-> fits, result |-> k]
  BY RoomIs DEF WriteVarintOf, MostGroups
<1>2. fits \in 0..Room
  BY <1>1, Smaller
<1> HIDE DEF fits
<1>3. Buffer' /\ Unfinished' /\ FrameReadsBack' /\ OverrunOnlyAtBlockEnd'
  BY <1>1, <1>2, Appended
<1>4. BytesReported' /\ HeaderFits'
  BY <1>1 DEF BytesReported, HeaderFits
<1> QED
  BY <1>3, <1>4 DEF PacketInv

\* packet_write_string writes what there is room for.
LEMMA StringStays ==
  ASSUME PacketInv, NEW k \in WriteLens, WriteString(k)
  PROVE  PacketInv'
<1> DEFINE head == VarintLen(k)
           room == Max({Room - head, 0})
           fits == Min({k, room})
           first == Min({Room, head})
           all == first + fits
<1>1. Writing /\ Room \in Nat /\ AppendBytes(all) /\ last'.call = "string"
  BY RoomIs DEF WriteString
<1>2. k \in Nat /\ head \in Nat
  BY PacketAssumption, VarintLenIs DEF Varints, MostGroups
<1>3. all \in 0..Room
  <2> HIDE DEF head
  <2>1. room = IF Room - head >= 0 THEN Room - head ELSE 0
    BY <1>1, <1>2, Larger
  <2>2. room \in Nat
    BY <1>1, <1>2, <2>1
  <2> HIDE DEF room
  <2>3. fits = IF k <= room THEN k ELSE room
    BY <1>2, <2>2, Smaller
  <2>4. first = IF Room <= head THEN Room ELSE head
    BY <1>1, <1>2, Smaller
  <2> HIDE DEF fits, first
  <2> QED
    BY <1>1, <1>2, <2>1, <2>2, <2>3, <2>4
<1> HIDE DEF all
<1>4. Buffer' /\ Unfinished' /\ FrameReadsBack' /\ OverrunOnlyAtBlockEnd'
  BY <1>1, <1>3, Appended
<1>5. BytesReported' /\ HeaderFits'
  BY <1>1, OtherCall
<1> QED
  BY <1>4, <1>5 DEF PacketInv

\* finalize_packet: what it writes is read back, unless the moved body leaves the
\* buffer, and then the body ended in the last bytes of a block.
LEMMA FinalizeStays == ASSUME PacketInv, Finalize PROVE PacketInv'
<1> DEFINE k == PrefixLen(packetLen)
           prefix == WriteVarint(packetLen)
           m == VarintLen(packetLen)
           n == Grown(dataLen, packetLen + Len(prefix))
<1>1. /\ MaxLen \in Nat \ {0} /\ packetLen \in Nat /\ packetLen \in Varints
      /\ packetLen <= MaxLen /\ packetLen <= dataLen /\ body = packetLen
      /\ \A i \in 0..packetLen - 1 : data[i] = BodyByte(i)
  BY PacketAssumption DEF PacketInv, Unfinished, Finalize, Writing
<1>2. dataLen \in Nat /\ dataLen > 0 /\ InBlocks(dataLen) /\ allotted \in Nat
      /\ DOMAIN data = 0..dataLen - 1 /\ (dataLen # allotted => dataLen > MaxLen)
  BY DEF PacketInv, Buffer
<1>3. m \in Nat /\ m >= 1 /\ Len(prefix) = m /\ k = (IF packetLen = 0 THEN 0 ELSE m)
  <2>1. m \in 1..5
    BY <1>1, VarintLenIs DEF MostGroups
  <2>2. Len(prefix) = m
    <3> DEFINE S == {prefix[i] : i \in 1..m}
    <3>1. prefix = [i \in 1..m |-> prefix[i]] /\ DOMAIN prefix = 1..m
      BY DEF WriteVarint
    <3>2. \A i \in 1..m : prefix[i] \in S
      OBVIOUS
    <3> HIDE DEF S, prefix, m
    <3>3. prefix \in Seq(S)
      BY <2>1, <3>1, <3>2
    <3> QED
      BY <2>1, <3>1, <3>3
  <2> QED
    BY <2>1, <2>2 DEF PrefixLen
<1>4. packetLen + k <= MaxLen
  BY DEF Finalize
<1>5. /\ overrun' = (packetLen + k > allotted) /\ dataLen' = n
      /\ allotted' = (IF n = dataLen THEN allotted ELSE n)
      /\ packetLen' = packetLen + m /\ body' = body /\ finished' /\ last' = Idle
  BY <1>3 DEF Finalize
<1>6. data' = [i \in 0..n - 1 |->
                 IF i < m THEN prefix[i + 1]
                 ELSE IF i \in k..k + packetLen - 1 /\ i < dataLen THEN data[i - k]
                 ELSE IF i < dataLen THEN data[i] ELSE Garbage]
  BY <1>3 DEF Finalize
<1>7. n \in Nat /\ InBlocks(n) /\ dataLen <= n /\ packetLen + m <= n
      /\ (packetLen + m <= dataLen => n = dataLen)
  <2>1. n = Grown(dataLen, packetLen + m) /\ packetLen + m \in Nat
    BY <1>1, <1>3
  <2> HIDE DEF n, m
  <2> QED
    BY <1>2, <2>1, GrownIs
<1>8. packetLen + m <= MaxLen \/ packetLen = 0
  BY <1>3, <1>4
<1>9. dataLen # allotted => n = dataLen
  <2> HIDE DEF n, m, k
  <2>1. SUFFICES ASSUME dataLen # allotted PROVE packetLen + m <= dataLen
    BY <1>7
  <2>2. dataLen > MaxLen
    BY <1>2, <2>1
  <2>3. CASE packetLen = 0
    <3>1. m <= 5
      BY <1>1, VarintLenIs DEF m, MostGroups
    <3>2. m = 1
      BY <1>1, <2>3, ZeroLen DEF m
    <3> QED
      BY <1>2, <2>3, <3>2
  <2>4. CASE packetLen + m <= MaxLen
    BY <1>1, <1>2, <1>3, <2>2, <2>4
  <2> QED
    BY <1>8, <2>3, <2>4
<1>10. Buffer'
  <2> HIDE DEF n, m, k, prefix
  <2>1. dataLen' \in Nat /\ dataLen' > 0 /\ InBlocks(dataLen') /\ allotted' \in Nat
    BY <1>2, <1>5, <1>7
  <2>2. dataLen' # allotted' => dataLen' > MaxLen
    BY <1>1, <1>2, <1>5, <1>7, <1>9
  <2>3. DOMAIN data' = 0..dataLen' - 1
    BY <1>5, <1>6
  <2> QED
    BY <2>1, <2>2, <2>3 DEF Buffer, InBlocks
<1>11. Unfinished'
  BY <1>5 DEF Unfinished
<1>12. FrameReadsBack'
  <2>0. SUFFICES ASSUME ~overrun' PROVE FrameReadsBack'
    BY DEF FrameReadsBack
  <2> DEFINE d == data'
             b == packetLen
             w == b + m
  <2>1. \A i \in 1..m : d[i - 1] = prefix[i]
    <3> HIDE DEF n, m, k, prefix
    <3>1. ASSUME NEW i \in 1..m PROVE i - 1 \in 0..n - 1 /\ i - 1 < m /\ (i - 1) + 1 = i
      BY <1>1, <1>3, <1>7
    <3> QED
      BY <1>6, <3>1
  <2>2. \A i \in 1..b : d[m + i - 1] = BodyByte(i - 1)
    <3> HIDE DEF n, m, k, prefix
    <3>1. ASSUME NEW i \in 1..packetLen PROVE data'[m + i - 1] = BodyByte(i - 1)
      <4> DEFINE j == m + i - 1
      <4>1. packetLen # 0
        BY <1>1
      <4>2. k = m
        BY <1>3, <4>1
      <4>3. ~(packetLen + m > allotted)
        BY <2>0, <1>5, <4>2
      <4>4. packetLen + m <= dataLen
        BY <1>1, <1>2, <1>3, <1>4, <4>2, <4>3
      <4>5. j \in 0..n - 1 /\ ~(j < m) /\ j \in k..k + packetLen - 1 /\ j < dataLen
            /\ j - k = i - 1 /\ i - 1 \in 0..packetLen - 1
        BY <1>1, <1>2, <1>3, <1>7, <4>2, <4>4
      <4> HIDE DEF j
      <4>6. data'[j] = data[i - 1]
        BY <1>6, <4>5
      <4> QED
        BY <1>1, <4>5, <4>6 DEF j
    <3> QED
      BY <3>1
  <2>3. FramedIn(d, b)
    BY <2>1, <2>2 DEF FramedIn
  <2>4. LET f == FrameOf(d, w)
            head == ReadVarint(f)
        IN /\ head.result > 0 /\ head.value = b
           /\ SubSeq(f, head.taken + 1, w) = [i \in 1..b |-> BodyByte(i - 1)]
    <3>1. b \in Varints /\ w = b + VarintLen(b)
      BY <1>1
    <3> HIDE DEF d, b, w
    <3> QED
      BY <2>3, <3>1, FrameBack
  <2>5. Frame' = FrameOf(d, w) /\ packetLen' = w /\ body' = b
    BY <1>1, <1>5 DEF Frame, FrameOf
  <2> HIDE DEF w, b, d, m
  <2> QED
    BY <2>4, <2>5 DEF FrameReadsBack
<1>13. OverrunOnlyAtBlockEnd'
  <2> SUFFICES ASSUME overrun', dataLen' = allotted'
               PROVE  (body + m - 1) % BlockSize < m
    BY <1>1, <1>5 DEF OverrunOnlyAtBlockEnd
  <2>1. dataLen = allotted /\ packetLen + k > dataLen
    <3> HIDE DEF n, m, k
    <3>1. packetLen + k > allotted
      BY <1>5
    <3>2. dataLen = allotted
      BY <1>5, <1>9
    <3> QED
      BY <3>1, <3>2
  <2>2. PICK q \in Nat : dataLen = BlockSize * q
    BY <1>2 DEF InBlocks
  <2> DEFINE bs == BlockSize
             x == body + m - 1
  <2>3. bs \in Nat \ {0} /\ x \in Nat /\ bs * q <= x /\ x < bs * q + m
    <3>1. bs \in Nat \ {0}
      BY PacketAssumption
    <3> HIDE DEF m, k
    <3>2. k = m
      BY <1>1, <1>2, <1>3, <2>1
    <3> QED
      BY <1>1, <1>2, <1>3, <2>1, <2>2, <3>1, <3>2
  <2> HIDE DEF bs, x, m
  <2>4. x % bs < m
    BY <1>3, <2>3, PastBlocks
  <2> QED
    BY <2>4 DEF bs, x
<1>14. BytesReported' /\ HeaderFits'
  <2>1. last'.call = "none"
    BY <1>5 DEF Idle
  <2> QED
    BY <2>1, OtherCall
<1> QED
  BY <1>10, <1>11, <1>12, <1>13, <1>14 DEF PacketInv

\* No step breaks the invariant.
LEMMA PacketInvStays == PacketInv /\ [PacketNext]_packetVars => PacketInv'
<1> SUFFICES ASSUME PacketInv, [PacketNext]_packetVars PROVE PacketInv'
  OBVIOUS
<1>1. CASE MakePacket
  BY <1>1, MadeStays
<1>2. CASE Finalize
  BY <1>2, FinalizeStays
<1>3. ASSUME NEW k \in ReadLens, ReadHeader(k) PROVE PacketInv'
  BY <1>3, HeaderStays
<1>4. ASSUME NEW k \in WriteLens, WriteBytes(k) PROVE PacketInv'
  BY <1>4, BytesStay
<1>5. ASSUME NEW k \in WriteLens, WriteString(k) PROVE PacketInv'
  BY <1>5, StringStays
<1>6. ASSUME NEW k \in 1..MostGroups, WriteVarintOf(k) PROVE PacketInv'
  BY <1>6, VarintStays
<1>7. CASE UNCHANGED packetVars
  <2>1. Buffer' /\ Unfinished' /\ HeaderFits' /\ BytesReported'
    BY <1>7 DEF packetVars, PacketInv, Buffer, InBlocks, Unfinished, HeaderFits, BytesReported
  <2>2. FrameReadsBack' /\ OverrunOnlyAtBlockEnd'
    BY <1>7 DEF packetVars, PacketInv, FrameReadsBack, OverrunOnlyAtBlockEnd, Frame
  <2> QED
    BY <2>1, <2>2 DEF PacketInv
<1> QED
  BY <1>1, <1>2, <1>3, <1>4, <1>5, <1>6, <1>7 DEF PacketNext

\* The invariant of struct packet in write mode.
THEOREM PacketInvariant == PacketSpec => []PacketInv
BY PacketStart, PacketInvStays, PTL DEF PacketSpec

\* The invariant says what the run checks.
LEMMA PacketKeeps == PacketInv => WritesKept
<1> SUFFICES ASSUME PacketInv PROVE WritesKept
  OBVIOUS
<1>1. Contiguous
  BY DEF PacketInv, Unfinished, Contiguous
<1>2. BufferHolds
  BY DEF PacketInv, Buffer, HeaderFits, BufferHolds
<1> QED
  BY <1>1, <1>2 DEF PacketInv, WritesKept

\* A write is all or nothing and stays, a finalized packet is read back, and the
\* buffer is left only where a body ends in the last bytes of a block: for every
\* size of group, block and limit, and every sequence of writes.
THEOREM PacketWritesKept == PacketSpec => []WritesKept
BY PacketInvariant, PacketKeeps, PTL
=============================================================================
