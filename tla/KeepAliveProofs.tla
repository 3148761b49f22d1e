---------------------------- MODULE KeepAliveProofs ----------------------------
(***************************************************************************)
(* What the keep-alive exchange guarantees for every limit and period, and *)
(* every choice of delays and of gaps between the ticks.                   *)
(***************************************************************************)
EXTENDS KeepAlive, FiniteSetTheorems, TLAPS

\* The stalls that an answering client survives: with a limit of 30 and a period of 3
\* they last up to 25 seconds.
ShortGaps ==
  \A g \in Gaps : g <= PongLimit /\ g + 2 * PingPeriod <= PongLimit + 1

\* There is a longest gap, as there is in every finite set that is not empty.
HasLongest == \E g \in Gaps : \A h \in Gaps : h <= g

\* What every state satisfies.  The stream is in the order in which it becomes readable,
\* all of it answers pings that were sent, and when the loop last served an open
\* connection the last ping was not older than a period.
Clock ==
  /\ lastPing = id /\ lastPong <= now /\ acked <= now
  /\ id = LongAgo => stream = <<>> /\ (open => now = 0)
  /\ id # LongAgo => 0 <= id /\ id <= now
  /\ open => now - id <= PingPeriod \/ now = 0
  /\ \A i \in DOMAIN stream : stream[i].id <= id
  /\ \A i, j \in DOMAIN stream : i <= j => stream[i].at <= stream[j].at

\* An answering client has the answer to the last ping under way, in time before the
\* next is due, or the server has read it.
Answering ==
  prompt =>
    /\ open
    /\ \A i \in DOMAIN stream : stream[i].at <= id + PingPeriod + 1
    /\ \/ id = LongAgo /\ lastPong = 0
       \/ /\ \E i \in DOMAIN stream : stream[i].id = id
          /\ id + PingPeriod - lastPong <= PongLimit
       \/ id # LongAgo /\ id < lastPong

\* The last pong was read soon after the ping it is the answer to was sent, and while
\* the connection is open it is not too old.
Recent ==
  /\ lastPong - acked <= PingPeriod + Longest
  /\ open => now - lastPong <= PongLimit

KInv == TypeOK /\ Clock

-----------------------------------------------------------------------------
(***************************************************************************)
(* What the operators on the stream return.                                *)
(***************************************************************************)

\* The stream is a sequence of answers.
LEMMA StreamIs ==
  ASSUME TypeOK
  PROVE  /\ Len(stream) \in Nat /\ DOMAIN stream = 1..Len(stream)
         /\ \A i \in DOMAIN stream :
              /\ stream[i] \in [id : 0..LastSecond, at : Nat]
              /\ stream[i].id \in 0..LastSecond /\ stream[i].at \in Nat
<1> DEFINE Entry == [id : 0..LastSecond, at : Nat]
<1>1. stream \in Seq(Entry)
  BY DEF TypeOK
<1>2. \A e \in Entry : e.id \in 0..LastSecond /\ e.at \in Nat
  OBVIOUS
<1> HIDE DEF Entry
<1>3. /\ Len(stream) \in Nat /\ DOMAIN stream = 1..Len(stream)
      /\ \A i \in 1..Len(stream) : stream[i] \in Entry
  BY <1>1
<1>4. \A i \in DOMAIN stream :
        stream[i] \in Entry /\ stream[i].id \in 0..LastSecond /\ stream[i].at \in Nat
  BY <1>2, <1>3
<1> QED
  BY <1>3, <1>4 DEF Entry

\* A read takes a prefix of the stream, since the stream is in order.
LEMMA ReadablePrefix ==
  ASSUME TypeOK, Clock, NEW t \in Nat
  PROVE  /\ Cardinality(Readable(t)) \in 0..Len(stream)
         /\ Readable(t) = 1..Cardinality(Readable(t))
<1> DEFINE R == Readable(t)
           k == Cardinality(R)
<1>1. Len(stream) \in Nat /\ DOMAIN stream = 1..Len(stream)
  BY StreamIs
<1>2. R \subseteq 1..Len(stream)
  BY <1>1 DEF Readable
<1>3. /\ IsFiniteSet(1..Len(stream))
      /\ Cardinality(1..Len(stream)) = Len(stream)
  <2>1. \A n \in Nat : IsFiniteSet(1..n) /\ Cardinality(1..n) = n
    <3>1. SUFFICES ASSUME NEW n \in Nat
                   PROVE  IsFiniteSet(1..n) /\ Cardinality(1..n) = n
      OBVIOUS
    <3>2. IsFiniteSet(1..n) /\ Cardinality(1..n) = IF 1 > n THEN 0 ELSE n - 1 + 1
      BY FS_Interval
    <3> QED
      BY <3>2
  <2> QED
    BY <1>1, <2>1
<1>4. IsFiniteSet(R) /\ k <= Len(stream)
  BY <1>2, <1>3, FS_Subset
<1>5. k \in Nat
  BY <1>4, FS_CardinalityType
<1>6. R \subseteq 1..k
  <2>1. SUFFICES ASSUME NEW i \in R PROVE i \in 1..k
    OBVIOUS
  <2>2. i \in Nat /\ 1 <= i /\ i <= Len(stream) /\ stream[i].at <= t
    BY <1>1, <1>2 DEF Readable
  <2>3. 1..i \subseteq R
    <3>1. SUFFICES ASSUME NEW j \in 1..i PROVE j \in R
      OBVIOUS
    <3>2. j \in DOMAIN stream /\ i \in DOMAIN stream /\ j <= i
      BY <1>1, <2>2
    <3>3. stream[j].at \in Nat /\ stream[i].at \in Nat
      BY <3>2, StreamIs
    <3>4. stream[j].at <= stream[i].at
      BY <3>2 DEF Clock
    <3> QED
      BY <2>2, <3>2, <3>3, <3>4 DEF Readable
  <2>4. Cardinality(1..i) = i
    BY <2>2, FS_Interval
  <2>5. Cardinality(1..i) <= k
    BY <1>4, <2>3, FS_Subset
  <2> QED
    BY <1>5, <2>2, <2>4, <2>5
<1>7. IsFiniteSet(1..k) /\ Cardinality(1..k) = k
  BY <1>5, FS_Interval
<1>8. R = 1..k
  BY <1>6, <1>7, FS_Subset
<1> QED
  BY <1>1, <1>4, <1>5, <1>8

\* What a read leaves is the rest of the stream.
LEMMA UnreadIsRest ==
  ASSUME TypeOK, Clock, NEW t \in Nat
  PROVE  \E k \in 0..Len(stream) :
           /\ Readable(t) = 1..k
           /\ Unread(t) \in Seq([id : 0..LastSecond, at : Nat])
           /\ Len(Unread(t)) = Len(stream) - k
           /\ \A i \in 1..Len(stream) - k : Unread(t)[i] = stream[i + k]
<1> DEFINE k == Cardinality(Readable(t))
<1>1. k \in 0..Len(stream) /\ Readable(t) = 1..k
  BY ReadablePrefix
<1>2. stream \in Seq([id : 0..LastSecond, at : Nat])
  BY DEF TypeOK
<1>3. Unread(t) = SubSeq(stream, k + 1, Len(stream))
  BY DEF Unread
<1> HIDE DEF k
<1>4. /\ Unread(t) \in Seq([id : 0..LastSecond, at : Nat])
      /\ Len(Unread(t)) = Len(stream) - k
      /\ \A i \in 1..Len(stream) - k : Unread(t)[i] = stream[i + k]
  <2> DEFINE Entry == [id : 0..LastSecond, at : Nat]
             n == Len(stream)
  <2>1. stream \in Seq(Entry) /\ n \in Nat
    BY <1>2, StreamIs
  <2> HIDE DEF Entry
  <2>2. /\ SubSeq(stream, k + 1, n) \in Seq(Entry)
        /\ Len(SubSeq(stream, k + 1, n)) = n - k
        /\ \A i \in 1..n - k : SubSeq(stream, k + 1, n)[i] = stream[i + k]
    <3> HIDE DEF n
    <3>1. k \in 0..n /\ k + 1 \in Int /\ n \in Int /\ n = Len(stream)
      BY <1>1, <2>1 DEF n
    <3>2. CASE k = n
      BY <2>1, <3>1, <3>2
    <3>3. CASE k < n
      BY <2>1, <3>1, <3>3
    <3> QED
      BY <3>1, <3>2, <3>3
  <2> QED
    BY <1>3, <2>2 DEF Entry
<1> QED
  BY <1>1, <1>4

\* An answer names its ping and is readable no earlier than what is under way already.
LEMMA AnswerIsLast ==
  ASSUME TypeOK, Clock, NEW t \in 0..LastSecond, NEW delay \in Delays
  PROVE  \E m \in Nat :
           /\ Answer(t, delay) = [id |-> t, at |-> m]
           /\ \A i \in DOMAIN stream : stream[i].at <= m
           /\ m = t + delay \/ \E i \in DOMAIN stream : m = stream[i].at
<1> DEFINE earlier == {stream[i].at : i \in DOMAIN stream}
           all == earlier \cup {t + delay}
           IsMax(m) == \A n \in all : n <= m
<1>1. t \in Nat /\ delay \in Nat /\ t + delay \in Nat
  BY KeepAliveAssumption
<1>2. \A i \in DOMAIN stream : stream[i].at \in Nat
  BY StreamIs
<1>3. all \subseteq Nat
  BY <1>1, <1>2
<1>4. \E m \in all : IsMax(m)
  <2>1. CASE stream = <<>>
    BY <1>1, <2>1
  <2>2. CASE stream # <<>>
    <3> DEFINE top == stream[Len(stream)].at
    <3>1. Len(stream) \in DOMAIN stream
      <4>1. stream \in Seq([id : 0..LastSecond, at : Nat])
        BY DEF TypeOK
      <4> QED
        BY <2>2, <4>1
    <3>2. \A i \in DOMAIN stream : i <= Len(stream)
      BY StreamIs
    <3>3. \A i \in DOMAIN stream : stream[i].at <= top
      BY <3>1, <3>2 DEF Clock
    <3>4. top \in earlier /\ top \in Nat /\ \A n \in earlier : n <= top
      BY <1>2, <3>1, <3>3
    <3> HIDE DEF top, earlier
    <3>5. CASE top <= t + delay
      <4>1. \A n \in earlier : n \in Nat
        BY <1>3
      <4> QED
        BY <1>1, <3>4, <3>5, <4>1
    <3>6. CASE ~ (top <= t + delay)
      <4>1. t + delay <= top
        BY <1>1, <3>4, <3>6
      <4> QED
        BY <3>4, <4>1
    <3> QED
      BY <3>5, <3>6
  <2> QED
    BY <2>1, <2>2
<1> DEFINE m == CHOOSE x \in all : IsMax(x)
<1>5. m \in all /\ IsMax(m)
  BY <1>4
<1>6. Answer(t, delay) = [id |-> t, at |-> m]
  BY DEF Answer
<1> QED
  BY <1>3, <1>5, <1>6

-----------------------------------------------------------------------------
(***************************************************************************)
(* Types and the order of the stream.                                      *)
(***************************************************************************)

\* A tick serves the connection in a later second.
LEMMA TickIsLater ==
  ASSUME TypeOK, NEW gap \in Gaps, now + gap <= LastSecond
  PROVE  /\ now + gap \in 0..LastSecond /\ now < now + gap
         /\ gap \in Nat /\ 1 <= gap
BY KeepAliveAssumption DEF TypeOK

\* What reading leaves behind: the pong was now or when it was, and a ping is counted as
\* answered when its answer is the one that counts.
LEMMA ReadKeeps ==
  ASSUME TypeOK, Clock, NEW t \in 0..LastSecond, now < t, Read(t)
  PROVE  /\ now' = t
         /\ \/ Ponged(t) /\ lastPong' = t /\ acked' = id /\ id # LongAgo
            \/ ~Ponged(t) /\ lastPong' = lastPong /\ acked' = acked
         /\ lastPong' = PongAfter(t)
         /\ lastPong' \in 0..t /\ acked' \in 0..t
<1>1. /\ now' = t /\ lastPong' = IF Ponged(t) THEN t ELSE lastPong
      /\ acked' = IF Ponged(t) THEN id ELSE acked
      /\ lastPong' = PongAfter(t)
  BY DEF Read, PongAfter, Ponged, Matches
<1>2. lastPong \in 0..t /\ acked \in 0..t /\ t \in Nat
  BY KeepAliveAssumption DEF TypeOK, Clock
<1>3. CASE Ponged(t)
  <2>1. PICK i \in DOMAIN stream : stream[i].id = id
    BY <1>3 DEF Ponged, Readable, Matches
  <2>2. id # LongAgo
    <3>1. stream # <<>>
      BY <2>1, StreamIs
    <3> QED
      BY <3>1 DEF Clock
  <2>3. 0 <= id /\ id <= now /\ id \in Int /\ now \in Int
    BY <2>2, KeepAliveAssumption DEF Clock, TypeOK, LongAgo
  <2>4. id \in 0..t
    <3>1. t \in Int /\ now < t
      BY <1>2
    <3> QED
      BY <2>3, <3>1
  <2>5. lastPong' = t /\ acked' = id /\ now' = t /\ lastPong' = PongAfter(t)
    BY <1>1, <1>3
  <2>6. lastPong' \in 0..t
    <3>1. \A n \in Nat : n \in 0..n
      OBVIOUS
    <3>2. t \in 0..t
      BY <1>2, <3>1
    <3> QED
      BY <2>5, <3>2
  <2>7. acked' \in 0..t
    BY <2>4, <2>5
  <2> HIDE DEF Ponged, PongAfter
  <2> QED
    BY <1>3, <2>2, <2>5, <2>6, <2>7
<1>4. CASE ~Ponged(t)
  BY <1>1, <1>2, <1>4
<1> QED
  BY <1>3, <1>4

\* The initial state.
LEMMA KInvInit == Init => KInv
<1> SUFFICES ASSUME Init PROVE KInv
  OBVIOUS
<1>1. <<>> \in Seq([id : 0..LastSecond, at : Nat])
  OBVIOUS
<1>2. TypeOK
  BY <1>1, KeepAliveAssumption DEF Init, TypeOK, LongAgo
<1>3. Clock
  BY KeepAliveAssumption DEF Init, Clock, LongAgo
<1> QED
  BY <1>2, <1>3 DEF KInv

\* A connection that is closed is not read again.
LEMMA KInvClose ==
  ASSUME KInv, NEW gap \in Gaps, now + gap <= LastSecond, Close(now + gap)
  PROVE  KInv'
<1> DEFINE t == now + gap
<1>1. t \in 0..LastSecond /\ now < t /\ t \in Int /\ now \in Int
  BY TickIsLater, KeepAliveAssumption DEF KInv, TypeOK
<1> HIDE DEF t
<1>2. Close(t)
  BY DEF t
<1>3. /\ now' = t /\ lastPong' \in 0..t /\ acked' \in 0..t
  BY <1>1, <1>2, ReadKeeps DEF KInv, Close
<1>4. /\ open' = FALSE /\ stream' = <<>>
      /\ lastPing' = lastPing /\ id' = id /\ prompt' = prompt
  BY <1>2 DEF Close
<1>5. <<>> \in Seq([id : 0..LastSecond, at : Nat])
  OBVIOUS
<1>6. TypeOK'
  <2>1. lastPong' \in 0..LastSecond /\ acked' \in 0..LastSecond
    BY <1>1, <1>3, KeepAliveAssumption
  <2> QED
    BY <1>1, <1>3, <1>4, <1>5, <2>1 DEF KInv, TypeOK, LongAgo
<1>7. Clock'
  <2>1. id # LongAgo => 0 <= id' /\ id' <= now'
    <3>1. id \in Int
      BY KeepAliveAssumption DEF KInv, TypeOK, LongAgo
    <3> QED
      BY <1>1, <1>3, <1>4, <3>1 DEF KInv, Clock
  <2>2. \A i \in DOMAIN stream' : FALSE
    BY <1>4
  <2>3. lastPing' = id' /\ lastPong' <= now' /\ acked' <= now'
    BY <1>3, <1>4, <1>1 DEF KInv, Clock
  <2> QED
    BY <1>4, <2>1, <2>2, <2>3 DEF Clock, LongAgo
<1> QED
  BY <1>6, <1>7 DEF KInv

\* Nothing but an open connection that was served just now is left when no ping was due.
LEMMA KInvRest ==
  ASSUME KInv, NEW gap \in Gaps, now + gap <= LastSecond, Rest(now + gap)
  PROVE  KInv'
<1> DEFINE t == now + gap
<1>1. t \in 0..LastSecond /\ now < t /\ t \in Nat /\ now \in Int
  BY TickIsLater, KeepAliveAssumption DEF KInv, TypeOK
<1> HIDE DEF t
<1>2. Rest(t)
  BY DEF t
<1>3. /\ now' = t /\ lastPong' \in 0..t /\ acked' \in 0..t
  BY <1>1, <1>2, ReadKeeps DEF KInv, Rest
<1>4. /\ stream' = Unread(t) /\ open' = open
      /\ lastPing' = lastPing /\ id' = id /\ prompt' = prompt
      /\ ~(t - lastPing > PingPeriod)
  BY <1>2 DEF Rest, PingDue
<1>5. PICK k \in 0..Len(stream) :
           /\ Unread(t) \in Seq([id : 0..LastSecond, at : Nat])
           /\ Len(Unread(t)) = Len(stream) - k
           /\ \A i \in 1..Len(stream) - k : Unread(t)[i] = stream[i + k]
  BY <1>1, UnreadIsRest DEF KInv
<1>6. TypeOK'
  BY <1>1, <1>3, <1>4, <1>5, KeepAliveAssumption DEF KInv, TypeOK
<1>7. \A i \in DOMAIN stream' : i + k \in DOMAIN stream /\ stream'[i] = stream[i + k]
  <2>1. DOMAIN stream' = 1..Len(stream) - k
    BY <1>4, <1>5
  <2>2. Len(stream) \in Nat /\ DOMAIN stream = 1..Len(stream)
    BY StreamIs DEF KInv
  <2> QED
    BY <1>4, <1>5, <2>1, <2>2
<1>8. id # LongAgo /\ id \in Int /\ PingPeriod \in Nat /\ id = lastPing /\ id = lastPing'
  BY <1>1, <1>4, KeepAliveAssumption DEF KInv, Clock, TypeOK, LongAgo
<1>9. Clock'
  <2>1. 0 <= id' /\ id' <= now'
    BY <1>1, <1>3, <1>4, <1>8 DEF KInv, Clock
  <2>2. now' - id' <= PingPeriod
    BY <1>1, <1>3, <1>4, <1>8
  <2>3. \A i \in DOMAIN stream' : stream'[i].id <= id'
    BY <1>4, <1>7 DEF KInv, Clock
  <2>4. \A i, j \in DOMAIN stream' : i <= j => stream'[i].at <= stream'[j].at
    <3>1. SUFFICES ASSUME NEW i \in DOMAIN stream', NEW j \in DOMAIN stream', i <= j
                   PROVE  stream'[i].at <= stream'[j].at
      OBVIOUS
    <3>2. i \in Int /\ j \in Int
      BY <1>4, <1>5
    <3>3. i + k <= j + k
      BY <1>5, <3>1, <3>2
    <3> QED
      BY <1>7, <3>3 DEF KInv, Clock
  <2>5. lastPong' <= now' /\ acked' <= now' /\ lastPing' = id'
    BY <1>1, <1>3, <1>4, <1>8
  <2>6. id' # (LongAgo)'
    BY <1>4, <1>8 DEF LongAgo
  <2> QED
    BY <2>1, <2>2, <2>3, <2>4, <2>5, <2>6 DEF Clock
<1> QED
  BY <1>6, <1>9 DEF KInv

\* A ping renews the second the next one is counted from; its answer goes behind the
\* answers under way.
LEMMA PingStream ==
  ASSUME KInv, NEW t \in 0..LastSecond, now < t, Ping(t)
  PROVE  /\ \A i \in DOMAIN stream' :
              \/ stream'[i].id = t
              \/ \E j \in DOMAIN stream : stream'[i] = stream[j]
         /\ \A i, j \in DOMAIN stream' : i <= j => stream'[i].at <= stream'[j].at
         /\ stream' \in Seq([id : 0..LastSecond, at : Nat])
         /\ prompt' =>
              /\ prompt
              /\ \E i \in DOMAIN stream' : stream'[i].id = t
              /\ \A i \in DOMAIN stream' :
                   \/ stream'[i].at <= t + PingPeriod + 1
                   \/ \E j \in DOMAIN stream : stream'[i].at = stream[j].at
<1> DEFINE Entry == [id : 0..LastSecond, at : Nat]
           rest == Unread(t)
<1>1. t \in Nat
  BY KeepAliveAssumption
<1>2. PICK k \in 0..Len(stream) :
           /\ rest \in Seq(Entry)
           /\ Len(rest) = Len(stream) - k
           /\ \A i \in 1..Len(stream) - k : rest[i] = stream[i + k]
  BY <1>1, UnreadIsRest DEF KInv
<1>3. Len(stream) \in Nat /\ DOMAIN stream = 1..Len(stream)
  BY StreamIs DEF KInv
<1>4. DOMAIN rest = 1..Len(stream) - k
  BY <1>2
<1>5. \A i \in DOMAIN rest : i + k \in DOMAIN stream /\ rest[i] = stream[i + k]
  <2> HIDE DEF rest
  <2>1. SUFFICES ASSUME NEW i \in DOMAIN rest
                 PROVE  i + k \in DOMAIN stream /\ rest[i] = stream[i + k]
    OBVIOUS
  <2>2. i \in 1..Len(stream) - k
    BY <1>4
  <2>3. rest[i] = stream[i + k]
    BY <1>2, <2>2
  <2>4. i + k \in 1..Len(stream)
    BY <1>2, <1>3, <2>2
  <2> QED
    BY <1>3, <2>3, <2>4
<1>6. \A i, j \in DOMAIN rest : i <= j => rest[i].at <= rest[j].at
  <2>1. SUFFICES ASSUME NEW i \in DOMAIN rest, NEW j \in DOMAIN rest, i <= j
                 PROVE  rest[i].at <= rest[j].at
    OBVIOUS
  <2>2. i + k <= j + k
    BY <1>2, <1>3, <1>4, <2>1
  <2> QED
    BY <1>5, <2>2 DEF KInv, Clock
<1>7. CASE stream' = rest /\ prompt' = FALSE
  BY <1>2, <1>5, <1>6, <1>7
<1>8. CASE \E delay \in Delays :
             /\ stream' = Append(Unread(t), Answer(t, delay))
             /\ prompt' = (prompt /\ delay <= PingPeriod + 1)
  <2>1. PICK delay \in Delays :
             /\ stream' = Append(rest, Answer(t, delay))
             /\ prompt' = (prompt /\ delay <= PingPeriod + 1)
    BY <1>8
  <2>2. PICK m \in Nat :
           /\ Answer(t, delay) = [id |-> t, at |-> m]
           /\ \A i \in DOMAIN stream : stream[i].at <= m
           /\ m = t + delay \/ \E i \in DOMAIN stream : m = stream[i].at
    BY AnswerIsLast DEF KInv
  <2> DEFINE new == [id |-> t, at |-> m]
             n == Len(rest)
  <2>3. new \in Entry /\ new.id = t /\ new.at = m
    OBVIOUS
  <2>4. stream' = Append(rest, new)
    BY <2>1, <2>2
  <2>5. n \in Nat /\ DOMAIN rest = 1..n
    BY <1>2
  <2> HIDE DEF new, rest, Entry, n
  <2>6. /\ stream' \in Seq(Entry) /\ DOMAIN stream' = 1..n + 1
        /\ stream'[n + 1] = new /\ \A i \in 1..n : stream'[i] = rest[i]
    <3>1. rest \in Seq(Entry) /\ new \in Entry
      BY <1>2, <2>3
    <3> QED
      BY <2>4, <3>1 DEF n
  <2>7. \A i \in DOMAIN stream' : i = n + 1 \/ i \in DOMAIN rest
    BY <2>5, <2>6
  <2>8. \A i \in DOMAIN rest : stream'[i] = rest[i]
    BY <2>5, <2>6
  <2>9. \A i, j \in DOMAIN stream' : i <= j => stream'[i].at <= stream'[j].at
    <3>1. SUFFICES ASSUME NEW i \in DOMAIN stream', NEW j \in DOMAIN stream', i <= j
                   PROVE  stream'[i].at <= stream'[j].at
      OBVIOUS
    <3>2. CASE j = n + 1 /\ i = n + 1
      BY <2>2, <2>3, <2>6, <3>2
    <3>3. CASE j = n + 1 /\ i \in DOMAIN rest
      BY <1>5, <2>2, <2>3, <2>6, <2>8, <3>3
    <3>4. CASE j \in DOMAIN rest
      <4>1. i \in DOMAIN rest
        BY <2>5, <2>6, <3>1, <3>4
      <4> QED
        BY <1>6, <2>8, <3>1, <3>4, <4>1
    <3> QED
      BY <2>7, <3>2, <3>3, <3>4
  <2>10. n + 1 \in DOMAIN stream' /\ stream'[n + 1].id = t
    BY <2>3, <2>5, <2>6
  <2>11. \A i \in DOMAIN stream' :
           \/ stream'[i].id = t
           \/ \E j \in DOMAIN stream : stream'[i] = stream[j]
    BY <1>5, <2>7, <2>8, <2>10
  <2>12. ASSUME prompt', NEW i \in DOMAIN stream'
         PROVE  \/ stream'[i].at <= t + PingPeriod + 1
                \/ \E j \in DOMAIN stream : stream'[i].at = stream[j].at
    <3>1. CASE i = n + 1
      <4>1. stream'[i].at = m
        BY <2>3, <2>6, <3>1
      <4>2. delay <= PingPeriod + 1
        BY <2>1, <2>12
      <4>3. t + delay <= t + PingPeriod + 1
        BY <1>1, <4>2, KeepAliveAssumption
      <4> QED
        BY <2>2, <4>1, <4>3
    <3>2. CASE i \in DOMAIN rest
      BY <1>5, <2>8, <3>2
    <3> QED
      BY <2>7, <3>1, <3>2
  <2>13. prompt' => prompt
    BY <2>1
  <2> QED
    BY <2>6, <2>9, <2>10, <2>11, <2>12, <2>13 DEF Entry
<1> QED
  BY <1>7, <1>8 DEF Ping

\* Sending a ping.
LEMMA KInvPing ==
  ASSUME KInv, NEW gap \in Gaps, now + gap <= LastSecond, Ping(now + gap)
  PROVE  KInv'
<1> DEFINE t == now + gap
<1>1. t \in 0..LastSecond /\ now < t /\ t \in Nat /\ now \in Int
  BY TickIsLater, KeepAliveAssumption DEF KInv, TypeOK
<1> HIDE DEF t
<1>2. Ping(t)
  BY DEF t
<1>3. /\ now' = t /\ lastPong' \in 0..t /\ acked' \in 0..t
  BY <1>1, <1>2, ReadKeeps DEF KInv, Ping
<1>4. lastPing' = t /\ id' = t /\ open' = open /\ open
  BY <1>2 DEF Ping
<1>5. /\ stream' \in Seq([id : 0..LastSecond, at : Nat])
      /\ \A i, j \in DOMAIN stream' : i <= j => stream'[i].at <= stream'[j].at
      /\ \A i \in DOMAIN stream' :
           \/ stream'[i].id = t
           \/ \E j \in DOMAIN stream : stream'[i] = stream[j]
  BY <1>1, <1>2, PingStream
<1>6. prompt' \in BOOLEAN
  BY <1>2 DEF Ping, KInv, TypeOK
<1>7. TypeOK'
  <2>1. t \in LongAgo..LastSecond
    BY <1>1, KeepAliveAssumption DEF LongAgo
  <2> QED
    BY <1>1, <1>3, <1>4, <1>5, <1>6, <2>1, KeepAliveAssumption DEF KInv, TypeOK, LongAgo
<1>8. \A i \in DOMAIN stream' : stream'[i].id <= id'
  <2>1. id <= t
    <3>1. id \in Int /\ LongAgo < 0
      BY KeepAliveAssumption DEF KInv, TypeOK, LongAgo
    <3> QED
      BY <1>1, <3>1 DEF KInv, Clock
  <2>2. \A j \in DOMAIN stream : stream[j].id <= id /\ stream[j].id \in Int
    BY StreamIs DEF KInv, Clock
  <2>3. id \in Int
    BY KeepAliveAssumption DEF KInv, TypeOK, LongAgo
  <2> QED
    BY <1>1, <1>4, <1>5, <2>1, <2>2, <2>3
<1>9. Clock'
  <2>1. id' # (LongAgo)' /\ now' - id' <= PingPeriod /\ 0 <= id' /\ id' <= now'
    BY <1>1, <1>3, <1>4, KeepAliveAssumption DEF LongAgo
  <2>2. lastPing' = id' /\ lastPong' <= now' /\ acked' <= now'
    BY <1>1, <1>3, <1>4
  <2> QED
    BY <1>5, <1>8, <2>1, <2>2 DEF Clock
<1> QED
  BY <1>7, <1>9 DEF KInv

\* Every step.
LEMMA KInvNext == KInv /\ [Next]_vars => KInv'
<1> SUFFICES ASSUME KInv, [Next]_vars PROVE KInv'
  OBVIOUS
<1>1. ASSUME NEW gap \in Gaps, now + gap <= LastSecond, Close(now + gap) PROVE KInv'
  BY <1>1, KInvClose
<1>2. ASSUME NEW gap \in Gaps, now + gap <= LastSecond, Ping(now + gap) PROVE KInv'
  BY <1>2, KInvPing
<1>3. ASSUME NEW gap \in Gaps, now + gap <= LastSecond, Rest(now + gap) PROVE KInv'
  BY <1>3, KInvRest
<1>4. CASE UNCHANGED vars
  BY <1>4 DEF vars, KInv, TypeOK, Clock, LongAgo
<1> QED
  BY <1>1, <1>2, <1>3, <1>4 DEF Next

\* In every state the stream is in the order in which it becomes readable, and the last
\* ping is not older than a period when the loop has served an open connection.
THEOREM KeepAliveInvariant == Spec => []KInv
<1>1. Init => KInv
  BY KInvInit
<1>2. KInv /\ [Next]_vars => KInv'
  BY KInvNext
<1> QED
  BY <1>1, <1>2, PTL DEF Spec

\* Every variable keeps its type; in particular, the seconds of pings, pongs and answers
\* that are compared in server_play never run ahead of the clock (server.c:432-444).
THEOREM KeepAliveTyped == Spec => []TypeOK
<1>1. KInv => TypeOK
  BY DEF KInv
<1> QED
  BY <1>1, KeepAliveInvariant, PTL

-----------------------------------------------------------------------------
(***************************************************************************)
(* A client that answers stays.                                            *)
(***************************************************************************)

\* When a ping is due, all of an answering client's answers are read.
LEMMA AnswersAreRead ==
  ASSUME KInv, Answering, prompt, NEW t \in 0..LastSecond, now < t, t - id > PingPeriod,
         \E i \in DOMAIN stream : stream[i].id = id
  PROVE  Ponged(t)
<1>1. PICK i \in DOMAIN stream : stream[i].id = id
  OBVIOUS
<1>2. stream[i].at <= id + PingPeriod + 1 /\ stream[i].at \in Nat
  BY StreamIs DEF Answering, KInv
<1>3. id \in Int /\ t \in Int /\ PingPeriod \in Int
  BY KeepAliveAssumption DEF KInv, TypeOK, LongAgo
<1>4. id + PingPeriod + 1 <= t
  BY <1>3
<1>5. stream[i].at <= t
  BY <1>2, <1>3, <1>4
<1> QED
  BY <1>1, <1>5 DEF Ponged, Readable, Matches

\* While a client answers, no gap that is short enough lets its last pong get too old,
\* and none lets the pong be too old for the ping that is sent after it.
LEMMA PongIsRecent ==
  ASSUME ShortGaps, KInv, Answering, prompt, NEW gap \in Gaps, now + gap <= LastSecond
  PROVE  /\ ~TimedOut(now + gap)
         /\ PingDue(now + gap) =>
              now + gap + PingPeriod - PongAfter(now + gap) <= PongLimit
<1> DEFINE t == now + gap
           P == PingPeriod
           L == PongLimit
<1>1. t \in 0..LastSecond /\ now < t /\ gap \in Nat /\ 1 <= gap
  BY TickIsLater DEF KInv
<1>2. gap <= L /\ gap + 2 * P <= L + 1
  BY DEF ShortGaps
<1>3. /\ P \in Nat /\ L \in Nat /\ now \in Nat /\ t \in Nat /\ id \in Int
      /\ lastPong \in Nat
  BY <1>1, KeepAliveAssumption DEF KInv, TypeOK, LongAgo
<1>4. P + gap <= L /\ 0 <= L /\ P <= L
  BY <1>1, <1>2, <1>3
<1>5. open /\ (now - id <= P \/ now = 0)
  BY DEF Answering, KInv, Clock
<1>6. CASE Ponged(t)
  <2>1. PongAfter(t) = t
    BY <1>6 DEF PongAfter
  <2> QED
    BY <1>3, <1>4, <2>1 DEF TimedOut
<1>7. CASE ~Ponged(t)
  <2>1. PongAfter(t) = lastPong
    BY <1>7 DEF PongAfter
  <2>2. CASE id = LongAgo /\ lastPong = 0
    <3>1. t = gap
      BY <1>1, <1>5, <2>2 DEF KInv, Clock
    <3> HIDE DEF t
    <3>2. t - lastPong <= L /\ t + P - lastPong <= L
      BY <1>1, <1>3, <1>4, <2>2, <3>1
    <3>3. ~(t - lastPong > L)
      BY <1>3, <3>2
    <3> QED
      BY <2>1, <3>2, <3>3 DEF TimedOut, t
  <2>3. CASE /\ \E i \in DOMAIN stream : stream[i].id = id
             /\ id + P - lastPong <= L
    <3>1. ~(t - id > P)
      BY <1>1, <1>7, <2>3, AnswersAreRead
    <3>2. ~PingDue(t)
      BY <3>1 DEF PingDue, KInv, Clock
    <3> HIDE DEF t, P, L
    <3>3. ~(t - lastPong > L)
      BY <1>3, <2>3, <3>1
    <3> QED
      BY <2>1, <3>2, <3>3 DEF TimedOut, t, L
  <2>4. CASE id # LongAgo /\ id < lastPong
    <3>1. 0 <= id /\ id <= now
      BY <2>4 DEF KInv, Clock
    <3>2. now - id <= P
      BY <1>3, <1>5, <3>1
    <3>3. t = now + gap
      OBVIOUS
    <3> HIDE DEF t, P, L
    <3>4. t - lastPong <= P + gap - 1
      BY <1>1, <1>3, <2>4, <3>2, <3>3
    <3>5. t + P - lastPong <= L
      BY <1>1, <1>2, <1>3, <3>4
    <3>6. ~(t - lastPong > L)
      BY <1>3, <3>5
    <3> QED
      BY <2>1, <3>5, <3>6 DEF TimedOut, t, P, L
  <2> QED
    BY <2>2, <2>3, <2>4 DEF Answering
<1> QED
  BY <1>6, <1>7

\* The initial state.
LEMMA AnsweringInit == Init => Answering
  BY DEF Init, Answering

\* Every step.
LEMMA AnsweringNext ==
  ASSUME ShortGaps, KInv, Answering, [Next]_vars
  PROVE  Answering'
<1> SUFFICES ASSUME prompt' PROVE
      /\ open'
      /\ \A i \in DOMAIN stream' : stream'[i].at <= id' + PingPeriod + 1
      /\ \/ id' = LongAgo /\ lastPong' = 0
         \/ /\ \E i \in DOMAIN stream' : stream'[i].id = id'
            /\ id' + PingPeriod - lastPong' <= PongLimit
         \/ id' # LongAgo /\ id' < lastPong'
  BY DEF Answering, LongAgo
<1>1. ASSUME NEW gap \in Gaps, now + gap <= LastSecond, Close(now + gap)
      PROVE  FALSE
  <2>1. prompt /\ TimedOut(now + gap)
    BY <1>1 DEF Close
  <2> QED
    BY <1>1, <2>1, PongIsRecent
<1>2. ASSUME NEW gap \in Gaps, now + gap <= LastSecond, Ping(now + gap)
      PROVE  Answering'
  <2> DEFINE t == now + gap
  <2>1. t \in 0..LastSecond /\ now < t /\ t \in Nat
    BY <1>2, TickIsLater, KeepAliveAssumption DEF KInv
  <2>2. /\ prompt /\ \E i \in DOMAIN stream' : stream'[i].id = t
        /\ \A i \in DOMAIN stream' :
             \/ stream'[i].at <= t + PingPeriod + 1
             \/ \E j \in DOMAIN stream : stream'[i].at = stream[j].at
    BY <1>2, <2>1, PingStream
  <2>3. id' = t /\ open' /\ PingDue(t) /\ lastPong' = PongAfter(t)
    BY <1>2 DEF Ping, Read
  <2>4. id' + PingPeriod - lastPong' <= PongLimit
    BY <1>2, <2>2, <2>3, PongIsRecent
  <2>5. id <= t /\ id \in Int /\ PingPeriod \in Nat
    <3>1. id \in Int /\ PingPeriod \in Nat /\ LongAgo < 0 /\ now \in Int
      BY KeepAliveAssumption DEF KInv, TypeOK, LongAgo
    <3> QED
      BY <2>1, <3>1 DEF KInv, Clock
  <2> HIDE DEF t
  <2>6. \A j \in DOMAIN stream : stream[j].at <= t + PingPeriod + 1
    <3>1. SUFFICES ASSUME NEW j \in DOMAIN stream
                   PROVE  stream[j].at <= t + PingPeriod + 1
      OBVIOUS
    <3>2. stream[j].at <= id + PingPeriod + 1 /\ stream[j].at \in Nat
      BY <2>2, StreamIs DEF Answering, KInv
    <3> QED
      BY <2>1, <2>5, <3>2
  <2>7. \A i \in DOMAIN stream' : stream'[i].at <= id' + PingPeriod + 1
    BY <2>2, <2>3, <2>6
  <2> QED
    BY <2>2, <2>3, <2>4, <2>7 DEF Answering
<1>3. ASSUME NEW gap \in Gaps, now + gap <= LastSecond, Rest(now + gap)
      PROVE  Answering'
  <2> DEFINE t == now + gap
  <2>1. /\ t \in 0..LastSecond /\ now < t /\ t \in Nat /\ now \in Int /\ id \in Int
        /\ lastPong \in Int /\ PingPeriod \in Nat
    BY <1>3, TickIsLater, KeepAliveAssumption DEF KInv, TypeOK, LongAgo
  <2>2. /\ prompt /\ open' = open /\ id' = id /\ stream' = Unread(t) /\ Read(t)
        /\ ~(t - id > PingPeriod)
    BY <1>3 DEF Rest, PingDue, KInv, Clock
  <2> HIDE DEF t
  <2>3. id # LongAgo /\ 0 <= id /\ id <= now
    <3>1. id # LongAgo
      BY <2>1, <2>2 DEF LongAgo
    <3> QED
      BY <3>1 DEF KInv, Clock
  <2>4. \/ Ponged(t) /\ lastPong' = t
        \/ ~Ponged(t) /\ lastPong' = lastPong
    BY <2>1, <2>2, ReadKeeps DEF KInv
  <2>5. PICK k \in 0..Len(stream) :
           /\ Readable(t) = 1..k
           /\ Unread(t) \in Seq([id : 0..LastSecond, at : Nat])
           /\ Len(Unread(t)) = Len(stream) - k
           /\ \A i \in 1..Len(stream) - k : Unread(t)[i] = stream[i + k]
    BY <2>1, UnreadIsRest DEF KInv
  <2>6. DOMAIN stream = 1..Len(stream) /\ Len(stream) \in Nat
    BY StreamIs DEF KInv
  <2>7. DOMAIN stream' = 1..Len(stream) - k
    BY <2>2, <2>5
  <2>8. \A i \in DOMAIN stream' : stream'[i].at <= id' + PingPeriod + 1
    <3>1. SUFFICES ASSUME NEW i \in DOMAIN stream'
                   PROVE  stream'[i].at <= id' + PingPeriod + 1
      OBVIOUS
    <3>2. i \in 1..Len(stream) - k
      BY <2>7
    <3>3. stream'[i] = stream[i + k]
      BY <2>2, <2>5, <3>2
    <3>4. i + k \in DOMAIN stream
      BY <2>6, <3>2
    <3> QED
      BY <2>2, <3>3, <3>4 DEF Answering
  <2>9. \/ /\ \E i \in DOMAIN stream' : stream'[i].id = id'
           /\ id' + PingPeriod - lastPong' <= PongLimit
        \/ id' # LongAgo /\ id' < lastPong'
    <3>1. CASE Ponged(t)
      BY <2>1, <2>2, <2>3, <2>4, <3>1
    <3>2. CASE ~Ponged(t)
      <4>1. lastPong' = lastPong
        BY <2>4, <3>2
      <4>2. CASE id < lastPong
        BY <2>2, <2>3, <4>1, <4>2
      <4>3. CASE /\ \E i \in DOMAIN stream : stream[i].id = id
                 /\ id + PingPeriod - lastPong <= PongLimit
        <5>1. PICK i \in DOMAIN stream : stream[i].id = id
          BY <4>3
        <5>2. i \notin 1..k
          BY <2>5, <3>2, <5>1 DEF Ponged, Matches
        <5>3. i - k \in 1..Len(stream) - k /\ i = (i - k) + k
          BY <2>5, <2>6, <5>2
        <5>4. i - k \in DOMAIN stream' /\ stream'[i - k] = stream[i]
          BY <2>2, <2>5, <2>7, <5>3
        <5> QED
          BY <2>2, <4>1, <4>3, <5>1, <5>4
      <4> QED
        BY <2>2, <2>3, <4>2, <4>3 DEF Answering
    <3> QED
      BY <3>1, <3>2
  <2>10. open'
    BY <2>2 DEF Answering
  <2> QED
    BY <2>8, <2>9, <2>10 DEF Answering, LongAgo
<1>4. CASE UNCHANGED vars
  BY <1>4 DEF vars, Answering, LongAgo
<1>5. CASE Next
  BY <1>1, <1>2, <1>3, <1>5 DEF Next, Answering, LongAgo
<1> QED
  BY <1>4, <1>5 DEF Answering, LongAgo

\* A client that answers every ping before the next one falls due is never closed
\* (server.c:432-437), however its delays vary, as long as no stall of the ticks takes
\* longer than the limit and a second less two periods.
THEOREM AnsweringClientStays ==
  ASSUME ShortGaps
  PROVE  Spec => []AnsweringStays
<1>1. Init => Answering
  BY AnsweringInit
<1>2. KInv /\ Answering /\ [Next]_vars => Answering'
  BY AnsweringNext
<1>3. Answering => AnsweringStays
  BY DEF Answering, AnsweringStays
<1> QED
  BY <1>1, <1>2, <1>3, KeepAliveInvariant, PTL DEF Spec

-----------------------------------------------------------------------------
(***************************************************************************)
(* A client that is silent is closed.                                      *)
(***************************************************************************)

\* Every step.
LEMMA RecentNext ==
  ASSUME HasLongest, KInv, Recent, [Next]_vars
  PROVE  Recent'
<1> DEFINE W == PingPeriod + Longest
<1>1. Longest \in Gaps /\ \A g \in Gaps : g <= Longest
  BY DEF HasLongest, Longest
<1>2. Longest \in Nat /\ PingPeriod \in Nat /\ W \in Nat /\ PongLimit \in Nat
  BY <1>1, KeepAliveAssumption
<1>3. ASSUME NEW gap \in Gaps, now + gap <= LastSecond, open, Read(now + gap)
      PROVE  lastPong' - acked' <= W /\ now' = now + gap
  <2> DEFINE t == now + gap
  <2>1. /\ t \in 0..LastSecond /\ now < t /\ gap \in Nat
        /\ now \in Nat /\ id \in Int /\ lastPong \in Int /\ acked \in Int
    BY <1>3, TickIsLater, KeepAliveAssumption DEF KInv, TypeOK, LongAgo
  <2>2. /\ now' = t
        /\ \/ lastPong' = t /\ acked' = id /\ id # LongAgo
           \/ lastPong' = lastPong /\ acked' = acked
    BY <1>3, <2>1, ReadKeeps DEF KInv
  <2>3. CASE lastPong' = t /\ acked' = id /\ id # LongAgo
    <3>1. 0 <= id /\ id <= now /\ (now - id <= PingPeriod \/ now = 0)
      BY <1>3, <2>3 DEF KInv, Clock
    <3>2. now - id <= PingPeriod
      BY <1>2, <2>1, <3>1
    <3>3. gap <= Longest
      BY <1>1
    <3>4. t - id <= W
      BY <1>2, <2>1, <3>2, <3>3
    <3> QED
      BY <2>2, <2>3, <3>4
  <2>4. CASE lastPong' = lastPong /\ acked' = acked
    BY <2>2, <2>4 DEF Recent
  <2> QED
    BY <2>2, <2>3, <2>4
<1>4. ASSUME NEW gap \in Gaps, now + gap <= LastSecond,
             Close(now + gap) \/ Ping(now + gap) \/ Rest(now + gap)
      PROVE  Recent'
  <2> DEFINE t == now + gap
  <2>1. open /\ Read(t)
    BY <1>4 DEF Close, Ping, Rest
  <2>2. lastPong' - acked' <= W /\ now' = t /\ lastPong' = PongAfter(t)
    BY <1>3, <1>4, <2>1 DEF Read
  <2>3. open' => ~TimedOut(t)
    BY <1>4 DEF Close, Ping, Rest
  <2>4. t \in Nat /\ PongAfter(t) \in Int
    BY <1>4, TickIsLater, KeepAliveAssumption DEF KInv, TypeOK, PongAfter
  <2>5. open' => now' - lastPong' <= PongLimit
    <3> HIDE DEF t
    <3>1. SUFFICES ASSUME open' PROVE now' - lastPong' <= PongLimit
      OBVIOUS
    <3>2. ~(t - PongAfter(t) > PongLimit)
      BY <2>3, <3>1 DEF TimedOut
    <3>3. t - PongAfter(t) <= PongLimit
      BY <1>2, <2>4, <3>2
    <3> QED
      BY <2>2, <3>3
  <2> QED
    BY <2>2, <2>5 DEF Recent, Longest
<1>5. CASE UNCHANGED vars
  BY <1>5 DEF vars, Recent, Longest
<1> QED
  BY <1>4, <1>5 DEF Next

\* A client that went silent is closed (server.c:432-437), even while answers to older
\* pings are still arriving: the last ping it answered in time was sent at most the limit,
\* one ping period and one gap ago.
THEOREM SilentClientIsClosed ==
  ASSUME HasLongest
  PROVE  Spec => []SilentIsClosed
<1> DEFINE W == PingPeriod + Longest
<1>1. Longest \in Nat /\ PingPeriod \in Nat /\ PongLimit \in Nat
  BY KeepAliveAssumption DEF HasLongest, Longest
<1>2. Init => Recent
  BY <1>1 DEF Init, Recent
<1>3. KInv /\ Recent /\ [Next]_vars => Recent'
  BY RecentNext
<1>4. KInv /\ Recent => SilentIsClosed
  <2> SUFFICES ASSUME KInv, Recent, open
               PROVE  now - acked <= PongLimit + PingPeriod + Longest
    BY DEF SilentIsClosed
  <2>1. now \in Int /\ acked \in Int /\ lastPong \in Int
    BY KeepAliveAssumption DEF KInv, TypeOK
  <2>2. lastPong - acked <= PingPeriod + Longest /\ now - lastPong <= PongLimit
    BY DEF Recent
  <2> QED
    BY <1>1, <2>1, <2>2
<1> QED
  BY <1>2, <1>3, <1>4, KeepAliveInvariant, PTL DEF Spec
=============================================================================
