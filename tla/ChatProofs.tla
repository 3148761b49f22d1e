------------------------------ MODULE ChatProofs ------------------------------
(***************************************************************************)
(* What holds of the chat for every set of connections, any number of      *)
(* messages and any number of failing writes.                              *)
(***************************************************************************)
EXTENDS Chat, FiniteSetTheorems, TLAPS

\* How many of d's messages have left its queue, written or not.
Gone(d) == said[d] - Len(queue[d])

\* The list has every connection once, and a connection that has not joined has said
\* and heard nothing.
ListedOnce ==
  /\ \A i, j \in DOMAIN list : list[i] = list[j] => i = j
  /\ \A c \in fresh : c \notin Present /\ said[c] = 0 /\ heard[c] = <<>>

\* A queue holds the last messages of a connection on the list, in the order they
\* were said.
QueuedInOrder ==
  \A c \in Conn :
    /\ 0 <= Gone(c) /\ said[c] <= spoken
    /\ \A i \in DOMAIN queue[c] : queue[c][i] = [from |-> c, n |-> Gone(c) + i]
    /\ queue[c] # <<>> => c \in Present

\* Nobody has heard what is still queued.
HeardIsGone ==
  \A c \in Conn : \A i \in DOMAIN heard[c] : heard[c][i].n <= Gone(heard[c][i].from)

\* Where the messages may be that no failed write has kept back, and that nothing said
\* before a connection joined is left for it to hear.
Draining ==
  failures = 0 =>
    /\ phase = "send" => \A i \in 1..turn - 1 : queue[list[i]] = <<>>
    /\ \A c \in Present, d \in Conn : before[c][d] <= Gone(d)

\* What a client missed can be counted.
MissedFinite == \A c \in Present : IsFiniteSet(Missed(c))

\* The inductive invariant.
IInv ==
  /\ TypeOK /\ ListedOnce /\ QueuedInOrder /\ HeardIsGone /\ HeardInOrder
  /\ Draining /\ TickDrains /\ MissedFinite /\ OneLostPerFailure

-----------------------------------------------------------------------------
(* Sequences. *)

\* Where the elements of an extended sequence are.
LEMMA Appended ==
  ASSUME NEW S, NEW s \in Seq(S), NEW x \in S
  PROVE  /\ Append(s, x) \in Seq(S) /\ Len(s) \in Nat
         /\ DOMAIN s = 1..Len(s) /\ DOMAIN Append(s, x) = 1..(Len(s) + 1)
         /\ \A i \in 1..Len(s) : Append(s, x)[i] = s[i]
         /\ Append(s, x)[Len(s) + 1] = x
         /\ ToSet(Append(s, x)) = ToSet(s) \cup {x}
<1> DEFINE t == Append(s, x)
<1>1. /\ t \in Seq(S) /\ Len(s) \in Nat
      /\ DOMAIN s = 1..Len(s) /\ DOMAIN t = 1..(Len(s) + 1)
      /\ \A i \in 1..Len(s) : t[i] = s[i]
      /\ t[Len(s) + 1] = x
  OBVIOUS
<1> HIDE DEF t
<1>2. ToSet(t) = ToSet(s) \cup {x}
  <2>1. ASSUME NEW y \in ToSet(t)
        PROVE  y \in ToSet(s) \cup {x}
    <3>1. PICK i \in 1..(Len(s) + 1) : y = t[i]
      BY <1>1, <2>1 DEF ToSet
    <3>2. i \in 1..Len(s) \/ i = Len(s) + 1
      BY <1>1, <3>1
    <3> QED
      BY <1>1, <3>1, <3>2 DEF ToSet
  <2>2. ASSUME NEW y \in ToSet(s)
        PROVE  y \in ToSet(t)
    <3>1. PICK i \in 1..Len(s) : y = s[i]
      BY <1>1, <2>2 DEF ToSet
    <3>2. i \in 1..(Len(s) + 1) /\ t[i] = y
      BY <1>1, <3>1
    <3> QED
      BY <1>1, <3>2 DEF ToSet
  <2>3. x \in ToSet(t)
    <3>1. Len(s) + 1 \in 1..(Len(s) + 1)
      BY <1>1
    <3> QED
      BY <1>1, <3>1 DEF ToSet
  <2> QED
    BY <2>1, <2>2, <2>3
<1> QED
  BY <1>1, <1>2 DEF t

\* What is left of a sequence without repetitions when one element is removed.
LEMMA Removed ==
  ASSUME NEW S, NEW s \in Seq(S), NEW k \in 1..Len(s),
         \A i, j \in DOMAIN s : s[i] = s[j] => i = j
  PROVE  /\ RemoveAt(s, k) \in Seq(S) /\ Len(RemoveAt(s, k)) = Len(s) - 1
         /\ ToSet(RemoveAt(s, k)) = ToSet(s) \ {s[k]}
         /\ \A i, j \in DOMAIN RemoveAt(s, k) : RemoveAt(s, k)[i] = RemoveAt(s, k)[j] => i = j
<1> DEFINE a == SubSeq(s, 1, k - 1)
           z == SubSeq(s, k + 1, Len(s))
           t == RemoveAt(s, k)
           n == Len(s)
           old(i) == IF i < k THEN i ELSE i + 1
<1>1. n \in Nat /\ DOMAIN s = 1..n /\ k \in 1..n
  OBVIOUS
<1>2. /\ a \in Seq(S) /\ Len(a) = k - 1 /\ \A i \in 1..k - 1 : a[i] = s[i]
      /\ z \in Seq(S) /\ Len(z) = n - k /\ \A i \in 1..n - k : z[i] = s[k + i]
  OBVIOUS
<1>3. t = a \o z
  BY DEF RemoveAt
<1>4. /\ t \in Seq(S) /\ Len(t) = n - 1 /\ DOMAIN t = 1..n - 1
      /\ \A i \in 1..n - 1 : t[i] = IF i <= k - 1 THEN a[i] ELSE z[i - (k - 1)]
  <2> HIDE DEF a, z, t, n
  <2>1. /\ t \in Seq(S) /\ Len(t) = Len(a) + Len(z) /\ DOMAIN t = 1..(Len(a) + Len(z))
        /\ \A i \in 1..(Len(a) + Len(z)) :
             t[i] = IF i <= Len(a) THEN a[i] ELSE z[i - Len(a)]
    BY <1>2, <1>3
  <2>2. Len(a) + Len(z) = n - 1
    BY <1>1, <1>2
  <2> QED
    BY <1>2, <2>1, <2>2
<1> HIDE DEF a, z, t, n
<1>5. \A i \in 1..n - 1 : old(i) \in 1..n /\ old(i) # k /\ t[i] = s[old(i)]
  <2> TAKE i \in 1..n - 1
  <2>1. CASE i < k
    <3>1. i \in 1..k - 1 /\ i <= k - 1 /\ old(i) = i /\ i \in 1..n /\ i # k
      BY <1>1, <2>1
    <3>2. t[i] = a[i]
      BY <1>4, <3>1
    <3>3. t[i] = s[i]
      BY <1>2, <3>1, <3>2
    <3> QED
      BY <3>1, <3>3
  <2>2. CASE ~(i < k)
    <3>1. i - (k - 1) \in 1..n - k /\ k + (i - (k - 1)) = i + 1 /\ ~(i <= k - 1)
      BY <1>1, <2>2
    <3>2. t[i] = s[k + (i - (k - 1))]
      BY <1>2, <1>4, <3>1
    <3> QED
      BY <1>1, <2>2, <3>1, <3>2
  <2> QED
    BY <2>1, <2>2
<1>6. \A j \in 1..n : j # k => \E i \in 1..n - 1 : old(i) = j
  <2> SUFFICES ASSUME NEW j \in 1..n, j # k
               PROVE  \E i \in 1..n - 1 : old(i) = j
    OBVIOUS
  <2>1. CASE j < k
    <3>1. j \in 1..n - 1 /\ old(j) = j
      BY <1>1, <2>1
    <3> QED
      BY <3>1
  <2>2. CASE ~(j < k)
    <3>1. j - 1 \in 1..n - 1 /\ old(j - 1) = j
      BY <1>1, <2>2
    <3> QED
      BY <3>1
  <2> QED
    BY <2>1, <2>2
<1>7. \A i, j \in 1..n - 1 : old(i) = old(j) => i = j
  BY <1>1
<1> HIDE DEF old
<1>8. ToSet(t) = ToSet(s) \ {s[k]}
  <2>1. ASSUME NEW y \in ToSet(t)
        PROVE  y \in ToSet(s) \ {s[k]}
    <3>1. PICK i \in 1..n - 1 : y = t[i]
      BY <1>4, <2>1 DEF ToSet
    <3>2. y = s[old(i)] /\ old(i) \in DOMAIN s /\ old(i) # k /\ k \in DOMAIN s
      BY <1>1, <1>5, <3>1
    <3> QED
      BY <3>2 DEF ToSet
  <2>2. ASSUME NEW y \in ToSet(s), y # s[k]
        PROVE  y \in ToSet(t)
    <3>1. PICK j \in 1..n : y = s[j]
      BY <1>1, <2>2 DEF ToSet
    <3>2. PICK i \in 1..n - 1 : old(i) = j
      BY <1>6, <2>2, <3>1
    <3>3. y = t[i]
      BY <1>5, <3>1, <3>2
    <3> QED
      BY <1>4, <3>3 DEF ToSet
  <2> QED
    BY <2>1, <2>2
<1>9. \A i, j \in DOMAIN t : t[i] = t[j] => i = j
  <2> SUFFICES ASSUME NEW i \in 1..n - 1, NEW j \in 1..n - 1, t[i] = t[j]
               PROVE  i = j
    BY <1>4
  <2>1. old(i) = old(j)
    BY <1>1, <1>5
  <2> QED
    BY <1>7, <2>1
<1> QED
  BY <1>4, <1>8, <1>9 DEF t, n

-----------------------------------------------------------------------------
(* Queues and what is missed. *)

\* A message is in a queue if its number is one of those after the first g.
LEMMA InQueue ==
  ASSUME NEW d \in Conn, NEW g \in Nat, NEW q \in Seq(Message),
         \A i \in DOMAIN q : q[i] = [from |-> d, n |-> g + i],
         NEW m \in Message, m.from = d
  PROVE  m \in ToSet(q) <=> g < m.n /\ m.n <= g + Len(q)
<1>1. /\ Len(q) \in Nat /\ DOMAIN q = 1..Len(q)
      /\ m.n \in Nat /\ m = [from |-> m.from, n |-> m.n]
  BY ChatAssumption DEF Message
<1>2. ASSUME m \in ToSet(q)
      PROVE  g < m.n /\ m.n <= g + Len(q)
  <2>1. PICK i \in 1..Len(q) : m = q[i]
    BY <1>1, <1>2 DEF ToSet
  <2>2. m.n = g + i
    BY <1>1, <2>1
  <2> QED
    BY <1>1, <2>2
<1>3. ASSUME g < m.n, m.n <= g + Len(q)
      PROVE  m \in ToSet(q)
  <2>1. m.n - g \in 1..Len(q) /\ g + (m.n - g) = m.n
    BY <1>1, <1>3
  <2>2. q[m.n - g] = m
    BY <1>1, <2>1
  <2> QED
    BY <1>1, <2>1, <2>2 DEF ToSet
<1> QED
  BY <1>2, <1>3

\* The numbers of a queue.
LEMMA QueueNumbers ==
  TypeOK /\ QueuedInOrder =>
    \A d \in Conn :
      /\ Len(queue[d]) \in Nat /\ DOMAIN queue[d] = 1..Len(queue[d])
      /\ said[d] \in Nat /\ Gone(d) \in Nat /\ Gone(d) + Len(queue[d]) = said[d]
<1> SUFFICES ASSUME TypeOK, QueuedInOrder, NEW d \in Conn
             PROVE  /\ Len(queue[d]) \in Nat /\ DOMAIN queue[d] = 1..Len(queue[d])
                    /\ said[d] \in Nat /\ Gone(d) \in Nat
                    /\ Gone(d) + Len(queue[d]) = said[d]
  OBVIOUS
<1>1. queue[d] \in Seq(Message) /\ said[d] \in 0..MaxSaid
  BY DEF TypeOK
<1>2. Len(queue[d]) \in Nat /\ DOMAIN queue[d] = 1..Len(queue[d]) /\ said[d] \in Nat
  BY <1>1, ChatAssumption
<1>3. 0 <= Gone(d)
  BY DEF QueuedInOrder
<1> QED
  BY <1>2, <1>3 DEF Gone

\* A client missed what has left the queue of a present sender without its hearing it.
MissedBy(c, m) ==
  /\ m.from \in Present
  /\ before[c][m.from] < m.n /\ m.n <= Gone(m.from)
  /\ m \notin ToSet(heard[c])

\* The messages Missed speaks of are those, for every client.
LEMMA MissedIs ==
  TypeOK /\ QueuedInOrder =>
    \A c \in Conn : Missed(c) = {m \in Message : MissedBy(c, m)}
<1> SUFFICES ASSUME TypeOK, QueuedInOrder, NEW c \in Conn, NEW m \in Message
             PROVE  m \in Missed(c) <=> MissedBy(c, m)
  BY DEF Missed
<1> DEFINE d == m.from
<1>1. d \in Conn /\ m.n \in Nat
  BY ChatAssumption DEF Message
<1>2. /\ Len(queue[d]) \in Nat /\ said[d] \in Nat /\ Gone(d) \in Nat
      /\ Gone(d) + Len(queue[d]) = said[d]
  BY <1>1, QueueNumbers
<1>3. /\ queue[d] \in Seq(Message)
      /\ \A i \in DOMAIN queue[d] : queue[d][i] = [from |-> d, n |-> Gone(d) + i]
  BY <1>1 DEF TypeOK, QueuedInOrder
<1> HIDE DEF d
<1>4. m \in ToSet(queue[d]) <=> Gone(d) < m.n /\ m.n <= Gone(d) + Len(queue[d])
  BY <1>1, <1>2, <1>3, InQueue DEF d
<1>5. before[c][d] \in Nat
  BY <1>1, ChatAssumption DEF TypeOK
<1>6. (m.n <= said[d] /\ m \notin ToSet(queue[d])) <=> m.n <= Gone(d)
  BY <1>1, <1>2, <1>4
<1>7. m.n > before[c][d] <=> before[c][d] < m.n
  BY <1>1, <1>5
<1> QED
  BY <1>6, <1>7 DEF Missed, MissedBy, d

\* The same of the next state.
LEMMA NextQueues ==
  (TypeOK /\ QueuedInOrder)' =>
    (/\ \A d \in Conn :
          /\ Len(queue[d]) \in Nat /\ DOMAIN queue[d] = 1..Len(queue[d])
          /\ said[d] \in Nat /\ Gone(d) \in Nat /\ Gone(d) + Len(queue[d]) = said[d]
     /\ \A c \in Conn : Missed(c) = {m \in Message : MissedBy(c, m)})'
  BY QueueNumbers, MissedIs, PTL

-----------------------------------------------------------------------------
(* Steps that only move on. *)

\* The list holds connections.
LEMMA PresentConn == TypeOK => Present \subseteq Conn
<1> SUFFICES ASSUME TypeOK, NEW c \in Present PROVE c \in Conn
  OBVIOUS
<1>1. PICK i \in DOMAIN list : c = list[i]
  BY DEF Present, ToSet
<1> QED
  BY <1>1 DEF TypeOK

\* A step that changes neither the list nor what is queued, heard and said.
LEMMA MovingKeeps ==
  ASSUME IInv, UNCHANGED <<list, clientVars, queue, heard, failures>>,
         phase' \in {"accept", "serve", "send"}, turn' \in 1..Len(list) + 1,
         failures = 0 => /\ phase' = "accept" => \A c \in Conn : queue[c] = <<>>
                         /\ phase' = "send" => \A i \in 1..turn' - 1 : queue[list[i]] = <<>>
  PROVE  IInv'
<1>1. /\ UNCHANGED <<list, fresh, said, spoken, before, queue, heard, failures>>
      /\ Present' = Present
  BY DEF clientVars, Present
<1>2. (TypeOK /\ ListedOnce)'
  BY <1>1 DEF IInv, TypeOK, ListedOnce
<1>3. (QueuedInOrder /\ HeardIsGone /\ HeardInOrder)'
  BY <1>1 DEF IInv, QueuedInOrder, HeardIsGone, Gone, HeardInOrder, SendersInOrder,
              SameOrder, Before
<1>4. (Draining /\ TickDrains)'
  BY <1>1 DEF IInv, Draining, TickDrains, Gone
<1>5. \A c \in Conn : Missed(c)' = Missed(c)
  BY <1>1 DEF Missed
<1>6. (MissedFinite /\ OneLostPerFailure)'
  <2>1. Present \subseteq Conn
    BY PresentConn DEF IInv
  <2> QED
    BY <1>1, <1>5, <2>1 DEF IInv, MissedFinite, OneLostPerFailure
<1> QED
  BY <1>2, <1>3, <1>4, <1>6 DEF IInv

\* Nobody comes: the tick goes on to serve.
LEMMA AcceptNobodyKeeps == IInv /\ AcceptNobody => IInv'
<1> SUFFICES ASSUME IInv, AcceptNobody PROVE IInv'
  OBVIOUS
<1>1. phase' = "serve" /\ turn' = 1 /\ 1 \in 1..Len(list) + 1
  BY DEF AcceptNobody, Enter, IInv, TypeOK
<1> QED
  BY <1>1, MovingKeeps DEF AcceptNobody

\* A connection is served and the next is looked at.
LEMMA ServedKeeps == ASSUME IInv, NEW c \in Conn, Served(c) PROVE IInv'
<1>1. phase' = "serve" /\ turn' \in 1..Len(list) + 1
  BY DEF Served, Serving, IInv, TypeOK
<1> QED
  BY <1>1, MovingKeeps DEF Served

\* All are served: the queues are sent from the first.
LEMMA AllServedKeeps == IInv /\ AllServed => IInv'
<1> SUFFICES ASSUME IInv, AllServed PROVE IInv'
  OBVIOUS
<1>1. phase' = "send" /\ turn' = 1 /\ 1 \in 1..Len(list) + 1 /\ 1..turn' - 1 = {}
  BY DEF AllServed, Enter, IInv, TypeOK
<1> QED
  BY <1>1, MovingKeeps DEF AllServed

\* A queue is found empty, as those before it.
LEMMA QueueSentKeeps == ASSUME IInv, NEW c \in Conn, QueueSent(c) PROVE IInv'
<1>1. /\ phase = "send" /\ phase' = "send" /\ turn' = turn + 1
      /\ turn \in 1..Len(list) /\ queue[list[turn]] = <<>>
  BY DEF QueueSent, Sending, IInv, TypeOK
<1>2. turn' \in 1..Len(list) + 1 /\ \A i \in 1..turn' - 1 : i \in 1..turn - 1 \/ i = turn
  BY <1>1 DEF IInv, TypeOK
<1>3. failures = 0 => \A i \in 1..turn' - 1 : queue[list[i]] = <<>>
  BY <1>1, <1>2 DEF IInv, Draining
<1> QED
  BY <1>1, <1>2, <1>3, MovingKeeps DEF QueueSent

\* The last queue is sent: with no failure nothing is left in any.
LEMMA AllSentKeeps == IInv /\ AllSent => IInv'
<1> SUFFICES ASSUME IInv, AllSent PROVE IInv'
  OBVIOUS
<1>1. /\ phase = "send" /\ phase' = "accept" /\ turn' = 1 /\ turn > Len(list)
      /\ turn \in 1..Len(list) + 1 /\ Len(list) \in Nat /\ DOMAIN list = 1..Len(list)
  BY DEF AllSent, Enter, IInv, TypeOK
<1>2. ASSUME failures = 0, NEW c \in Conn, queue[c] # <<>>
      PROVE  FALSE
  <2>1. PICK i \in DOMAIN list : list[i] = c
    BY <1>2 DEF IInv, QueuedInOrder, Present, ToSet
  <2>2. i \in 1..turn - 1
    BY <1>1, <2>1
  <2> QED
    BY <1>1, <1>2, <2>1, <2>2 DEF IInv, Draining
<1>3. turn' \in 1..Len(list) + 1
  BY <1>1
<1> QED
  BY <1>1, <1>2, <1>3, MovingKeeps DEF AllSent

-----------------------------------------------------------------------------
(* Joining, speaking, leaving. *)

\* Fewer messages missed are no more than before.
LEMMA Fewer ==
  ASSUME NEW S, IsFiniteSet(S), NEW T, T \subseteq S, NEW k \in Nat, Cardinality(S) <= k
  PROVE  IsFiniteSet(T) /\ Cardinality(T) <= k
<1>1. /\ IsFiniteSet(T) /\ Cardinality(T) <= Cardinality(S)
      /\ Cardinality(S) \in Nat /\ Cardinality(T) \in Nat
  BY FS_Subset, FS_CardinalityType
<1> QED
  BY <1>1

\* What nobody hears more of stays in order.
LEMMA SameHeard == HeardInOrder /\ UNCHANGED heard => HeardInOrder'
  BY DEF HeardInOrder, SendersInOrder, SameOrder, Before

\* Who joins has missed nothing yet, and with no failure nothing is queued that was
\* said before.
LEMMA JoinKeeps == ASSUME IInv, NEW c \in Conn, Join(c) PROVE IInv'
<1>1. /\ phase = "accept" /\ c \in fresh /\ phase' = "serve" /\ turn' = 1
      /\ list' = Append(list, c) /\ fresh' = fresh \ {c}
      /\ before' = [before EXCEPT ![c] = said]
      /\ UNCHANGED <<said, spoken, queue, heard, failures>>
  BY DEF Join, Enter
<1>2. /\ TypeOK /\ ListedOnce /\ QueuedInOrder
      /\ c \notin Present /\ said[c] = 0 /\ heard[c] = <<>>
  BY <1>1 DEF IInv, ListedOnce
<1>3. /\ list' \in Seq(Conn) /\ Len(list) \in Nat
      /\ DOMAIN list = 1..Len(list) /\ DOMAIN list' = 1..(Len(list) + 1)
      /\ \A i \in 1..Len(list) : list'[i] = list[i]
      /\ list'[Len(list) + 1] = c
      /\ Present' = Present \cup {c}
  BY <1>1, <1>2, Appended DEF TypeOK, Present
<1>4. TypeOK'
  <2>1. turn' \in 1..Len(list') + 1
    BY <1>1, <1>3
  <2> QED
    BY <1>1, <1>2, <1>3, <2>1 DEF TypeOK
<1>5. ListedOnce'
  <2>1. ASSUME NEW i \in DOMAIN list', NEW j \in DOMAIN list', list'[i] = list'[j]
        PROVE  i = j
    <3>1. \A h \in 1..Len(list) : list[h] # c
      BY <1>2, <1>3 DEF Present, ToSet
    <3>2. /\ i \in 1..Len(list) \/ i = Len(list) + 1
          /\ j \in 1..Len(list) \/ j = Len(list) + 1
      BY <1>3, <2>1
    <3> QED
      BY <1>2, <1>3, <2>1, <3>1, <3>2 DEF ListedOnce
  <2>2. \A x \in fresh' : x \notin Present' /\ said'[x] = 0 /\ heard'[x] = <<>>
    BY <1>1, <1>2, <1>3 DEF ListedOnce
  <2> QED
    BY <2>1, <2>2 DEF ListedOnce
<1>6. (QueuedInOrder /\ HeardIsGone /\ HeardInOrder)' /\ \A d : Gone(d)' = Gone(d)
  <2>1. \A d : Gone(d)' = Gone(d)
    BY <1>1 DEF Gone
  <2>2. QueuedInOrder'
    BY <1>1, <1>2, <1>3, <2>1 DEF QueuedInOrder
  <2>3. HeardIsGone'
    BY <1>1, <2>1 DEF IInv, HeardIsGone
  <2>4. HeardInOrder'
    BY <1>1, SameHeard DEF IInv
  <2> QED
    BY <2>1, <2>2, <2>3, <2>4
<1>7. \A x \in Conn : before'[x] = IF x = c THEN said ELSE before[x]
  BY <1>1, <1>2 DEF TypeOK
<1>8. (Draining /\ TickDrains)'
  <2> SUFFICES ASSUME failures = 0
               PROVE  /\ \A x \in Present', d \in Conn : before'[x][d] <= Gone(d)
                      /\ \A x \in Conn : \A m \in ToSet(heard[x]) : m.n > before'[x][m.from]
    BY <1>1, <1>6 DEF Draining, TickDrains
  <2>1. ASSUME NEW x \in Present', NEW d \in Conn
        PROVE  before'[x][d] <= Gone(d)
    <3>1. CASE x = c
      <4>1. queue[d] = <<>>
        BY <1>1 DEF IInv, TickDrains
      <4>2. Gone(d) = said[d] /\ said[d] \in Nat
        BY <1>2, <4>1, QueueNumbers
      <4> QED
        <5>1. before'[x] = said
          BY <1>7, <3>1
        <5>2. before'[x][d] = said[d]
          BY <5>1
        <5> QED
          BY <4>2, <5>2
    <3>2. CASE x # c
      <4>1. x \in Present /\ x \in Conn
        BY <1>2, <1>3, <3>2, PresentConn
      <4> QED
        BY <1>7, <3>2, <4>1 DEF IInv, Draining
    <3> QED
      BY <3>1, <3>2
  <2>2. ASSUME NEW x \in Conn, NEW m \in ToSet(heard[x])
        PROVE  m.n > before'[x][m.from]
    <3>1. x # c
      BY <1>2, <2>2 DEF ToSet
    <3> QED
      BY <1>7, <2>2, <3>1 DEF IInv, TickDrains
  <2> QED
    BY <2>1, <2>2
<1>9. ASSUME NEW x \in Present'
      PROVE  IsFiniteSet(Missed(x)') /\ Cardinality(Missed(x)') <= failures'
  <2>1. x \in Conn /\ failures \in Nat
    <3>1. x \in Conn
      BY <1>2, <1>3, PresentConn
    <3>2. failures \in Nat
      BY <1>2, ChatAssumption DEF TypeOK
    <3> QED
      BY <3>1, <3>2
  <2>2. Missed(x)' = {m \in Message : MissedBy(x, m)'}
    BY <1>4, <1>6, <2>1, NextQueues
  <2>3. CASE x = c
    <3>1. \A m \in Message : ~MissedBy(x, m)'
      <4> SUFFICES ASSUME NEW m \in Message, MissedBy(x, m)'
                   PROVE  FALSE
        OBVIOUS
      <4>1. m.from \in Conn /\ m.n \in Nat
        BY ChatAssumption DEF Message
      <4>2. said[m.from] < m.n /\ m.n <= Gone(m.from)
        BY <1>6, <1>7, <2>1, <2>3, <4>1 DEF MissedBy
      <4>3. said[m.from] \in Nat /\ Gone(m.from) <= said[m.from] /\ Gone(m.from) \in Nat
        BY <1>2, <4>1, QueueNumbers
      <4> QED
        BY <4>1, <4>2, <4>3
    <3>2. Missed(x)' = {}
      BY <2>2, <3>1
    <3> QED
      BY <1>1, <2>1, <3>2, FS_EmptySet
  <2>4. CASE x # c
    <3>1. x \in Present
      BY <1>3, <2>4
    <3>2. \A m \in Message : MissedBy(x, m)' => MissedBy(x, m)
      <4> SUFFICES ASSUME NEW m \in Message, MissedBy(x, m)'
                   PROVE  MissedBy(x, m)
        OBVIOUS
      <4>1. m.from \in Conn /\ m.n \in Nat /\ m.n >= 1
        BY ChatAssumption DEF Message
      <4>2. m.from # c
        <5>1. Gone(c) \in Nat /\ Len(queue[c]) \in Nat /\ Gone(c) + Len(queue[c]) = 0
          BY <1>2, QueueNumbers
        <5>2. m.n <= Gone(m.from)
          BY <1>6, <4>1 DEF MissedBy
        <5> QED
          BY <4>1, <5>1, <5>2
      <4> QED
        BY <1>1, <1>3, <1>6, <1>7, <2>1, <2>4, <4>1, <4>2 DEF MissedBy
    <3>3. Missed(x)' \subseteq Missed(x)
      BY <1>2, <2>1, <2>2, <3>2, MissedIs
    <3>4. IsFiniteSet(Missed(x)) /\ Cardinality(Missed(x)) <= failures
      BY <3>1 DEF IInv, MissedFinite, OneLostPerFailure
    <3> QED
      BY <1>1, <2>1, <3>3, <3>4, Fewer
  <2> QED
    BY <2>3, <2>4
<1> QED
  BY <1>4, <1>5, <1>6, <1>8, <1>9 DEF IInv, MissedFinite, OneLostPerFailure

\* If every client misses no more than before, what is missed stays bounded.
LEMMA MissedNoMore ==
  ASSUME IInv, TypeOK', QueuedInOrder', failures' = failures, Present' \subseteq Present,
         \A x \in Present', m \in Message : MissedBy(x, m)' => MissedBy(x, m)
  PROVE  (MissedFinite /\ OneLostPerFailure)'
<1>1. failures \in Nat
  BY ChatAssumption DEF IInv, TypeOK
<1>2. ASSUME NEW x \in Present'
      PROVE  IsFiniteSet(Missed(x)') /\ Cardinality(Missed(x)') <= failures'
  <2>1. x \in Present /\ x \in Conn
    BY PresentConn DEF IInv
  <2>2. Missed(x)' = {m \in Message : MissedBy(x, m)'}
    BY <2>1, NextQueues
  <2>3. Missed(x) = {m \in Message : MissedBy(x, m)}
    BY <2>1, MissedIs DEF IInv
  <2>4. Missed(x)' \subseteq Missed(x)
    BY <2>2, <2>3
  <2>5. IsFiniteSet(Missed(x)) /\ Cardinality(Missed(x)) <= failures
    BY <2>1 DEF IInv, MissedFinite, OneLostPerFailure
  <2> QED
    BY <1>1, <2>4, <2>5, Fewer
<1> QED
  BY <1>2 DEF MissedFinite, OneLostPerFailure

\* What is said waits at the end of the sender's queue: nothing has left it.
LEMMA SayKeeps == ASSUME IInv, NEW c \in Conn, Say(c) PROVE IInv'
<1> DEFINE new == [from |-> c, n |-> said[c] + 1]
<1>1. /\ phase = "serve" /\ turn <= Len(list) /\ c = list[turn]
      /\ spoken < MaxSaid /\ spoken' = spoken + 1
      /\ said' = [said EXCEPT ![c] = @ + 1]
      /\ queue' = [queue EXCEPT ![c] = Append(@, new)]
      /\ UNCHANGED <<phase, list, turn, fresh, before, heard, failures>>
  BY DEF Say, Serving, tickVars
<1>2. TypeOK /\ ListedOnce /\ QueuedInOrder
  BY DEF IInv
<1>3. c \in Present
  <2>1. turn \in DOMAIN list
    BY <1>1, <1>2 DEF TypeOK
  <2> QED
    BY <1>1, <2>1 DEF Present, ToSet
<1>4. /\ said[c] \in Nat /\ Gone(c) \in Nat /\ Len(queue[c]) \in Nat
      /\ Gone(c) + Len(queue[c]) = said[c] /\ queue[c] \in Seq(Message)
      /\ said[c] <= spoken /\ spoken \in Nat
  BY <1>2, QueueNumbers, ChatAssumption DEF QueuedInOrder, TypeOK
<1>5. new \in Message
  <2>1. said[c] + 1 \in 1..MaxSaid
    BY <1>1, <1>4, ChatAssumption
  <2> QED
    BY <2>1 DEF Message
<1>6. /\ said'[c] = said[c] + 1 /\ queue'[c] = Append(queue[c], new)
      /\ \A d \in Conn : d # c => said'[d] = said[d] /\ queue'[d] = queue[d]
  BY <1>1, <1>2 DEF TypeOK
<1>7. /\ queue'[c] \in Seq(Message) /\ Len(queue'[c]) = Len(queue[c]) + 1
      /\ DOMAIN queue[c] = 1..Len(queue[c]) /\ DOMAIN queue'[c] = 1..(Len(queue[c]) + 1)
      /\ \A i \in 1..Len(queue[c]) : queue'[c][i] = queue[c][i]
      /\ queue'[c][Len(queue[c]) + 1] = new
  <2> HIDE DEF new
  <2> QED
    BY <1>4, <1>5, <1>6, Appended
<1>8. \A d \in Conn : Gone(d)' = Gone(d)
  <2>1. Gone(c)' = Gone(c)
    <3>1. Gone(c)' = (said[c] + 1) - (Len(queue[c]) + 1)
      BY <1>6, <1>7 DEF Gone
    <3> QED
      BY <1>4, <3>1
  <2>2. \A d \in Conn : d # c => Gone(d)' = Gone(d)
    BY <1>6 DEF Gone
  <2> QED
    BY <2>1, <2>2
<1>9. TypeOK'
  <2>1. said' \in [Conn -> 0..MaxSaid] /\ spoken' \in 0..MaxSaid
    <3>1. said[c] + 1 \in 0..MaxSaid /\ spoken + 1 \in 0..MaxSaid
      BY <1>1, <1>4, ChatAssumption
    <3> QED
      BY <1>1, <1>2, <3>1 DEF TypeOK
  <2>2. queue' \in [Conn -> Seq(Message)]
    BY <1>1, <1>2, <1>6, <1>7 DEF TypeOK
  <2> QED
    BY <1>1, <1>2, <2>1, <2>2 DEF TypeOK
<1>10. ListedOnce'
  <2>1. c \notin fresh
    BY <1>2, <1>3 DEF ListedOnce
  <2> QED
    BY <1>1, <1>2, <1>6, <2>1 DEF ListedOnce, Present, TypeOK
<1>11. QueuedInOrder'
  <2> SUFFICES ASSUME NEW d \in Conn
               PROVE  /\ 0 <= Gone(d)' /\ said'[d] <= spoken'
                      /\ \A i \in DOMAIN queue'[d] :
                           queue'[d][i] = [from |-> d, n |-> Gone(d)' + i]
                      /\ queue'[d] # <<>> => d \in Present'
    BY DEF QueuedInOrder
  <2>0. Present' = Present
    BY <1>1 DEF Present
  <2>1. CASE d = c
    <3>1. 0 <= Gone(c)' /\ said'[c] <= spoken'
      BY <1>1, <1>4, <1>6, <1>8
    <3>2. ASSUME NEW i \in DOMAIN queue'[c]
          PROVE  queue'[c][i] = [from |-> c, n |-> Gone(c)' + i]
      <4>1. CASE i \in 1..Len(queue[c])
        BY <1>2, <1>7, <1>8, <4>1 DEF QueuedInOrder
      <4>2. CASE i = Len(queue[c]) + 1
        <5>1. Gone(c)' + i = said[c] + 1
          BY <1>4, <1>8, <4>2
        <5> QED
          BY <1>7, <4>2, <5>1
      <4> QED
        BY <1>4, <1>7, <3>2, <4>1, <4>2
    <3> QED
      BY <1>3, <2>0, <2>1, <3>1, <3>2
  <2>2. CASE d # c
    <3>1. /\ 0 <= Gone(d) /\ said[d] <= spoken
          /\ \A i \in DOMAIN queue[d] : queue[d][i] = [from |-> d, n |-> Gone(d) + i]
          /\ queue[d] # <<>> => d \in Present
      BY <1>2 DEF QueuedInOrder
    <3>2. said[d] \in Nat
      BY <1>2, QueueNumbers
    <3> QED
      BY <1>1, <1>4, <1>6, <1>8, <2>0, <2>2, <3>1, <3>2
  <2> QED
    BY <2>1, <2>2
<1>12. HeardIsGone'
  <2>1. \A x \in Conn : \A i \in DOMAIN heard[x] : heard[x][i].from \in Conn
    <3> SUFFICES ASSUME NEW x \in Conn, NEW i \in DOMAIN heard[x]
                 PROVE  heard[x][i].from \in Conn
      OBVIOUS
    <3>1. heard[x][i] \in Message
      BY <1>2 DEF TypeOK
    <3> QED
      BY <3>1 DEF Message
  <2> QED
    BY <1>1, <1>8, <2>1 DEF IInv, HeardIsGone
<1>13. HeardInOrder'
  BY <1>1, SameHeard DEF IInv
<1>14. (Draining /\ TickDrains)'
  <2>1. Present' = Present /\ Present \subseteq Conn
    BY <1>1, <1>2, PresentConn DEF Present
  <2> QED
    BY <1>1, <1>8, <2>1 DEF IInv, Draining, TickDrains
<1>15. (MissedFinite /\ OneLostPerFailure)'
  <2>1. Present' = Present
    BY <1>1 DEF Present
  <2>2. \A x, m : m \in Message /\ MissedBy(x, m)' => MissedBy(x, m)
    BY <1>1, <1>8, <2>1 DEF MissedBy, Message
  <2> QED
    BY <1>1, <1>9, <1>11, <2>1, <2>2, MissedNoMore
<1> QED
  BY <1>9, <1>10, <1>11, <1>12, <1>13, <1>14, <1>15 DEF IInv

\* Who leaves takes what it said with it, and is nobody's sender any more.
LEMMA LeaveKeeps == ASSUME IInv, NEW c \in Conn, Leave(c) PROVE IInv'
<1>1. /\ phase = "serve" /\ turn <= Len(list) /\ c = list[turn]
      /\ list' = RemoveAt(list, turn)
      /\ queue' = [queue EXCEPT ![c] = <<>>]
      /\ UNCHANGED <<phase, turn, fresh, said, spoken, before, heard, failures>>
  BY DEF Leave, Serving, clientVars
<1>2. TypeOK /\ ListedOnce /\ QueuedInOrder
  BY DEF IInv
<1>3. turn \in 1..Len(list) /\ Len(list) \in Nat
  BY <1>1, <1>2 DEF TypeOK
<1>4. /\ list' \in Seq(Conn) /\ Len(list') = Len(list) - 1
      /\ Present' = Present \ {c}
      /\ \A i, j \in DOMAIN list' : list'[i] = list'[j] => i = j
  <2>1. list \in Seq(Conn) /\ \A i, j \in DOMAIN list : list[i] = list[j] => i = j
    BY <1>2 DEF TypeOK, ListedOnce
  <2>2. /\ RemoveAt(list, turn) \in Seq(Conn)
        /\ Len(RemoveAt(list, turn)) = Len(list) - 1
        /\ ToSet(RemoveAt(list, turn)) = ToSet(list) \ {list[turn]}
        /\ \A i, j \in DOMAIN RemoveAt(list, turn) :
             RemoveAt(list, turn)[i] = RemoveAt(list, turn)[j] => i = j
    BY <1>3, <2>1, Removed
  <2> QED
    BY <1>1, <2>2 DEF Present
<1>5. /\ queue'[c] = <<>> /\ queue' \in [Conn -> Seq(Message)]
      /\ \A d \in Conn : d # c => queue'[d] = queue[d]
  <2>1. <<>> \in Seq(Message)
    OBVIOUS
  <2> QED
    BY <1>1, <1>2, <2>1 DEF TypeOK
<1>6. \A d \in Conn : /\ Gone(d) \in Nat /\ Gone(d)' \in Nat /\ Gone(d) <= Gone(d)'
                      /\ d # c => Gone(d)' = Gone(d)
  <2> SUFFICES ASSUME NEW d \in Conn
               PROVE  /\ Gone(d) \in Nat /\ Gone(d)' \in Nat /\ Gone(d) <= Gone(d)'
                      /\ d # c => Gone(d)' = Gone(d)
    OBVIOUS
  <2>1. /\ Gone(d) \in Nat /\ said[d] \in Nat /\ Len(queue[d]) \in Nat
        /\ Gone(d) + Len(queue[d]) = said[d]
    BY <1>2, QueueNumbers
  <2>2. CASE d = c
    <3>1. Len(queue'[d]) = 0 /\ said' = said
      BY <1>1, <1>5, <2>2
    <3>2. Gone(d)' = said[d]
      BY <2>1, <3>1 DEF Gone
    <3> QED
      BY <2>1, <2>2, <3>2
  <2>3. CASE d # c
    <3>1. Gone(d)' = Gone(d)
      BY <1>1, <1>5, <2>3 DEF Gone
    <3> QED
      BY <2>1, <3>1
  <2> QED
    BY <2>2, <2>3
<1>7. TypeOK'
  <2>1. turn' \in 1..Len(list') + 1
    BY <1>1, <1>3, <1>4
  <2> QED
    BY <1>1, <1>2, <1>4, <1>5, <2>1 DEF TypeOK
<1>8. ListedOnce'
  BY <1>1, <1>2, <1>4 DEF ListedOnce
<1>9. QueuedInOrder'
  <2> SUFFICES ASSUME NEW d \in Conn
               PROVE  /\ 0 <= Gone(d)' /\ said'[d] <= spoken'
                      /\ \A i \in DOMAIN queue'[d] :
                           queue'[d][i] = [from |-> d, n |-> Gone(d)' + i]
                      /\ queue'[d] # <<>> => d \in Present'
    BY DEF QueuedInOrder
  <2>1. 0 <= Gone(d)' /\ said'[d] <= spoken'
    BY <1>1, <1>2, <1>6 DEF QueuedInOrder
  <2>2. CASE d = c
    <3>1. queue'[d] = <<>> /\ DOMAIN queue'[d] = {}
      BY <1>5, <2>2
    <3> QED
      BY <2>1, <3>1
  <2>3. CASE d # c
    <3>1. /\ \A i \in DOMAIN queue[d] : queue[d][i] = [from |-> d, n |-> Gone(d) + i]
          /\ queue[d] # <<>> => d \in Present
      BY <1>2 DEF QueuedInOrder
    <3>2. queue'[d] = queue[d] /\ Gone(d)' = Gone(d)
      BY <1>5, <1>6, <2>3
    <3> QED
      BY <1>4, <2>1, <2>3, <3>1, <3>2
  <2> QED
    BY <2>2, <2>3
<1>10. HeardIsGone'
  <2> SUFFICES ASSUME NEW x \in Conn, NEW i \in DOMAIN heard[x]
               PROVE  heard[x][i].n <= Gone(heard[x][i].from)'
    BY <1>1 DEF HeardIsGone
  <2>1. PICK d \in Conn, k \in Nat : d = heard[x][i].from /\ k = heard[x][i].n
    <3>1. heard[x][i] \in Message
      BY <1>2 DEF TypeOK
    <3> QED
      BY <3>1, ChatAssumption DEF Message
  <2>2. k <= Gone(d)
    BY <2>1 DEF IInv, HeardIsGone
  <2>3. k <= Gone(d)'
    BY <1>6, <2>2
  <2>4. heard' = heard
    BY <1>1
  <2> QED
    BY <2>1, <2>3, <2>4
<1>11. HeardInOrder'
  BY <1>1, SameHeard DEF IInv
<1>12. (Draining /\ TickDrains)'
  <2> SUFFICES ASSUME failures = 0
               PROVE  /\ \A x \in Present', d \in Conn : before[x][d] <= Gone(d)'
                      /\ \A x \in Conn : \A m \in ToSet(heard[x]) : m.n > before[x][m.from]
    BY <1>1 DEF Draining, TickDrains
  <2>1. ASSUME NEW x \in Present', NEW d \in Conn
        PROVE  before[x][d] <= Gone(d)'
    <3>1. x \in Present /\ x \in Conn
      BY <1>2, <1>4, PresentConn
    <3>2. before[x][d] \in Nat /\ before[x][d] <= Gone(d)
      BY <1>2, <3>1, ChatAssumption DEF IInv, Draining, TypeOK
    <3> QED
      BY <1>6, <3>2
  <2> QED
    BY <2>1 DEF IInv, TickDrains
<1>13. (MissedFinite /\ OneLostPerFailure)'
  <2>1. \A x, m : m \in Message /\ MissedBy(x, m)' => MissedBy(x, m)
    BY <1>1, <1>4, <1>6 DEF MissedBy, Message
  <2> QED
    BY <1>1, <1>4, <1>7, <1>9, <2>1, MissedNoMore
<1> QED
  BY <1>7, <1>8, <1>9, <1>10, <1>11, <1>12, <1>13 DEF IInv

-----------------------------------------------------------------------------
(* Sending. *)

\* A message leaves the head of c's queue and is written to the connections of W.
Dispatch(c, W) ==
  /\ queue[c] # <<>> /\ Pop(c)
  /\ heard' = [x \in Conn |->
                 IF x \in W THEN Append(heard[x], Head(queue[c])) ELSE heard[x]]
  /\ UNCHANGED <<list, fresh, said, spoken, before>>

\* The first of a queue is the oldest that nobody has heard.
LEMMA DispatchQueue ==
  ASSUME IInv, NEW c \in Conn, NEW W, Dispatch(c, W)
  PROVE  /\ Head(queue[c]) \in Message
         /\ Head(queue[c]).from = c /\ Head(queue[c]).n = Gone(c) + 1
         /\ queue' \in [Conn -> Seq(Message)] /\ queue'[c] = Tail(queue[c])
         /\ \A d \in Conn : Gone(d)' = IF d = c THEN Gone(c) + 1 ELSE Gone(d)
         /\ QueuedInOrder'
<1> DEFINE q == queue[c]
<1>1. TypeOK /\ QueuedInOrder
  BY DEF IInv
<1>2. /\ q \in Seq(Message) /\ q # <<>>
      /\ said[c] \in Nat /\ Gone(c) \in Nat /\ Gone(c) + Len(q) = said[c]
      /\ \A i \in DOMAIN q : q[i] = [from |-> c, n |-> Gone(c) + i]
      /\ c \in Present
  BY <1>1, QueueNumbers DEF TypeOK, QueuedInOrder, Dispatch
<1>3. queue' = [queue EXCEPT ![c] = Tail(q)] /\ UNCHANGED <<list, said, spoken>>
  BY DEF Dispatch, Pop
<1> HIDE DEF q
<1>4. /\ Head(q) = q[1] /\ 1 \in DOMAIN q /\ Head(q) \in Message
      /\ Tail(q) \in Seq(Message) /\ Len(Tail(q)) = Len(q) - 1 /\ Len(q) \in Nat
      /\ DOMAIN Tail(q) = 1..Len(q) - 1 /\ DOMAIN q = 1..Len(q)
      /\ \A i \in 1..Len(q) - 1 : Tail(q)[i] = q[i + 1]
  BY <1>2
<1>5. Head(q).from = c /\ Head(q).n = Gone(c) + 1
  BY <1>2, <1>4
<1>6. /\ queue'[c] = Tail(q) /\ queue' \in [Conn -> Seq(Message)]
      /\ \A d \in Conn : d # c => queue'[d] = queue[d]
  BY <1>1, <1>3, <1>4 DEF TypeOK
<1>7. Gone(c)' = Gone(c) + 1
  <2>1. Gone(c)' = said[c] - (Len(q) - 1)
    BY <1>3, <1>4, <1>6 DEF Gone
  <2> QED
    BY <1>2, <1>4, <2>1
<1>8. \A d \in Conn : d # c => Gone(d)' = Gone(d)
  BY <1>3, <1>6 DEF Gone
<1>9. QueuedInOrder'
  <2> SUFFICES ASSUME NEW d \in Conn
               PROVE  /\ 0 <= Gone(d)' /\ said'[d] <= spoken'
                      /\ \A i \in DOMAIN queue'[d] :
                           queue'[d][i] = [from |-> d, n |-> Gone(d)' + i]
                      /\ queue'[d] # <<>> => d \in Present'
    BY DEF QueuedInOrder
  <2>1. Present' = Present /\ said'[d] <= spoken'
    BY <1>1, <1>3 DEF Present, QueuedInOrder
  <2>2. CASE d = c
    <3>1. ASSUME NEW i \in DOMAIN queue'[c]
          PROVE  queue'[c][i] = [from |-> c, n |-> Gone(c)' + i]
      <4>1. i \in 1..Len(q) - 1 /\ i + 1 \in DOMAIN q
        BY <1>4, <1>6, <3>1
      <4>2. queue'[c][i] = [from |-> c, n |-> Gone(c) + (i + 1)]
        BY <1>2, <1>4, <1>6, <4>1
      <4>3. Gone(c) + (i + 1) = Gone(c)' + i
        BY <1>2, <1>7, <4>1
      <4> QED
        BY <4>2, <4>3
    <3> QED
      BY <1>2, <1>7, <2>1, <2>2, <3>1
  <2>3. CASE d # c
    <3>1. /\ 0 <= Gone(d)
          /\ \A i \in DOMAIN queue[d] : queue[d][i] = [from |-> d, n |-> Gone(d) + i]
          /\ queue[d] # <<>> => d \in Present
      BY <1>1 DEF QueuedInOrder
    <3>2. queue'[d] = queue[d] /\ Gone(d)' = Gone(d)
      BY <1>6, <1>8, <2>3
    <3> QED
      BY <2>1, <3>1, <3>2
  <2> QED
    BY <2>2, <2>3
<1> QED
  BY <1>4, <1>5, <1>6, <1>7, <1>8, <1>9 DEF q

\* Those of W hear it last, after what is older, and the others hear nothing.
LEMMA DispatchHeard ==
  ASSUME IInv, NEW c \in Conn, NEW W, Dispatch(c, W)
  PROVE  /\ heard' \in [Conn -> Seq(Message)]
         /\ \A x \in Conn :
              ToSet(heard'[x]) = ToSet(heard[x]) \cup (IF x \in W THEN {Head(queue[c])} ELSE {})
         /\ HeardIsGone' /\ HeardInOrder'
<1> DEFINE m == Head(queue[c])
<1>1. TypeOK /\ HeardIsGone /\ HeardInOrder
  BY DEF IInv
<1>2. m \in Message /\ m.from = c /\ m.n = Gone(c) + 1
  BY DispatchQueue
<1>3. \A d \in Conn : Gone(d) \in Nat
  BY QueueNumbers DEF IInv
<1>4. heard' = [x \in Conn |-> IF x \in W THEN Append(heard[x], m) ELSE heard[x]]
  BY DEF Dispatch
<1>5. \A d \in Conn : Gone(d)' = IF d = c THEN Gone(c) + 1 ELSE Gone(d)
  BY DispatchQueue
<1> HIDE DEF m
<1>6. ASSUME NEW x \in Conn
      PROVE  /\ heard[x] \in Seq(Message) /\ heard'[x] \in Seq(Message)
             /\ ToSet(heard'[x]) = ToSet(heard[x]) \cup (IF x \in W THEN {m} ELSE {})
             /\ \A i \in DOMAIN heard'[x] :
                  \/ i \in DOMAIN heard[x] /\ heard'[x][i] = heard[x][i]
                  \/ i = Len(heard[x]) + 1 /\ heard'[x][i] = m
             /\ Len(heard[x]) \in Nat /\ DOMAIN heard[x] = 1..Len(heard[x])
             /\ \A i \in DOMAIN heard'[x] : i \in 1..(Len(heard[x]) + 1)
  <2>1. heard[x] \in Seq(Message)
    BY <1>1 DEF TypeOK
  <2>2. CASE x \in W
    <3>1. heard'[x] = Append(heard[x], m)
      BY <1>4, <2>2
    <3>2. /\ heard'[x] \in Seq(Message) /\ Len(heard[x]) \in Nat
          /\ DOMAIN heard[x] = 1..Len(heard[x])
          /\ DOMAIN heard'[x] = 1..(Len(heard[x]) + 1)
          /\ \A i \in 1..Len(heard[x]) : heard'[x][i] = heard[x][i]
          /\ heard'[x][Len(heard[x]) + 1] = m
          /\ ToSet(heard'[x]) = ToSet(heard[x]) \cup {m}
      BY <1>2, <2>1, <3>1, Appended
    <3>3. \A i \in 1..(Len(heard[x]) + 1) : i \in 1..Len(heard[x]) \/ i = Len(heard[x]) + 1
      BY <3>2
    <3> QED
      BY <2>1, <2>2, <3>2, <3>3
  <2>3. CASE x \notin W
    <3>1. heard'[x] = heard[x]
      BY <1>4, <2>3
    <3>2. Len(heard[x]) \in Nat /\ DOMAIN heard[x] = 1..Len(heard[x])
      BY <2>1
    <3>3. \A i \in 1..Len(heard[x]) : i \in 1..(Len(heard[x]) + 1)
      BY <3>2
    <3> QED
      BY <2>1, <2>3, <3>1, <3>2, <3>3
  <2> QED
    BY <2>2, <2>3
<1>7. heard' \in [Conn -> Seq(Message)]
  BY <1>4, <1>6
\* Nobody has heard it before.
<1>8. ASSUME NEW x \in Conn, NEW i \in DOMAIN heard[x]
      PROVE  /\ heard[x][i] \in Message /\ heard[x][i].from \in Conn
             /\ heard[x][i].n \in Nat
             /\ heard[x][i].n <= Gone(heard[x][i].from)
             /\ heard[x][i].from = c => heard[x][i].n < m.n
             /\ heard[x][i] # m
  <2>1. heard[x][i] \in Message
    BY <1>6
  <2>2. heard[x][i].from \in Conn /\ heard[x][i].n \in Nat
    BY <2>1, ChatAssumption DEF Message
  <2>3. heard[x][i].n <= Gone(heard[x][i].from)
    BY <1>1 DEF HeardIsGone
  <2>4. heard[x][i].from = c => heard[x][i].n < m.n
    BY <1>2, <1>3, <2>2, <2>3
  <2> QED
    BY <1>2, <1>3, <2>1, <2>2, <2>3, <2>4
<1>9. HeardIsGone'
  <2> SUFFICES ASSUME NEW x \in Conn, NEW i \in DOMAIN heard'[x]
               PROVE  (heard[x][i].n)' <= Gone(heard[x][i].from)'
    BY DEF HeardIsGone
  <2>1. CASE i \in DOMAIN heard[x] /\ heard'[x][i] = heard[x][i]
    <3>1. PICK d \in Conn, k \in Nat : d = heard[x][i].from /\ k = heard[x][i].n /\ k <= Gone(d)
      BY <1>8, <2>1
    <3>2. Gone(d) \in Nat /\ (Gone(d)' = Gone(d) \/ Gone(d)' = Gone(d) + 1)
      BY <1>3, <1>5
    <3>3. k <= Gone(d)'
      BY <3>1, <3>2
    <3> QED
      BY <2>1, <3>1, <3>3
  <2>2. CASE heard'[x][i] = m
    <3>1. Gone(c) \in Nat /\ Gone(c)' = Gone(c) + 1
      BY <1>3, <1>5
    <3>2. m.n <= Gone(c)'
      BY <1>2, <3>1
    <3> QED
      BY <1>2, <2>2, <3>2
  <2> QED
    BY <1>6, <2>1, <2>2
<1>10. SendersInOrder'
  <2> SUFFICES ASSUME NEW x \in Conn, NEW i \in DOMAIN heard'[x], NEW j \in DOMAIN heard'[x],
                      i < j, heard'[x][i].from = heard'[x][j].from
               PROVE  heard'[x][i].n < heard'[x][j].n
    BY DEF SendersInOrder
  <2>1. i \in DOMAIN heard[x] /\ heard'[x][i] = heard[x][i]
    <3>1. /\ i \in 1..(Len(heard[x]) + 1) /\ j \in 1..(Len(heard[x]) + 1)
          /\ Len(heard[x]) \in Nat
      BY <1>6
    <3>2. i # Len(heard[x]) + 1
      BY <3>1
    <3> QED
      BY <1>6, <3>2
  <2>2. CASE j \in DOMAIN heard[x] /\ heard'[x][j] = heard[x][j]
    BY <1>1, <2>1, <2>2 DEF HeardInOrder, SendersInOrder
  <2>3. CASE heard'[x][j] = m
    BY <1>2, <1>8, <2>1, <2>3
  <2> QED
    BY <1>6, <2>2, <2>3
<1>11. SameOrder'
  <2> SUFFICES ASSUME NEW x \in Conn, NEW y \in Conn, NEW o, NEW p,
                      Before(heard[x], o, p)', Before(heard[y], p, o)'
               PROVE  FALSE
    BY DEF SameOrder
  <2>1. PICK i \in DOMAIN heard'[x], j \in DOMAIN heard'[x] :
          i < j /\ heard'[x][i] = o /\ heard'[x][j] = p
    BY DEF Before
  <2>2. PICK k \in DOMAIN heard'[y], l \in DOMAIN heard'[y] :
          k < l /\ heard'[y][k] = p /\ heard'[y][l] = o
    BY DEF Before
  <2>3. i \in DOMAIN heard[x] /\ heard[x][i] = o /\ o # m
    <3>1. /\ i \in 1..(Len(heard[x]) + 1) /\ j \in 1..(Len(heard[x]) + 1)
          /\ Len(heard[x]) \in Nat
      BY <1>6
    <3>2. i # Len(heard[x]) + 1
      BY <2>1, <3>1
    <3> QED
      BY <1>6, <1>8, <2>1, <3>2
  <2>4. k \in DOMAIN heard[y] /\ heard[y][k] = p /\ p # m
    <3>1. /\ k \in 1..(Len(heard[y]) + 1) /\ l \in 1..(Len(heard[y]) + 1)
          /\ Len(heard[y]) \in Nat
      BY <1>6
    <3>2. k # Len(heard[y]) + 1
      BY <2>2, <3>1
    <3> QED
      BY <1>6, <1>8, <2>2, <3>2
  <2>5. j \in DOMAIN heard[x] /\ heard[x][j] = p
    BY <1>6, <2>1, <2>4
  <2>6. l \in DOMAIN heard[y] /\ heard[y][l] = o
    BY <1>6, <2>2, <2>3
  <2>7. /\ o \in ToSet(heard[x]) \cap ToSet(heard[y]) /\ p \in ToSet(heard[x]) \cap ToSet(heard[y])
        /\ Before(heard[x], o, p) /\ Before(heard[y], p, o)
    BY <2>1, <2>2, <2>3, <2>4, <2>5, <2>6 DEF ToSet, Before
  <2> QED
    BY <1>1, <2>7 DEF HeardInOrder, SameOrder
<1> QED
  BY <1>6, <1>7, <1>9, <1>10, <1>11 DEF HeardInOrder, m

\* What a dispatch leaves unheard is at most the message it is about, and nothing for
\* those it reaches; the rest of the invariant does not mind which it reaches.
LEMMA DispatchKeeps ==
  ASSUME IInv, NEW c \in Conn, NEW W, W \subseteq Present, Dispatch(c, W),
         phase' \in {"accept", "serve", "send"}, turn' \in 1..Len(list) + 1,
         failures' \in 0..MaxFailures
  PROVE  /\ (TypeOK /\ ListedOnce /\ QueuedInOrder /\ HeardIsGone /\ HeardInOrder)'
         /\ Present' = Present
         /\ \A x \in Conn, m \in Message :
              MissedBy(x, m)' => MissedBy(x, m) \/ (m = Head(queue[c]) /\ x \notin W)
<1> DEFINE h == Head(queue[c])
<1>1. /\ UNCHANGED <<list, fresh, said, spoken, before>> /\ Present' = Present
      /\ TypeOK /\ ListedOnce
  BY DEF Dispatch, Present, IInv
<1>2. /\ h \in Message /\ h.from = c /\ h.n = Gone(c) + 1
      /\ queue' \in [Conn -> Seq(Message)] /\ QueuedInOrder'
      /\ \A d \in Conn : Gone(d)' = IF d = c THEN Gone(c) + 1 ELSE Gone(d)
  BY DispatchQueue
<1>3. /\ heard' \in [Conn -> Seq(Message)] /\ HeardIsGone' /\ HeardInOrder'
      /\ \A x \in Conn :
           ToSet(heard'[x]) = ToSet(heard[x]) \cup (IF x \in W THEN {h} ELSE {})
  BY DispatchHeard
<1>4. TypeOK'
  BY <1>1, <1>2, <1>3 DEF TypeOK
<1>5. ListedOnce'
  <2>1. \A x \in fresh : x \in Conn /\ x \notin W
    BY <1>1 DEF ListedOnce, TypeOK
  <2>2. \A x \in fresh : heard'[x] = heard[x]
    BY <2>1 DEF Dispatch
  <2> QED
    BY <1>1, <2>2 DEF ListedOnce
<1> HIDE DEF h
<1>6. ASSUME NEW x \in Conn, NEW m \in Message, MissedBy(x, m)'
      PROVE  MissedBy(x, m) \/ (m = h /\ x \notin W)
  <2>1. /\ m.from \in Present /\ before[x][m.from] < m.n
        /\ m.n <= Gone(m.from)' /\ m \notin ToSet(heard'[x])
    BY <1>1, <1>6 DEF MissedBy
  <2>2. m.from \in Conn /\ m.n \in Nat /\ m = [from |-> m.from, n |-> m.n]
    BY ChatAssumption DEF Message
  <2>3. h = [from |-> c, n |-> Gone(c) + 1]
    BY <1>2 DEF Message
  <2>4. m \notin ToSet(heard[x]) /\ (x \in W => m # h)
    BY <1>3, <2>1
  <2>5. CASE m = h
    BY <2>4, <2>5
  <2>6. CASE m # h
    <3>1. Gone(m.from) \in Nat
      BY <2>2, QueueNumbers DEF IInv
    <3>2. CASE m.from = c
      <4>1. m.n <= Gone(c) + 1
        BY <1>2, <2>1, <3>2
      <4>2. m.n # Gone(c) + 1
        BY <2>2, <2>3, <2>6, <3>2
      <4>3. m.n <= Gone(c)
        BY <2>2, <3>1, <3>2, <4>1, <4>2
      <4> QED
        BY <2>1, <2>4, <3>2, <4>3 DEF MissedBy
    <3>3. CASE m.from # c
      <4>1. Gone(m.from)' = Gone(m.from)
        BY <1>2, <2>2, <3>3
      <4> QED
        BY <2>1, <2>4, <4>1 DEF MissedBy
    <3> QED
      BY <3>2, <3>3
  <2> QED
    BY <2>5, <2>6
<1> QED
  BY <1>1, <1>2, <1>3, <1>4, <1>5, <1>6 DEF h

\* A message written to everyone is missed by nobody.
LEMMA SendKeeps == ASSUME IInv, NEW c \in Conn, Send(c) PROVE IInv'
<1>1. PICK W : W = Present
  OBVIOUS
<1>2. /\ phase = "send" /\ turn <= Len(list) /\ c = list[turn]
      /\ UNCHANGED <<phase, turn, failures>>
      /\ Dispatch(c, W)
  BY <1>1 DEF Send, Sending, WriteTo, Dispatch, Present, tickVars, clientVars
<1>3. TypeOK /\ ListedOnce /\ QueuedInOrder
  BY DEF IInv
<1>4. turn \in 1..Len(list) /\ DOMAIN list = 1..Len(list) /\ Len(list) \in Nat
  BY <1>2, <1>3 DEF TypeOK
<1>5. /\ phase' \in {"accept", "serve", "send"} /\ turn' \in 1..Len(list) + 1
      /\ failures' \in 0..MaxFailures
  BY <1>2, <1>3 DEF TypeOK
<1>6. /\ (TypeOK /\ ListedOnce /\ QueuedInOrder /\ HeardIsGone /\ HeardInOrder)'
      /\ Present' = Present
      /\ \A x \in Conn, m \in Message :
           MissedBy(x, m)' => MissedBy(x, m) \/ (m = Head(queue[c]) /\ x \notin W)
  BY <1>1, <1>2, <1>5, DispatchKeeps
<1>7. /\ Head(queue[c]).from = c /\ Head(queue[c]).n = Gone(c) + 1
      /\ \A d \in Conn : Gone(d)' = IF d = c THEN Gone(c) + 1 ELSE Gone(d)
      /\ queue' = [queue EXCEPT ![c] = Tail(@)] /\ UNCHANGED <<list, before>>
  <2>1. queue' = [queue EXCEPT ![c] = Tail(@)] /\ UNCHANGED <<list, before>>
    BY <1>2 DEF Dispatch, Pop
  <2> QED
    BY <1>2, <2>1, DispatchQueue
<1>8. \A x \in Conn : ToSet(heard'[x]) =
                            ToSet(heard[x]) \cup (IF x \in W THEN {Head(queue[c])} ELSE {})
  BY <1>2, DispatchHeard
<1>9. \A d \in Conn : Gone(d) \in Nat
  BY <1>3, QueueNumbers
<1>10. Draining'
  <2> SUFFICES ASSUME failures = 0
               PROVE  /\ \A i \in 1..turn - 1 : queue'[list[i]] = <<>>
                      /\ \A x \in Present, d \in Conn : before[x][d] <= Gone(d)'
    BY <1>2, <1>6, <1>7 DEF Draining
  <2>1. ASSUME NEW i \in 1..turn - 1
        PROVE  queue'[list[i]] = <<>>
    <3>1. i \in DOMAIN list /\ turn \in DOMAIN list /\ i # turn
      BY <1>4
    <3>2. list[i] # c /\ list[i] \in Conn
      BY <1>2, <1>3, <3>1 DEF ListedOnce, TypeOK
    <3>3. queue'[list[i]] = queue[list[i]]
      BY <1>3, <1>7, <3>2 DEF TypeOK
    <3> QED
      BY <1>2, <3>3 DEF IInv, Draining
  <2>2. ASSUME NEW x \in Present, NEW d \in Conn
        PROVE  before[x][d] <= Gone(d)'
    <3>1. x \in Conn
      BY <1>3, PresentConn
    <3>2. before[x][d] \in Nat /\ before[x][d] <= Gone(d)
      BY <1>3, <3>1, ChatAssumption DEF IInv, Draining, TypeOK
    <3> QED
      BY <1>7, <1>9, <3>2
  <2> QED
    BY <2>1, <2>2
<1>11. TickDrains'
  <2> SUFFICES ASSUME failures = 0, NEW x \in Conn, NEW m \in ToSet(heard'[x])
               PROVE  m.n > before[x][m.from]
    BY <1>2, <1>7 DEF TickDrains
  <2>1. CASE m \in ToSet(heard[x])
    BY <2>1 DEF IInv, TickDrains
  <2>2. CASE x \in W /\ m = Head(queue[c])
    <3>1. before[x][c] \in Nat /\ before[x][c] <= Gone(c)
      BY <1>1, <1>3, <2>2, ChatAssumption DEF IInv, Draining, TypeOK
    <3> QED
      BY <1>7, <1>9, <2>2, <3>1
  <2> QED
    BY <1>8, <2>1, <2>2
<1>12. (MissedFinite /\ OneLostPerFailure)'
  <2>1. \A x \in Present', m \in Message : MissedBy(x, m)' => MissedBy(x, m)
    BY <1>1, <1>3, <1>6, PresentConn
  <2> QED
    BY <1>2, <1>6, <2>1, MissedNoMore
<1> QED
  BY <1>6, <1>10, <1>11, <1>12 DEF IInv

\* A write that fails costs those it does not reach one message.
LEMMA SendFailsKeeps ==
  ASSUME IInv, NEW c \in Conn, NEW k \in 0..Len(list) - 1, SendFails(c, k)
  PROVE  IInv'
<1> DEFINE h == Head(queue[c])
<1>1. PICK W : W = ToSet(SubSeq(list, 1, k))
  OBVIOUS
<1>2. /\ phase' = "accept" /\ turn' = 1 /\ failures < MaxFailures /\ failures' = failures + 1
      /\ Dispatch(c, W)
  BY <1>1 DEF SendFails, Enter, WriteTo, Dispatch, clientVars
<1>3. TypeOK
  BY DEF IInv
<1>4. W \subseteq Present
  <2> SUFFICES ASSUME NEW x \in W PROVE x \in Present
    OBVIOUS
  <2>1. list \in Seq(Conn) /\ Len(list) \in Nat /\ DOMAIN list = 1..Len(list)
    BY <1>3 DEF TypeOK
  <2>2. DOMAIN SubSeq(list, 1, k) = 1..k /\ \A i \in 1..k : SubSeq(list, 1, k)[i] = list[i]
    BY <2>1
  <2>3. PICK i \in 1..k : x = list[i]
    BY <1>1, <2>2 DEF ToSet
  <2>4. i \in DOMAIN list
    BY <2>1, <2>3
  <2> QED
    BY <2>3, <2>4 DEF Present, ToSet
<1>5. failures \in Nat /\ failures' \in 0..MaxFailures /\ failures' # 0
  BY <1>2, <1>3, ChatAssumption DEF TypeOK
<1>6. turn' \in 1..Len(list) + 1
  BY <1>2, <1>3 DEF TypeOK
<1>7. /\ (TypeOK /\ ListedOnce /\ QueuedInOrder /\ HeardIsGone /\ HeardInOrder)'
      /\ Present' = Present
      /\ \A x \in Conn, m \in Message :
           MissedBy(x, m)' => MissedBy(x, m) \/ (m = h /\ x \notin W)
  BY <1>2, <1>4, <1>5, <1>6, DispatchKeeps
<1> HIDE DEF h
<1>8. (Draining /\ TickDrains)'
  BY <1>5 DEF Draining, TickDrains
<1>9. ASSUME NEW x \in Present'
      PROVE  IsFiniteSet(Missed(x)') /\ Cardinality(Missed(x)') <= failures'
  <2>1. x \in Present /\ x \in Conn
    BY <1>3, <1>7, PresentConn
  <2>2. Missed(x)' = {m \in Message : MissedBy(x, m)'}
    BY <1>7, <2>1, NextQueues
  <2>3. Missed(x) = {m \in Message : MissedBy(x, m)}
    BY <2>1, MissedIs DEF IInv
  <2>4. Missed(x)' \subseteq Missed(x) \cup {h}
    BY <1>7, <2>1, <2>2, <2>3
  <2>5. IsFiniteSet(Missed(x)) /\ Cardinality(Missed(x)) <= failures
    BY <2>1 DEF IInv, MissedFinite, OneLostPerFailure
  <2>6. /\ IsFiniteSet(Missed(x) \cup {h})
        /\ Cardinality(Missed(x) \cup {h}) =
             IF h \in Missed(x) THEN Cardinality(Missed(x)) ELSE Cardinality(Missed(x)) + 1
        /\ Cardinality(Missed(x)) \in Nat
    BY <2>5, FS_AddElement, FS_CardinalityType
  <2>7. Cardinality(Missed(x) \cup {h}) <= failures'
    BY <1>2, <1>5, <2>5, <2>6
  <2> QED
    BY <1>5, <2>4, <2>6, <2>7, Fewer, ChatAssumption
<1> QED
  BY <1>7, <1>8, <1>9 DEF IInv, MissedFinite, OneLostPerFailure

-----------------------------------------------------------------------------
(* The theorems. *)

\* The inductive invariant holds in every tick, whoever joins, speaks and leaves in it
\* and whichever writes fail.
THEOREM ChatInvariant == Spec => []IInv
<1>1. Init => IInv
  <2> SUFFICES ASSUME Init PROVE IInv
    OBVIOUS
  <2>1. /\ phase = "accept" /\ list = <<>> /\ turn = 1 /\ fresh = Conn
        /\ \A c \in Conn : queue[c] = <<>> /\ heard[c] = <<>> /\ said[c] = 0
        /\ spoken = 0 /\ failures = 0
    BY DEF Init
  <2>2. TypeOK
    <3>1. <<>> \in Seq(Message) /\ <<>> \in Seq(Conn) /\ Len(<<>>) = 0
      OBVIOUS
    <3>2. 0 \in 0..MaxSaid /\ 0 \in 0..MaxFailures /\ 1 \in 1..0 + 1
      BY ChatAssumption
    <3> QED
      BY <3>1, <3>2 DEF Init, TypeOK
  <2>3. Present = {}
    BY <2>1 DEF Present, ToSet
  <2>4. ListedOnce /\ HeardIsGone /\ MissedFinite /\ OneLostPerFailure
    BY <2>1, <2>3 DEF ListedOnce, HeardIsGone, MissedFinite, OneLostPerFailure
  <2>5. QueuedInOrder
    BY <2>1 DEF QueuedInOrder, Gone
  <2>6. HeardInOrder
    BY <2>1 DEF HeardInOrder, SendersInOrder, SameOrder, Before
  <2>7. Draining /\ TickDrains
    BY <2>1, <2>3 DEF Draining, TickDrains, ToSet
  <2> QED
    BY <2>2, <2>4, <2>5, <2>6, <2>7 DEF IInv
<1>2. IInv /\ [Next]_vars => IInv'
  <2> SUFFICES ASSUME IInv, [Next]_vars PROVE IInv'
    OBVIOUS
  <2>1. CASE AcceptNobody \/ AllServed \/ AllSent
    BY <2>1, AcceptNobodyKeeps, AllServedKeeps, AllSentKeeps
  <2>2. ASSUME NEW c \in Conn,
               Join(c) \/ Say(c) \/ Served(c) \/ Leave(c) \/ Send(c) \/ QueueSent(c)
        PROVE  IInv'
    BY <2>2, JoinKeeps, SayKeeps, ServedKeeps, LeaveKeeps, SendKeeps, QueueSentKeeps
  <2>3. ASSUME NEW c \in Conn, NEW k \in 0..Len(list) - 1, SendFails(c, k)
        PROVE  IInv'
    BY <2>3, SendFailsKeeps
  <2>4. CASE UNCHANGED vars
    <3>1. UNCHANGED <<phase, turn, list, clientVars, queue, heard, failures>>
      BY <2>4 DEF vars, tickVars
    <3> QED
      BY <3>1, MovingKeeps DEF IInv, TypeOK, Draining, TickDrains
  <2> QED
    BY <2>1, <2>2, <2>3, <2>4 DEF Next
<1> QED
  BY <1>1, <1>2, PTL DEF Spec

\* Every variable of the chat keeps its type.
THEOREM ChatTyped == Spec => []TypeOK
<1>1. IInv => TypeOK
  BY DEF IInv
<1> QED
  BY <1>1, ChatInvariant, PTL

\* Chat is one conversation (server_send_messages): each client hears a sender's
\* messages in order, and two clients what both hear in the same order.
THEOREM ChatInOrder == Spec => []HeardInOrder
<1>1. IInv => HeardInOrder
  BY DEF IInv
<1> QED
  BY <1>1, ChatInvariant, PTL

\* A failed write costs each client one message at most, and without one a tick leaves
\* nothing unsent (main.c:139-146).
THEOREM ChatLoss == Spec => []LossBounded
<1>1. IInv => LossBounded
  BY DEF IInv, LossBounded
<1> QED
  BY <1>1, ChatInvariant, PTL
=============================================================================
