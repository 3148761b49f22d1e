------------------------------ MODULE KeepAlive ------------------------------
(***************************************************************************)
(* The keep-alive exchange between the server and one client (the end of   *)
(* server_play and the handler of sb_keep_alive).                          *)
(*                                                                         *)
(* Time is counted in seconds, as time(NULL) does.  A tick serves the      *)
(* connection once.  Ticks normally follow each other within a second, but *)
(* stall while another client logs in, because accepted sockets block.     *)
(* The client answers a ping after a delay of its own, or never; the       *)
(* stream keeps the answers in order until the server reads them.          *)
(***************************************************************************)
EXTENDS Integers, Sequences, FiniteSets

CONSTANTS
  PongLimit,  \* a connection whose last pong is older is closed: 30
  PingPeriod, \* a ping is sent when the last one is older: 3
  Delays,     \* delays with which the client may answer a ping
  Gaps,       \* seconds that may pass between two ticks
  LastSecond  \* bound on the clock

ASSUME KeepAliveAssumption ==
  /\ PongLimit \in Nat /\ PingPeriod \in Nat /\ LastSecond \in Nat
  /\ Delays \subseteq Nat /\ Gaps \subseteq Nat \ {0}

VARIABLES
  now,      \* time(NULL), counted from the second in which the player joined
  open,     \* the connection is on the server's list
  lastPing, \* last_ping
  lastPong, \* last_pong
  id,       \* keep_alive_id: a ping is identified by the second it was sent in
  stream,   \* answers under way: [id, at], readable from second `at'
  acked,    \* history: second in which the last ping that the client answered
            \* while it was the latest had been sent
  prompt    \* history: the client answered every ping before the next fell due

vars == <<now, open, lastPing, lastPong, id, stream, acked, prompt>>

\* The player is new: last_ping and keep_alive_id are 0, which is long ago and
\* the id of no ping.
LongAgo == -(PingPeriod + 1)

TypeOK ==
  /\ now \in 0..LastSecond /\ open \in BOOLEAN
  /\ lastPing \in LongAgo..LastSecond /\ id \in LongAgo..LastSecond
  /\ lastPong \in 0..LastSecond /\ acked \in 0..LastSecond
  /\ prompt \in BOOLEAN
  /\ stream \in Seq([id : 0..LastSecond, at : Nat])

\* Mistake: the first pong is never set.
InitWithoutPong ==
  /\ now = 0 /\ open = TRUE
  /\ lastPing = LongAgo /\ id = LongAgo
  /\ lastPong = LongAgo /\ acked = 0
  /\ stream = <<>> /\ prompt = TRUE

Init ==
  /\ now = 0 /\ open = TRUE
  /\ lastPing = LongAgo /\ id = LongAgo
  /\ lastPong = 0 /\ acked = 0
  /\ stream = <<>> /\ prompt = TRUE

-----------------------------------------------------------------------------
(***************************************************************************)
(* One call of server_play in second t: it reads all the stream holds,     *)
(* then looks at the last pong, then at the last ping.                     *)
(***************************************************************************)
Readable(t) == {i \in DOMAIN stream : stream[i].at <= t}

\* Mistake: any answer counts.
MatchesAny(i) == stream[i].id <= id

\* An answer counts only when it names the latest ping.
Matches(i) == stream[i].id = id

Ponged(t) == \E i \in Readable(t) : Matches(i)

PongAfter(t) == IF Ponged(t) THEN t ELSE lastPong

\* Mistake: the time is taken before the packets are read.
TimedOutUnread(t) == t - lastPong > PongLimit

TimedOut(t) == t - PongAfter(t) > PongLimit

PingDue(t) == t - lastPing > PingPeriod

Unread(t) == SubSeq(stream, Cardinality(Readable(t)) + 1, Len(stream))

\* The answer to a ping sent in second t, behind what is under way already.
Answer(t, delay) ==
  LET earlier == {stream[i].at : i \in DOMAIN stream}
  IN [id |-> t,
      at |-> CHOOSE m \in earlier \cup {t + delay} :
               \A n \in earlier \cup {t + delay} : n <= m]

Read(t) ==
  /\ now' = t
  /\ lastPong' = PongAfter(t)
  /\ acked' = IF \E i \in Readable(t) : stream[i].id = id THEN id ELSE acked

Close(t) ==
  /\ open /\ TimedOut(t)
  /\ Read(t)
  /\ open' = FALSE /\ stream' = <<>>
  /\ UNCHANGED <<lastPing, id, prompt>>

Ping(t) ==
  /\ open /\ ~TimedOut(t) /\ PingDue(t)
  /\ Read(t)
  /\ lastPing' = t /\ id' = t
  /\ \/ stream' = Unread(t) /\ prompt' = FALSE
     \/ \E delay \in Delays :
          /\ stream' = Append(Unread(t), Answer(t, delay))
          /\ prompt' = (prompt /\ delay <= PingPeriod + 1)
  /\ UNCHANGED open

Rest(t) ==
  /\ open /\ ~TimedOut(t) /\ ~PingDue(t)
  /\ Read(t)
  /\ stream' = Unread(t)
  /\ UNCHANGED <<open, lastPing, id, prompt>>

Next ==
  \E gap \in Gaps :
    /\ now + gap <= LastSecond
    /\ Close(now + gap) \/ Ping(now + gap) \/ Rest(now + gap)

Spec == Init /\ [][Next]_vars

-----------------------------------------------------------------------------
\* A client that answers every ping before the next one falls due is never
\* closed (server.c:432-437), however its delays vary and although logins of
\* others stall the ticks: the answers that piled up in a stall are read
\* before the time is taken.
AnsweringStays == prompt => open

\* A client that went silent is closed (server.c:432-437), even while answers
\* to older pings are still arriving: the last ping it answered in time was
\* sent at most PongLimit seconds, one ping period and one gap ago.
Longest == CHOOSE g \in Gaps : \A h \in Gaps : h <= g

SilentIsClosed == open => now - acked <= PongLimit + PingPeriod + Longest
=============================================================================
