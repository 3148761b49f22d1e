--------------------------------- MODULE Chat ---------------------------------
(***************************************************************************)
(* Chat messages: queued on the connection that said them (server_play)    *)
(* and written to every connection at the end of the tick                  *)
(* (server_send_messages and the loop in main around it).                  *)
(*                                                                         *)
(* A message is [from, n], the n-th message its connection said.           *)
(***************************************************************************)
EXTENDS Integers, FiniteSets, SequencesExt

CONSTANTS
  Conn,       \* connections; each joins once
  MaxSaid,    \* bound on the messages said
  MaxFailures \* bound on the writes that fail

ASSUME ChatAssumption ==
  /\ IsFiniteSet(Conn)
  /\ MaxSaid \in Nat /\ MaxFailures \in Nat

VARIABLES
  phase,    \* accept, serve or send
  list,     \* the list `connections'
  turn,     \* position in the list of the connection being served or sent
  queue,    \* messages_out of each connection
  fresh,    \* connections that have not joined yet
  said,     \* history: number of messages each connection said
  spoken,   \* history: number of messages said by all
  heard,    \* history: messages written to each connection
  before,   \* history: `said' when the connection joined
  failures  \* history: number of writes that failed

tickVars == <<phase, list, turn>>
clientVars == <<fresh, said, spoken, before>>
vars == <<tickVars, clientVars, queue, heard, failures>>

Message == [from : Conn, n : 1..MaxSaid]

TypeOK ==
  /\ phase \in {"accept", "serve", "send"}
  /\ list \in Seq(Conn) /\ turn \in 1..Len(list) + 1
  /\ queue \in [Conn -> Seq(Message)] /\ heard \in [Conn -> Seq(Message)]
  /\ fresh \subseteq Conn
  /\ said \in [Conn -> 0..MaxSaid] /\ spoken \in 0..MaxSaid
  /\ before \in [Conn -> [Conn -> 0..MaxSaid]]
  /\ failures \in 0..MaxFailures

Init ==
  /\ phase = "accept" /\ list = <<>> /\ turn = 1
  /\ queue = [c \in Conn |-> <<>>] /\ heard = [c \in Conn |-> <<>>]
  /\ fresh = Conn
  /\ said = [c \in Conn |-> 0] /\ spoken = 0
  /\ before = [c \in Conn |-> said]
  /\ failures = 0

-----------------------------------------------------------------------------
Enter(next) == phase' = next /\ turn' = 1

AcceptNobody ==
  /\ phase = "accept"
  /\ Enter("serve")
  /\ UNCHANGED <<list, clientVars, queue, heard, failures>>

Join(c) ==
  /\ phase = "accept" /\ c \in fresh
  /\ Enter("serve")
  /\ list' = Append(list, c)
  /\ fresh' = fresh \ {c}
  /\ before' = [before EXCEPT ![c] = said]
  /\ UNCHANGED <<said, spoken, queue, heard, failures>>

(***************************************************************************)
(* server_play of the connection whose turn it is.                         *)
(***************************************************************************)
Serving(c) == phase = "serve" /\ turn <= Len(list) /\ c = list[turn]

\* Mistake: list_prepend for list_append.
SayFirst(c) ==
  /\ Serving(c)
  /\ spoken < MaxSaid /\ spoken' = spoken + 1
  /\ said' = [said EXCEPT ![c] = @ + 1]
  /\ queue' = [queue EXCEPT ![c] = <<[from |-> c, n |-> said[c] + 1]>> \o @]
  /\ UNCHANGED <<tickVars, fresh, before, heard, failures>>

\* A sb_chat_message becomes a message at the end of the sender's own queue.
Say(c) ==
  /\ Serving(c)
  /\ spoken < MaxSaid /\ spoken' = spoken + 1
  /\ said' = [said EXCEPT ![c] = @ + 1]
  /\ queue' = [queue EXCEPT ![c] = Append(@, [from |-> c, n |-> said[c] + 1])]
  /\ UNCHANGED <<tickVars, fresh, before, heard, failures>>

Served(c) ==
  /\ Serving(c)
  /\ turn' = turn + 1
  /\ UNCHANGED <<phase, list, clientVars, queue, heard, failures>>

\* Mistakes: the cursor moves on past the connection that takes the place; the
\* queue is kept.
LeaveSkips(c) ==
  /\ Serving(c)
  /\ list' = RemoveAt(list, turn)
  /\ turn' = turn + 1
  /\ queue' = [queue EXCEPT ![c] = <<>>]
  /\ UNCHANGED <<phase, clientVars, heard, failures>>

LeaveKeepsQueue(c) ==
  /\ Serving(c)
  /\ list' = RemoveAt(list, turn)
  /\ UNCHANGED <<phase, turn, clientVars, queue, heard, failures>>

\* The connection ends: conn_finish frees what it said and was not sent.
Leave(c) ==
  /\ Serving(c)
  /\ list' = RemoveAt(list, turn)
  /\ queue' = [queue EXCEPT ![c] = <<>>]
  /\ UNCHANGED <<phase, turn, clientVars, heard, failures>>

AllServed ==
  /\ phase = "serve" /\ turn > Len(list)
  /\ Enter("send")
  /\ UNCHANGED <<list, clientVars, queue, heard, failures>>

(***************************************************************************)
(* The queues are sent in the order of the list, each until it is empty; a *)
(* message leaves its queue and is written to the connections in turn.     *)
(* The first failed write ends the phase.                                  *)
(***************************************************************************)
Sending(c) == phase = "send" /\ turn <= Len(list) /\ c = list[turn]

WriteTo(recipients, m) ==
  heard' = [c \in Conn |->
              IF c \in ToSet(recipients) THEN Append(heard[c], m) ELSE heard[c]]

Pop(c) == queue' = [queue EXCEPT ![c] = Tail(@)]

\* Mistake: one message of each queue per tick.
SendOne(c) ==
  /\ Sending(c) /\ queue[c] # <<>>
  /\ Pop(c)
  /\ WriteTo(list, Head(queue[c]))
  /\ turn' = turn + 1
  /\ UNCHANGED <<phase, list, clientVars, failures>>

Send(c) ==
  /\ Sending(c) /\ queue[c] # <<>>
  /\ Pop(c)
  /\ WriteTo(list, Head(queue[c]))
  /\ UNCHANGED <<tickVars, clientVars, failures>>

\* Mistakes: the message stays queued and is written again to those that have
\* it; the rest of the queue is discarded with it.
SendFailsRetries(c, k) ==
  /\ Sending(c) /\ queue[c] # <<>>
  /\ failures < MaxFailures
  /\ failures' = failures + 1
  /\ WriteTo(SubSeq(list, 1, k), Head(queue[c]))
  /\ Enter("accept")
  /\ UNCHANGED <<list, clientVars, queue>>

SendFailsDiscards(c, k) ==
  /\ Sending(c) /\ queue[c] # <<>>
  /\ failures < MaxFailures
  /\ failures' = failures + 1
  /\ queue' = [queue EXCEPT ![c] = <<>>]
  /\ WriteTo(SubSeq(list, 1, k), Head(queue[c]))
  /\ Enter("accept")
  /\ UNCHANGED <<list, clientVars>>

\* Only the first k connections get the message.
SendFails(c, k) ==
  /\ Sending(c) /\ queue[c] # <<>>
  /\ failures < MaxFailures
  /\ failures' = failures + 1
  /\ Pop(c)
  /\ WriteTo(SubSeq(list, 1, k), Head(queue[c]))
  /\ Enter("accept")
  /\ UNCHANGED <<list, clientVars>>

QueueSent(c) ==
  /\ Sending(c) /\ queue[c] = <<>>
  /\ turn' = turn + 1
  /\ UNCHANGED <<phase, list, clientVars, queue, heard, failures>>

AllSent ==
  /\ phase = "send" /\ turn > Len(list)
  /\ Enter("accept")
  /\ UNCHANGED <<list, clientVars, queue, heard, failures>>

Next ==
  \/ AcceptNobody
  \/ AllServed
  \/ AllSent
  \/ \E c \in Conn :
       \/ Join(c)
       \/ Say(c)
       \/ Served(c)
       \/ Leave(c)
       \/ Send(c)
       \/ QueueSent(c)
       \/ \E k \in 0..Len(list) - 1 : SendFails(c, k)

Spec == Init /\ [][Next]_vars

\* The main loop never stops by itself; a connection's packets run out.
Fairness ==
  /\ WF_vars(AcceptNobody) /\ WF_vars(AllServed) /\ WF_vars(AllSent)
  /\ \A c \in Conn : WF_vars(Served(c)) /\ WF_vars(Send(c)) /\ WF_vars(QueueSent(c))

FairSpec == Spec /\ Fairness

-----------------------------------------------------------------------------
Present == ToSet(list)

Before(s, m, o) == \E i, j \in DOMAIN s : i < j /\ s[i] = m /\ s[j] = o

\* Every client hears each sender's messages in the order they were said and
\* none twice, whatever writes fail and whoever leaves between the ticks.
SendersInOrder ==
  \A c \in Conn : \A i, j \in DOMAIN heard[c] :
    /\ i < j
    /\ heard[c][i].from = heard[c][j].from
    => heard[c][i].n < heard[c][j].n

\* Two clients that hear the same two messages hear them in the same order.
SameOrder ==
  \A c, d \in Conn : \A m, o \in ToSet(heard[c]) \cap ToSet(heard[d]) :
    Before(heard[c], m, o) => ~Before(heard[d], o, m)

\* Chat is one conversation for all who hear it.
HeardInOrder == SendersInOrder /\ SameOrder

\* What a present client missed of what others, still present, have said since
\* it joined and that is no longer waiting.
Missed(c) ==
  {m \in Message :
     /\ m.from \in Present
     /\ m.n > before[c][m.from] /\ m.n <= said[m.from]
     /\ m \notin ToSet(queue[m.from]) \cup ToSet(heard[c])}

\* A failed write costs each client one message at most: those behind it wait
\* in their queues for the next tick (main.c:139-146).
OneLostPerFailure == \A c \in Present : Cardinality(Missed(c)) <= failures

\* As long as no write failed, a tick leaves nothing unsaid behind, and nobody
\* hears what was said before he joined.
TickDrains ==
  failures = 0 =>
    /\ phase = "accept" => \A c \in Conn : queue[c] = <<>>
    /\ \A c \in Conn : \A m \in ToSet(heard[c]) : m.n > before[c][m.from]

\* Nothing is lost but by failing writes, and then little.
LossBounded == OneLostPerFailure /\ TickDrains

\* What is said is sent or leaves with its sender: no queue waits forever
\* behind a write that failed.
EverythingSent ==
  \A c \in Conn : queue[c] # <<>> ~> queue[c] = <<>>
=============================================================================
