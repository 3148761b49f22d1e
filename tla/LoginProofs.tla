------------------------------ MODULE LoginProofs ------------------------------
(***************************************************************************)
(* What holds of a login for every set of names, every set of secrets and  *)
(* every set of sessions the session server knows.                         *)
(***************************************************************************)
EXTENDS Login, TLAPS

MessageKinds ==
  {"status", "login", "other", "request", "ping", "login_start", "response",
   "status_json", "pong", "key", "success"}

\* What server_accept_connection has allocated before each of its steps.
HeapBefore ==
  /\ pc \in {"handshake", "request", "ping", "login_start"} => heap = {"conn"}
  /\ pc = "response" => heap = {"conn", "player"}
  /\ pc = "decrypt" => heap = {"conn", "player", "secret", "token"}
  /\ pc = "identify" => heap = {"conn", "player", "secret", "ciphers", "queue"}
  /\ pc = "success" => heap \ {"textures"} = {"conn", "player", "ciphers", "queue"}
  /\ HeapAccounted

\* What the server knows of the client: the cipher is the client's from the moment it
\* is set, and past Identify the session server has vouched for name and secret.
Known ==
  /\ (outcome = "none") = (pc # "end")
  /\ pc \in {"handshake", "request", "ping", "login_start", "response", "decrypt"} =>
       cipher = Plain
  /\ pc = "decrypt" => response \in Message /\ response.secret = chosen
  /\ pc = "identify" => cipher = chosen /\ response.secret = chosen
  /\ pc = "success" \/ outcome = "joined" =>
       cipher = chosen /\ <<name, cipher>> \in Sessions
  /\ name \in {claim, Nobody}

\* What the client has under way is its own and readable without a cipher.
OwnMessages ==
  \A i \in 1..Len(toServer) :
    /\ toServer[i].cipher = Plain
    /\ toServer[i].name = claim /\ toServer[i].secret = chosen

\* The client is at s and the server has n of its messages yet to read.
Client(s, n) == step = s /\ Len(toServer) = n

\* Whose turn it is: where the server is, where a client that has not closed is, and
\* what is under way between them.
InTurn ==
  /\ pc = "handshake" =>
       /\ toClient = <<>>
       /\ \/ Client("handshake", 0)
          \/ Client("done", 1) /\ Head(toServer).kind = "other"
          \/ /\ Client("request", 1) \/ Client("status_json", 2)
             /\ Head(toServer).kind = "status"
          \/ /\ Client("login_start", 1) \/ Client("key", 2)
             /\ Head(toServer).kind = "login"
  /\ pc = "request" =>
       toClient = <<>> /\ (Client("request", 0) \/ Client("status_json", 1))
  /\ pc = "ping" =>
       \/ Client("status_json", 0) /\ Len(toClient) = 1
       \/ (Client("ping", 0) \/ Client("pong", 1)) /\ toClient = <<>>
  /\ pc = "login_start" =>
       toClient = <<>> /\ (Client("login_start", 0) \/ Client("key", 1))
  /\ pc = "response" =>
       \/ Client("key", 0) /\ Len(toClient) = 1
       \/ (Client("response", 0) \/ Client("success", 1)) /\ toClient = <<>>
  /\ pc \in {"decrypt", "identify", "success"} => Client("success", 0) /\ toClient = <<>>
  /\ pc = "end" => toClient = <<>> \/ Len(toClient) = 1

\* What the client will read is what it waits for, under the cipher it expects.
Expected ==
  toClient # <<>> =>
    /\ step \in {"status_json", "pong", "key", "success"} /\ Head(toClient).kind = step
    /\ Head(toClient).cipher = IF step = "success" THEN chosen ELSE Plain

\* The inductive invariant.  The four properties are not inductive: that nothing is
\* garbled needs the turns, that who joins is vouched for needs what is known between
\* Decrypt and Success, and what is left needs what was allocated before.
IInv ==
  /\ TypeOK /\ ~garbled
  /\ HeapBefore /\ Known /\ OwnMessages
  /\ step # "closed" => InTurn /\ Expected

-----------------------------------------------------------------------------
(* Messages. *)

\* What is sent is a message of the client's name and secret.
LEMMA SentIsMessage ==
  ASSUME TypeOK, NEW kind \in MessageKinds, NEW good \in BOOLEAN, NEW token \in BOOLEAN,
         NEW key \in Secret \cup {Plain}
  PROVE  /\ Sent(kind, good, token, key) \in Message
         /\ Sent(kind, good, token, key).kind = kind
         /\ Sent(kind, good, token, key).cipher = key
         /\ Sent(kind, good, token, key).name = claim
         /\ Sent(kind, good, token, key).secret = chosen
  BY DEF Sent, Message, MessageKinds, TypeOK

\* A message appended to a queue is behind those there were.
LEMMA Queued ==
  ASSUME NEW S, NEW q \in Seq(S), NEW m \in S
  PROVE  /\ Append(q, m) \in Seq(S) /\ Append(q, m) # <<>>
         /\ Len(Append(q, m)) = Len(q) + 1
         /\ \A i \in 1..Len(q) : Append(q, m)[i] = q[i]
         /\ Append(q, m)[Len(q) + 1] = m
         /\ Head(Append(q, m)) = IF q = <<>> THEN m ELSE Head(q)
  OBVIOUS

\* A message taken from a queue is its first, and the others move up.
LEMMA Taken ==
  ASSUME NEW S, NEW q \in Seq(S), q # <<>>
  PROVE  /\ Tail(q) \in Seq(S) /\ Head(q) \in S /\ Head(q) = q[1]
         /\ 1 \in 1..Len(q) /\ Len(Tail(q)) = Len(q) - 1
         /\ \A i \in 1..Len(Tail(q)) : i + 1 \in 1..Len(q) /\ Tail(q)[i] = q[i + 1]
  OBVIOUS

-----------------------------------------------------------------------------
(* The client. *)

\* Sending keeps the invariant: the turn passes to the server, which finds the message
\* at the end of what it has yet to read.
LEMMA ClientSendsKeeps ==
  ASSUME IInv, NEW kind \in MessageKinds, NEW now, NEW then,
         <<kind, now, then>> \in
           {<<"status", "handshake", "request">>, <<"login", "handshake", "login_start">>,
            <<"other", "handshake", "done">>, <<"request", "request", "status_json">>,
            <<"ping", "ping", "pong">>, <<"login_start", "login_start", "key">>,
            <<"response", "response", "success">>},
         ClientSends(kind, now, then)
  PROVE  IInv'
<1>1. TypeOK
  BY DEF IInv
<1>2. PICK good \in BOOLEAN, token \in BOOLEAN :
        toServer' = Append(toServer, Sent(kind, good, token, Plain))
  BY DEF ClientSends
<1> DEFINE m == Sent(kind, good, token, Plain)
<1>3. /\ m \in Message /\ m.kind = kind /\ m.cipher = Plain
      /\ m.name = claim /\ m.secret = chosen
  BY <1>1, SentIsMessage
<1> HIDE DEF m
<1>4. /\ toServer' \in Seq(Message) /\ Len(toServer') = Len(toServer) + 1
      /\ \A i \in 1..Len(toServer) : toServer'[i] = toServer[i]
      /\ toServer'[Len(toServer) + 1] = m
      /\ Head(toServer') = IF toServer = <<>> THEN m ELSE Head(toServer)
      /\ Len(toServer) \in Nat /\ (toServer = <<>> <=> Len(toServer) = 0)
  BY <1>1, <1>2, <1>3, Queued DEF TypeOK, m
<1>5. /\ step = now /\ step' = then
      /\ UNCHANGED <<pc, outcome, heap, name, response, cipher, claim, chosen,
                     toClient, garbled>>
  BY DEF ClientSends, server
<1>6. TypeOK'
  BY <1>1, <1>4, <1>5 DEF TypeOK
<1>7. OwnMessages'
  <2> SUFFICES ASSUME NEW i \in 1..Len(toServer')
               PROVE  /\ toServer'[i].cipher = Plain
                      /\ toServer'[i].name = claim /\ toServer'[i].secret = chosen
    BY <1>5 DEF OwnMessages
  <2>1. CASE i \in 1..Len(toServer)
    BY <1>4, <2>1 DEF IInv, OwnMessages
  <2>2. CASE i = Len(toServer) + 1
    BY <1>3, <1>4, <2>2
  <2> QED
    BY <1>4, <2>1, <2>2
<1>8. (~garbled /\ HeapBefore /\ Known)'
  BY <1>5 DEF IInv, HeapBefore, Known, HeapAccounted
<1>9. InTurn'
  BY <1>3, <1>4, <1>5 DEF IInv, InTurn, Client, Expected
<1>10. Expected'
  BY <1>5 DEF IInv, InTurn, Client, Expected
<1> QED
  BY <1>6, <1>7, <1>8, <1>9, <1>10 DEF IInv

\* Reading keeps the invariant: the one message there is is the one waited for.
LEMMA ClientReadsKeeps ==
  ASSUME IInv, NEW kind, NEW then, NEW key,
         <<kind, then, key>> \in
           {<<"status_json", "ping", Plain>>, <<"pong", "done", Plain>>,
            <<"key", "response", Plain>>, <<"success", "done", chosen>>},
         ClientReads(kind, then, key)
  PROVE  IInv'
<1>1. TypeOK /\ InTurn /\ Expected /\ ~garbled
  BY DEF IInv, ClientReads
<1>2. /\ step = kind /\ step' = then /\ toClient # <<>> /\ toClient' = Tail(toClient)
      /\ garbled' = (garbled \/ Head(toClient).kind # kind \/ Head(toClient).cipher # key)
      /\ UNCHANGED <<pc, outcome, heap, name, response, cipher, claim, chosen, toServer>>
  BY DEF ClientReads, server
<1>3. ~garbled'
  BY <1>1, <1>2 DEF Expected
<1>4. toClient' \in Seq(Message) /\ (Len(toClient) = 1 => toClient' = <<>>)
  BY <1>1, <1>2 DEF TypeOK
<1>5. TypeOK'
  BY <1>1, <1>2, <1>3, <1>4 DEF TypeOK
<1>6. (HeapBefore /\ Known /\ OwnMessages)'
  BY <1>2 DEF IInv, HeapBefore, Known, HeapAccounted, OwnMessages
<1>7. InTurn' /\ toClient' = <<>>
  BY <1>1, <1>2, <1>4 DEF InTurn, Client, TypeOK
<1> QED
  BY <1>3, <1>5, <1>6, <1>7 DEF IInv, Expected

\* Whatever the client sends or reads keeps the invariant.
LEMMA ClientProceedsKeeps == IInv /\ ClientProceeds => IInv'
<1> SUFFICES ASSUME IInv, ClientProceeds PROVE IInv'
  OBVIOUS
<1>1. ASSUME NEW kind \in {"status", "login", "other"}, NEW then,
             <<kind, then>> \in {<<"status", "request">>, <<"login", "login_start">>,
                                 <<"other", "done">>},
             ClientSends(kind, "handshake", then)
      PROVE  IInv'
  BY <1>1, ClientSendsKeeps DEF MessageKinds
<1>2. CASE ClientSends("request", "request", "status_json")
  BY <1>2, ClientSendsKeeps DEF MessageKinds
<1>3. CASE ClientSends("ping", "ping", "pong")
  BY <1>3, ClientSendsKeeps DEF MessageKinds
<1>4. CASE ClientSends("login_start", "login_start", "key")
  BY <1>4, ClientSendsKeeps DEF MessageKinds
<1>5. CASE ClientSends("response", "response", "success")
  BY <1>5, ClientSendsKeeps DEF MessageKinds
<1>6. CASE \/ ClientReads("status_json", "ping", Plain) \/ ClientReads("pong", "done", Plain)
           \/ ClientReads("key", "response", Plain) \/ ClientReads("success", "done", chosen)
  BY <1>6, ClientReadsKeeps
<1> QED
  BY <1>1, <1>2, <1>3, <1>4, <1>5, <1>6 DEF ClientProceeds

\* Closing keeps it: of a client that has closed nothing is expected.
LEMMA ClientClosesKeeps == IInv /\ ClientCloses => IInv'
  BY DEF IInv, ClientCloses, server, TypeOK, HeapBefore, Known, HeapAccounted, OwnMessages

-----------------------------------------------------------------------------
(* The server. *)

\* What a read gives: the client's next message, which no cipher garbles, or the end
\* of the stream once the client has closed.
LEMMA ReadsInTurn ==
  ASSUME IInv, Reads, cipher = Plain, UNCHANGED <<step, claim, chosen>>
  PROVE  /\ garbled' = FALSE /\ toServer' \in Seq(Message) /\ OwnMessages'
         /\ toServer = <<>> => step = "closed"
         /\ toServer # <<>> =>
              /\ Head(toServer) \in Message
              /\ Head(toServer).name = claim /\ Head(toServer).secret = chosen
         /\ \A s : /\ Client(s, 0) => step = "closed"
                   /\ Client(s, 1) => Client(s, 0)'
                   /\ Client(s, 2) => Client(s, 1)'
<1>1. TypeOK /\ OwnMessages /\ ~garbled
  BY DEF IInv
<1>2. CASE toServer = <<>>
  BY <1>1, <1>2 DEF Reads, TypeOK, OwnMessages, Client
<1>3. CASE toServer # <<>>
  <2>1. /\ toServer' = Tail(toServer)
        /\ garbled' = (garbled \/ Head(toServer).cipher # cipher)
    BY <1>3 DEF Reads
  <2>2. /\ toServer' \in Seq(Message) /\ Head(toServer) \in Message
        /\ Head(toServer) = toServer[1] /\ 1 \in 1..Len(toServer)
        /\ Len(toServer') = Len(toServer) - 1
        /\ \A i \in 1..Len(toServer') : i + 1 \in 1..Len(toServer) /\ toServer'[i] = toServer[i + 1]
        /\ Len(toServer) \in Nat /\ Len(toServer) # 0
    BY <1>1, <1>3, <2>1, Taken DEF TypeOK
  <2>3. OwnMessages'
    BY <1>1, <2>2 DEF OwnMessages
  <2>4. /\ Head(toServer).cipher = Plain /\ Head(toServer).name = claim
        /\ Head(toServer).secret = chosen
    BY <1>1, <2>2 DEF OwnMessages
  <2>5. \A s : /\ Client(s, 0) => step = "closed"
               /\ Client(s, 1) => Client(s, 0)'
               /\ Client(s, 2) => Client(s, 1)'
    BY <2>2 DEF Client
  <2> QED
    BY <1>1, <1>3, <2>1, <2>2, <2>3, <2>4, <2>5
<1> QED
  BY <1>2, <1>3

\* What the server writes when the client waits for it.
LEMMA WritesExpected ==
  ASSUME TypeOK, toClient = <<>>, NEW kind \in MessageKinds, Writes(kind)
  PROVE  /\ toClient' \in Seq(Message) /\ toClient' # <<>> /\ Len(toClient') = 1
         /\ Head(toClient').kind = kind /\ Head(toClient').cipher = cipher
<1> DEFINE m == Sent(kind, TRUE, TRUE, cipher)
<1>1. m \in Message /\ m.kind = kind /\ m.cipher = cipher
  BY SentIsMessage DEF TypeOK
<1> HIDE DEF m
<1>2. toClient' = Append(toClient, m)
  BY DEF Writes, m
<1> QED
  BY <1>1, <1>2, Queued DEF TypeOK

\* Writing to the client's queue keeps it a queue of messages, whoever waits.
LEMMA WritesTyped ==
  ASSUME TypeOK, NEW kind \in MessageKinds, Writes(kind)
  PROVE  toClient' \in Seq(Message)
<1>1. Sent(kind, TRUE, TRUE, cipher) \in Message
  BY SentIsMessage DEF TypeOK
<1> QED
  BY <1>1, Queued DEF TypeOK, Writes

\* Every way of not joining keeps the invariant: of the client's messages nothing is
\* misread, and what is left of the heap is what HeapAccounted allows.
LEMMA EndKeeps ==
  ASSUME IInv, pc' = "end", outcome' \in {"closed", "crashed"},
         heap' \subseteq heap \cup {"player", "secret", "token", "ciphers", "hash", "textures"},
         outcome' = "closed" =>
           heap' \subseteq {"conn", "hash"} /\ (heap' # {} => cipher' # Plain),
         cipher' \in Secret \cup {Plain}, response' \in Message \cup {NoMessage},
         name' \in {claim, Nobody},
         toServer' \in Seq(Message), OwnMessages', garbled' = FALSE,
         UNCHANGED <<step, claim, chosen, toClient>>
  PROVE  IInv'
<1>1. (TypeOK /\ HeapBefore /\ Known)'
  BY DEF IInv, TypeOK, HeapBefore, Known, HeapAccounted
<1>2. ASSUME step # "closed"
      PROVE  (InTurn /\ Expected)'
  <2>1. InTurn /\ pc \in {"handshake", "request", "ping", "login_start", "response",
                          "decrypt", "identify", "success", "end"}
    BY <1>2 DEF IInv, TypeOK
  <2>2. toClient = <<>> \/ Len(toClient) = 1
    BY <2>1 DEF InTurn
  <2> QED
    BY <1>2, <2>2 DEF IInv, InTurn, Expected
<1> QED
  BY <1>1, <1>2 DEF IInv

\* server_handshake keeps it: the connection goes where the client went.
LEMMA HandshakeKeeps == IInv /\ Handshake => IInv'
<1> SUFFICES ASSUME IInv, Handshake PROVE IInv'
  OBVIOUS
<1>1. /\ pc = "handshake" /\ Reads
      /\ UNCHANGED <<step, claim, chosen, name, response, cipher, toClient>>
  BY DEF Handshake, client
<1>2. /\ TypeOK /\ heap = {"conn"} /\ cipher = Plain /\ outcome = "none"
      /\ name \in {claim, Nobody}
      /\ step # "closed" => InTurn /\ toClient = <<>>
  BY <1>1 DEF IInv, HeapBefore, Known, InTurn
<1>3. /\ garbled' = FALSE /\ toServer' \in Seq(Message) /\ OwnMessages'
      /\ toServer = <<>> => step = "closed"
  BY <1>1, <1>2, ReadsInTurn
<1>4. \A s : /\ Client(s, 0) => step = "closed"
             /\ Client(s, 1) => Client(s, 0)'
             /\ Client(s, 2) => Client(s, 1)'
  BY <1>1, <1>2, ReadsInTurn
<1>5. CASE /\ Accepted /\ Head(toServer).kind \in {"status", "login"}
           /\ Goes(IF Head(toServer).kind = "status" THEN "request" ELSE "login_start", heap)
  <2>1. /\ pc' = IF Head(toServer).kind = "status" THEN "request" ELSE "login_start"
        /\ heap' = {"conn"} /\ outcome' = "none" /\ toServer # <<>>
    BY <1>2, <1>5 DEF Goes, Accepted
  <2>2. (TypeOK /\ HeapBefore /\ Known)'
    BY <1>1, <1>2, <1>3, <2>1 DEF TypeOK, HeapBefore, Known, HeapAccounted
  <2>3. ASSUME step # "closed"
        PROVE  (InTurn /\ Expected)'
    <3>1. CASE Head(toServer).kind = "status"
      <4>1. Client("request", 1) \/ Client("status_json", 2)
        BY <1>1, <1>2, <1>4, <2>1, <2>3, <3>1 DEF InTurn
      <4> QED
        BY <1>1, <1>2, <1>4, <2>1, <2>3, <3>1, <4>1 DEF InTurn, Expected
    <3>2. CASE Head(toServer).kind = "login"
      <4>1. Client("login_start", 1) \/ Client("key", 2)
        BY <1>1, <1>2, <1>4, <2>1, <2>3, <3>2 DEF InTurn
      <4> QED
        BY <1>1, <1>2, <1>4, <2>1, <2>3, <3>2, <4>1 DEF InTurn, Expected
    <3> QED
      BY <1>5, <3>1, <3>2
  <2> QED
    BY <1>1, <1>3, <2>2, <2>3 DEF IInv
<1>6. CASE Refuse \/ Aborts
  <2>1. /\ pc' = "end" /\ outcome' \in {"closed", "crashed"}
        /\ heap' \subseteq heap /\ (outcome' = "closed" => heap' = {})
    BY <1>2, <1>6 DEF Refuse, Aborts, End
  <2> QED
    BY <1>1, <1>2, <1>3, <2>1, EndKeeps DEF TypeOK
<1> QED
  BY <1>5, <1>6 DEF Handshake

\* The status answer keeps it: the client waits for just that.
LEMMA RequestKeeps == IInv /\ Request => IInv'
<1> SUFFICES ASSUME IInv, Request PROVE IInv'
  OBVIOUS
<1>1. /\ pc = "request" /\ Reads
      /\ UNCHANGED <<step, claim, chosen, name, response, cipher>>
  BY DEF Request, client
<1>2. /\ TypeOK /\ heap = {"conn"} /\ cipher = Plain /\ outcome = "none"
      /\ name \in {claim, Nobody}
      /\ step # "closed" =>
           toClient = <<>> /\ (Client("request", 0) \/ Client("status_json", 1))
  BY <1>1 DEF IInv, HeapBefore, Known, InTurn
<1>3. /\ garbled' = FALSE /\ toServer' \in Seq(Message) /\ OwnMessages'
  BY <1>1, <1>2, ReadsInTurn
<1>4. \A s : /\ Client(s, 0) => step = "closed"
             /\ Client(s, 1) => Client(s, 0)'
  BY <1>1, <1>2, ReadsInTurn
<1>5. CASE Goes("ping", heap) /\ Writes("status_json")
  <2>1. pc' = "ping" /\ heap' = {"conn"} /\ outcome' = "none"
    BY <1>2, <1>5 DEF Goes
  <2>2. toClient' \in Seq(Message)
    BY <1>2, <1>5, WritesTyped DEF MessageKinds
  <2>3. (TypeOK /\ HeapBefore /\ Known)'
    BY <1>1, <1>2, <1>3, <2>1, <2>2 DEF TypeOK, HeapBefore, Known, HeapAccounted
  <2>4. ASSUME step # "closed"
        PROVE  (InTurn /\ Expected)'
    <3>1. Client("status_json", 0)' /\ step' = "status_json"
      BY <1>2, <1>4, <2>4 DEF Client
    <3>2. /\ Len(toClient') = 1 /\ Head(toClient').kind = "status_json"
          /\ Head(toClient').cipher = Plain
      BY <1>2, <1>5, <2>4, WritesExpected DEF MessageKinds
    <3> QED
      BY <2>1, <3>1, <3>2 DEF InTurn, Expected
  <2> QED
    BY <1>1, <1>3, <2>3, <2>4 DEF IInv
<1>6. CASE (Refuse \/ Broken) /\ UNCHANGED toClient
  <2>1. /\ pc' = "end" /\ outcome' \in {"closed", "crashed"}
        /\ heap' \subseteq heap /\ (outcome' = "closed" => heap' = {})
    BY <1>2, <1>6 DEF Refuse, Broken, End
  <2> QED
    BY <1>1, <1>2, <1>3, <1>6, <2>1, EndKeeps DEF TypeOK
<1> QED
  BY <1>5, <1>6 DEF Request

\* The pong keeps it, and with it all the connection allocated is given back.
LEMMA PingKeeps == IInv /\ Ping => IInv'
<1> SUFFICES ASSUME IInv, Ping PROVE IInv'
  OBVIOUS
<1>1. /\ pc = "ping" /\ Reads
      /\ UNCHANGED <<step, claim, chosen, name, response, cipher>>
  BY DEF Ping, client
<1>2. /\ TypeOK /\ heap = {"conn"} /\ cipher = Plain /\ outcome = "none"
      /\ name \in {claim, Nobody}
  BY <1>1 DEF IInv, HeapBefore, Known
<1>3. /\ garbled' = FALSE /\ toServer' \in Seq(Message) /\ OwnMessages'
  BY <1>1, <1>2, ReadsInTurn
<1>4. /\ pc' = "end" /\ outcome' \in {"closed", "crashed"}
      /\ heap' \subseteq heap /\ (outcome' = "closed" => heap' = {})
  BY <1>1, <1>2 DEF Ping, Refuse, Broken, Aborts, End
<1>5. CASE UNCHANGED toClient
  BY <1>1, <1>2, <1>3, <1>4, <1>5, EndKeeps DEF TypeOK
<1>6. CASE Accepted /\ Writes("pong")
  <2>1. toClient' \in Seq(Message)
    BY <1>2, <1>6, WritesTyped DEF MessageKinds
  <2>2. (TypeOK /\ HeapBefore /\ Known)'
    BY <1>1, <1>2, <1>3, <1>4, <2>1 DEF TypeOK, HeapBefore, Known, HeapAccounted
  <2>3. ASSUME step # "closed"
        PROVE  (InTurn /\ Expected)'
    <3>1. Client("pong", 1) /\ toClient = <<>>
      BY <1>1, <1>2, <2>3, ReadsInTurn DEF IInv, InTurn
    <3>2. /\ Len(toClient') = 1 /\ Head(toClient').kind = "pong"
          /\ Head(toClient').cipher = Plain
      BY <1>2, <1>6, <3>1, WritesExpected DEF MessageKinds
    <3> QED
      BY <1>1, <1>4, <3>1, <3>2 DEF InTurn, Expected, Client
  <2> QED
    BY <1>1, <1>3, <2>2, <2>3 DEF IInv
<1> QED
  BY <1>5, <1>6 DEF Ping

\* login's first half keeps it: the name is the client's, or none.
LEMMA LoginStartKeeps == IInv /\ LoginStart => IInv'
<1> SUFFICES ASSUME IInv, LoginStart PROVE IInv'
  OBVIOUS
<1>1. /\ pc = "login_start" /\ Reads
      /\ name' = IF Accepted THEN Head(toServer).name ELSE name
      /\ UNCHANGED <<step, claim, chosen, response, cipher>>
  BY DEF LoginStart, client
<1>2. /\ TypeOK /\ heap = {"conn"} /\ cipher = Plain /\ outcome = "none"
      /\ name \in {claim, Nobody}
      /\ step # "closed" =>
           toClient = <<>> /\ (Client("login_start", 0) \/ Client("key", 1))
  BY <1>1 DEF IInv, HeapBefore, Known, InTurn
<1>3. /\ garbled' = FALSE /\ toServer' \in Seq(Message) /\ OwnMessages'
      /\ toServer # <<>> => Head(toServer).name = claim
  BY <1>1, <1>2, ReadsInTurn
<1>4. \A s : /\ Client(s, 0) => step = "closed"
             /\ Client(s, 1) => Client(s, 0)'
  BY <1>1, <1>2, ReadsInTurn
<1>5. name' \in {claim, Nobody}
  BY <1>1, <1>2, <1>3 DEF Accepted
<1>6. CASE Goes("response", heap \cup {"player"}) /\ Writes("key")
  <2>1. pc' = "response" /\ heap' = {"conn", "player"} /\ outcome' = "none"
    BY <1>2, <1>6 DEF Goes
  <2>2. toClient' \in Seq(Message)
    BY <1>2, <1>6, WritesTyped DEF MessageKinds
  <2>3. (TypeOK /\ HeapBefore /\ Known)'
    BY <1>1, <1>2, <1>3, <1>5, <2>1, <2>2 DEF TypeOK, HeapBefore, Known, HeapAccounted
  <2>4. ASSUME step # "closed"
        PROVE  (InTurn /\ Expected)'
    <3>1. Client("key", 0)' /\ step' = "key"
      BY <1>2, <1>4, <2>4 DEF Client
    <3>2. /\ Len(toClient') = 1 /\ Head(toClient').kind = "key"
          /\ Head(toClient').cipher = Plain
      BY <1>2, <1>6, <2>4, WritesExpected DEF MessageKinds
    <3> QED
      BY <2>1, <3>1, <3>2 DEF InTurn, Expected
  <2> QED
    BY <1>1, <1>3, <2>3, <2>4 DEF IInv
<1>7. CASE (Fail(heap \cup {"player"}) \/ Broken) /\ UNCHANGED toClient
  <2>1. pc' = "end" /\ outcome' = "crashed" /\ heap' \subseteq heap \cup {"player"}
    BY <1>2, <1>7 DEF Fail, Broken, End
  <2> QED
    BY <1>1, <1>2, <1>3, <1>5, <1>7, <2>1, EndKeeps DEF TypeOK
<1> QED
  BY <1>6, <1>7 DEF LoginStart

\* The encryption response keeps it: the secret is the one the client chose.
LEMMA ResponseKeeps == IInv /\ Response => IInv'
<1> SUFFICES ASSUME IInv, Response PROVE IInv'
  OBVIOUS
<1>1. /\ pc = "response" /\ Reads
      /\ UNCHANGED <<step, claim, chosen, name, cipher, toClient>>
  BY DEF Response, client
<1>2. /\ TypeOK /\ heap = {"conn", "player"} /\ cipher = Plain /\ outcome = "none"
      /\ name \in {claim, Nobody}
      /\ step # "closed" =>
           \/ Client("key", 0) \/ Client("response", 0)
           \/ Client("success", 1) /\ toClient = <<>>
  BY <1>1 DEF IInv, HeapBefore, Known, InTurn
<1>3. /\ garbled' = FALSE /\ toServer' \in Seq(Message) /\ OwnMessages'
      /\ toServer # <<>> => Head(toServer) \in Message /\ Head(toServer).secret = chosen
  BY <1>1, <1>2, ReadsInTurn
<1>4. \A s : /\ Client(s, 0) => step = "closed"
             /\ Client(s, 1) => Client(s, 0)'
  BY <1>1, <1>2, ReadsInTurn
<1>5. CASE /\ Accepted /\ response' = Head(toServer)
           /\ Goes("decrypt", heap \cup {"secret", "token"})
  <2>1. /\ pc' = "decrypt" /\ heap' = {"conn", "player", "secret", "token"}
        /\ outcome' = "none" /\ toServer # <<>>
    BY <1>2, <1>5 DEF Goes, Accepted
  <2>2. response' \in Message /\ response'.secret = chosen
    BY <1>3, <1>5, <2>1
  <2>3. (TypeOK /\ HeapBefore /\ Known)'
    BY <1>1, <1>2, <1>3, <2>1, <2>2 DEF TypeOK, HeapBefore, Known, HeapAccounted
  <2>4. step # "closed" => (InTurn /\ Expected)'
    BY <1>1, <1>2, <1>4, <2>1 DEF InTurn, Expected
  <2> QED
    BY <1>1, <1>3, <2>3, <2>4 DEF IInv
<1>6. CASE Fail(heap) /\ UNCHANGED response
  <2>1. pc' = "end" /\ outcome' = "crashed" /\ heap' = heap
    BY <1>2, <1>6 DEF Fail, End
  <2> QED
    BY <1>1, <1>2, <1>3, <1>6, <2>1, EndKeeps DEF TypeOK
<1> QED
  BY <1>5, <1>6 DEF Response

\* Decryption keeps it: the cipher is the client's or the connection is lost.
LEMMA DecryptKeeps == IInv /\ Decrypt => IInv'
<1> SUFFICES ASSUME IInv, Decrypt PROVE IInv'
  OBVIOUS
<1>1. /\ pc = "decrypt"
      /\ UNCHANGED <<step, claim, chosen, name, response, toClient, toServer, garbled>>
  BY DEF Decrypt, NoRead, client
<1>2. /\ TypeOK /\ heap = {"conn", "player", "secret", "token"} /\ outcome = "none"
      /\ cipher = Plain /\ response.secret = chosen /\ name \in {claim, Nobody}
      /\ OwnMessages /\ garbled = FALSE
      /\ step # "closed" => Client("success", 0) /\ toClient = <<>>
  BY <1>1 DEF IInv, HeapBefore, Known, InTurn
<1>3. OwnMessages'
  BY <1>1, <1>2 DEF OwnMessages
<1>4. CASE /\ cipher' = response.secret
           /\ Goes("identify", (heap \ {"token"}) \cup {"ciphers", "queue"})
  <2>1. /\ pc' = "identify" /\ outcome' = "none" /\ cipher' = chosen
        /\ heap' = {"conn", "player", "secret", "ciphers", "queue"}
    BY <1>2, <1>4 DEF Goes
  <2>2. (TypeOK /\ HeapBefore /\ Known)'
    BY <1>1, <1>2, <2>1 DEF TypeOK, HeapBefore, Known, HeapAccounted
  <2>3. step # "closed" => (InTurn /\ Expected)'
    BY <1>1, <1>2, <2>1 DEF InTurn, Expected, Client
  <2> QED
    BY <1>1, <1>2, <1>3, <2>2, <2>3 DEF IInv
<1>5. CASE /\ UNCHANGED cipher
           /\ \/ Fail(heap \ {"secret", "token"}) \/ Fail(heap \ {"token"})
              \/ Fail((heap \ {"secret", "token"}) \cup {"ciphers"})
  <2>1. pc' = "end" /\ outcome' = "crashed" /\ heap' \subseteq heap \cup {"ciphers"}
    BY <1>2, <1>5 DEF Fail, End
  <2> QED
    BY <1>1, <1>2, <1>3, <1>5, <2>1, EndKeeps DEF TypeOK
<1> QED
  BY <1>4, <1>5 DEF Decrypt

\* The session server's answer keeps it: only who is vouched for goes on.
LEMMA IdentifyKeeps == IInv /\ Identify => IInv'
<1> SUFFICES ASSUME IInv, Identify PROVE IInv'
  OBVIOUS
<1>1. /\ pc = "identify"
      /\ UNCHANGED <<step, claim, chosen, name, response, cipher, toClient, toServer, garbled>>
  BY DEF Identify, NoRead, client
<1>2. /\ TypeOK /\ heap = {"conn", "player", "secret", "ciphers", "queue"}
      /\ outcome = "none" /\ cipher = chosen /\ response.secret = chosen
      /\ name \in {claim, Nobody} /\ OwnMessages /\ garbled = FALSE
      /\ step # "closed" => Client("success", 0) /\ toClient = <<>>
  BY <1>1 DEF IInv, HeapBefore, Known, InTurn
<1>3. OwnMessages' /\ cipher # Plain
  BY <1>1, <1>2, LoginAssumption DEF OwnMessages, TypeOK
<1>4. ASSUME NEW textures \in SUBSET {"textures"}, Vouched,
             Goes("success", (heap \ {"secret"}) \cup textures)
      PROVE  IInv'
  <2>1. /\ pc' = "success" /\ outcome' = "none"
        /\ heap' \ {"textures"} = {"conn", "player", "ciphers", "queue"}
        /\ heap' \subseteq heap \cup {"textures"}
    BY <1>2, <1>4 DEF Goes
  <2>2. <<name, cipher>> \in Sessions
    BY <1>2, <1>4 DEF Vouched
  <2>3. (TypeOK /\ HeapBefore /\ Known)'
    BY <1>1, <1>2, <2>1, <2>2 DEF TypeOK, HeapBefore, Known, HeapAccounted
  <2>4. step # "closed" => (InTurn /\ Expected)'
    BY <1>1, <1>2, <2>1 DEF InTurn, Expected, Client
  <2> QED
    BY <1>1, <1>2, <1>3, <2>3, <2>4 DEF IInv
<1>5. CASE \/ Fail(heap \ {"secret"})
           \/ Fail((heap \ {"secret"}) \cup {"hash"})
           \/ Fail((heap \ {"secret"}) \cup {"hash", "textures"})
  <2>1. pc' = "end" /\ outcome' = "closed" /\ heap' \subseteq {"conn", "hash"}
    BY <1>2, <1>5 DEF Fail, End
  <2>2. heap' \subseteq heap \cup {"hash"}
    BY <1>2, <2>1
  <2> QED
    BY <1>1, <1>2, <1>3, <2>1, <2>2, EndKeeps DEF TypeOK
<1> QED
  BY <1>4, <1>5 DEF Identify

\* Login success keeps it: the client reads it under the cipher it chose.
LEMMA SuccessKeeps == IInv /\ Success => IInv'
<1> SUFFICES ASSUME IInv, Success PROVE IInv'
  OBVIOUS
<1>1. /\ pc = "success"
      /\ UNCHANGED <<step, claim, chosen, name, response, cipher, toServer, garbled>>
  BY DEF Success, NoRead, client
<1>2. /\ TypeOK /\ heap \ {"textures"} = {"conn", "player", "ciphers", "queue"}
      /\ cipher = chosen /\ <<name, cipher>> \in Sessions
      /\ name \in {claim, Nobody} /\ OwnMessages /\ garbled = FALSE
      /\ step # "closed" => Client("success", 0) /\ toClient = <<>>
  BY <1>1 DEF IInv, HeapBefore, Known, InTurn
<1>3. OwnMessages' /\ cipher # Plain
  BY <1>1, <1>2, LoginAssumption DEF OwnMessages, TypeOK
<1>4. CASE End("joined", heap) /\ Writes("success")
  <2>1. pc' = "end" /\ outcome' = "joined" /\ heap' = heap
    BY <1>4 DEF End
  <2>2. toClient' \in Seq(Message)
    BY <1>2, <1>4, WritesTyped DEF MessageKinds
  <2>3. (TypeOK /\ HeapBefore /\ Known)'
    BY <1>1, <1>2, <2>1, <2>2 DEF TypeOK, HeapBefore, Known, HeapAccounted
  <2>4. ASSUME step # "closed"
        PROVE  (InTurn /\ Expected)'
    <3>1. /\ Len(toClient') = 1 /\ Head(toClient').kind = "success"
          /\ Head(toClient').cipher = chosen
      BY <1>2, <1>4, <2>4, WritesExpected DEF MessageKinds
    <3> QED
      BY <1>1, <1>2, <2>1, <2>4, <3>1 DEF InTurn, Expected, Client
  <2> QED
    BY <1>1, <1>2, <1>3, <2>3, <2>4 DEF IInv
<1>5. CASE (Fail(heap) \/ Broken) /\ UNCHANGED toClient
  <2>1. /\ pc' = "end" /\ outcome' \in {"closed", "crashed"} /\ heap' \subseteq heap
        /\ outcome' = "closed" => heap' \subseteq {"conn"}
    BY <1>2, <1>5 DEF Fail, Broken, End
  <2> QED
    BY <1>1, <1>2, <1>3, <1>5, <2>1, EndKeeps DEF TypeOK
<1> QED
  BY <1>4, <1>5 DEF Success

-----------------------------------------------------------------------------
(* The theorems. *)

\* The inductive invariant holds: IInv is true at the start, and what the client does,
\* what the server does, and closing keep it.
THEOREM LoginInvariant == Spec => []IInv
<1>1. Init => IInv
  <2> SUFFICES ASSUME Init PROVE IInv
    OBVIOUS
  <2> <<>> \in Seq(Message)
    OBVIOUS
  <2>1. TypeOK
    BY DEF Init, TypeOK
  <2>2. HeapBefore /\ Known
    BY DEF Init, HeapBefore, Known, HeapAccounted
  <2>3. OwnMessages /\ InTurn /\ Expected
    BY DEF Init, OwnMessages, InTurn, Client, Expected
  <2> QED
    BY <2>1, <2>2, <2>3 DEF Init, IInv
<1>2. IInv /\ [Next]_vars => IInv'
  <2> SUFFICES ASSUME IInv, [Next]_vars PROVE IInv'
    OBVIOUS
  <2>1. CASE ClientProceeds
    BY <2>1, ClientProceedsKeeps
  <2>2. CASE ClientCloses
    BY <2>2, ClientClosesKeeps
  <2>3. CASE Accept
    BY <2>3, HandshakeKeeps, RequestKeeps, PingKeeps, LoginStartKeeps, ResponseKeeps,
       DecryptKeeps, IdentifyKeeps, SuccessKeeps DEF Accept
  <2>4. CASE UNCHANGED vars
    BY <2>4 DEF IInv, vars, server, client, TypeOK, HeapBefore, Known, HeapAccounted,
                OwnMessages, InTurn, Client, Expected
  <2> QED
    BY <2>1, <2>2, <2>3, <2>4 DEF Next
<1> QED
  BY <1>1, <1>2, PTL DEF Spec

\* Every variable of a login keeps its type.
THEOREM LoginTyped == Spec => []TypeOK
<1>1. IInv => TypeOK
  BY DEF IInv
<1> QED
  BY <1>1, LoginInvariant, PTL

\* Both sides change to the same cipher between the same two messages (login.c,
\* conn_init): nothing is read with another cipher than it was written with.
THEOREM CiphersSwitchTogether == Spec => []SwitchTogether
<1>1. IInv => SwitchTogether
  BY DEF IInv, Known, SwitchTogether
<1> QED
  BY <1>1, LoginInvariant, PTL

\* Nobody joins whom the session server does not know, under that name and with the
\* secret of this connection (login.c, mc_hash and player_id).
THEOREM JoinsAreVouched == Spec => []JoinedIsVouched
<1>1. IInv => JoinedIsVouched
  BY DEF IInv, Known, JoinedIsVouched
<1> QED
  BY <1>1, LoginInvariant, PTL

\* Who joins is who the client said it is: the empty name that login takes from the end
\* of the stream never gets past the session server.
THEOREM JoinsAsClaimed == Spec => [](outcome = "joined" => <<claim, chosen>> \in Sessions)
<1>1. IInv => (outcome = "joined" => <<claim, chosen>> \in Sessions)
  BY LoginAssumption DEF IInv, Known
<1> QED
  BY <1>1, LoginInvariant, PTL

\* What a connection leaves on the heap is what it plays with when it joins, and its own
\* memory and a hash at most when it is closed.
THEOREM LoginHeap == Spec => []HeapAccounted
<1>1. IInv => HeapAccounted
  BY DEF IInv, HeapBefore
<1> QED
  BY <1>1, LoginInvariant, PTL
=============================================================================
