--------------------------------- MODULE Login ---------------------------------
(***************************************************************************)
(* What server_accept_connection does with one connection before it plays: *)
(* the handshake, the status exchange, and login (login.c) with the switch *)
(* to encryption and the question to the session server.                   *)
(*                                                                         *)
(* A message carries the cipher it is written with and whether its reading *)
(* function accepts it.                                                    *)
(***************************************************************************)
EXTENDS Integers, Sequences

CONSTANTS
  Name,    \* player names
  Secret,  \* shared secrets
  Plain,   \* no secret
  Nobody,  \* no name
  Sessions \* external: <<n, s>> when n's player told the session server of s

ASSUME LoginAssumption ==
  /\ Plain \notin Secret /\ Nobody \notin Name
  /\ Sessions \subseteq Name \X Secret

VARIABLES
  pc,       \* what server_accept_connection does next
  outcome,  \* none, closed (the socket), joined, crashed
  heap,     \* what it has allocated and not freed
  name,     \* player->username
  response, \* encryption_response_pack
  cipher,   \* the secret of the ciphers
  toServer, toClient,
  step,     \* what the client does next
  claim,    \* the name the client gives
  chosen,   \* the secret it chooses
  garbled   \* a message was read with another cipher than it was written with

server == <<pc, outcome, heap, name, response, cipher>>
client == <<step, claim, chosen>>
vars == <<server, client, toServer, toClient, garbled>>

Message ==
  [kind : {"status", "login", "other", "request", "ping", "login_start", "response",
           "status_json", "pong", "key", "success"},
   good : BOOLEAN, token : BOOLEAN, name : Name, secret : Secret,
   cipher : Secret \cup {Plain}]

NoMessage == [kind |-> "none"]

Init ==
  /\ pc = "handshake" /\ outcome = "none" /\ heap = {"conn"}
  /\ name = Nobody /\ response = NoMessage /\ cipher = Plain
  /\ toServer = <<>> /\ toClient = <<>>
  /\ step = "handshake" /\ claim \in Name /\ chosen \in Secret /\ garbled = FALSE

Sent(kind, good, token, key) ==
  [kind |-> kind, good |-> good, token |-> token, name |-> claim,
   secret |-> chosen, cipher |-> key]

-----------------------------------------------------------------------------
(***************************************************************************)
(* The game client may send what cannot be read, may return another token, *)
(* and may close at any time.                                              *)
(***************************************************************************)
ClientSends(kind, now, then) ==
  /\ step = now /\ step' = then
  /\ \E good, token \in BOOLEAN : toServer' = Append(toServer, Sent(kind, good, token, Plain))
  /\ UNCHANGED <<server, claim, chosen, toClient, garbled>>

ClientReads(kind, then, key) ==
  /\ step = kind /\ toClient # <<>>
  /\ garbled' = (garbled \/ Head(toClient).kind # kind \/ Head(toClient).cipher # key)
  /\ toClient' = Tail(toClient) /\ step' = then
  /\ UNCHANGED <<server, claim, chosen, toServer>>

ClientProceeds ==
  \/ ClientSends("status", "handshake", "request")
  \/ ClientSends("login", "handshake", "login_start")
  \/ ClientSends("other", "handshake", "done")
  \/ ClientSends("request", "request", "status_json")
  \/ ClientReads("status_json", "ping", Plain)
  \/ ClientSends("ping", "ping", "pong")
  \/ ClientReads("pong", "done", Plain)
  \/ ClientSends("login_start", "login_start", "key")
  \/ ClientReads("key", "response", Plain)
  \/ ClientSends("response", "response", "success")
  \/ ClientReads("success", "done", chosen)

ClientCloses ==
  /\ step # "closed" /\ step' = "closed"
  /\ UNCHANGED <<server, claim, chosen, toServer, toClient, garbled>>

-----------------------------------------------------------------------------
\* read() returns, with a message or with the end of the stream.
Reads ==
  /\ toServer # <<>> \/ step = "closed"
  /\ toServer' = IF toServer = <<>> THEN <<>> ELSE Tail(toServer)
  /\ garbled' = (garbled \/ (toServer # <<>> /\ Head(toServer).cipher # cipher))

Accepted == toServer # <<>> /\ Head(toServer).good /\ Head(toServer).cipher = cipher

\* Mistake: only what is read is decrypted.
WritesPlain(kind) == toClient' = Append(toClient, Sent(kind, TRUE, TRUE, Plain))

Writes(kind) == toClient' = Append(toClient, Sent(kind, TRUE, TRUE, cipher))

NoRead == UNCHANGED <<toServer, garbled>>

Goes(next, allocated) == pc' = next /\ heap' = allocated /\ UNCHANGED outcome

End(result, left) == pc' = "end" /\ outcome' = result /\ heap' = left

\* server_handshake returns NULL.
Refuse == End("closed", heap \ {"conn"})

\* Mistake: the player is not the connection's to free.
FailKeepsPlayer(allocated) ==
  IF "queue" \in allocated
    THEN End("closed", allocated \ {"ciphers", "queue"})
    ELSE End("crashed", allocated)

\* login failed: conn_finish frees what belongs to the connection and empties
\* its queue, which there is only after conn_init.
Fail(allocated) ==
  IF "queue" \in allocated
    THEN End("closed", allocated \ {"player", "textures", "ciphers", "queue"})
    ELSE End("crashed", allocated)

\* The reading function asserts that the id of what it reads is its own.  At the end
\* of the stream the packet keeps the id of the last one, which may be another's.
Aborts == End("crashed", heap)

\* Writing to a client that has closed may kill the process.
Broken == step = "closed" /\ End("crashed", heap)

\* Mistakes: goes where the packet says; waits for another handshake.
HandshakeTrusting ==
  /\ pc = "handshake" /\ Reads
  /\ IF Accepted THEN Goes(Head(toServer).kind, heap) ELSE Refuse
  /\ UNCHANGED <<client, name, response, cipher, toClient>>

HandshakeAgain ==
  /\ pc = "handshake" /\ Reads
  /\ IF Accepted /\ Head(toServer).kind \in {"status", "login"}
       THEN Goes(IF Head(toServer).kind = "status" THEN "request" ELSE "login_start", heap)
       ELSE Goes("handshake", heap)
  /\ UNCHANGED <<client, name, response, cipher, toClient>>

Handshake ==
  /\ pc = "handshake" /\ Reads
  /\ IF Accepted /\ Head(toServer).kind \in {"status", "login"}
       THEN Goes(IF Head(toServer).kind = "status" THEN "request" ELSE "login_start", heap)
       ELSE \/ Refuse
            \/ ~Accepted /\ Aborts
  /\ UNCHANGED <<client, name, response, cipher, toClient>>

\* handle_server_list_ping: the empty request is not looked at.
Request ==
  /\ pc = "request" /\ Reads
  /\ \/ Goes("ping", heap) /\ Writes("status_json")
     \/ (Refuse \/ Broken) /\ UNCHANGED toClient
  /\ UNCHANGED <<client, name, response, cipher>>

Ping ==
  /\ pc = "ping" /\ Reads
  /\ \/ Accepted /\ Refuse /\ Writes("pong")
     \/ (Refuse \/ Broken \/ (~Accepted /\ Aborts)) /\ UNCHANGED toClient
  /\ UNCHANGED <<client, name, response, cipher>>

\* login takes the name and sends the encryption request.  The id of the handshake
\* is that of login_start: from the end of the stream it takes an empty name.
LoginStart ==
  /\ pc = "login_start" /\ Reads
  /\ \/ /\ Accepted \/ toServer = <<>>
        /\ Goes("response", heap \cup {"player"}) /\ Writes("key")
     \/ (Fail(heap \cup {"player"}) \/ Broken) /\ UNCHANGED toClient
  /\ name' = IF Accepted THEN Head(toServer).name ELSE name
  /\ UNCHANGED <<client, response, cipher>>

Response ==
  /\ pc = "response" /\ Reads
  /\ IF Accepted
       THEN Goes("decrypt", heap \cup {"secret", "token"}) /\ response' = Head(toServer)
       ELSE Fail(heap) /\ UNCHANGED response
  /\ UNCHANGED <<client, name, cipher, toClient>>

\* Decryption or conn_init may fail; a token that differs leaves the secret.
Decrypt ==
  /\ pc = "decrypt" /\ NoRead
  /\ \/ Fail(heap \ {"secret", "token"}) /\ UNCHANGED cipher
     \/ ~response.token /\ Fail(heap \ {"token"}) /\ UNCHANGED cipher
     \/ /\ response.token /\ cipher' = response.secret
        /\ Goes("identify", (heap \ {"token"}) \cup {"ciphers", "queue"})
     \/ /\ response.token /\ UNCHANGED cipher
        /\ Fail((heap \ {"secret", "token"}) \cup {"ciphers"})
  /\ UNCHANGED <<client, name, response, toClient>>

\* Mistake: the answer is not asked for an id.
VouchedAnyway == TRUE

\* The session server knows that the player of this name has this secret.
Vouched == <<name, response.secret>> \in Sessions

\* mc_hash and player_id, which may fail for other reasons.
Identify ==
  /\ pc = "identify" /\ NoRead
  /\ \/ Fail(heap \ {"secret"})
     \/ Fail((heap \ {"secret"}) \cup {"hash"})
     \/ Fail((heap \ {"secret"}) \cup {"hash", "textures"})
     \/ Vouched /\ \E textures \in SUBSET {"textures"} :
                     Goes("success", (heap \ {"secret"}) \cup textures)
  /\ UNCHANGED <<client, name, response, cipher, toClient>>

\* What follows, server_initialize_play_state, is in module Server.
Success ==
  /\ pc = "success" /\ NoRead
  /\ \/ End("joined", heap) /\ Writes("success")
     \/ (Fail(heap) \/ Broken) /\ UNCHANGED toClient
  /\ UNCHANGED <<client, name, response, cipher>>

Accept ==
  \/ Handshake \/ Request \/ Ping
  \/ LoginStart \/ Response \/ Decrypt \/ Identify \/ Success

Next == ClientProceeds \/ ClientCloses \/ Accept

\* accept runs on; a client that is waited for sends or closes.
Fairness == WF_vars(Accept) /\ WF_vars(ClientProceeds \/ ClientCloses)

Spec == Init /\ [][Next]_vars /\ Fairness

-----------------------------------------------------------------------------
TypeOK ==
  /\ pc \in {"handshake", "request", "ping", "login_start", "response", "decrypt",
             "identify", "success", "end"}
  /\ outcome \in {"none", "closed", "joined", "crashed"}
  /\ heap \subseteq {"conn", "player", "textures", "secret", "token", "ciphers",
                     "queue", "hash"}
  /\ name \in Name \cup {Nobody} /\ cipher \in Secret \cup {Plain}
  /\ response \in Message \cup {NoMessage}
  /\ toServer \in Seq(Message) /\ toClient \in Seq(Message)
  /\ claim \in Name /\ chosen \in Secret /\ garbled \in BOOLEAN

\* Both sides change to the same cipher between the same two messages, and the
\* client gets the messages it waits for, whatever fails on the way.
SwitchTogether == ~garbled /\ (outcome = "joined" => cipher = chosen)

\* Who joins is known to the session server under that name and with the secret
\* of this very connection.
JoinedIsVouched == outcome = "joined" => <<name, cipher>> \in Sessions

\* What a connection leaves behind: all it plays with when it joins; when it is
\* closed nothing but its own memory and a hash, and both only after encryption
\* was set up.
HeapAccounted ==
  /\ outcome = "joined" =>
       {"conn", "player", "ciphers", "queue"} = heap \ {"textures"}
  /\ outcome = "closed" =>
       heap \subseteq {"conn", "hash"} /\ (heap # {} => cipher # Plain)

\* The loop gets back from accept whatever the client does (main.c:115).
AcceptReturns == <>(outcome # "none")
=============================================================================
