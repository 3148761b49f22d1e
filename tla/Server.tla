-------------------------------- MODULE Server --------------------------------
(***************************************************************************)
(* The server's main loop (main.c) and the handlers it calls for the       *)
(* players' connections (server.c, conn.c), composed with the world.       *)
(*                                                                         *)
(* One thread runs ticks.  A tick accepts at most one connection, then     *)
(* serves every connection in list order: it reads packets until there are *)
(* none, checks the keep alive, and updates the player's view if a chunk   *)
(* border was crossed.  What the outside decides -- which packets arrive,  *)
(* which reads and writes fail, which chunks load -- is chosen             *)
(* nondeterministically.                                                   *)
(***************************************************************************)
EXTENDS World, Sequences

CONSTANTS
  Conn,      \* identities of connections
  Spawn,     \* the world's spawn, in Place
  WritesFail, \* whether a write to a connection may fail
  Trouble,   \* the kinds of Upset the environment may cause
  MaxUpsets  \* bound on their number

\* What makes player counts differ from the players that see a chunk:
\*   recross   a border crossed while an earlier crossing is still pending
\*   moving    a player leaves with a crossing pending
\*   noEnd     a connection is dropped without server_end_play
\*   join      joining fails after the spawn chunks were counted
Upset == {"recross", "moving", "noEnd", "join"}

ASSUME ServerAssumption ==
  /\ IsFiniteSet(Conn)
  /\ Spawn \in Place
  /\ WritesFail \in BOOLEAN
  /\ Trouble \subseteq Upset
  /\ MaxUpsets \in Nat

VARIABLES
  phase,      \* where the main loop is
  done,       \* connections served in this tick, in list order
  todo,       \* connections still to serve; the list is done \o todo
  status,     \* per connection: none, playing, or stranded after a failed join
  pos,        \* chunk of player->x, player->z
  old,        \* old_chunk_x, old_chunk_z
  requesting, \* requesting_chunks
  sent,       \* chunks the client holds: written to it and not unloaded (a
              \* write of one that fails is logged, not handled)
  upsets,     \* history: number of upsets so far
  partial     \* history: some chunks were loaded and then not counted

tickVars == <<phase, done, todo>>
playerVars == <<pos, old, requesting, sent>>
history == <<upsets, partial>>
vars == <<worldVars, tickVars, status, playerVars, history>>

Phase == {"accept", "drain", "view", "down", "crashed"}

\* Elements of a list.
Members(s) == {s[i] : i \in DOMAIN s}

Distinct(s) == \A i, j \in DOMAIN s : s[i] = s[j] => i = j

\* The list `connections'.
Connections == done \o todo

Playing == {c \in Conn : status[c] = "playing"}

\* An upset of kind k is possible, and is counted.
Upsets(k) ==
  /\ k \in Trouble /\ upsets < MaxUpsets
  /\ upsets' = upsets + 1

UpsetsIf(condition, k) ==
  IF condition THEN Upsets(k) ELSE UNCHANGED upsets

TypeOK ==
  /\ WorldTypeOK
  /\ phase \in Phase
  /\ done \in Seq(Conn) /\ todo \in Seq(Conn)
  /\ status \in [Conn -> {"none", "playing", "stranded"}]
  /\ pos \in [Conn -> Place] /\ old \in [Conn -> Place]
  /\ requesting \in [Conn -> BOOLEAN]
  /\ sent \in [Conn -> SUBSET Chunk]
  /\ upsets \in 0..MaxUpsets /\ partial \in BOOLEAN

Init ==
  /\ WorldInit
  /\ phase = "accept" /\ done = <<>> /\ todo = <<>>
  /\ status = [c \in Conn |-> "none"]
  /\ pos = [c \in Conn |-> Spawn] /\ old = [c \in Conn |-> Spawn]
  /\ requesting = [c \in Conn |-> FALSE]
  /\ sent = [c \in Conn |-> {}]
  /\ upsets = 0 /\ partial = FALSE

-----------------------------------------------------------------------------
Running == phase \notin {"down", "crashed"}

\* The process ends where it is.
Dies ==
  /\ phase' = "crashed"
  /\ UNCHANGED <<worldVars, done, todo, status, playerVars, history>>

\* A packet is written to a connection whose peer is gone: SIGPIPE is not
\* handled.  Every part of a tick writes.
BrokenPipe == WritesFail /\ Running /\ Dies

(***************************************************************************)
(* accept: at most one connection per tick.  Handshake, login and joining  *)
(* run to completion before anyone is served.                              *)
(***************************************************************************)
ToDrain == phase = "accept" /\ phase' = "drain" /\ UNCHANGED done

\* Nobody waits in the backlog, accept fails, the handshake asks for the
\* status, or login fails after the ciphers exist.
AcceptNobody ==
  /\ ToDrain
  /\ UNCHANGED <<worldVars, todo, status, playerVars, history>>

\* login fails before conn_init made messages_out: conn_finish reads the list
\* through a null pointer.
LoginFailsEarly == phase = "accept" /\ Dies

\* A failed join leaves the socket open and off the list.
Strand(c) ==
  /\ ToDrain
  /\ status[c] = "none"
  /\ status' = [status EXCEPT ![c] = "stranded"]
  /\ UNCHANGED <<todo, playerVars>>

JoinFailsEarly(c) ==
  /\ Strand(c)
  /\ UNCHANGED <<worldVars, history>>

JoinLoadFails(c, bad) ==
  /\ Strand(c)
  /\ LoadPart(Spawn, bad)
  /\ partial' = TRUE
  /\ UNCHANGED upsets

\* The view position cannot be written: the spawn chunks are loaded, not
\* counted.
JoinViewPositionFails(c) ==
  /\ WritesFail
  /\ Strand(c)
  /\ resident' = resident \cup View(Spawn)
  /\ partial' = TRUE
  /\ UNCHANGED <<count, upsets>>

CountSpawn ==
  /\ resident' = resident \cup View(Spawn)
  /\ count' = Increment(count, View(Spawn))

\* A write after the chunks were counted and sent fails.
JoinFailsLate(c) ==
  /\ WritesFail
  /\ Strand(c)
  /\ CountSpawn
  /\ Upsets("join")
  /\ UNCHANGED partial

Join(c) ==
  /\ ToDrain
  /\ status[c] = "none"
  /\ CountSpawn
  /\ status' = [status EXCEPT ![c] = "playing"]
  /\ todo' = Append(todo, c)
  /\ pos' = [pos EXCEPT ![c] = Spawn]
  /\ old' = [old EXCEPT ![c] = Spawn]
  /\ requesting' = [requesting EXCEPT ![c] = FALSE]
  /\ sent' = [sent EXCEPT ![c] = View(Spawn)]
  /\ UNCHANGED history

-----------------------------------------------------------------------------
(***************************************************************************)
(* server_play: packets of the connection at the head of todo, until none  *)
(* is left.                                                                *)
(***************************************************************************)
Serving(c) == phase = "drain" /\ todo # <<>> /\ c = Head(todo)

\* Mistake: no test that a border was crossed.
MoveAlways(c, p) ==
  /\ Serving(c)
  /\ pos' = [pos EXCEPT ![c] = p]
  /\ old' = [old EXCEPT ![c] = pos[c]]
  /\ requesting' = [requesting EXCEPT ![c] = TRUE]
  /\ UpsetsIf(requesting[c], "recross")
  /\ UNCHANGED <<worldVars, tickVars, status, sent, partial>>

\* The three position packets: conn_update_view_position_if_needed, then the
\* player's coordinates.
Move(c, p) ==
  /\ Serving(c)
  /\ p # pos[c]
  /\ pos' = [pos EXCEPT ![c] = p]
  /\ old' = [old EXCEPT ![c] = pos[c]]
  /\ requesting' = [requesting EXCEPT ![c] = TRUE]
  /\ UpsetsIf(requesting[c], "recross")
  /\ UNCHANGED <<worldVars, tickVars, status, sent, partial>>

\* Placing a block looks a chunk up and writes into it without a null check.
PlaceBlockMisses(c, ch) == Serving(c) /\ ch \notin resident /\ Dies

\* Mistake: the connection is freed but stays listed.
RemoveStaysListed(c) ==
  /\ status' = [status EXCEPT ![c] = "none"]
  /\ sent' = [sent EXCEPT ![c] = {}]
  /\ requesting' = [requesting EXCEPT ![c] = FALSE]
  /\ pos' = [pos EXCEPT ![c] = Spawn] /\ old' = [old EXCEPT ![c] = Spawn]
  /\ UNCHANGED tickVars

\* The connection leaves the list and is freed; the cursor stays.
Remove(c) ==
  /\ todo' = Tail(todo)
  /\ status' = [status EXCEPT ![c] = "none"]
  /\ sent' = [sent EXCEPT ![c] = {}]
  /\ requesting' = [requesting EXCEPT ![c] = FALSE]
  /\ pos' = [pos EXCEPT ![c] = Spawn] /\ old' = [old EXCEPT ![c] = Spawn]
  /\ UNCHANGED <<phase, done>>

\* Mistakes: the view that is given up is the old one; none is given up.
LeaveOldView(c) ==
  /\ Serving(c)
  /\ DecPlayers(resident, count, View(old[c]))
  /\ UpsetsIf(requesting[c], "moving")
  /\ Remove(c)
  /\ UNCHANGED partial

LeaveUncounted(c) ==
  /\ Serving(c)
  /\ UpsetsIf(requesting[c], "moving")
  /\ Remove(c)
  /\ UNCHANGED <<worldVars, partial>>

\* server_play returns 0: the client closed, or has not answered keep alives.
Leave(c) ==
  /\ Serving(c)
  /\ DecPlayers(resident, count, View(pos[c]))
  /\ UpsetsIf(requesting[c], "moving")
  /\ Remove(c)
  /\ UNCHANGED partial

\* server_play returns -1: a packet cannot be read, poll fails, or the keep
\* alive cannot be written.
Drop(c) ==
  /\ Serving(c)
  /\ Upsets("noEnd")
  /\ Remove(c)
  /\ UNCHANGED <<worldVars, partial>>

\* Mistake: the cursor does not move on.
ServedAgain(c) ==
  /\ Serving(c)
  /\ IF requesting[c] THEN phase' = "view" ELSE UNCHANGED phase
  /\ UNCHANGED <<worldVars, done, todo, status, playerVars, history>>

\* server_play returns 1.
Served(c) ==
  /\ Serving(c)
  /\ IF requesting[c]
       THEN phase' = "view" /\ UNCHANGED <<done, todo>>
       ELSE /\ done' = Append(done, c) /\ todo' = Tail(todo)
            /\ UNCHANGED phase
  /\ UNCHANGED <<worldVars, status, playerVars, history>>

-----------------------------------------------------------------------------
(***************************************************************************)
(* server_update_view.  Its result is ignored: after a failure the request *)
(* stays pending and is tried again in the next tick.                      *)
(***************************************************************************)
ToNext(c) ==
  /\ phase = "view" /\ todo # <<>> /\ c = Head(todo)
  /\ phase' = "drain"
  /\ done' = Append(done, c) /\ todo' = Tail(todo)
  /\ UNCHANGED status

\* Mistakes: every chunk of the new view is new; none of the old view goes,
\* or all of it.
FreshAll(c) == View(pos[c])
GoneNone(c) == {}
GoneAll(c) == View(old[c])

Fresh(c) == View(pos[c]) \ View(old[c])
Gone(c) == View(old[c]) \ View(pos[c])

\* Mistake: returns early, with the request still set, when there is nothing to
\* load because others hold the whole view.
UpdateViewOnlyLoads(c) ==
  /\ ToNext(c)
  /\ UNCHANGED <<pos, old, history>>
  /\ IF View(pos[c]) \subseteq resident
     THEN UNCHANGED <<worldVars, sent, requesting>>
     ELSE /\ DecPlayers(resident \cup View(pos[c]), Increment(count, Fresh(c)), Gone(c))
          /\ sent' = [sent EXCEPT ![c] = (@ \cup Fresh(c)) \ Gone(c)]
          /\ requesting' = [requesting EXCEPT ![c] = FALSE]

UpdateView(c) ==
  /\ ToNext(c)
  /\ DecPlayers(resident \cup View(pos[c]), Increment(count, Fresh(c)), Gone(c))
  /\ sent' = [sent EXCEPT ![c] = (@ \cup Fresh(c)) \ Gone(c)]
  /\ requesting' = [requesting EXCEPT ![c] = FALSE]
  /\ UNCHANGED <<pos, old, history>>

ViewLoadFails(c, bad) ==
  /\ ToNext(c)
  /\ LoadPart(pos[c], bad)
  /\ partial' = TRUE
  /\ UNCHANGED <<playerVars, upsets>>

\* The view position cannot be written.
ViewPositionFails(c) ==
  /\ WritesFail
  /\ ToNext(c)
  /\ UNCHANGED <<worldVars, playerVars, history>>

-----------------------------------------------------------------------------
\* Every connection is served: the queued messages are sent (module Chat) and
\* the loop tests whether an interrupt asked it to stop.
EndTick ==
  /\ phase = "drain" /\ todo = <<>>
  /\ phase' \in {"accept", "down"}
  /\ todo' = done /\ done' = <<>>
  /\ UNCHANGED <<worldVars, status, playerVars, history>>

Accept ==
  \/ AcceptNobody
  \/ LoginFailsEarly
  \/ \E c \in Conn :
       \/ Join(c)
       \/ JoinFailsEarly(c)
       \/ JoinViewPositionFails(c)
       \/ JoinFailsLate(c)
       \/ \E bad \in Chunk : JoinLoadFails(c, bad)

Play(c) ==
  \/ \E p \in Place : Move(c, p)
  \/ \E ch \in Chunk : PlaceBlockMisses(c, ch)
  \/ Leave(c)
  \/ Drop(c)
  \/ Served(c)

SetView(c) ==
  \/ UpdateView(c)
  \/ ViewPositionFails(c)
  \/ \E bad \in Chunk : ViewLoadFails(c, bad)

Next ==
  \/ Accept
  \/ \E c \in Conn : Play(c) \/ SetView(c)
  \/ EndTick
  \/ BrokenPipe

Spec == Init /\ [][Next]_vars

(***************************************************************************)
(* Fairness: the loop never stops by itself.  accept and poll do not       *)
(* block, so a tick without a new connection and the end of a drain always *)
(* come; what no code assures, that a client stops sending for an instant, *)
(* is assumed.  Nothing is assumed of clients that close or of failures.   *)
(***************************************************************************)
Fairness ==
  /\ WF_vars(AcceptNobody)
  /\ \A c \in Conn : WF_vars(Served(c)) /\ WF_vars(UpdateView(c))
  /\ WF_vars(EndTick)

FairSpec == Spec /\ Fairness

-----------------------------------------------------------------------------
Viewers(ch) == {c \in Playing : ch \in sent[c]}

\* The chunk whose surroundings the client was last given.
Anchor(c) == IF requesting[c] THEN old[c] ELSE pos[c]

\* server_update_view asserts that a pending player is not where the pending
\* crossing began (server.c:490).  A failed update keeps the request and its
\* old chunk over any number of ticks and further moves, and the assertion
\* must survive them all.
PendingHasMoved == \A c \in Playing : requesting[c] => pos[c] # old[c]

\* The connections of the list are the playing ones, each once, whatever the
\* order of joins, drops and failures (main.c:114-136): the tick frees no
\* connection that it will visit again and visits none that it freed.
ListIsPlaying ==
  /\ Members(Connections) = Playing
  /\ Distinct(Connections)

\* Until something upsets the books, player_count is the number of players
\* that see the chunk (chunk.h:17), across joins, failed loads, pending
\* updates and departures of several players whose views overlap.
CountsViewers ==
  upsets = 0 => \A ch \in Chunk : count[ch] = Cardinality(Viewers(ch))

\* Until an upset, a client holds exactly the view around the chunk it is in,
\* or around the one its pending crossing began in: no chunk of the view is
\* missing and none stays behind.
ClientHoldsView ==
  upsets = 0 => \A c \in Playing : sent[c] = View(Anchor(c))

\* Until an upset, no chunk that a client holds has been freed: a block a
\* player sees can be looked up.
VisibleResident ==
  upsets = 0 => \A c \in Playing : sent[c] \subseteq resident

\* Until an upset or a load whose chunks were never counted, memory holds only
\* chunks that somebody sees.
NoIdleChunks ==
  upsets = 0 /\ ~partial => \A ch \in resident : Viewers(ch) # {}

\* A step never frees a chunk that a player who stays still sees, as long as
\* the books are not upset (world.c:178-196).
FreedUnseen ==
  [][upsets' = 0 => \A ch \in resident \ resident' : Viewers(ch)' = {}]_vars

\* The server implements the promise of Visibility, when nothing can upset the
\* books: a player sees what its client was sent, and the kept chunks are
\* those with a positive count.
Kept == {ch \in Chunk : count[ch] > 0}

Promise == INSTANCE Visibility
  WITH Player <- Conn, Views <- {View(p) : p \in Place}, sees <- sent,
       kept <- Kept

KeepsPromise == Promise!Spec

\* A chunk border that a player crossed leads to an updated view, or the
\* player or the server is gone, when loads and writes succeed.
CrossingServed ==
  \A c \in Conn :
    requesting[c] ~> (~requesting[c] \/ ~Running)

\* Every player who stays is served again and again: no connection, however
\* early in the list, keeps the later ones from their turn.
EveryoneServed ==
  \A c \in Conn :
    [](c \in Members(todo) => <>(c \notin Members(todo) \/ ~Running))

(***************************************************************************)
(* The inductive invariant behind the safety properties.                   *)
(***************************************************************************)
\* A view is only updated for the connection being served, which asked for it.
ViewInTurn == phase = "view" => todo # <<>> /\ requesting[Head(todo)]

\* Only the playing are counted.
OthersHoldNothing == \A c \in Conn \ Playing : sent[c] = {}

CountedResident ==
  upsets = 0 => \A ch \in Chunk : count[ch] > 0 => ch \in resident

ResidentCounted ==
  upsets = 0 /\ ~partial => \A ch \in resident : count[ch] > 0

\* Type, list and pending crossings hold whatever goes wrong; the books of
\* views and counts support one another until the first upset: freeing at
\* zero is only right when the count is, the count only changes rightly when
\* the client holds the view that is subtracted, and what a client holds is
\* only resident when it is counted.
IInv ==
  /\ TypeOK
  /\ PendingHasMoved
  /\ ListIsPlaying
  /\ ViewInTurn
  /\ OthersHoldNothing
  /\ ClientHoldsView
  /\ CountsViewers
  /\ CountedResident
  /\ ResidentCounted

\* world.c:188: "FIXME: player count is becoming negative???".  A number of
\* players is not negative.
CountsNeverNegative == \A ch \in Chunk : count[ch] >= 0
=============================================================================
