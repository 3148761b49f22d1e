---------------------------- MODULE ServerProofs ----------------------------
(***************************************************************************)
(* What the main loop keeps true for every set of connections, every set   *)
(* of places, every view distance and every choice of failures.            *)
(***************************************************************************)
EXTENDS Server, FiniteSetTheorems, TLAPS

USE DEF Upset

-----------------------------------------------------------------------------
(* Lists. *)

\* A connection that is accepted is new at the end of the list main walks.
LEMMA AppendToList ==
  ASSUME NEW S, NEW s \in Seq(S), NEW t \in Seq(S), NEW c \in S
  PROVE  /\ Members(s \o Append(t, c)) = Members(s \o t) \cup {c}
         /\ Distinct(s \o t) /\ c \notin Members(s \o t)
              => Distinct(s \o Append(t, c))
<1> DEFINE l == s \o t
           m == s \o Append(t, c)
<1>1. /\ l \in Seq(S) /\ Len(l) = Len(s) + Len(t)
      /\ m \in Seq(S) /\ Len(m) = Len(l) + 1
      /\ \A i \in 1..Len(l) : m[i] = l[i]
      /\ m[Len(l) + 1] = c
  OBVIOUS
<1> HIDE DEF l, m
<1>2. DOMAIN l = 1..Len(l) /\ DOMAIN m = 1..(Len(l) + 1) /\ Len(l) \in Nat
  BY <1>1
<1>3. Members(m) = Members(l) \cup {c}
  <2>1. \A x : x \in Members(m) <=> \E i \in 1..(Len(l) + 1) : x = m[i]
    BY <1>2 DEF Members
  <2>2. \A x : x \in Members(l) <=> \E i \in 1..Len(l) : x = l[i]
    BY <1>2 DEF Members
  <2>3. \A i : i \in 1..(Len(l) + 1) <=> i \in 1..Len(l) \/ i = Len(l) + 1
    BY <1>2
  <2>4. ASSUME NEW x \in Members(m)
        PROVE  x \in Members(l) \cup {c}
    <3>1. PICK i \in 1..(Len(l) + 1) : x = m[i]
      BY <2>1
    <3> QED
      BY <1>1, <2>2, <2>3, <3>1
  <2>5. ASSUME NEW x \in Members(l)
        PROVE  x \in Members(m)
    <3>1. PICK i \in 1..Len(l) : x = l[i]
      BY <2>2
    <3> QED
      BY <1>1, <2>1, <2>3, <3>1
  <2>6. c \in Members(m)
    BY <1>1, <2>1, <2>3
  <2> QED
    BY <2>4, <2>5, <2>6
<1>4. ASSUME Distinct(l), c \notin Members(l)
      PROVE  Distinct(m)
  <2> SUFFICES ASSUME NEW i \in 1..(Len(l) + 1), NEW j \in 1..(Len(l) + 1),
                      m[i] = m[j]
               PROVE  i = j
    BY <1>2 DEF Distinct
  <2>1. \A h \in 1..Len(l) : l[h] # c
    BY <1>2, <1>4 DEF Members
  <2>2. \A g, h \in 1..Len(l) : l[g] = l[h] => g = h
    BY <1>2, <1>4 DEF Distinct
  <2>3. \A h \in 1..(Len(l) + 1) : h \in 1..Len(l) \/ h = Len(l) + 1
    BY <1>2
  <2> QED
    BY <1>1, <2>1, <2>2, <2>3
<1> QED
  BY <1>3, <1>4 DEF l, m

\* Taking the head of todo out of the list removes that connection and no other.
LEMMA RemoveFromList ==
  ASSUME NEW S, NEW s \in Seq(S), NEW t \in Seq(S), t # <<>>,
         Distinct(s \o t)
  PROVE  /\ Head(t) \in Members(s \o t)
         /\ Members(s \o Tail(t)) = Members(s \o t) \ {Head(t)}
         /\ Distinct(s \o Tail(t))
<1> DEFINE l == s \o t
           m == s \o Tail(t)
           n == Len(s)
           k == Len(t)
<1>1. /\ n \in Nat /\ k \in Nat \ {0}
      /\ DOMAIN l = 1..(n + k) /\ DOMAIN m = 1..(n + k - 1)
      /\ l[n + 1] = Head(t)
      /\ \A i \in 1..n : m[i] = l[i]
      /\ \A i \in (n + 1)..(n + k - 1) : m[i] = l[i + 1]
  OBVIOUS
<1>2. Distinct(l)
  OBVIOUS
<1> HIDE DEF l, m, n, k
<1>3. Head(t) \in Members(l)
  BY <1>1 DEF Members
<1>4. Members(m) = Members(l) \ {Head(t)}
  <2>1. ASSUME NEW x \in Members(m)
        PROVE  x \in Members(l) \ {Head(t)}
    <3>1. PICK i \in 1..(n + k - 1) : x = m[i]
      BY <1>1 DEF Members
    <3>2. CASE i <= n
      <4>1. x = l[i] /\ i \in DOMAIN l /\ n + 1 \in DOMAIN l /\ i # n + 1
        BY <1>1, <3>1, <3>2
      <4>2. l[i] # l[n + 1]
        BY <1>2, <4>1 DEF Distinct
      <4> QED
        BY <1>1, <4>1, <4>2 DEF Members
    <3>3. CASE i > n
      <4>1. i \in (n + 1)..(n + k - 1)
        BY <1>1, <3>1, <3>3
      <4>2. m[i] = l[i + 1]
        BY <1>1, <4>1
      <4>3. i + 1 \in DOMAIN l /\ n + 1 \in DOMAIN l /\ i + 1 # n + 1
        BY <1>1, <4>1
      <4>4. l[i + 1] # l[n + 1]
        BY <1>2, <4>3 DEF Distinct
      <4> QED
        BY <1>1, <3>1, <4>2, <4>3, <4>4 DEF Members
    <3>4. i <= n \/ i > n
      BY <1>1, <3>1
    <3> QED
      BY <3>2, <3>3, <3>4
  <2>2. ASSUME NEW x \in Members(l), x # Head(t)
        PROVE  x \in Members(m)
    <3>1. PICK i \in 1..(n + k) : x = l[i]
      BY <1>1, <2>2 DEF Members
    <3> i # n + 1
      BY <1>1, <2>2, <3>1
    <3>2. CASE i <= n
      <4>1. m[i] = l[i] /\ i \in DOMAIN m
        BY <1>1, <3>1, <3>2
      <4> QED
        BY <3>1, <4>1 DEF Members
    <3>3. CASE i > n
      <4> DEFINE j == i - 1
      <4>1. j \in (n + 1)..(n + k - 1) /\ j + 1 = i
        BY <1>1, <3>1, <3>3
      <4> HIDE DEF j
      <4>2. m[j] = l[j + 1]
        BY <1>1, <4>1
      <4>3. j \in DOMAIN m
        BY <1>1, <4>1
      <4> QED
        BY <3>1, <4>1, <4>2, <4>3 DEF Members
    <3>4. i <= n \/ i > n
      BY <1>1, <3>1
    <3> QED
      BY <3>2, <3>3, <3>4
  <2> QED
    BY <2>1, <2>2
<1>5. Distinct(m)
  <2> SUFFICES ASSUME NEW i \in 1..(n + k - 1), NEW j \in 1..(n + k - 1),
                      m[i] = m[j]
               PROVE  i = j
    BY <1>1 DEF Distinct
  <2> DEFINE src(h) == IF h <= n THEN h ELSE h + 1
  <2>1. /\ m[i] = l[src(i)] /\ m[j] = l[src(j)]
        /\ src(i) \in 1..(n + k) /\ src(j) \in 1..(n + k)
    BY <1>1
  <2>2. src(i) = src(j)
    BY <1>1, <1>2, <2>1 DEF Distinct
  <2> QED
    BY <1>1, <2>2
<1> QED
  BY <1>3, <1>4, <1>5 DEF l, m

\* Passing from todo to done leaves the list as it is.
LEMMA ServeInList ==
  ASSUME NEW S, NEW s \in Seq(S), NEW t \in Seq(S), t # <<>>
  PROVE  Append(s, Head(t)) \o Tail(t) = s \o t
OBVIOUS

-----------------------------------------------------------------------------
(* Views and counts. *)

\* Views, and the part of a view that is loaded before a failure, are sets of chunks.
LEMMA ViewInChunk ==
  ASSUME NEW p \in Place
  PROVE  /\ View(p) \subseteq Chunk
         /\ \A bad : LoadedBefore(p, bad) \subseteq Chunk
BY DEF Chunk, LoadedBefore

\* Counting players in and out keeps the counts integers for every chunk.
LEMMA CountTypes ==
  ASSUME NEW n \in [Chunk -> Int], NEW S
  PROVE  /\ Increment(n, S) \in [Chunk -> Int]
         /\ Decrement(n, S) \in [Chunk -> Int]
BY DEF Increment, Decrement

\* The number of viewers changes by one when a client gains or loses a chunk.
LEMMA OneMore ==
  ASSUME NEW S, IsFiniteSet(S), NEW c
  PROVE  /\ c \notin S => Cardinality(S \cup {c}) = Cardinality(S) + 1
         /\ c \in S => Cardinality(S \ {c}) = Cardinality(S) - 1
         /\ Cardinality(S) \in Nat
         /\ Cardinality(S) = 0 <=> S = {}
<1>1. Cardinality(S) \in Nat
  BY FS_CardinalityType
<1>2. c \notin S => Cardinality(S \cup {c}) = Cardinality(S) + 1
  BY FS_AddElement
<1>3. c \in S => Cardinality(S \ {c}) = Cardinality(S) - 1
  BY FS_RemoveElement
<1>4. Cardinality(S) = 0 <=> S = {}
  BY FS_EmptySet
<1> QED
  BY <1>1, <1>2, <1>3, <1>4

-----------------------------------------------------------------------------
(* Types. *)

\* The server starts with variables of their types.
LEMMA TypeInit == Init => TypeOK
<1> SUFFICES ASSUME Init PROVE TypeOK
  OBVIOUS
<1>1. Spawn \in Place /\ MaxUpsets \in Nat
  BY ServerAssumption
<1>2. WorldTypeOK
  BY DEF Init, WorldInit, WorldTypeOK
<1>3. /\ phase \in Phase /\ done \in Seq(Conn) /\ todo \in Seq(Conn)
      /\ status \in [Conn -> {"none", "playing", "stranded"}]
  BY DEF Init, Phase
<1>4. pos \in [Conn -> Place] /\ old \in [Conn -> Place]
  BY <1>1 DEF Init
<1>5. requesting \in [Conn -> BOOLEAN] /\ sent \in [Conn -> SUBSET Chunk]
  BY DEF Init
<1>6. upsets \in 0..MaxUpsets
  BY <1>1 DEF Init
<1>7. partial \in BOOLEAN
  BY DEF Init
<1> QED
  BY <1>2, <1>3, <1>4, <1>5, <1>6, <1>7 DEF TypeOK

\* The connection whose turn it is may be passed, or taken off the list.
LEMMA HeadIsServed ==
  ASSUME TypeOK, NEW c \in Conn, todo # <<>>, c = Head(todo)
  PROVE  /\ Tail(todo) \in Seq(Conn)
         /\ Append(done, c) \in Seq(Conn)
BY DEF TypeOK

\* An upset that the bound allows is counted.
LEMMA UpsetsType ==
  ASSUME TypeOK, NEW k, Upsets(k)
  PROVE  upsets' \in 0..MaxUpsets /\ upsets' = upsets + 1 /\ upsets' > 0
BY ServerAssumption DEF TypeOK, Upsets

\* Loading a part of a view keeps the world's variables in their types.
LEMMA LoadType ==
  ASSUME TypeOK, NEW p \in Place, NEW bad, LoadPart(p, bad)
  PROVE  WorldTypeOK'
BY ViewInChunk DEF TypeOK, WorldTypeOK, LoadPart

\* So does counting players out, with the chunks it frees.
LEMMA DecType ==
  ASSUME NEW r, r \subseteq Chunk, NEW n \in [Chunk -> Int], NEW S,
         DecPlayers(r, n, S)
  PROVE  WorldTypeOK'
<1>1. count' \in [Chunk -> Int]
  BY CountTypes DEF DecPlayers
<1>2. resident' \subseteq Chunk
  BY DEF DecPlayers
<1> QED
  BY <1>1, <1>2 DEF WorldTypeOK

\* No handler leaves the types.
LEMMA TypeStep == TypeOK /\ [Next]_vars => TypeOK'
<1> SUFFICES ASSUME TypeOK, [Next]_vars
             PROVE  TypeOK'
  OBVIOUS
<1> USE ServerAssumption
<1>1. CASE AcceptNobody
  BY <1>1 DEF AcceptNobody, ToDrain, TypeOK, WorldTypeOK, Phase, worldVars,
              playerVars, history
<1>2. CASE LoginFailsEarly \/ BrokenPipe
  BY <1>2 DEF LoginFailsEarly, BrokenPipe, Dies, TypeOK, WorldTypeOK, Phase, worldVars,
              playerVars, history
<1>3. ASSUME NEW c \in Conn, JoinFailsEarly(c)
      PROVE  TypeOK'
  BY <1>3 DEF JoinFailsEarly, Strand, ToDrain, TypeOK, WorldTypeOK, Phase,
              worldVars, playerVars, history
<1>4. ASSUME NEW c \in Conn, NEW bad \in Chunk, JoinLoadFails(c, bad)
      PROVE  TypeOK'
  <2>1. WorldTypeOK'
    BY <1>4, LoadType DEF JoinLoadFails
  <2> QED
    BY <1>4, <2>1 DEF JoinLoadFails, Strand, ToDrain, TypeOK, Phase, playerVars
<1>5. ASSUME NEW c \in Conn, JoinViewPositionFails(c)
      PROVE  TypeOK'
  <2>1. WorldTypeOK'
    BY <1>5, ViewInChunk DEF JoinViewPositionFails, TypeOK, WorldTypeOK
  <2> QED
    BY <1>5, <2>1 DEF JoinViewPositionFails, Strand, ToDrain, TypeOK, Phase,
                      playerVars
<1>6. ASSUME NEW c \in Conn, JoinFailsLate(c)
      PROVE  TypeOK'
  <2>1. WorldTypeOK'
    BY <1>6, ViewInChunk, CountTypes
       DEF JoinFailsLate, CountSpawn, TypeOK, WorldTypeOK
  <2>2. upsets' \in 0..MaxUpsets
    BY <1>6, UpsetsType DEF JoinFailsLate
  <2> QED
    BY <1>6, <2>1, <2>2 DEF JoinFailsLate, Strand, ToDrain, TypeOK, Phase,
                            playerVars
<1>7. ASSUME NEW c \in Conn, Join(c)
      PROVE  TypeOK'
  <2>1. WorldTypeOK'
    BY <1>7, ViewInChunk, CountTypes DEF Join, CountSpawn, TypeOK, WorldTypeOK
  <2>2. sent' \in [Conn -> SUBSET Chunk]
    BY <1>7, ViewInChunk DEF Join, TypeOK
  <2> QED
    BY <1>7, <2>1, <2>2 DEF Join, ToDrain, TypeOK, Phase, history
<1>8. ASSUME NEW c \in Conn, NEW p \in Place, Move(c, p)
      PROVE  TypeOK'
  <2>1. upsets' \in 0..MaxUpsets
    BY <1>8, UpsetsType DEF Move, UpsetsIf, TypeOK
  <2> QED
    BY <1>8, <2>1 DEF Move, TypeOK, WorldTypeOK, worldVars, tickVars
<1>9. ASSUME NEW c \in Conn, NEW ch \in Chunk, PlaceBlockMisses(c, ch)
      PROVE  TypeOK'
  BY <1>9 DEF PlaceBlockMisses, Dies, TypeOK, WorldTypeOK, Phase, worldVars,
              playerVars, history
<1>10. ASSUME NEW c \in Conn, Leave(c)
       PROVE  TypeOK'
  <2>1. WorldTypeOK'
    BY <1>10, DecType DEF Leave, TypeOK, WorldTypeOK
  <2>2. upsets' \in 0..MaxUpsets
    BY <1>10, UpsetsType DEF Leave, UpsetsIf, TypeOK
  <2>3. todo' \in Seq(Conn)
    BY <1>10, HeadIsServed DEF Leave, Serving, Remove
  <2> QED
    BY <1>10, <2>1, <2>2, <2>3 DEF Leave, Remove, TypeOK
<1>11. ASSUME NEW c \in Conn, Drop(c)
       PROVE  TypeOK'
  <2>1. upsets' \in 0..MaxUpsets
    BY <1>11, UpsetsType DEF Drop
  <2>2. todo' \in Seq(Conn)
    BY <1>11, HeadIsServed DEF Drop, Serving, Remove
  <2> QED
    BY <1>11, <2>1, <2>2 DEF Drop, Remove, TypeOK, WorldTypeOK, worldVars
<1>12. ASSUME NEW c \in Conn, Served(c)
       PROVE  TypeOK'
  <2>1. todo' \in Seq(Conn) /\ done' \in Seq(Conn)
    BY <1>12, HeadIsServed DEF Served, Serving, TypeOK
  <2>2. phase' \in Phase
    BY <1>12 DEF Served, TypeOK, Phase
  <2> QED
    BY <1>12, <2>1, <2>2 DEF Served, TypeOK, WorldTypeOK, worldVars, playerVars,
                             history
<1>13. ASSUME NEW c \in Conn, UpdateView(c)
       PROVE  TypeOK'
  <2>1. pos[c] \in Place /\ old[c] \in Place
    BY DEF TypeOK
  <2>2. View(pos[c]) \subseteq Chunk
    BY <2>1, ViewInChunk
  <2>3. WorldTypeOK'
    BY <1>13, <2>2, DecType, CountTypes DEF UpdateView, Fresh, Gone, TypeOK, WorldTypeOK
  <2>4. sent' \in [Conn -> SUBSET Chunk]
    BY <1>13, <2>2 DEF UpdateView, Fresh, Gone, TypeOK
  <2>5. todo' \in Seq(Conn) /\ done' \in Seq(Conn)
    BY <1>13, HeadIsServed DEF UpdateView, Fresh, Gone, ToNext
  <2> QED
    BY <1>13, <2>3, <2>4, <2>5 DEF UpdateView, Fresh, Gone, ToNext, TypeOK, Phase, history
<1>14. ASSUME NEW c \in Conn, NEW bad \in Chunk, ViewLoadFails(c, bad)
       PROVE  TypeOK'
  <2>1. pos[c] \in Place
    BY DEF TypeOK
  <2>2. WorldTypeOK'
    BY <1>14, <2>1, LoadType DEF ViewLoadFails
  <2>3. todo' \in Seq(Conn) /\ done' \in Seq(Conn)
    BY <1>14, HeadIsServed DEF ViewLoadFails, ToNext
  <2> QED
    BY <1>14, <2>2, <2>3 DEF ViewLoadFails, ToNext, TypeOK, Phase, playerVars
<1>15. ASSUME NEW c \in Conn, ViewPositionFails(c)
       PROVE  TypeOK'
  <2>1. todo' \in Seq(Conn) /\ done' \in Seq(Conn)
    BY <1>15, HeadIsServed DEF ViewPositionFails, ToNext
  <2> QED
    BY <1>15, <2>1 DEF ViewPositionFails, ToNext, TypeOK, WorldTypeOK, Phase,
                       worldVars, playerVars, history
<1>16. CASE EndTick
  BY <1>16 DEF EndTick, TypeOK, WorldTypeOK, Phase, worldVars, playerVars,
               history
<1>17. CASE UNCHANGED vars
  BY <1>17 DEF vars, worldVars, tickVars, playerVars, history, TypeOK,
               WorldTypeOK
<1> QED
  BY <1>1, <1>2, <1>3, <1>4, <1>5, <1>6, <1>7, <1>8, <1>9, <1>10, <1>11,
     <1>12, <1>13, <1>14, <1>15, <1>16, <1>17
     DEF Next, Accept, Play, SetView

\* Every variable keeps its type in every reachable state, for every set of
\* connections and places and every bound on the upsets (conn.h, world.c:17).
THEOREM TypeCorrect == Spec => []TypeOK
<1>1. Init => TypeOK
  BY TypeInit
<1>2. TypeOK /\ [Next]_vars => TypeOK'
  BY TypeStep
<1> QED
  BY <1>1, <1>2, PTL DEF Spec

-----------------------------------------------------------------------------
(* The list and the pending crossings: true whatever goes wrong. *)

ListInv ==
  /\ TypeOK
  /\ PendingHasMoved
  /\ ListIsPlaying
  /\ ViewInTurn

\* The connection whose turn it is belongs to a player, and is on the list once.
LEMMA HeadPlays ==
  ASSUME ListInv, todo # <<>>
  PROVE  /\ Head(todo) \in Playing
         /\ Members(done \o Tail(todo)) = Playing \ {Head(todo)}
         /\ Distinct(done \o Tail(todo))
         /\ Append(done, Head(todo)) \o Tail(todo) = Connections
<1>1. done \in Seq(Conn) /\ todo \in Seq(Conn)
  BY DEF ListInv, TypeOK
<1>2. Members(done \o todo) = Playing /\ Distinct(done \o todo)
  BY DEF ListInv, ListIsPlaying, Connections
<1>3. /\ Head(todo) \in Members(done \o todo)
      /\ Members(done \o Tail(todo)) = Members(done \o todo) \ {Head(todo)}
      /\ Distinct(done \o Tail(todo))
  BY <1>1, <1>2, RemoveFromList
<1>4. Append(done, Head(todo)) \o Tail(todo) = Connections
  BY <1>1, ServeInList DEF Connections
<1> QED
  BY <1>2, <1>3, <1>4

\* Before the first tick there are no connections.
LEMMA ListInit == Init => ListInv
<1> SUFFICES ASSUME Init PROVE ListInv
  OBVIOUS
<1>1. TypeOK
  BY TypeInit
<1>2. Connections = <<>> /\ Playing = {}
  BY DEF Init, Connections, Playing
<1>3. DOMAIN <<>> = {}
  OBVIOUS
<1>4. ListIsPlaying
  BY <1>2, <1>3 DEF ListIsPlaying, Members, Distinct
<1> QED
  BY <1>1, <1>2, <1>4 DEF Init, ListInv, PendingHasMoved, ViewInTurn

\* A step that leaves the list and the players alone.
LEMMA ListSame ==
  ASSUME ListInv, Connections' = Connections, Playing' = Playing
  PROVE  ListIsPlaying'
BY DEF ListInv, ListIsPlaying, Members, Distinct

\* A step that takes the head of todo off the list.
LEMMA ListRemove ==
  ASSUME ListInv, NEW c \in Conn, todo # <<>>, c = Head(todo), Remove(c)
  PROVE  ListIsPlaying' /\ Playing' = Playing \ {c}
<1>1. Playing' = Playing \ {c}
  BY DEF Remove, Playing, ListInv, TypeOK
<1>2. Connections' = done \o Tail(todo)
  BY DEF Remove, Connections
<1>3. ListIsPlaying'
  BY <1>1, <1>2, HeadPlays DEF ListIsPlaying, Members, Distinct
<1> QED
  BY <1>1, <1>3

\* A step that moves the head of todo to the end of done.
LEMMA ListServe ==
  ASSUME ListInv, todo # <<>>, done' = Append(done, Head(todo)),
         todo' = Tail(todo), UNCHANGED status
  PROVE  ListIsPlaying' /\ Playing' = Playing
<1>1. Playing' = Playing
  BY DEF Playing
<1>2. Connections' = Connections
  BY HeadPlays DEF Connections
<1> QED
  BY <1>1, <1>2, ListSame

\* A failed join changes neither the list nor the players.
LEMMA ListStrand ==
  ASSUME ListInv, NEW c \in Conn, Strand(c)
  PROVE  /\ ListIsPlaying' /\ Playing' = Playing
         /\ PendingHasMoved' /\ ViewInTurn'
<1>1. Playing' = Playing
  BY DEF Strand, Playing, ListInv, TypeOK
<1>2. Connections' = Connections
  BY DEF Strand, ToDrain, Connections
<1>3. ListIsPlaying'
  BY <1>1, <1>2, ListSame
<1>4. PendingHasMoved' /\ ViewInTurn'
  BY <1>1 DEF Strand, ToDrain, playerVars, ListInv, PendingHasMoved, ViewInTurn
<1> QED
  BY <1>1, <1>3, <1>4

\* Every handler keeps the list, the pending crossings and the turn to update a view.
LEMMA ListStep == ListInv /\ [Next]_vars => ListInv'
<1> SUFFICES ASSUME ListInv, [Next]_vars
             PROVE  ListIsPlaying' /\ PendingHasMoved' /\ ViewInTurn'
  BY TypeStep DEF ListInv
<1> DEFINE Goal == ListIsPlaying' /\ PendingHasMoved' /\ ViewInTurn'
<1> TypeOK /\ PendingHasMoved /\ ListIsPlaying /\ ViewInTurn
  BY DEF ListInv
<1>1. CASE UNCHANGED vars \/ AcceptNobody \/ LoginFailsEarly \/ EndTick
              \/ BrokenPipe
  <2>1. Playing' = Playing /\ UNCHANGED <<pos, old, requesting>>
    BY <1>1 DEF vars, worldVars, tickVars, playerVars, history, AcceptNobody,
                LoginFailsEarly, BrokenPipe, Dies, EndTick, Playing
  <2>2. Connections' = Connections
    BY <1>1 DEF vars, worldVars, tickVars, playerVars, history, AcceptNobody,
                ToDrain, LoginFailsEarly, BrokenPipe, Dies, EndTick, Connections, TypeOK
  <2>3. ViewInTurn'
    BY <1>1 DEF vars, worldVars, tickVars, playerVars, history, AcceptNobody,
                ToDrain, LoginFailsEarly, BrokenPipe, Dies, EndTick, ViewInTurn
  <2> QED
    BY <2>1, <2>2, <2>3, ListSame DEF PendingHasMoved
<1>2. ASSUME NEW c \in Conn,
             \/ JoinFailsEarly(c) \/ JoinViewPositionFails(c)
             \/ JoinFailsLate(c) \/ \E bad \in Chunk : JoinLoadFails(c, bad)
      PROVE  Goal
  <2>1. Strand(c)
    BY <1>2 DEF JoinFailsEarly, JoinViewPositionFails, JoinFailsLate,
                JoinLoadFails
  <2> QED
    BY <2>1, ListStrand
<1>3. ASSUME NEW c \in Conn, Join(c)
      PROVE  Goal
  <2>1. Playing' = Playing \cup {c} /\ c \notin Playing
    BY <1>3 DEF Join, Playing, TypeOK
  <2>2. Connections' = done \o Append(todo, c)
    BY <1>3 DEF Join, ToDrain, Connections
  <2>3. /\ Members(done \o Append(todo, c)) = Playing \cup {c}
        /\ Distinct(done \o Append(todo, c))
    BY <2>1, AppendToList DEF ListIsPlaying, Connections, TypeOK
  <2>4. ListIsPlaying'
    BY <2>1, <2>2, <2>3 DEF ListIsPlaying, Members, Distinct
  <2>5. PendingHasMoved'
    BY <1>3, <2>1 DEF Join, PendingHasMoved, TypeOK, Playing
  <2> QED
    BY <1>3, <2>4, <2>5 DEF Join, ToDrain, ViewInTurn
<1>4. ASSUME NEW c \in Conn, NEW p \in Place, Move(c, p)
      PROVE  Goal
  <2>1. Playing' = Playing /\ Connections' = Connections
    BY <1>4 DEF Move, tickVars, Playing, Connections
  <2>2. PendingHasMoved'
    BY <1>4, <2>1 DEF Move, PendingHasMoved, TypeOK, Playing
  <2> QED
    BY <1>4, <2>1, <2>2, ListSame DEF Move, Serving, tickVars, ViewInTurn
<1>5. ASSUME NEW c \in Conn, NEW ch \in Chunk, PlaceBlockMisses(c, ch)
      PROVE  Goal
  <2>1. Playing' = Playing /\ Connections' = Connections
    BY <1>5 DEF PlaceBlockMisses, Dies, Playing, Connections
  <2> QED
    BY <1>5, <2>1, ListSame
       DEF PlaceBlockMisses, Dies, playerVars, PendingHasMoved, ViewInTurn
<1>6. ASSUME NEW c \in Conn, Leave(c) \/ Drop(c)
      PROVE  Goal
  <2>1. /\ phase = "drain" /\ todo # <<>> /\ c = Head(todo)
        /\ Remove(c)
    BY <1>6 DEF Leave, Drop, Serving
  <2>2. ListIsPlaying' /\ Playing' = Playing \ {c}
    BY <2>1, ListRemove
  <2> QED
    BY <2>1, <2>2 DEF Remove, PendingHasMoved, ViewInTurn, TypeOK, Playing
<1>7. ASSUME NEW c \in Conn, Served(c)
      PROVE  Goal
  <2>1. CASE requesting[c]
    <3>1. Playing' = Playing /\ Connections' = Connections
      BY <1>7, <2>1 DEF Served, Playing, Connections
    <3> QED
      BY <1>7, <2>1, <3>1, ListSame
         DEF Served, Serving, playerVars, PendingHasMoved, ViewInTurn
  <2>2. CASE ~requesting[c]
    <3>1. /\ todo # <<>> /\ done' = Append(done, Head(todo))
          /\ todo' = Tail(todo) /\ UNCHANGED status
      BY <1>7, <2>2 DEF Served, Serving
    <3>2. ListIsPlaying' /\ Playing' = Playing
      BY <3>1, ListServe
    <3> QED
      BY <1>7, <2>2, <3>2
         DEF Served, Serving, playerVars, PendingHasMoved, ViewInTurn
  <2> QED
    BY <2>1, <2>2
<1>8. ASSUME NEW c \in Conn,
             \/ UpdateView(c) \/ ViewPositionFails(c)
             \/ \E bad \in Chunk : ViewLoadFails(c, bad)
      PROVE  Goal
  <2>1. /\ todo # <<>> /\ done' = Append(done, Head(todo))
        /\ todo' = Tail(todo) /\ UNCHANGED status /\ phase' = "drain"
    BY <1>8 DEF UpdateView, Fresh, Gone, ViewPositionFails, ViewLoadFails, ToNext
  <2>2. ListIsPlaying' /\ Playing' = Playing
    BY <2>1, ListServe
  <2>3. /\ UNCHANGED <<pos, old>>
        /\ \A d \in Conn : requesting'[d] => requesting[d]
    BY <1>8 DEF UpdateView, Fresh, Gone, ViewPositionFails, ViewLoadFails, playerVars, TypeOK
  <2>4. PendingHasMoved'
    BY <2>2, <2>3 DEF PendingHasMoved, Playing
  <2> QED
    BY <2>1, <2>2, <2>4 DEF ViewInTurn
<1> QED
  BY <1>1, <1>2, <1>3, <1>4, <1>5, <1>6, <1>7, <1>8
     DEF Next, Accept, Play, SetView

\* The assertion of server_update_view (server.c:490) never fails, whatever
\* loads, writes and reads fail and however often players cross borders.
THEOREM AssertionHolds == Spec => []PendingHasMoved
<1>1. Init => ListInv
  BY ListInit
<1>2. ListInv /\ [Next]_vars => ListInv'
  BY ListStep
<1>3. ListInv => PendingHasMoved
  BY DEF ListInv
<1> QED
  BY <1>1, <1>2, <1>3, PTL DEF Spec

\* The loop's list holds the playing connections, each once (main.c:114-136):
\* no connection is freed while an entry of the list still points to it.
THEOREM ListHoldsPlayers == Spec => []ListIsPlaying
<1>1. Init => ListInv
  BY ListInit
<1>2. ListInv /\ [Next]_vars => ListInv'
  BY ListStep
<1>3. ListInv => ListIsPlaying
  BY DEF ListInv
<1> QED
  BY <1>1, <1>2, <1>3, PTL DEF Spec

-----------------------------------------------------------------------------
(* The books: counts, views and residency until the first upset. *)

Books ==
  /\ OthersHoldNothing
  /\ ClientHoldsView
  /\ CountsViewers
  /\ CountedResident
  /\ ResidentCounted

\* The inductive invariant is that of the list with the books.
LEMMA IInvParts == IInv <=> ListInv /\ Books
BY DEF IInv, ListInv, Books

\* A chunk has finitely many viewers.
LEMMA ViewersFinite == \A ch : IsFiniteSet(Viewers(ch))
<1> SUFFICES ASSUME NEW ch PROVE IsFiniteSet(Viewers(ch))
  OBVIOUS
<1>1. Viewers(ch) \in SUBSET Conn
  BY DEF Viewers, Playing
<1> QED
  BY <1>1, ServerAssumption, FS_Subset

\* What a player holds is counted and resident.
LEMMA HeldIsResident ==
  ASSUME IInv, upsets = 0, NEW c \in Playing, NEW ch \in Chunk, ch \in sent[c]
  PROVE  count[ch] > 0 /\ ch \in resident
<1>1. c \in Viewers(ch)
  BY DEF Viewers
<1>2. IsFiniteSet(Viewers(ch))
  BY ViewersFinite
<1>3. Cardinality(Viewers(ch)) \in Nat /\ Cardinality(Viewers(ch)) # 0
  BY <1>1, <1>2, OneMore
<1>4. count[ch] = Cardinality(Viewers(ch))
  BY DEF IInv, CountsViewers
<1> QED
  BY <1>3, <1>4 DEF IInv, CountedResident

\* A step that changes no player, no client and no count, and frees nothing.
LEMMA BooksSame ==
  ASSUME Books, Playing' = Playing, UNCHANGED <<sent, count>>,
         upsets' = 0 => upsets = 0,
         \A c \in Playing : upsets' = 0 => Anchor(c)' = Anchor(c),
         resident \subseteq resident',
         partial' \/ (UNCHANGED <<resident, partial>>)
  PROVE  Books'
<1>1. \A ch : Viewers(ch)' = Viewers(ch)
  BY DEF Viewers
<1>2. OthersHoldNothing'
  BY DEF Books, OthersHoldNothing
<1>3. ClientHoldsView'
  BY DEF Books, ClientHoldsView
<1>4. CountsViewers'
  BY <1>1 DEF Books, CountsViewers
<1>5. CountedResident'
  BY DEF Books, CountedResident
<1>6. ResidentCounted'
  BY DEF Books, ResidentCounted
<1> QED
  BY <1>2, <1>3, <1>4, <1>5, <1>6 DEF Books

\* Once upset, the books promise only that the others hold nothing.
LEMMA BooksUpset ==
  ASSUME OthersHoldNothing', upsets' > 0
  PROVE  Books'
<1>1. upsets' # 0
  OBVIOUS
<1> QED
  BY <1>1 DEF Books, ClientHoldsView, CountsViewers, CountedResident,
              ResidentCounted

\* A player who joins loads, counts and is sent the view around the spawn.
LEMMA BooksJoin ==
  ASSUME IInv, NEW c \in Conn, Join(c)
  PROVE  Books'
<1> DEFINE V == View(Spawn)
<1> TypeOK /\ Books
  BY IInvParts DEF ListInv
<1>1. /\ Playing' = Playing \cup {c} /\ c \notin Playing
      /\ sent' = [sent EXCEPT ![c] = V]
      /\ upsets' = upsets /\ partial' = partial
      /\ resident' = resident \cup V
      /\ count' = Increment(count, V)
  BY DEF Join, CountSpawn, history, Playing, TypeOK
<1>2. OthersHoldNothing'
  BY <1>1 DEF TypeOK, Books, OthersHoldNothing
<1>3. ASSUME upsets' = 0
      PROVE  /\ \A d \in Playing' : sent'[d] = View(Anchor(d)')
             /\ \A ch \in Chunk : count'[ch] = Cardinality(Viewers(ch)')
             /\ \A ch \in Chunk : count'[ch] > 0 => ch \in resident'
             /\ ~partial' => \A ch \in resident' : count'[ch] > 0
  <2>1. \A d \in Playing : sent[d] = View(Anchor(d))
    BY <1>1, <1>3 DEF Books, ClientHoldsView
  <2>2. \A d \in Playing' : sent'[d] = View(Anchor(d)')
    BY <1>1, <2>1 DEF Join, Anchor, TypeOK, Playing
  <2>3. ASSUME NEW ch \in Chunk
        PROVE  /\ count'[ch] = Cardinality(Viewers(ch)')
               /\ count'[ch] = count[ch] + (IF ch \in V THEN 1 ELSE 0)
               /\ count[ch] \in Nat
               /\ count[ch] > 0 => ch \in resident
    <3>1. IsFiniteSet(Viewers(ch)) /\ c \notin Viewers(ch)
      BY <1>1, ViewersFinite DEF Viewers
    <3>2. count[ch] = Cardinality(Viewers(ch)) /\ count[ch] \in Nat
      BY <1>1, <1>3, <3>1, OneMore DEF Books, CountsViewers
    <3>3. Viewers(ch)' = IF ch \in V THEN Viewers(ch) \cup {c} ELSE Viewers(ch)
      BY <1>1 DEF Viewers, TypeOK, Playing
    <3>4. count'[ch] = count[ch] + (IF ch \in V THEN 1 ELSE 0)
      BY <1>1, <3>2 DEF Increment
    <3>5. count[ch] > 0 => ch \in resident
      BY <1>1, <1>3 DEF Books, CountedResident
    <3> QED
      BY <3>1, <3>2, <3>3, <3>4, <3>5, OneMore
  <2>4. \A ch \in Chunk : count'[ch] > 0 => ch \in resident'
    BY <1>1, <2>3
  <2>5. ASSUME ~partial', NEW ch \in resident'
        PROVE  count'[ch] > 0
    <3>1. ch \in Chunk
      BY <1>1, ViewInChunk, ServerAssumption DEF TypeOK, WorldTypeOK
    <3>2. ch \in resident => count[ch] > 0
      BY <1>1, <1>3, <2>5 DEF Books, ResidentCounted
    <3> QED
      BY <1>1, <2>3, <3>1, <3>2
  <2> QED
    BY <2>2, <2>3, <2>4, <2>5
<1> QED
  BY <1>2, <1>3 DEF Books, ClientHoldsView, CountsViewers, CountedResident,
                    ResidentCounted

\* A player who leaves gives back the view, which is the one the client holds.
LEMMA BooksLeave ==
  ASSUME IInv, NEW c \in Conn, Leave(c)
  PROVE  Books'
<1> DEFINE V == View(pos[c])
<1> TypeOK /\ Books /\ ListInv
  BY IInvParts DEF ListInv
<1>1. /\ c \in Playing /\ Playing' = Playing \ {c}
      /\ sent' = [sent EXCEPT ![c] = {}]
      /\ DecPlayers(resident, count, V)
      /\ partial' = partial
  BY HeadPlays, ListRemove DEF Leave, Serving, Remove
<1>2. OthersHoldNothing'
  BY <1>1 DEF TypeOK, Books, OthersHoldNothing
<1>3. CASE requesting[c]
  <2>1. upsets' > 0
    BY <1>3, UpsetsType DEF Leave, UpsetsIf
  <2> QED
    BY <1>2, <2>1, BooksUpset
<1>4. CASE ~requesting[c]
  <2>1. upsets' = upsets
    BY <1>4 DEF Leave, UpsetsIf
  <2> SUFFICES ASSUME upsets = 0
               PROVE  /\ \A d \in Playing' : sent'[d] = View(Anchor(d)')
                      /\ \A ch \in Chunk : count'[ch] = Cardinality(Viewers(ch)')
                      /\ \A ch \in Chunk : count'[ch] > 0 => ch \in resident'
                      /\ ~partial' => \A ch \in resident' : count'[ch] > 0
    BY <1>2, <2>1 DEF Books, ClientHoldsView, CountsViewers, CountedResident,
                      ResidentCounted
  <2>2. \A d \in Playing : sent[d] = View(Anchor(d))
    BY DEF Books, ClientHoldsView
  <2>3. sent[c] = V
    BY <1>1, <1>4, <2>2 DEF Anchor
  <2>4. \A d \in Playing' : sent'[d] = View(Anchor(d)')
    BY <1>1, <2>2 DEF Leave, Remove, Anchor, TypeOK, Playing
  <2>5. ASSUME NEW ch \in Chunk
        PROVE  /\ count'[ch] = Cardinality(Viewers(ch)')
               /\ count'[ch] = count[ch] - (IF ch \in V THEN 1 ELSE 0)
               /\ count[ch] \in Nat
               /\ count[ch] > 0 => ch \in resident
               /\ ch \in V => ch \in resident
    <3>1. IsFiniteSet(Viewers(ch))
      BY ViewersFinite
    <3>2. count[ch] = Cardinality(Viewers(ch)) /\ count[ch] \in Nat
      BY <3>1, OneMore DEF Books, CountsViewers
    <3>3. c \in Viewers(ch) <=> ch \in V
      BY <1>1, <2>3 DEF Viewers
    <3>4. Viewers(ch)' = Viewers(ch) \ {c}
      BY <1>1 DEF Viewers, TypeOK, Playing
    <3>5. ch \in V => ch \in resident
      BY <1>1, <2>3, HeldIsResident
    <3>6. count'[ch] = count[ch] - (IF ch \in V THEN 1 ELSE 0)
      BY <1>1, <3>2, <3>5 DEF DecPlayers, Decrement
    <3>7. count[ch] > 0 => ch \in resident
      BY DEF Books, CountedResident
    <3>8. ch \notin V => Viewers(ch)' = Viewers(ch)
      BY <3>3, <3>4
    <3> QED
      BY <3>1, <3>2, <3>3, <3>4, <3>5, <3>6, <3>7, <3>8, OneMore
  <2>6. resident' = resident \ {ch \in V : count[ch] = 1}
    BY <1>1 DEF DecPlayers
  <2>7. \A ch \in Chunk : count'[ch] > 0 => ch \in resident'
    BY <2>5, <2>6
  <2>8. ASSUME ~partial', NEW ch \in resident'
        PROVE  count'[ch] > 0
    <3>1. ch \in resident /\ ch \in Chunk
      BY <2>6 DEF TypeOK, WorldTypeOK
    <3>2. count[ch] > 0
      BY <1>1, <2>8, <3>1 DEF Books, ResidentCounted
    <3> QED
      BY <2>5, <2>6, <3>1, <3>2
  <2> QED
    BY <2>4, <2>5, <2>7, <2>8
<1> QED
  BY <1>3, <1>4

\* A crossing counts and sends what is new, and gives back what went out of view.
LEMMA BooksUpdateView ==
  ASSUME IInv, NEW c \in Conn, UpdateView(c)
  PROVE  Books'
<1> DEFINE V == View(pos[c])
           O == View(old[c])
           fresh == V \ O
           gone == O \ V
<1> TypeOK /\ Books /\ ListInv
  BY IInvParts DEF ListInv
<1>1. /\ phase = "view" /\ todo # <<>> /\ c = Head(todo)
      /\ Playing' = Playing
      /\ sent' = [sent EXCEPT ![c] = (sent[c] \cup fresh) \ gone]
      /\ requesting' = [requesting EXCEPT ![c] = FALSE]
      /\ DecPlayers(resident \cup V, Increment(count, fresh), gone)
      /\ upsets' = upsets /\ partial' = partial
      /\ pos' = pos /\ old' = old
  BY DEF UpdateView, Fresh, Gone, ToNext, history, Playing
<1>2. c \in Playing /\ requesting[c]
  BY <1>1, HeadPlays DEF ListInv, ViewInTurn
<1>3. OthersHoldNothing'
  BY <1>1, <1>2 DEF TypeOK, Books, OthersHoldNothing
<1> SUFFICES ASSUME upsets = 0
             PROVE  /\ \A d \in Playing' : sent'[d] = View(Anchor(d)')
                    /\ \A ch \in Chunk : count'[ch] = Cardinality(Viewers(ch)')
                    /\ \A ch \in Chunk : count'[ch] > 0 => ch \in resident'
                    /\ ~partial' => \A ch \in resident' : count'[ch] > 0
  BY <1>1, <1>3 DEF Books, ClientHoldsView, CountsViewers, CountedResident,
                    ResidentCounted
<1>4. \A d \in Playing : sent[d] = View(Anchor(d))
  BY DEF Books, ClientHoldsView
<1>5. sent[c] = O
  BY <1>2, <1>4 DEF Anchor
<1>6. sent'[c] = V
  BY <1>1, <1>5 DEF TypeOK
<1>7. \A d \in Playing' : sent'[d] = View(Anchor(d)')
  BY <1>1, <1>4, <1>6 DEF Anchor, TypeOK, Playing
<1>8. resident' = (resident \cup V) \ {ch \in gone : Increment(count, fresh)[ch] = 1}
  BY <1>1 DEF DecPlayers
<1>9. ASSUME NEW ch \in Chunk
      PROVE  /\ count'[ch] = Cardinality(Viewers(ch)')
             /\ count'[ch] = IF ch \in fresh THEN count[ch] + 1
                             ELSE IF ch \in gone THEN count[ch] - 1
                             ELSE count[ch]
             /\ count[ch] \in Nat
             /\ count[ch] > 0 => ch \in resident
             /\ ch \in O => ch \in resident
             /\ ch \in resident' <=> /\ ch \in resident \/ ch \in V
                                    /\ ~(ch \in gone /\ count[ch] = 1)
  <2>1. IsFiniteSet(Viewers(ch))
    BY ViewersFinite
  <2>2. count[ch] = Cardinality(Viewers(ch)) /\ count[ch] \in Nat
    BY <2>1, OneMore DEF Books, CountsViewers
  <2>3. c \in Viewers(ch) <=> ch \in O
    BY <1>2, <1>5 DEF Viewers
  <2>4. ch \in O => ch \in resident
    BY <1>2, <1>5, HeldIsResident
  <2>5. count'[ch] = IF ch \in fresh THEN count[ch] + 1
                     ELSE IF ch \in gone THEN count[ch] - 1
                     ELSE count[ch]
    BY <1>1, <2>2, <2>4 DEF DecPlayers, Increment, Decrement
  <2>6. /\ c \in Viewers(ch)' <=> ch \in V
        /\ \A d \in Conn \ {c} : d \in Viewers(ch)' <=> d \in Viewers(ch)
        /\ Viewers(ch)' \subseteq Conn /\ Viewers(ch) \subseteq Conn
    BY <1>1, <1>2, <1>6 DEF Viewers, TypeOK, Playing
  <2>7. /\ ch \in fresh => Viewers(ch)' = Viewers(ch) \cup {c}
        /\ ch \in gone => Viewers(ch)' = Viewers(ch) \ {c}
        /\ ch \notin fresh /\ ch \notin gone => Viewers(ch)' = Viewers(ch)
    BY <2>3, <2>6
  <2>8. count'[ch] = Cardinality(Viewers(ch)')
    BY <2>1, <2>2, <2>3, <2>5, <2>7, OneMore
  <2>9. count[ch] > 0 => ch \in resident
    BY DEF Books, CountedResident
  <2>10. ch \in gone => Increment(count, fresh)[ch] = count[ch]
    BY DEF Increment
  <2>11. ch \in resident' <=> /\ ch \in resident \/ ch \in V
                              /\ ~(ch \in gone /\ count[ch] = 1)
    BY <1>8, <2>10
  <2> QED
    BY <2>2, <2>4, <2>5, <2>8, <2>9, <2>11
<1>10. ASSUME NEW ch \in Chunk, count'[ch] > 0
       PROVE  ch \in resident'
  <2>1. CASE ch \in fresh
    BY <1>9, <2>1
  <2>2. CASE ch \in gone
    BY <1>9, <1>10, <2>2
  <2>3. CASE ch \notin fresh /\ ch \notin gone
    BY <1>9, <1>10, <2>3
  <2> QED
    BY <2>1, <2>2, <2>3
<1>11. ASSUME ~partial', NEW ch \in resident'
       PROVE  count'[ch] > 0
  <2>1. pos[c] \in Place
    BY DEF TypeOK
  <2>2. ch \in resident \cup V /\ ch \in Chunk
    BY <1>8, <2>1, ViewInChunk DEF TypeOK, WorldTypeOK
  <2>3. ch \in resident => count[ch] > 0
    BY <1>1, <1>11 DEF Books, ResidentCounted
  <2>4. CASE ch \in fresh
    BY <1>9, <2>2, <2>4
  <2>5. CASE ch \in gone
    BY <1>9, <1>11, <2>2, <2>3, <2>5
  <2>6. CASE ch \notin fresh /\ ch \notin gone
    BY <1>9, <1>11, <2>2, <2>3, <2>6
  <2> QED
    BY <2>4, <2>5, <2>6
<1> QED
  BY <1>7, <1>9, <1>10, <1>11

\* Every handler keeps the books until the first upset.
LEMMA BooksStep == IInv /\ [Next]_vars => Books'
<1> SUFFICES ASSUME IInv, [Next]_vars
             PROVE  Books'
  OBVIOUS
<1> TypeOK /\ Books /\ ListInv
  BY IInvParts DEF ListInv
<1>1. CASE UNCHANGED vars \/ AcceptNobody \/ LoginFailsEarly \/ EndTick
              \/ BrokenPipe
  <2>1. UNCHANGED <<resident, count, status, pos, old, requesting, sent,
                    upsets, partial>>
    BY <1>1 DEF vars, worldVars, playerVars, history, AcceptNobody,
                LoginFailsEarly, BrokenPipe, Dies, EndTick
  <2> QED
    BY <2>1, BooksSame DEF Anchor, Playing
<1>2. ASSUME NEW c \in Conn,
             JoinFailsEarly(c) \/ JoinViewPositionFails(c)
      PROVE  Books'
  <2>1. Strand(c)
    BY <1>2 DEF JoinFailsEarly, JoinViewPositionFails
  <2>2. /\ Playing' = Playing
        /\ UNCHANGED <<pos, old, requesting, sent, count, upsets>>
    BY <1>2, <2>1, ListStrand
       DEF JoinFailsEarly, JoinViewPositionFails, Strand, playerVars, worldVars,
           history
  <2>3. /\ resident \subseteq resident'
        /\ partial' \/ UNCHANGED <<resident, partial>>
    BY <1>2 DEF JoinFailsEarly, JoinViewPositionFails, worldVars, history
  <2> QED
    BY <2>2, <2>3, BooksSame DEF Anchor
<1>3. ASSUME NEW c \in Conn, NEW bad \in Chunk, JoinLoadFails(c, bad)
      PROVE  Books'
  <2>1. Strand(c)
    BY <1>3 DEF JoinLoadFails
  <2>2. /\ Playing' = Playing
        /\ UNCHANGED <<pos, old, requesting, sent, count, upsets>>
        /\ resident \subseteq resident' /\ partial'
    BY <1>3, <2>1, ListStrand DEF JoinLoadFails, LoadPart, Strand, playerVars
  <2> QED
    BY <2>2, BooksSame DEF Anchor
<1>4. ASSUME NEW c \in Conn, JoinFailsLate(c)
      PROVE  Books'
  <2>1. upsets' > 0
    BY <1>4, UpsetsType DEF JoinFailsLate
  <2>2. Playing' = Playing /\ UNCHANGED sent
    BY <1>4, ListStrand DEF JoinFailsLate, Strand, playerVars
  <2>3. OthersHoldNothing'
    BY <2>2 DEF Books, OthersHoldNothing
  <2> QED
    BY <2>1, <2>3, BooksUpset
<1>5. ASSUME NEW c \in Conn, Join(c)
      PROVE  Books'
  BY <1>5, BooksJoin
<1>6. ASSUME NEW c \in Conn, NEW p \in Place, Move(c, p)
      PROVE  Books'
  <2>1. Playing' = Playing /\ UNCHANGED <<sent, count, resident, partial>>
    BY <1>6 DEF Move, Playing, worldVars
  <2>2. CASE requesting[c]
    <3>1. upsets' > 0
      BY <1>6, <2>2, UpsetsType DEF Move, UpsetsIf
    <3>2. OthersHoldNothing'
      BY <2>1 DEF Books, OthersHoldNothing
    <3> QED
      BY <3>1, <3>2, BooksUpset
  <2>3. CASE ~requesting[c]
    <3>1. upsets' = upsets
      BY <1>6, <2>3 DEF Move, UpsetsIf
    <3>2. \A d \in Playing : Anchor(d)' = Anchor(d)
      BY <1>6, <2>3 DEF Move, Anchor, TypeOK, Playing
    <3> QED
      BY <2>1, <3>1, <3>2, BooksSame
  <2> QED
    BY <2>2, <2>3
<1>7. ASSUME NEW c \in Conn, NEW ch \in Chunk, PlaceBlockMisses(c, ch)
      PROVE  Books'
  <2>1. UNCHANGED <<resident, count, status, pos, old, requesting, sent,
                    upsets, partial>>
    BY <1>7 DEF PlaceBlockMisses, Dies, worldVars, playerVars, history
  <2> QED
    BY <2>1, BooksSame DEF Anchor, Playing
<1>8. ASSUME NEW c \in Conn, Leave(c)
      PROVE  Books'
  BY <1>8, BooksLeave
<1>9. ASSUME NEW c \in Conn, Drop(c)
      PROVE  Books'
  <2>1. upsets' > 0
    BY <1>9, UpsetsType DEF Drop
  <2>2. Playing' = Playing \ {c} /\ sent' = [sent EXCEPT ![c] = {}]
    BY <1>9, ListRemove DEF Drop, Serving, Remove
  <2>3. OthersHoldNothing'
    BY <2>2 DEF Books, OthersHoldNothing, TypeOK
  <2> QED
    BY <2>1, <2>3, BooksUpset
<1>10. ASSUME NEW c \in Conn, Served(c) \/ ViewPositionFails(c)
       PROVE  Books'
  <2>1. UNCHANGED <<resident, count, status, pos, old, requesting, sent,
                    upsets, partial>>
    BY <1>10 DEF Served, ViewPositionFails, ToNext, worldVars, playerVars,
                 history
  <2> QED
    BY <2>1, BooksSame DEF Anchor, Playing
<1>11. ASSUME NEW c \in Conn, UpdateView(c)
       PROVE  Books'
  BY <1>11, BooksUpdateView
<1>12. ASSUME NEW c \in Conn, NEW bad \in Chunk, ViewLoadFails(c, bad)
       PROVE  Books'
  <2>1. /\ UNCHANGED <<status, pos, old, requesting, sent, count, upsets>>
        /\ resident \subseteq resident' /\ partial'
    BY <1>12 DEF ViewLoadFails, LoadPart, ToNext, playerVars
  <2> QED
    BY <2>1, BooksSame DEF Anchor, Playing
<1> QED
  BY <1>1, <1>2, <1>3, <1>4, <1>5, <1>6, <1>7, <1>8, <1>9, <1>10, <1>11, <1>12
     DEF Next, Accept, Play, SetView

\* Nothing is counted or held at the start.
LEMMA BooksInit == Init => IInv
<1> SUFFICES ASSUME Init PROVE IInv
  OBVIOUS
<1>1. ListInv
  BY ListInit
<1>2. Playing = {} /\ \A ch : Viewers(ch) = {}
  BY DEF Init, Playing, Viewers
<1>3. Cardinality({}) = 0
  BY FS_EmptySet
<1>4. \A ch \in Chunk : count[ch] = 0
  BY DEF Init, WorldInit
<1>5. OthersHoldNothing /\ ClientHoldsView /\ CountsViewers
  BY <1>2, <1>3, <1>4 DEF Init, OthersHoldNothing, ClientHoldsView, CountsViewers
<1>6. CountedResident /\ ResidentCounted
  BY <1>4 DEF Init, WorldInit, CountedResident, ResidentCounted
<1> QED
  BY <1>1, <1>5, <1>6, IInvParts DEF Books

\* The inductive invariant is inductive.
LEMMA IInvStep == IInv /\ [Next]_vars => IInv'
<1> SUFFICES ASSUME IInv, [Next]_vars PROVE IInv'
  OBVIOUS
<1>1. ListInv' /\ Books'
  BY IInvParts, ListStep, BooksStep
<1> QED
  BY <1>1 DEF IInv, ListInv, Books

\* The whole inductive invariant.
THEOREM Inductive == Spec => []IInv
<1> QED
  BY BooksInit, IInvStep, PTL DEF Spec

\* chunk.h:17 says that player_count is the number of players that can see the
\* chunk: it is, for any number of players and any views, until a border is
\* crossed twice before an update, a player leaves in mid-crossing, a
\* connection is dropped without server_end_play, or a join fails late.
THEOREM CountsAreViewers == Spec => []CountsViewers
<1>1. IInv => CountsViewers
  BY DEF IInv
<1> QED
  BY <1>1, Inductive, PTL

\* Until then every client holds exactly the view it was last promised
\* (server.h:20).
THEOREM ClientsHoldTheirViews == Spec => []ClientHoldsView
<1>1. IInv => ClientHoldsView
  BY DEF IInv
<1> QED
  BY <1>1, Inductive, PTL

\* Until then no chunk that a client holds is freed (world.c:178-196).
THEOREM VisibleChunksStay == Spec => []VisibleResident
<1>1. IInv => VisibleResident
  <2> SUFFICES ASSUME IInv, upsets = 0, NEW c \in Playing, NEW ch \in sent[c]
               PROVE  ch \in resident
    BY DEF VisibleResident
  <2>1. ch \in Chunk
    BY DEF IInv, TypeOK, Playing
  <2> QED
    BY <2>1, HeldIsResident
<1> QED
  BY <1>1, Inductive, PTL

\* Until then, and as long as every load is followed by its counting, memory
\* holds only chunks that somebody sees (world.c:189-192).
THEOREM NoChunkIdles == Spec => []NoIdleChunks
<1>1. IInv => NoIdleChunks
  <2> SUFFICES ASSUME IInv, upsets = 0, ~partial, NEW ch \in resident
               PROVE  Viewers(ch) # {}
    BY DEF NoIdleChunks
  <2>1. ch \in Chunk
    BY DEF IInv, TypeOK, WorldTypeOK
  <2>2. count[ch] > 0 /\ count[ch] = Cardinality(Viewers(ch))
    BY <2>1 DEF IInv, ResidentCounted, CountsViewers
  <2>3. Cardinality({}) = 0
    BY FS_EmptySet
  <2> QED
    BY <2>2, <2>3
<1> QED
  BY <1>1, Inductive, PTL

\* A step never frees a chunk that a player who remains sees, as long as the
\* books are not upset (world.c:178-196).
THEOREM FreedChunksUnseen == Spec => FreedUnseen
<1> DEFINE A == upsets' = 0 =>
                  \A ch \in resident \ resident' : Viewers(ch)' = {}
<1>1. IInv /\ IInv' => A
  <2> SUFFICES ASSUME IInv, IInv', upsets' = 0, NEW ch \in resident \ resident'
               PROVE  Viewers(ch)' = {}
    OBVIOUS
  <2>1. ch \in Chunk
    BY DEF IInv, TypeOK, WorldTypeOK
  <2>2. ~(count'[ch] > 0) /\ count'[ch] = Cardinality(Viewers(ch)')
    BY <2>1 DEF IInv, CountedResident, CountsViewers
  <2>3. Viewers(ch)' \in SUBSET Conn
    BY DEF Viewers, Playing
  <2>4. IsFiniteSet(Viewers(ch)')
    BY <2>3, ServerAssumption, FS_Subset
  <2>5. /\ Cardinality(Viewers(ch)') \in Nat
        /\ Cardinality(Viewers(ch)') = 0 <=> Viewers(ch)' = {}
    BY <2>4, OneMore
  <2> QED
    BY <2>2, <2>5
<1> QED
  BY <1>1, Inductive, PTL DEF FreedUnseen

-----------------------------------------------------------------------------
(* The server implements Visibility. *)

NoUpsets == upsets = 0

\* Until an upset the chunks that are kept are those that some client holds.
LEMMA KeptIsSeen == IInv /\ NoUpsets => Kept = Promise!Seen(sent)
<1> SUFFICES ASSUME IInv, upsets = 0
             PROVE  Kept = Promise!Seen(sent)
  BY DEF NoUpsets
<1>1. ASSUME NEW ch \in Kept
      PROVE  ch \in Promise!Seen(sent)
  <2>1. count[ch] > 0 /\ count[ch] = Cardinality(Viewers(ch))
    BY <1>1 DEF Kept, IInv, CountsViewers
  <2>2. Cardinality({}) = 0
    BY FS_EmptySet
  <2>3. PICK c \in Conn : ch \in sent[c]
    BY <2>1, <2>2 DEF Viewers, Playing
  <2> QED
    BY <2>3 DEF Promise!Seen
<1>2. ASSUME NEW ch \in Promise!Seen(sent)
      PROVE  ch \in Kept
  <2>1. PICK c \in Conn : ch \in sent[c]
    BY <1>2 DEF Promise!Seen
  <2>2. c \in Playing /\ ch \in Chunk
    BY <2>1 DEF IInv, OthersHoldNothing, TypeOK
  <2> QED
    BY <2>1, <2>2, HeldIsResident DEF Kept
<1> QED
  BY <1>1, <1>2

\* With no trouble every step is one of Visibility, or changes nothing it speaks of.
LEMMA PromiseStep ==
  ASSUME Trouble = {}, IInv, IInv', upsets = 0, [Next]_vars
  PROVE  upsets' = 0 /\ [Promise!Next]_<<sent, Kept>>
<1> TypeOK /\ ListInv
  BY IInvParts DEF ListInv
<1>1. \A k : ~Upsets(k)
  BY DEF Upsets
<1>2. upsets' = 0
  BY <1>1 DEF Next, Accept, Play, SetView, vars, history, AcceptNobody,
              LoginFailsEarly, BrokenPipe, Dies, JoinFailsEarly, JoinLoadFails,
              JoinViewPositionFails, JoinFailsLate, Join, Move,
              PlaceBlockMisses, Leave, Drop, Served, UpdateView, Fresh, Gone, ViewLoadFails,
              ViewPositionFails, EndTick, UpsetsIf
<1>3. Kept' = Promise!Seen(sent')
  <2>1. IInv' /\ NoUpsets' => (Kept = Promise!Seen(sent))'
    BY KeptIsSeen, PTL
  <2> QED
    BY <1>2, <2>1 DEF Promise!Seen, NoUpsets
<1>4. ASSUME NEW c \in Conn, Join(c)
      PROVE  Promise!Next
  <2>1. sent' = [sent EXCEPT ![c] = View(Spawn)]
    BY <1>4 DEF Join
  <2> QED
    BY <1>3, <2>1, ServerAssumption DEF Promise!Next, Promise!Show
<1>5. ASSUME NEW c \in Conn, Leave(c)
      PROVE  Promise!Next
  <2>1. sent' = [sent EXCEPT ![c] = {}]
    BY <1>5 DEF Leave, Remove
  <2> QED
    BY <1>3, <2>1 DEF Promise!Next, Promise!Hide
<1>6. ASSUME NEW c \in Conn, UpdateView(c)
      PROVE  Promise!Next
  <2>1. c \in Playing /\ requesting[c] /\ pos[c] \in Place
    BY <1>6, HeadPlays DEF UpdateView, Fresh, Gone, ToNext, ListInv, ViewInTurn, TypeOK
  <2>2. sent[c] = View(old[c])
    BY <2>1 DEF IInv, ClientHoldsView, Anchor
  <2>3. sent' = [sent EXCEPT ![c] = View(pos[c])]
    <3>1. (View(old[c]) \cup (View(pos[c]) \ View(old[c])))
            \ (View(old[c]) \ View(pos[c])) = View(pos[c])
      OBVIOUS
    <3> QED
      BY <1>6, <2>2, <3>1 DEF UpdateView, Fresh, Gone
  <2> QED
    BY <1>3, <2>1, <2>3 DEF Promise!Next, Promise!Show
<1>7. ASSUME ~\E c \in Conn : Join(c) \/ Leave(c) \/ UpdateView(c)
      PROVE  UNCHANGED <<sent, count>>
  BY <1>1, <1>7
     DEF Next, Accept, Play, SetView, vars, worldVars, playerVars, AcceptNobody,
         LoginFailsEarly, BrokenPipe, Dies, JoinFailsEarly, JoinLoadFails, LoadPart, Strand,
         JoinViewPositionFails, JoinFailsLate, Move, PlaceBlockMisses, Drop,
         Served, ViewLoadFails, ViewPositionFails, EndTick
<1>8. CASE ~\E c \in Conn : Join(c) \/ Leave(c) \/ UpdateView(c)
  BY <1>2, <1>7, <1>8 DEF Kept
<1> QED
  BY <1>2, <1>4, <1>5, <1>6, <1>8

\* When nothing can upset the books, the server refines Visibility: every
\* player sees nothing or one whole view, and the kept chunks are exactly those
\* that some player sees (chunk.h:17, server.h:20).
THEOREM ImplementsVisibility == Trouble = {} => (Spec => KeepsPromise)
<1> SUFFICES ASSUME Trouble = {} PROVE Spec => KeepsPromise
  OBVIOUS
<1>1. Init => Promise!Init /\ NoUpsets
  BY DEF Init, WorldInit, Promise!Init, Kept, NoUpsets
<1>2. IInv /\ IInv' /\ NoUpsets /\ [Next]_vars
        => NoUpsets' /\ [Promise!Next]_Promise!vars
  BY PromiseStep DEF Promise!vars, NoUpsets
<1> QED
  BY <1>1, <1>2, Inductive, PTL DEF Spec, KeepsPromise, Promise!Spec
=============================================================================
