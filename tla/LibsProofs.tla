------------------------------ MODULE LibsProofs ------------------------------
(***************************************************************************)
(* Five of the libraries under the server.                                 *)
(*                                                                         *)
(* The list of libs/list implements Walk, with the cursor by which main    *)
(* and server_send_messages go through it, for any number of nodes: the    *)
(* nodes on the heap always form one path from the head to the empty node. *)
(* What Steps, ListLen and Items compute along that path is proved from    *)
(* the least step at which the recursion and the path would differ.        *)
(*                                                                         *)
(* What anvil_get_chunks leaves behind, for every region, range and file:  *)
(* success means that the range is in memory or counted as missing, and a  *)
(* failure is reported with the first chunk that cannot be read.           *)
(*                                                                         *)
(* The hash map of libs/hashmap implements KeyValue, for any keys, values  *)
(* and hash function: a search from its hash meets a key where it was put, *)
(* through collisions, removals and resizes.                               *)
(*                                                                         *)
(* A chunk takes its arrays out of the tree it is read from: each has one  *)
(* owner at every step, and is freed once.                                 *)
(*                                                                         *)
(* The palette indexes of a section, packed without padding: a write adds  *)
(* bits to one block, whichever longs it lies in, and never leaves the     *)
(* array, for every length of the palette.                                 *)
(***************************************************************************)
EXTENDS LinkedList, Anvil, Hashmap, Chunk, Section, FiniteSetTheorems,
        FunctionTheorems, WellFoundedInduction, TLAPS

(* Numbers. *)

\* Every set of naturals that is not empty has a least element.
LEMMA LeastNumber ==
  ASSUME NEW T \in SUBSET Nat, T # {}
  PROVE  \E m \in T : \A n \in T : m <= n
<1> DEFINE below(n) == 0..n - 1
           F == {below(n) : n \in T}
<1>1. IsWellFoundedOn(StrictSubsetOrdering(Nat), FiniteSubsetsOf(Nat))
  BY FS_StrictSubsetOrderingWellFounded
<1>2. F \subseteq FiniteSubsetsOf(Nat) /\ F # {}
  <2>1. ASSUME NEW n \in T PROVE below(n) \in FiniteSubsetsOf(Nat)
    <3>1. n \in Nat /\ 0 \in Int /\ n - 1 \in Int
      OBVIOUS
    <3>2. IsFiniteSet(0..n - 1)
      BY <3>1, FS_Interval
    <3>3. 0..n - 1 \in SUBSET Nat
      BY <3>1
    <3> QED
      BY <3>2, <3>3 DEF FiniteSubsetsOf
  <2> QED
    BY <2>1
<1>3. \E x \in F : \A y \in F : ~(<<y, x>> \in StrictSubsetOrdering(Nat))
  BY <1>1, <1>2, WFMin
<1>4. PICK m \in T :
        \A n \in T : ~(<<below(n), below(m)>> \in StrictSubsetOrdering(Nat))
  BY <1>3
<1>5. ASSUME NEW n \in T, ~(m <= n) PROVE FALSE
  <2>1. n \in Nat /\ m \in Nat /\ n < m
    BY <1>5
  <2>2. m - 1 \in below(m) /\ m - 1 \notin below(n)
    BY <2>1
  <2>3. below(n) \subseteq below(m) /\ below(n) # below(m)
    BY <2>1, <2>2
  <2>4. below(n) \in SUBSET Nat /\ below(m) \in SUBSET Nat
    BY <2>1
  <2> HIDE DEF below
  <2>5. <<below(n), below(m)>> \in StrictSubsetOrdering(Nat)
    <3> DEFINE a == below(n)
               b == below(m)
    <3>1. a \subseteq b /\ a # b /\ a \in SUBSET Nat /\ b \in SUBSET Nat
      BY <2>3, <2>4
    <3> HIDE DEF a, b
    <3>2. <<a, b>> \in StrictSubsetOrdering(Nat)
      BY <3>1 DEF StrictSubsetOrdering
    <3> QED
      BY <3>2 DEF a, b
  <2> QED
    BY <1>4, <2>5
<1> QED
  BY <1>5

-----------------------------------------------------------------------------
(* The path. *)

\* p is the list from its head to the empty node, and there is nothing else on
\* the heap.
Path(n, p) ==
  /\ p \in [1..n -> Node] /\ p[1] = head
  /\ \A i, j \in 1..n : p[i] = p[j] => i = j
  /\ Allocated = {p[i] : i \in 1..n}
  /\ heap[p[n]] = EmptyCell
  /\ \A i \in 1..n - 1 : heap[p[i]].data \in Item /\ heap[p[i]].next = p[i + 1]

\* It passes the cursor at c.
Through(n, p, c) == Path(n, p) /\ c \in 1..n /\ p[c] = cursor

\* The inductive invariant: there is such a path, through the cursor.
LInv ==
  /\ ListTypeOK
  /\ \E n \in 1..Cardinality(Node) : \E p \in [1..n -> Node] :
       \E c \in 1..n : Through(n, p, c)

\* No path is longer than there are addresses.
LEMMA PathFits ==
  ASSUME NEW n \in Nat \ {0}, NEW p, Path(n, p)
  PROVE  n \in 1..Cardinality(Node) /\ Cardinality(Node) \in Nat
<1>1. p \in Injection(1..n, Node)
  BY DEF Path, Injection, IsInjective
<1>2. IsFiniteSet(Node) /\ Cardinality(Node) \in Nat
  BY ListAssumption, FS_CardinalityType
<1>3. Cardinality(1..n) <= Cardinality(Node)
  BY <1>1, <1>2, FS_Injection
<1>4. Cardinality(1..n) = n
  <2>1. \A k \in Nat \ {0} : Cardinality(1..k) = k
    <3> SUFFICES ASSUME NEW k \in Nat \ {0} PROVE Cardinality(1..k) = k
      OBVIOUS
    <3>1. 1 \in Int /\ k \in Int /\ 1 <= k
      OBVIOUS
    <3>2. Cardinality(1..k) = IF 1 > k THEN 0 ELSE k - 1 + 1
      BY <3>1, FS_Interval
    <3> QED
      BY <3>1, <3>2
  <2> QED
    BY <2>1
<1> QED
  BY <1>2, <1>3, <1>4

\* What the recursion of Steps says of the step after node m.
After(m) == IF m \in Allocated THEN NextOf(m) ELSE Null

\* Steps is the function its recursion defines, if that has a solution.
LEMMA StepsEquation ==
  ASSUME NEW n, NEW w \in [0..Cardinality(Node) -> Node \cup {Null}],
         \A k \in 0..Cardinality(Node) : w[k] = IF k = 0 THEN n ELSE After(w[k - 1])
  PROVE  /\ DOMAIN Steps(n) = 0..Cardinality(Node)
         /\ \A k \in 0..Cardinality(Node) :
              Steps(n)[k] = IF k = 0 THEN n ELSE After(Steps(n)[k - 1])
<1>1. w = [k \in 0..Cardinality(Node) |->
             IF k = 0 THEN n
             ELSE IF w[k - 1] \in Allocated THEN NextOf(w[k - 1]) ELSE Null]
  BY DEF After
<1>2. Steps(n) = [k \in 0..Cardinality(Node) |->
                    IF k = 0 THEN n
                    ELSE IF Steps(n)[k - 1] \in Allocated
                           THEN NextOf(Steps(n)[k - 1]) ELSE Null]
  BY <1>1 DEF Steps
<1> HIDE DEF Steps
<1> QED
  BY <1>2 DEF After

\* Steps from a node of the path goes along it, and beyond its end there is nothing.
LEMMA StepsAlong ==
  ASSUME NEW n \in Nat \ {0}, NEW p, Path(n, p), NEW i \in 1..n
  PROVE  /\ DOMAIN Steps(p[i]) = 0..Cardinality(Node)
         /\ \A k \in 0..Cardinality(Node) :
              Steps(p[i])[k] = IF i + k <= n THEN p[i + k] ELSE Null
<1> DEFINE N == Cardinality(Node)
           w == [k \in 0..N |-> IF i + k <= n THEN p[i + k] ELSE Null]
           s == Steps(p[i])
<1>1. N \in Nat
  BY PathFits
<1>2. Null \notin Allocated
  BY ListAssumption DEF Allocated
<1>3. \A j \in 1..n - 1 : p[j] \in Allocated /\ NextOf(p[j]) = p[j + 1]
  BY DEF Path, NextOf
<1>4. p[n] \in Allocated /\ NextOf(p[n]) = Null
  BY DEF Path, NextOf, EmptyCell
<1>5. ASSUME NEW k \in 1..N PROVE w[k] = After(w[k - 1])
  <2>1. k - 1 \in 0..N /\ k \in 0..N
    BY <1>1
  <2>2. CASE i + k <= n
    <3>1. i + k - 1 \in 1..n - 1 /\ i + (k - 1) = i + k - 1 /\ i + k - 1 + 1 = i + k
      BY <2>2, <1>1
    <3>2. w[k - 1] = p[i + k - 1] /\ w[k] = p[i + k]
      BY <2>1, <2>2, <3>1
    <3> QED
      BY <1>3, <3>1, <3>2 DEF After
  <2>3. CASE i + k = n + 1
    <3>1. w[k - 1] = p[n] /\ w[k] = Null
      BY <2>1, <2>3, <1>1
    <3> QED
      BY <1>4, <3>1 DEF After
  <2>4. CASE i + k > n + 1
    <3>1. w[k - 1] = Null /\ w[k] = Null
      BY <2>1, <2>4, <1>1
    <3> QED
      BY <1>2, <3>1 DEF After
  <2> QED
    BY <2>2, <2>3, <2>4, <1>1
<1>6. w[0] = p[i]
  BY <1>1
<1>7. \A k \in 0..N : w[k] = IF k = 0 THEN p[i] ELSE After(w[k - 1])
  <2> SUFFICES ASSUME NEW k \in 0..N
               PROVE  w[k] = IF k = 0 THEN p[i] ELSE After(w[k - 1])
    OBVIOUS
  <2>1. k = 0 \/ k \in 1..N
    BY <1>1
  <2> HIDE DEF w
  <2> QED
    BY <2>1, <1>5, <1>6
<1>8. w \in [0..N -> Node \cup {Null}]
  <2> SUFFICES ASSUME NEW k \in 0..N PROVE w[k] \in Node \cup {Null}
    OBVIOUS
  <2>1. i + k <= n => i + k \in 1..n
    BY <1>1
  <2> QED
    BY <2>1 DEF Path
<1>9. DOMAIN s = 0..N /\ s[0] = p[i] /\ \A k \in 1..N : s[k] = After(s[k - 1])
  <2> HIDE DEF w
  <2>1. /\ DOMAIN s = 0..N
        /\ \A k \in 0..N : s[k] = IF k = 0 THEN p[i] ELSE After(s[k - 1])
    BY <1>7, <1>8, StepsEquation
  <2> HIDE DEF s
  <2> QED
    BY <1>1, <2>1
<1> HIDE DEF s
<1>10. \A k \in 0..N : s[k] = w[k]
  <2> SUFFICES ASSUME \E k \in 0..N : s[k] # w[k] PROVE FALSE
    OBVIOUS
  <2> DEFINE T == {k \in 0..N : s[k] # w[k]}
  <2>1. T \in SUBSET Nat /\ T # {}
    BY <1>1
  <2>2. PICK k \in T : \A j \in T : k <= j
    BY <2>1, LeastNumber
  <2>3. k \in 1..N /\ k - 1 \in 0..N /\ ~(k <= k - 1)
    BY <1>1, <1>6, <1>9, <2>2
  <2>4. s[k - 1] = w[k - 1]
    BY <2>2, <2>3
  <2>5. s[k] = w[k]
    BY <1>5, <1>9, <2>3, <2>4
  <2> QED
    BY <2>2, <2>5
<1> QED
  BY <1>9, <1>10 DEF s

\* The length of the list from a node of the path is what follows it.
LEMMA LengthAlong ==
  ASSUME NEW n \in Nat \ {0}, NEW p, Path(n, p), NEW i \in 1..n
  PROVE  ListLen(p[i]) = n - i
<1> DEFINE N == Cardinality(Node)
           s == Steps(p[i])
           Ends(k) == s[k] \in Allocated /\ ListEmpty(s[k])
<1>1. N \in Nat /\ n <= N
  BY PathFits
<1>2. DOMAIN s = 0..N /\ \A k \in 0..N : s[k] = IF i + k <= n THEN p[i + k] ELSE Null
  BY StepsAlong
<1> HIDE DEF s
<1>3. n - i \in 0..N /\ s[n - i] = p[n]
  <2>1. n - i \in 0..N /\ i + (n - i) = n
    BY <1>1
  <2> QED
    BY <1>2, <2>1
<1>4. Ends(n - i)
  BY <1>3 DEF Path, ListEmpty
<1>5. ASSUME NEW k \in 0..N, Ends(k) PROVE k = n - i
  <2>1. CASE i + k < n
    <3>1. i + k \in 1..n - 1 /\ s[k] = p[i + k]
      BY <2>1, <1>1, <1>2
    <3>2. heap[p[i + k]].data \in Item
      BY <3>1 DEF Path
    <3> QED
      BY <1>5, <3>1, <3>2, ListAssumption DEF ListEmpty, EmptyCell
  <2>2. CASE i + k > n
    <3>1. s[k] = Null
      BY <2>2, <1>1, <1>2
    <3> QED
      BY <1>5, <3>1, ListAssumption DEF Allocated
  <2> QED
    BY <2>1, <2>2, <1>1
<1>6. (CHOOSE k \in DOMAIN s : Ends(k)) = n - i
  <2> HIDE DEF Ends
  <2> QED
    BY <1>2, <1>3, <1>4, <1>5
<1> QED
  BY <1>6 DEF ListLen, s

\* The nodes of the list are those of the path.
LEMMA NodesAlong ==
  ASSUME NEW n \in Nat \ {0}, NEW p, Path(n, p)
  PROVE  Nodes(head) = Allocated
<1>1. 1 \in 1..n /\ p[1] = head /\ n \in 1..Cardinality(Node) /\ Cardinality(Node) \in Nat
  <2>1. n \in 1..Cardinality(Node) /\ Cardinality(Node) \in Nat
    BY PathFits
  <2> QED
    BY <2>1 DEF Path
<1>2. ListLen(head) = n - 1
  BY <1>1, LengthAlong
<1>3. \A k \in 0..n - 1 : Steps(head)[k] = p[k + 1]
  <2> SUFFICES ASSUME NEW k \in 0..n - 1 PROVE Steps(head)[k] = p[k + 1]
    OBVIOUS
  <2>1. k \in 0..Cardinality(Node) /\ 1 + k <= n /\ 1 + k = k + 1
    BY <1>1
  <2> QED
    BY <1>1, <2>1, StepsAlong
<1>4. {p[i] : i \in 1..n} = {p[k + 1] : k \in 0..n - 1}
  <2>1. ASSUME NEW i \in 1..n PROVE \E k \in 0..n - 1 : p[i] = p[k + 1]
    <3>1. i - 1 \in 0..n - 1 /\ i - 1 + 1 = i
      OBVIOUS
    <3> QED
      BY <3>1
  <2>2. ASSUME NEW k \in 0..n - 1 PROVE \E i \in 1..n : p[i] = p[k + 1]
    <3>1. k + 1 \in 1..n
      OBVIOUS
    <3> QED
      BY <3>1
  <2> QED
    BY <2>1, <2>2
<1>5. Nodes(head) = {p[k + 1] : k \in 0..n - 1}
  BY <1>2, <1>3 DEF Nodes
<1> QED
  BY <1>4, <1>5 DEF Path

\* The elements before the cursor, and those from it on.
Before(p, c) == [j \in 1..c - 1 |-> heap[p[j]].data]
From(n, p, c) == [j \in 1..n - c |-> heap[p[c + j - 1]].data]

\* The elements of the list from a node of the path are what its nodes hold.
LEMMA ItemsAlong ==
  ASSUME NEW n \in Nat \ {0}, NEW p, Path(n, p), NEW i \in 1..n
  PROVE  Items(p[i]) = From(n, p, i)
<1>1. ListLen(p[i]) = n - i
  BY LengthAlong
<1>2. n \in 1..Cardinality(Node) /\ Cardinality(Node) \in Nat
  BY PathFits
<1>3. \A j \in 1..n - i : Steps(p[i])[j - 1] = p[i + j - 1]
  <2> SUFFICES ASSUME NEW j \in 1..n - i PROVE Steps(p[i])[j - 1] = p[i + j - 1]
    OBVIOUS
  <2>1. j - 1 \in 0..Cardinality(Node) /\ i + (j - 1) <= n /\ i + (j - 1) = i + j - 1
    BY <1>2
  <2> QED
    BY <2>1, StepsAlong
<1> QED
  BY <1>1, <1>3 DEF Items, From

\* What Walk is told of the list, in terms of the path.
LEMMA Shown ==
  \A n \in Nat \ {0} : \A p : \A c \in 1..n :
    Through(n, p, c) => Passed = Before(p, c) /\ Items(cursor) = From(n, p, c)
<1> SUFFICES ASSUME NEW n \in Nat \ {0}, NEW p, NEW c \in 1..n, Through(n, p, c)
             PROVE  Passed = Before(p, c) /\ Items(cursor) = From(n, p, c)
  OBVIOUS
<1>1. Path(n, p) /\ p[c] = cursor /\ p[1] = head /\ 1 \in 1..n
  BY DEF Through, Path
<1>2. ListLen(head) = n - 1 /\ ListLen(cursor) = n - c
  BY <1>1, LengthAlong
<1>3. Items(head) = From(n, p, 1) /\ Items(cursor) = From(n, p, c)
  BY <1>1, ItemsAlong
<1>4. Passed = SubSeq(From(n, p, 1), 1, c - 1)
  <2>1. (n - 1) - (n - c) = c - 1
    OBVIOUS
  <2> QED
    BY <1>2, <1>3, <2>1 DEF Passed
<1>5. SubSeq(From(n, p, 1), 1, c - 1) = Before(p, c)
  <2>1. \A j \in 1..c - 1 : j \in 1..n - 1 /\ 1 + j - 1 = j
    OBVIOUS
  <2>2. \A j \in 1..c - 1 : From(n, p, 1)[j] = heap[p[j]].data
    BY <2>1 DEF From
  <2>3. SubSeq(From(n, p, 1), 1, c - 1) = [j \in 1..c - 1 |-> From(n, p, 1)[j]]
    OBVIOUS
  <2> QED
    BY <2>2, <2>3 DEF Before
<1> QED
  BY <1>3, <1>4, <1>5

-----------------------------------------------------------------------------
(* The operations. *)

\* A node of the path is the last one exactly if it is empty.
LEMMA EmptyIsLast ==
  ASSUME NEW n \in Nat \ {0}, NEW p, Path(n, p), NEW i \in 1..n
  PROVE  /\ ListEmpty(p[i]) <=> i = n
         /\ i < n => NextOf(p[i]) = p[i + 1] /\ i + 1 \in 1..n
<1>1. i < n => i \in 1..n - 1 /\ i + 1 \in 1..n
  OBVIOUS
<1>2. i < n => heap[p[i]].data \in Item /\ heap[p[i]].next = p[i + 1]
  BY <1>1 DEF Path
<1>3. i < n => heap[p[i]] # EmptyCell
  BY <1>2, ListAssumption DEF EmptyCell
<1>4. i = n => heap[p[i]] = EmptyCell
  BY DEF Path
<1> QED
  BY <1>1, <1>2, <1>3, <1>4 DEF ListEmpty, NextOf

\* The cursor moves to the next node.
LEMMA NextAlong ==
  ASSUME NEW n \in Nat \ {0}, NEW p, NEW c \in 1..n, Through(n, p, c), ListNext
  PROVE  /\ c < n /\ c + 1 \in 1..n /\ Through(n, p, c + 1)'
         /\ heap' = heap
<1>1. Path(n, p) /\ p[c] = cursor
  BY DEF Through
<1>2. c < n /\ NextOf(cursor) = p[c + 1] /\ c + 1 \in 1..n
  BY <1>1, EmptyIsLast DEF ListNext
<1>3. Path(n, p)'
  BY <1>1 DEF Path, ListNext, Allocated
<1> QED
  BY <1>2, <1>3 DEF Through, ListNext

\* Path q in heap g holds what path p, of n nodes, holds in h, but for what is at c.
Without(q, g, p, h, n, c) ==
  \A j \in 1..n - 1 : g[q[j]] = h[p[IF j < c THEN j ELSE j + 1]]

\* list_remove takes one node out of the path, that after the cursor, whose content
\* the cursor's node has from now on.
LEMMA RemoveAlong ==
  ASSUME ListTypeOK, NEW n \in Nat \ {0}, NEW p, NEW c \in 1..n, Through(n, p, c),
         ListRemove,
         NEW q, q = [j \in 1..n - 1 |-> IF j <= c THEN p[j] ELSE p[j + 1]]
  PROVE  /\ c < n /\ ListTypeOK' /\ Through(n - 1, q, c)'
         /\ Without(q, heap', p, heap, n, c)
<1>1. Path(n, p) /\ p[c] = cursor
  BY DEF Through
<1>2. c < n /\ NextOf(cursor) = p[c + 1] /\ c + 1 \in 1..n
  BY <1>1, EmptyIsLast DEF ListRemove
<1>3. \A i \in 1..n : p[i] \in Node
  BY <1>1 DEF Path
<1>4. \A i, j \in 1..n : p[i] = p[j] => i = j
  BY <1>1 DEF Path
<1>5. /\ heap' = [heap EXCEPT ![p[c]] = heap[p[c + 1]], ![p[c + 1]] = Null]
      /\ head' = head /\ cursor' = cursor
  BY <1>1, <1>2 DEF ListRemove
<1>6. /\ heap \in [Node -> Cell \cup {Null}]
      /\ head \in Node /\ cursor \in Node
  BY DEF ListTypeOK
<1>7. heap' \in [Node -> Cell \cup {Null}]
  BY <1>2, <1>3, <1>5, <1>6
<1>8. \A m \in Node : heap'[m] = IF m = p[c + 1] THEN Null
                               ELSE IF m = p[c] THEN heap[p[c + 1]] ELSE heap[m]
  BY <1>2, <1>3, <1>5, <1>6
<1> DEFINE old(j) == IF j < c THEN j ELSE j + 1
           place(j) == IF j <= c THEN j ELSE j + 1
<1>9. \A j \in 1..n - 1 :
        /\ place(j) \in 1..n /\ old(j) \in 1..n /\ place(j) # c + 1
        /\ q[j] = p[place(j)]
        /\ j = c => place(j) = c /\ old(j) = c + 1
        /\ j # c => place(j) # c /\ old(j) = place(j)
  BY <1>2
<1>10. \A j \in 1..n - 1 : heap'[q[j]] = heap[p[old(j)]]
  <2> SUFFICES ASSUME NEW j \in 1..n - 1 PROVE heap'[q[j]] = heap[p[old(j)]]
    OBVIOUS
  <2> HIDE DEF old, place
  <2>1. /\ place(j) \in 1..n /\ old(j) \in 1..n /\ place(j) # c + 1
        /\ q[j] = p[place(j)]
        /\ j = c => place(j) = c /\ old(j) = c + 1
        /\ j # c => place(j) # c /\ old(j) = place(j)
    BY <1>9
  <2>2. q[j] \in Node /\ q[j] # p[c + 1] /\ (j = c => q[j] = p[c])
        /\ (j # c => q[j] # p[c])
    BY <2>1, <1>2, <1>3, <1>4
  <2> QED
    BY <2>1, <2>2, <1>8
<1>11. q \in [1..n - 1 -> Node] /\ q[1] = head' /\ q[c] = cursor' /\ c \in 1..n - 1
  <2>1. 1 \in 1..n - 1 /\ c \in 1..n - 1 /\ place(1) = 1 /\ place(c) = c
    BY <1>2
  <2>2. \A j \in 1..n - 1 : q[j] \in Node
    BY <1>3, <1>9
  <2>3. q[1] = p[1] /\ q[c] = p[c] /\ p[1] = head
    BY <2>1, <1>1 DEF Path
  <2> QED
    BY <2>1, <2>2, <2>3, <1>1, <1>5
<1>12. \A i, j \in 1..n - 1 : q[i] = q[j] => i = j
  <2> SUFFICES ASSUME NEW i \in 1..n - 1, NEW j \in 1..n - 1, q[i] = q[j]
               PROVE  i = j
    OBVIOUS
  <2>1. place(i) = place(j)
    BY <1>4, <1>9
  <2> QED
    BY <2>1, <1>2
<1>13. Allocated' = {q[j] : j \in 1..n - 1}
  <2>1. Allocated = {p[i] : i \in 1..n}
    BY <1>1 DEF Path
  <2>2. heap[p[c + 1]] # Null /\ p[c] \in Allocated
    BY <2>1, <1>2 DEF Allocated
  <2>3. Allocated' = Allocated \ {p[c + 1]}
    BY <2>2, <1>8 DEF Allocated
  <2>4. ASSUME NEW i \in 1..n, i # c + 1 PROVE \E j \in 1..n - 1 : q[j] = p[i]
    <3>1. CASE i <= c
      <4>1. i \in 1..n - 1 /\ place(i) = i
        BY <3>1, <1>2
      <4> QED
        BY <4>1, <1>9
    <3>2. CASE i > c
      <4>1. i - 1 \in 1..n - 1 /\ place(i - 1) = i
        BY <2>4, <3>2, <1>2
      <4> QED
        BY <4>1, <1>9
    <3> QED
      BY <3>1, <3>2
  <2>5. ASSUME NEW j \in 1..n - 1 PROVE q[j] \in Allocated \ {p[c + 1]}
    BY <2>1, <1>2, <1>4, <1>9
  <2>6. ASSUME NEW m \in Allocated \ {p[c + 1]} PROVE \E j \in 1..n - 1 : q[j] = m
    <3>1. PICK i \in 1..n : p[i] = m
      BY <2>1
    <3> QED
      BY <3>1, <2>4
  <2>7. Allocated \ {p[c + 1]} = {q[j] : j \in 1..n - 1}
    <3>1. Allocated \ {p[c + 1]} \subseteq {q[j] : j \in 1..n - 1}
      BY <2>6
    <3>2. {q[j] : j \in 1..n - 1} \subseteq Allocated \ {p[c + 1]}
      BY <2>5
    <3> QED
      BY <3>1, <3>2
  <2> QED
    BY <2>3, <2>7
<1>14. heap'[q[n - 1]] = EmptyCell
  <2>1. n - 1 \in 1..n - 1 /\ old(n - 1) = n
    BY <1>2
  <2>2. heap'[q[n - 1]] = heap[p[n]]
    BY <2>1, <1>10
  <2> QED
    BY <2>2, <1>1 DEF Path
<1>15. \A i \in 1..(n - 1) - 1 : heap'[q[i]].data \in Item /\ heap'[q[i]].next = q[i + 1]
  <2> SUFFICES ASSUME NEW i \in 1..(n - 1) - 1
               PROVE  heap'[q[i]].data \in Item /\ heap'[q[i]].next = q[i + 1]
    OBVIOUS
  <2>1. /\ i \in 1..n - 1 /\ i + 1 \in 1..n - 1 /\ old(i) \in 1..n - 1
        /\ place(i + 1) = old(i) + 1
    BY <1>2
  <2>2. heap[p[old(i)]].data \in Item /\ heap[p[old(i)]].next = p[old(i) + 1]
    <3> HIDE DEF old
    <3> QED
      BY <2>1, <1>1 DEF Path
  <2>3. heap'[q[i]] = heap[p[old(i)]] /\ q[i + 1] = p[old(i) + 1]
    <3> HIDE DEF old, place
    <3> QED
      BY <2>1, <1>9, <1>10
  <2> QED
    BY <2>2, <2>3
<1>16. Path(n - 1, q)'
  BY <1>11, <1>12, <1>13, <1>14, <1>15 DEF Path
<1>17. Through(n - 1, q, c)'
  BY <1>11, <1>16 DEF Through
<1> QED
  BY <1>2, <1>5, <1>6, <1>7, <1>10, <1>17 DEF ListTypeOK, Without

\* list_append makes the empty node an element and puts a new empty one after it.
LEMMA AppendAlong ==
  ASSUME ListTypeOK, NEW n \in Nat \ {0}, NEW p, NEW c \in 1..n, Through(n, p, c),
         NEW x \in Item, NEW tmp \in Node, ListAppend(x, tmp),
         NEW q, q = [j \in 1..n + 1 |-> IF j <= n THEN p[j] ELSE tmp]
  PROVE  /\ ListTypeOK' /\ Through(n + 1, q, c)'
         /\ \A j \in 1..n - 1 : heap'[q[j]] = heap[p[j]]
         /\ heap'[q[n]].data = x
<1>1. Path(n, p) /\ p[c] = cursor
  BY DEF Through
<1>2. /\ heap \in [Node -> Cell \cup {Null}]
      /\ head \in Node /\ cursor \in Node
  BY DEF ListTypeOK
<1>3. \A i \in 1..n : p[i] \in Node
  BY <1>1 DEF Path
<1>4. \A i, j \in 1..n : p[i] = p[j] => i = j
  BY <1>1 DEF Path
<1>5. Steps(head)[ListLen(head)] = p[n]
  <2>1. 1 \in 1..n /\ p[1] = head
    BY <1>1 DEF Path
  <2>2. ListLen(head) = n - 1
    BY <2>1, <1>1, LengthAlong
  <2>3. n - 1 \in 0..Cardinality(Node) /\ 1 + (n - 1) = n
    <3>1. n \in 1..Cardinality(Node) /\ Cardinality(Node) \in Nat
      BY <1>1, PathFits
    <3> QED
      BY <3>1
  <2>4. Steps(head)[n - 1] = p[n]
    BY <2>1, <2>3, <1>1, StepsAlong
  <2> QED
    BY <2>2, <2>4
<1>6. /\ tmp \notin Allocated /\ heap[p[n]] = EmptyCell
      /\ heap' = [heap EXCEPT ![tmp] = heap[p[n]], ![p[n]] = [data |-> x, next |-> tmp]]
      /\ head' = head /\ cursor' = cursor
  BY <1>1, <1>5 DEF ListAppend, Prepend, Path
<1>7. Allocated = {p[i] : i \in 1..n}
  BY <1>1 DEF Path
<1>8. \A i \in 1..n : p[i] # tmp
  BY <1>6, <1>7
<1> DEFINE element == [data |-> x, next |-> tmp]
<1>9. element \in Cell /\ EmptyCell \in Cell
  BY DEF Cell, EmptyCell
<1>10. element # Null /\ EmptyCell # Null /\ element.data = x /\ element.next = tmp
  BY <1>9, ListAssumption
<1>11. heap' = [heap EXCEPT ![tmp] = EmptyCell, ![p[n]] = element]
  BY <1>6
<1> HIDE DEF element
<1>12. \A m \in Node : heap'[m] = IF m = p[n] THEN element
                                ELSE IF m = tmp THEN EmptyCell ELSE heap[m]
  BY <1>2, <1>11
<1>13. heap' \in [Node -> Cell \cup {Null}]
  BY <1>2, <1>9, <1>11
<1>14. /\ \A j \in 1..n : q[j] = p[j]
       /\ q[n + 1] = tmp
  OBVIOUS
<1>15. \A j \in 1..n - 1 : heap'[q[j]] = heap[p[j]]
  <2> SUFFICES ASSUME NEW j \in 1..n - 1 PROVE heap'[q[j]] = heap[p[j]]
    OBVIOUS
  <2>1. j \in 1..n /\ j # n /\ n \in 1..n
    OBVIOUS
  <2>2. p[j] # p[n] /\ p[j] # tmp /\ p[j] \in Node /\ q[j] = p[j]
    BY <2>1, <1>3, <1>4, <1>8, <1>14
  <2> QED
    BY <2>2, <1>12
<1>16. heap'[q[n]] = element /\ heap'[q[n + 1]] = EmptyCell
  BY <1>3, <1>8, <1>12, <1>14
<1>17. q \in [1..n + 1 -> Node] /\ q[1] = head' /\ q[c] = cursor' /\ c \in 1..n + 1
  <2>1. \A j \in 1..n + 1 : q[j] \in Node
    BY <1>3
  <2>2. 1 \in 1..n /\ c \in 1..n /\ p[1] = head
    BY <1>1 DEF Path
  <2> QED
    BY <2>1, <2>2, <1>1, <1>6, <1>14
<1>18. \A i, j \in 1..n + 1 : q[i] = q[j] => i = j
  BY <1>4, <1>8
<1>19. Allocated' = {q[j] : j \in 1..n + 1}
  <2>1. Allocated' = Allocated \cup {tmp}
    <3>1. p[n] \in Allocated
      BY <1>7
    <3> QED
      BY <3>1, <1>10, <1>12 DEF Allocated
  <2>2. ASSUME NEW j \in 1..n + 1 PROVE q[j] \in Allocated \cup {tmp}
    BY <1>7
  <2>3. ASSUME NEW i \in 1..n PROVE \E j \in 1..n + 1 : q[j] = p[i]
    <3>1. i \in 1..n + 1
      OBVIOUS
    <3> QED
      BY <3>1, <1>14
  <2>4. n + 1 \in 1..n + 1
    OBVIOUS
  <2> QED
    BY <2>1, <2>2, <2>3, <2>4, <1>7, <1>14
<1>20. \A i \in 1..(n + 1) - 1 : heap'[q[i]].data \in Item /\ heap'[q[i]].next = q[i + 1]
  <2>0. (n + 1) - 1 = n
    OBVIOUS
  <2> SUFFICES ASSUME NEW i \in 1..n
               PROVE  heap'[q[i]].data \in Item /\ heap'[q[i]].next = q[i + 1]
    BY <2>0, Zenon
  <2>1. CASE i = n
    BY <2>1, <1>10, <1>14, <1>16
  <2>2. CASE i # n
    <3>1. i \in 1..n - 1 /\ i + 1 \in 1..n
      BY <2>2
    <3>2. heap[p[i]].data \in Item /\ heap[p[i]].next = p[i + 1]
      BY <3>1, <1>1 DEF Path
    <3> QED
      BY <3>1, <3>2, <1>14, <1>15
  <2> QED
    BY <2>1, <2>2
<1>21. Path(n + 1, q)'
  BY <1>16, <1>17, <1>18, <1>19, <1>20 DEF Path
<1>22. Through(n + 1, q, c)'
  BY <1>17, <1>21 DEF Through
<1> QED
  BY <1>2, <1>6, <1>10, <1>13, <1>15, <1>16, <1>22 DEF ListTypeOK

-----------------------------------------------------------------------------
(* The invariant. *)

\* A new list is the path of its only node.
LEMMA PathInit == ListInit => LInv
<1> SUFFICES ASSUME NEW h \in Node, NewList(h) PROVE LInv
  BY DEF ListInit
<1> DEFINE p == [i \in 1..1 |-> h]
<1>1. EmptyCell \in Cell /\ EmptyCell # Null
  <2>1. EmptyCell \in Cell
    BY DEF Cell, EmptyCell
  <2> QED
    BY <2>1, ListAssumption
<1>2. ListTypeOK
  BY <1>1 DEF NewList, ListTypeOK
<1>3. Allocated = {h} /\ heap[h] = EmptyCell
  BY <1>1 DEF NewList, Allocated
<1>4. Path(1, p)
  BY <1>3 DEF NewList, Path
<1>5. Through(1, p, 1)
  BY <1>4 DEF NewList, Through
<1>6. 1 \in 1..Cardinality(Node) /\ p \in [1..1 -> Node] /\ 1 \in 1..1
  BY <1>4, PathFits
<1> HIDE DEF p
<1> QED
  BY <1>2, <1>5, <1>6 DEF LInv

\* Where there is a path through the cursor, of whatever length, the invariant holds.
LEMMA PathSuffices ==
  \A n \in Nat \ {0} : \A p : \A c \in 1..n : ListTypeOK /\ Through(n, p, c) => LInv
<1> SUFFICES ASSUME NEW n \in Nat \ {0}, NEW p, NEW c \in 1..n,
                    ListTypeOK, Through(n, p, c)
             PROVE  LInv
  OBVIOUS
<1>1. n \in 1..Cardinality(Node)
  BY PathFits DEF Through
<1>2. p \in [1..n -> Node]
  BY DEF Through, Path
<1> QED
  BY <1>1, <1>2 DEF LInv

\* So it does in the next state.
LEMMA PathSufficesNext ==
  (\A n \in Nat \ {0} : \A p : \A c \in 1..n : ListTypeOK /\ Through(n, p, c) => LInv)'
BY PathSuffices, PTL

\* It is inductive.
LEMMA PathStep == LInv /\ [ListStep]_listVars => LInv'
<1> SUFFICES ASSUME LInv, [ListStep]_listVars PROVE LInv'
  OBVIOUS
<1>1. ListTypeOK
  BY DEF LInv
<1>2. PICK n \in 1..Cardinality(Node) : \E p \in [1..n -> Node] :
             \E c \in 1..n : Through(n, p, c)
  BY DEF LInv
<1>3. PICK p \in [1..n -> Node] : \E c \in 1..n : Through(n, p, c)
  BY <1>2
<1>4. PICK c \in 1..n : Through(n, p, c)
  BY <1>3
<1>5. n \in Nat \ {0}
  OBVIOUS
<1>6. \A k \in Nat \ {0} : \A q : \A d \in 1..k :
        ListTypeOK' /\ Through(k, q, d)' => LInv'
  BY PathSufficesNext
<1>7. CASE ListRemove
  <2> DEFINE q == [j \in 1..n - 1 |-> IF j <= c THEN p[j] ELSE p[j + 1]]
  <2>1. c < n /\ ListTypeOK' /\ Through(n - 1, q, c)'
    BY <1>1, <1>4, <1>5, <1>7, RemoveAlong
  <2> HIDE DEF q
  <2>2. n - 1 \in Nat \ {0} /\ c \in 1..n - 1
    BY <1>5, <2>1
  <2> QED
    BY <1>6, <2>1, <2>2
<1>8. CASE ListNext
  <2>1. c + 1 \in 1..n /\ Through(n, p, c + 1)' /\ heap' = heap
    BY <1>4, <1>5, <1>8, NextAlong
  <2>2. ListTypeOK'
    BY <2>1, <1>1, <1>8 DEF ListTypeOK, ListNext, Through, Path
  <2> QED
    BY <1>5, <1>6, <2>1, <2>2
<1>9. CASE Restart \/ UNCHANGED listVars
  <2>1. Path(n, p)' /\ ListTypeOK' /\ (cursor' = p[1] \/ cursor' = p[c])
    BY <1>1, <1>4, <1>9 DEF Restart, listVars, Through, Path, ListTypeOK, Allocated
  <2>2. 1 \in 1..n
    BY <1>5
  <2>3. Through(n, p, 1)' \/ Through(n, p, c)'
    BY <2>1, <2>2 DEF Through
  <2> QED
    BY <1>5, <1>6, <2>1, <2>2, <2>3
<1>10. ASSUME NEW x \in Item, NEW tmp \in Node, ListAppend(x, tmp) PROVE LInv'
  <2> DEFINE q == [j \in 1..n + 1 |-> IF j <= n THEN p[j] ELSE tmp]
  <2>0. q = [j \in 1..n + 1 |-> IF j <= n THEN p[j] ELSE tmp]
    OBVIOUS
  <2> HIDE DEF q
  <2>1. ListTypeOK' /\ Through(n + 1, q, c)'
    BY <2>0, <1>1, <1>4, <1>5, <1>10, AppendAlong
  <2>2. n + 1 \in Nat \ {0} /\ c \in 1..n + 1
    BY <1>5
  <2> QED
    BY <1>6, <2>1, <2>2
<1> QED
  BY <1>7, <1>8, <1>9, <1>10 DEF ListStep

\* The nodes form one path from the head to the empty node, through the cursor,
\* whatever is appended, removed and walked (list.c).
THEOREM ListInvariant == ListSpec => []LInv
<1> QED
  BY PathInit, PathStep, PTL DEF ListSpec

\* Every node on the heap is in the list, and so is the cursor: nothing leaks, and
\* the cursor never points to a node that was freed.
THEOREM ListLeaksNothing == ListSpec => []NothingLeaks
<1>1. LInv => NothingLeaks
  <2> SUFFICES ASSUME LInv PROVE NothingLeaks
    OBVIOUS
  <2>1. PICK n \in 1..Cardinality(Node) : \E p \in [1..n -> Node] :
               \E c \in 1..n : Through(n, p, c)
    BY DEF LInv
  <2>2. PICK p \in [1..n -> Node] : \E c \in 1..n : Through(n, p, c)
    BY <2>1
  <2>3. PICK c \in 1..n : Through(n, p, c)
    BY <2>2
  <2>4. Path(n, p) /\ p[c] = cursor /\ n \in Nat \ {0}
    BY <2>3 DEF Through
  <2>5. Nodes(head) = Allocated
    BY <2>4, NodesAlong
  <2>6. cursor \in Allocated
    BY <2>4 DEF Path
  <2> QED
    BY <2>5, <2>6 DEF NothingLeaks
<1> QED
  BY <1>1, ListInvariant, PTL

-----------------------------------------------------------------------------
(* The promise. *)

\* Two sequences with the same elements are the same.
LEMMA SameElements ==
  ASSUME NEW S, NEW s \in Seq(S), NEW t \in Seq(S), Len(s) = Len(t),
         \A j \in 1..Len(s) : s[j] = t[j]
  PROVE  s = t
OBVIOUS

\* done and todo are what the path p holds in heap h before and after place c.
Along(done, todo, h, n, p, c) ==
  /\ done \in Seq(Item) /\ Len(done) = c - 1
  /\ \A j \in 1..c - 1 : done[j] = h[p[j]].data
  /\ todo \in Seq(Item) /\ Len(todo) = n - c
  /\ \A j \in 1..n - c : todo[j] = h[p[c + j - 1]].data

\* Append under a name of its own, which the provers leave alone.
Added(s, x) == Append(s, x)

\* They are where the path goes through the cursor.
LEMMA WalkTypes ==
  \A n \in Nat \ {0} : \A p : \A c \in 1..n :
    Through(n, p, c) => Along(Passed, Items(cursor), heap, n, p, c)
<1> SUFFICES ASSUME NEW n \in Nat \ {0}, NEW p, NEW c \in 1..n, Through(n, p, c)
             PROVE  Along(Passed, Items(cursor), heap, n, p, c)
  OBVIOUS
<1>1. Passed = Before(p, c) /\ Items(cursor) = From(n, p, c)
  BY Shown
<1>2. \A j \in 1..n - 1 : heap[p[j]].data \in Item
  BY DEF Through, Path
<1>3. c - 1 \in Nat /\ n - c \in Nat
  OBVIOUS
<1>4. \A j \in 1..c - 1 : j \in 1..n - 1
  OBVIOUS
<1>5. \A j \in 1..n - c : c + j - 1 \in 1..n - 1
  OBVIOUS
<1>6. /\ Before(p, c) \in Seq(Item) /\ Len(Before(p, c)) = c - 1
      /\ \A j \in 1..c - 1 : Before(p, c)[j] = heap[p[j]].data
  BY <1>2, <1>3, <1>4 DEF Before
<1>7. /\ From(n, p, c) \in Seq(Item) /\ Len(From(n, p, c)) = n - c
      /\ \A j \in 1..n - c : From(n, p, c)[j] = heap[p[c + j - 1]].data
  BY <1>2, <1>3, <1>5 DEF From
<1> QED
  BY <1>1, <1>6, <1>7 DEF Along

\* So they are in the next state.
LEMMA WalkTypesNext ==
  \A n \in Nat \ {0} : \A p : \A c \in 1..n :
    Through(n, p, c)' => Along(Passed', Items(cursor)', heap', n, p, c)
<1>1. (\A n \in Nat \ {0} : \A p : \A c \in 1..n :
         Through(n, p, c) => Along(Passed, Items(cursor), heap, n, p, c))'
  BY WalkTypes, PTL
<1> QED
  BY <1>1

\* The path without the node after the cursor, whose elements are those but one.
LEMMA AlongDropped ==
  ASSUME NEW n \in Nat \ {0}, NEW c \in 1..n, c < n, NEW p, NEW q, NEW h, NEW g,
         NEW s, NEW t, NEW u, NEW v, Along(s, t, h, n, p, c), Along(u, v, g, n - 1, q, c),
         Without(q, g, p, h, n, c)
  PROVE  t # <<>> /\ v = Tail(t) /\ u = s
<1>1. /\ s \in Seq(Item) /\ Len(s) = c - 1 /\ u \in Seq(Item) /\ Len(u) = c - 1
      /\ t \in Seq(Item) /\ Len(t) = n - c /\ v \in Seq(Item) /\ Len(v) = n - 1 - c
  BY DEF Along
<1>2. ASSUME NEW j \in 1..c - 1 PROVE u[j] = s[j]
  <2>1. j \in 1..n - 1 /\ j < c
    OBVIOUS
  <2>2. s[j] = h[p[j]].data /\ u[j] = g[q[j]].data
    BY DEF Along
  <2>3. g[q[j]] = h[p[j]]
    BY <2>1 DEF Without
  <2> QED
    BY <2>2, <2>3
<1>3. u = s
  BY <1>1, <1>2, SameElements
<1>4. /\ t # <<>> /\ Tail(t) \in Seq(Item) /\ Len(Tail(t)) = n - 1 - c
      /\ \A j \in 1..n - 1 - c : Tail(t)[j] = t[j + 1]
  BY <1>1
<1>5. ASSUME NEW j \in 1..n - 1 - c PROVE v[j] = Tail(t)[j]
  <2>1. /\ c + j - 1 \in 1..n - 1 /\ ~(c + j - 1 < c)
        /\ c + j - 1 + 1 = c + (j + 1) - 1 /\ j + 1 \in 1..n - c
    OBVIOUS
  <2>2. v[j] = g[q[c + j - 1]].data /\ t[j + 1] = h[p[c + (j + 1) - 1]].data
    BY <2>1 DEF Along
  <2>3. g[q[c + j - 1]] = h[p[c + (j + 1) - 1]]
    BY <2>1 DEF Without
  <2> QED
    BY <2>2, <2>3, <1>4
<1>6. v = Tail(t)
  BY <1>1, <1>4, <1>5, SameElements
<1> QED
  BY <1>3, <1>4, <1>6

\* The next place on the path.
LEMMA AlongPassed ==
  ASSUME NEW n \in Nat \ {0}, NEW c \in 1..n, c < n, NEW p, NEW h,
         NEW s, NEW t, NEW u, NEW v, Along(s, t, h, n, p, c), Along(u, v, h, n, p, c + 1)
  PROVE  t # <<>> /\ v = Tail(t) /\ u = Added(s, Head(t))
<1>1. /\ s \in Seq(Item) /\ Len(s) = c - 1 /\ u \in Seq(Item) /\ Len(u) = c
      /\ t \in Seq(Item) /\ Len(t) = n - c /\ v \in Seq(Item) /\ Len(v) = n - c - 1
  BY DEF Along
<1>2. /\ t # <<>> /\ Head(t) = t[1] /\ Head(t) \in Item
      /\ Tail(t) \in Seq(Item) /\ Len(Tail(t)) = n - c - 1
      /\ \A j \in 1..n - c - 1 : Tail(t)[j] = t[j + 1]
  BY <1>1
<1>3. t[1] = h[p[c]].data
  <2>1. 1 \in 1..n - c /\ c + 1 - 1 = c
    OBVIOUS
  <2> QED
    BY <2>1 DEF Along
<1>4. ASSUME NEW j \in 1..n - c - 1 PROVE v[j] = Tail(t)[j]
  <2>1. /\ j + 1 \in 1..n - c /\ j \in 1..n - (c + 1)
        /\ (c + 1) + j - 1 = c + (j + 1) - 1
    OBVIOUS
  <2>2. v[j] = h[p[(c + 1) + j - 1]].data /\ t[j + 1] = h[p[c + (j + 1) - 1]].data
    BY <2>1 DEF Along
  <2> QED
    BY <2>1, <2>2, <1>2
<1>5. v = Tail(t)
  BY <1>1, <1>2, <1>4, SameElements
<1> DEFINE a == Append(s, Head(t))
<1>6. /\ a \in Seq(Item) /\ Len(a) = c /\ a[c] = Head(t)
      /\ \A j \in 1..c - 1 : a[j] = s[j]
  BY <1>1, <1>2
<1> HIDE DEF a
<1>7. ASSUME NEW j \in 1..c PROVE u[j] = a[j]
  <2>1. u[j] = h[p[j]].data
    <3>1. j \in 1..(c + 1) - 1
      OBVIOUS
    <3> QED
      BY <3>1 DEF Along
  <2>2. CASE j = c
    BY <2>1, <2>2, <1>2, <1>3, <1>6
  <2>3. CASE j \in 1..c - 1
    <3>1. s[j] = h[p[j]].data
      BY <2>3 DEF Along
    <3> QED
      BY <2>1, <2>3, <3>1, <1>6
  <2> QED
    BY <2>2, <2>3
<1>8. u = a
  BY <1>1, <1>6, <1>7, SameElements
<1> QED
  BY <1>2, <1>5, <1>8 DEF a, Added

\* The whole path.
LEMMA AlongAgain ==
  ASSUME NEW n \in Nat \ {0}, NEW c \in 1..n, NEW p, NEW h,
         NEW s, NEW t, NEW u, NEW v, Along(s, t, h, n, p, c), Along(u, v, h, n, p, 1)
  PROVE  u = <<>> /\ v = s \o t
<1>1. /\ s \in Seq(Item) /\ Len(s) = c - 1 /\ u \in Seq(Item) /\ Len(u) = 0
      /\ t \in Seq(Item) /\ Len(t) = n - c /\ v \in Seq(Item) /\ Len(v) = n - 1
  BY DEF Along
<1> DEFINE a == s \o t
<1>2. /\ a \in Seq(Item) /\ Len(a) = n - 1
      /\ \A j \in 1..n - 1 : a[j] = IF j <= c - 1 THEN s[j] ELSE t[j - (c - 1)]
  <2>1. /\ a \in Seq(Item) /\ Len(a) = Len(s) + Len(t)
        /\ \A j \in 1..Len(s) + Len(t) :
             a[j] = IF j <= Len(s) THEN s[j] ELSE t[j - Len(s)]
    BY <1>1
  <2>2. Len(s) + Len(t) = n - 1
    BY <1>1
  <2> HIDE DEF a
  <2> QED
    BY <2>1, <2>2, <1>1
<1> HIDE DEF a
<1>3. ASSUME NEW j \in 1..n - 1 PROVE v[j] = a[j]
  <2>1. v[j] = h[p[j]].data
    <3>1. 1 + j - 1 = j
      OBVIOUS
    <3> QED
      BY <3>1 DEF Along
  <2>2. CASE j <= c - 1
    <3>1. s[j] = h[p[j]].data
      <4>1. j \in 1..c - 1
        BY <2>2
      <4> QED
        BY <4>1 DEF Along
    <3> QED
      BY <2>1, <2>2, <3>1, <1>2
  <2>3. CASE ~(j <= c - 1)
    <3>1. j - (c - 1) \in 1..n - c /\ c + (j - (c - 1)) - 1 = j
      BY <2>3
    <3>2. t[j - (c - 1)] = h[p[c + (j - (c - 1)) - 1]].data
      BY <3>1 DEF Along
    <3>3. t[j - (c - 1)] = h[p[j]].data
      BY <3>1, <3>2
    <3> QED
      BY <2>1, <2>3, <3>3, <1>2
  <2> QED
    BY <2>2, <2>3
<1>4. v = a
  BY <1>1, <1>2, <1>3, SameElements
<1>5. u = <<>>
  BY <1>1
<1> QED
  BY <1>4, <1>5 DEF a

\* The path with another node at its end.
LEMMA AlongAdded ==
  ASSUME NEW n \in Nat \ {0}, NEW c \in 1..n, NEW p, NEW q, NEW h, NEW g, NEW x \in Item,
         NEW s, NEW t, NEW u, NEW v, Along(s, t, h, n, p, c), Along(u, v, g, n + 1, q, c),
         \A j \in 1..n - 1 : g[q[j]] = h[p[j]], g[q[n]].data = x
  PROVE  v = Added(t, x) /\ u = s
<1>1. /\ s \in Seq(Item) /\ Len(s) = c - 1 /\ u \in Seq(Item) /\ Len(u) = c - 1
      /\ t \in Seq(Item) /\ Len(t) = n - c /\ v \in Seq(Item) /\ Len(v) = n + 1 - c
  BY DEF Along
<1>2. ASSUME NEW j \in 1..c - 1 PROVE u[j] = s[j]
  <2>1. j \in 1..n - 1
    OBVIOUS
  <2>2. s[j] = h[p[j]].data /\ u[j] = g[q[j]].data
    BY DEF Along
  <2> QED
    BY <2>1, <2>2
<1>3. u = s
  BY <1>1, <1>2, SameElements
<1> DEFINE a == Append(t, x)
<1>4. /\ a \in Seq(Item) /\ Len(a) = n + 1 - c /\ a[n + 1 - c] = x
      /\ \A j \in 1..n - c : a[j] = t[j]
  BY <1>1
<1> HIDE DEF a
<1>5. ASSUME NEW j \in 1..n + 1 - c PROVE v[j] = a[j]
  <2>1. v[j] = g[q[c + j - 1]].data
    BY DEF Along
  <2>2. CASE j = n + 1 - c
    <3>1. c + j - 1 = n
      BY <2>2
    <3>2. v[j] = x
      BY <2>1, <3>1
    <3> QED
      BY <2>2, <3>2, <1>4
  <2>3. CASE j \in 1..n - c
    <3>1. c + j - 1 \in 1..n - 1
      BY <2>3
    <3>2. t[j] = h[p[c + j - 1]].data
      BY <2>3 DEF Along
    <3>3. g[q[c + j - 1]] = h[p[c + j - 1]]
      BY <3>1
    <3> QED
      BY <2>1, <2>3, <3>2, <3>3, <1>4
  <2> QED
    BY <2>2, <2>3
<1>6. v = a
  BY <1>1, <1>4, <1>5, SameElements
<1> QED
  BY <1>3, <1>6 DEF a, Added

\* The same path.
LEMMA AlongSame ==
  ASSUME NEW n \in Nat \ {0}, NEW c \in 1..n, NEW p, NEW h,
         NEW s, NEW t, NEW u, NEW v, Along(s, t, h, n, p, c), Along(u, v, h, n, p, c)
  PROVE  u = s /\ v = t
<1>1. /\ s \in Seq(Item) /\ u \in Seq(Item) /\ Len(s) = Len(u)
      /\ \A j \in 1..Len(s) : u[j] = s[j]
  BY DEF Along
<1>2. /\ t \in Seq(Item) /\ v \in Seq(Item) /\ Len(t) = Len(v)
      /\ \A j \in 1..Len(t) : v[j] = t[j]
  BY DEF Along
<1> QED
  BY <1>1, <1>2, SameElements

\* A list that is empty has nothing before or after the cursor.
LEMMA WalkInit == ListInit => Walked!Init
<1> SUFFICES ASSUME NEW h \in Node, NewList(h)
             PROVE  Passed = <<>> /\ Items(cursor) = <<>>
  BY DEF ListInit, Walked!Init
<1> DEFINE p == [i \in 1..1 |-> h]
<1>1. EmptyCell # Null
  <2>1. EmptyCell \in Cell
    BY DEF Cell, EmptyCell
  <2> QED
    BY <2>1, ListAssumption
<1>2. Allocated = {h} /\ heap[h] = EmptyCell
  BY <1>1 DEF NewList, Allocated
<1>3. Through(1, p, 1)
  BY <1>2 DEF NewList, Path, Through
<1> HIDE DEF p
<1>4. Along(Passed, Items(cursor), heap, 1, p, 1)
  BY <1>3, WalkTypes
<1> QED
  BY <1>4 DEF Along

\* Each operation is one of Walk's: list_remove drops what is under the cursor, also
\* when it is the last, list_append adds behind it, also when it is at the end.
LEMMA WalkStep ==
  LInv /\ [ListStep]_listVars => [Walked!Next]_<<Passed, Items(cursor)>>
<1> SUFFICES ASSUME LInv, [ListStep]_listVars
             PROVE  [Walked!Next]_<<Passed, Items(cursor)>>
  OBVIOUS
<1>1. ListTypeOK
  BY DEF LInv
<1>2. PICK n \in 1..Cardinality(Node) : \E p \in [1..n -> Node] :
             \E c \in 1..n : Through(n, p, c)
  BY DEF LInv
<1>3. PICK p \in [1..n -> Node] : \E c \in 1..n : Through(n, p, c)
  BY <1>2
<1>4. PICK c \in 1..n : Through(n, p, c)
  BY <1>3
<1>5. n \in Nat \ {0}
  OBVIOUS
<1>6. Along(Passed, Items(cursor), heap, n, p, c)
  BY <1>4, <1>5, WalkTypes
<1>7. CASE ListRemove
  <2>1. PICK q : q = [j \in 1..n - 1 |-> IF j <= c THEN p[j] ELSE p[j + 1]]
    OBVIOUS
  <2>2. /\ c < n /\ Through(n - 1, q, c)'
        /\ Without(q, heap', p, heap, n, c)
    BY <1>1, <1>4, <1>5, <1>7, <2>1, RemoveAlong
  <2>3. n - 1 \in Nat \ {0} /\ c \in 1..n - 1
    BY <1>5, <2>2
  <2>4. Along(Passed', Items(cursor)', heap', n - 1, q, c)
    BY <2>2, <2>3, WalkTypesNext
  <2>5. Items(cursor) # <<>> /\ Items(cursor)' = Tail(Items(cursor)) /\ Passed' = Passed
    BY <1>5, <1>6, <2>2, <2>4, AlongDropped
  <2> QED
    BY <2>5 DEF Walked!Next, Walked!Drop
<1>8. CASE ListNext
  <2>1. c < n /\ c + 1 \in 1..n /\ Through(n, p, c + 1)' /\ heap' = heap
    BY <1>4, <1>5, <1>8, NextAlong
  <2>2. Along(Passed', Items(cursor)', heap, n, p, c + 1)
    BY <1>5, <2>1, WalkTypesNext
  <2>3. /\ Items(cursor) # <<>> /\ Items(cursor)' = Tail(Items(cursor))
        /\ Passed' = Added(Passed, Head(Items(cursor)))
    BY <1>5, <1>6, <2>1, <2>2, AlongPassed
  <2> QED
    BY <2>3 DEF Walked!Next, Walked!Pass, Added
<1>9. CASE Restart
  <2>1. 1 \in 1..n /\ Through(n, p, 1)' /\ heap' = heap
    <3>1. heap' = heap /\ head' = head /\ cursor' = head
      BY <1>9 DEF Restart
    <3>2. 1 \in 1..n /\ p[1] = head
      BY <1>4, <1>5 DEF Through, Path
    <3>3. Path(n, p)'
      BY <3>1, <1>4, <1>5 DEF Through, Path, Allocated
    <3> QED
      BY <3>1, <3>2, <3>3 DEF Through
  <2>2. Along(Passed', Items(cursor)', heap, n, p, 1)
    BY <1>5, <2>1, WalkTypesNext
  <2>3. Passed' = <<>> /\ Items(cursor)' = Passed \o Items(cursor)
    BY <1>5, <1>6, <2>2, AlongAgain
  <2> QED
    BY <2>3 DEF Walked!Next, Walked!Again
<1>10. ASSUME NEW x \in Item, NEW tmp \in Node, ListAppend(x, tmp) PROVE Walked!Next
  <2>1. PICK q : q = [j \in 1..n + 1 |-> IF j <= n THEN p[j] ELSE tmp]
    OBVIOUS
  <2>2. /\ Through(n + 1, q, c)' /\ heap'[q[n]].data = x
        /\ \A j \in 1..n - 1 : heap'[q[j]] = heap[p[j]]
    BY <1>1, <1>4, <1>5, <1>10, <2>1, AppendAlong
  <2>3. n + 1 \in Nat \ {0} /\ c \in 1..n + 1
    BY <1>5
  <2>4. Along(Passed', Items(cursor)', heap', n + 1, q, c)
    BY <2>2, <2>3, WalkTypesNext
  <2>5. Items(cursor)' = Added(Items(cursor), x) /\ Passed' = Passed
    BY <1>5, <1>6, <2>2, <2>4, AlongAdded
  <2> QED
    BY <2>5 DEF Walked!Next, Walked!Add, Added
<1>11. CASE UNCHANGED listVars
  <2>1. Through(n, p, c)' /\ heap' = heap
    BY <1>4, <1>11 DEF listVars, Through, Path, Allocated
  <2>2. Along(Passed', Items(cursor)', heap, n, p, c)
    BY <1>5, <2>1, WalkTypesNext
  <2>3. Passed' = Passed /\ Items(cursor)' = Items(cursor)
    BY <1>5, <1>6, <2>2, AlongSame
  <2> QED
    BY <2>3
<1> QED
  BY <1>7, <1>8, <1>9, <1>10, <1>11 DEF ListStep

\* The list of libs/list is what Server takes its connections' list for, and Chat its
\* queues: no element is skipped, met twice or lost while the list is walked, extended
\* and thinned out under the cursor.
THEOREM ListImplementsWalk == ListSpec => ListIsWalk
<1>1. ListInit => Walked!Init
  BY WalkInit
<1>2. LInv /\ [ListStep]_listVars => [Walked!Next]_<<Passed, Items(cursor)>>
  BY WalkStep
<1> QED
  BY <1>1, <1>2, ListInvariant, PTL DEF ListSpec, ListIsWalk, Walked!Spec

-----------------------------------------------------------------------------
(* Reading chunks of a region file. *)

\* The chunks of the range that the loops have passed without finding them.
PassedOver == {c \in InRangeChunk : ReadBefore(c, at) /\ region[c] = NoChunk}

\* Before the first turn nothing was read.
Began == pc = "start" => err = "ok" /\ errAt = NoChunk /\ missing = 0

\* In the loops, no chunk has failed so far: those that were passed are in memory or
\* counted.
Reading ==
  pc \in {"loop", "inflate"} =>
    /\ err \in {"ok", "missing"} /\ errAt = NoChunk
    /\ InRegion(range[3]) /\ InRegion(range[4])
    /\ range[1] <= at[1] /\ range[2] <= at[2]
    /\ at[1] <= range[3] \/ range[3] < range[1]
    /\ \A c \in InRangeChunk : ReadBefore(c, at) =>
         region[c] # NoChunk \/ file[c].kind = "missing"
    /\ missing = Cardinality(PassedOver)

\* What is inflated is a chunk of the range that was not in memory.
Inflating ==
  pc = "inflate" => InRange /\ region[at] = NoChunk /\ Entered.kind # "missing"

\* The inductive invariant.
IInv == AnvilTypeOK /\ Began /\ Reading /\ Inflating /\ RangeAccounted

-----------------------------------------------------------------------------
(* Places. *)

\* The range's corners and the place in it are integers.
LEMMA Coordinates ==
  ASSUME AnvilTypeOK
  PROVE  /\ range[1] \in 0..Side - 1 /\ range[2] \in 0..Side - 1
         /\ range[3] \in Int /\ range[4] \in Int
         /\ at[1] \in 0..Side /\ at[2] \in 0..Side /\ at = <<at[1], at[2]>>
         /\ Side \in Nat \ {0}
<1>1. range \in (0..Side - 1) \X (0..Side - 1) \X Int \X Int
  BY AnvilAssumption DEF AnvilTypeOK
<1>2. at \in (0..Side) \X (0..Side) /\ Side \in Nat \ {0}
  BY AnvilAssumption DEF AnvilTypeOK
<1> QED
  BY <1>1, <1>2

\* A chunk is a pair of numbers within the region.
LEMMA ChunkIs ==
  \A c \in Chunk : c = <<c[1], c[2]>> /\ c[1] \in 0..Side - 1 /\ c[2] \in 0..Side - 1
BY DEF Chunk

\* There are Side times Side chunks, and the chunks of a range are finitely many.
LEMMA ChunksCounted ==
  ASSUME NEW S, S \subseteq Chunk
  PROVE  IsFiniteSet(S) /\ Cardinality(S) \in 0..Side * Side
<1>1. Side \in Nat \ {0}
  BY AnvilAssumption
<1>2. IsFiniteSet(0..Side - 1) /\ Cardinality(0..Side - 1) = Side
  <2>1. \A k \in Nat \ {0} : IsFiniteSet(0..k - 1) /\ Cardinality(0..k - 1) = k
    <3> SUFFICES ASSUME NEW k \in Nat \ {0}
                 PROVE  IsFiniteSet(0..k - 1) /\ Cardinality(0..k - 1) = k
      OBVIOUS
    <3>1. 0 \in Int /\ k - 1 \in Int /\ ~(0 > k - 1)
      OBVIOUS
    <3>2. /\ IsFiniteSet(0..k - 1)
          /\ Cardinality(0..k - 1) = IF 0 > k - 1 THEN 0 ELSE (k - 1) - 0 + 1
      BY <3>1, FS_Interval
    <3> QED
      BY <3>1, <3>2
  <2> QED
    BY <1>1, <2>1
<1>3. IsFiniteSet(Chunk) /\ Cardinality(Chunk) = Side * Side
  BY <1>2, FS_Product DEF Chunk
<1>4. IsFiniteSet(S) /\ Cardinality(S) <= Cardinality(Chunk)
  BY <1>3, FS_Subset
<1>5. Cardinality(S) \in Nat
  BY <1>4, FS_CardinalityType
<1>6. Side * Side \in Nat
  BY <1>1
<1> QED
  BY <1>3, <1>4, <1>5, <1>6

\* Where the loops are in the range they are at a chunk of it.
LEMMA AtChunk ==
  ASSUME AnvilTypeOK, Reading, pc \in {"loop", "inflate"}, InRange
  PROVE  at \in Chunk /\ at \in InRangeChunk
<1>1. /\ range[1] \in 0..Side - 1 /\ range[2] \in 0..Side - 1
      /\ range[3] \in 0..Side - 1 /\ range[4] \in 0..Side - 1
      /\ range[1] <= at[1] /\ range[2] <= at[2]
      /\ at[1] <= range[3] /\ at[2] <= range[4]
  BY Coordinates DEF Reading, InRegion, InRange
<1>2. /\ at[1] \in 0..Side /\ at[2] \in 0..Side /\ at = <<at[1], at[2]>>
      /\ Side \in Nat \ {0}
  BY Coordinates
<1>3. at[1] \in 0..Side - 1 /\ at[2] \in 0..Side - 1
  BY <1>1, <1>2
<1>4. at \in Chunk
  BY <1>2, <1>3 DEF Chunk
<1> QED
  BY <1>1, <1>2, <1>4 DEF InRangeChunk

\* The next place, before which are the chunks before this one and this one.
LEMMA NextPlace ==
  ASSUME AnvilTypeOK, Reading, pc \in {"loop", "inflate"}, InRange
  PROVE  /\ NextAt \in (0..Side) \X (0..Side)
         /\ range[1] <= NextAt[1] /\ range[2] <= NextAt[2] /\ NextAt[1] <= range[3]
         /\ \A c \in InRangeChunk : ReadBefore(c, NextAt) <=> ReadBefore(c, at) \/ c = at
         /\ ~ReadBefore(at, at)
<1>1. /\ range[1] \in 0..Side - 1 /\ range[2] \in 0..Side - 1
      /\ range[3] \in 0..Side - 1 /\ range[4] \in 0..Side - 1
      /\ range[1] <= at[1] /\ range[2] <= at[2]
      /\ at[1] <= range[3] /\ at[2] <= range[4]
  BY Coordinates DEF Reading, InRegion, InRange
<1>2. /\ at[1] \in 0..Side /\ at[2] \in 0..Side /\ at = <<at[1], at[2]>>
      /\ Side \in Nat \ {0}
  BY Coordinates
<1>3. \/ at[1] < range[3] /\ NextAt = <<at[1] + 1, at[2]>>
      \/ at[1] = range[3] /\ NextAt = <<range[1], at[2] + 1>>
  BY <1>1, <1>2 DEF NextAt
<1>4. /\ NextAt \in (0..Side) \X (0..Side)
      /\ range[1] <= NextAt[1] /\ range[2] <= NextAt[2] /\ NextAt[1] <= range[3]
  BY <1>1, <1>2, <1>3
<1>5. ASSUME NEW c \in InRangeChunk
      PROVE  ReadBefore(c, NextAt) <=> ReadBefore(c, at) \/ c = at
  <2>1. /\ c = <<c[1], c[2]>> /\ c[1] \in range[1]..range[3] /\ c[2] \in range[2]..range[4]
    BY ChunkIs DEF InRangeChunk
  <2>2. c = at <=> c[1] = at[1] /\ c[2] = at[2]
    BY <2>1, <1>2
  <2>3. CASE at[1] < range[3] /\ NextAt = <<at[1] + 1, at[2]>>
    BY <2>1, <2>2, <2>3, <1>1, <1>2 DEF ReadBefore
  <2>4. CASE at[1] = range[3] /\ NextAt = <<range[1], at[2] + 1>>
    BY <2>1, <2>2, <2>4, <1>1, <1>2 DEF ReadBefore
  <2> QED
    BY <2>3, <2>4, <1>3
<1>6. ~ReadBefore(at, at)
  BY <1>2 DEF ReadBefore
<1> QED
  BY <1>4, <1>5, <1>6
-----------------------------------------------------------------------------
(* Turns of the loops. *)

\* The end of a turn that goes on: the chunk of this place is in memory, or is
\* missing from the file and counted.
GoesOn ==
  /\ UNCHANGED ctx /\ pc' = "loop" /\ at' = NextAt
  /\ err' \in {"ok", "missing"} /\ UNCHANGED errAt
  /\ region' \in [Chunk -> Chunk \cup {NoChunk}]
  /\ \A c \in Chunk : c # at => region'[c] = region[c]
  /\ \/ region'[at] = at /\ missing' = missing
     \/ region'[at] = NoChunk /\ file[at].kind = "missing" /\ missing' = missing + 1

\* A turn that goes on keeps all that was passed accounted for.
LEMMA TurnGoesOn ==
  ASSUME IInv, pc \in {"loop", "inflate"}, InRange, GoesOn
  PROVE  /\ at' \in (0..Side) \X (0..Side) /\ missing' \in 0..Side * Side
         /\ Began' /\ Reading' /\ Inflating' /\ RangeAccounted'
<1>1. AnvilTypeOK /\ Reading /\ RangeAccounted
  BY DEF IInv
<1>2. at \in Chunk /\ at \in InRangeChunk
  BY <1>1, AtChunk
<1>3. /\ NextAt \in (0..Side) \X (0..Side)
      /\ range[1] <= NextAt[1] /\ range[2] <= NextAt[2] /\ NextAt[1] <= range[3]
      /\ \A c \in InRangeChunk : ReadBefore(c, NextAt) <=> ReadBefore(c, at) \/ c = at
      /\ ~ReadBefore(at, at)
  BY <1>1, NextPlace
<1>4. /\ range' = range /\ file' = file /\ at' = NextAt /\ pc' = "loop"
      /\ err' \in {"ok", "missing"} /\ errAt' = errAt
  BY DEF GoesOn, ctx
<1>5. InRangeChunk' = InRangeChunk /\ InRangeChunk \subseteq Chunk
  BY <1>4 DEF InRangeChunk
<1>6. /\ err \in {"ok", "missing"} /\ errAt = NoChunk
      /\ InRegion(range[3]) /\ InRegion(range[4])
      /\ \A c \in InRangeChunk : ReadBefore(c, at) =>
           (region[c] # NoChunk \/ file[c].kind = "missing")
      /\ missing = Cardinality(PassedOver)
  BY <1>1 DEF Reading
<1>7. \A c \in Chunk : c # at => region'[c] = region[c]
  BY DEF GoesOn
<1>8. /\ at # NoChunk
      /\ \/ region'[at] = at /\ missing' = missing
         \/ region'[at] = NoChunk /\ file[at].kind = "missing" /\ missing' = missing + 1
  BY <1>2, AnvilAssumption DEF GoesOn
<1>9. \A c \in InRangeChunk : ReadBefore(c, at') =>
        (region'[c] # NoChunk \/ file'[c].kind = "missing")
  BY <1>2, <1>3, <1>4, <1>5, <1>6, <1>7, <1>8
<1>10. missing' = Cardinality(PassedOver')
  <2>1. IsFiniteSet(PassedOver) /\ at \notin PassedOver
    BY <1>3, <1>5, ChunksCounted DEF PassedOver
  <2>2. PassedOver' = {c \in InRangeChunk : ReadBefore(c, NextAt) /\ region'[c] = NoChunk}
    BY <1>4, <1>5 DEF PassedOver
  <2>3. CASE region'[at] = at /\ missing' = missing
    <3>1. PassedOver' = PassedOver
      BY <2>2, <2>3, <1>3, <1>5, <1>7, <1>8 DEF PassedOver
    <3> QED
      BY <3>1, <2>3, <1>6
  <2>4. CASE region'[at] = NoChunk /\ file[at].kind = "missing" /\ missing' = missing + 1
    <3>1. PassedOver' = PassedOver \cup {at}
      BY <2>2, <2>4, <1>2, <1>3, <1>5, <1>7 DEF PassedOver
    <3>2. Cardinality(PassedOver \cup {at}) = Cardinality(PassedOver) + 1
      BY <2>1, FS_AddElement
    <3> QED
      BY <3>1, <3>2, <2>4, <1>6
  <2> QED
    BY <1>8, <2>3, <2>4
<1>11. missing' \in 0..Side * Side
  BY <1>10, <1>5, ChunksCounted DEF PassedOver
<1>12. Reading'
  BY <1>3, <1>4, <1>5, <1>6, <1>9, <1>10 DEF Reading, InRegion
<1>13. Began' /\ Inflating'
  BY <1>4 DEF Began, Inflating
<1>14. AllRead' /\ FailureLocated' /\ RoomInBuffer'
  BY <1>4 DEF AllRead, FailureLocated, RoomInBuffer
<1>15. OwnChunkUntilError'
  <2>1. \A c \in Chunk : region[c] \in {NoChunk, c}
    BY <1>1, <1>6, AnvilAssumption DEF RangeAccounted, OwnChunkUntilError
  <2> QED
    BY <2>1, <1>7, <1>8 DEF OwnChunkUntilError
<1> QED
  BY <1>3, <1>4, <1>11, <1>12, <1>13, <1>14, <1>15 DEF RangeAccounted

\* The end of a turn that fails, at a chunk that cannot be read; its slot may get
\* whatever the local pointer was.
Fails ==
  /\ UNCHANGED <<ctx, at, missing>> /\ pc' = "done"
  /\ err' \in {"read", "zlib", "parse"} /\ errAt' = at
  /\ \A c \in Chunk : c # at => region'[c] = region[c]

\* A turn that fails is located.
LEMMA TurnFails ==
  ASSUME IInv, pc \in {"loop", "inflate"}, InRange, Fails, ~Readable(at)
  PROVE  Began' /\ Reading' /\ Inflating' /\ RangeAccounted' /\ errAt' \in Chunk
<1>1. AnvilTypeOK /\ Reading /\ RangeAccounted
  BY DEF IInv
<1>2. at \in Chunk /\ at \in InRangeChunk
  BY <1>1, AtChunk
<1>3. ~ReadBefore(at, at)
  BY <1>1, NextPlace
<1>4. /\ range' = range /\ file' = file /\ at' = at /\ pc' = "done"
      /\ err' \in {"read", "zlib", "parse"} /\ errAt' = at
      /\ \A c \in Chunk : c # at => region'[c] = region[c]
  BY DEF Fails, ctx
<1>5. InRangeChunk' = InRangeChunk /\ InRangeChunk \subseteq Chunk
  BY <1>4 DEF InRangeChunk
<1>6. \A c \in InRangeChunk : ReadBefore(c, at) =>
        (region[c] # NoChunk \/ file[c].kind = "missing")
  BY <1>1 DEF Reading
<1>7. \A c \in Chunk : region[c] \in {NoChunk, c}
  <2>1. errAt = NoChunk
    BY <1>1 DEF Reading
  <2> QED
    BY <2>1, <1>1, AnvilAssumption DEF RangeAccounted, OwnChunkUntilError
<1>8. Began' /\ Reading' /\ Inflating' /\ AllRead' /\ RoomInBuffer'
  BY <1>4 DEF Began, Reading, Inflating, AllRead, RoomInBuffer
<1>9. OwnChunkUntilError'
  BY <1>4, <1>7 DEF OwnChunkUntilError
<1>10. FailureLocated'
  <2>1. errAt' \in InRangeChunk' /\ ~Readable(errAt)'
    BY <1>2, <1>4, <1>5 DEF Readable
  <2>2. ASSUME NEW c \in InRangeChunk, ReadBefore(c, at)
        PROVE  region'[c] # NoChunk \/ file'[c].kind = "missing"
    BY <2>2, <1>3, <1>4, <1>5, <1>6
  <2>3. ASSUME NEW c \in InRangeChunk, ReadBefore(at, c)
        PROVE  region'[c] \in {NoChunk, c}
    BY <2>3, <1>3, <1>4, <1>5, <1>7
  <2> QED
    BY <2>1, <2>2, <2>3, <1>4, <1>5 DEF FailureLocated, ReadBefore
<1> QED
  BY <1>2, <1>4, <1>8, <1>9, <1>10 DEF RangeAccounted
-----------------------------------------------------------------------------
(* The invariant. *)

\* It holds at the start, whatever the file, the range and the region.
LEMMA InvInit == AnvilInit => IInv
<1> SUFFICES ASSUME NEW f \in [Chunk -> Entries], NEW r \in Ranges, NEW S \in Loaded,
                    AnvilFrom(f, r, S)
             PROVE  IInv
  BY DEF AnvilInit
<1>1. /\ file = f /\ range = r /\ pc = "start" /\ at = <<0, 0>> /\ err = "ok"
      /\ region = [c \in Chunk |-> IF c \in S THEN c ELSE NoChunk]
      /\ missing = 0 /\ errAt = NoChunk
      /\ bufLen = 0 /\ availOut = 0 /\ totalOut = 0 /\ chunk = NoChunk
  BY DEF AnvilFrom
<1>2. Side \in Nat \ {0} /\ Side * Side \in Nat
  BY AnvilAssumption
<1>3. region \in [Chunk -> Chunk \cup {NoChunk}]
  BY <1>1
<1>4. at \in (0..Side) \X (0..Side) /\ missing \in 0..Side * Side
  BY <1>1, <1>2
<1>5. AnvilTypeOK
  BY <1>1, <1>3, <1>4 DEF AnvilTypeOK
<1>6. \A c \in Chunk : region[c] \in {NoChunk, c}
  BY <1>1
<1>7. RangeAccounted
  BY <1>1, <1>6
  DEF RangeAccounted, AllRead, FailureLocated, OwnChunkUntilError, RoomInBuffer
<1> QED
  BY <1>1, <1>5, <1>7 DEF IInv, Began, Reading, Inflating

\* Every chunk of the file is one of its entries.
LEMMA EnteredIs ==
  ASSUME AnvilTypeOK, at \in Chunk
  PROVE  /\ Entered \in Entries
         /\ Entered.sectors \in Nat /\ Entered.size \in Nat
         /\ PageSize \in Nat \ {0}
<1>1. Entered \in Entries /\ Entries \subseteq Entry
  BY AnvilAssumption DEF AnvilTypeOK, Entered
<1> QED
  BY <1>1, AnvilAssumption DEF Entry

\* While no chunk has failed, a slot points to its own chunk or to none.
LEMMA OwnChunks ==
  ASSUME IInv, pc \in {"loop", "inflate"}
  PROVE  errAt = NoChunk /\ \A c \in Chunk : region[c] \in {NoChunk, c}
<1>1. errAt = NoChunk /\ OwnChunkUntilError
  BY DEF IInv, Reading, RangeAccounted
<1> QED
  BY <1>1, AnvilAssumption DEF OwnChunkUntilError

\* Every step keeps it.
LEMMA InvNext == IInv /\ [AnvilNext]_anvilVars => IInv'
<1> SUFFICES ASSUME IInv, [AnvilNext]_anvilVars
             PROVE  IInv'
  OBVIOUS
<1>1. /\ AnvilTypeOK /\ Began /\ Reading /\ Inflating /\ RangeAccounted
      /\ AllRead /\ FailureLocated /\ OwnChunkUntilError /\ RoomInBuffer
  BY DEF IInv, RangeAccounted
<1>2. /\ file \in [Chunk -> Entries] /\ range \in Ranges
      /\ region \in [Chunk -> Chunk \cup {NoChunk}]
      /\ pc \in {"start", "loop", "inflate", "done", "aborted", "starved"}
      /\ at \in (0..Side) \X (0..Side)
      /\ err \in {"ok", "missing", "read", "zlib", "parse", "range"}
      /\ missing \in 0..Side * Side
      /\ bufLen \in Nat /\ availOut \in Nat /\ totalOut \in Nat
      /\ chunk \in Chunk \cup {NoChunk} /\ errAt \in Chunk \cup {NoChunk}
  BY <1>1 DEF AnvilTypeOK
<1>3. CASE Start
  <2>1. /\ pc = "start" /\ at' = <<range[1], range[2]>>
        /\ file' = file /\ range' = range /\ region' = region /\ missing' = missing
        /\ errAt' = errAt /\ chunk' = chunk
        /\ bufLen' = bufLen /\ availOut' = availOut /\ totalOut' = totalOut
    BY <1>3 DEF Start, ctx, stream
  <2>2. err = "ok" /\ errAt = NoChunk /\ missing = 0
    BY <1>1, <2>1 DEF Began
  <2>3. /\ range[1] \in 0..Side - 1 /\ range[2] \in 0..Side - 1
        /\ range[3] \in Int /\ range[4] \in Int /\ Side \in Nat \ {0}
    BY <1>1, Coordinates
  <2>4. /\ at'[1] = range[1] /\ at'[2] = range[2]
        /\ at' \in (0..Side) \X (0..Side)
    BY <2>1, <2>3
  <2>5. InRangeChunk' = InRangeChunk /\ InRangeChunk \subseteq Chunk
    BY <2>1 DEF InRangeChunk
  <2>6. \A c \in InRangeChunk : ~ReadBefore(c, at')
    <3> SUFFICES ASSUME NEW c \in InRangeChunk PROVE ~ReadBefore(c, at')
      OBVIOUS
    <3>1. c[1] \in range[1]..range[3] /\ c[2] \in range[2]..range[4]
      BY DEF InRangeChunk
    <3> QED
      BY <3>1, <2>3, <2>4 DEF ReadBefore
  <2>7. /\ pc' \in {"loop", "done"}
        /\ pc' = "loop" => InRegion(range[3]) /\ InRegion(range[4]) /\ err' = "ok"
        /\ pc' = "done" => err' = "range"
        /\ err' \in {"ok", "range"}
    BY <1>3, <2>2 DEF Start
  <2>8. AnvilTypeOK'
    BY <1>2, <2>1, <2>4, <2>7 DEF AnvilTypeOK
  <2>9. missing' = Cardinality(PassedOver')
    <3>1. PassedOver' = {}
      BY <2>5, <2>6 DEF PassedOver, ReadBefore
    <3> QED
      BY <3>1, <2>1, <2>2, FS_EmptySet
  <2>10. Reading'
    <3>1. \A c \in InRangeChunk' : ~ReadBefore(c, at)'
      BY <2>5, <2>6 DEF ReadBefore
    <3>2. /\ range[1] <= at'[1] /\ range[2] <= at'[2]
          /\ at'[1] <= range[3] \/ range[3] < range[1]
      BY <2>3, <2>4
    <3> QED
      BY <2>1, <2>2, <2>7, <2>9, <3>1, <3>2 DEF Reading, InRegion
  <2>11. Began' /\ Inflating' /\ AllRead' /\ FailureLocated' /\ RoomInBuffer'
    BY <2>7 DEF Began, Inflating, AllRead, FailureLocated, RoomInBuffer
  <2>12. OwnChunkUntilError'
    BY <1>1, <2>1 DEF OwnChunkUntilError
  <2> QED
    BY <2>8, <2>10, <2>11, <2>12 DEF IInv, RangeAccounted
<1>4. CASE Skip
  <2>1. /\ pc = "loop" /\ InRange /\ region[at] # NoChunk /\ at' = NextAt
        /\ file' = file /\ range' = range /\ region' = region /\ pc' = pc
        /\ err' = err /\ missing' = missing /\ errAt' = errAt /\ chunk' = chunk
        /\ bufLen' = bufLen /\ availOut' = availOut /\ totalOut' = totalOut
    BY <1>4 DEF Skip, ctx, stream
  <2>2. at \in Chunk
    BY <1>1, <2>1, AtChunk
  <2>3. region[at] = at
    BY <2>1, <2>2, OwnChunks
  <2>4. err \in {"ok", "missing"}
    BY <1>1, <2>1 DEF Reading
  <2>5. GoesOn
    BY <1>2, <2>1, <2>3, <2>4 DEF GoesOn, ctx
  <2>6. /\ at' \in (0..Side) \X (0..Side)
        /\ Began' /\ Reading' /\ Inflating' /\ RangeAccounted'
    BY <2>1, <2>5, TurnGoesOn
  <2>7. AnvilTypeOK'
    BY <1>2, <2>1, <2>6 DEF AnvilTypeOK
  <2> QED
    BY <2>6, <2>7 DEF IInv
<1>5. CASE Missing
  <2>1. /\ pc = "loop" /\ InRange /\ region[at] = NoChunk /\ file[at].kind = "missing"
        /\ missing' = missing + 1 /\ err' = "missing" /\ pc' = "loop" /\ at' = NextAt
        /\ file' = file /\ range' = range /\ region' = region
        /\ errAt' = errAt /\ chunk' = chunk
        /\ bufLen' = bufLen /\ availOut' = availOut /\ totalOut' = totalOut
    BY <1>5 DEF Missing, Turn, Entered, ctx, stream
  <2>2. GoesOn
    BY <1>2, <2>1 DEF GoesOn, ctx
  <2>3. /\ at' \in (0..Side) \X (0..Side) /\ missing' \in 0..Side * Side
        /\ Began' /\ Reading' /\ Inflating' /\ RangeAccounted'
    BY <2>1, <2>2, TurnGoesOn
  <2>4. AnvilTypeOK'
    BY <1>2, <2>1, <2>3 DEF AnvilTypeOK
  <2> QED
    BY <2>3, <2>4 DEF IInv
<1>6. CASE Unreadable
  <2>1. /\ pc = "loop" /\ InRange /\ file[at].kind = "unreadable"
        /\ err' = "read" /\ pc' = "done" /\ at' = at /\ errAt' = at
        /\ region' = [region EXCEPT ![at] = chunk]
        /\ file' = file /\ range' = range /\ missing' = missing /\ chunk' = chunk
        /\ bufLen' = bufLen /\ availOut' = availOut /\ totalOut' = totalOut
    BY <1>6 DEF Unreadable, Turn, Store, Entered, ctx, stream
  <2>2. at \in Chunk
    BY <1>1, <2>1, AtChunk
  <2>3. Fails
    BY <1>2, <2>1 DEF Fails, ctx
  <2>4. Began' /\ Reading' /\ Inflating' /\ RangeAccounted' /\ errAt' \in Chunk
    <3>1. ~Readable(at)
      BY <2>1 DEF Readable
    <3> QED
      BY <2>1, <2>3, <3>1, TurnFails
  <2>5. region' \in [Chunk -> Chunk \cup {NoChunk}]
    BY <1>2, <2>1, <2>2
  <2>6. AnvilTypeOK'
    BY <1>2, <2>1, <2>4, <2>5 DEF AnvilTypeOK
  <2> QED
    BY <2>4, <2>6 DEF IInv
<1>7. CASE Foreign
  <2>1. /\ pc = "loop" /\ pc' = "aborted"
        /\ file' = file /\ range' = range /\ region' = region /\ at' = at
        /\ err' = err /\ missing' = missing /\ errAt' = errAt /\ chunk' = chunk
        /\ bufLen' = bufLen /\ availOut' = availOut /\ totalOut' = totalOut
    BY <1>7 DEF Foreign, ctx, stream
  <2>2. AnvilTypeOK'
    BY <1>2, <2>1 DEF AnvilTypeOK
  <2>3. /\ Began' /\ Reading' /\ Inflating' /\ AllRead' /\ FailureLocated'
        /\ RoomInBuffer'
    BY <2>1 DEF Began, Reading, Inflating, AllRead, FailureLocated, RoomInBuffer
  <2>4. OwnChunkUntilError'
    BY <1>1, <2>1 DEF OwnChunkUntilError
  <2> QED
    BY <2>2, <2>3, <2>4 DEF IInv, RangeAccounted
<1>8. CASE Open
  <2>1. /\ pc = "loop" /\ InRange /\ region[at] = NoChunk
        /\ Entered.kind \in {"corrupt", "whole", "cut"} /\ pc' = "inflate"
        /\ bufLen' = RoomFor /\ availOut' = bufLen' /\ totalOut' = 0
        /\ file' = file /\ range' = range /\ region' = region /\ at' = at
        /\ err' = err /\ missing' = missing /\ errAt' = errAt /\ chunk' = chunk
    BY <1>8 DEF Open, ctx
  <2>2. at \in Chunk
    BY <1>1, <2>1, AtChunk
  <2>3. RoomFor \in Nat
    <3>1. Entered.sectors \in Nat /\ PageSize \in Nat
      BY <1>1, <2>2, EnteredIs
    <3>2. \A m, n \in Nat : m * n \in Nat
      OBVIOUS
    <3>3. PageSize * Entered.sectors \in Nat
      BY <3>1, <3>2
    <3> QED
      BY <3>3, <1>2 DEF RoomFor
  <2>4. AnvilTypeOK'
    BY <1>2, <2>1, <2>3 DEF AnvilTypeOK
  <2>5. Reading'
    <3>1. PassedOver' = PassedOver
      BY <2>1 DEF PassedOver, InRangeChunk, ReadBefore
    <3>2. InRangeChunk' = InRangeChunk
      BY <2>1 DEF InRangeChunk
    <3> QED
      BY <1>1, <2>1, <3>1, <3>2 DEF Reading, ReadBefore, InRegion
  <2>6. Inflating'
    BY <2>1 DEF Inflating, InRange, Entered
  <2>7. Began' /\ AllRead' /\ FailureLocated'
    BY <2>1 DEF Began, AllRead, FailureLocated
  <2>8. RoomInBuffer'
    BY <2>1, <2>3 DEF RoomInBuffer
  <2>9. OwnChunkUntilError'
    BY <1>1, <2>1 DEF OwnChunkUntilError
  <2> QED
    BY <2>4, <2>5, <2>6, <2>7, <2>8, <2>9 DEF IInv, RangeAccounted
<1>9. CASE InflateEnds
  <2>1. /\ pc = "inflate" /\ Entered.kind = "whole" /\ Fits
        /\ totalOut' = Entered.size /\ availOut' = availOut - Remaining
        /\ file' = file /\ range' = range /\ missing' = missing /\ bufLen' = bufLen
    BY <1>9 DEF InflateEnds, ctx
  <2>2. InRange
    BY <1>1, <2>1 DEF Inflating
  <2>3. at \in Chunk
    BY <1>1, <2>1, <2>2, AtChunk
  <2>4. totalOut' \in Nat /\ availOut' \in Nat
    <3>1. Entered.size \in Nat
      BY <1>1, <2>3, EnteredIs
    <3> QED
      BY <3>1, <1>2, <2>1 DEF Fits, Remaining
  <2>5. CASE Entered.parses
    <3>1. /\ err' = "ok" /\ pc' = "loop" /\ at' = NextAt /\ errAt' = errAt
          /\ region' = [region EXCEPT ![at] = at] /\ chunk' = at
      BY <1>9, <2>5 DEF InflateEnds, Turn, Store
    <3>2. region' \in [Chunk -> Chunk \cup {NoChunk}]
      BY <1>2, <2>3, <3>1
    <3>3. GoesOn
      BY <1>2, <2>1, <2>3, <3>1, <3>2 DEF GoesOn, ctx
    <3>4. /\ at' \in (0..Side) \X (0..Side)
          /\ Began' /\ Reading' /\ Inflating' /\ RangeAccounted'
      BY <2>1, <2>2, <3>3, TurnGoesOn
    <3>5. AnvilTypeOK'
      BY <1>2, <2>1, <2>3, <2>4, <3>1, <3>2, <3>4 DEF AnvilTypeOK
    <3> QED
      BY <3>4, <3>5 DEF IInv
  <2>6. CASE ~Entered.parses
    <3>1. /\ err' = "parse" /\ pc' = "done" /\ at' = at /\ errAt' = at
          /\ region' = [region EXCEPT ![at] = chunk] /\ chunk' = chunk
      BY <1>9, <2>6 DEF InflateEnds, Turn, Store
    <3>2. region' \in [Chunk -> Chunk \cup {NoChunk}]
      BY <1>2, <2>3, <3>1
    <3>3. Fails
      BY <1>2, <2>1, <3>1 DEF Fails, ctx
    <3>4. ~Readable(at)
      BY <2>6 DEF Readable, Entered
    <3>5. Began' /\ Reading' /\ Inflating' /\ RangeAccounted' /\ errAt' \in Chunk
      BY <2>1, <2>2, <3>3, <3>4, TurnFails
    <3>6. AnvilTypeOK'
      BY <1>2, <2>1, <2>4, <3>1, <3>2, <3>5 DEF AnvilTypeOK
    <3> QED
      BY <3>5, <3>6 DEF IInv
  <2> QED
    BY <2>5, <2>6
<1>10. CASE InflateFails
  <2>1. /\ pc = "inflate" /\ Entered.kind \in {"corrupt", "cut"}
        /\ err' = "zlib" /\ pc' = "done" /\ at' = at /\ errAt' = at
        /\ region' = [region EXCEPT ![at] = chunk]
        /\ file' = file /\ range' = range /\ missing' = missing /\ chunk' = chunk
        /\ bufLen' = bufLen /\ availOut' = availOut /\ totalOut' = totalOut
    BY <1>10 DEF InflateFails, Turn, Store, ctx, stream
  <2>2. InRange
    BY <1>1, <2>1 DEF Inflating
  <2>3. at \in Chunk
    BY <1>1, <2>1, <2>2, AtChunk
  <2>4. Fails
    BY <1>2, <2>1 DEF Fails, ctx
  <2>5. ~Readable(at)
    BY <2>1 DEF Readable, Entered
  <2>6. Began' /\ Reading' /\ Inflating' /\ RangeAccounted' /\ errAt' \in Chunk
    BY <2>1, <2>2, <2>4, <2>5, TurnFails
  <2>7. region' \in [Chunk -> Chunk \cup {NoChunk}]
    BY <1>2, <2>1, <2>3
  <2>8. AnvilTypeOK'
    BY <1>2, <2>1, <2>6, <2>7 DEF AnvilTypeOK
  <2> QED
    BY <2>6, <2>8 DEF IInv
<1>11. CASE Enlarge
  <2>1. /\ pc = "inflate" /\ pc' = pc
        /\ totalOut' = totalOut + availOut
        /\ bufLen' = bufLen + PageSize /\ availOut' = PageSize
        /\ file' = file /\ range' = range /\ region' = region /\ at' = at
        /\ err' = err /\ missing' = missing /\ errAt' = errAt /\ chunk' = chunk
    BY <1>11 DEF Enlarge, ctx
  <2>2. PageSize \in Nat
    BY AnvilAssumption
  <2>3. AnvilTypeOK'
    BY <1>2, <2>1, <2>2 DEF AnvilTypeOK
  <2>4. RoomInBuffer'
    BY <1>1, <1>2, <2>1, <2>2 DEF RoomInBuffer
  <2>5. Reading'
    <3>1. PassedOver' = PassedOver /\ InRangeChunk' = InRangeChunk
      BY <2>1 DEF PassedOver, InRangeChunk, ReadBefore
    <3> QED
      BY <1>1, <2>1, <3>1 DEF Reading, ReadBefore, InRegion
  <2>6. Began' /\ Inflating' /\ AllRead' /\ FailureLocated'
    BY <1>1, <2>1 DEF Began, Inflating, AllRead, FailureLocated, InRange, Entered
  <2>7. OwnChunkUntilError'
    BY <1>1, <2>1 DEF OwnChunkUntilError
  <2> QED
    BY <2>3, <2>4, <2>5, <2>6, <2>7 DEF IInv, RangeAccounted
<1>12. CASE Starve
  <2>1. /\ pc' = "starved"
        /\ file' = file /\ range' = range /\ region' = region /\ at' = at
        /\ err' = err /\ missing' = missing /\ errAt' = errAt /\ chunk' = chunk
        /\ bufLen' = bufLen /\ availOut' = availOut /\ totalOut' = totalOut
    BY <1>12 DEF Starve, ctx, stream
  <2>2. AnvilTypeOK'
    BY <1>2, <2>1 DEF AnvilTypeOK
  <2>3. /\ Began' /\ Reading' /\ Inflating' /\ AllRead' /\ FailureLocated'
        /\ RoomInBuffer'
    BY <2>1 DEF Began, Reading, Inflating, AllRead, FailureLocated, RoomInBuffer
  <2>4. OwnChunkUntilError'
    BY <1>1, <2>1 DEF OwnChunkUntilError
  <2> QED
    BY <2>2, <2>3, <2>4 DEF IInv, RangeAccounted
<1>13. CASE Finish
  <2>1. /\ pc = "loop" /\ ~InRange /\ pc' = "done"
        /\ file' = file /\ range' = range /\ region' = region /\ at' = at
        /\ missing' = missing /\ errAt' = errAt /\ chunk' = chunk
        /\ bufLen' = bufLen /\ availOut' = availOut /\ totalOut' = totalOut
    BY <1>13 DEF Finish, ctx, stream
  <2>2. /\ err \in {"ok", "missing"}
        /\ at[1] <= range[3] \/ range[3] < range[1]
        /\ \A c \in InRangeChunk : ReadBefore(c, at) =>
             (region[c] # NoChunk \/ file[c].kind = "missing")
        /\ missing = Cardinality(PassedOver)
    BY <1>1, <2>1 DEF Reading
  <2>3. err' = "ok"
    BY <1>13, <2>2 DEF Finish
  <2>4. \A c \in InRangeChunk : ReadBefore(c, at)
    <3> SUFFICES ASSUME NEW c \in InRangeChunk PROVE ReadBefore(c, at)
      OBVIOUS
    <3>1. c[1] \in range[1]..range[3] /\ c[2] \in range[2]..range[4]
      BY DEF InRangeChunk
    <3>2. /\ range[1] \in Int /\ range[2] \in Int /\ range[3] \in Int /\ range[4] \in Int
          /\ at[1] \in Int /\ at[2] \in Int
      BY <1>1, Coordinates
    <3>3. range[1] <= range[3]
      BY <3>1, <3>2
    <3>4. at[2] > range[4]
      BY <2>1, <2>2, <3>2, <3>3 DEF InRange
    <3> QED
      BY <3>1, <3>2, <3>4 DEF ReadBefore
  <2>5. PassedOver = {c \in InRangeChunk : region[c] = NoChunk}
    BY <2>4 DEF PassedOver
  <2>6. InRangeChunk' = InRangeChunk
    BY <2>1 DEF InRangeChunk
  <2>7. AllRead'
    BY <2>1, <2>2, <2>4, <2>5, <2>6 DEF AllRead
  <2>8. Began' /\ Reading' /\ Inflating' /\ FailureLocated' /\ RoomInBuffer'
    BY <2>1, <2>3 DEF Began, Reading, Inflating, FailureLocated, RoomInBuffer
  <2>9. AnvilTypeOK'
    BY <1>2, <2>1, <2>3 DEF AnvilTypeOK
  <2>10. OwnChunkUntilError'
    BY <1>1, <2>1 DEF OwnChunkUntilError
  <2> QED
    BY <2>7, <2>8, <2>9, <2>10 DEF IInv, RangeAccounted
<1>14. CASE UNCHANGED anvilVars
  <2>1. /\ file' = file /\ range' = range /\ region' = region /\ pc' = pc /\ at' = at
        /\ err' = err /\ missing' = missing /\ errAt' = errAt /\ chunk' = chunk
        /\ bufLen' = bufLen /\ availOut' = availOut /\ totalOut' = totalOut
    BY <1>14 DEF anvilVars, ctx, stream
  <2>2. InRangeChunk' = InRangeChunk
    BY <2>1 DEF InRangeChunk
  <2>3. PassedOver' = PassedOver
    BY <2>1, <2>2 DEF PassedOver, ReadBefore
  <2>4. AnvilTypeOK' /\ Began' /\ Inflating'
    BY <1>1, <2>1 DEF AnvilTypeOK, Began, Inflating, InRange, Entered
  <2>5. Reading'
    BY <1>1, <2>1, <2>2, <2>3 DEF Reading, ReadBefore, InRegion
  <2>6. AllRead' /\ OwnChunkUntilError' /\ RoomInBuffer'
    BY <1>1, <2>1, <2>2 DEF AllRead, OwnChunkUntilError, RoomInBuffer
  <2>7. FailureLocated'
    BY <1>1, <2>1, <2>2 DEF FailureLocated, Readable, ReadBefore
  <2> QED
    BY <2>4, <2>5, <2>6, <2>7 DEF IInv, RangeAccounted
<1> QED
  BY <1>3, <1>4, <1>5, <1>6, <1>7, <1>8, <1>9, <1>10, <1>11, <1>12, <1>13, <1>14
  DEF AnvilNext

\* However the file fails, the inductive invariant holds: what the loops passed is
\* in memory or counted, and each slot is its own chunk's (anvil_get_chunks).
THEOREM AnvilInvariant == AnvilSpec => []IInv
BY InvInit, InvNext, PTL DEF AnvilSpec

\* anvil_get_chunks accounts for what it leaves behind: on success each chunk of
\* the range is in memory, or counted as missing from the file; a failure comes
\* with the first chunk that cannot be read, all those before it in memory; a
\* slot is never another chunk's before a failure; and inflate is never told of
\* more room than the buffer has.
THEOREM RangeIsAccounted == AnvilSpec => []RangeAccounted
<1>1. IInv => RangeAccounted
  BY DEF IInv
<1> QED
  BY <1>1, AnvilInvariant, PTL

-----------------------------------------------------------------------------
(* The hash map: probing. *)

\* d steps up from i, around the end of n entries.
LEMMA AroundTheEnd ==
  ASSUME NEW n \in Nat \ {0}, NEW i \in 0..n - 1, NEW d \in 0..n - 1
  PROVE  /\ (i + d) % n = IF i + d < n THEN i + d ELSE i + d - n
         /\ (i + d) % n \in 0..n - 1
<1>1. CASE i + d < n
  <2>1. i + d \in 0..n - 1
    BY <1>1
  <2>2. (i + d) % n = i + d
    BY <2>1
  <2> QED
    BY <1>1, <2>1, <2>2
<1>2. CASE ~(i + d < n)
  <2> DEFINE r == i + d - n
  <2>1. r \in 0..n - 1 /\ i + d = 1 * n + r
    BY <1>2
  <2>2. (i + d) % n = r
    BY <2>1
  <2> QED
    BY <1>2, <2>1, <2>2
<1> QED
  BY <1>1, <1>2

\* Every entry is some steps up from i, and only one number of steps.
LEMMA StepsTo ==
  ASSUME NEW n \in Nat \ {0}, NEW i \in 0..n - 1, NEW j \in 0..n - 1
  PROVE  \E d \in 0..n - 1 : (i + d) % n = j
<1>1. CASE i <= j
  <2>1. j - i \in 0..n - 1 /\ i + (j - i) < n /\ i + (j - i) = j
    BY <1>1
  <2> QED
    BY <2>1, AroundTheEnd
<1>2. CASE ~(i <= j)
  <2>1. j - i + n \in 0..n - 1 /\ ~(i + (j - i + n) < n) /\ i + (j - i + n) - n = j
    BY <1>2
  <2> QED
    BY <2>1, AroundTheEnd
<1> QED
  BY <1>1, <1>2

\* A table of n entries.
Long(t, n) == n \in Nat \ {0} /\ DOMAIN t = 0..n - 1

LEMMA LongIs ==
  ASSUME NEW t, NEW n, Long(t, n)
  PROVE  EntriesLen(t) = n
<1>1. n \in Nat \ {0} /\ 0 \in Int /\ n - 1 \in Int /\ ~(0 > n - 1)
  BY DEF Long
<1>2. Cardinality(0..n - 1) = n - 1 - 0 + 1
  BY <1>1, FS_Interval
<1> QED
  BY <1>1, <1>2 DEF EntriesLen, Long

\* The entry d steps up from i, and that it is the first in S.
Up(n, i, d) == (i + d) % n

FirstIn(n, i, d, S) ==
  Up(n, i, d) \in S /\ \A e \in 0..n - 1 : e < d => Up(n, i, e) \notin S

\* A search that passes no entry of S before j, which is in S, ends at j.
LEMMA ProbeEnds ==
  ASSUME NEW t, NEW n, Long(t, n), NEW i \in 0..n - 1, NEW S, NEW d \in 0..n - 1,
         FirstIn(n, i, d, S)
  PROVE  Probe(t, i, S) = Up(n, i, d)
<1> DEFINE hits == {e \in 0..n - 1 : (i + e) % n \in S}
           c == CHOOSE x \in hits : \A y \in hits : x <= y
<1>1. n \in Nat \ {0} /\ EntriesLen(t) = n
  BY LongIs DEF Long
<1>2. d \in hits /\ \A y \in hits : d <= y
  <2>1. d \in hits
    BY DEF FirstIn, Up
  <2>2. ASSUME NEW y \in hits PROVE d <= y
    <3>1. y \in 0..n - 1 /\ (i + y) % n \in S
      BY <2>2
    <3>2. ~(y < d)
      BY <3>1 DEF FirstIn, Up
    <3> QED
      BY <3>1, <3>2, <1>1
  <2> QED
    BY <2>1, <2>2
<1>3. \A y \in hits : y \in 0..n - 1
  OBVIOUS
<1>4. Probe(t, i, S) = (i + c) % n
  BY <1>1, <1>2 DEF Probe
<1> HIDE DEF hits
<1>5. c \in hits /\ \A y \in hits : c <= y
  BY <1>2
<1> HIDE DEF c
<1>6. c <= d /\ d <= c /\ c \in 0..n - 1
  BY <1>2, <1>3, <1>5
<1>7. c = d
  BY <1>1, <1>6
<1> QED
  BY <1>4, <1>7 DEF Up

\* A search ends at the first entry of S, and only fails when there is none.
LEMMA ProbeIs ==
  ASSUME NEW t, NEW n, Long(t, n), NEW i \in 0..n - 1, NEW S \in SUBSET (0..n - 1)
  PROVE  \/ S = {} /\ Probe(t, i, S) = -1
         \/ \E d \in 0..n - 1 : FirstIn(n, i, d, S) /\ Probe(t, i, S) = Up(n, i, d)
<1> DEFINE hits == {e \in 0..n - 1 : (i + e) % n \in S}
<1>1. n \in Nat \ {0} /\ EntriesLen(t) = n
  BY LongIs DEF Long
<1>2. CASE hits = {}
  <2>1. S = {}
    <3> SUFFICES ASSUME NEW j \in S PROVE FALSE
      OBVIOUS
    <3> HIDE DEF hits
    <3>1. j \in 0..n - 1
      OBVIOUS
    <3>2. \E d \in 0..n - 1 : (i + d) % n = j
      BY <1>1, <3>1, StepsTo
    <3> USE DEF hits
    <3> QED
      BY <1>2, <3>2
  <2>2. Probe(t, i, S) = -1
    BY <1>1, <1>2 DEF Probe
  <2> QED
    BY <2>1, <2>2
<1>3. CASE hits # {}
  <2>1. hits \in SUBSET Nat
    BY <1>1
  <2>2. PICK d \in hits : \A e \in hits : d <= e
    <3> HIDE DEF hits
    <3> QED
      BY <1>3, <2>1, LeastNumber
  <2>3. d \in 0..n - 1 /\ (i + d) % n \in S
    BY <2>2
  <2>4. \A e \in 0..n - 1 : e < d => (i + e) % n \notin S
    BY <1>1, <2>2, <2>3
  <2>5. d \in 0..n - 1 /\ FirstIn(n, i, d, S)
    BY <2>3, <2>4 DEF FirstIn, Up
  <2>6. Probe(t, i, S) = Up(n, i, d)
    BY <2>5, ProbeEnds
  <2> QED
    BY <2>5, <2>6
<1> QED
  BY <1>2, <1>3

-----------------------------------------------------------------------------
(* The hash map: what is in a table. *)

FreedEntry == [key |-> Freed, value |-> None, removed |-> TRUE]

MapEntry == {Empty, FreedEntry} \cup [key : Key, value : Value, removed : {FALSE}]

Filled(t, n) == n \in Nat \ {0} /\ t \in [0..n - 1 -> MapEntry]

\* Where a search for k stops.
Ends(t, k) == {i \in DOMAIN t : ~t[i].removed /\ t[i].key \in {None, k}}

\* Each key that is in the table is found where it is.
Located(t) == \A i \in DOMAIN t : t[i].key \in Key => GetIndex(t, t[i].key) = i

Present(t) == {k \in Key : \E i \in DOMAIN t : t[i].key = k}

\* hashmap_get of a table.
ValueIn(t, k) == LET j == GetIndex(t, k) IN IF j = -1 THEN None ELSE t[j].value

LEMMA NoNull == None \notin Key /\ None \notin Value /\ Freed \notin Key /\ None # Freed
  BY HashmapAssumption

LEMMA FilledIs ==
  ASSUME NEW t, NEW n, Filled(t, n)
  PROVE  Long(t, n) /\ EntriesLen(t) = n /\ DOMAIN t = 0..n - 1 /\ n \in Nat \ {0}
<1>1. Long(t, n)
  BY DEF Filled, Long
<1> QED
  BY <1>1, LongIs DEF Long

LEMMA MapEntryIs ==
  ASSUME NEW c \in MapEntry
  PROVE  \/ c.key = None /\ c.value = None /\ c.removed = FALSE
         \/ c.key = Freed /\ c.value = None /\ c.removed = TRUE
         \/ c.key \in Key /\ c.value \in Value /\ c.removed = FALSE
<1>1. c = Empty \/ c = FreedEntry \/ c \in [key : Key, value : Value, removed : {FALSE}]
  BY DEF MapEntry
<1>2. CASE c = Empty
  BY <1>2 DEF Empty
<1>3. CASE c = FreedEntry
  BY <1>3 DEF FreedEntry
<1>4. CASE c \in [key : Key, value : Value, removed : {FALSE}]
  BY <1>4
<1> QED
  BY <1>1, <1>2, <1>3, <1>4

LEMMA IndexIs ==
  ASSUME hash \in Hashes, NEW k \in Key, NEW t, NEW n, Filled(t, n)
  PROVE  Index(t, k) \in 0..n - 1
<1>1. hash[k] \in Nat /\ n \in Nat \ {0} /\ EntriesLen(t) = n
  BY HashmapAssumption, FilledIs
<1> QED
  BY <1>1 DEF Index

LEMMA GetIndexIs ==
  ASSUME NEW t, NEW k
  PROVE  GetIndex(t, k) =
           IF Probe(t, Index(t, k), Ends(t, k)) = -1
                \/ t[Probe(t, Index(t, k), Ends(t, k))].key = None
             THEN -1 ELSE Probe(t, Index(t, k), Ends(t, k))
  BY DEF GetIndex, Ends

\* A key that is in the table is found; one that is not, is not.
LEMMA FoundWhereItIs ==
  ASSUME NEW t, NEW n, Filled(t, n), Located(t),
         NEW i \in 0..n - 1, t[i].key \in Key
  PROVE  /\ GetIndex(t, t[i].key) = i /\ i # -1
         /\ ValueIn(t, t[i].key) = t[i].value
         /\ t[i].value \in Value /\ t[i].removed = FALSE
<1>1. GetIndex(t, t[i].key) = i /\ i # -1
  BY FilledIs DEF Located
<1>2. t[i] \in MapEntry
  BY DEF Filled
<1>3. t[i].value \in Value /\ t[i].removed = FALSE
  BY <1>2, MapEntryIs, NoNull
<1> QED
  BY <1>1, <1>3 DEF ValueIn

LEMMA AbsentIsNotFound ==
  ASSUME hash \in Hashes, NEW t, NEW n, Filled(t, n), NEW k \in Key, k \notin Present(t)
  PROVE  GetIndex(t, k) = -1 /\ ValueIn(t, k) = None
<1> DEFINE j == Probe(t, Index(t, k), Ends(t, k))
<1>1. Index(t, k) \in 0..n - 1 /\ Long(t, n) /\ DOMAIN t = 0..n - 1
  BY IndexIs, FilledIs
<1>2. Ends(t, k) \in SUBSET (0..n - 1)
  BY <1>1 DEF Ends
<1>3. j = -1 \/ j \in Ends(t, k)
  BY <1>1, <1>2, ProbeIs DEF FirstIn
<1> HIDE DEF j
<1>4. ASSUME j \in Ends(t, k) PROVE t[j].key = None
  BY <1>4 DEF Ends, Present
<1>5. GetIndex(t, k) = -1
  BY <1>3, <1>4, GetIndexIs DEF j
<1> QED
  BY <1>5 DEF ValueIn

\* Get tells what is in the map from what is not.
LEMMA PresentIs ==
  ASSUME hash \in Hashes, NEW t, NEW n, Filled(t, n), Located(t), NEW k \in Key
  PROVE  ValueIn(t, k) # None <=> k \in Present(t)
<1>1. CASE k \in Present(t)
  <2>1. PICK i \in 0..n - 1 : t[i].key = k
    BY <1>1, FilledIs DEF Present
  <2>2. ValueIn(t, k) \in Value
    BY <2>1, FoundWhereItIs
  <2> QED
    BY <1>1, <2>2, NoNull
<1>2. CASE k \notin Present(t)
  BY <1>2, AbsentIsNotFound
<1> QED
  BY <1>1, <1>2

\* No key is in two places.
LEMMA OnePlace ==
  ASSUME NEW t, NEW n, Filled(t, n), Located(t),
         NEW i \in 0..n - 1, NEW j \in 0..n - 1, t[i].key \in Key, t[i].key = t[j].key
  PROVE  i = j
<1>1. GetIndex(t, t[i].key) = i
  BY FoundWhereItIs
<1>2. GetIndex(t, t[j].key) = j
  BY FoundWhereItIs
<1> QED
  BY <1>1, <1>2

\* An entry is found as long as none appears before it at which the search stops.
LEMMA StillFound ==
  ASSUME hash \in Hashes, NEW t, NEW u, NEW n, Filled(t, n), Filled(u, n),
         NEW k \in Key, NEW i \in 0..n - 1, GetIndex(t, k) = i, i # -1,
         Ends(u, k) \subseteq Ends(t, k), i \in Ends(u, k), u[i].key = k
  PROVE  GetIndex(u, k) = i
<1> DEFINE h == Index(t, k)
<1>1. /\ h \in 0..n - 1 /\ Index(u, k) = h /\ Long(t, n) /\ Long(u, n)
      /\ DOMAIN t = 0..n - 1 /\ DOMAIN u = 0..n - 1 /\ n \in Nat \ {0}
  BY IndexIs, FilledIs DEF Index
<1> HIDE DEF h
<1>2. Ends(t, k) \in SUBSET (0..n - 1)
  BY <1>1 DEF Ends
<1>3. Probe(t, h, Ends(t, k)) = i
  BY GetIndexIs DEF h
<1>4. PICK d \in 0..n - 1 : i = Up(n, h, d) /\ FirstIn(n, h, d, Ends(t, k))
  BY <1>1, <1>2, <1>3, ProbeIs
<1>5. FirstIn(n, h, d, Ends(u, k))
  BY <1>4 DEF FirstIn
<1>7. Probe(u, h, Ends(u, k)) = i
  BY <1>1, <1>4, <1>5, ProbeEnds
<1>6. u[i].key # None
  BY NoNull
<1> QED
  BY <1>1, <1>6, <1>7, GetIndexIs

-----------------------------------------------------------------------------
(* The hash map: adding and removing. *)

\* What hashmap_add makes of a table that lacks the key and is not full: the key is
\* in an entry that had none, and nothing else has changed.
LEMMA PutIs ==
  ASSUME hash \in Hashes, NEW t, NEW n, Filled(t, n), Located(t), Unkeyed(t) # {},
         NEW k \in Key, NEW v \in Value, k \notin Present(t)
  PROVE  \E j \in 0..n - 1 :
           /\ t[j].key = None
           /\ Put(t, k, v) = [t EXCEPT ![j] = [key |-> k, value |-> v, removed |-> FALSE]]
           /\ Filled(Put(t, k, v), n) /\ Located(Put(t, k, v))
<1> DEFINE h == Index(t, k)
           cell == [key |-> k, value |-> v, removed |-> FALSE]
<1>1. /\ h \in 0..n - 1 /\ Long(t, n) /\ DOMAIN t = 0..n - 1 /\ n \in Nat \ {0}
      /\ EntriesLen(t) = n
  BY IndexIs, FilledIs
<1> HIDE DEF h
<1>2. Unkeyed(t) \in SUBSET (0..n - 1)
  BY <1>1 DEF Unkeyed
<1>3. PICK d \in 0..n - 1 : FirstIn(n, h, d, Unkeyed(t)) /\ Probe(t, h, Unkeyed(t)) = Up(n, h, d)
  BY <1>1, <1>2, ProbeIs
<1> DEFINE j == Up(n, h, d)
           u == [t EXCEPT ![j] = cell]
<1>4. j \in 0..n - 1 /\ t[j].key = None
  BY <1>2, <1>3 DEF FirstIn, Unkeyed
<1>5. Put(t, k, v) = u
  BY <1>3 DEF Put, h
<1>6. cell \in MapEntry /\ cell.key = k /\ cell.removed = FALSE
  BY DEF MapEntry
<1> HIDE DEF cell
<1>7. Filled(u, n)
  BY <1>1, <1>4, <1>6 DEF Filled
<1>8. u[j] = cell /\ \A i \in 0..n - 1 : i # j => u[i] = t[i]
  BY <1>4 DEF Filled
<1> HIDE DEF u
<1>9. DOMAIN u = 0..n - 1 /\ EntriesLen(u) = n /\ Long(u, n)
  BY <1>7, FilledIs
<1>10. GetIndex(u, k) = j
  <2>1. j \in Ends(u, k)
    BY <1>4, <1>6, <1>8, <1>9 DEF Ends
  <2>2. ASSUME NEW e \in 0..n - 1, e < d PROVE Up(n, h, e) \notin Ends(u, k)
    <3> DEFINE i == Up(n, h, e)
    <3>1. i \notin Unkeyed(t)
      BY <1>3, <2>2 DEF FirstIn
    <3>2. i \in 0..n - 1
      BY <1>1, AroundTheEnd DEF Up
    <3> HIDE DEF i
    <3>3. i # j /\ t[i].key # None
      BY <1>1, <1>4, <3>1, <3>2 DEF Unkeyed
    <3>4. u[i] = t[i] /\ t[i].key # k
      BY <1>1, <1>8, <3>2, <3>3 DEF Present
    <3> QED
      BY <3>3, <3>4 DEF Ends, i
  <2>3. FirstIn(n, h, d, Ends(u, k))
    BY <2>1, <2>2 DEF FirstIn
  <2>4. Probe(u, h, Ends(u, k)) = j
    BY <1>1, <1>9, <2>3, ProbeEnds
  <2>5. Index(u, k) = h
    BY <1>1, <1>9 DEF Index, h
  <2>6. u[j].key # None
    BY <1>6, <1>8, NoNull
  <2> QED
    BY <2>4, <2>5, <2>6, GetIndexIs
<1>11. Located(u)
  <2> SUFFICES ASSUME NEW i \in 0..n - 1, u[i].key \in Key
               PROVE  GetIndex(u, u[i].key) = i
    BY <1>9 DEF Located
  <2>1. CASE i = j
    BY <2>1, <1>6, <1>8, <1>10
  <2>2. CASE i # j
    <3> DEFINE l == t[i].key
    <3>1. u[i] = t[i] /\ l \in Key
      BY <2>2, <1>8
    <3>2. GetIndex(t, l) = i /\ i # -1 /\ t[i].removed = FALSE
      BY <3>1, FoundWhereItIs
    <3>3. l # k
      BY <3>1, <1>1 DEF Present
    <3>4. i \in Ends(u, l)
      BY <3>1, <3>2, <1>9 DEF Ends
    <3>5. Ends(u, l) \subseteq Ends(t, l)
      <4> SUFFICES ASSUME NEW x \in Ends(u, l) PROVE x \in Ends(t, l)
        OBVIOUS
      <4>1. x \in 0..n - 1 /\ u[x].key \in {None, l} /\ ~u[x].removed
        BY <1>9 DEF Ends
      <4>2. x # j
        BY <4>1, <3>3, <1>6, <1>8, NoNull
      <4> QED
        BY <4>1, <4>2, <1>1, <1>8 DEF Ends
    <3> HIDE DEF l
    <3>6. l \in Key /\ u[i].key = l
      BY <3>1 DEF l
    <3> QED
      BY <3>2, <3>4, <3>5, <3>6, <1>7, StillFound
  <2> QED
    BY <2>1, <2>2
<1> QED
  BY <1>4, <1>5, <1>7, <1>11 DEF cell, u

\* What hashmap_remove makes of a table that has the key.
LEMMA TakenOut ==
  ASSUME hash \in Hashes, NEW t, NEW n, Filled(t, n), Located(t),
         NEW j \in 0..n - 1, t[j].key \in Key,
         NEW u, u = [t EXCEPT ![j] = FreedEntry]
  PROVE  Filled(u, n) /\ Located(u)
<1>1. /\ Long(t, n) /\ DOMAIN t = 0..n - 1 /\ n \in Nat \ {0} /\ EntriesLen(t) = n
  BY FilledIs
<1>2. FreedEntry \in MapEntry /\ FreedEntry.key = Freed /\ FreedEntry.removed = TRUE
  BY DEF MapEntry, FreedEntry
<1>3. Filled(u, n)
  BY <1>1, <1>2 DEF Filled
<1>4. u[j] = FreedEntry /\ \A i \in 0..n - 1 : i # j => u[i] = t[i]
  BY DEF Filled
<1>5. DOMAIN u = 0..n - 1 /\ EntriesLen(u) = n /\ Long(u, n)
  BY <1>3, FilledIs
<1>6. Located(u)
  <2> SUFFICES ASSUME NEW i \in 0..n - 1, u[i].key \in Key
               PROVE  GetIndex(u, u[i].key) = i
    BY <1>5 DEF Located
  <2>1. i # j /\ u[i] = t[i]
    BY <1>2, <1>4, NoNull
  <2> DEFINE l == t[i].key
  <2>2. GetIndex(t, l) = i /\ i # -1 /\ t[i].removed = FALSE
    BY <2>1, FoundWhereItIs
  <2>3. i \in Ends(u, l)
    BY <2>1, <2>2, <1>5 DEF Ends
  <2>4. Ends(u, l) \subseteq Ends(t, l)
    <3> SUFFICES ASSUME NEW x \in Ends(u, l) PROVE x \in Ends(t, l)
      OBVIOUS
    <3>1. x \in 0..n - 1 /\ ~u[x].removed
      BY <1>5 DEF Ends
    <3>2. x # j
      BY <3>1, <1>2, <1>4
    <3> QED
      BY <3>1, <3>2, <1>1, <1>4 DEF Ends
  <2>5. l \in Key /\ u[i].key = l
    BY <2>1
  <2> HIDE DEF l
  <2> QED
    BY <2>2, <2>3, <2>4, <2>5, <1>3, StillFound
<1> QED
  BY <1>3, <1>6

NoHoles(t) == \A i \in DOMAIN t : t[i].removed = FALSE

\* What adding k to t does to what get finds, and to the number of entries in use.
Adds(t, u, k, v) ==
  /\ Present(u) = Present(t) \cup {k}
  /\ ValueIn(u, k) = v
  /\ \A l \in Key \ {k} : ValueIn(u, l) = ValueIn(t, l)

\* What removing k does.
Takes(t, u, k) ==
  /\ Present(u) = Present(t) \ {k}
  /\ ValueIn(u, k) = None
  /\ \A l \in Key \ {k} : ValueIn(u, l) = ValueIn(t, l)

\* Two tables differ at j at most.
Elsewhere(t, u, n, j) == \A i \in 0..n - 1 : i # j => u[i] = t[i]

\* What is at another key's entry, get finds as before.
LEMMA OtherValues ==
  ASSUME hash \in Hashes, NEW t, NEW u, NEW n, Filled(t, n), Filled(u, n),
         Located(t), Located(u), NEW l \in Key, NEW j \in 0..n - 1,
         Elsewhere(t, u, n, j), t[j].key # l, u[j].key # l
  PROVE  /\ ValueIn(u, l) = ValueIn(t, l)
         /\ l \in Present(u) <=> l \in Present(t)
<1>1. DOMAIN t = 0..n - 1 /\ DOMAIN u = 0..n - 1
  BY FilledIs
<1>2. CASE l \in Present(t)
  <2>1. PICK i \in 0..n - 1 : t[i].key = l
    BY <1>1, <1>2 DEF Present
  <2>2. u[i] = t[i]
    BY <2>1 DEF Elsewhere
  <2>3. ValueIn(t, l) = t[i].value
    BY <2>1, FoundWhereItIs
  <2>4. ValueIn(u, l) = u[i].value
    BY <2>1, <2>2, FoundWhereItIs
  <2>5. l \in Present(u)
    BY <1>1, <2>1, <2>2 DEF Present
  <2> QED
    BY <1>2, <2>2, <2>3, <2>4, <2>5
<1>3. CASE l \notin Present(t)
  <2>1. l \notin Present(u)
    BY <1>1, <1>3 DEF Present, Elsewhere
  <2> QED
    BY <1>3, <2>1, AbsentIsNotFound
<1> QED
  BY <1>2, <1>3

LEMMA PutAdds ==
  ASSUME hash \in Hashes, NEW t, NEW n, Filled(t, n), Located(t), Unkeyed(t) # {},
         NEW k \in Key, NEW v \in Value, k \notin Present(t),
         NEW u, u = Put(t, k, v)
  PROVE  /\ Filled(u, n) /\ Located(u) /\ Adds(t, u, k, v)
         /\ NoHoles(t) => NoHoles(u)
         /\ \E j \in 0..n - 1 : Keyed(u) = Keyed(t) \cup {j}
<1> DEFINE cell == [key |-> k, value |-> v, removed |-> FALSE]
<1>1. PICK j \in 0..n - 1 : t[j].key = None /\ u = [t EXCEPT ![j] = cell]
                            /\ Filled(u, n) /\ Located(u)
  BY PutIs
<1>2. cell.key = k /\ cell.value = v /\ cell.removed = FALSE
  OBVIOUS
<1> HIDE DEF cell
<1>3. u[j] = cell /\ \A i \in 0..n - 1 : i # j => u[i] = t[i]
  BY <1>1 DEF Filled
<1>4. DOMAIN t = 0..n - 1 /\ DOMAIN u = 0..n - 1
  BY <1>1, FilledIs
<1>5. k \in Present(u) /\ ValueIn(u, k) = v
  <2>1. u[j].key = k /\ u[j].value = v
    BY <1>2, <1>3
  <2>2. ValueIn(u, k) = u[j].value
    BY <1>1, <2>1, FoundWhereItIs
  <2> QED
    BY <1>4, <2>1, <2>2 DEF Present
<1>6. ASSUME NEW l \in Key \ {k}
      PROVE  ValueIn(u, l) = ValueIn(t, l) /\ (l \in Present(u) <=> l \in Present(t))
  <2>1. l \in Key /\ t[j].key # l /\ u[j].key # l
    BY <1>1, <1>2, <1>3, NoNull
  <2>2. Elsewhere(t, u, n, j)
    BY <1>3 DEF Elsewhere
  <2> QED
    BY <1>1, <2>1, <2>2, OtherValues
<1>7. Present(u) = Present(t) \cup {k}
  <2>1. Present(u) \subseteq Key /\ Present(t) \subseteq Key
    BY DEF Present
  <2> QED
    BY <2>1, <1>5, <1>6
<1>8. NoHoles(t) => NoHoles(u)
  BY <1>2, <1>3, <1>4 DEF NoHoles
<1>9. Keyed(u) = Keyed(t) \cup {j}
  BY <1>2, <1>3, <1>4, NoNull DEF Keyed, Unkeyed
<1> QED
  BY <1>1, <1>5, <1>6, <1>7, <1>8, <1>9 DEF Adds

LEMMA RemoveTakes ==
  ASSUME hash \in Hashes, NEW t, NEW n, Filled(t, n), Located(t),
         NEW k \in Present(t), NEW u, u = [t EXCEPT ![GetIndex(t, k)] = FreedEntry]
  PROVE  Filled(u, n) /\ Located(u) /\ Takes(t, u, k)
<1>1. k \in Key /\ DOMAIN t = 0..n - 1
  BY FilledIs DEF Present
<1>2. PICK j \in 0..n - 1 : t[j].key = k
  BY <1>1 DEF Present
<1>3. GetIndex(t, k) = j
  BY <1>1, <1>2, FoundWhereItIs
<1>4. u = [t EXCEPT ![j] = FreedEntry]
  BY <1>3
<1>5. Filled(u, n) /\ Located(u)
  BY <1>1, <1>2, <1>4, TakenOut
<1>6. u[j] = FreedEntry /\ \A i \in 0..n - 1 : i # j => u[i] = t[i]
  BY <1>4 DEF Filled
<1>7. FreedEntry.key = Freed /\ DOMAIN u = 0..n - 1
  BY <1>5, FilledIs DEF FreedEntry
<1>8. k \notin Present(u)
  <2> SUFFICES ASSUME NEW i \in 0..n - 1, u[i].key = k PROVE FALSE
    BY <1>7 DEF Present
  <2>1. i # j
    BY <1>1, <1>6, <1>7, NoNull
  <2>2. t[i].key = k
    BY <1>6, <2>1
  <2>3. i = j
    BY <1>1, <1>2, <2>2, OnePlace
  <2> QED
    BY <2>1, <2>3
<1>9. ASSUME NEW l \in Key \ {k}
      PROVE  ValueIn(u, l) = ValueIn(t, l) /\ (l \in Present(u) <=> l \in Present(t))
  <2>1. l \in Key /\ t[j].key # l /\ u[j].key # l
    BY <1>2, <1>6, <1>7, NoNull
  <2>2. Elsewhere(t, u, n, j)
    BY <1>6 DEF Elsewhere
  <2> QED
    BY <1>5, <2>1, <2>2, OtherValues
<1>10. Present(u) = Present(t) \ {k}
  <2>1. Present(u) \subseteq Key /\ Present(t) \subseteq Key
    BY DEF Present
  <2> QED
    BY <2>1, <1>8, <1>9
<1> QED
  BY <1>1, <1>5, <1>8, <1>9, <1>10, AbsentIsNotFound DEF Takes

-----------------------------------------------------------------------------
(* The hash map: resizing. *)

\* The loop of hashmap_resize: the table after i of the n old entries, and that w
\* is what its recursion defines.
CopyStep(t, u, i) ==
  IF t[i - 1].key = None THEN u ELSE Put(u, t[i - 1].key, t[i - 1].value)

NewTable(n) == [j \in 0..2 * n - 1 |-> Empty]

Copies(t, n, m, w) ==
  /\ w = [i \in 0..m |-> w[i]] /\ w[0] = NewTable(n)
  /\ \A i \in 1..m : w[i] = CopyStep(t, w[i - 1], i)

LEMMA CopiesExist ==
  ASSUME NEW t, NEW n \in Nat
  PROVE  \E w : Copies(t, n, n, w)
<1> DEFINE Unbuilt == {m \in Nat : m <= n /\ ~\E w : Copies(t, n, m, w)}
<1>1. ASSUME Unbuilt # {} PROVE FALSE
  <2>1. PICK m \in Unbuilt : \A x \in Unbuilt : m <= x
    <3>1. Unbuilt \in SUBSET Nat
      OBVIOUS
    <3> HIDE DEF Unbuilt
    <3> QED
      BY <1>1, <3>1, LeastNumber
  <2>2. m \in Nat /\ m <= n /\ ~\E w : Copies(t, n, m, w)
    BY <2>1
  <2>3. CASE m = 0
    <3> DEFINE w == [i \in 0..0 |-> NewTable(n)]
    <3>1. Copies(t, n, 0, w)
      BY DEF Copies
    <3> QED
      BY <2>2, <2>3, <3>1
  <2>4. CASE m # 0
    <3>1. m - 1 \in Nat /\ m - 1 <= n /\ ~(m <= m - 1)
      BY <2>2, <2>4
    <3>2. PICK w : Copies(t, n, m - 1, w)
      BY <2>1, <3>1
    <3> DEFINE f == [i \in 0..m |-> IF i < m THEN w[i] ELSE CopyStep(t, w[m - 1], m)]
    <3>3. f = [i \in 0..m |-> f[i]] /\ f[0] = NewTable(n)
      BY <2>2, <2>4, <3>2 DEF Copies
    <3>4. ASSUME NEW i \in 1..m PROVE f[i] = CopyStep(t, f[i - 1], i)
      <4>1. i - 1 \in 0..m /\ i - 1 < m /\ i \in 0..m
        BY <2>2
      <4>2. f[i - 1] = w[i - 1]
        BY <4>1
      <4>3. CASE i < m
        <5>1. i \in 1..m - 1
          BY <2>2, <4>3
        <5>2. w[i] = CopyStep(t, w[i - 1], i)
          BY <5>1, <3>2 DEF Copies
        <5> QED
          BY <4>1, <4>2, <4>3, <5>2
      <4>4. CASE ~(i < m)
        <5>1. i = m
          BY <2>2, <4>4
        <5> QED
          BY <4>1, <4>2, <5>1
      <4> QED
        BY <4>3, <4>4
    <3>5. Copies(t, n, m, f)
      BY <3>3, <3>4 DEF Copies
    <3> QED
      BY <2>2, <3>5
  <2> QED
    BY <2>3, <2>4
<1> QED
  BY <1>1

LEMMA ResizedIsCopied ==
  ASSUME NEW t, NEW n, Filled(t, n)
  PROVE  \E w : Copies(t, n, n, w) /\ Resized(t) = w[n]
<1> DEFINE N == EntriesLen(t)
           copied == CHOOSE f : f = [i \in 0..N |->
             IF i = 0 THEN [j \in 0..2 * N - 1 |-> Empty]
             ELSE IF t[i - 1].key = None THEN f[i - 1]
             ELSE Put(f[i - 1], t[i - 1].key, t[i - 1].value)]
<1>1. N = n /\ n \in Nat
  BY FilledIs
<1> HIDE DEF N
<1>2. Resized(t) = copied[N]
  BY DEF Resized, N
<1>3. PICK w : Copies(t, n, n, w)
  BY <1>1, CopiesExist
<1>4. w = [i \in 0..N |->
             IF i = 0 THEN [j \in 0..2 * N - 1 |-> Empty]
             ELSE IF t[i - 1].key = None THEN w[i - 1]
             ELSE Put(w[i - 1], t[i - 1].key, t[i - 1].value)]
  <2>1. DOMAIN w = 0..N /\ w[0] = [j \in 0..2 * N - 1 |-> Empty]
    BY <1>1, <1>3 DEF Copies, NewTable
  <2>2. ASSUME NEW i \in 1..N
        PROVE  w[i] = IF t[i - 1].key = None THEN w[i - 1]
                      ELSE Put(w[i - 1], t[i - 1].key, t[i - 1].value)
    BY <1>1, <1>3, <2>2 DEF Copies, CopyStep
  <2>3. w = [i \in 0..N |-> w[i]]
    BY <1>3, <2>1 DEF Copies
  <2>4. \A i \in 0..N : i = 0 \/ i \in 1..N
    BY <1>1
  <2> QED
    BY <2>1, <2>2, <2>3, <2>4
<1>5. copied = [i \in 0..N |->
             IF i = 0 THEN [j \in 0..2 * N - 1 |-> Empty]
             ELSE IF t[i - 1].key = None THEN copied[i - 1]
             ELSE Put(copied[i - 1], t[i - 1].key, t[i - 1].value)]
  BY <1>4
<1> HIDE DEF copied
<1>6. copied = [i \in 0..n |-> copied[i]] /\ copied[0] = NewTable(n)
  BY <1>1, <1>5 DEF NewTable
<1>7. ASSUME NEW i \in 1..n PROVE copied[i] = CopyStep(t, copied[i - 1], i)
  <2>1. i \in 0..N /\ i # 0
    BY <1>1
  <2> QED
    BY <2>1, <1>5 DEF CopyStep
<1>8. Copies(t, n, n, copied)
  BY <1>6, <1>7 DEF Copies
<1> QED
  BY <1>1, <1>2, <1>8

\* After i of the n entries: the new table has what they had, and no more.
Copied(t, n, u, i) ==
  /\ Filled(u, 2 * n) /\ Located(u) /\ NoHoles(u)
  /\ \A k \in Key : k \in Present(u) <=> \E x \in 0..n - 1 : x < i /\ t[x].key = k
  /\ \A x \in 0..n - 1 : x < i /\ t[x].key \in Key => ValueIn(u, t[x].key) = t[x].value
  /\ IsFiniteSet(Keyed(u)) /\ Cardinality(Keyed(u)) <= i

LEMMA CopiedFirst ==
  ASSUME NEW t, NEW n \in Nat \ {0}
  PROVE  Copied(t, n, NewTable(n), 0)
<1> DEFINE u == NewTable(n)
<1>1. Empty \in MapEntry /\ Empty.key = None /\ Empty.removed = FALSE
  BY DEF MapEntry, Empty
<1>2. DOMAIN u = 0..2 * n - 1 /\ \A j \in 0..2 * n - 1 : u[j] = Empty
  BY DEF NewTable
<1>3. Filled(u, 2 * n)
  BY <1>1 DEF NewTable, Filled
<1> HIDE DEF u
<1>4. NoHoles(u) /\ Located(u) /\ Present(u) = {} /\ Keyed(u) = {}
  BY <1>1, <1>2, NoNull DEF NoHoles, Located, Present, Keyed, Unkeyed
<1>5. ~\E x \in 0..n - 1 : x < 0
  OBVIOUS
<1>6. IsFiniteSet(Keyed(u)) /\ Cardinality(Keyed(u)) <= 0
  BY <1>4, FS_EmptySet
<1> QED
  BY <1>3, <1>4, <1>5, <1>6 DEF Copied, u

\* A table whose entries in use are fewer than its length has an empty entry.
LEMMA RoomLeft ==
  ASSUME NEW u, NEW n, Filled(u, n), Cardinality(Keyed(u)) < n
  PROVE  Unkeyed(u) # {}
<1>1. DOMAIN u = 0..n - 1 /\ Cardinality(DOMAIN u) = n
  BY FilledIs DEF EntriesLen
<1>2. ASSUME Unkeyed(u) = {} PROVE FALSE
  <2>1. Keyed(u) = DOMAIN u
    BY <1>2 DEF Keyed
  <2>2. n \in Nat
    BY FilledIs
  <2> QED
    BY <1>1, <2>1, <2>2
<1> QED
  BY <1>2

LEMMA CopiedNext ==
  ASSUME hash \in Hashes, NEW t, NEW n, Filled(t, n), Located(t), NoHoles(t),
         NEW i \in 1..n, NEW u, Copied(t, n, u, i - 1)
  PROVE  Copied(t, n, CopyStep(t, u, i), i)
<1> DEFINE e == t[i - 1]
<1>1. n \in Nat \ {0} /\ i - 1 \in 0..n - 1 /\ DOMAIN t = 0..n - 1
  BY FilledIs
<1>2. /\ Filled(u, 2 * n) /\ Located(u) /\ NoHoles(u)
      /\ IsFiniteSet(Keyed(u)) /\ Cardinality(Keyed(u)) <= i - 1
      /\ Cardinality(Keyed(u)) \in Nat
  BY FS_CardinalityType DEF Copied
<1>3. \A x \in 0..n - 1 : x < i <=> x < i - 1 \/ x = i - 1
  BY <1>1
<1>4. CASE e.key = None
  <2>1. CopyStep(t, u, i) = u
    BY <1>4 DEF CopyStep
  <2>2. e.key \notin Key
    BY <1>4, NoNull
  <2>3. ASSUME NEW k \in Key
        PROVE  k \in Present(u) <=> \E x \in 0..n - 1 : x < i /\ t[x].key = k
    BY <1>3, <2>2 DEF Copied
  <2>4. ASSUME NEW x \in 0..n - 1, x < i /\ t[x].key \in Key
        PROVE  ValueIn(u, t[x].key) = t[x].value
    BY <1>3, <2>2, <2>4 DEF Copied
  <2>5. Cardinality(Keyed(u)) <= i
    BY <1>1, <1>2
  <2> QED
    BY <1>2, <2>1, <2>3, <2>4, <2>5 DEF Copied
<1>5. CASE e.key # None
  <2> DEFINE w == CopyStep(t, u, i)
  <2>1. e.key \in Key /\ e.value \in Value
    <3>1. e \in MapEntry /\ e.removed = FALSE
      BY <1>1 DEF Filled, NoHoles
    <3> QED
      BY <3>1, <1>5, MapEntryIs
  <2>2. w = Put(u, e.key, e.value)
    BY <1>5 DEF CopyStep
  <2> HIDE DEF w
  <2>3. e.key \notin Present(u)
    <3>1. ASSUME NEW x \in 0..n - 1, x < i - 1, t[x].key = e.key PROVE FALSE
      <4>1. x = i - 1
        BY <1>1, <2>1, <3>1, OnePlace
      <4> QED
        BY <4>1, <3>1, <1>1
    <3> QED
      BY <3>1, <2>1 DEF Copied
  <2>4. Unkeyed(u) # {}
    <3>1. Cardinality(Keyed(u)) < 2 * n
      BY <1>1, <1>2
    <3> QED
      BY <3>1, <1>2, RoomLeft
  <2>5. /\ Filled(w, 2 * n) /\ Located(w) /\ Adds(u, w, e.key, e.value)
        /\ NoHoles(w) /\ \E j \in 0..2 * n - 1 : Keyed(w) = Keyed(u) \cup {j}
    <3> DEFINE k == e.key
               v == e.value
               N == 2 * n
    <3>1. k \in Key /\ v \in Value /\ w = Put(u, k, v) /\ k \notin Present(u) /\ Filled(u, N)
      BY <1>2, <2>1, <2>2, <2>3
    <3> HIDE DEF k, v, N
    <3>2. /\ Filled(w, N) /\ Located(w) /\ Adds(u, w, k, v)
          /\ NoHoles(w) /\ \E j \in 0..N - 1 : Keyed(w) = Keyed(u) \cup {j}
      BY <3>1, <1>2, <2>4, PutAdds
    <3> QED
      BY <3>2 DEF k, v, N
  <2>6. IsFiniteSet(Keyed(w)) /\ Cardinality(Keyed(w)) <= i
    <3>1. PICK j : Keyed(w) = Keyed(u) \cup {j}
      BY <2>5
    <3>2. IsFiniteSet(Keyed(u) \cup {j})
      BY <1>2, FS_AddElement
    <3>3. Cardinality(Keyed(u) \cup {j}) =
            IF j \in Keyed(u) THEN Cardinality(Keyed(u)) ELSE Cardinality(Keyed(u)) + 1
      BY <1>2, FS_AddElement
    <3> QED
      BY <3>1, <3>2, <3>3, <1>1, <1>2
  <2>7. ASSUME NEW k \in Key
        PROVE  k \in Present(w) <=> \E x \in 0..n - 1 : x < i /\ t[x].key = k
    <3>1. k \in Present(w) <=> k \in Present(u) \/ k = e.key
      BY <2>5 DEF Adds
    <3>2. k \in Present(u) <=> \E x \in 0..n - 1 : x < i - 1 /\ t[x].key = k
      BY DEF Copied
    <3> QED
      BY <3>1, <3>2, <1>1, <1>3
  <2>8. ASSUME NEW x \in 0..n - 1, x < i, t[x].key \in Key
        PROVE  ValueIn(w, t[x].key) = t[x].value
    <3>1. CASE x = i - 1
      BY <3>1, <2>5 DEF Adds
    <3>2. CASE x # i - 1
      <4>1. x < i - 1
        BY <3>2, <2>8, <1>3
      <4>2. t[x].key # e.key
        <5>1. t[x].key = e.key => x = i - 1
          BY <1>1, <2>1, OnePlace
        <5> QED
          BY <5>1, <3>2
      <4>3. ValueIn(w, t[x].key) = ValueIn(u, t[x].key)
        BY <2>5, <2>8, <4>2 DEF Adds
      <4>4. ValueIn(u, t[x].key) = t[x].value
        BY <4>1, <2>8 DEF Copied
      <4> QED
        BY <4>3, <4>4
    <3> QED
      BY <3>1, <3>2
  <2> QED
    BY <2>5, <2>6, <2>7, <2>8 DEF Copied, w
<1> QED
  BY <1>4, <1>5

\* A resized table has what the old one had, and room.
LEMMA ResizedHolds ==
  ASSUME hash \in Hashes, NEW t, NEW n, Filled(t, n), Located(t), NoHoles(t),
         NEW u, u = Resized(t)
  PROVE  /\ Filled(u, 2 * n) /\ Located(u) /\ NoHoles(u) /\ Unkeyed(u) # {}
         /\ Present(u) = Present(t)
         /\ \A k \in Key : ValueIn(u, k) = ValueIn(t, k)
<1>1. n \in Nat \ {0} /\ DOMAIN t = 0..n - 1
  BY FilledIs
<1>2. PICK w : Copies(t, n, n, w) /\ u = w[n]
  BY ResizedIsCopied
<1> DEFINE Wrong == {i \in Nat : i <= n /\ ~Copied(t, n, w[i], i)}
<1>3. ASSUME Wrong # {} PROVE FALSE
  <2>1. PICK i \in Wrong : \A x \in Wrong : i <= x
    <3>1. Wrong \in SUBSET Nat
      OBVIOUS
    <3> HIDE DEF Wrong
    <3> QED
      BY <1>3, <3>1, LeastNumber
  <2>2. i \in Nat /\ i <= n /\ ~Copied(t, n, w[i], i)
    BY <2>1
  <2>3. i # 0
    BY <1>1, <1>2, <2>2, CopiedFirst DEF Copies
  <2>4. i \in 1..n /\ i - 1 \in Nat /\ i - 1 <= n /\ ~(i <= i - 1)
    BY <1>1, <2>2, <2>3
  <2>5. Copied(t, n, w[i - 1], i - 1)
    BY <2>1, <2>4
  <2>6. w[i] = CopyStep(t, w[i - 1], i)
    BY <1>2, <2>4 DEF Copies
  <2> QED
    BY <2>2, <2>4, <2>5, <2>6, CopiedNext
<1>4. Copied(t, n, u, n)
  BY <1>1, <1>2, <1>3
<1>5. Filled(u, 2 * n) /\ Located(u) /\ NoHoles(u) /\ Unkeyed(u) # {}
  <2>1. Cardinality(Keyed(u)) < 2 * n
    <3>1. Cardinality(Keyed(u)) \in Nat /\ Cardinality(Keyed(u)) <= n
      BY <1>4, FS_CardinalityType DEF Copied
    <3> QED
      BY <3>1, <1>1
  <2>2. Filled(u, 2 * n)
    BY <1>4 DEF Copied
  <2> QED
    BY <1>4, <2>1, <2>2, RoomLeft DEF Copied
<1>6. \A x \in 0..n - 1 : x < n
  BY <1>1
<1>7. ASSUME NEW k \in Key PROVE k \in Present(u) <=> k \in Present(t)
  BY <1>1, <1>4, <1>6 DEF Copied, Present
<1>8. ASSUME NEW k \in Key PROVE ValueIn(u, k) = ValueIn(t, k)
  <2>1. CASE k \in Present(t)
    <3>1. PICK x \in 0..n - 1 : t[x].key = k
      BY <1>1, <2>1 DEF Present
    <3>2. ValueIn(u, k) = t[x].value
      BY <1>4, <1>6, <3>1 DEF Copied
    <3>3. ValueIn(t, k) = t[x].value
      BY <3>1, FoundWhereItIs
    <3> QED
      BY <3>2, <3>3
  <2>2. CASE k \notin Present(t)
    <3>1. ValueIn(t, k) = None
      BY <2>2, AbsentIsNotFound
    <3>2. ValueIn(u, k) = None
      BY <2>2, <1>5, <1>7, AbsentIsNotFound
    <3> QED
      BY <3>1, <3>2
  <2> QED
    BY <2>1, <2>2
<1> QED
  BY <1>5, <1>7, <1>8 DEF Present

-----------------------------------------------------------------------------
(* The hash map: the invariant. *)

\* Without removed entries each entry in use has a key of its own.
LEMMA KeyedCount ==
  ASSUME NEW t, NEW n, Filled(t, n), Located(t), NoHoles(t)
  PROVE  Cardinality(Keyed(t)) = Cardinality(Present(t)) /\ Cardinality(Keyed(t)) \in Nat
<1> DEFINE f == [i \in Keyed(t) |-> t[i].key]
<1>1. DOMAIN t = 0..n - 1 /\ n \in Nat \ {0}
  BY FilledIs
<1>2. ASSUME NEW i \in Keyed(t) PROVE i \in 0..n - 1 /\ t[i].key \in Key
  <2>1. i \in 0..n - 1 /\ t[i].key # None
    BY <1>1 DEF Keyed, Unkeyed
  <2>2. t[i] \in MapEntry /\ t[i].removed = FALSE
    BY <1>1, <2>1 DEF Filled, NoHoles
  <2> QED
    BY <2>1, <2>2, MapEntryIs
<1>3. f \in [Keyed(t) -> Present(t)]
  BY <1>1, <1>2 DEF Present
<1>4. \A i, j \in Keyed(t) : f[i] = f[j] => i = j
  BY <1>2, OnePlace
<1>5. \A k \in Present(t) : \E i \in Keyed(t) : f[i] = k
  BY NoNull DEF Present, Keyed, Unkeyed
<1>6. IsFiniteSet(Keyed(t))
  <2>1. IsFiniteSet(0..n - 1)
    BY <1>1, FS_Interval
  <2>2. Keyed(t) \in SUBSET (0..n - 1)
    BY <1>2
  <2> QED
    BY <2>1, <2>2, FS_Subset
<1> HIDE DEF f
<1>7. f \in Injection(Keyed(t), Present(t)) /\ f \in Surjection(Keyed(t), Present(t))
  BY <1>3, <1>4, <1>5, Fun_IsInj, Fun_IsSurj
<1> QED
  BY <1>6, <1>7, FS_Surjection, FS_CardinalityType

\* The number of keys in a table.
LEMMA PresentCount ==
  ASSUME NEW t, NEW k \in Key
  PROVE  /\ Cardinality(Present(t)) \in Nat
         /\ k \notin Present(t) =>
              Cardinality(Present(t) \cup {k}) = Cardinality(Present(t)) + 1
         /\ k \in Present(t) =>
              /\ Cardinality(Present(t) \ {k}) = Cardinality(Present(t)) - 1
              /\ Cardinality(Present(t)) > 0
<1>1. IsFiniteSet(Present(t))
  <2>1. Present(t) \in SUBSET Key
    BY DEF Present
  <2> QED
    BY <2>1, HashmapAssumption, FS_Subset
<1>2. Cardinality(Present(t)) \in Nat
  BY <1>1, FS_CardinalityType
<1>3. Cardinality(Present(t) \cup {k}) =
        IF k \in Present(t) THEN Cardinality(Present(t)) ELSE Cardinality(Present(t)) + 1
  BY <1>1, FS_AddElement
<1>4. Cardinality(Present(t) \ {k}) =
        IF k \in Present(t) THEN Cardinality(Present(t)) - 1 ELSE Cardinality(Present(t))
  BY <1>1, FS_RemoveElement
<1>5. Cardinality(Present(t)) = 0 => Present(t) = {}
  BY <1>1, FS_EmptySet
<1> QED
  BY <1>2, <1>3, <1>4, <1>5

\* Each key that is in the table is found, the keys are counted, and only removed
\* entries can fill the table.
MapInv ==
  /\ hash \in Hashes /\ occupied \in Nat /\ status \in {"running", "aborted", "undefined"}
  /\ \E n \in 1..MaxEntries : Filled(entries, n)
  /\ Located(entries)
  /\ status = "running" => occupied = Cardinality(Present(entries))
  /\ FindsRoom

LEMMA LocatedSame ==
  ASSUME NEW u, hash' = hash, entries' = u, Located(u)
  PROVE  Located(entries)'
  BY DEF Located, GetIndex, Index, EntriesLen

LEMMA GetIs ==
  /\ \A k : Get(k) = ValueIn(entries, k)
  /\ hash' = hash => \A k : Get(k)' = ValueIn(entries', k)
  BY DEF Get, ValueIn, GetIndex, Index, EntriesLen

LEMMA MapInitInv ==
  ASSUME MapInit
  PROVE  MapInv
<1>1. PICK h \in Hashes, n \in FirstLens : NewMap(h, n)
  BY DEF MapInit
<1>2. n \in 1..MaxEntries /\ n \in Nat \ {0} /\ MaxEntries \in Nat
  BY HashmapAssumption
<1>3. /\ hash \in Hashes /\ entries = [i \in 0..n - 1 |-> Empty]
      /\ occupied = 0 /\ status = "running"
  BY <1>1 DEF NewMap
<1>4. Empty \in MapEntry /\ Empty.key = None
  BY DEF MapEntry, Empty
<1>5. Filled(entries, n)
  BY <1>2, <1>3, <1>4 DEF Filled
<1>6. Located(entries) /\ Present(entries) = {}
  BY <1>3, <1>4, NoNull DEF Located, Present
<1>7. Cardinality(Present(entries)) = 0
  BY <1>6, FS_EmptySet
<1> QED
  BY <1>2, <1>3, <1>5, <1>6, <1>7 DEF MapInv, FindsRoom

\* What adding a key does: to a table with an empty entry it adds it, and only a
\* table that has removed entries or is overfull lacks one.
LEMMA AddToAdds ==
  ASSUME hash \in Hashes, NEW t, NEW n, Filled(t, n), Located(t),
         NEW k \in Key, NEW v \in Value, k \notin Present(t), AddTo(t, k, v)
  PROVE  \/ /\ Unkeyed(t) # {} /\ UNCHANGED status
            /\ Filled(entries', n) /\ Located(entries') /\ Adds(t, entries', k, v)
         \/ Unkeyed(t) = {} /\ status' = "aborted" /\ entries' = t
<1>1. CASE Unkeyed(t) # {}
  <2>1. entries' = Put(t, k, v) /\ UNCHANGED status
    BY <1>1 DEF AddTo
  <2>2. /\ Filled(entries', n) /\ Located(entries') /\ Adds(t, entries', k, v)
    <3> DEFINE u == entries'
    <3>1. u = Put(t, k, v)
      BY <2>1
    <3> HIDE DEF u
    <3>2. Filled(u, n) /\ Located(u) /\ Adds(t, u, k, v)
      BY <1>1, <3>1, PutAdds
    <3> QED
      BY <3>2 DEF u
  <2> QED
    BY <1>1, <2>1, <2>2
<1>2. CASE Unkeyed(t) = {}
  BY <1>2 DEF AddTo
<1> QED
  BY <1>1, <1>2

LEMMA AddKeeps ==
  ASSUME MapInv, NEW k \in Key, NEW v \in Value, Add(k, v)
  PROVE  /\ MapInv' /\ hash' = hash
         /\ \/ Adds(entries, entries', k, v)
            \/ entries' = entries
         /\ ValueIn(entries, k) = None
<1>1. /\ hash \in Hashes /\ hash' = hash /\ status = "running" /\ occupied \in Nat
      /\ occupied' = occupied + 1 /\ AddTo(entries, k, v) /\ Get(k) = None
      /\ ~(10 * occupied >= 8 * EntriesLen(entries))
      /\ occupied = Cardinality(Present(entries)) /\ Located(entries)
  BY DEF MapInv, Add, MustResize
<1>2. PICK n \in 1..MaxEntries : Filled(entries, n)
  BY DEF MapInv
<1>3. ValueIn(entries, k) = None /\ k \notin Present(entries)
  BY <1>1, <1>2, GetIs, PresentIs
<1>4. CASE /\ Unkeyed(entries) # {} /\ UNCHANGED status
           /\ Filled(entries', n) /\ Located(entries') /\ Adds(entries, entries', k, v)
  <2>1. occupied' = Cardinality(Present(entries'))
    BY <1>1, <1>3, <1>4, PresentCount DEF Adds
  <2>2. Located(entries)'
    BY <1>1, <1>4, LocatedSame
  <2>3. occupied' \in Nat /\ status' = "running"
    BY <1>1, <1>4
  <2> QED
    BY <1>1, <1>2, <1>3, <1>4, <2>1, <2>2, <2>3 DEF MapInv, FindsRoom, Filled, Present
<1>5. CASE Unkeyed(entries) = {} /\ status' = "aborted" /\ entries' = entries
  <2>1. ASSUME NoHoles(entries) PROVE FALSE
    <3>1. Keyed(entries) = DOMAIN entries
      BY <1>5 DEF Keyed
    <3>2. Cardinality(DOMAIN entries) = n /\ EntriesLen(entries) = n /\ n \in Nat \ {0}
      BY <1>2, FilledIs DEF EntriesLen
    <3>3. Cardinality(Keyed(entries)) = occupied
      BY <1>1, <1>2, <2>1, KeyedCount
    <3> QED
      BY <1>1, <3>1, <3>2, <3>3
  <2>2. \E i \in DOMAIN entries : entries[i].removed
    <3>1. PICK i \in DOMAIN entries : entries[i].removed # FALSE
      BY <2>1 DEF NoHoles
    <3>2. entries[i] \in MapEntry
      BY <1>2 DEF Filled
    <3> QED
      BY <3>1, <3>2, MapEntryIs
  <2>3. Located(entries)'
    BY <1>1, <1>5, LocatedSame
  <2>4. occupied' \in Nat
    BY <1>1
  <2> QED
    BY <1>1, <1>2, <1>3, <1>5, <2>2, <2>3, <2>4 DEF MapInv, FindsRoom, Filled, Present
<1> QED
  BY <1>1, <1>2, <1>3, <1>4, <1>5, AddToAdds

LEMMA AddResizingKeeps ==
  ASSUME MapInv, NEW k \in Key, NEW v \in Value, AddResizing(k, v)
  PROVE  /\ MapInv' /\ hash' = hash
         /\ \/ Adds(entries, entries', k, v)
            \/ entries' = entries
         /\ ValueIn(entries, k) = None
<1> DEFINE t == entries
           u == Resized(t)
<1>1. /\ hash \in Hashes /\ hash' = hash /\ status = "running" /\ occupied \in Nat
      /\ Get(k) = None /\ Located(t) /\ 2 * EntriesLen(t) <= MaxEntries
      /\ occupied = Cardinality(Present(t))
  BY DEF MapInv, AddResizing
<1>2. PICK n \in 1..MaxEntries : Filled(t, n)
  BY DEF MapInv
<1>3. ValueIn(t, k) = None /\ k \notin Present(t)
  BY <1>1, <1>2, GetIs, PresentIs
<1>4. EntriesLen(t) = n /\ n \in Nat \ {0} /\ MaxEntries \in Nat
  BY <1>2, FilledIs, HashmapAssumption
<1> HIDE DEF t, u
<1>5. CASE \E i \in DOMAIN t : t[i].removed
  <2>1. status' = "undefined" /\ entries' = entries /\ occupied' = occupied
    BY <1>5 DEF AddResizing, t
  <2>2. Located(entries)'
    BY <1>1, <2>1, LocatedSame DEF t
  <2> QED
    BY <1>1, <1>2, <1>3, <2>1, <2>2 DEF MapInv, FindsRoom, Filled, t
<1>6. CASE ~\E i \in DOMAIN t : t[i].removed
  <2>1. AddTo(u, k, v) /\ occupied' = Recount(t) + 1
    BY <1>6 DEF AddResizing, t, u
  <2>2. NoHoles(t)
    <3> SUFFICES ASSUME NEW i \in DOMAIN t PROVE t[i].removed = FALSE
      BY DEF NoHoles
    <3>1. t[i] \in MapEntry
      BY <1>2 DEF Filled
    <3> QED
      BY <1>6, <3>1, MapEntryIs
  <2>3. /\ Filled(u, 2 * n) /\ Located(u) /\ Unkeyed(u) # {}
        /\ Present(u) = Present(t) /\ \A l \in Key : ValueIn(u, l) = ValueIn(t, l)
    BY <1>1, <1>2, <2>2, ResizedHolds DEF u
  <2>4. /\ status' = status /\ Filled(entries', 2 * n) /\ Located(entries')
        /\ Adds(u, entries', k, v)
    <3> DEFINE N == 2 * n
    <3>1. Filled(u, N)
      BY <2>3
    <3> HIDE DEF N
    <3>2. /\ Unkeyed(u) # {} /\ UNCHANGED status
          /\ Filled(entries', N) /\ Located(entries') /\ Adds(u, entries', k, v)
      BY <1>1, <1>3, <2>1, <2>3, <3>1, AddToAdds
    <3> QED
      BY <3>2 DEF N
  <2>5. Adds(t, entries', k, v)
    BY <2>3, <2>4 DEF Adds
  <2>6. occupied' = Cardinality(Present(entries'))
    <3>1. Recount(t) = Cardinality(Present(t))
      BY <1>2, <1>1, <2>2, KeyedCount DEF Recount
    <3> QED
      BY <2>1, <2>5, <3>1, <1>3, PresentCount DEF Adds
  <2>7. Located(entries)' /\ status' = "running" /\ occupied' \in Nat
    <3>1. Located(entries)'
      BY <1>1, <2>4, LocatedSame
    <3>2. Cardinality(Present(t)) \in Nat /\ Recount(t) = Cardinality(Present(t))
      BY <1>2, <1>1, <2>2, KeyedCount DEF Recount
    <3> QED
      BY <1>1, <2>1, <2>4, <3>1, <3>2
  <2>8. 2 * n \in 1..MaxEntries
    BY <1>1, <1>4
  <2>9. \E m \in 1..MaxEntries : Filled(entries', m)
    BY <2>4, <2>8
  <2> QED
    BY <1>1, <1>3, <2>5, <2>6, <2>7, <2>9 DEF MapInv, FindsRoom, Filled, Present, t
<1> QED
  BY <1>5, <1>6

LEMMA RemoveKeyKeeps ==
  ASSUME MapInv, NEW k \in Key, RemoveKey(k)
  PROVE  /\ MapInv' /\ hash' = hash
         /\ ValueIn(entries, k) # None /\ Takes(entries, entries', k)
<1> DEFINE u == entries'
<1>1. /\ hash \in Hashes /\ hash' = hash /\ status = "running" /\ status' = status
      /\ occupied \in Nat /\ occupied' = occupied - 1 /\ Get(k) # None
      /\ Located(entries) /\ occupied = Cardinality(Present(entries))
      /\ u = [entries EXCEPT ![GetIndex(entries, k)] = FreedEntry]
  BY DEF MapInv, RemoveKey, FreedEntry
<1>2. PICK n \in 1..MaxEntries : Filled(entries, n)
  BY DEF MapInv
<1>3. ValueIn(entries, k) # None /\ k \in Present(entries)
  BY <1>1, <1>2, GetIs, PresentIs
<1> HIDE DEF u
<1>4. Filled(u, n) /\ Located(u) /\ Takes(entries, u, k)
  <2> DEFINE t == entries
  <2>1. /\ Filled(t, n) /\ Located(t) /\ k \in Present(t)
        /\ u = [t EXCEPT ![GetIndex(t, k)] = FreedEntry]
    BY <1>1, <1>2, <1>3
  <2> HIDE DEF t
  <2>2. Filled(u, n) /\ Located(u) /\ Takes(t, u, k)
    BY <1>1, <2>1, RemoveTakes
  <2> QED
    BY <2>2 DEF t
<1>5. occupied' = Cardinality(Present(u)) /\ occupied' \in Nat
  <2>1. /\ Cardinality(Present(u)) = Cardinality(Present(entries)) - 1
        /\ Cardinality(Present(entries)) > 0
    BY <1>3, <1>4, PresentCount DEF Takes, Present
  <2> QED
    BY <1>1, <2>1
<1>6. Located(entries)'
  BY <1>1, <1>4, LocatedSame DEF u
<1> QED
  BY <1>1, <1>2, <1>3, <1>4, <1>5, <1>6 DEF MapInv, FindsRoom, Filled, Present, u

LEMMA MapStep == MapInv /\ [MapNext]_mapVars => MapInv'
<1> SUFFICES ASSUME MapInv, [MapNext]_mapVars PROVE MapInv'
  OBVIOUS
<1>1. CASE MapNext
  <2>1. PICK k \in Key : RemoveKey(k) \/ \E v \in Value : Add(k, v) \/ AddResizing(k, v)
    BY <1>1 DEF MapNext
  <2>2. CASE RemoveKey(k)
    BY <2>2, RemoveKeyKeeps
  <2>3. ASSUME NEW v \in Value, Add(k, v) PROVE MapInv'
    BY <2>3, AddKeeps
  <2>4. ASSUME NEW v \in Value, AddResizing(k, v) PROVE MapInv'
    BY <2>4, AddResizingKeeps
  <2> QED
    BY <2>1, <2>2, <2>3, <2>4
<1>2. CASE UNCHANGED mapVars
  <2>1. hash' = hash /\ entries' = entries /\ occupied' = occupied /\ status' = status
    BY <1>2 DEF mapVars
  <2>2. Located(entries)'
    BY <2>1, LocatedSame DEF MapInv
  <2> QED
    BY <2>1, <2>2 DEF MapInv, FindsRoom, Filled, Present
<1> QED
  BY <1>1, <1>2

\* In every map each key that is in the table is found where it is, whatever the
\* hash function, the collisions, the removed entries and the resizes before
\* (hashmap.c:76-161).
THEOREM MapInvariant == MapSpec => []MapInv
<1>1. MapInit => MapInv
  BY MapInitInv
<1> QED
  BY <1>1, MapStep, PTL DEF MapSpec

\* `occupied' is the number of keys, and hashmap_add finds an empty entry
\* as long as no entry was removed (hashmap.c:83, 100).
THEOREM MapLoadIsKnown == MapSpec => []LoadKnown
<1>1. MapInv => LoadKnown
  <2> SUFFICES ASSUME MapInv PROVE LoadKnown
    OBVIOUS
  <2>1. PICK n \in 1..MaxEntries : Filled(entries, n)
    BY DEF MapInv
  <2>2. \A k \in Key : Get(k) # None <=> k \in Present(entries)
    BY <2>1, GetIs, PresentIs DEF MapInv
  <2>3. {k \in Key : Get(k) # None} = Present(entries)
    BY <2>2 DEF Present
  <2> QED
    BY <2>3 DEF LoadKnown, CountsKeys, MapInv
<1> QED
  BY <1>1, MapInvariant, PTL

-----------------------------------------------------------------------------
(* The hash map: the promise. *)

LEMMA KeptAsSeen ==
  ASSUME hash' = hash
  PROVE  /\ [k \in Key |-> Get(k)] = [k \in Key |-> ValueIn(entries, k)]
         /\ [k \in Key |-> Get(k)]' = [k \in Key |-> ValueIn(entries', k)]
<1>1. \A k : Get(k) = ValueIn(entries, k)
  BY GetIs
<1>2. \A k : Get(k)' = ValueIn(entries', k)
  BY GetIs
<1> QED
  BY <1>1, <1>2

LEMMA KeptStep == MapInv /\ [MapNext]_mapVars => [Kept!Next]_([k \in Key |-> Get(k)])
<1> SUFFICES ASSUME MapInv, [MapNext]_mapVars
             PROVE  [Kept!Next]_([k \in Key |-> Get(k)])
  OBVIOUS
<1> DEFINE m == [k \in Key |-> ValueIn(entries, k)]
           w == [k \in Key |-> ValueIn(entries', k)]
<1>1. CASE MapNext
  <2>1. PICK k \in Key : RemoveKey(k) \/ \E v \in Value : Add(k, v) \/ AddResizing(k, v)
    BY <1>1 DEF MapNext
  <2>2. CASE RemoveKey(k)
    <3>1. hash' = hash /\ m[k] # None /\ w[k] = None /\ \A j \in Key \ {k} : w[j] = m[j]
      BY <2>2, RemoveKeyKeeps DEF Takes
    <3> HIDE DEF m, w
    <3>2. [l \in Key |-> Get(l)] = m /\ [l \in Key |-> Get(l)]' = w
      BY <3>1, KeptAsSeen DEF m, w
    <3>3. Kept!Remove(k)
      BY <3>1, <3>2 DEF Kept!Remove, Kept!Others
    <3> QED
      BY <3>3 DEF Kept!Next
  <2>3. ASSUME NEW v \in Value, Add(k, v) \/ AddResizing(k, v)
        PROVE  [Kept!Next]_([l \in Key |-> Get(l)])
    <3>1. /\ hash' = hash /\ ValueIn(entries, k) = None
          /\ Adds(entries, entries', k, v) \/ entries' = entries
      BY <2>3, AddKeeps, AddResizingKeeps
    <3>2. [l \in Key |-> Get(l)] = m /\ [l \in Key |-> Get(l)]' = w
      BY <3>1, KeptAsSeen
    <3>3. CASE Adds(entries, entries', k, v)
      <4>1. m[k] = None /\ w[k] = v /\ \A j \in Key \ {k} : w[j] = m[j]
        BY <3>1, <3>3 DEF Adds
      <4> HIDE DEF m, w
      <4>2. Kept!Add(k, v)
        BY <3>2, <4>1 DEF Kept!Add, Kept!Others
      <4> QED
        BY <4>2 DEF Kept!Next
    <3>4. CASE entries' = entries
      BY <3>2, <3>4
    <3> QED
      BY <3>1, <3>3, <3>4
  <2> QED
    BY <2>1, <2>2, <2>3
<1>2. CASE UNCHANGED mapVars
  <2>1. hash' = hash /\ entries' = entries
    BY <1>2 DEF mapVars
  <2> QED
    BY <2>1, KeptAsSeen
<1> QED
  BY <1>1, <1>2

\* A key has the value it was added with until it is removed: the table implements
\* the promise of hashmap.h, for any hash function (hashmap.c:81-161).
THEOREM MapImplementsKeyValue == MapSpec => MapIsKeyValue
<1>1. MapInit => Kept!Init
  <2> SUFFICES ASSUME MapInit PROVE Kept!Init
    OBVIOUS
  <2>1. MapInv
    BY MapInitInv
  <2>2. PICK n \in 1..MaxEntries : Filled(entries, n)
    BY <2>1 DEF MapInv
  <2>3. Present(entries) = {}
    BY NoNull DEF MapInit, NewMap, Present, Empty
  <2>4. ASSUME NEW k \in Key PROVE Get(k) = None
    BY <2>1, <2>2, <2>3, GetIs, AbsentIsNotFound DEF MapInv
  <2> QED
    BY <2>4 DEF Kept!Init
<1> QED
  BY <1>1, KeptStep, MapInvariant, PTL DEF MapSpec, MapIsKeyValue, Kept!Spec

-----------------------------------------------------------------------------
(* Parsing and freeing a chunk. *)

\* The arrays that the tree still points to once n sections were made.
StillInTree(n) == {p \in Arrays(chunkDoc) : p[1] = "Biomes" \/ p[2] > n}

\* What a chunk has been made of so far.
Made ==
  /\ chunkDoc \in ChunkDocs /\ DOMAIN letGo = Pointers(chunkDoc)
  /\ Len(sections) \in 0..Len(chunkDoc.sections)
  /\ sections = [k \in 1..Len(sections) |-> chunkDoc.sections[k] \X {k}]

\* Who owns what, at each stage.
Owners ==
  /\ stage = "start" =>
       inTree = {} /\ OnceEach({}) /\ biomes = {} /\ answer = "none" /\ sections = <<>>
  /\ stage = "unpacked" =>
       /\ inTree = Arrays(chunkDoc) /\ OnceEach({}) /\ biomes = {} /\ answer = "none"
       /\ sections = <<>> /\ chunkDoc.reads
  /\ stage = "sections" =>
       /\ inTree = StillInTree(Len(sections)) /\ OnceEach({}) /\ biomes = {}
       /\ answer = "none" /\ chunkDoc.reads
  /\ stage = "returned" /\ answer = "ok" =>
       /\ OnceEach({<<"tree", 0>>}) /\ biomes = {<<"Biomes", 0>>} \cap Arrays(chunkDoc)
       /\ Len(sections) = Len(chunkDoc.sections) /\ chunkDoc.reads
  /\ stage = "returned" /\ answer # "ok" =>
       OnceEach(IF answer = "BAD_CHUNK" THEN {} ELSE ChunkMade)
  /\ stage = "freed" => answer = "ok" /\ OnceEach(ChunkMade)
  /\ stage \in {"aborted", "undefined"} => \A p \in DOMAIN letGo : letGo[p] <= 1
  /\ stage \in {"start", "unpacked", "sections", "returned", "freed", "aborted", "undefined"}

\* The invariant.
ChunkInv == Made /\ Owners

\* A document has sections that point to arrays of its own.
LEMMA DocIs ==
  ASSUME NEW d \in ChunkDocs
  PROVE  /\ Len(d.sections) \in Nat /\ DOMAIN d.sections = 1..Len(d.sections)
         /\ \A k \in DOMAIN d.sections : d.sections[k] \subseteq Moved \cup {"Palette"}
         /\ d.biomes \in {"none", "right", "short"}
         /\ d.reads \in BOOLEAN
<1>1. d.sections \in Seq(SUBSET (Moved \cup {"Palette"}))
  BY ChunkAssumption
<1>2. {d.reads, d.version, d.level, d.hasSections} \subseteq BOOLEAN
      /\ d.biomes \in {"none", "right", "short"}
  BY ChunkAssumption
<1>3. \A k \in DOMAIN d.sections : d.sections[k] \in SUBSET (Moved \cup {"Palette"})
  BY <1>1
<1> QED
  BY <1>1, <1>2, <1>3

\* The invariant holds before anything is read.
LEMMA ChunkStart == ChunkInit => ChunkInv
<1> SUFFICES ASSUME ChunkInit PROVE ChunkInv
  OBVIOUS
<1>1. PICK d \in ChunkDocs : ChunkFrom(d)
  BY DEF ChunkInit
<1>2. Made
  <2>1. Len(sections) = 0 /\ sections = <<>>
    BY <1>1 DEF ChunkFrom
  <2>2. sections = [k \in 1..0 |-> chunkDoc.sections[k] \X {k}]
    BY <2>1
  <2>3. Len(d.sections) \in Nat
    BY DocIs
  <2> QED
    BY <1>1, <2>1, <2>2, <2>3 DEF Made, ChunkFrom
<1>3. Owners
  BY <1>1 DEF Owners, ChunkFrom, OnceEach
<1> QED
  BY <1>2, <1>3 DEF ChunkInv

\* What was not freed before and is freed now is freed once.
LEMMA FreedNow ==
  ASSUME NEW S, OnceEach({}), letGo' = Freeing(S)
  PROVE  OnceEach(S)'
<1>1. \A p \in DOMAIN letGo : letGo'[p] = IF p \in S THEN 1 ELSE 0
  BY DEF OnceEach, Freeing
<1>2. DOMAIN letGo' = DOMAIN letGo
  BY DEF Freeing
<1> QED
  BY <1>1, <1>2 DEF OnceEach

\* nbt_unpack.
LEMMA UnpackStays == ASSUME ChunkInv, Unpack PROVE ChunkInv'
<1>1. stage = "start" /\ UNCHANGED <<chunkDoc, sections, biomes, letGo>>
      /\ inTree = {} /\ OnceEach({}) /\ biomes = {} /\ answer = "none" /\ sections = <<>>
  BY DEF Unpack, ChunkInv, Owners
<1>2. Made'
  BY <1>1 DEF ChunkInv, Made
<1>3. OnceEach({})'
  BY <1>1 DEF OnceEach
<1>4. CASE chunkDoc.reads
  <2>1. Owners'
    BY <1>1, <1>3, <1>4 DEF Unpack, Owners
  <2> QED
    BY <1>2, <2>1 DEF ChunkInv
<1>5. CASE ~chunkDoc.reads
  <2>1. stage' = "returned" /\ answer' = "BAD_NBT" /\ inTree' = inTree
    BY <1>5 DEF Unpack
  <2>2. ChunkMade' = {}
    BY <1>1, <1>5, <2>1 DEF ChunkMade
  <2>3. Owners'
    BY <1>1, <1>3, <2>1, <2>2 DEF Owners
  <2> QED
    BY <1>2, <2>3 DEF ChunkInv
<1> QED
  BY <1>4, <1>5

\* Data of another version: the tree and its arrays are freed.
LEMMA VersionStays == ASSUME ChunkInv, WrongVersion PROVE ChunkInv'
<1>1. stage = "unpacked" /\ stage' = "returned" /\ answer' = "BAD_DATA_VERSION"
      /\ UNCHANGED <<chunkDoc, sections, biomes>>
      /\ letGo' = Freeing(Arrays(chunkDoc) \cup {<<"tree", 0>>})
      /\ OnceEach({}) /\ chunkDoc.reads
  BY DEF WrongVersion, TreeFreed, ChunkInv, Owners
<1>2. Made'
  BY <1>1 DEF ChunkInv, Made, Freeing
<1>3. ChunkMade' = Arrays(chunkDoc) \cup {<<"tree", 0>>}
  BY <1>1 DEF ChunkMade, Arrays
<1>4. OnceEach(Arrays(chunkDoc) \cup {<<"tree", 0>>})'
  BY <1>1, FreedNow DEF Arrays
<1>5. Owners'
  BY <1>1, <1>3, <1>4 DEF Owners, OnceEach
<1> QED
  BY <1>2, <1>5 DEF ChunkInv

\* Up to the loop over the sections.
LEMMA SectionsFound == ASSUME ChunkInv, FindSections PROVE ChunkInv'
<1>1. stage = "unpacked" /\ UNCHANGED <<chunkDoc, inTree, sections, biomes, letGo>>
      /\ inTree = Arrays(chunkDoc) /\ OnceEach({}) /\ biomes = {} /\ answer = "none"
      /\ sections = <<>> /\ chunkDoc.reads /\ chunkDoc \in ChunkDocs
  BY DEF FindSections, ChunkInv, Owners, Made
<1>2. Made'
  BY <1>1 DEF ChunkInv, Made
<1>3. OnceEach({})'
  BY <1>1 DEF OnceEach
<1>4. StillInTree(Len(sections)) = Arrays(chunkDoc)
  <2>1. \A p \in Arrays(chunkDoc) : p[1] = "Biomes" \/ p[2] > 0
    BY <1>1, DocIs DEF Arrays
  <2>2. Len(sections) = 0
    BY <1>1
  <2> QED
    BY <2>1, <2>2 DEF StillInTree
<1>5. stage' = (IF ~chunkDoc.level THEN "aborted"
                ELSE IF ~chunkDoc.hasSections THEN "returned" ELSE "sections")
      /\ answer' = (IF stage' = "returned" THEN "BAD_CHUNK" ELSE answer)
  BY DEF FindSections
<1>6. Owners'
  <2>1. CASE stage' = "sections"
    <3>1. StillInTree(Len(sections))' = Arrays(chunkDoc)
      BY <1>1, <1>4 DEF StillInTree, Arrays
    <3> QED
      BY <1>1, <1>3, <1>5, <2>1, <3>1 DEF Owners
  <2>2. CASE stage' = "returned"
    BY <1>1, <1>3, <1>5, <2>2 DEF Owners
  <2>3. CASE stage' = "aborted"
    BY <1>1, <1>3, <1>5, <2>3 DEF Owners, OnceEach
  <2> QED
    BY <1>5, <2>1, <2>2, <2>3
<1> QED
  BY <1>2, <1>6 DEF ChunkInv

\* The arrays of one more section leave the tree.
LEMMA TakenFromTree ==
  ASSUME NEW n \in Nat, chunkDoc \in ChunkDocs
  PROVE  StillInTree(n) \ (Moved \X {n + 1}) = StillInTree(n + 1)
<1>1. ASSUME NEW p \in Arrays(chunkDoc)
      PROVE  p \in StillInTree(n) \ (Moved \X {n + 1}) <=> p \in StillInTree(n + 1)
  <2>1. CASE p = <<"Biomes", 0>>
    <3>1. p \notin Moved \X {n + 1} /\ p[1] = "Biomes"
      BY <2>1 DEF Moved
    <3> QED
      BY <1>1, <3>1 DEF StillInTree
  <2>2. CASE p \in Moved \X DOMAIN chunkDoc.sections
    <3>1. p[1] \in Moved /\ p[1] # "Biomes" /\ p[2] \in Nat /\ p = <<p[1], p[2]>>
      BY <2>2, DocIs DEF Moved
    <3>2. p \in Moved \X {n + 1} <=> p[2] = n + 1
      BY <3>1
    <3>3. p[2] > n /\ p[2] # n + 1 <=> p[2] > n + 1
      BY <3>1
    <3> QED
      BY <1>1, <3>1, <3>2, <3>3 DEF StillInTree
  <2> QED
    BY <2>1, <2>2 DEF Arrays
<1> QED
  BY <1>1 DEF StillInTree

\* One section more: it has what the tree has no more.
LEMMA SectionParsed == ASSUME ChunkInv, ParseSection PROVE ChunkInv'
<1> DEFINE n == Len(sections)
           k == n + 1
<1>1. stage = "sections" /\ k \in DOMAIN chunkDoc.sections
      /\ UNCHANGED <<chunkDoc, biomes, answer, letGo>>
      /\ inTree = StillInTree(n) /\ OnceEach({}) /\ biomes = {} /\ answer = "none"
      /\ chunkDoc.reads /\ chunkDoc \in ChunkDocs /\ n \in Nat /\ k \in Nat
  BY DocIs DEF ParseSection, ChunkInv, Owners, Made
<1>2. OnceEach({})'
  BY <1>1 DEF OnceEach
<1>3. CASE k <= ChunkSectionsLen
  <2>1. sections' = Append(sections, chunkDoc.sections[k] \X {k})
        /\ inTree' = inTree \ (Moved \X {k}) /\ stage' = stage
    BY <1>3 DEF ParseSection, LeftInTree
  <2>2. Len(sections') = k
        /\ sections' = [j \in 1..k |-> chunkDoc.sections[j] \X {j}]
    <3> DEFINE F(j) == chunkDoc.sections[j] \X {j}
               S == {F(j) : j \in 1..k}
    <3>1. sections = [j \in 1..n |-> F(j)]
      BY DEF ChunkInv, Made
    <3>2. sections' = Append(sections, F(k))
      BY <2>1
    <3>3. \A j \in 1..k : F(j) \in S
      OBVIOUS
    <3> HIDE DEF F, S
    <3>4. sections \in Seq(S) /\ Len(sections) = n
      BY <1>1, <3>1, <3>3
    <3>5. sections' = [j \in 1..k |-> F(j)] /\ Len(sections') = k
      BY <1>1, <3>1, <3>2, <3>3, <3>4
    <3> QED
      BY <3>5 DEF F
  <2>3. Made'
    <3>1. k \in 0..Len(chunkDoc.sections)
      BY <1>1, DocIs
    <3> QED
      BY <1>1, <2>2, <3>1 DEF ChunkInv, Made
  <2>4. inTree' = StillInTree(k)
    BY <1>1, <2>1, TakenFromTree
  <2>5. StillInTree(Len(sections))' = StillInTree(k)
    BY <1>1, <2>2 DEF StillInTree, Arrays
  <2>6. Owners'
    BY <1>1, <1>2, <2>1, <2>4, <2>5 DEF Owners
  <2> QED
    BY <2>3, <2>6 DEF ChunkInv
<1>4. CASE ~(k <= ChunkSectionsLen)
  <2>1. stage' = "undefined" /\ sections' = sections /\ inTree' = inTree
    BY <1>4 DEF ParseSection
  <2>2. Made'
    BY <1>1, <2>1 DEF ChunkInv, Made
  <2>3. Owners'
    BY <1>1, <1>2, <2>1 DEF Owners, OnceEach
  <2> QED
    BY <2>2, <2>3 DEF ChunkInv
<1> QED
  BY <1>3, <1>4

\* The biomes, and the rest of the tree, which is the tree.
LEMMA ChunkFinished == ASSUME ChunkInv, FinishChunk PROVE ChunkInv'
<1>1. stage = "sections" /\ Len(sections) = Len(chunkDoc.sections)
      /\ UNCHANGED <<chunkDoc, sections>>
      /\ inTree = StillInTree(Len(sections)) /\ OnceEach({}) /\ biomes = {} /\ answer = "none"
      /\ chunkDoc.reads /\ chunkDoc \in ChunkDocs
  BY DEF FinishChunk, ChunkInv, Owners, Made
<1>2. /\ inTree \subseteq {<<"Biomes", 0>>}
      /\ <<"Biomes", 0>> \in inTree <=> <<"Biomes", 0>> \in Arrays(chunkDoc)
  <2>1. ASSUME NEW p \in inTree PROVE p = <<"Biomes", 0>>
    <3>1. p \in Arrays(chunkDoc) /\ (p[1] = "Biomes" \/ p[2] > Len(chunkDoc.sections))
      BY <1>1 DEF StillInTree
    <3>2. CASE p \in Moved \X DOMAIN chunkDoc.sections
      <4>1. p[1] # "Biomes" /\ p[2] <= Len(chunkDoc.sections)
        BY <1>1, <3>2, DocIs DEF Moved
      <4>2. p[2] \in Nat /\ Len(chunkDoc.sections) \in Nat
        BY <1>1, <3>2, DocIs
      <4> QED
        BY <3>1, <4>1, <4>2
    <3> QED
      BY <3>1, <3>2 DEF Arrays
  <2>2. <<"Biomes", 0>> \in Arrays(chunkDoc) <=> <<"Biomes", 0>> \in inTree
    BY <1>1 DEF StillInTree
  <2> QED
    BY <2>1, <2>2
<1>3. CASE chunkDoc.biomes = "short"
  <2>1. stage' = "aborted" /\ UNCHANGED <<inTree, biomes, answer, letGo>>
    BY <1>3 DEF FinishChunk
  <2>2. Made'
    BY <1>1, <2>1 DEF ChunkInv, Made
  <2>3. Owners'
    BY <1>1, <2>1 DEF Owners, OnceEach
  <2> QED
    BY <2>2, <2>3 DEF ChunkInv
<1>4. CASE chunkDoc.biomes # "short"
  <2>1. biomes' = {<<"Biomes", 0>>} \cap inTree /\ stage' = "returned" /\ answer' = "ok"
        /\ letGo' = Freeing((inTree \ {<<"Biomes", 0>>}) \cup {<<"tree", 0>>})
    BY <1>4 DEF FinishChunk
  <2>2. (inTree \ {<<"Biomes", 0>>}) \cup {<<"tree", 0>>} = {<<"tree", 0>>}
    BY <1>2
  <2>3. OnceEach({<<"tree", 0>>})'
    <3>1. letGo' = Freeing({<<"tree", 0>>})
      BY <2>1, <2>2
    <3> QED
      BY <1>1, <3>1, FreedNow
  <2>4. Made'
    BY <1>1, <2>1 DEF ChunkInv, Made, Freeing
  <2>5. biomes' = ({<<"Biomes", 0>>} \cap Arrays(chunkDoc))'
    BY <1>1, <1>2, <2>1 DEF Arrays
  <2>6. Owners'
    BY <1>1, <2>1, <2>3, <2>5 DEF Owners
  <2> QED
    BY <2>4, <2>6 DEF ChunkInv
<1> QED
  BY <1>3, <1>4

\* What a chunk in use points to is all its document has for it.
LEMMA ChunkHolds ==
  ASSUME ChunkInv, stage = "returned", answer = "ok"
  PROVE  (UNION {sections[k] : k \in DOMAIN sections}) \cup biomes =
           Arrays(chunkDoc) \cup Palettes
<1> DEFINE held == UNION {sections[k] : k \in DOMAIN sections}
           d == chunkDoc
<1>1. /\ chunkDoc \in ChunkDocs /\ Len(sections) = Len(chunkDoc.sections)
      /\ sections = [k \in 1..Len(sections) |-> chunkDoc.sections[k] \X {k}]
      /\ biomes = {<<"Biomes", 0>>} \cap Arrays(chunkDoc)
  BY DEF ChunkInv, Made, Owners
<1>2. DOMAIN sections = DOMAIN d.sections
  BY <1>1, DocIs
<1>3. ASSUME NEW p PROVE p \in held <=> \E k \in DOMAIN d.sections : p \in d.sections[k] \X {k}
  BY <1>1, <1>2
<1>4. ASSUME NEW k \in DOMAIN d.sections, NEW p \in d.sections[k] \X {k}
      PROVE  p \in Arrays(d) \cup Palettes
  <2>1. p = <<p[1], k>> /\ p[1] \in d.sections[k] /\ p[1] \in Moved \cup {"Palette"}
    BY <1>1, DocIs
  <2>2. CASE p[1] \in Moved
    <3>1. p \in Moved \X DOMAIN d.sections /\ p[2] = k
      BY <2>1, <2>2
    <3> QED
      BY <2>1, <3>1 DEF Arrays
  <2>3. CASE p[1] = "Palette"
    <3>1. p = <<"Palette", k>> /\ k \in DOMAIN sections /\ "Palette" \in chunkDoc.sections[k]
      BY <1>2, <2>1, <2>3
    <3> QED
      BY <3>1 DEF Palettes
  <2> QED
    BY <2>1, <2>2, <2>3
<1>5. ASSUME NEW p \in Arrays(d), p # <<"Biomes", 0>>
      PROVE  \E k \in DOMAIN d.sections : p \in d.sections[k] \X {k}
  <2>1. p \in Moved \X DOMAIN d.sections /\ p[1] \in d.sections[p[2]]
    BY <1>5 DEF Arrays
  <2>2. p[2] \in DOMAIN d.sections /\ p \in d.sections[p[2]] \X {p[2]}
    BY <2>1
  <2> QED
    BY <2>2
<1>6. ASSUME NEW p \in Palettes
      PROVE  \E k \in DOMAIN d.sections : p \in d.sections[k] \X {k}
  BY <1>2 DEF Palettes
<1> HIDE DEF held, d
<1>7. \A p : p \in held \cup biomes <=> p \in Arrays(d) \cup Palettes
  BY <1>1, <1>3, <1>4, <1>5, <1>6 DEF d
<1>8. held \cup biomes = Arrays(d) \cup Palettes
  BY <1>7
<1> QED
  BY <1>8 DEF held, d

\* The sections that free p: the one it belongs to, if any.
LEMMA FreedBy ==
  ASSUME ChunkInv, stage = "returned", answer = "ok", NEW p
  PROVE  Cardinality({k \in DOMAIN sections : p \in SectionFrees(k)}) =
           IF \E k \in DOMAIN sections : p \in SectionFrees(k) THEN 1 ELSE 0
<1> DEFINE by == {k \in DOMAIN sections : p \in SectionFrees(k)}
<1>1. ASSUME NEW k \in by PROVE k = p[2]
  <2>1. sections[k] = chunkDoc.sections[k] \X {k}
    BY DEF ChunkInv, Made
  <2> QED
    BY <2>1 DEF SectionFrees
<1>2. CASE \E k \in DOMAIN sections : p \in SectionFrees(k)
  <2>1. PICK k \in by : TRUE
    BY <1>2
  <2>2. by = {k}
    BY <1>1
  <2>3. Cardinality({k}) = 1
    BY FS_Singleton
  <2> QED
    BY <1>2, <2>2, <2>3
<1>3. CASE ~\E k \in DOMAIN sections : p \in SectionFrees(k)
  <2>1. by = {}
    BY <1>3
  <2>2. Cardinality({}) = 0
    BY FS_EmptySet
  <2> QED
    BY <1>3, <2>1, <2>2
<1> QED
  BY <1>2, <1>3

\* free_chunk frees what the tree did not, each by one section or by the chunk.
LEMMA ChunkFreed == ASSUME ChunkInv, FreeChunk PROVE ChunkInv'
<1>1. stage = "returned" /\ answer = "ok" /\ stage' = "freed"
      /\ UNCHANGED <<chunkDoc, inTree, sections, biomes, answer>>
      /\ OnceEach({<<"tree", 0>>}) /\ biomes = {<<"Biomes", 0>>} \cap Arrays(chunkDoc)
      /\ chunkDoc \in ChunkDocs /\ chunkDoc.reads
  BY DEF FreeChunk, ChunkInv, Owners, Made
<1>2. DOMAIN letGo' = DOMAIN letGo
  BY DEF FreeChunk
<1>3. Made'
  BY <1>1, <1>2 DEF ChunkInv, Made
<1> DEFINE bySection(p) == \E k \in DOMAIN sections : p \in SectionFrees(k)
           byChunk(p) == p \in biomes \cup {<<"chunk", 0>>}
<1>4. ASSUME NEW p \in DOMAIN letGo
      PROVE  letGo'[p] = (IF p = <<"tree", 0>> THEN 1 ELSE 0) + (IF byChunk(p) THEN 1 ELSE 0)
                           + (IF bySection(p) THEN 1 ELSE 0)
  <2>1. letGo'[p] = Freeing(biomes \cup {<<"chunk", 0>>})[p]
                      + Cardinality({k \in DOMAIN sections : p \in SectionFrees(k)})
    BY DEF FreeChunk
  <2>2. Freeing(biomes \cup {<<"chunk", 0>>})[p] = letGo[p] + IF byChunk(p) THEN 1 ELSE 0
    BY DEF Freeing
  <2>3. letGo[p] = IF p = <<"tree", 0>> THEN 1 ELSE 0
    BY <1>1 DEF OnceEach
  <2>4. Cardinality({k \in DOMAIN sections : p \in SectionFrees(k)}) = IF bySection(p) THEN 1 ELSE 0
    BY <1>1, FreedBy
  <2> QED
    BY <2>1, <2>2, <2>3, <2>4
<1>5. ASSUME NEW p
      PROVE  bySection(p) <=> \E k \in DOMAIN sections : p \in sections[k] \/ p = <<"section", k>>
  BY DEF SectionFrees
<1>6. (UNION {sections[k] : k \in DOMAIN sections}) \cup biomes = Arrays(chunkDoc) \cup Palettes
  BY <1>1, ChunkHolds
<1>7. ASSUME NEW p
      PROVE  p \in ChunkMade <=> p = <<"tree", 0>> \/ byChunk(p) \/ bySection(p)
  <2>1. p \in Arrays(chunkDoc) \cup Palettes
          <=> p \in biomes \/ \E k \in DOMAIN sections : p \in sections[k]
    BY <1>6
  <2>2. p \in ChunkMade <=> \/ p \in Arrays(chunkDoc) \cup Palettes
                            \/ p = <<"tree", 0>> \/ p = <<"chunk", 0>>
                            \/ \E k \in DOMAIN sections : p = <<"section", k>>
    BY <1>1 DEF ChunkMade
  <2> QED
    BY <1>5, <2>1, <2>2
<1>8. ASSUME NEW k \in DOMAIN sections
      PROVE  <<"tree", 0>> \notin SectionFrees(k) /\ <<"chunk", 0>> \notin SectionFrees(k)
             /\ <<"Biomes", 0>> \notin SectionFrees(k)
  <2>1. sections[k] = chunkDoc.sections[k] \X {k}
    BY DEF ChunkInv, Made
  <2>2. k # 0
    BY DEF ChunkInv, Made
  <2> QED
    BY <2>1, <2>2 DEF SectionFrees
<1>9. ASSUME NEW p
      PROVE  /\ ~(p = <<"tree", 0>> /\ byChunk(p)) /\ ~(p = <<"tree", 0>> /\ bySection(p))
             /\ ~(byChunk(p) /\ bySection(p))
  <2>1. byChunk(p) => p = <<"Biomes", 0>> \/ p = <<"chunk", 0>>
    BY <1>1
  <2>2. p \in {<<"tree", 0>>, <<"chunk", 0>>, <<"Biomes", 0>>} => ~bySection(p)
    BY <1>8
  <2>3. <<"tree", 0>> # <<"Biomes", 0>> /\ <<"tree", 0>> # <<"chunk", 0>>
    OBVIOUS
  <2> HIDE DEF byChunk, bySection
  <2> QED
    BY <2>1, <2>2, <2>3
<1>10. \A p \in DOMAIN letGo : letGo'[p] = IF p \in ChunkMade THEN 1 ELSE 0
  <2> HIDE DEF byChunk, bySection
  <2> QED
    BY <1>4, <1>7, <1>9
<1>11. ChunkMade' = ChunkMade
  BY <1>1 DEF ChunkMade, Arrays, Palettes
<1>12. OnceEach(ChunkMade)'
  BY <1>2, <1>10, <1>11 DEF OnceEach
<1>13. Owners'
  BY <1>1, <1>12 DEF Owners
<1> QED
  BY <1>3, <1>13 DEF ChunkInv

\* No step breaks the invariant.
LEMMA ChunkInvStays == ChunkInv /\ [ChunkNext]_chunkVars => ChunkInv'
<1> SUFFICES ASSUME ChunkInv, [ChunkNext]_chunkVars PROVE ChunkInv'
  OBVIOUS
<1>1. CASE UNCHANGED chunkVars
  <2>1. Made'
    BY <1>1 DEF chunkVars, ChunkInv, Made
  <2>2. Owners'
    BY <1>1 DEF chunkVars, ChunkInv, Owners, OnceEach, ChunkMade, Palettes, StillInTree, Arrays
  <2> QED
    BY <2>1, <2>2 DEF ChunkInv
<1> QED
  BY <1>1, UnpackStays, VersionStays, SectionsFound, SectionParsed, ChunkFinished, ChunkFreed
  DEF ChunkNext

\* Each array of the document is the tree's or the chunk's, at each step of
\* anvil_parse_chunk and free_chunk.
THEOREM ChunkInvariant == ChunkSpec => []ChunkInv
BY ChunkStart, ChunkInvStays, PTL DEF ChunkSpec

\* The invariant says what the run checks.
LEMMA ChunkOwns == ChunkInv => ChunkOwned
<1> SUFFICES ASSUME ChunkInv PROVE ChunkOwned
  OBVIOUS
<1>1. \A p \in DOMAIN letGo : letGo[p] <= 1
  BY DEF ChunkInv, Owners, OnceEach
<1>2. ASSUME stage = "returned", answer = "ok"
      PROVE  /\ (UNION {sections[k] : k \in DOMAIN sections}) \cup biomes =
                   Arrays(chunkDoc) \cup Palettes
             /\ OnceEach({<<"tree", 0>>})
  BY <1>2, ChunkHolds DEF ChunkInv, Owners
<1>3. ASSUME stage = "freed" \/ (stage = "returned" /\ answer # "ok")
      PROVE  OnceEach(IF answer = "BAD_CHUNK" THEN {} ELSE ChunkMade)
  BY <1>3 DEF ChunkInv, Owners
<1> QED
  BY <1>1, <1>2, <1>3 DEF ChunkOwned

\* A chunk in use holds all that its document has for it, and everything allocated for
\* a document is freed once, but for the tree of a chunk without sections: for every
\* document.
THEOREM ChunkOwnsItsArrays == ChunkSpec => []ChunkOwned
BY ChunkInvariant, ChunkOwns, PTL

-----------------------------------------------------------------------------
(* Sections (libs/anvil/section.c). *)

\* The recursion of the powers of two.
LEMMA Pow2Is ==
  Pow2 = [k \in 0..13 |-> IF k = 0 THEN 1 ELSE 2 * Pow2[k - 1]]
<1> DEFINE f == [k \in 0..13 |->
                   IF k = 0 THEN 1 ELSE IF k = 1 THEN 2 ELSE IF k = 2 THEN 4
                   ELSE IF k = 3 THEN 8 ELSE IF k = 4 THEN 16 ELSE IF k = 5 THEN 32
                   ELSE IF k = 6 THEN 64 ELSE IF k = 7 THEN 128 ELSE IF k = 8 THEN 256
                   ELSE IF k = 9 THEN 512 ELSE IF k = 10 THEN 1024
                   ELSE IF k = 11 THEN 2048 ELSE IF k = 12 THEN 4096 ELSE 8192]
           step(g) == [k \in 0..13 |-> IF k = 0 THEN 1 ELSE 2 * g[k - 1]]
<1>1. f = step(f)
  <2>1. ASSUME NEW k \in 0..13 PROVE f[k] = IF k = 0 THEN 1 ELSE 2 * f[k - 1]
    BY SMTT(30)
  <2> QED
    BY <2>1
<1>2. Pow2 = CHOOSE g : g = step(g)
  BY DEF Pow2
<1> QED
  BY <1>1, <1>2

LEMMA Powers ==
  /\ Pow2[0] = 1 /\ Pow2[1] = 2 /\ Pow2[2] = 4 /\ Pow2[3] = 8 /\ Pow2[4] = 16
  /\ Pow2[5] = 32 /\ Pow2[6] = 64 /\ Pow2[7] = 128 /\ Pow2[8] = 256
  /\ Pow2[9] = 512 /\ Pow2[10] = 1024 /\ Pow2[11] = 2048 /\ Pow2[12] = 4096
  /\ Pow2[13] = 8192
<1> DEFINE p == Pow2
<1>1. p = [k \in 0..13 |-> IF k = 0 THEN 1 ELSE 2 * p[k - 1]]
  BY Pow2Is
<1> HIDE DEF p
<1>2. p[0] = 1
  BY <1>1
<1>4. p[1] = 2 * p[0] /\ p[2] = 2 * p[1] /\ p[3] = 2 * p[2] /\ p[4] = 2 * p[3]
  BY <1>1
<1>5. p[5] = 2 * p[4] /\ p[6] = 2 * p[5] /\ p[7] = 2 * p[6] /\ p[8] = 2 * p[7]
  BY <1>1
<1>6. p[9] = 2 * p[8] /\ p[10] = 2 * p[9] /\ p[11] = 2 * p[10] /\ p[12] = 2 * p[11]
      /\ p[13] = 2 * p[12]
  BY <1>1
<1> QED
  BY <1>2, <1>4, <1>5, <1>6 DEF p

\* The length of a palette in bits: enough for its last index.
LEMMA LogIs ==
  ASSUME NEW n \in 1..256
  PROVE  Log2Up(n) \in 0..8 /\ n <= Pow2[Log2Up(n)]
<1> DEFINE P(k) == n <= Pow2[k] /\ (k = 0 \/ Pow2[k - 1] < n)
<1>1. Log2Up(n) = CHOOSE k \in 0..12 : P(k)
  BY DEF Log2Up
<1>2. \E k \in 0..8 : P(k)
  <2>1. n <= 1 => P(0)
    BY Powers
  <2>2. 1 < n /\ n <= 2 => P(1)
    BY Powers
  <2>3. 2 < n /\ n <= 4 => P(2)
    BY Powers
  <2>4. 4 < n /\ n <= 8 => P(3)
    BY Powers
  <2>5. 8 < n /\ n <= 16 => P(4)
    BY Powers
  <2>6. 16 < n /\ n <= 32 => P(5)
    BY Powers
  <2>7. 32 < n /\ n <= 64 => P(6)
    BY Powers
  <2>8. 64 < n /\ n <= 128 => P(7)
    BY Powers
  <2>9. 128 < n /\ n <= 256 => P(8)
    BY Powers
  <2> HIDE DEF P
  <2> QED
    BY <2>1, <2>2, <2>3, <2>4, <2>5, <2>6, <2>7, <2>8, <2>9
<1>3. \A k \in 9..12 : ~P(k)
  BY Powers
<1>4. Log2Up(n) \in 0..12 /\ P(Log2Up(n))
  <2> HIDE DEF P
  <2> QED
    BY <1>1, <1>2
<1>5. Log2Up(n) \in 0..8
  <2> HIDE DEF P
  <2> QED
    BY <1>3, <1>4
<1> QED
  BY <1>4, <1>5

LEMMA BitsAre ==
  ASSUME NEW n \in 1..256
  PROVE  BitsPerBlock(n) \in 4..8 /\ n <= Pow2[BitsPerBlock(n)]
<1>1. Log2Up(n) \in 0..8 /\ n <= Pow2[Log2Up(n)]
  BY LogIs
<1>2. CASE Log2Up(n) < 4
  <2>1. BitsPerBlock(n) = 4
    BY <1>2 DEF BitsPerBlock
  <2>2. Pow2[Log2Up(n)] <= 8
    <3>1. Log2Up(n) \in {0, 1, 2, 3}
      BY <1>1, <1>2
    <3> QED
      BY <3>1, Powers
  <2>3. n <= Pow2[4]
    BY <1>1, <2>2, Powers
  <2> QED
    BY <2>1, <2>3
<1>3. CASE ~(Log2Up(n) < 4)
  <2>1. BitsPerBlock(n) = Log2Up(n) /\ Log2Up(n) \in 4..8
    BY <1>1, <1>3 DEF BitsPerBlock
  <2> QED
    BY <1>1, <2>1
<1> QED
  BY <1>2, <1>3

\* A number is its quotient, so many times, and the remainder.
LEMMA By64 ==
  ASSUME NEW x \in Nat
  PROVE  x = 64 * (x \div 64) + (x % 64) /\ x \div 64 \in Nat /\ x % 64 \in 0..63
BY SMT

LEMMA OnlyBy64 ==
  ASSUME NEW x \in Nat, NEW q \in Nat, NEW r \in 0..63, x = 64 * q + r
  PROVE  x \div 64 = q /\ x % 64 = r
BY SMT

\* What lies below a power of two has no bit there or above.
LEMMA NoBitAbove ==
  ASSUME NEW b \in 4..8, NEW v \in Nat, v < Pow2[b], NEW k \in ToBits(v)
  PROVE  k \in 0..b - 1
<1>1. k \in 0..13 /\ (v \div Pow2[k]) % 2 = 1
  BY DEF ToBits
<1>2. SUFFICES ASSUME k >= b PROVE FALSE
  BY <1>1
<1> DEFINE p == Pow2[k]
<1>3. p \in Nat \ {0} /\ v < p
  <2>1. b \in {4, 5, 6, 7, 8} /\ k \in {4, 5, 6, 7, 8, 9, 10, 11, 12, 13}
    BY <1>1, <1>2
  <2>2. CASE k \in {4, 5, 6, 7, 8}
    BY <1>2, <2>1, <2>2, Powers
  <2>3. CASE k \in {9, 10, 11, 12, 13}
    BY <2>1, <2>3, Powers
  <2> QED
    BY <2>1, <2>2, <2>3
<1> HIDE DEF p
<1>4. v \div p = 0
  BY <1>3, SMT
<1> QED
  BY <1>1, <1>4 DEF p

\* The bit x of all longs together.
BitOf(longs, x) == x % 64 \in longs[x \div 64]

\* Where block i lies: at b bits from i * b on, in one long or in two.
LEMMA BlockPos ==
  ASSUME NEW b \in 4..8, NEW i \in Nat
  PROVE  /\ i * b \in Nat
         /\ i * b = 64 * StartLong(i, b) + Offset(i, b)
         /\ StartLong(i, b) \in Nat /\ Offset(i, b) \in 0..63
         /\ Straddles(i, b) <=> Offset(i, b) + b > 64
         /\ Straddles(i, b) => EndLong(i, b) = StartLong(i, b) + 1
<1> DEFINE y == i * b
           z == (i + 1) * b
           s == StartLong(i, b)
           o == Offset(i, b)
<1>1. y \in Nat /\ z = y + b
  BY SMT
<1>2. y = 64 * s + o /\ s \in Nat /\ o \in 0..63
  <2>1. s = y \div 64 /\ o = y % 64
    BY DEF StartLong, Offset
  <2> HIDE DEF y, s, o
  <2> QED
    BY <1>1, <2>1, By64
<1>3. EndLong(i, b) = IF 64 - o = b THEN s ELSE z \div 64
  BY DEF EndLong
<1>4. Straddles(i, b) <=> s # EndLong(i, b)
  BY DEF Straddles
<1> HIDE DEF y, z, s, o
<1>5. o + b < 64 => z \div 64 = s
  <2>1. SUFFICES ASSUME o + b < 64 PROVE z \div 64 = s
    OBVIOUS
  <2> DEFINE r == o + b
  <2>2. z \in Nat /\ r \in 0..63 /\ z = 64 * s + r
    BY <1>1, <1>2, <2>1
  <2> HIDE DEF r
  <2> QED
    BY <1>2, <2>2, OnlyBy64
<1>6. o + b > 64 => z \div 64 = s + 1
  <2>1. SUFFICES ASSUME o + b > 64 PROVE z \div 64 = s + 1
    OBVIOUS
  <2> DEFINE r == o + b - 64
             q == s + 1
  <2>2. z \in Nat /\ r \in 0..63 /\ z = 64 * q + r /\ q \in Nat
    BY <1>1, <1>2, <2>1
  <2>3. z \div 64 = q
    <3> HIDE DEF r, q
    <3> QED
      BY <2>2, OnlyBy64
  <2> QED
    BY <2>3
<1>7. (64 - o = b) <=> (o + b = 64)
  BY <1>2
<1>8. s # EndLong(i, b) <=> o + b > 64
  BY <1>2, <1>3, <1>5, <1>6, <1>7
<1>9. o + b > 64 => EndLong(i, b) = s + 1
  BY <1>2, <1>3, <1>6, <1>7
<1> QED
  BY <1>1, <1>2, <1>4, <1>8, <1>9 DEF y, s, o

\* read_blockstate_at reads the bits of the block, whichever longs they are in.
LEMMA ReadIs ==
  ASSUME NEW b \in 4..8, NEW i \in Nat, NEW k \in 0..b - 1, NEW longs,
         longs[StartLong(i, b)] \subseteq Bit, longs[EndLong(i, b)] \subseteq Bit
  PROVE  k \in ReadAt(longs, i, b) <=> BitOf(longs, i * b + k)
<1> DEFINE s == StartLong(i, b)
           e == EndLong(i, b)
           o == Offset(i, b)
           y == i * b
           x == y + k
           low == Right(longs[s], o)
           high == IF Straddles(i, b) THEN Left(longs[e], 64 - o) ELSE {}
<1>1. y \in Nat /\ y = 64 * s + o /\ s \in Nat /\ o \in 0..63
      /\ (Straddles(i, b) <=> o + b > 64) /\ (Straddles(i, b) => e = s + 1)
  BY BlockPos
<1>2. ReadAt(longs, i, b) = (low \cup high) \cap Mask(b)
  BY DEF ReadAt
<1>3. k \in Mask(b)
  BY DEF Mask
<1>4. longs[s] \subseteq 0..63 /\ longs[e] \subseteq 0..63
  BY DEF Bit
<1> HIDE DEF s, e, o, y
<1>5. k \in low <=> o + k \in longs[s]
  BY <1>1, <1>4 DEF Right
<1>6. k \in high <=> Straddles(i, b) /\ o + k - 64 \in longs[e]
  BY <1>1, <1>4 DEF Left, Bit
<1>7. CASE o + k < 64
  <2> DEFINE r == o + k
  <2>1. x \in Nat /\ r \in 0..63 /\ x = 64 * s + r
    BY <1>1, <1>7
  <2>2. x \div 64 = s /\ x % 64 = r
    <3> HIDE DEF x, r
    <3> QED
      BY <1>1, <2>1, OnlyBy64
  <2>3. ~(o + k - 64 \in longs[e])
    BY <1>1, <1>4, <1>7
  <2> QED
    BY <1>2, <1>3, <1>5, <1>6, <2>2, <2>3 DEF BitOf, y
<1>8. CASE o + k >= 64
  <2> DEFINE r == o + k - 64
             q == s + 1
  <2>1. x \in Nat /\ r \in 0..63 /\ x = 64 * q + r /\ q \in Nat
    BY <1>1, <1>8
  <2>2. x \div 64 = q /\ x % 64 = r
    <3> HIDE DEF x, r, q
    <3> QED
      BY <2>1, OnlyBy64
  <2>3. Straddles(i, b) /\ e = q
    BY <1>1, <1>8
  <2>4. ~(o + k \in longs[s])
    BY <1>1, <1>4, <1>8
  <2> QED
    BY <1>2, <1>3, <1>5, <1>6, <2>2, <2>3, <2>4 DEF BitOf, y
<1> QED
  BY <1>1, <1>7, <1>8

\* write_blockstate_at adds the bits of the value where the block lies, and no other.
LEMMA WriteIs ==
  ASSUME NEW b \in 4..8, NEW i \in Nat, NEW n \in Nat, NEW longs, DOMAIN longs = 0..n - 1,
         StartLong(i, b) \in 0..n - 1, EndLong(i, b) \in 0..n - 1, NEW v,
         NEW l \in 0..n - 1, NEW m \in 0..63
  PROVE  m \in WriteAt(longs, i, b, v)[l] <=>
           m \in longs[l] \/ 64 * l + m - i * b \in ToBits(v) \cap Mask(b)
<1> DEFINE s == StartLong(i, b)
           e == EndLong(i, b)
           o == Offset(i, b)
           y == i * b
           bits == ToBits(v) \cap Mask(b)
           left == Left(bits, o)
           right == Right(bits, 64 - o)
           d == 64 * l + m - y
           first == [longs EXCEPT ![s] = @ \cup left]
           second == [first EXCEPT ![e] = @ \cup right]
<1>1. y \in Nat /\ y = 64 * s + o /\ s \in Nat /\ o \in 0..63
      /\ (Straddles(i, b) <=> o + b > 64) /\ (Straddles(i, b) => e = s + 1)
  BY BlockPos
<1>2. bits \subseteq 0..b - 1
  BY DEF Mask
<1>3. WriteAt(longs, i, b, v) = IF Straddles(i, b) THEN second ELSE first
  BY DEF WriteAt
<1>4. s \in 0..n - 1 /\ e \in 0..n - 1
  OBVIOUS
<1> HIDE DEF s, e, o, y, bits
<1>5. m \in left <=> m - o \in bits
  <2>1. left = {k + o : k \in bits} \cap 0..63
    BY DEF Left, Bit
  <2>2. ASSUME m \in left PROVE m - o \in bits
    <3>1. PICK k \in bits : m = k + o
      BY <2>1, <2>2
    <3>2. k \in 0..b - 1
      BY <1>2
    <3>3. m - o = k
      BY <1>1, <3>1, <3>2
    <3> QED
      BY <3>3
  <2>3. ASSUME m - o \in bits PROVE m \in left
    <3>1. m = (m - o) + o
      BY <1>1
    <3> QED
      BY <2>1, <2>3, <3>1
  <2> QED
    BY <2>2, <2>3
<1>6. m \in right <=> m + 64 - o \in bits
  <2> DEFINE r == 64 - o
  <2>1. right = {k - r : k \in {j \in bits : j >= r}}
    BY DEF Right
  <2>2. r \in Int
    BY <1>1
  <2> HIDE DEF r
  <2>3. ASSUME m \in right PROVE m + r \in bits
    <3>1. PICK k \in bits : m = k - r
      BY <2>1, <2>3
    <3>2. k \in 0..b - 1
      BY <1>2
    <3>3. m + r = k
      BY <2>2, <3>1, <3>2
    <3> QED
      BY <3>3
  <2>4. ASSUME m + r \in bits PROVE m \in right
    <3>1. m = (m + r) - r /\ m + r >= r
      BY <2>2
    <3> QED
      BY <2>1, <2>4, <3>1
  <2>5. m + r = m + 64 - o
    BY <1>1 DEF r
  <2> QED
    BY <2>3, <2>4, <2>5
<1> HIDE DEF left, right
<1>7. first[l] = IF l = s THEN longs[l] \cup left ELSE longs[l]
  BY <1>4
<1>8. DOMAIN first = 0..n - 1
  OBVIOUS
<1> HIDE DEF first
<1>9. second[l] = IF l = e THEN first[l] \cup right ELSE first[l]
  BY <1>4, <1>8
<1> HIDE DEF second
<1>10. CASE l = s
  <2>1. d = m - o
    BY <1>1, <1>10
  <2>2. Straddles(i, b) => l # e
    BY <1>1, <1>10
  <2> QED
    BY <1>3, <1>5, <1>7, <1>9, <1>10, <2>1, <2>2 DEF bits, y
<1>11. CASE l = s + 1
  <2>1. d = m + 64 - o
    BY <1>1, <1>11
  <2>2. ~Straddles(i, b) => d \notin bits
    <3>1. SUFFICES ASSUME ~Straddles(i, b), d \in bits PROVE FALSE
      OBVIOUS
    <3>2. o + b <= 64
      BY <1>1, <3>1
    <3>3. m + 64 - o \in 0..b - 1
      BY <1>2, <2>1, <3>1
    <3> HIDE DEF d
    <3> QED
      BY <1>1, <3>2, <3>3
  <2>3. l # s /\ (Straddles(i, b) => l = e)
    BY <1>1, <1>11
  <2> QED
    BY <1>3, <1>6, <1>7, <1>9, <2>1, <2>2, <2>3 DEF bits, y
<1>12. CASE l # s /\ l # s + 1
  <2>1. d \notin bits
    <3>1. SUFFICES ASSUME d \in bits PROVE FALSE
      OBVIOUS
    <3>2. d \in 0..b - 1
      BY <1>2, <3>1
    <3>3. 64 * l + m - 64 * s - o \in 0..b - 1
      BY <1>1, <3>2
    <3>4. l \in Int /\ l \in Nat
      OBVIOUS
    <3>5. l < s => 64 * l + 64 <= 64 * s
      BY <1>1, <3>4
    <3>6. l > s + 1 => 64 * l >= 64 * s + 128
      BY <1>1, <3>4
    <3> HIDE DEF d
    <3>7. CASE l < s
      BY <1>1, <3>3, <3>4, <3>5, <3>7
    <3>8. CASE l > s + 1
      BY <1>1, <3>3, <3>4, <3>6, <3>8
    <3> QED
      BY <1>1, <1>12, <3>4, <3>7, <3>8
  <2>2. Straddles(i, b) => l # e
    BY <1>1, <1>12
  <2> QED
    BY <1>3, <1>7, <1>9, <1>12, <2>1, <2>2 DEF bits, y
<1> QED
  BY <1>10, <1>11, <1>12

\* The long that a bit of block i is in is one of the block's two.
LEMMA BitIn ==
  ASSUME NEW b \in 4..8, NEW i \in Nat, NEW k \in 0..b - 1
  PROVE  /\ i * b + k \in Nat
         /\ (i * b + k) \div 64 \in {StartLong(i, b), EndLong(i, b)}
<1> DEFINE s == StartLong(i, b)
           e == EndLong(i, b)
           o == Offset(i, b)
           y == i * b
           x == y + k
<1>1. y \in Nat /\ y = 64 * s + o /\ s \in Nat /\ o \in 0..63
      /\ (Straddles(i, b) <=> o + b > 64) /\ (Straddles(i, b) => e = s + 1)
  BY BlockPos
<1> HIDE DEF s, e, o, y
<1>2. x \in Nat
  BY <1>1
<1>3. CASE o + k < 64
  <2> DEFINE r == o + k
  <2>1. r \in 0..63 /\ x = 64 * s + r
    BY <1>1, <1>3
  <2>2. x \div 64 = s
    <3> HIDE DEF x, r
    <3> QED
      BY <1>1, <1>2, <2>1, OnlyBy64
  <2> QED
    BY <1>2, <2>2 DEF s, y
<1>4. CASE o + k >= 64
  <2> DEFINE r == o + k - 64
             q == s + 1
  <2>1. r \in 0..63 /\ x = 64 * q + r /\ q \in Nat
    BY <1>1, <1>4
  <2>2. x \div 64 = q
    <3> HIDE DEF x, r, q
    <3> QED
      BY <1>2, <2>1, OnlyBy64
  <2>3. e = q
    BY <1>1, <1>4
  <2> QED
    BY <1>2, <2>2, <2>3 DEF e, y
<1> QED
  BY <1>1, <1>3, <1>4

\* WriteIs, told of the bits of all longs together.
LEMMA BitOfWrite ==
  ASSUME NEW b \in 4..8, NEW i \in Nat, NEW n \in Nat, NEW longs, DOMAIN longs = 0..n - 1,
         StartLong(i, b) \in 0..n - 1, EndLong(i, b) \in 0..n - 1, NEW v,
         NEW x \in Nat, x \div 64 \in 0..n - 1
  PROVE  BitOf(WriteAt(longs, i, b, v), x) <=>
           BitOf(longs, x) \/ x - i * b \in ToBits(v) \cap Mask(b)
<1> DEFINE l == x \div 64
           m == x % 64
           y == i * b
<1>1. x = 64 * l + m /\ l \in 0..n - 1 /\ m \in 0..63
  BY By64
<1>2. y \in Nat
  BY SMT
<1>3. BitOf(WriteAt(longs, i, b, v), x) <=> m \in WriteAt(longs, i, b, v)[l]
  BY DEF BitOf
<1>4. BitOf(longs, x) <=> m \in longs[l]
  BY DEF BitOf
<1> HIDE DEF l, m
<1>5. m \in WriteAt(longs, i, b, v)[l] <=>
        m \in longs[l] \/ 64 * l + m - i * b \in ToBits(v) \cap Mask(b)
  BY <1>1, WriteIs
<1>6. 64 * l + m - i * b = x - i * b
  BY <1>1, <1>2
<1> QED
  BY <1>3, <1>4, <1>5, <1>6

\* write_blockstate_at leaves longs of bits.
LEMMA WriteType ==
  ASSUME NEW n \in Nat, NEW longs \in [0..n - 1 -> SUBSET Bit], NEW i \in Nat,
         NEW b \in 4..8, NEW v
  PROVE  WriteAt(longs, i, b, v) \in [0..n - 1 -> SUBSET Bit]
<1> DEFINE s == StartLong(i, b)
           e == EndLong(i, b)
           o == Offset(i, b)
           bits == ToBits(v) \cap Mask(b)
           left == Left(bits, o)
           right == Right(bits, 64 - o)
           first == [longs EXCEPT ![s] = @ \cup left]
           second == [first EXCEPT ![e] = @ \cup right]
<1>1. left \subseteq Bit
  BY DEF Left
<1>2. bits \subseteq 0..7 /\ o \in 0..63
  <2>1. Mask(b) \subseteq 0..7
    BY DEF Mask
  <2>2. o \in 0..63
    BY BlockPos
  <2> QED
    BY <2>1, <2>2
<1>3. WriteAt(longs, i, b, v) = IF Straddles(i, b) THEN second ELSE first
  BY DEF WriteAt
<1> HIDE DEF bits, o, s, e
<1>4. right \subseteq Bit
  <2> DEFINE n1 == 64 - o
  <2>1. n1 \in 1..64
    BY <1>2
  <2> HIDE DEF n1
  <2>2. ASSUME NEW m \in bits, m >= n1 PROVE m - n1 \in 0..63
    BY <1>2, <2>1, <2>2
  <2>3. right = {m - n1 : m \in {k \in bits : k >= n1}}
    BY DEF Right, n1
  <2> QED
    BY <2>2, <2>3 DEF Bit
<1> HIDE DEF left, right
<1>5. first \in [0..n - 1 -> SUBSET Bit]
  BY <1>1
<1> HIDE DEF first
<1>6. second \in [0..n - 1 -> SUBSET Bit]
  BY <1>4, <1>5
<1> QED
  BY <1>3, <1>5, <1>6

\* The blocks a write may name: their longs are kept.
InLongs(i, b, n) == i \in Nat /\ StartLong(i, b) \in 0..n - 1 /\ EndLong(i, b) \in 0..n - 1

\* Blocks do not share a bit.
LEMMA BlocksApart ==
  ASSUME NEW b \in 4..8, NEW i \in Nat, NEW j \in Nat, NEW k \in 0..b - 1,
         j * b + k - i * b \in 0..b - 1
  PROVE  i = j /\ j * b + k - i * b = k
<1>1. b \in {4, 5, 6, 7, 8}
  OBVIOUS
<1>2. b = 4 => i = j
  OBVIOUS
<1>3. b = 5 => i = j
  OBVIOUS
<1>4. b = 6 => i = j
  OBVIOUS
<1>5. b = 7 => i = j
  OBVIOUS
<1>6. b = 8 => i = j
  OBVIOUS
<1>7. i = j
  BY <1>1, <1>2, <1>3, <1>4, <1>5, <1>6
<1>8. i * b \in Int
  BY SMT
<1> QED
  BY <1>7, <1>8

\* Writing a block adds the bits of the value to it, and changes no other block.
LEMMA ReadOfWrite ==
  ASSUME NEW b \in 4..8, NEW n \in Nat, NEW longs \in [0..n - 1 -> SUBSET Bit],
         NEW i, InLongs(i, b, n), NEW j, InLongs(j, b, n), NEW v
  PROVE  ReadAt(WriteAt(longs, i, b, v), j, b)
           = IF j = i THEN ReadAt(longs, j, b) \cup (ToBits(v) \cap Mask(b))
             ELSE ReadAt(longs, j, b)
<1> DEFINE new == WriteAt(longs, i, b, v)
           bits == ToBits(v) \cap Mask(b)
           wanted == IF j = i THEN ReadAt(longs, j, b) \cup bits ELSE ReadAt(longs, j, b)
<1>1. i \in Nat /\ j \in Nat
  BY DEF InLongs
<1>2. new \in [0..n - 1 -> SUBSET Bit]
  BY <1>1, WriteType
<1>3. Mask(b) = 0..b - 1
  BY DEF Mask
<1>4. ReadAt(new, j, b) \subseteq 0..b - 1 /\ ReadAt(longs, j, b) \subseteq 0..b - 1
      /\ bits \subseteq 0..b - 1
  BY <1>3 DEF ReadAt
<1>5. ASSUME NEW k \in 0..b - 1 PROVE k \in ReadAt(new, j, b) <=> k \in wanted
  <2> DEFINE x == j * b + k
             d == x - i * b
  <2>1. x \in Nat /\ x \div 64 \in 0..n - 1
    BY <1>1, BitIn DEF InLongs
  <2>2. BitOf(new, x) <=> BitOf(longs, x) \/ d \in bits
    <3> HIDE DEF x
    <3> QED
      BY <1>1, <2>1, BitOfWrite DEF InLongs
  <2>3. StartLong(j, b) \in 0..n - 1 /\ EndLong(j, b) \in 0..n - 1
    BY DEF InLongs
  <2>4. k \in ReadAt(new, j, b) <=> BitOf(new, x)
    <3>1. new[StartLong(j, b)] \subseteq Bit /\ new[EndLong(j, b)] \subseteq Bit
      <4> HIDE DEF new
      <4> QED
        BY <1>2, <2>3
    <3> HIDE DEF new
    <3> QED
      BY <1>1, <3>1, ReadIs
  <2>5. k \in ReadAt(longs, j, b) <=> BitOf(longs, x)
    <3>1. longs[StartLong(j, b)] \subseteq Bit /\ longs[EndLong(j, b)] \subseteq Bit
      BY <2>3
    <3> QED
      BY <1>1, <3>1, ReadIs
  <2>6. d \in bits => i = j /\ d = k
    BY <1>1, <1>4, BlocksApart
  <2>7. i = j => d = k
    <3>1. i * b \in Int
      BY <1>1, SMT
    <3> QED
      BY <3>1
  <2> HIDE DEF new, bits, x, d
  <2> QED
    BY <2>2, <2>4, <2>5, <2>6, <2>7
<1> HIDE DEF new, bits
<1>6. wanted \subseteq 0..b - 1
  BY <1>4
<1> HIDE DEF wanted
<1>7. ReadAt(new, j, b) = wanted
  BY <1>4, <1>5, <1>6
<1> QED
  BY <1>7 DEF new, bits, wanted

\* The three blocks at the boundary are in the longs that are kept.
LEMMA BlocksKept ==
  ASSUME NEW b \in 4..8, NEW n \in Nat, NEW l \in 1..n - 1,
         NEW i \in {(64 * l) \div b - 1, (64 * l) \div b, (64 * l) \div b + 1}
  PROVE  InLongs(i, b, n)
<1> DEFINE q == (64 * l) \div b
           s == StartLong(i, b)
           e == EndLong(i, b)
           o == Offset(i, b)
           y == i * b
<1>1. q \in Nat /\ q * b <= 64 * l /\ 64 * l < q * b + b
  <2>1. b \in {4, 5, 6, 7, 8} /\ 64 * l \in Nat
    OBVIOUS
  <2>2. b = 4 => q \in Nat /\ q * 4 <= 64 * l /\ 64 * l < q * 4 + 4
    OBVIOUS
  <2>3. b = 5 => q \in Nat /\ q * 5 <= 64 * l /\ 64 * l < q * 5 + 5
    OBVIOUS
  <2>4. b = 6 => q \in Nat /\ q * 6 <= 64 * l /\ 64 * l < q * 6 + 6
    OBVIOUS
  <2>5. b = 7 => q \in Nat /\ q * 7 <= 64 * l /\ 64 * l < q * 7 + 7
    OBVIOUS
  <2>6. b = 8 => q \in Nat /\ q * 8 <= 64 * l /\ 64 * l < q * 8 + 8
    OBVIOUS
  <2> HIDE DEF q
  <2> QED
    BY <2>1, <2>2, <2>3, <2>4, <2>5, <2>6
<1>2. i \in {q - 1, q, q + 1}
  OBVIOUS
<1> HIDE DEF q
<1>3. i \in Nat
  <2>1. q # 0
    BY <1>1
  <2> QED
    BY <1>1, <1>2, <2>1
<1>4. y \in Nat /\ y = 64 * s + o /\ s \in Nat /\ o \in 0..63
      /\ (Straddles(i, b) <=> o + b > 64) /\ (Straddles(i, b) => e = s + 1)
  BY <1>3, BlockPos
<1>5. y <= q * b + b /\ q * b \in Int
  <2>1. b \in {4, 5, 6, 7, 8}
    OBVIOUS
  <2> QED
    BY <1>1, <1>2, <2>1
<1>6. ~Straddles(i, b) => e = s
  BY DEF Straddles
<1> HIDE DEF y, s, e, o
<1>7. y <= 64 * l + b
  <2> DEFINE z == q * b
  <2>1. z \in Int /\ z <= 64 * l /\ y <= z + b
    BY <1>1, <1>5
  <2> HIDE DEF z
  <2> QED
    BY <1>4, <2>1
<1>8. s <= l
  BY <1>4, <1>7
<1>9. Straddles(i, b) => s + 1 <= l
  BY <1>4, <1>7
<1> QED
  BY <1>3, <1>4, <1>6, <1>8, <1>9 DEF InLongs, s, e

-----------------------------------------------------------------------------
LEMMA SectionBits ==
  ASSUME SectionTypeOK
  PROVE  /\ paletteLen \in 1..256 /\ Bits \in 4..8 /\ paletteLen <= Pow2[Bits]
         /\ Longs \in Nat /\ \A i \in Blocks : InLongs(i, Bits, Longs)
<1>1. paletteLen \in 1..256 /\ Longs \in Nat
  BY SectionAssumption DEF SectionTypeOK
<1>2. Bits \in 4..8 /\ paletteLen <= Pow2[Bits]
  BY <1>1, BitsAre DEF Bits
<1>3. ASSUME NEW i \in Blocks PROVE InLongs(i, Bits, Longs)
  <2> DEFINE b == Bits
  <2>1. i \in {(64 * boundary) \div b - 1, (64 * boundary) \div b, (64 * boundary) \div b + 1}
    BY DEF Blocks, Middle
  <2>2. boundary \in 1..Longs - 1
    BY DEF SectionTypeOK
  <2>3. b \in 4..8
    BY <1>2
  <2> HIDE DEF b
  <2>4. InLongs(i, b, Longs)
    BY <1>1, <2>1, <2>2, <2>3, BlocksKept
  <2> QED
    BY <2>4 DEF b
<1> QED
  BY <1>1, <1>2, <1>3

LEMMA SectionInitOK ==
  ASSUME SectionInit
  PROVE  SectionTypeOK
<1>1. PICK n \in PaletteLens, l \in 1..Longs - 1 : SectionFrom(n, l)
  BY DEF SectionInit
<1>2. PICK f : blockstates = Packed(f)
  BY <1>1 DEF SectionFrom
<1> DEFINE b == Bits
           none == [k \in 0..Longs - 1 |-> {}]
           first == WriteAt(none, Middle - 1, b, f[Middle - 1])
           second == WriteAt(first, Middle, b, f[Middle])
           third == WriteAt(second, Middle + 1, b, f[Middle + 1])
           T == [0..Longs - 1 -> SUBSET Bit]
<1>3. paletteLen \in 1..256 /\ Longs \in Nat /\ boundary \in 1..Longs - 1
  BY <1>1, SectionAssumption DEF SectionFrom
<1>4. b \in 4..8
  BY <1>3, BitsAre DEF Bits
<1>5. ASSUME NEW i \in {Middle - 1, Middle, Middle + 1} PROVE i \in Nat
  <2>1. i \in {(64 * boundary) \div b - 1, (64 * boundary) \div b, (64 * boundary) \div b + 1}
    BY <1>5 DEF Middle
  <2> HIDE DEF b
  <2>2. InLongs(i, b, Longs)
    BY <1>3, <1>4, <2>1, BlocksKept
  <2> QED
    BY <2>2 DEF InLongs
<1>6. Middle - 1 \in Nat /\ Middle \in Nat /\ Middle + 1 \in Nat
  BY <1>5
<1>7. none \in T
  OBVIOUS
<1>8. blockstates = third
  BY <1>2 DEF Packed
<1> HIDE DEF b, none, T
<1>9. first \in T
  BY <1>3, <1>4, <1>6, <1>7, WriteType DEF T
<1> HIDE DEF first
<1>10. second \in T
  BY <1>3, <1>4, <1>6, <1>9, WriteType DEF T
<1> HIDE DEF second
<1>11. third \in T
  BY <1>3, <1>4, <1>6, <1>10, WriteType DEF T
<1> QED
  BY <1>1, <1>8, <1>11 DEF T, SectionTypeOK, SectionFrom

LEMMA PlaceBlockStep ==
  ASSUME SectionTypeOK, NEW i \in Blocks, PlaceBlock(i)
  PROVE  /\ SectionTypeOK'
         /\ \A j \in Blocks \ {placed'} : Read(j)' = Read(j)
         /\ \A j \in Blocks :
              j = placed' /\ Read(j) = {} => Read(j)' = ToBits(paletteLen - 1)
<1> DEFINE b == Bits
           v == paletteLen - 1
           new == WriteAt(blockstates, i, b, v)
<1>1. /\ blockstates' = new /\ placed' = i
      /\ paletteLen' = paletteLen /\ boundary' = boundary
  BY DEF PlaceBlock
<1>2. Bits' = b /\ Middle' = Middle
  BY <1>1 DEF Bits, Middle
<1>3. Blocks' = Blocks
  BY <1>2 DEF Blocks
<1>4. /\ b \in 4..8 /\ paletteLen \in 1..256 /\ paletteLen <= Pow2[b] /\ Longs \in Nat
      /\ \A j \in Blocks : InLongs(j, b, Longs)
  BY SectionBits
<1>5. blockstates \in [0..Longs - 1 -> SUBSET Bit]
  BY DEF SectionTypeOK
<1> HIDE DEF b
<1>6. new \in [0..Longs - 1 -> SUBSET Bit]
  <2>1. i \in Nat
    BY <1>4 DEF InLongs
  <2> QED
    BY <1>4, <1>5, <2>1, WriteType
<1>7. SectionTypeOK'
  <2> HIDE DEF new
  <2> QED
    BY <1>1, <1>3, <1>6 DEF SectionTypeOK
<1>8. ASSUME NEW j \in Blocks
      PROVE  ReadAt(new, j, b)
               = IF j = i THEN ReadAt(blockstates, j, b) \cup (ToBits(v) \cap Mask(b))
                 ELSE ReadAt(blockstates, j, b)
  <2> HIDE DEF v
  <2> QED
    BY <1>4, <1>5, ReadOfWrite
<1>9. ToBits(v) \cap Mask(b) = ToBits(v)
  <2>1. Mask(b) = 0..b - 1
    BY <1>4 DEF Mask
  <2>2. v \in Nat /\ v < Pow2[b]
    <3>1. b \in {4, 5, 6, 7, 8}
      BY <1>4
    <3> QED
      BY <1>4, <3>1, Powers
  <2>3. ToBits(v) \subseteq 0..b - 1
    <3> HIDE DEF v
    <3> QED
      BY <1>4, <2>2, NoBitAbove
  <2> QED
    BY <2>1, <2>3
<1>10. ASSUME NEW j \in Blocks PROVE Read(j)' = ReadAt(new, j, b) /\ Read(j) = ReadAt(blockstates, j, b)
  BY <1>1, <1>2 DEF Read, b
<1> HIDE DEF new, v
<1>11. \A j \in Blocks \ {placed'} : Read(j)' = Read(j)
  BY <1>1, <1>8, <1>10
<1>12. ASSUME NEW j \in Blocks, j = placed', Read(j) = {} PROVE Read(j)' = ToBits(v)
  BY <1>1, <1>8, <1>9, <1>10, <1>12
<1> QED
  BY <1>7, <1>11, <1>12 DEF v

LEMMA SectionStep ==
  ASSUME SectionTypeOK, [SectionNext]_sectionVars
  PROVE  SectionTypeOK'
<1>1. CASE SectionNext
  BY <1>1, PlaceBlockStep DEF SectionNext
<1>2. CASE UNCHANGED sectionVars
  <2>1. Blocks' = Blocks
    BY <1>2 DEF sectionVars, Blocks, Middle, Bits
  <2> QED
    BY <1>2, <2>1 DEF sectionVars, SectionTypeOK
<1> QED
  BY <1>1, <1>2

\* What a section keeps (anvil_get_blockstate, act_player_block_placement).
THEOREM SectionInvariant == SectionSpec => []SectionTypeOK
<1>1. SectionInit => SectionTypeOK
  BY SectionInitOK
<1>2. SectionTypeOK /\ [SectionNext]_sectionVars => SectionTypeOK'
  BY SectionStep
<1> QED
  BY <1>1, <1>2, PTL DEF SectionSpec

LEMMA EndIn ==
  ASSUME NEW b \in 4..8, NEW i \in AllBlocks
  PROVE  EndLong(i, b) \in 0..BlockstatesLen(b) - 1
<1> DEFINE s == StartLong(i, b)
           e == EndLong(i, b)
           o == Offset(i, b)
           y == i * b
           len == BlockstatesLen(b)
<1>1. i \in Nat /\ i <= 4095
  BY DEF AllBlocks
<1>2. y \in Nat /\ y = 64 * s + o /\ s \in Nat /\ o \in 0..63
      /\ (Straddles(i, b) <=> o + b > 64) /\ (Straddles(i, b) => e = s + 1)
  <2>1. i \in Nat
    BY <1>1
  <2> QED
    BY <2>1, BlockPos
<1>3. ~Straddles(i, b) => e = s
  BY DEF Straddles
<1>4. y <= 4095 * b
  <2>1. b \in {4, 5, 6, 7, 8}
    OBVIOUS
  <2> QED
    BY <1>1, <2>1
<1>5. len = 64 * b
  <2>1. b \in {4, 5, 6, 7, 8}
    OBVIOUS
  <2> QED
    BY <2>1 DEF BlockstatesLen
<1> HIDE DEF s, e, o, y, len
<1>6. s <= 64 * b - 1
  BY <1>2, <1>4
<1>7. Straddles(i, b) => s + 1 <= 64 * b - 1
  BY <1>2, <1>4
<1>8. e \in 0..len - 1
  BY <1>2, <1>3, <1>5, <1>6, <1>7
<1> QED
  BY <1>8 DEF e, len

\* Both longs of each of the 4096 blocks are in the array of the section, whatever
\* the length of its palette (read_blockstate_at, write_blockstate_at).
THEOREM SectionStaysInBounds == SectionSpec => []InBounds
<1>1. SectionTypeOK => InBounds
  <2>0. SUFFICES ASSUME SectionTypeOK PROVE InBounds
    OBVIOUS
  <2>1. Bits \in 4..8
    BY <2>0, SectionBits
  <2> QED
    BY <2>1, EndIn DEF InBounds
<1> QED
  BY <1>1, SectionInvariant, PTL

\* Placing a block changes no other block, and a block that was the first entry of
\* the palette reads as the last one (write_blockstate_at, read_blockstate_at).
THEOREM SectionPlacesOneBlock == SectionSpec => PlacesOneBlock
<1> DEFINE A == /\ \A i \in Blocks \ {placed'} : Read(i)' = Read(i)
                /\ \A i \in Blocks :
                     i = placed' /\ Read(i) = {} => Read(i)' = ToBits(paletteLen - 1)
<1>1. SectionTypeOK /\ [SectionNext]_sectionVars => [A]_sectionVars
  BY PlaceBlockStep DEF SectionNext
<1> QED
  BY <1>1, SectionInvariant, PTL DEF SectionSpec, PlacesOneBlock

=============================================================================
