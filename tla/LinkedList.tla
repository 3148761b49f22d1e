----------------------------- MODULE LinkedList -----------------------------
(***************************************************************************)
(* libs/list: a singly linked list that ends in an empty node and is       *)
(* changed in place, with the cursor by which main and server_send_messages*)
(* walk it.                                                                *)
(*                                                                         *)
(* Nodes are copied so that the pointers the caller holds stay valid: an   *)
(* element is removed by copying the next node over its own, and added at  *)
(* the end by turning the empty node into the new element.                 *)
(***************************************************************************)
EXTENDS Integers, FiniteSets, Sequences

CONSTANTS
  Node, \* addresses
  Item,
  Null

\* struct list.
Cell == [data : Item \cup {Null}, next : Node \cup {Null}]

EmptyCell == [data |-> Null, next |-> Null]

\* A null pointer is neither an address nor an element, nor what is at an address.
ASSUME ListAssumption ==
  /\ IsFiniteSet(Node)
  /\ Null \notin Node \cup Item \cup Cell

VARIABLES
  heap,  \* address |-> [data, next], or Null when it is not allocated
  head,  \* the list
  cursor \* a node of the list

listVars == <<heap, head, cursor>>

ListTypeOK ==
  /\ heap \in [Node -> Cell \cup {Null}]
  /\ head \in Node /\ cursor \in Node

\* list_new
NewList(h) ==
  /\ head = h /\ cursor = h
  /\ heap = [n \in Node |-> IF n = h THEN EmptyCell ELSE Null]

ListInit == \E h \in Node : NewList(h)

-----------------------------------------------------------------------------
Allocated == {n \in Node : heap[n] # Null}

ListEmpty(n) == heap[n] = EmptyCell

NextOf(n) == heap[n].next

\* The node k steps from n, Null beyond the end.
Steps(n) ==
  LET walk[k \in 0..Cardinality(Node)] ==
        IF k = 0 THEN n
        ELSE IF walk[k - 1] \in Allocated THEN NextOf(walk[k - 1]) ELSE Null
  IN walk

\* list_len
ListLen(n) == CHOOSE k \in DOMAIN Steps(n) :
                Steps(n)[k] \in Allocated /\ ListEmpty(Steps(n)[k])

Nodes(n) == {Steps(n)[k] : k \in 0..ListLen(n)}

Items(n) == [i \in 1..ListLen(n) |-> heap[Steps(n)[i - 1]].data]

\* list_prepend: the element takes the place of node n, whose content moves to
\* the new node tmp.
Prepend(n, tmp, x) ==
  heap' = [heap EXCEPT ![tmp] = heap[n], ![n] = [data |-> x, next |-> tmp]]

\* Mistake: prepends at the head.
ListAppendFront(x, tmp) ==
  /\ tmp \notin Allocated
  /\ Prepend(head, tmp, x)
  /\ UNCHANGED <<head, cursor>>

\* list_append prepends at the empty node.
ListAppend(x, tmp) ==
  /\ tmp \notin Allocated
  /\ Prepend(Steps(head)[ListLen(head)], tmp, x)
  /\ UNCHANGED <<head, cursor>>

\* Mistake: the node that was copied is not freed.
ListRemoveLeaks ==
  /\ ~ListEmpty(cursor)
  /\ heap' = [heap EXCEPT ![cursor] = heap[NextOf(cursor)]]
  /\ UNCHANGED <<head, cursor>>

\* list_remove at the cursor.
ListRemove ==
  /\ ~ListEmpty(cursor)
  /\ heap' = [heap EXCEPT ![cursor] = heap[NextOf(cursor)],
                          ![NextOf(cursor)] = Null]
  /\ UNCHANGED <<head, cursor>>

\* Mistake: the end is not tested.
ListNextUnguarded ==
  /\ cursor' = NextOf(cursor)
  /\ UNCHANGED <<heap, head>>

\* The callers test for the end first.
ListNext ==
  /\ ~ListEmpty(cursor)
  /\ cursor' = NextOf(cursor)
  /\ UNCHANGED <<heap, head>>

Restart == cursor' = head /\ UNCHANGED <<heap, head>>

ListStep ==
  \/ ListRemove
  \/ ListNext
  \/ Restart
  \/ \E x \in Item, tmp \in Node : ListAppend(x, tmp)

ListSpec == ListInit /\ [][ListStep]_listVars

-----------------------------------------------------------------------------
\* The list can be walked, extended and thinned out at the cursor in any order:
\* no element is skipped, met twice or lost, also when the last one is removed
\* under the cursor or one is added while the cursor is at the end.
Passed == SubSeq(Items(head), 1, ListLen(head) - ListLen(cursor))

Walked == INSTANCE Walk WITH done <- Passed, todo <- Items(cursor)

ListIsWalk == Walked!Spec

\* Every allocated node is in the list, and the cursor too: nothing leaks, and
\* no pointer dangles after list_remove freed a node.
NothingLeaks == Allocated = Nodes(head) /\ cursor \in Nodes(head)
=============================================================================
