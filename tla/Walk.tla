-------------------------------- MODULE Walk --------------------------------
(***************************************************************************)
(* A list that is walked while it changes: what Server takes for granted   *)
(* of the list of connections, and Chat of a queue.                        *)
(***************************************************************************)
EXTENDS Sequences

CONSTANT Item

VARIABLES done, todo

Init == done = <<>> /\ todo = <<>>

Add(x) == todo' = Append(todo, x) /\ UNCHANGED done

Drop == todo # <<>> /\ todo' = Tail(todo) /\ UNCHANGED done

Pass ==
  /\ todo # <<>>
  /\ done' = Append(done, Head(todo)) /\ todo' = Tail(todo)

Again == todo' = done \o todo /\ done' = <<>>

Next == Drop \/ Pass \/ Again \/ \E x \in Item : Add(x)

Spec == Init /\ [][Next]_<<done, todo>>
=============================================================================
