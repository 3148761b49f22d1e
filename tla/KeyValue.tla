------------------------------ MODULE KeyValue ------------------------------
(***************************************************************************)
(* What hashmap.h promises: a key has the value it was added with until it *)
(* is removed.                                                             *)
(***************************************************************************)
CONSTANTS Key, Value, None

VARIABLE map

Init == map = [k \in Key |-> None]

\* No key but this one has another value.
Others(k) == \A j \in Key \ {k} : map'[j] = map[j]

Add(k, v) == map[k] = None /\ map'[k] = v /\ Others(k)

Remove(k) == map[k] # None /\ map'[k] = None /\ Others(k)

Next == \E k \in Key : Remove(k) \/ \E v \in Value : Add(k, v)

Spec == Init /\ [][Next]_map
=============================================================================
