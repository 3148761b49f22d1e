----------------------------- MODULE Visibility -----------------------------
(***************************************************************************)
(* What the server promises about chunks: every player sees nothing or the *)
(* view around one place, and the chunks kept for players are the ones     *)
(* that some player sees.  How chunks are counted is not said here.        *)
(***************************************************************************)
CONSTANTS Player, Views

VARIABLES sees, kept

vars == <<sees, kept>>

Seen(f) == UNION {f[c] : c \in Player}

Init == sees = [c \in Player |-> {}] /\ kept = {}

\* The player joined, or its view moved.
Show(c, view) ==
  sees' = [sees EXCEPT ![c] = view] /\ kept' = Seen(sees')

\* The player is gone.
Hide(c) == sees' = [sees EXCEPT ![c] = {}] /\ kept' = Seen(sees')

Next == \E c \in Player : Hide(c) \/ \E view \in Views : Show(c, view)

Spec == Init /\ [][Next]_vars
=============================================================================
