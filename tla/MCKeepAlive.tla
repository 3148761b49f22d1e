----------------------------- MODULE MCKeepAlive -----------------------------
(***************************************************************************)
(* Answers that come at once, shortly before and just as the next ping     *)
(* falls due, and long after; ticks that follow each other within a second,*)
(* and stalls.                                                             *)
(***************************************************************************)
EXTENDS KeepAlive

MCDelays == {0, 3, 4, 12}

MCGaps == {1, 3, 25}
=============================================================================
