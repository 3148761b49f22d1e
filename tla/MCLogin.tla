------------------------------- MODULE MCLogin -------------------------------
(***************************************************************************)
(* Two names and two secrets, each name known with one of them.            *)
(***************************************************************************)
EXTENDS Login

MCSessions == {<<"alice", "s1">>, <<"bob", "s2">>}
=============================================================================
