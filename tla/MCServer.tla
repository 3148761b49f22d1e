------------------------------ MODULE MCServer ------------------------------
EXTENDS Server, TLC

\* Three places in a corner, so that views overlap in rows and in columns.
Corner == {<<0, 0>>, <<1, 0>>, <<1, 1>>}

\* Far enough apart that views around the ends do not meet.
Line == {<<0, 0>>, <<1, 0>>, <<3, 0>>}

Origin == <<0, 0>>

\* One chunk in the view of the spawn and one outside it, both in the middle
\* of the order in which views are visited.
Gap == {<<0, 1>>, <<2, 1>>}

NoChunk == {}

ConnSymmetry == Permutations(Conn)
=============================================================================
