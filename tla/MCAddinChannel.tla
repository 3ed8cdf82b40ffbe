--------------------------- MODULE MCAddinChannel ---------------------------
(* AddinChannel for TLC: two task panes that present the same session id,  *)
(* and a third with one of its own.                                        *)
EXTENDS AddinChannel, TLC

CONSTANTS i1, i2, i3, s1, s2

MCInstances == {i1, i2, i3}
MCSessions == {s1, s2}
MCSessionOf == (i1 :> s1) @@ (i2 :> s1) @@ (i3 :> s2)

\* Connections are interchangeable, and so are the panes that share a session
\* (safety runs only).
MCSymmetry == Permutations(Conns) \cup Permutations({i1, i2})
=============================================================================
