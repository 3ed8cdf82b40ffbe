-------------------------- MODULE MCAddinReconnect --------------------------
(* AddinReconnect for TLC: task panes with a session id each. *)
EXTENDS AddinReconnect, TLC

CONSTANTS i1, i2, s1, s2

OnePane == {i1}
OneSession == {s1}
OneSessionOf == i1 :> s1

TwoPanes == {i1, i2}
TwoSessions == {s1, s2}
TwoSessionOf == (i1 :> s1) @@ (i2 :> s2)

ConnSymmetry == Permutations(Conns)
=============================================================================
