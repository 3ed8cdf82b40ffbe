-------------------------- MODULE MCCommandRouter --------------------------
(* CommandRouter for TLC: a client's own request id is one that the router *)
(* mints too, for its second request without an id.                        *)
EXTENDS CommandRouter

MCChosenIds == {<<"request", 2>>}
=============================================================================
