--------------------------- MODULE MCStdioBridge ---------------------------
(***************************************************************************)
(* A bridge, the sessions command and an HTTP client on one machine.       *)
(***************************************************************************)
EXTENDS StdioBridge

MCClients == Bridges \cup Commands \cup HttpClients
MCSourceOf == [c \in MCClients |-> "127.0.0.1"]
=============================================================================
