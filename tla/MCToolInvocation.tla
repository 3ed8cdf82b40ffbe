-------------------------- MODULE MCToolInvocation --------------------------
(* ToolInvocation for TLC: one pane and three calls.  Two of the calls come *)
(* from clients that number their requests alike.                           *)
EXTENDS ToolInvocation, TLC

CONSTANTS i1, k1, k2, k3, r1, r2

MCInstances == {i1}
MCCalls == {k1, k2, k3}
MCRequests == {r1, r2}
MCTargetOf == [k \in MCCalls |-> i1]
MCIdOf == k1 :> r1 @@ k2 :> r1 @@ k3 :> r2
=============================================================================
