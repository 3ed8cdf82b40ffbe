-------------------------- MODULE ToolCallContract --------------------------
(***************************************************************************)
(* What the daemon promises the maker of a tool call, whatever happens to  *)
(* the channel in between: the tool is started in the task pane at most    *)
(* once, a verdict is given once and never taken back, a call is answered  *)
(* only with the outcome of its own execution, and SESSION_LOST is said    *)
(* only of a call that never reached the pane (so that it may be retried). *)
(* ToolInvocation implements this contract.                                *)
(***************************************************************************)
CONSTANT Calls

VARIABLES
  made,      \* the calls handed to the connection hub
  started,   \* the calls a pane has started
  ended,     \* the calls whose execution, or whose refusal, has an outcome
  verdict    \* what the caller was told: none, answered, timeout, lost

contractVars == <<made, started, ended, verdict>>

ContractInit ==
  /\ made = {}
  /\ started = {}
  /\ ended = {}
  /\ verdict = [k \in Calls |-> "none"]

Make(k) ==
  /\ k \notin made
  /\ verdict[k] = "none"
  /\ made' = made \cup {k}
  /\ UNCHANGED <<started, ended, verdict>>

\* The runtime has no connection: the call fails before it is sent.
Lose(k) ==
  /\ k \notin made
  /\ verdict[k] = "none"
  /\ verdict' = [verdict EXCEPT ![k] = "lost"]
  /\ UNCHANGED <<made, started, ended>>

\* At most once, possibly after the caller has given up.
Start(k) ==
  /\ k \in made
  /\ k \notin started
  /\ started' = started \cup {k}
  /\ UNCHANGED <<made, ended, verdict>>

\* The pane refuses the call on arrival, which is its one execution.
Refuse(k) ==
  /\ k \in made
  /\ k \notin started
  /\ started' = started \cup {k}
  /\ ended' = ended \cup {k}
  /\ UNCHANGED <<made, verdict>>

End(k) ==
  /\ k \in started
  /\ k \notin ended
  /\ ended' = ended \cup {k}
  /\ UNCHANGED <<made, started, verdict>>

Answer(k) ==
  /\ k \in ended
  /\ verdict[k] = "none"
  /\ verdict' = [verdict EXCEPT ![k] = "answered"]
  /\ UNCHANGED <<made, started, ended>>

\* A timeout says nothing of what the pane did.
TimeOut(k) ==
  /\ k \in made
  /\ verdict[k] = "none"
  /\ verdict' = [verdict EXCEPT ![k] = "timeout"]
  /\ UNCHANGED <<made, started, ended>>

ContractNext ==
  \E k \in Calls :
    Make(k) \/ Lose(k) \/ Start(k) \/ Refuse(k) \/ End(k) \/ Answer(k) \/ TimeOut(k)

ContractSpec == ContractInit /\ [][ContractNext]_contractVars
=============================================================================
