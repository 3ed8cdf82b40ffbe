--------------------------- MODULE ToolInvocation ---------------------------
(***************************************************************************)
(* One tool call after another from the daemon's MCP thread to the task    *)
(* panes and back: AddinConnectionHub::invoke with its pending table and   *)
(* condition variable (addin_mgr/connection_hub.rs), the cancel sent after *)
(* a timeout (runtime/mcp_forwarded_tool.rs), the connection threads that  *)
(* drain outbound payloads and read answers (runtime/websocket_session.rs) *)
(* and the pane's invokeTool with its set of cancelled requests            *)
(* (office-ctl/*/public/taskpane.js, common/task-history.js).              *)
(*                                                                         *)
(* The MCP thread serves one request at a time, so at most one call waits. *)
(* A call that has timed out, though, may still be queued, on the wire, or *)
(* executing in the pane while the next one is made.                       *)
(*                                                                         *)
(* A pane has one connection at a time here (how connections replace one   *)
(* another is AddinReconnect's subject), so the hub's connection entry and *)
(* its binding are up[i], and the queues are indexed by pane.              *)
(***************************************************************************)
EXTENDS Sequences, Naturals, FiniteSets

CONSTANTS
  Calls,      \* the tool calls clients make
  Instances,  \* add-in runtimes
  Requests,   \* request ids
  TargetOf,   \* the runtime whose session the call names
  IdOf,       \* the request id the call travels under: the id of the
              \* client's own JSON-RPC request when it is a string, else one
              \* minted by the command router
  Absent,     \* pending: no entry for the request id
  Vacant      \* pending: an entry without an answer

Outcomes == {"ok", "failed", "cancelled"}
Answers == [call : Calls, outcome : Outcomes]

\* What a call can be told: an answer, or something of the daemon's own.
Verdicts == [call : Calls, outcome : Outcomes \cup {"nothing", "timeout", "lost"}]
Own(k, what) == [call |-> k, outcome |-> what]

ASSUME InvocationAssumption ==
  /\ TargetOf \in [Calls -> Instances]
  /\ IdOf \in [Calls -> Requests]
  /\ Absent \notin Answers
  /\ Vacant \notin Answers
  /\ Absent # Vacant

VARIABLES
  up,         \* the hub has a connection bound to the runtime
  outbound,   \* payloads queued in the hub for the connection
  wire,       \* payloads written to the socket, not yet read by the pane
  replies,    \* answers sent by the pane, not yet read by the connection
  pending,    \* AddinConnectionHubState.pending
  caller,     \* of a call: idle, waiting in invoke, cancelling, done
  told,       \* of a call: what invoke returned
  notified,   \* response_available was signalled since the waiter last looked
  expired,    \* the call's deadline has passed
  running,    \* invokeTool executions under way in the pane
  cancelled,  \* TaskHistoryStore.cancelledRequests of the pane
  started,    \* history: calls the pane has begun to handle
  ended       \* history: calls the pane has an outcome for

hubVars == <<up, outbound, pending>>
callVars == <<caller, told, notified, expired>>
paneVars == <<wire, replies, running, cancelled, started, ended>>
vars == <<hubVars, callVars, paneVars>>

Payloads == [kind : {"invoke", "cancel"}, call : Calls]

\* The types of the variables; an entry of the pending table only ever holds
\* what a pane answered.
TypeOK ==
  /\ up \in [Instances -> BOOLEAN]
  /\ outbound \in [Instances -> Seq(Payloads)]
  /\ wire \in [Instances -> Seq(Payloads)]
  /\ replies \in [Instances -> Seq(Answers)]
  /\ pending \in [Requests -> Answers \cup {Absent, Vacant}]
  /\ caller \in [Calls -> {"idle", "waiting", "cancelling", "done"}]
  /\ told \in [Calls -> Verdicts]
  /\ notified \in BOOLEAN
  /\ expired \subseteq Calls
  /\ running \in [Instances -> SUBSET Calls]
  /\ cancelled \in [Instances -> SUBSET Requests]
  /\ started \subseteq Calls
  /\ ended \subseteq Calls

Init ==
  /\ up = [i \in Instances |-> FALSE]
  /\ outbound = [i \in Instances |-> <<>>]
  /\ wire = [i \in Instances |-> <<>>]
  /\ replies = [i \in Instances |-> <<>>]
  /\ pending = [r \in Requests |-> Absent]
  /\ caller = [k \in Calls |-> "idle"]
  /\ told = [k \in Calls |-> Own(k, "nothing")]
  /\ notified = FALSE
  /\ expired = {}
  /\ running = [i \in Instances |-> {}]
  /\ cancelled = [i \in Instances |-> {}]
  /\ started = {}
  /\ ended = {}

-----------------------------------------------------------------------------
(* The MCP thread *)

ThreadIsFree == \A k \in Calls : caller[k] \in {"idle", "done"}

\* The caller's verdict; the command router records it and the response goes
\* out (module CommandRouter).
Return(k, what) ==
  /\ told' = [told EXCEPT ![k] = what]
  /\ caller' = [caller EXCEPT ![k] = IF what.outcome = "timeout" THEN "cancelling" ELSE "done"]

\* invoke, no connection bound to the runtime: SESSION_LOST.
InvokeRefused(k) ==
  /\ caller[k] = "idle" /\ ThreadIsFree
  /\ ~up[TargetOf[k]]
  /\ Return(k, Own(k, "lost"))
  /\ UNCHANGED <<hubVars, notified, expired, paneVars>>

\* invoke: the payload is queued, the pending entry is made (an entry of the
\* same id is overwritten), and the thread goes to wait in the same critical
\* section.
Invoke(k) ==
  /\ caller[k] = "idle" /\ ThreadIsFree
  /\ up[TargetOf[k]]
  /\ outbound' = [outbound EXCEPT ![TargetOf[k]] =
                    Append(@, [kind |-> "invoke", call |-> k])]
  /\ pending' = [pending EXCEPT ![IdOf[k]] = Vacant]
  /\ caller' = [caller EXCEPT ![k] = "waiting"]
  /\ notified' = FALSE
  /\ UNCHANGED <<up, told, expired, paneVars>>

DeadlinePasses(k) ==
  /\ caller[k] = "waiting"
  /\ k \notin expired
  /\ expired' = expired \cup {k}
  /\ UNCHANGED <<hubVars, caller, told, notified, paneVars>>

\* Faulty variant of TakeAnswer: the answer is read and not removed.
PeekAnswer(k) ==
  /\ caller[k] = "waiting" /\ notified
  /\ pending[IdOf[k]] \in Answers
  /\ Return(k, pending[IdOf[k]])
  /\ UNCHANGED <<hubVars, notified, expired, paneVars>>

\* The wait ends by a notification and there is an answer.
TakeAnswer(k) ==
  /\ caller[k] = "waiting" /\ notified
  /\ pending[IdOf[k]] \in Answers
  /\ Return(k, pending[IdOf[k]])
  /\ pending' = [pending EXCEPT ![IdOf[k]] = Absent]
  /\ UNCHANGED <<up, outbound, notified, expired, paneVars>>

\* The wait ends by a notification, there is no answer, and time is left.
WaitAgain(k) ==
  /\ caller[k] = "waiting" /\ notified
  /\ pending[IdOf[k]] \notin Answers
  /\ k \notin expired
  /\ notified' = FALSE
  /\ UNCHANGED <<hubVars, caller, told, expired, paneVars>>

\* Faulty variant of GiveUp: SESSION_LOST whenever the connection is gone by
\* then, although the tool may be running.
GiveUpAsLost(k) ==
  /\ caller[k] = "waiting" /\ notified
  /\ pending[IdOf[k]] \notin Answers
  /\ k \in expired
  /\ Return(k, Own(k, IF up[TargetOf[k]] THEN "timeout" ELSE "lost"))
  /\ UNCHANGED <<hubVars, notified, expired, paneVars>>

\* The same with no time left: Timeout by the early return, which leaves the
\* pending entry where it is.
GiveUp(k) ==
  /\ caller[k] = "waiting" /\ notified
  /\ pending[IdOf[k]] \notin Answers
  /\ k \in expired
  /\ Return(k, Own(k, "timeout"))
  /\ UNCHANGED <<hubVars, notified, expired, paneVars>>

\* Faulty variant of WaitTimedOut: a wait without a timeout of its own, which
\* looks at the clock only when it is notified.
WaitForNotification(k) ==
  /\ notified
  /\ caller[k] = "waiting"
  /\ k \in expired
  /\ pending' = [pending EXCEPT ![IdOf[k]] = Absent]
  /\ Return(k, Own(k, "timeout"))
  /\ UNCHANGED <<up, outbound, notified, expired, paneVars>>

\* The wait itself times out: the entry is removed, unread, even when the
\* answer got into it before the thread had the lock again.
WaitTimedOut(k) ==
  /\ caller[k] = "waiting"
  /\ k \in expired
  /\ pending' = [pending EXCEPT ![IdOf[k]] = Absent]
  /\ Return(k, Own(k, "timeout"))
  /\ UNCHANGED <<up, outbound, notified, expired, paneVars>>

\* send_timeout_cancel, in a critical section of its own; nothing is sent to
\* a runtime that has no connection by now.
SendCancel(k) ==
  /\ caller[k] = "cancelling"
  /\ caller' = [caller EXCEPT ![k] = "done"]
  /\ outbound' = IF up[TargetOf[k]]
                 THEN [outbound EXCEPT ![TargetOf[k]] =
                         Append(@, [kind |-> "cancel", call |-> k])]
                 ELSE outbound
  /\ notified' = (notified \/ up[TargetOf[k]])
  /\ UNCHANGED <<up, pending, told, expired, paneVars>>

-----------------------------------------------------------------------------
(* The connection's thread *)

\* Faulty variant of Drain: the queue is copied and not emptied.
DrainCopy(i) ==
  /\ up[i]
  /\ outbound[i] # <<>>
  /\ wire' = [wire EXCEPT ![i] = @ \o outbound[i]]
  /\ UNCHANGED <<hubVars, callVars, replies, running, cancelled, started, ended>>

\* take_outbound: everything queued is written, in order.
Drain(i) ==
  /\ up[i]
  /\ outbound[i] # <<>>
  /\ wire' = [wire EXCEPT ![i] = @ \o outbound[i]]
  /\ outbound' = [outbound EXCEPT ![i] = <<>>]
  /\ UNCHANGED <<up, pending, callVars, replies, running, cancelled, started, ended>>

\* Faulty variants of Complete: the waiter is not woken, and an answer goes to
\* any entry that waits for one, without a look at its id.
CompleteSilently(i) ==
  /\ up[i]
  /\ replies[i] # <<>>
  /\ LET r == IdOf[Head(replies[i]).call]
     IN pending' = IF pending[r] = Absent THEN pending
                   ELSE [pending EXCEPT ![r] = Head(replies[i])]
  /\ replies' = [replies EXCEPT ![i] = Tail(@)]
  /\ UNCHANGED <<up, outbound, callVars, wire, running, cancelled, started, ended>>
CompleteAny(i) ==
  /\ up[i]
  /\ replies[i] # <<>>
  /\ \E r \in Requests :
       /\ pending[r] = Vacant
       /\ pending' = [pending EXCEPT ![r] = Head(replies[i])]
  /\ notified' = TRUE
  /\ replies' = [replies EXCEPT ![i] = Tail(@)]
  /\ UNCHANGED <<up, outbound, caller, told, expired, wire, running, cancelled, started, ended>>

\* complete_from_text: an answer fills the entry of its request id and wakes
\* the waiter; with no entry for the id it is dropped.
Complete(i) ==
  /\ up[i]
  /\ replies[i] # <<>>
  /\ LET r == IdOf[Head(replies[i]).call]
     IN IF pending[r] = Absent
        THEN UNCHANGED <<pending, notified>>
        ELSE /\ pending' = [pending EXCEPT ![r] = Head(replies[i])]
             /\ notified' = TRUE
  /\ replies' = [replies EXCEPT ![i] = Tail(@)]
  /\ UNCHANGED <<up, outbound, caller, told, expired, wire, running, cancelled, started, ended>>

\* The hub's remove_connection: what was queued or under way is gone and the
\* waiter is woken; the pending entries stay as they are.
Disconnect(i) ==
  /\ up[i]
  /\ up' = [up EXCEPT ![i] = FALSE]
  /\ outbound' = [outbound EXCEPT ![i] = <<>>]
  /\ wire' = [wire EXCEPT ![i] = <<>>]
  /\ replies' = [replies EXCEPT ![i] = <<>>]
  /\ notified' = TRUE
  /\ UNCHANGED <<pending, caller, told, expired, running, cancelled, started, ended>>

\* The pane dials again and registers; its own state has survived.
Connect(i) ==
  /\ ~up[i]
  /\ up' = [up EXCEPT ![i] = TRUE]
  /\ UNCHANGED <<outbound, pending, callVars, paneVars>>

-----------------------------------------------------------------------------
(* The pane *)

\* reply() on the pane's socket of the moment, or nowhere.
Reply(i, k, outcome) ==
  replies' = IF up[i]
             THEN [replies EXCEPT ![i] = Append(@, Own(k, outcome))]
             ELSE replies

NextPayload(i, kind) == wire[i] # <<>> /\ Head(wire[i]).kind = kind

\* tool.invoke: the tool starts, next to whatever is still running.
StartTool(i) ==
  /\ NextPayload(i, "invoke")
  /\ LET k == Head(wire[i]).call
     IN /\ IdOf[k] \notin cancelled[i]
        /\ running' = [running EXCEPT ![i] = @ \cup {k}]
        /\ started' = started \cup {k}
  /\ wire' = [wire EXCEPT ![i] = Tail(@)]
  /\ UNCHANGED <<hubVars, callVars, replies, cancelled, ended>>

\* tool.invoke under an id that is in the cancelled set: refused at once, as
\* cancelled, or as a failure when the user has disabled the tool; the id stays
\* in the set.
RefuseTool(i) ==
  /\ NextPayload(i, "invoke")
  /\ LET k == Head(wire[i]).call
     IN /\ IdOf[k] \in cancelled[i]
        /\ \E outcome \in {"failed", "cancelled"} : Reply(i, k, outcome)
        /\ started' = started \cup {k}
        /\ ended' = ended \cup {k}
  /\ wire' = [wire EXCEPT ![i] = Tail(@)]
  /\ UNCHANGED <<hubVars, callVars, running, cancelled>>

\* tool.cancel: the id is remembered, whether or not such a call is running.
CancelTool(i) ==
  /\ NextPayload(i, "cancel")
  /\ cancelled' = [cancelled EXCEPT ![i] = @ \cup {IdOf[Head(wire[i]).call]}]
  /\ wire' = [wire EXCEPT ![i] = Tail(@)]
  /\ UNCHANGED <<hubVars, callVars, replies, running, started, ended>>

\* Faulty variant of FinishTool: any cancellation will do, whatever its id.
FinishOnAnyCancel(i, k, outcome) ==
  /\ k \in running[i]
  /\ outcome = "ok" => cancelled[i] = {}
  /\ outcome = "cancelled" => cancelled[i] # {}
  /\ running' = [running EXCEPT ![i] = @ \ {k}]
  /\ ended' = ended \cup {k}
  /\ cancelled' = [cancelled EXCEPT ![i] = IF outcome = "cancelled" THEN {} ELSE @]
  /\ Reply(i, k, outcome)
  /\ UNCHANGED <<hubVars, callVars, wire, started>>

\* Office has finished.  A cancellation turns success into CANCELLED and is
\* consumed; a failure leaves the id in the set.
FinishTool(i, k, outcome) ==
  /\ k \in running[i]
  /\ outcome = "ok" => IdOf[k] \notin cancelled[i]
  /\ outcome = "cancelled" => IdOf[k] \in cancelled[i]
  /\ running' = [running EXCEPT ![i] = @ \ {k}]
  /\ ended' = ended \cup {k}
  /\ cancelled' = [cancelled EXCEPT ![i] =
                     IF outcome = "cancelled" THEN @ \ {IdOf[k]} ELSE @]
  /\ Reply(i, k, outcome)
  /\ UNCHANGED <<hubVars, callVars, wire, started>>

-----------------------------------------------------------------------------
Wake(k) == TakeAnswer(k) \/ WaitAgain(k) \/ GiveUp(k) \/ WaitTimedOut(k)

CallerStep(k) ==
  \/ InvokeRefused(k)
  \/ Invoke(k)
  \/ DeadlinePasses(k)
  \/ Wake(k)
  \/ SendCancel(k)

ConnectionStep(i) == Drain(i) \/ Complete(i) \/ Disconnect(i) \/ Connect(i)

PaneStep(i) ==
  \/ StartTool(i)
  \/ RefuseTool(i)
  \/ CancelTool(i)
  \/ \E k \in Calls, outcome \in Outcomes : FinishTool(i, k, outcome)

Next ==
  \/ \E k \in Calls : CallerStep(k)
  \/ \E i \in Instances : ConnectionStep(i) \/ PaneStep(i)

Spec == Init /\ [][Next]_vars

\* Time passes and a woken thread runs.  Connections and panes owe nothing.
CallerFairness ==
  \A k \in Calls : WF_vars(DeadlinePasses(k)) /\ WF_vars(Wake(k)) /\ WF_vars(SendCancel(k))

FairSpec == Spec /\ CallerFairness

-----------------------------------------------------------------------------
(* Properties *)

\* The calls that share their request id with no other call.
OwnId == {k \in Calls : \A j \in Calls : IdOf[j] = IdOf[k] => j = k}

\* A call is never told the outcome of another one, however late answers of
\* timed-out calls come in and on whichever connection, as long as no other
\* call uses its request id.
AnswerIsOwn == \A k \in OwnId : told[k].call = k

\* The condition variable: an answer that is in the table wakes its waiter,
\* by a notification it has not consumed yet or by its deadline.
NoLostWakeup ==
  \A k \in Calls : caller[k] = "waiting" /\ pending[IdOf[k]] \in Answers =>
    notified \/ k \in expired

\* The payloads of a call that are still on their way to a pane.
Underway(k) ==
  {place \in {"outbound", "wire"} \X Instances \X (1 .. 2 * Cardinality(Calls)) :
     LET queue == IF place[1] = "outbound" THEN outbound[place[2]] ELSE wire[place[2]]
     IN /\ place[3] \in DOMAIN queue
        /\ queue[place[3]] = [kind |-> "invoke", call |-> k]}

\* No tool runs twice for one call, whatever is queued, drained, cut off or
\* cancelled: a payload exists once, and not after the pane has read it.
StartedOnce ==
  \A k \in Calls :
    /\ Cardinality(Underway(k)) <= 1
    /\ k \in started => Underway(k) = {}
    /\ \A i, j \in Instances : k \in running[i] \cap running[j] => i = j

\* A cancel hits the call it is for: a call whose id nobody else uses is never
\* reported as cancelled, because its own cancel comes after its timeout.
CancelHitsItsCall ==
  \A k \in OwnId : told[k].outcome # "cancelled"

\* The pending table holds entries of calls that wait or have timed out, and
\* no others: an answered call leaves nothing behind.
EntriesAccountedFor ==
  \A r \in Requests : pending[r] # Absent =>
    \E k \in Calls : IdOf[k] = r /\ (caller[k] = "waiting" \/ told[k].outcome = "timeout")

\* The promise to the callers, for every call with an id of its own.
Contract ==
  INSTANCE ToolCallContract WITH
    Calls <- OwnId,
    made <- {k \in OwnId : caller[k] # "idle" /\ told[k].outcome # "lost"},
    started <- started \cap OwnId,
    ended <- ended \cap OwnId,
    verdict <- [k \in OwnId |-> CASE told[k].outcome = "nothing" -> "none"
                                  [] told[k].outcome \in Outcomes -> "answered"
                                  [] OTHER -> told[k].outcome]

\* The abstract specification is implemented.
KeepsContract == Contract!ContractSpec

\* invoke returns, with whatever the channel and the pane do: the MCP thread,
\* which serves everybody else too, is not held for ever.
EveryCallReturns == \A k \in Calls : caller[k] = "waiting" ~> caller[k] = "done"

\* The documents' reading, which the code does not meet.

\* A call whose connection drops is answered with SESSION_LOST.
LostCallIsTold ==
  \A k \in Calls : caller[k] = "waiting" /\ ~up[TargetOf[k]] ~> told[k].outcome = "lost"
=============================================================================
