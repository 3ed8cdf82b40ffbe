---------------------------- MODULE CommandRouter ----------------------------
(***************************************************************************)
(* The command router (addin_mgr/command_router.rs, command_queue.rs) and  *)
(* the part of the UI state store it drives (api/state_store.rs): a tool   *)
(* call that passed preflight is queued on its session and shown as a      *)
(* current task; when it is completed, failed, cancelled or expired it     *)
(* leaves the queue and moves to the two bounded histories, the global one *)
(* and the one of its document.                                            *)
(*                                                                         *)
(* Every operation holds the router's mutex and the UI state, so each is   *)
(* one action; expire_timeouts is one for each session it visits, and      *)
(* nothing else is done before it has visited all.  Deadlines are all the  *)
(* default timeout away, so they pass in the order of the enqueues.        *)
(* Sizes, tools and timestamps are left out; what a preflight checks is    *)
(* SessionRegistry's business, and one that fails changes nothing here.    *)
(***************************************************************************)
EXTENDS Integers, SequencesExt

CONSTANTS
  Sessions,
  ChosenIds,      \* request ids MCP clients choose themselves
  HistoryLimit,   \* 10 in the code, for either history
  MaxCommands     \* bound: commands enqueued in a behaviour

Minted == {"request"} \X (1 .. MaxCommands)
Requests == ChosenIds \cup Minted
Commands == 1 .. MaxCommands

ASSUME RouterAssumption ==
  /\ HistoryLimit \in Nat \ {0}
  /\ MaxCommands \in Nat

VARIABLES
  queue,         \* queues_by_session: the commands of a session, oldest first
  nextSequence,  \* SessionCommandQueue.next_sequence, 0 where there is no queue
  info,          \* of each command made: session, request id, sequence
  made,          \* UiStateStore.next_command_id - 1
  minted,        \* CommandRouter.next_request_id - 1
  due,           \* the commands up to this one are past their deadline
  expiring,      \* the sessions expire_timeouts has still to visit
  current,       \* UiStateStore.current_tasks
  recent,        \* recent_commands: <<command, result>>, newest first
  history,       \* commands_by_session, likewise
  oversized      \* history: commands whose response was too large

routerVars == <<queue, nextSequence, minted, due, expiring>>
storeVars == <<made, current, recent, history>>
vars == <<routerVars, storeVars, info, oversized>>

Results == {"success", "failure", "timeout", "cancelled"}
Records == Commands \X Results

\* The types of the variables, and the bound of the histories.
TypeOK ==
  /\ queue \in [Sessions -> Seq(Commands)]
  /\ nextSequence \in [Sessions -> 0 .. MaxCommands]
  /\ made \in 0 .. MaxCommands
  /\ minted \in 0 .. MaxCommands
  /\ due \in 0 .. made
  /\ expiring \subseteq Sessions
  /\ info \in [1 .. made -> [session : Sessions, request : Requests, sequence : 0 .. MaxCommands]]
  /\ current \subseteq Commands
  /\ recent \in Seq(Records) /\ Len(recent) <= HistoryLimit
  /\ history \in [Sessions -> Seq(Records)]
  /\ \A s \in Sessions : Len(history[s]) <= HistoryLimit
  /\ oversized \subseteq Commands

Init ==
  /\ queue = [s \in Sessions |-> <<>>]
  /\ nextSequence = [s \in Sessions |-> 0]
  /\ info = <<>>
  /\ made = 0
  /\ minted = 0
  /\ due = 0
  /\ expiring = {}
  /\ current = {}
  /\ recent = <<>>
  /\ history = [s \in Sessions |-> <<>>]
  /\ oversized = {}

-----------------------------------------------------------------------------
(* Helpers of the queue and the store *)

Travels(s, r, n) == n \in DOMAIN queue[s] /\ info[queue[s][n]].request = r

\* Faulty variant of FirstOf: the newest one.
LastOf(s, r, n) == Travels(s, r, n) /\ \A m \in n + 1 .. Len(queue[s]) : ~Travels(s, r, m)

\* The place in the queue of session s of the command that travels under
\* request id r: the first one.
FirstOf(s, r, n) == Travels(s, r, n) /\ \A m \in 1 .. n - 1 : ~Travels(s, r, m)

Without(s, n) == RemoveAt(queue[s], n)

\* Faulty variant of Shorten: the counter is reset by any removal.
ShortenAndReset(s, left) ==
  /\ queue' = [queue EXCEPT ![s] = left]
  /\ nextSequence' = [nextSequence EXCEPT ![s] = 0]

\* remove_command: a queue that becomes empty is dropped, and its sequence
\* counter with it.
Shorten(s, left) ==
  /\ queue' = [queue EXCEPT ![s] = left]
  /\ nextSequence' = [nextSequence EXCEPT ![s] = IF left = <<>> THEN 0 ELSE @]

RemoveCommand(s, n) == Shorten(s, Without(s, n))

\* The newest records come first; what is over the limit falls out at the end.
Truncated(list) == SubSeq(list, 1, IF Len(list) < HistoryLimit THEN Len(list) ELSE HistoryLimit)
Entered(records, list) == Truncated(records \o list)

\* Faulty variant of Finish: the tasks stay in the list.
FinishAndKeep(s, records) ==
  /\ recent' = Entered(records, recent)
  /\ history' = [history EXCEPT ![s] = Entered(records, @)]
  /\ UNCHANGED current

\* Faulty variant of Finish: the global history is filled at its end.
FinishBackwards(s, records) ==
  /\ current' = current \ {x[1] : x \in ToSet(records)}
  /\ recent' = Truncated(recent \o records)
  /\ history' = [history EXCEPT ![s] = Entered(records, @)]

\* What finish_command does to commands that are current tasks: out of the
\* tasks, into both histories, that of all documents and that of their own.
Finish(s, records) ==
  /\ current' = current \ {x[1] : x \in ToSet(records)}
  /\ recent' = Entered(records, recent)
  /\ history' = [history EXCEPT ![s] = Entered(records, @)]

\* One that is no current task is left alone.
FinishCommand(s, k, result) ==
  IF k \in current THEN Finish(s, <<<<k, result>>>>)
  ELSE UNCHANGED <<current, recent, history>>

-----------------------------------------------------------------------------
(* Operations *)

\* enqueue, after preflight; a request without a string id gets a minted one.
Enqueue(s, r) ==
  /\ expiring = {}
  /\ made < MaxCommands
  /\ made' = made + 1
  /\ info' = Append(info, [session |-> s, request |-> r, sequence |-> nextSequence[s]])
  /\ queue' = [queue EXCEPT ![s] = Append(@, made + 1)]
  /\ nextSequence' = [nextSequence EXCEPT ![s] = @ + 1]
  /\ current' = current \cup {made + 1}
  /\ UNCHANGED <<due, expiring, recent, history, oversized>>

EnqueueChosen(s, r) == r \in ChosenIds /\ Enqueue(s, r) /\ UNCHANGED minted

EnqueueMinted(s) ==
  /\ Enqueue(s, <<"request", minted + 1>>)
  /\ minted' = minted + 1

\* complete with a response that fits.
Complete(s, r, result) ==
  /\ expiring = {}
  /\ \E n \in DOMAIN queue[s] :
       /\ FirstOf(s, r, n)
       /\ RemoveCommand(s, n)
       /\ FinishCommand(s, queue[s][n], result)
  /\ UNCHANGED <<made, minted, due, expiring, info, oversized>>

\* complete with a response over the limit: the command has left its queue
\* when the size is checked, and the early return skips finish_command.
CompleteOversized(s, r) ==
  /\ expiring = {}
  /\ \E n \in DOMAIN queue[s] :
       /\ FirstOf(s, r, n)
       /\ RemoveCommand(s, n)
       /\ oversized' = oversized \cup {queue[s][n]}
  /\ UNCHANGED <<storeVars, minted, due, expiring, info>>

\* fail and cancel.
Abort(s, r, result) ==
  /\ expiring = {}
  /\ \E n \in DOMAIN queue[s] :
       /\ FirstOf(s, r, n)
       /\ RemoveCommand(s, n)
       /\ FinishCommand(s, queue[s][n], result)
  /\ UNCHANGED <<made, minted, due, expiring, info, oversized>>

\* The next deadline passes.
DeadlinePasses ==
  /\ expiring = {}
  /\ due < made
  /\ due' = due + 1
  /\ UNCHANGED <<queue, nextSequence, minted, expiring, storeVars, info, oversized>>

\* expire_timeouts goes from session to session, those with a command past its
\* deadline being of interest.
Overdue(s, n) == n \in DOMAIN queue[s] /\ queue[s][n] <= due

ExpireTimeouts ==
  /\ expiring = {}
  /\ expiring' = {s \in Sessions : \E n \in DOMAIN queue[s] : Overdue(s, n)}
  /\ expiring' # {}
  /\ UNCHANGED <<queue, nextSequence, minted, due, storeVars, info, oversized>>

\* For each command past its deadline, the first n of the queue, the oldest of
\* that request id is removed and finished, one after the other.  Deadlines
\* pass in order, so those are the same commands; a queued command is a current
\* task (TasksAreQueued), so each of them is finished.
ExpireSession(s, n) ==
  LET timeouts == [m \in 1 .. n |-> <<queue[s][n + 1 - m], "timeout">>]
  IN  /\ s \in expiring
      /\ \A m \in DOMAIN queue[s] : Overdue(s, m) <=> m <= n
      /\ expiring' = expiring \ {s}
      /\ Shorten(s, SubSeq(queue[s], n + 1, Len(queue[s])))
      /\ Finish(s, timeouts)
      /\ UNCHANGED <<made, minted, due, info, oversized>>

-----------------------------------------------------------------------------
Next ==
  \/ \E s \in Sessions, r \in ChosenIds : EnqueueChosen(s, r)
  \/ \E s \in Sessions : EnqueueMinted(s)
  \/ \E s \in Sessions, r \in Requests :
       \/ \E result \in {"success", "failure"} : Complete(s, r, result)
       \/ CompleteOversized(s, r)
       \/ \E result \in {"failure", "cancelled"} : Abort(s, r, result)
  \/ DeadlinePasses
  \/ ExpireTimeouts
  \/ \E s \in Sessions : \E n \in DOMAIN queue[s] : ExpireSession(s, n)

Spec == Init /\ [][Next]_vars

-----------------------------------------------------------------------------
(* Properties *)

Queued == UNION {ToSet(queue[s]) : s \in Sessions}
Listed(list) == {list[n][1] : n \in DOMAIN list}

\* Router and UI agree on what is in flight: the current tasks are the queued
\* commands and those whose response was too large, which stay on.
TasksAreQueued == current = Queued \cup oversized

\* A command is never shown as running and as over, nor twice in a history,
\* and both histories are the same story: what the global one says of a
\* document is the newest part of what the document's own one says.  So each of
\* its records is in that one, and whatever precedes it there precedes it here.
\* Both keep the newest HistoryLimit commands.
HistoriesAgree ==
  /\ Len(recent) <= HistoryLimit
  /\ \A s \in Sessions : Len(history[s]) <= HistoryLimit
  /\ Listed(recent) \cap current = {}
  /\ \A m, n \in DOMAIN recent : recent[m][1] = recent[n][1] => m = n
  /\ \A n \in DOMAIN recent :
       LET own == history[info[recent[n][1]].session]
       IN  \E j \in DOMAIN own :
             /\ own[j] = recent[n]
             /\ \A i \in 1 .. j - 1 : \E m \in 1 .. n - 1 : recent[m] = own[i]

\* Sequence numbers order the commands of a queue, across the resets of the
\* counter.
SequencesIncrease ==
  \A s \in Sessions :
    /\ \A m, n \in DOMAIN queue[s] :
         m < n => info[queue[s][m]].sequence < info[queue[s][n]].sequence
    /\ \A n \in DOMAIN queue[s] : info[queue[s][n]].sequence < nextSequence[s]

\* While a pass of expire_timeouts is on, what it has still to remove counts as
\* gone: to everybody else the pass is one step.
Leaving(k) == info[k].session \in expiring /\ k <= due
InFlight == {k \in current \ oversized : ~Leaving(k)}
SinceIdle ==
  [s \in Sessions |->
     IF s \in expiring /\ \A n \in DOMAIN queue[s] : Overdue(s, n)
     THEN 0 ELSE nextSequence[s]]

Life ==
  INSTANCE CommandLife WITH
    command <- info,
    inFlight <- InFlight,
    givenUp <- oversized,
    overdue <- due,
    sinceIdle <- SinceIdle

\* Router and UI state implement the abstract life of a command: the tasks shown
\* are the commands in flight and those given up, each leaves them once, on
\* behalf of its own request, and a pass over many queues is one step.
KeepsLife == Life!LifeSpec
=============================================================================
