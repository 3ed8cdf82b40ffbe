------------------------------ MODULE McpServer ------------------------------
(***************************************************************************)
(* The daemon's threads and the state they share (runtime/server.rs,       *)
(* server_connection.rs, ui_http.rs, api/ui_snapshot_service.rs):          *)
(*                                                                         *)
(*   - one thread serves MCP requests one at a time, and holds the UI      *)
(*     state from the accept to the response, the wait for a task pane     *)
(*     included;                                                           *)
(*   - each task pane has a connection thread, which handles a frame with  *)
(*     the session registry and then the add-in channel locked;            *)
(*   - each request of the daemon's UI has a thread, which renders a       *)
(*     snapshot or changes the tool access policy: in the configuration    *)
(*     file, then in force, then in the UI state;                          *)
(*   - the cleanup thread prunes expired sessions.                         *)
(*                                                                         *)
(* A lock that is taken and released with nothing waited for in between    *)
(* is part of one action, guarded by the lock being free; the locks held   *)
(* across steps are in `holder'.  The mutexes of the MCP frontend and the  *)
(* router are the MCP thread's alone, and those of the hub and the policy  *)
(* are never held while another is waited for: they are left out.          *)
(*                                                                         *)
(* MCP clients are initialised (the frontend forwards what they send) and  *)
(* send one request each.  What a frame does in detail is AddinChannel's   *)
(* business, and what becomes of a forwarded call ToolInvocation's.        *)
(***************************************************************************)
EXTENDS Integers, FiniteSets

CONSTANTS
  Clients,     \* connections of MCP clients
  Sessions,    \* documents; each also names its task pane's thread
  Tools,
  UiThreads,   \* bound: requests of the daemon's UI served at a time
  MaxFrames,   \* bound: frames of the task panes in a behaviour
  Mcp,         \* the MCP thread
  Free,        \* the holder of a lock nobody holds
  NoClient,
  ListSessions \* the request that lists the sessions

ASSUME ServerAssumption ==
  /\ MaxFrames \in Nat
  /\ Mcp \notin Sessions \cup UiThreads
  /\ Sessions \cap UiThreads = {}
  /\ Free \notin {Mcp} \cup Sessions \cup UiThreads
  /\ NoClient \notin Clients
  /\ ListSessions \notin Tools \X Sessions

Threads == {Mcp} \cup Sessions \cup UiThreads
Locks == {"ui", "registry", "channel"}
Policies == SUBSET Tools   \* a policy is the set of tools it allows
Calls == Tools \X Sessions
Requests == Calls \cup {ListSessions}

VARIABLES
  holder,     \* of each lock, the thread that holds it
  pc,         \* of each thread, what it does next
  conn,       \* of each MCP client, its connection
  request,    \* what it sent and is still to be answered
  serving,    \* the client the MCP thread serves
  snapshot,   \* the MCP thread's clone of the registry
  gate,       \* the MCP thread's clone of the policy
  registry,   \* of each session, its state
  bound,      \* the sessions whose pane has a connection bound in the hub
  frames,     \* how many frames have been handled
  file,       \* the configuration file: the policy section, and the rest
  policy,     \* RuntimeSharedState.tool_access_policy
  uiPolicy,   \* the policy in the UI state
  wanted,     \* of each UI thread, the policy it was sent
  draft,      \* of each UI thread, whether it read the rest of the file
  inForce,    \* history: the policies in force since a client's request
  overdue,    \* history: sessions expired since before the accept
  disturbed   \* history: whether updates overlapped, or a write failed

clientVars == <<conn, request, inForce>>
mcpVars == <<serving, snapshot, gate, overdue>>
paneVars == <<bound, frames>>
policyVars == <<file, policy, uiPolicy, wanted, draft, disturbed>>
vars == <<holder, pc, clientVars, mcpVars, registry, paneVars, policyVars>>

\* Where each thread waits for a lock, and for which.
Awaits ==
  [lockUi |-> "ui", prune |-> "registry", snapshot |-> "registry",
   payload |-> "channel", cancel |-> "channel",
   lockRegistry |-> "registry", lockChannel |-> "channel",
   pruneUi |-> "registry", setUi |-> "ui",
   snapRegistry |-> "registry", snapUi |-> "ui"]

McpHoldsUi == {"prune", "snapshot", "read", "policy", "dispatch", "payload",
               "invoke", "wait", "cancel"}
Updating == {"readConfig", "truncate", "writeConfig", "setPolicy", "setUi"}
McpSteps == McpHoldsUi \cup {"accept", "lockUi"}
PaneSteps == {"readFrame", "lockRegistry", "lockChannel", "apply"}
UiSteps == Updating \cup {"idle", "pruneUi", "route", "snapRegistry", "snapUi"}
States == {"absent", "active", "stale", "expired"}
Files == [policy : Policies, rest : BOOLEAN]

\* A lock is held just where the code's guard is alive, on every path out of
\* a handler.
LocksOK ==
  /\ DOMAIN holder = Locks
  /\ holder["ui"] \in {Free, Mcp}
  /\ holder["registry"] \in {Free} \cup Sessions
  /\ holder["channel"] \in {Free} \cup Sessions
  /\ DOMAIN pc = Threads
  /\ pc[Mcp] \in McpSteps
  /\ \A s \in Sessions : pc[s] \in PaneSteps
  /\ \A u \in UiThreads : pc[u] \in UiSteps
  /\ holder["ui"] = Mcp <=> pc[Mcp] \in McpHoldsUi
  /\ \A s \in Sessions :
       /\ holder["registry"] = s <=> pc[s] \in {"lockChannel", "apply"}
       /\ holder["channel"] = s <=> pc[s] = "apply"

\* The locks, and the types of the other variables.
TypeOK ==
  /\ LocksOK
  /\ conn \in [Clients -> {"off", "open", "sent", "closed", "done"}]
  /\ request \in [Clients -> Requests]
  /\ serving \in Clients \cup {NoClient}
  /\ snapshot \in [Sessions -> States] /\ registry \in [Sessions -> States]
  /\ bound \subseteq Sessions /\ overdue \subseteq Sessions
  /\ frames \in 0 .. MaxFrames
  /\ file \in Files
  /\ {gate, policy, uiPolicy} \subseteq Policies
  /\ wanted \in [UiThreads -> Policies] /\ draft \in [UiThreads -> BOOLEAN]
  /\ inForce \in [Clients -> SUBSET Policies]
  /\ disturbed \subseteq {"overlap", "failed"}

Init ==
  /\ holder = [l \in Locks |-> Free]
  /\ pc = [t \in Threads |-> IF t = Mcp THEN "accept"
                             ELSE IF t \in Sessions THEN "readFrame" ELSE "idle"]
  /\ conn = [c \in Clients |-> "off"]
  /\ request = [c \in Clients |-> ListSessions]
  /\ serving = NoClient
  /\ registry = [s \in Sessions |-> "absent"]
  /\ snapshot = registry
  /\ bound = {} /\ overdue = {} /\ frames = 0
  /\ policy = Tools /\ uiPolicy = Tools /\ gate = Tools
  /\ file = [policy |-> Tools, rest |-> TRUE]
  /\ wanted = [u \in UiThreads |-> Tools]
  /\ draft = [u \in UiThreads |-> TRUE]
  /\ inForce = [c \in Clients |-> {}]
  /\ disturbed = {}

-----------------------------------------------------------------------------
(* MCP clients *)

Connect(c) ==
  /\ conn[c] = "off"
  /\ conn' = [conn EXCEPT ![c] = "open"]
  /\ UNCHANGED <<holder, pc, request, inForce, mcpVars, registry, paneVars, policyVars>>

Send(c, r) ==
  /\ conn[c] = "open"
  /\ conn' = [conn EXCEPT ![c] = "sent"]
  /\ request' = [request EXCEPT ![c] = r]
  /\ inForce' = [inForce EXCEPT ![c] = {policy}]
  /\ UNCHANGED <<holder, pc, mcpVars, registry, paneVars, policyVars>>

Hangup(c) ==
  /\ conn[c] = "open"
  /\ conn' = [conn EXCEPT ![c] = "closed"]
  /\ UNCHANGED <<holder, pc, request, inForce, mcpVars, registry, paneVars, policyVars>>

-----------------------------------------------------------------------------
(* The MCP thread *)

At(t, label) == pc[t] = label
Goto(t, label) == pc' = [pc EXCEPT ![t] = label]
IsFree(l) == holder[l] = Free

Accept(c) ==
  /\ At(Mcp, "accept")
  /\ conn[c] \in {"open", "sent", "closed"}
  /\ serving' = c
  /\ overdue' = {s \in Sessions : registry[s] = "expired"}
  /\ Goto(Mcp, "lockUi")
  /\ UNCHANGED <<holder, clientVars, snapshot, gate, registry, paneVars, policyVars>>

LockUiState ==
  /\ At(Mcp, "lockUi") /\ IsFree("ui")
  /\ holder' = [holder EXCEPT !["ui"] = Mcp]
  /\ Goto(Mcp, "prune")
  /\ UNCHANGED <<clientVars, mcpVars, registry, paneVars, policyVars>>

Pruned == [s \in Sessions |-> IF registry[s] = "expired" THEN "absent" ELSE registry[s]]

\* Faulty variant of PruneAtAccept: pruning is left to the cleanup thread.
NoPruneAtAccept ==
  /\ At(Mcp, "prune") /\ IsFree("registry")
  /\ Goto(Mcp, "snapshot")
  /\ UNCHANGED <<holder, clientVars, mcpVars, registry, paneVars, policyVars>>

PruneAtAccept ==
  /\ At(Mcp, "prune") /\ IsFree("registry")
  /\ registry' = Pruned
  /\ Goto(Mcp, "snapshot")
  /\ UNCHANGED <<holder, clientVars, mcpVars, paneVars, policyVars>>

TakeSnapshot ==
  /\ At(Mcp, "snapshot") /\ IsFree("registry")
  /\ snapshot' = registry
  /\ Goto(Mcp, "read")
  /\ UNCHANGED <<holder, clientVars, serving, gate, overdue, registry, paneVars, policyVars>>

\* read_from has no time limit: the thread waits until the client has sent
\* its request or closed its connection.
ReadRequest ==
  /\ At(Mcp, "read") /\ conn[serving] = "sent"
  /\ Goto(Mcp, "policy")
  /\ UNCHANGED <<holder, clientVars, mcpVars, registry, paneVars, policyVars>>

\* The handler returns, with an answer unless reading failed: its clones and
\* guards go out of scope.
EndRequest ==
  /\ holder' = [holder EXCEPT !["ui"] = Free]
  /\ conn' = [conn EXCEPT ![serving] = "done"]
  /\ serving' = NoClient
  /\ snapshot' = [s \in Sessions |-> "absent"] /\ gate' = Tools /\ overdue' = {}
  /\ request' = [request EXCEPT ![serving] = ListSessions]
  /\ inForce' = [inForce EXCEPT ![serving] = {}]
  /\ Goto(Mcp, "accept")
  /\ UNCHANGED <<registry, paneVars, policyVars>>

ReadFails ==
  /\ At(Mcp, "read") /\ conn[serving] = "closed"
  /\ EndRequest

\* Faulty variant of ClonePolicy: the copy in the UI state is at hand.
ClonePolicyOfUi ==
  /\ At(Mcp, "policy")
  /\ gate' = uiPolicy
  /\ Goto(Mcp, "dispatch")
  /\ UNCHANGED <<holder, clientVars, serving, snapshot, overdue, registry, paneVars, policyVars>>

ClonePolicy ==
  /\ At(Mcp, "policy")
  /\ gate' = policy
  /\ Goto(Mcp, "dispatch")
  /\ UNCHANGED <<holder, clientVars, serving, snapshot, overdue, registry, paneVars, policyVars>>

Tool == request[serving][1]
Session == request[serving][2]

\* Stands for all that is answered without a task pane.
AnswerList ==
  /\ At(Mcp, "dispatch") /\ request[serving] = ListSessions
  /\ EndRequest

StopByPolicy ==
  /\ At(Mcp, "dispatch") /\ request[serving] \in Calls
  /\ Tool \notin gate
  /\ EndRequest

\* Preflight looks at the snapshot, not at the registry.
FailPreflight ==
  /\ At(Mcp, "dispatch") /\ request[serving] \in Calls
  /\ Tool \in gate
  /\ snapshot[Session] # "active"
  /\ EndRequest

Enqueue ==
  /\ At(Mcp, "dispatch") /\ request[serving] \in Calls
  /\ Tool \in gate
  /\ snapshot[Session] = "active"
  /\ Goto(Mcp, "payload")
  /\ UNCHANGED <<holder, clientVars, mcpVars, registry, paneVars, policyVars>>

BuildPayload ==
  /\ At(Mcp, "payload") /\ IsFree("channel")
  /\ Goto(Mcp, "invoke")
  /\ UNCHANGED <<holder, clientVars, mcpVars, registry, paneVars, policyVars>>

Invoke ==
  /\ At(Mcp, "invoke") /\ Session \in bound
  /\ Goto(Mcp, "wait")
  /\ UNCHANGED <<holder, clientVars, mcpVars, registry, paneVars, policyVars>>

NoConnection ==
  /\ At(Mcp, "invoke") /\ Session \notin bound
  /\ EndRequest

\* The pane's connection thread reads its answer, if it is not busy.
PaneAnswers ==
  /\ At(Mcp, "wait")
  /\ Session \in bound /\ At(Session, "readFrame")
  /\ EndRequest

\* Faulty variant of DeadlineExpires: a call has as long as its connection.
DeadlineOnlyIfLost ==
  /\ At(Mcp, "wait") /\ Session \notin bound
  /\ Goto(Mcp, "cancel")
  /\ UNCHANGED <<holder, clientVars, mcpVars, registry, paneVars, policyVars>>

DeadlineExpires ==
  /\ At(Mcp, "wait")
  /\ Goto(Mcp, "cancel")
  /\ UNCHANGED <<holder, clientVars, mcpVars, registry, paneVars, policyVars>>

SendCancel ==
  /\ At(Mcp, "cancel") /\ IsFree("channel")
  /\ EndRequest

-----------------------------------------------------------------------------
(* The connection threads, the clock and the cleanup *)

ReadFrame(s) ==
  /\ At(s, "readFrame") /\ frames < MaxFrames
  /\ frames' = frames + 1
  /\ Goto(s, "lockRegistry")
  /\ UNCHANGED <<holder, clientVars, mcpVars, registry, bound, policyVars>>

LockRegistry(s) ==
  /\ At(s, "lockRegistry") /\ IsFree("registry")
  /\ holder' = [holder EXCEPT !["registry"] = s]
  /\ Goto(s, "lockChannel")
  /\ UNCHANGED <<clientVars, mcpVars, registry, paneVars, policyVars>>

LockChannel(s) ==
  /\ At(s, "lockChannel") /\ IsFree("channel")
  /\ holder' = [holder EXCEPT !["channel"] = s]
  /\ Goto(s, "apply")
  /\ UNCHANGED <<clientVars, mcpVars, registry, paneVars, policyVars>>

\* What the frame, or the end of the connection, does to the session: its own, but
\* for session.removed, which may name any.
Apply(s) ==
  /\ At(s, "apply")
  /\ \/ /\ registry' = [registry EXCEPT ![s] = "active"]     \* register, session.added
        /\ bound' = bound \cup {s}
     \/ /\ \E t \in Sessions :                               \* session.removed,
             registry' = [registry EXCEPT ![t] = "absent"]    \* of any session
        /\ UNCHANGED bound
     \/ /\ registry' = [registry EXCEPT ![s] = IF @ = "active" THEN "stale" ELSE @]
        /\ bound' = bound \ {s}                              \* remove_connection
  /\ overdue' = IF registry'[s] = "expired" THEN overdue ELSE overdue \ {s}
  /\ holder' = [holder EXCEPT !["registry"] = Free, !["channel"] = Free]
  /\ Goto(s, "readFrame")
  /\ UNCHANGED <<clientVars, serving, snapshot, gate, frames, policyVars>>

GraceEnds(s) ==
  /\ registry[s] = "stale"
  /\ registry' = [registry EXCEPT ![s] = "expired"]
  /\ UNCHANGED <<holder, pc, clientVars, mcpVars, paneVars, policyVars>>

\* The cleanup thread; a connection thread does the same before the upgrade.
CleanUp ==
  /\ IsFree("registry")
  /\ registry' = Pruned
  /\ UNCHANGED <<holder, pc, clientVars, mcpVars, paneVars, policyVars>>

-----------------------------------------------------------------------------
(* The UI threads *)

NobodyUpdates == \A u \in UiThreads : pc[u] \notin Updating

UiRequest(u) ==
  /\ At(u, "idle")
  /\ Goto(u, "pruneUi")
  /\ UNCHANGED <<holder, clientVars, mcpVars, registry, paneVars, policyVars>>

PruneForUi(u) ==
  /\ At(u, "pruneUi") /\ IsFree("registry")
  /\ registry' = Pruned
  /\ Goto(u, "route")
  /\ UNCHANGED <<holder, clientVars, mcpVars, paneVars, policyVars>>

\* The state and the events render a snapshot, the log's path is in the UI
\* state, assets and refused requests need neither.
GetState(u) ==
  /\ At(u, "route")
  /\ \E label \in {"snapRegistry", "snapUi", "idle"} : Goto(u, label)
  /\ UNCHANGED <<holder, clientVars, mcpVars, registry, paneVars, policyVars>>

PutPolicy(u, p) ==
  /\ At(u, "route")
  /\ wanted' = [wanted EXCEPT ![u] = p]
  /\ disturbed' = IF NobodyUpdates THEN disturbed ELSE disturbed \cup {"overlap"}
  /\ Goto(u, "readConfig")
  /\ UNCHANGED <<holder, clientVars, mcpVars, registry, paneVars, file, policy, uiPolicy, draft>>

ReadConfig(u) ==
  /\ At(u, "readConfig")
  /\ draft' = [draft EXCEPT ![u] = file.rest]
  /\ Goto(u, "truncate")
  /\ UNCHANGED <<holder, clientVars, mcpVars, registry, paneVars, file, policy, uiPolicy,
                 wanted, disturbed>>

\* fs::write opens the file, which empties it, and then writes; what an empty
\* file stands for is the default, that allows every tool.
Truncate(u) ==
  /\ At(u, "truncate")
  /\ file' = [policy |-> Tools, rest |-> FALSE]
  /\ Goto(u, "writeConfig")
  /\ UNCHANGED <<holder, clientVars, mcpVars, registry, paneVars, policy, uiPolicy, wanted,
                 draft, disturbed>>

WriteConfig(u) ==
  /\ At(u, "writeConfig")
  /\ file' = [policy |-> wanted[u], rest |-> draft[u]]
  /\ Goto(u, "setPolicy")
  /\ UNCHANGED <<holder, clientVars, mcpVars, registry, paneVars, policy, uiPolicy, wanted,
                 draft, disturbed>>

\* What the update worked with goes out of scope.
EndUpdate(u, label) ==
  /\ wanted' = [wanted EXCEPT ![u] = Tools]
  /\ draft' = [draft EXCEPT ![u] = TRUE]
  /\ Goto(u, label)

\* The file cannot be read, opened or written: the update is refused.
SaveFails(u) ==
  /\ pc[u] \in {"readConfig", "truncate", "writeConfig"}
  /\ disturbed' = IF At(u, "writeConfig") THEN disturbed \cup {"failed"} ELSE disturbed
  /\ EndUpdate(u, "idle")
  /\ UNCHANGED <<holder, clientVars, mcpVars, registry, paneVars, file, policy, uiPolicy>>

SetPolicy(u) ==
  /\ At(u, "setPolicy")
  /\ policy' = wanted[u]
  /\ inForce' = [c \in Clients |-> IF conn[c] = "sent" THEN inForce[c] \cup {wanted[u]}
                                                       ELSE inForce[c]]
  /\ Goto(u, "setUi")
  /\ UNCHANGED <<holder, conn, request, mcpVars, registry, paneVars, file, uiPolicy,
                 wanted, draft, disturbed>>

\* Faulty variant of SetUiPolicy: the UI state is not told.
SkipUiPolicy(u) ==
  /\ At(u, "setUi") /\ IsFree("ui")
  /\ EndUpdate(u, "snapRegistry")
  /\ UNCHANGED <<holder, clientVars, mcpVars, registry, paneVars, file, policy, uiPolicy,
                 disturbed>>

SetUiPolicy(u) ==
  /\ At(u, "setUi") /\ IsFree("ui")
  /\ uiPolicy' = wanted[u]
  /\ EndUpdate(u, "snapRegistry")
  /\ UNCHANGED <<holder, clientVars, mcpVars, registry, paneVars, file, policy, disturbed>>

\* Faulty variant of SnapRegistry: the registry stays locked while the UI
\* state is waited for.
SnapRegistryLocked(u) ==
  /\ At(u, "snapRegistry") /\ IsFree("registry")
  /\ holder' = [holder EXCEPT !["registry"] = u]
  /\ Goto(u, "snapUi")
  /\ UNCHANGED <<clientVars, mcpVars, registry, paneVars, policyVars>>

SnapRegistry(u) ==
  /\ At(u, "snapRegistry") /\ IsFree("registry")
  /\ Goto(u, "snapUi")
  /\ UNCHANGED <<holder, clientVars, mcpVars, registry, paneVars, policyVars>>

SnapUi(u) ==
  /\ At(u, "snapUi") /\ IsFree("ui")
  /\ Goto(u, "idle")
  /\ UNCHANGED <<holder, clientVars, mcpVars, registry, paneVars, policyVars>>

-----------------------------------------------------------------------------
ClientStep == \E c \in Clients : Connect(c) \/ Hangup(c) \/ \E r \in Requests : Send(c, r)

McpStep ==
  \/ \E c \in Clients : Accept(c)
  \/ LockUiState \/ PruneAtAccept \/ TakeSnapshot
  \/ ReadRequest \/ ReadFails \/ ClonePolicy
  \/ AnswerList \/ StopByPolicy \/ FailPreflight \/ Enqueue
  \/ BuildPayload \/ Invoke \/ NoConnection \/ DeadlineExpires \/ SendCancel

\* One frame, from the dispatch by its method on (or the end of the connection,
\* which takes the same locks in the same order).
HandleFrame(s) == LockRegistry(s) \/ LockChannel(s) \/ Apply(s)

ServeUi(u) ==
  \/ PruneForUi(u) \/ GetState(u) \/ \E p \in Policies : PutPolicy(u, p)
  \/ ReadConfig(u) \/ Truncate(u) \/ WriteConfig(u) \/ SaveFails(u)
  \/ SetPolicy(u) \/ SetUiPolicy(u)
  \/ SnapRegistry(u) \/ SnapUi(u)

Next ==
  \/ ClientStep
  \/ McpStep \/ PaneAnswers
  \/ \E s \in Sessions : ReadFrame(s) \/ HandleFrame(s) \/ GraceEnds(s)
  \/ CleanUp
  \/ \E u \in UiThreads : UiRequest(u) \/ ServeUi(u)

Spec == Init /\ [][Next]_vars

\* Threads go on where they can, and a client that has connected sends its
\* request or hangs up.  The mutexes promise nothing: that a thread gets its
\* lock follows from the others' running out of clients and frames.
Fairness ==
  /\ WF_vars(McpStep)
  /\ \A s \in Sessions : WF_vars(HandleFrame(s))
  /\ \A u \in UiThreads : WF_vars(ServeUi(u))
  /\ \A c \in Clients : WF_vars(Hangup(c) \/ \E r \in Requests : Send(c, r))

FairSpec == Spec /\ Fairness

-----------------------------------------------------------------------------
(* Properties *)

\* No threads wait for each other in a circle: the MCP thread takes the
\* registry and the channel with the UI state locked, a connection thread the
\* channel with the registry locked, and a UI thread one at a time.
NoCircularWait ==
  \A T \in (SUBSET Threads) \ {{}} :
    \E t \in T : ~(pc[t] \in DOMAIN Awaits /\ holder[Awaits[pc[t]]] \in T)

\* The policy a request is judged by was in force at some time since the
\* request was sent: a change that was complete before that is never
\* overlooked, whatever the UI state still shows.
PolicyIsCurrent ==
  pc[Mcp] \in McpHoldsUi \ {"prune", "snapshot", "read", "policy"} =>
    gate \in inForce[serving]

\* Between updates, if none overlapped another and no write failed, the
\* configuration file (what a restart will apply), the policy in force and the
\* one the UI shows are the same, and the rest of the file is intact.
PolicyAgrees ==
  NobodyUpdates /\ disturbed = {} =>
    file = [policy |-> policy, rest |-> TRUE] /\ uiPolicy = policy

\* A session whose grace was over when the request's connection was accepted,
\* and that has not come back, is not among those the request is served with,
\* however late the cleanup thread is.
ListedHadGrace ==
  pc[Mcp] \in McpHoldsUi \ {"prune", "snapshot"} =>
    \A s \in overdue : snapshot[s] # "expired"

\* Every request that was sent is answered and every request of the UI ends,
\* although the MCP thread keeps the UI state locked while it waits for a pane
\* that may never answer.
EveryRequestEnds ==
  /\ \A c \in Clients : conn[c] = "sent" ~> conn[c] = "done"
  /\ \A u \in UiThreads : pc[u] # "idle" ~> pc[u] = "idle"

\* A restart applies the policy that is in force.
RestartAppliesPolicy ==
  NobodyUpdates /\ "failed" \notin disturbed => file.policy = policy
=============================================================================
