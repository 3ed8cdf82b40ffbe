--------------------------- MODULE McpServer_proofs ---------------------------
(***************************************************************************)
(* That the daemon's threads never wait for each other in a circle, for    *)
(* any number of task panes and UI requests.  The argument is the order of *)
(* the locks: UI state, registry, channel.                                 *)
(***************************************************************************)
EXTENDS McpServer, TLAPS

USE ServerAssumption

lockVars == <<holder, pc>>

-----------------------------------------------------------------------------
(* How steps change the locks *)

\* The MCP thread goes on with the UI state locked.
LEMMA McpGoesOn ==
  ASSUME LocksOK, NEW l \in McpHoldsUi, pc[Mcp] \in McpHoldsUi, Goto(Mcp, l),
         UNCHANGED holder
  PROVE  LocksOK'
  BY DEF LocksOK, Goto, Threads, McpSteps

\* It ends a request.
LEMMA McpEnds ==
  ASSUME LocksOK, pc[Mcp] \in McpHoldsUi, EndRequest
  PROVE  LocksOK'
  BY DEF LocksOK, EndRequest, Goto, Threads, Locks, McpSteps, McpHoldsUi

\* A UI thread goes on.
LEMMA UiGoesOn ==
  ASSUME LocksOK, NEW u \in UiThreads, NEW l \in UiSteps, Goto(u, l), UNCHANGED holder
  PROVE  LocksOK'
  BY DEF LocksOK, Goto, Threads

LEMMA LocksUnchanged ==
  ASSUME LocksOK, UNCHANGED lockVars
  PROVE  LocksOK'
  BY DEF LocksOK, lockVars

-----------------------------------------------------------------------------
(* The locks are held where the code's guards are alive *)

LEMMA McpKeepsLocks ==
  ASSUME LocksOK, McpStep \/ PaneAnswers
  PROVE  LocksOK'
<1>1. ASSUME NEW c \in Clients, Accept(c) PROVE LocksOK'
  BY <1>1 DEF Accept, At, Goto, LocksOK, Threads, McpSteps, McpHoldsUi
<1>2. CASE LockUiState
  BY <1>2 DEF LockUiState, At, IsFree, Goto, LocksOK, Threads, Locks, McpSteps, McpHoldsUi
<1>3. CASE PruneAtAccept \/ TakeSnapshot \/ ReadRequest \/ ClonePolicy
  BY <1>3, McpGoesOn
     DEF PruneAtAccept, TakeSnapshot, ReadRequest, ClonePolicy, At, McpHoldsUi
<1>4. CASE Enqueue \/ BuildPayload \/ Invoke \/ DeadlineExpires
  BY <1>4, McpGoesOn DEF Enqueue, BuildPayload, Invoke, DeadlineExpires, At, McpHoldsUi
<1>5. CASE ReadFails \/ AnswerList \/ StopByPolicy \/ FailPreflight
  BY <1>5, McpEnds DEF ReadFails, AnswerList, StopByPolicy, FailPreflight, At, McpHoldsUi
<1>6. CASE NoConnection \/ SendCancel \/ PaneAnswers
  BY <1>6, McpEnds DEF NoConnection, SendCancel, PaneAnswers, At, McpHoldsUi
<1>7. QED
  BY <1>1, <1>2, <1>3, <1>4, <1>5, <1>6 DEF McpStep

LEMMA PanesKeepLocks ==
  ASSUME LocksOK, NEW s \in Sessions, ReadFrame(s) \/ HandleFrame(s)
  PROVE  LocksOK'
<1>1. CASE ReadFrame(s)
  BY <1>1 DEF ReadFrame, At, Goto, LocksOK, Threads, PaneSteps
<1>2. CASE LockRegistry(s)
  BY <1>2 DEF LockRegistry, At, IsFree, Goto, LocksOK, Threads, Locks, PaneSteps
<1>3. CASE LockChannel(s)
  BY <1>3 DEF LockChannel, At, IsFree, Goto, LocksOK, Threads, Locks, PaneSteps
<1>4. CASE Apply(s)
  BY <1>4 DEF Apply, At, Goto, LocksOK, Threads, Locks, PaneSteps
<1>5. QED
  BY <1>1, <1>2, <1>3, <1>4 DEF HandleFrame

LEMMA UiKeepsLocks ==
  ASSUME LocksOK, NEW u \in UiThreads, UiRequest(u) \/ ServeUi(u)
  PROVE  LocksOK'
<1>1. CASE UiRequest(u) \/ PruneForUi(u) \/ GetState(u) \/ \E p \in Policies : PutPolicy(u, p)
  BY <1>1, UiGoesOn DEF UiRequest, PruneForUi, GetState, PutPolicy, UiSteps, Updating
<1>2. CASE ReadConfig(u) \/ Truncate(u) \/ WriteConfig(u) \/ SaveFails(u)
  BY <1>2, UiGoesOn DEF ReadConfig, Truncate, WriteConfig, SaveFails, EndUpdate,
                        UiSteps, Updating
<1>3. CASE SetPolicy(u) \/ SetUiPolicy(u) \/ SnapRegistry(u) \/ SnapUi(u)
  BY <1>3, UiGoesOn DEF SetPolicy, SetUiPolicy, SnapRegistry, SnapUi, EndUpdate,
                        UiSteps, Updating
<1>4. QED
  BY <1>1, <1>2, <1>3 DEF ServeUi

LEMMA LocksStep == LocksOK /\ [Next]_vars => LocksOK'
<1> SUFFICES ASSUME LocksOK, [Next]_vars PROVE LocksOK'
  OBVIOUS
<1>1. CASE ClientStep
  BY <1>1, LocksUnchanged DEF ClientStep, Connect, Hangup, Send, lockVars
<1>2. CASE McpStep \/ PaneAnswers
  BY <1>2, McpKeepsLocks
<1>3. ASSUME NEW s \in Sessions, ReadFrame(s) \/ HandleFrame(s) PROVE LocksOK'
  BY <1>3, PanesKeepLocks
<1>4. ASSUME NEW s \in Sessions, GraceEnds(s) PROVE LocksOK'
  BY <1>4, LocksUnchanged DEF GraceEnds, lockVars
<1>5. CASE CleanUp
  BY <1>5, LocksUnchanged DEF CleanUp, lockVars
<1>6. ASSUME NEW u \in UiThreads, UiRequest(u) \/ ServeUi(u) PROVE LocksOK'
  BY <1>6, UiKeepsLocks
<1>7. CASE UNCHANGED vars
  BY <1>7, LocksUnchanged DEF vars, lockVars
<1> QED
  BY <1>1, <1>2, <1>3, <1>4, <1>5, <1>6, <1>7 DEF Next

\* Every lock is held by the thread whose place in its handler says so, and by
\* no other: no path out of a handler leaves one behind.
THEOREM LocksHeld == Spec => []LocksOK
<1>1. Init => LocksOK
  BY DEF Init, LocksOK, Locks, Threads, McpSteps, McpHoldsUi, PaneSteps, UiSteps
<1>2. QED
  BY <1>1, LocksStep, PTL DEF Spec

-----------------------------------------------------------------------------
(* No circle of threads *)

\* Thread t is held up by a thread of T.
HeldUp(t, T) == pc[t] \in DOMAIN Awaits /\ holder[Awaits[pc[t]]] \in T

\* The lock order excludes a circle: the channel's holder waits for nothing,
\* so the registry's waits for no member of the circle, so the UI state's
\* does not either.
LEMMA LocksExcludeCircles == LocksOK => NoCircularWait
<1> SUFFICES ASSUME LocksOK, NEW T \in SUBSET Threads, T # {},
                    \A t \in T : HeldUp(t, T)
             PROVE  FALSE
  BY DEF NoCircularWait, HeldUp
<1>1. \A t \in T : pc[t] \in DOMAIN Awaits => Awaits[pc[t]] # "channel"
  <2> SUFFICES ASSUME NEW t \in T, pc[t] \in DOMAIN Awaits, Awaits[pc[t]] = "channel"
               PROVE  FALSE
    OBVIOUS
  <2>1. PICK s \in Sessions : s \in T /\ holder["channel"] = s
    BY DEF HeldUp, LocksOK, Threads
  <2>2. pc[s] = "apply"
    BY <2>1 DEF LocksOK
  <2>3. QED
    BY <2>1, <2>2 DEF HeldUp, Awaits
<1>2. \A t \in T : pc[t] \in DOMAIN Awaits => Awaits[pc[t]] # "registry"
  <2> SUFFICES ASSUME NEW t \in T, pc[t] \in DOMAIN Awaits, Awaits[pc[t]] = "registry"
               PROVE  FALSE
    OBVIOUS
  <2>1. PICK s \in Sessions : s \in T /\ holder["registry"] = s
    BY DEF HeldUp, LocksOK, Threads
  <2>2. pc[s] \in {"lockChannel", "apply"}
    BY <2>1 DEF LocksOK
  <2>3. QED
    BY <2>1, <2>2, <1>1 DEF HeldUp, Awaits
<1>3. PICK t \in T : TRUE
  OBVIOUS
<1>4. Awaits[pc[t]] = "ui"
  BY <1>1, <1>2, <1>3 DEF HeldUp, Awaits
<1>5. Mcp \in T /\ holder["ui"] = Mcp
  BY <1>3, <1>4 DEF HeldUp, LocksOK, Threads
<1>6. pc[Mcp] \in McpHoldsUi
  BY <1>5 DEF LocksOK
<1>7. pc[Mcp] \in DOMAIN Awaits /\ Awaits[pc[Mcp]] \in {"registry", "channel"}
  BY <1>5, <1>6 DEF HeldUp, McpHoldsUi, Awaits
<1>8. QED
  BY <1>1, <1>2, <1>5, <1>7

\* However many task panes send frames and UI windows poll while MCP requests
\* are served, the threads never wait for each other in a circle.
THEOREM NoDeadlock == Spec => []NoCircularWait
  BY LocksHeld, LocksExcludeCircles, PTL

-----------------------------------------------------------------------------
(* The types, and who is served *)

\* The client that is served has connected, and once its request is read
\* nothing but the end of the request changes its connection.
ServedOK ==
  /\ pc[Mcp] # "accept" => serving \in Clients /\ conn[serving] # "off"
  /\ pc[Mcp] \in McpHoldsUi \ {"prune", "snapshot", "read"} =>
       conn[serving] = "sent"

LEMMA TypesStart == Init => TypeOK /\ ServedOK
<1> SUFFICES ASSUME Init PROVE TypeOK /\ ServedOK
  OBVIOUS
<1>1. LocksOK
  BY DEF Init, LocksOK, Locks, Threads, McpSteps, McpHoldsUi, PaneSteps, UiSteps
<1>2. pc[Mcp] = "accept"
  BY DEF Init, Threads
<1>3. TypeOK
  BY <1>1 DEF Init, TypeOK, Policies, Requests, States, Files
<1> QED
  BY <1>2, <1>3 DEF ServedOK, McpHoldsUi

\* A step of another thread leaves the MCP thread where it is.
LEMMA McpStays ==
  ASSUME LocksOK, NEW t \in Sessions \cup UiThreads, NEW l, Goto(t, l)
  PROVE  pc'[Mcp] = pc[Mcp]
  BY DEF Goto, LocksOK

\* TypeOK without the locks.
RestOK ==
  /\ conn \in [Clients -> {"off", "open", "sent", "closed", "done"}]
  /\ request \in [Clients -> Requests]
  /\ serving \in Clients \cup {NoClient}
  /\ snapshot \in [Sessions -> States] /\ registry \in [Sessions -> States]
  /\ bound \subseteq Sessions /\ overdue \subseteq Sessions
  /\ frames \in 0 .. MaxFrames
  /\ file \in Files
  /\ {gate, policy, uiPolicy} \subseteq Policies
  /\ wanted \in [UiThreads -> Policies] /\ draft \in [UiThreads -> BOOLEAN]
  /\ inForce \in [Clients -> SUBSET Policies]
  /\ disturbed \subseteq {"overlap", "failed"}

\* The end of a request.
LEMMA EndKeeps ==
  ASSUME LocksOK, RestOK, ServedOK, EndRequest
  PROVE  RestOK' /\ ServedOK'
<1>1. pc'[Mcp] = "accept"
  BY DEF EndRequest, Goto, LocksOK, Threads
<1>2. ServedOK'
  BY <1>1 DEF ServedOK, McpHoldsUi
<1>3. /\ conn' \in [Clients -> {"off", "open", "sent", "closed", "done"}]
      /\ request' \in [Clients -> Requests]
      /\ inForce' \in [Clients -> SUBSET Policies]
  BY DEF EndRequest, RestOK, Requests
<1>4. snapshot' \in [Sessions -> States] /\ gate' \in Policies
  BY DEF EndRequest, States, Policies
<1>5. RestOK'
  BY <1>3, <1>4 DEF EndRequest, RestOK, paneVars, policyVars
<1> QED
  BY <1>2, <1>5

LEMMA TypesStep ==
  ASSUME LocksOK, RestOK, ServedOK, [Next]_vars
  PROVE  RestOK' /\ ServedOK'
<1> USE DEF clientVars, mcpVars, paneVars, policyVars
<1>1. ASSUME NEW c \in Clients, Connect(c) PROVE RestOK' /\ ServedOK'
  <2>1. RestOK'
    BY <1>1 DEF Connect, RestOK
  <2>2. ServedOK'
    BY <1>1 DEF Connect, RestOK, ServedOK
  <2> QED
    BY <2>1, <2>2
<1>2. ASSUME NEW c \in Clients, Hangup(c) PROVE RestOK' /\ ServedOK'
  <2>1. RestOK'
    BY <1>2 DEF Hangup, RestOK
  <2>2. ServedOK'
    BY <1>2 DEF Hangup, RestOK, ServedOK
  <2> QED
    BY <2>1, <2>2
<1>3. ASSUME NEW c \in Clients, NEW r \in Requests, Send(c, r)
      PROVE  RestOK' /\ ServedOK'
  <2>1. RestOK'
    BY <1>3 DEF Send, RestOK
  <2>2. ServedOK'
    BY <1>3 DEF Send, RestOK, ServedOK
  <2> QED
    BY <2>1, <2>2
<1>4. ASSUME NEW c \in Clients, Accept(c) PROVE RestOK' /\ ServedOK'
  <2>1. RestOK'
    BY <1>4 DEF Accept, RestOK
  <2>2. ServedOK'
    BY <1>4 DEF Accept, At, Goto, LocksOK, Threads, ServedOK, McpHoldsUi
  <2> QED
    BY <2>1, <2>2
<1>5. CASE LockUiState \/ PruneAtAccept \/ TakeSnapshot \/ ReadRequest \/ ClonePolicy
  <2>1. RestOK'
    <3>1. Pruned \in [Sessions -> States]
      BY DEF Pruned, RestOK, States
    <3>2. CASE LockUiState \/ ReadRequest
      BY <1>5, <3>2 DEF LockUiState, ReadRequest, RestOK
    <3>3. CASE PruneAtAccept
      BY <3>1, <3>3 DEF PruneAtAccept, RestOK
    <3>4. CASE TakeSnapshot
      BY <3>4 DEF TakeSnapshot, RestOK
    <3>5. CASE ClonePolicy
      BY <3>5 DEF ClonePolicy, RestOK
    <3> QED
      BY <1>5, <3>2, <3>3, <3>4, <3>5
  <2>2. ServedOK'
    BY <1>5 DEF LockUiState, PruneAtAccept, TakeSnapshot, ReadRequest, ClonePolicy,
                At, Goto, LocksOK, Threads, ServedOK, McpHoldsUi
  <2> QED
    BY <2>1, <2>2
<1>6. CASE Enqueue \/ BuildPayload \/ Invoke \/ DeadlineExpires
  <2>1. RestOK'
    BY <1>6 DEF Enqueue, BuildPayload, Invoke, DeadlineExpires, RestOK
  <2>2. ServedOK'
    BY <1>6 DEF Enqueue, BuildPayload, Invoke, DeadlineExpires,
                At, Goto, LocksOK, Threads, ServedOK, McpHoldsUi
  <2> QED
    BY <2>1, <2>2
<1>7. CASE \/ ReadFails \/ AnswerList \/ StopByPolicy \/ FailPreflight
           \/ NoConnection \/ SendCancel \/ PaneAnswers
  BY <1>7, EndKeeps DEF ReadFails, AnswerList, StopByPolicy, FailPreflight,
                        NoConnection, SendCancel, PaneAnswers
<1>8. ASSUME NEW s \in Sessions,
             ReadFrame(s) \/ LockRegistry(s) \/ LockChannel(s) \/ Apply(s)
      PROVE  RestOK' /\ ServedOK'
  <2>1. RestOK'
    <3>1. CASE ReadFrame(s)
      <4>1. frames' \in 0 .. MaxFrames
        BY <3>1 DEF ReadFrame, RestOK
      <4> QED
        BY <3>1, <4>1 DEF ReadFrame, RestOK
    <3>3. CASE LockRegistry(s) \/ LockChannel(s)
      BY <3>3 DEF LockRegistry, LockChannel, RestOK
    <3>2. CASE Apply(s)
      <4>1. registry' \in [Sessions -> States] /\ bound' \subseteq Sessions
        BY <3>2 DEF Apply, RestOK, States
      <4> QED
        BY <3>2, <4>1 DEF Apply, RestOK
    <3> QED
      BY <1>8, <3>1, <3>2, <3>3
  <2>2. pc'[Mcp] = pc[Mcp]
    BY <1>8, McpStays DEF ReadFrame, LockRegistry, LockChannel, Apply
  <2>3. UNCHANGED <<serving, conn>>
    BY <1>8 DEF ReadFrame, LockRegistry, LockChannel, Apply
  <2> QED
    BY <2>1, <2>2, <2>3 DEF ServedOK
<1>9. ASSUME NEW s \in Sessions, GraceEnds(s) PROVE RestOK' /\ ServedOK'
  BY <1>9 DEF GraceEnds, RestOK, ServedOK, States
<1>10. CASE CleanUp
  BY <1>10 DEF CleanUp, Pruned, RestOK, ServedOK, States
<1>11. ASSUME NEW u \in UiThreads, UiRequest(u) \/ ServeUi(u)
       PROVE  RestOK' /\ ServedOK'
  <2>1. pc'[Mcp] = pc[Mcp]
    BY <1>11, McpStays
       DEF UiRequest, ServeUi, PruneForUi, GetState, PutPolicy, ReadConfig, Truncate,
           WriteConfig, SaveFails, EndUpdate, SetPolicy, SetUiPolicy, SnapRegistry, SnapUi
  <2>2. UNCHANGED <<serving, conn>>
    BY <1>11
       DEF UiRequest, ServeUi, PruneForUi, GetState, PutPolicy, ReadConfig, Truncate,
           WriteConfig, SaveFails, EndUpdate, SetPolicy, SetUiPolicy, SnapRegistry, SnapUi
  <2>3. CASE \/ UiRequest(u) \/ PruneForUi(u) \/ GetState(u)
             \/ SnapRegistry(u) \/ SnapUi(u)
    <3>1. Pruned \in [Sessions -> States]
      BY DEF Pruned, RestOK, States
    <3>2. CASE PruneForUi(u)
      BY <2>1, <2>2, <3>1, <3>2 DEF PruneForUi, RestOK, ServedOK
    <3>3. CASE UiRequest(u) \/ GetState(u) \/ SnapRegistry(u) \/ SnapUi(u)
      BY <2>1, <2>2, <3>3 DEF UiRequest, GetState, SnapRegistry, SnapUi, RestOK, ServedOK
    <3> QED
      BY <2>3, <3>2, <3>3
  <2>4. CASE \/ \E p \in Policies : PutPolicy(u, p)
             \/ ReadConfig(u) \/ Truncate(u) \/ WriteConfig(u) \/ SaveFails(u)
    <3>1. Tools \in Policies /\ file.rest \in BOOLEAN
      BY DEF RestOK, Files, Policies
    <3>2. CASE \E p \in Policies : PutPolicy(u, p)
      BY <2>1, <2>2, <3>2 DEF PutPolicy, RestOK, ServedOK
    <3>3. CASE ReadConfig(u)
      BY <2>1, <2>2, <3>1, <3>3 DEF ReadConfig, RestOK, ServedOK
    <3>4. CASE Truncate(u)
      BY <2>1, <2>2, <3>1, <3>4 DEF Truncate, RestOK, ServedOK, Files
    <3>5. CASE WriteConfig(u)
      BY <2>1, <2>2, <3>5 DEF WriteConfig, RestOK, ServedOK, Files
    <3>6. CASE SaveFails(u)
      BY <2>1, <2>2, <3>1, <3>6 DEF SaveFails, EndUpdate, RestOK, ServedOK
    <3> QED
      BY <2>4, <3>2, <3>3, <3>4, <3>5, <3>6
  <2>5. CASE SetPolicy(u) \/ SetUiPolicy(u)
    <3>1. Tools \in Policies /\ wanted[u] \in Policies
      BY DEF RestOK, Policies
    <3>2. CASE SetPolicy(u)
      <4>1. inForce' \in [Clients -> SUBSET Policies]
        BY <3>1, <3>2 DEF SetPolicy, RestOK
      <4> QED
        BY <2>1, <2>2, <3>1, <3>2, <4>1 DEF SetPolicy, RestOK, ServedOK
    <3>3. CASE SetUiPolicy(u)
      BY <2>1, <2>2, <3>1, <3>3 DEF SetUiPolicy, EndUpdate, RestOK, ServedOK
    <3> QED
      BY <2>5, <3>2, <3>3
  <2> QED
    BY <1>11, <2>3, <2>4, <2>5 DEF ServeUi
<1>12. CASE UNCHANGED vars
  BY <1>12 DEF vars, RestOK, ServedOK
<1> QED
  BY <1>1, <1>2, <1>3, <1>4, <1>5, <1>6, <1>7, <1>8, <1>9, <1>10, <1>11, <1>12
     DEF Next, ClientStep, McpStep, HandleFrame

\* What the rest of this module builds on.
Base == LocksOK /\ RestOK /\ ServedOK

LEMMA BaseStart == Init => Base
  BY TypesStart DEF Base, TypeOK, RestOK

LEMMA BaseStep == Base /\ [Next]_vars => Base'
  BY LocksStep, TypesStep DEF Base

THEOREM TypeCorrect == Spec => []TypeOK
<1>1. Base => TypeOK
  BY DEF Base, TypeOK, RestOK
<1> QED
  BY <1>1, BaseStart, BaseStep, PTL DEF Spec

-----------------------------------------------------------------------------
(* The policy of a request *)

\* The policy in force is one of those in force since a request was sent.
InForceOK ==
  /\ \A c \in Clients : conn[c] = "sent" => policy \in inForce[c]
  /\ PolicyIsCurrent

LEMMA InForceStep ==
  ASSUME Base, Base', InForceOK, [Next]_vars
  PROVE  InForceOK'
<1> USE DEF clientVars, mcpVars, paneVars, policyVars
<1>a. ASSUME pc'[Mcp] = pc[Mcp], UNCHANGED <<serving, conn, policy, inForce, gate>>
      PROVE  InForceOK'
  BY <1>a DEF InForceOK, PolicyIsCurrent
<1>1. ASSUME NEW c \in Clients, Connect(c) \/ Hangup(c) PROVE InForceOK'
  <2>1. \A d \in Clients : conn'[d] = "sent" => conn[d] = "sent"
    BY <1>1 DEF Connect, Hangup, Base, RestOK
  <2>2. UNCHANGED <<pc, serving, policy, inForce, gate>>
    BY <1>1 DEF Connect, Hangup
  <2> QED
    BY <2>1, <2>2 DEF InForceOK, PolicyIsCurrent
<1>2. ASSUME NEW c \in Clients, NEW r \in Requests, Send(c, r) PROVE InForceOK'
  <2>1. \A d \in Clients : conn'[d] = "sent" => policy \in inForce'[d]
    BY <1>2 DEF Send, Base, RestOK, InForceOK
  <2>2. PolicyIsCurrent'
    <3>1. SUFFICES ASSUME pc[Mcp] \in McpHoldsUi \ {"prune", "snapshot", "read", "policy"}
                   PROVE  gate \in inForce'[serving]
      BY <1>2 DEF Send, PolicyIsCurrent
    <3>2. serving # c
      BY <1>2, <3>1 DEF Send, Base, ServedOK, McpHoldsUi
    <3>3. gate \in inForce[serving]
      BY <3>1 DEF InForceOK, PolicyIsCurrent
    <3>4. serving \in Clients
      BY <3>1 DEF Base, ServedOK, McpHoldsUi
    <3> QED
      BY <1>2, <3>2, <3>3, <3>4 DEF Send, Base, RestOK
  <2> QED
    BY <1>2, <2>1, <2>2 DEF Send, InForceOK
<1>3. ASSUME \/ \E c \in Clients : Accept(c)
             \/ LockUiState \/ PruneAtAccept \/ TakeSnapshot \/ ReadRequest
      PROVE  InForceOK'
  <2>1. pc'[Mcp] \in {"lockUi", "prune", "snapshot", "read", "policy"}
    BY <1>3 DEF Accept, LockUiState, PruneAtAccept, TakeSnapshot, ReadRequest, Goto,
                Base, LocksOK, Threads
  <2>2. UNCHANGED <<conn, policy, inForce>>
    BY <1>3 DEF Accept, LockUiState, PruneAtAccept, TakeSnapshot, ReadRequest
  <2> QED
    BY <2>1, <2>2 DEF InForceOK, PolicyIsCurrent, McpHoldsUi
<1>4. CASE ClonePolicy
  <2>1. conn[serving] = "sent" /\ serving \in Clients
    BY <1>4 DEF ClonePolicy, At, Base, ServedOK, McpHoldsUi
  <2> QED
    BY <1>4, <2>1 DEF ClonePolicy, InForceOK, PolicyIsCurrent
<1>5. CASE Enqueue \/ BuildPayload \/ Invoke \/ DeadlineExpires
  <2>1. pc[Mcp] \in McpHoldsUi \ {"prune", "snapshot", "read", "policy"}
    BY <1>5 DEF Enqueue, BuildPayload, Invoke, DeadlineExpires, At, McpHoldsUi
  <2>2. UNCHANGED <<serving, conn, policy, inForce, gate>>
    BY <1>5 DEF Enqueue, BuildPayload, Invoke, DeadlineExpires
  <2> QED
    BY <2>1, <2>2 DEF InForceOK, PolicyIsCurrent
<1>6. CASE \/ ReadFails \/ AnswerList \/ StopByPolicy \/ FailPreflight
           \/ NoConnection \/ SendCancel \/ PaneAnswers
  <2>1. EndRequest
    BY <1>6 DEF ReadFails, AnswerList, StopByPolicy, FailPreflight,
                NoConnection, SendCancel, PaneAnswers
  <2>2. pc'[Mcp] = "accept"
    BY <2>1 DEF EndRequest, Goto, Base, LocksOK, Threads
  <2>3. \A c \in Clients : conn'[c] = "sent" => policy' \in inForce'[c]
    BY <2>1 DEF EndRequest, Base, RestOK, InForceOK
  <2> QED
    BY <2>2, <2>3 DEF InForceOK, PolicyIsCurrent, McpHoldsUi
<1>7. ASSUME NEW s \in Sessions,
             ReadFrame(s) \/ LockRegistry(s) \/ LockChannel(s) \/ Apply(s)
      PROVE  InForceOK'
  <2>1. pc'[Mcp] = pc[Mcp]
    BY <1>7, McpStays DEF ReadFrame, LockRegistry, LockChannel, Apply, Base
  <2> QED
    BY <1>7, <1>a, <2>1 DEF ReadFrame, LockRegistry, LockChannel, Apply
<1>8. ASSUME (\E s \in Sessions : GraceEnds(s)) \/ CleanUp \/ UNCHANGED vars
      PROVE  InForceOK'
  BY <1>8, <1>a DEF GraceEnds, CleanUp, vars
<1>9. ASSUME NEW u \in UiThreads, UiRequest(u) \/ ServeUi(u)
      PROVE  InForceOK'
  <2>1. pc'[Mcp] = pc[Mcp]
    BY <1>9, McpStays
       DEF UiRequest, ServeUi, PruneForUi, GetState, PutPolicy, ReadConfig, Truncate,
           WriteConfig, SaveFails, EndUpdate, SetPolicy, SetUiPolicy, SnapRegistry,
           SnapUi, Base
  <2>2. CASE SetPolicy(u)
    <3>1. \A c \in Clients : conn[c] = "sent" => policy' \in inForce'[c]
      BY <2>2 DEF SetPolicy
    <3>2. \A c \in Clients : inForce[c] \subseteq inForce'[c]
      BY <2>2 DEF SetPolicy
    <3>3. PolicyIsCurrent'
      <4>1. SUFFICES ASSUME pc[Mcp] \in McpHoldsUi \ {"prune", "snapshot", "read", "policy"}
                     PROVE  gate \in inForce'[serving]
        BY <2>1, <2>2 DEF SetPolicy, PolicyIsCurrent
      <4>2. serving \in Clients
        BY <4>1 DEF Base, ServedOK, McpHoldsUi
      <4> QED
        BY <3>2, <4>1, <4>2 DEF InForceOK, PolicyIsCurrent
    <3> QED
      BY <2>2, <3>1, <3>3 DEF SetPolicy, InForceOK
  <2>3. CASE ~SetPolicy(u)
    BY <1>9, <1>a, <2>1, <2>3
       DEF UiRequest, ServeUi, PruneForUi, GetState, PutPolicy, ReadConfig, Truncate,
           WriteConfig, SaveFails, SetUiPolicy, SnapRegistry, SnapUi
  <2> QED
    BY <2>2, <2>3
<1> QED
  BY <1>1, <1>2, <1>3, <1>4, <1>5, <1>6, <1>7, <1>8, <1>9
     DEF Next, ClientStep, McpStep, HandleFrame

\* However many UI requests change the policy while a request is read, waits
\* for a lock or for a pane: it is judged by a policy that was in force since
\* it was sent.
THEOREM PolicyStaysCurrent == Spec => []PolicyIsCurrent
<1>1. Init => InForceOK
  BY DEF Init, InForceOK, PolicyIsCurrent, Threads, McpHoldsUi
<1>2. InForceOK => PolicyIsCurrent
  BY DEF InForceOK
<1> QED
  BY <1>1, <1>2, BaseStart, BaseStep, InForceStep, PTL DEF Spec

-----------------------------------------------------------------------------
(* The three places of the policy *)

\* What an update that nobody disturbs leaves behind, step by step.
UpdateOK(u) ==
  /\ pc[u] \in {"readConfig", "truncate"} =>
       file = [policy |-> policy, rest |-> TRUE] /\ uiPolicy = policy
  /\ pc[u] \in {"truncate", "writeConfig"} => draft[u] = TRUE
  /\ pc[u] = "writeConfig" => uiPolicy = policy
  /\ pc[u] = "setPolicy" =>
       file = [policy |-> wanted[u], rest |-> TRUE] /\ uiPolicy = policy
  /\ pc[u] = "setUi" =>
       file = [policy |-> policy, rest |-> TRUE] /\ policy = wanted[u]

Undisturbed ==
  disturbed = {} =>
    /\ \A u, v \in UiThreads : pc[u] \in Updating /\ pc[v] \in Updating => u = v
    /\ \A u \in UiThreads : UpdateOK(u)
    /\ PolicyAgrees

\* A step that is not a UI thread's leaves all of it alone.
LEMMA OthersLeavePolicies ==
  ASSUME Base, Undisturbed, UNCHANGED policyVars,
         \A u \in UiThreads : pc'[u] = pc[u]
  PROVE  Undisturbed'
<1>1. NobodyUpdates' <=> NobodyUpdates
  BY DEF NobodyUpdates
<1>2. \A u \in UiThreads : UpdateOK(u)' <=> UpdateOK(u)
  BY DEF UpdateOK, policyVars
<1> QED
  BY <1>1, <1>2 DEF Undisturbed, PolicyAgrees, policyVars

LEMMA UiStepUndisturbed ==
  ASSUME Base, Undisturbed, NEW u \in UiThreads, UiRequest(u) \/ ServeUi(u)
  PROVE  Undisturbed'
<1>1. \A v \in UiThreads \ {u} : pc'[v] = pc[v]
  BY DEF UiRequest, ServeUi, PruneForUi, GetState, PutPolicy, ReadConfig, Truncate,
         WriteConfig, SaveFails, EndUpdate, SetPolicy, SetUiPolicy, SnapRegistry,
         SnapUi, Goto, Base, LocksOK, Threads
<1>t. u \in DOMAIN pc /\ u \in DOMAIN wanted /\ u \in DOMAIN draft
  BY DEF Base, LocksOK, Threads, RestOK
<1>2. CASE \/ UiRequest(u) \/ PruneForUi(u) \/ GetState(u)
           \/ SnapRegistry(u) \/ SnapUi(u)
  <2>1. pc[u] \notin Updating /\ pc'[u] \notin Updating /\ UNCHANGED policyVars
    BY <1>2, <1>t DEF UiRequest, PruneForUi, GetState, SnapRegistry, SnapUi, At, Goto, Updating
  <2>2. NobodyUpdates' <=> NobodyUpdates
    BY <1>1, <2>1 DEF NobodyUpdates
  <2>3. \A v \in UiThreads : UpdateOK(v) => UpdateOK(v)'
    <3>1. UpdateOK(u)'
      BY <2>1 DEF UpdateOK, Updating
    <3>2. \A v \in UiThreads \ {u} : UpdateOK(v) => UpdateOK(v)'
      BY <1>1, <2>1 DEF UpdateOK, policyVars
    <3> QED
      BY <3>1, <3>2
  <2> QED
    BY <1>1, <2>1, <2>2, <2>3 DEF Undisturbed, PolicyAgrees, policyVars
<1> SUFFICES ASSUME disturbed' = {},
                    ~(\/ UiRequest(u) \/ PruneForUi(u) \/ GetState(u)
                      \/ SnapRegistry(u) \/ SnapUi(u))
             PROVE  Undisturbed'
  BY <1>2 DEF Undisturbed
<1>3. /\ disturbed = {}
      /\ \A v \in UiThreads \ {u} : pc[v] \notin Updating
  <2>1. CASE \E p \in Policies : PutPolicy(u, p)
    <3>1. disturbed = {} /\ NobodyUpdates
      BY <2>1 DEF PutPolicy
    <3> QED
      BY <3>1 DEF NobodyUpdates
  <2>2. CASE ~\E p \in Policies : PutPolicy(u, p)
    <3>1. disturbed = {}
      BY <2>2 DEF UiRequest, ServeUi, ReadConfig, Truncate, WriteConfig, SaveFails,
                  SetPolicy, SetUiPolicy
    <3>2. pc[u] \in Updating
      BY <2>2 DEF UiRequest, ServeUi, ReadConfig, Truncate, WriteConfig, SaveFails,
                  SetPolicy, SetUiPolicy, At, Updating
    <3> QED
      BY <3>1, <3>2 DEF Undisturbed
  <2> QED
    BY <2>1, <2>2
<1>4. UpdateOK(u)
  BY <1>3 DEF Undisturbed
<1>5. ASSUME UpdateOK(u)', pc'[u] \notin Updating => PolicyAgrees'
      PROVE  Undisturbed'
  <2>1. \A v \in UiThreads \ {u} : pc'[v] \notin Updating
    BY <1>1, <1>3
  <2>2. \A v \in UiThreads : UpdateOK(v)'
    BY <1>5, <2>1 DEF UpdateOK, Updating
  <2>3. PolicyAgrees'
    BY <1>5 DEF PolicyAgrees, NobodyUpdates
  <2> QED
    BY <2>1, <2>2, <2>3 DEF Undisturbed
<1>6. ASSUME NEW p \in Policies, PutPolicy(u, p) PROVE Undisturbed'
  <2>1. NobodyUpdates
    BY <1>6 DEF PutPolicy
  <2>2. file = [policy |-> policy, rest |-> TRUE] /\ uiPolicy = policy
    BY <1>3, <2>1 DEF Undisturbed, PolicyAgrees
  <2>3. pc'[u] = "readConfig" /\ UNCHANGED <<file, policy, uiPolicy>>
    BY <1>6, <1>t DEF PutPolicy, Goto
  <2> QED
    BY <1>5, <2>2, <2>3 DEF UpdateOK, Updating
<1>7. CASE ReadConfig(u)
  <2>1. pc[u] = "readConfig" /\ pc'[u] = "truncate" /\ draft'[u] = file.rest
    BY <1>7, <1>t DEF ReadConfig, At, Goto
  <2>2. file = [policy |-> policy, rest |-> TRUE] /\ uiPolicy = policy
    BY <1>4, <2>1 DEF UpdateOK
  <2> QED
    BY <1>5, <1>7, <2>1, <2>2 DEF ReadConfig, UpdateOK, Updating
<1>8. CASE Truncate(u)
  <2>1. pc[u] = "truncate" /\ pc'[u] = "writeConfig"
    BY <1>8, <1>t DEF Truncate, At, Goto
  <2> QED
    BY <1>4, <1>5, <1>8, <2>1 DEF Truncate, UpdateOK, Updating
<1>9. CASE WriteConfig(u)
  <2>1. pc[u] = "writeConfig" /\ pc'[u] = "setPolicy"
    BY <1>9, <1>t DEF WriteConfig, At, Goto
  <2> QED
    BY <1>4, <1>5, <1>9, <2>1 DEF WriteConfig, UpdateOK, Updating
<1>10. CASE SaveFails(u)
  <2>1. pc'[u] = "idle" /\ UNCHANGED <<file, policy, uiPolicy>>
    BY <1>10, <1>t DEF SaveFails, EndUpdate, Goto
  <2>2. pc[u] \in {"readConfig", "truncate"}
    BY <1>10 DEF SaveFails, At
  <2>3. file = [policy |-> policy, rest |-> TRUE] /\ uiPolicy = policy
    BY <1>4, <2>2 DEF UpdateOK
  <2> QED
    BY <1>5, <2>1, <2>3 DEF UpdateOK, PolicyAgrees
<1>11. CASE SetPolicy(u)
  <2>1. pc[u] = "setPolicy" /\ pc'[u] = "setUi"
    BY <1>11, <1>t DEF SetPolicy, At, Goto
  <2> QED
    BY <1>4, <1>5, <1>11, <2>1 DEF SetPolicy, UpdateOK, Updating
<1>12. CASE SetUiPolicy(u)
  <2>1. pc[u] = "setUi" /\ pc'[u] = "snapRegistry" /\ uiPolicy' = wanted[u]
        /\ UNCHANGED <<file, policy>>
    BY <1>12, <1>t DEF SetUiPolicy, EndUpdate, At, Goto
  <2> QED
    BY <1>4, <1>5, <2>1 DEF UpdateOK, PolicyAgrees
<1> QED
  BY <1>6, <1>7, <1>8, <1>9, <1>10, <1>11, <1>12 DEF ServeUi

\* A thread that is not a UI thread moves no UI thread.
LEMMA UiStays ==
  ASSUME Base, NEW t \in {Mcp} \cup Sessions, NEW l, Goto(t, l)
  PROVE  \A u \in UiThreads : pc'[u] = pc[u]
  BY DEF Goto, Base, LocksOK, Threads

LEMMA UndisturbedStep ==
  ASSUME Base, Undisturbed, [Next]_vars
  PROVE  Undisturbed'
<1>1. CASE ClientStep \/ CleanUp \/ (\E s \in Sessions : GraceEnds(s)) \/ UNCHANGED vars
  BY <1>1, OthersLeavePolicies
     DEF ClientStep, Connect, Hangup, Send, CleanUp, GraceEnds, vars, policyVars
<1>2. CASE McpStep \/ PaneAnswers
  <2>1. UNCHANGED policyVars
    BY <1>2 DEF McpStep, Accept, LockUiState, PruneAtAccept, TakeSnapshot, ReadRequest,
                ReadFails, ClonePolicy, AnswerList, StopByPolicy, FailPreflight, Enqueue,
                BuildPayload, Invoke, NoConnection, DeadlineExpires, SendCancel,
                PaneAnswers, EndRequest
  <2>2. \A u \in UiThreads : pc'[u] = pc[u]
    BY <1>2, UiStays
       DEF McpStep, Accept, LockUiState, PruneAtAccept, TakeSnapshot, ReadRequest,
           ReadFails, ClonePolicy, AnswerList, StopByPolicy, FailPreflight, Enqueue,
           BuildPayload, Invoke, NoConnection, DeadlineExpires, SendCancel,
           PaneAnswers, EndRequest
  <2> QED
    BY <2>1, <2>2, OthersLeavePolicies
<1>3. ASSUME NEW s \in Sessions, ReadFrame(s) \/ HandleFrame(s) PROVE Undisturbed'
  <2>1. UNCHANGED policyVars
    BY <1>3 DEF ReadFrame, HandleFrame, LockRegistry, LockChannel, Apply
  <2>2. \A u \in UiThreads : pc'[u] = pc[u]
    BY <1>3, UiStays DEF ReadFrame, HandleFrame, LockRegistry, LockChannel, Apply
  <2> QED
    BY <2>1, <2>2, OthersLeavePolicies
<1>4. ASSUME NEW u \in UiThreads, UiRequest(u) \/ ServeUi(u) PROVE Undisturbed'
  BY <1>4, UiStepUndisturbed
<1> QED
  BY <1>1, <1>2, <1>3, <1>4 DEF Next

\* Whatever MCP requests hold the UI state in between: an update that neither
\* overlaps another nor fails leaves one policy in file, force and UI.
THEOREM PoliciesAgree == Spec => []PolicyAgrees
<1>1. Init => Undisturbed
  <2> SUFFICES ASSUME Init PROVE Undisturbed
    OBVIOUS
  <2>1. \A u \in UiThreads : pc[u] = "idle"
    BY DEF Init, Threads
  <2>2. file = [policy |-> policy, rest |-> TRUE] /\ uiPolicy = policy
    BY DEF Init
  <2> QED
    BY <2>1, <2>2 DEF Undisturbed, UpdateOK, PolicyAgrees, Updating
<1>2. Undisturbed => PolicyAgrees
  BY DEF Undisturbed, PolicyAgrees
<1> QED
  BY <1>1, <1>2, BaseStart, BaseStep, UndisturbedStep, PTL DEF Spec

-----------------------------------------------------------------------------
(* The sessions of a request *)

\* What was expired at the accept is absent once the registry is pruned, and
\* so in the snapshot, unless it came back.
OverdueOK ==
  /\ pc[Mcp] \in {"lockUi", "prune"} =>
       \A s \in overdue : registry[s] \in {"expired", "absent"}
  /\ pc[Mcp] = "snapshot" => \A s \in overdue : registry[s] = "absent"
  /\ ListedHadGrace

\* Steps that leave the MCP thread and what it knows alone.
LEMMA OthersKeepOverdue ==
  ASSUME Base, OverdueOK, pc'[Mcp] = pc[Mcp], UNCHANGED snapshot,
         overdue' \subseteq overdue,
         \A s \in overdue' : registry'[s] = registry[s] \/ registry'[s] = "absent"
  PROVE  OverdueOK'
  BY DEF OverdueOK, ListedHadGrace

LEMMA OverdueStep ==
  ASSUME Base, Base', OverdueOK, [Next]_vars
  PROVE  OverdueOK'
<1> USE DEF clientVars, mcpVars, paneVars, policyVars
<1>p. \A s \in Sessions : Pruned[s] = registry[s] \/ Pruned[s] = "absent"
  BY DEF Pruned
<1>o. overdue \subseteq Sessions
  BY DEF Base, RestOK
<1>1. CASE ClientStep
  BY <1>1, OthersKeepOverdue DEF ClientStep, Connect, Hangup, Send
<1>2. ASSUME NEW c \in Clients, Accept(c) PROVE OverdueOK'
  <2>1. pc'[Mcp] = "lockUi"
    BY <1>2 DEF Accept, Goto, Base, LocksOK, Threads
  <2> QED
    BY <1>2, <2>1 DEF Accept, OverdueOK, ListedHadGrace, McpHoldsUi
<1>3. CASE LockUiState
  <2>1. pc[Mcp] = "lockUi" /\ pc'[Mcp] = "prune"
    BY <1>3 DEF LockUiState, At, Goto, Base, LocksOK, Threads
  <2> QED
    BY <1>3, <2>1 DEF LockUiState, OverdueOK, ListedHadGrace
<1>4. CASE PruneAtAccept
  <2>1. pc[Mcp] = "prune" /\ pc'[Mcp] = "snapshot"
    BY <1>4 DEF PruneAtAccept, At, Goto, Base, LocksOK, Threads
  <2>2. \A s \in overdue : registry[s] \in {"expired", "absent"}
    BY <2>1 DEF OverdueOK
  <2>3. \A s \in overdue : registry'[s] = "absent"
    BY <1>4, <1>o, <2>2 DEF PruneAtAccept, Pruned
  <2> QED
    BY <1>4, <2>1, <2>3 DEF PruneAtAccept, OverdueOK, ListedHadGrace
<1>5. CASE TakeSnapshot
  <2>1. pc[Mcp] = "snapshot" /\ pc'[Mcp] = "read"
    BY <1>5 DEF TakeSnapshot, At, Goto, Base, LocksOK, Threads
  <2>2. \A s \in overdue : registry[s] = "absent"
    BY <2>1 DEF OverdueOK
  <2> QED
    BY <1>5, <2>1, <2>2 DEF TakeSnapshot, OverdueOK, ListedHadGrace
<1>6. CASE \/ ReadRequest \/ ClonePolicy
           \/ Enqueue \/ BuildPayload \/ Invoke \/ DeadlineExpires
  <2>1. /\ pc[Mcp] \in McpHoldsUi \ {"prune", "snapshot"}
        /\ pc'[Mcp] \in McpHoldsUi \ {"prune", "snapshot"}
    BY <1>6 DEF ReadRequest, ClonePolicy, Enqueue, BuildPayload, Invoke,
                DeadlineExpires, At, Goto, Base, LocksOK, Threads, McpHoldsUi
  <2>2. UNCHANGED <<snapshot, overdue>>
    BY <1>6 DEF ReadRequest, ClonePolicy, Enqueue, BuildPayload, Invoke, DeadlineExpires
  <2> QED
    BY <2>1, <2>2 DEF OverdueOK, ListedHadGrace, McpHoldsUi
<1>7. CASE \/ ReadFails \/ AnswerList \/ StopByPolicy \/ FailPreflight
           \/ NoConnection \/ SendCancel \/ PaneAnswers
  <2>1. EndRequest
    BY <1>7 DEF ReadFails, AnswerList, StopByPolicy, FailPreflight,
                NoConnection, SendCancel, PaneAnswers
  <2>2. pc'[Mcp] = "accept"
    BY <2>1 DEF EndRequest, Goto, Base, LocksOK, Threads
  <2> QED
    BY <2>2 DEF OverdueOK, ListedHadGrace, McpHoldsUi
<1>8. ASSUME NEW s \in Sessions, ReadFrame(s) \/ LockRegistry(s) \/ LockChannel(s)
      PROVE  OverdueOK'
  <2>1. pc'[Mcp] = pc[Mcp]
    BY <1>8, McpStays DEF ReadFrame, LockRegistry, LockChannel, Base
  <2> QED
    BY <1>8, <2>1, OthersKeepOverdue DEF ReadFrame, LockRegistry, LockChannel
<1>9. ASSUME NEW s \in Sessions, Apply(s) PROVE OverdueOK'
  <2>1. pc'[Mcp] = pc[Mcp]
    BY <1>9, McpStays DEF Apply, Base
  <2>2. \A d \in Sessions \ {s} : registry'[d] = registry[d] \/ registry'[d] = "absent"
    BY <1>9 DEF Apply, Base, RestOK
  <2>3. overdue' \subseteq overdue
    BY <1>9 DEF Apply
  <2>4. s \in overdue' => registry'[s] = registry[s]
    <3>1. SUFFICES ASSUME s \in overdue' PROVE registry'[s] = registry[s]
      OBVIOUS
    <3>2. registry'[s] = "expired"
      BY <1>9, <3>1 DEF Apply
    <3> QED
      BY <1>9, <3>2 DEF Apply, Base, RestOK
  <2> QED
    BY <1>9, <1>o, <2>1, <2>2, <2>3, <2>4, OthersKeepOverdue DEF Apply
<1>10. ASSUME NEW s \in Sessions, GraceEnds(s) PROVE OverdueOK'
  <2>1. \A d \in Sessions \ {s} : registry'[d] = registry[d]
    BY <1>10 DEF GraceEnds, Base, RestOK
  <2>2. registry[s] = "stale"
    BY <1>10 DEF GraceEnds
  <2> QED
    BY <1>10, <1>o, <2>1, <2>2 DEF GraceEnds, OverdueOK, ListedHadGrace
<1>11. CASE CleanUp
  BY <1>11, <1>p, <1>o, OthersKeepOverdue DEF CleanUp
<1>12. ASSUME NEW u \in UiThreads, UiRequest(u) \/ ServeUi(u) PROVE OverdueOK'
  <2>1. pc'[Mcp] = pc[Mcp]
    BY <1>12, McpStays
       DEF UiRequest, ServeUi, PruneForUi, GetState, PutPolicy, ReadConfig, Truncate,
           WriteConfig, SaveFails, EndUpdate, SetPolicy, SetUiPolicy, SnapRegistry,
           SnapUi, Base
  <2>2. UNCHANGED <<snapshot, overdue>> /\ (registry' = registry \/ registry' = Pruned)
    BY <1>12
       DEF UiRequest, ServeUi, PruneForUi, GetState, PutPolicy, ReadConfig, Truncate,
           WriteConfig, SaveFails, EndUpdate, SetPolicy, SetUiPolicy, SnapRegistry, SnapUi
  <2> QED
    BY <1>p, <1>o, <2>1, <2>2, OthersKeepOverdue
<1>13. CASE UNCHANGED vars
  BY <1>13, OthersKeepOverdue DEF vars
<1> QED
  BY <1>1, <1>2, <1>3, <1>4, <1>5, <1>6, <1>7, <1>8, <1>9, <1>10, <1>11, <1>12, <1>13
     DEF Next, McpStep, HandleFrame

\* However late the cleanup thread is, and whatever the panes do between the
\* accept and the clone: no request is served with a session whose grace was
\* over when its connection was accepted.
THEOREM GraceIsKept == Spec => []ListedHadGrace
<1>1. Init => OverdueOK
  BY DEF Init, OverdueOK, ListedHadGrace
<1>2. OverdueOK => ListedHadGrace
  BY DEF OverdueOK
<1> QED
  BY <1>1, <1>2, BaseStart, BaseStep, OverdueStep, PTL DEF Spec
=============================================================================
