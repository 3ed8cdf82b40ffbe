---------------------------- MODULE AddinChannel ----------------------------
(***************************************************************************)
(* The add-in side of the daemon: one thread per WebSocket connection      *)
(* (runtime/websocket_session.rs), the channel table of registered         *)
(* connections with their heartbeat (addin_mgr/addin_channel.rs), the      *)
(* routing table of the connection hub (addin_mgr/connection_hub.rs), the  *)
(* session registry, and the cleanup thread                                *)
(* (runtime/session_cleanup_service.rs).                                   *)
(*                                                                         *)
(* Every handler takes the registry mutex and then the channel mutex and   *)
(* holds both until it returns, and the hub is updated inside: a handler   *)
(* is one atomic action.  Two critical sections of the same thread are two *)
(* actions: the third missed pong (the session goes stale) and the removal *)
(* of the connection that follows it.                                      *)
(*                                                                         *)
(* A connection id is a thread id and is never used again.  The model      *)
(* returns the id of a removed connection to "free", which is sound        *)
(* because nothing refers to it any more (invariant RoutingSound).         *)
(***************************************************************************)
EXTENDS SessionRegistry

CONSTANTS
  Conns,       \* connection ids
  NoConn,      \* hubBinding[i]: no connection is bound to the runtime
  SessionOf    \* the session id each runtime keeps in sessionStorage; the
               \* daemon does not mind if two runtimes have the same

ASSUME ChannelAssumption ==
  /\ NoConn \notin Conns
  /\ SessionOf \in [Instances -> Sessions]

VARIABLES
  socket,       \* the connection's thread: free, in its loop, leaving it
  registered,   \* AddinChannelServer.connections: instance of the connection
  pinging,      \* the ping whose deadline runs: none, pending, or forgotten
                \* by the channel table when the connection registered again
  missed,       \* missed_pongs of the connection
  hubInstance,  \* AddinConnectionHubConnection.instance_id
  hubBinding    \* connection_by_instance of the hub

\* History, kept to say what the daemon loses track of: no action reads it but
\* to update it.
VARIABLES
  severed,      \* runtimes one of whose connections was removed after they last
                \* registered, while another was left
  astray        \* active sessions that a severed runtime has announced

channelVars == <<socket, registered, pinging, missed, hubInstance, hubBinding>>
historyVars == <<severed, astray>>
vars == <<registryVars, channelVars, historyVars>>

MaxMissedPongs == 3

\* The types of the variables; no connection outlives its third missed pong.
TypeOK ==
  /\ RegistryTypeOK
  /\ socket \in [Conns -> {"free", "open", "closing"}]
  /\ registered \in [Conns -> Instances \cup {NoInstance}]
  /\ pinging \in [Conns -> {"none", "pending", "forgotten"}]
  /\ missed \in [Conns -> 0 .. MaxMissedPongs]
  /\ hubInstance \in [Conns -> Instances \cup {NoInstance}]
  /\ hubBinding \in [Instances -> Conns \cup {NoConn}]
  /\ severed \subseteq Instances
  /\ astray \subseteq Sessions

Init ==
  /\ RegistryInit
  /\ socket = [c \in Conns |-> "free"]
  /\ registered = [c \in Conns |-> NoInstance]
  /\ pinging = [c \in Conns |-> "none"]
  /\ missed = [c \in Conns |-> 0]
  /\ hubInstance = [c \in Conns |-> NoInstance]
  /\ hubBinding = [i \in Instances |-> NoConn]
  /\ severed = {}
  /\ astray = {}

-----------------------------------------------------------------------------
(* Handlers of a connection's thread *)

\* The thread is in its loop and the connection has registered.
Registered(c) == socket[c] = "open" /\ registered[c] # NoInstance

\* History: no session is announced; one that is no longer active is not astray.
NoneAnnounced == astray' = {s \in astray : status'[s] = "active"}

\* The upgraded stream gets its thread; the hub learns the connection.
OpenSocket(c) ==
  /\ socket[c] = "free"
  /\ socket' = [socket EXCEPT ![c] = "open"]
  /\ UNCHANGED <<registryVars, registered, pinging, missed, hubInstance, hubBinding,
                 historyVars>>

\* "register": the registry entry is replaced, the connection enters the
\* channel table with a fresh heartbeat, and the hub binds the runtime to this
\* connection, whichever connection it was bound to before.  Nothing is refused:
\* the runtime may have other live connections, and this one may have registered
\* before.  Then the deadline of a ping under way runs on in the thread, but the
\* fresh heartbeat knows nothing of the ping.
Register(c, i) ==
  /\ socket[c] = "open"
  /\ RegisterRuntime(i)
  /\ registered' = [registered EXCEPT ![c] = i]
  /\ pinging' = [pinging EXCEPT ![c] = IF @ = "none" THEN @ ELSE "forgotten"]
  /\ missed' = [missed EXCEPT ![c] = 0]
  /\ hubInstance' = [hubInstance EXCEPT ![c] = i]
  /\ hubBinding' = [hubBinding EXCEPT ![i] = c]
  /\ severed' = severed \ {i}
  /\ NoneAnnounced
  /\ UNCHANGED socket

\* "session.added": accepted when the connection is in the channel table.
\* That the registry has an entry for the runtime is not checked.
SessionAdded(c) ==
  /\ Registered(c)
  /\ AddSession(SessionOf[registered[c]], registered[c])
  /\ astray' = IF registered[c] \in severed
               THEN astray \cup {SessionOf[registered[c]]}
               ELSE astray \ {SessionOf[registered[c]]}
  /\ UNCHANGED <<channelVars, severed>>

\* "session.removed": the session goes at once, with no grace period.  The
\* handler does not look at the connection: any peer may name any session.
SessionRemoved(c, s) ==
  /\ socket[c] = "open"
  /\ status[s] # "absent"
  /\ RemoveSessions({s})
  /\ NoneAnnounced
  /\ UNCHANGED <<channelVars, severed>>

\* The heartbeat interval has elapsed: a ping is sent and is now pending.
StartPing(c) ==
  /\ Registered(c)
  /\ pinging[c] = "none"
  /\ pinging' = [pinging EXCEPT ![c] = "pending"]
  /\ UNCHANGED <<registryVars, socket, registered, missed, hubInstance, hubBinding,
                 historyVars>>

\* The pong of the pending ping arrives.  (One that answers an earlier ping, or
\* one forgotten, changes nothing: module AddinHeartbeat.)
Pong(c) ==
  /\ Registered(c)
  /\ pinging[c] = "pending"
  /\ pinging' = [pinging EXCEPT ![c] = "none"]
  /\ missed' = [missed EXCEPT ![c] = 0]
  /\ UNCHANGED <<registryVars, socket, registered, hubInstance, hubBinding, historyVars>>

\* Faulty variant of MissPong: one missed pong too many is let through.
MissOnePongMore(c) ==
  /\ Registered(c)
  /\ pinging[c] # "none"
  /\ missed[c] < MaxMissedPongs
  /\ pinging' = [pinging EXCEPT ![c] = "none"]
  /\ missed' = [missed EXCEPT ![c] = @ + 1]
  /\ UNCHANGED <<registryVars, socket, registered, hubInstance, hubBinding, historyVars>>

\* The heartbeat deadline passes and the connection is kept.
MissPong(c) ==
  /\ Registered(c)
  /\ pinging[c] # "none"
  /\ missed[c] + 1 < MaxMissedPongs
  /\ pinging' = [pinging EXCEPT ![c] = "none"]
  /\ missed' = [missed EXCEPT ![c] = @ + 1]
  /\ UNCHANGED <<registryVars, socket, registered, hubInstance, hubBinding, historyVars>>

\* The deadline passes for the last time: the runtime's session goes stale
\* and the thread leaves its loop (close code 4002).
HeartbeatClose(c) ==
  /\ Registered(c)
  /\ pinging[c] # "none"
  /\ missed[c] + 1 >= MaxMissedPongs
  /\ pinging' = [pinging EXCEPT ![c] = "none"]
  /\ missed' = [missed EXCEPT ![c] = @ + 1]
  /\ MarkInstanceStale(registered[c])
  /\ socket' = [socket EXCEPT ![c] = "closing"]
  /\ NoneAnnounced
  /\ UNCHANGED <<registered, hubInstance, hubBinding, severed>>

\* The registry's part of a connection's removal.
RemoveFromRegistry(c) ==
  IF registered[c] = NoInstance
  THEN UNCHANGED registryVars
  ELSE RemoveRuntime(registered[c])

\* Faulty variants of UnbindFromHub: the binding stays, and the binding goes
\* only when it names this connection (half of a repair: the registry entry of
\* the runtime still goes).
UnbindNothing(c) ==
  /\ hubInstance' = [hubInstance EXCEPT ![c] = NoInstance]
  /\ UNCHANGED hubBinding
UnbindOwnOnly(c) ==
  /\ hubInstance' = [hubInstance EXCEPT ![c] = NoInstance]
  /\ hubBinding' = [i \in Instances |-> IF hubBinding[i] = c THEN NoConn ELSE hubBinding[i]]

\* The hub's part: the binding of the connection's runtime is deleted,
\* whichever connection it names.
UnbindFromHub(c) ==
  /\ hubInstance' = [hubInstance EXCEPT ![c] = NoInstance]
  /\ hubBinding' = IF hubInstance[c] = NoInstance
                   THEN hubBinding
                   ELSE [hubBinding EXCEPT ![hubInstance[c]] = NoConn]

\* History: the runtime of the connection, if another connection of it is left.
SeveredBy(c) ==
  {i \in Instances : registered[c] = i /\ \E d \in Conns \ {c} : registered[d] = i}

\* The thread ends: close frame, end of stream, I/O or protocol error (from
\* the loop), or after HeartbeatClose.
RemoveConnection(c) ==
  /\ socket[c] # "free"
  /\ RemoveFromRegistry(c)
  /\ UnbindFromHub(c)
  /\ socket' = [socket EXCEPT ![c] = "free"]
  /\ registered' = [registered EXCEPT ![c] = NoInstance]
  /\ pinging' = [pinging EXCEPT ![c] = "none"]
  /\ missed' = [missed EXCEPT ![c] = 0]
  /\ severed' = (severed \ {registered[c]}) \cup SeveredBy(c)
  /\ NoneAnnounced

-----------------------------------------------------------------------------
(* Cleanup thread and clock *)

\* Called by the cleanup thread and before every HTTP request.
PruneStaleSessions ==
  /\ Expired # {}
  /\ RemoveSessions(Expired)
  /\ NoneAnnounced
  /\ UNCHANGED <<channelVars, severed>>

Tick ==
  /\ AgeStaleSessions
  /\ UNCHANGED <<channelVars, historyVars>>

-----------------------------------------------------------------------------
\* Of the peers: a connection speaks for one task pane, whose instance id is a
\* constant of the page.
Speaks(c, i) == registered[c] \in {NoInstance, i}

ConnectionStep(c) ==
  \/ OpenSocket(c)
  \/ \E i \in Instances : Speaks(c, i) /\ Register(c, i)
  \/ SessionAdded(c)
  \/ \E s \in Sessions : SessionRemoved(c, s)
  \/ StartPing(c)
  \/ Pong(c)
  \/ MissPong(c)
  \/ HeartbeatClose(c)
  \/ RemoveConnection(c)

Next ==
  \/ \E c \in Conns : ConnectionStep(c)
  \/ PruneStaleSessions
  \/ Tick

Spec == Init /\ [][Next]_vars

\* Time passes, the cleanup thread wakes up, and a thread that has left its
\* loop reaches the removal of its connection.
Fairness ==
  /\ WF_vars(Tick)
  /\ WF_vars(PruneStaleSessions)
  /\ \A c \in Conns : WF_vars(socket[c] = "closing" /\ RemoveConnection(c))

FairSpec == Spec /\ Fairness

-----------------------------------------------------------------------------
(* Properties *)

\* The routing table of the hub never names a dead connection, nor one that
\* registered as another runtime: a tool call pushed to the bound connection
\* reaches the task pane of the session it was made for.
RoutingSound ==
  \A i \in Instances : hubBinding[i] # NoConn =>
    /\ socket[hubBinding[i]] # "free"
    /\ registered[hubBinding[i]] = i
    /\ hubInstance[hubBinding[i]] = i

\* The three tables agree, in every interleaving of the connection threads:
\* the registry has an entry for a runtime exactly when the hub has a
\* binding for it, and channel and hub know the same runtime for each
\* connection.
TablesAgree ==
  /\ \A i \in Instances : linked[i] = NoRuntime <=> hubBinding[i] = NoConn
  /\ \A c \in Conns : hubInstance[c] = registered[c]
  /\ \A c \in Conns : socket[c] = "free" => registered[c] = NoInstance

\* Runtimes whose session id no other presents.
SoleHolders == {i \in Instances : \A j \in Instances : SessionOf[j] = SessionOf[i] => j = i}

\* The entry of such a runtime only ever links a session that is in the registry
\* and that the runtime owns, whatever happens to sessions that are presented by
\* several: a disconnect never makes its session stale but its own, and a pruned
\* session is never linked.
LinkedSessionOwned ==
  \A i \in SoleHolders : linked[i] \in Sessions =>
    /\ status[linked[i]] # "absent"
    /\ owner[linked[i]] = i

\* A session the daemon lists as active can be reached: its owner has a
\* registry entry that links it, and the hub has a live connection for it.  The
\* one exception is a session announced by a runtime whose entry has gone with
\* another of its connections: connections of one runtime may overlap, and the
\* newer may go first, but when an older one goes last the runtime is cut off.
ActiveIsReachable ==
  \A s \in Sessions \ astray : status[s] = "active" =>
    /\ owner[s] # NoInstance
    /\ linked[owner[s]] = s
    /\ hubBinding[owner[s]] # NoConn

\* A session that is stale is never forgotten before its grace period is over,
\* except when a connection, whichever it is, asks for its removal: a transient
\* loss of the channel leaves the session there to be announced again.  Nor does
\* a runtime that comes and goes without announcing it extend the period: the
\* clock runs from the first loss.
GraceHonoured ==
  [][\A s \in Sessions : status[s] = "stale" =>
       /\ status'[s] = "absent" => age[s] > Grace \/ \E c \in Conns : SessionRemoved(c, s)
       /\ status'[s] = "stale" => age'[s] >= age[s]]_vars

\* A stale session is announced again or removed: it does not stay in the
\* lists shown to clients for ever.
StaleIsResolved ==
  \A s \in Sessions : status[s] = "stale" ~> status[s] # "stale"
=============================================================================
