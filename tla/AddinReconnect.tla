--------------------------- MODULE AddinReconnect ---------------------------
(***************************************************************************)
(* AddinChannel composed with the task panes that talk to it               *)
(* (src/office-ctl/*/public/taskpane.js, common/addin-channel.js).  A pane *)
(* dials, registers when its socket opens, announces its session when the  *)
(* register response comes back, and dials again when the socket closes or *)
(* when the user saves an endpoint.  Frames travel in order per            *)
(* connection, and a connection of a pane may still be open at the daemon  *)
(* while the pane already uses the next one.                               *)
(***************************************************************************)
EXTENDS AddinChannel, Sequences

CONSTANTS
  MaxWire,    \* bound: frames under way on one connection
  MaxAwaits   \* bound: calls of announceSession() a pane is awaiting in

ASSUME WireAssumption == MaxWire \in Nat \ {0} /\ MaxAwaits \in Nat \ {0}

VARIABLES
  phase,       \* the pane: down, dialing, registering, registered, quit
  current,     \* the pane's `socket` variable
  announcing,  \* how many calls of announceSession() await the document
  connected,   \* the pane shows "Connected"
  dialer,      \* the pane at the other end of a connection
  wire,        \* frames from the pane, in order
  replied      \* a register response is under way to the pane

paneVars == <<phase, current, announcing, connected, dialer, wire, replied>>
allVars == <<vars, paneVars>>

OpenPhases == {"registering", "registered"}
Frames == {"register", "added", "close"}

\* The types of the variables, the daemon's included.
PaneTypeOK ==
  /\ TypeOK
  /\ phase \in [Instances -> {"down", "dialing", "quit"} \cup OpenPhases]
  /\ current \in [Instances -> Conns \cup {NoConn}]
  /\ announcing \in [Instances -> 0 .. MaxAwaits]
  /\ connected \in [Instances -> BOOLEAN]
  /\ dialer \in [Conns -> Instances \cup {NoInstance}]
  /\ \A c \in Conns : wire[c] \in Seq(Frames) /\ Len(wire[c]) <= MaxWire
  /\ replied \in [Conns -> BOOLEAN]

PaneInit ==
  /\ Init
  /\ phase = [i \in Instances |-> "down"]
  /\ current = [i \in Instances |-> NoConn]
  /\ announcing = [i \in Instances |-> 0]
  /\ connected = [i \in Instances |-> FALSE]
  /\ dialer = [c \in Conns |-> NoInstance]
  /\ wire = [c \in Conns |-> <<>>]
  /\ replied = [c \in Conns |-> FALSE]

-----------------------------------------------------------------------------
(* The pane *)

Unused(c) == socket[c] = "free" /\ dialer[c] = NoInstance

\* The pane's socket, closed from its side: the daemon will read the close
\* frame after the frames sent before it; a socket not yet accepted vanishes.
Hangs(c) == wire' = IF c # NoConn /\ socket[c] # "free"
                    THEN [wire EXCEPT ![c] = Append(@, "close")] ELSE wire
Abandoned(c) == c # NoConn /\ socket[c] = "free"

\* connect(), register(), scheduleReconnect() and the handlers of failures all
\* show something else.
ShowsOtherwise(i) == connected' = [connected EXCEPT ![i] = FALSE]

\* scheduleReconnect's timer fires (or the pane starts): connect().
Dial(i, c) ==
  /\ phase[i] = "down"
  /\ Unused(c)
  /\ phase' = [phase EXCEPT ![i] = "dialing"]
  /\ current' = [current EXCEPT ![i] = c]
  /\ dialer' = [dialer EXCEPT ![c] = i]
  /\ ShowsOtherwise(i)
  /\ UNCHANGED <<vars, announcing, wire, replied>>

\* The "open" event: register() sends the register request at once.
SocketOpens(i) ==
  /\ phase[i] = "dialing"
  /\ socket[current[i]] = "open"
  /\ dialer[current[i]] = i
  /\ wire' = [wire EXCEPT ![current[i]] = Append(@, "register")]
  /\ phase' = [phase EXCEPT ![i] = "registering"]
  /\ ShowsOtherwise(i)
  /\ UNCHANGED <<vars, current, announcing, dialer, replied>>

\* The register response: announceSession() starts and awaits the document.
RegisterResponse(i) ==
  /\ phase[i] = "registering"
  /\ dialer[current[i]] = i
  /\ replied[current[i]]
  /\ announcing[i] < MaxAwaits
  /\ replied' = [replied EXCEPT ![current[i]] = FALSE]
  /\ announcing' = [announcing EXCEPT ![i] = @ + 1]
  /\ phase' = [phase EXCEPT ![i] = "registered"]
  /\ UNCHANGED <<vars, current, connected, dialer, wire>>

\* The pane's socket is open, so far as the daemon has not left it.
CanSend(i) == phase[i] \in OpenPhases /\ dialer[current[i]] = i

\* Faulty variant of SendAdded: nothing is sent while a register request of the
\* pane is unanswered.
SendAddedIfRegistered(i) ==
  IF CanSend(i) /\ phase[i] = "registered"
  THEN /\ Len(wire[current[i]]) < MaxWire
       /\ wire' = [wire EXCEPT ![current[i]] = Append(@, "added")]
  ELSE UNCHANGED wire

\* The frame session.added goes out on the socket the pane has by now, or
\* nowhere if that socket is not open.
SendAdded(i) ==
  IF CanSend(i)
  THEN /\ Len(wire[current[i]]) < MaxWire
       /\ wire' = [wire EXCEPT ![current[i]] = Append(@, "added")]
  ELSE UNCHANGED wire

\* The awaits of one call are over: the announcement is sent, or not, and the
\* pane shows "Connected" whatever has become of its socket.
Announce(i) ==
  /\ announcing[i] > 0
  /\ announcing' = [announcing EXCEPT ![i] = @ - 1]
  /\ SendAdded(i)
  /\ connected' = [connected EXCEPT ![i] = TRUE]
  /\ UNCHANGED <<vars, phase, current, dialer, replied>>

\* The document's metadata cannot be had: the call throws and the pane shows
\* "Failed", on a socket that stays open.
AnnounceFails(i) ==
  /\ announcing[i] > 0
  /\ announcing' = [announcing EXCEPT ![i] = @ - 1]
  /\ ShowsOtherwise(i)
  /\ UNCHANGED <<vars, phase, current, dialer, wire, replied>>

\* saveEndpointOverride(): the old socket is closed and the next one dialed
\* in the same turn of the event loop.
SaveEndpoint(i, c) ==
  /\ phase[i] \in OpenPhases \cup {"dialing"}
  /\ current[i] # NoConn /\ dialer[current[i]] = i
  /\ Len(wire[current[i]]) < MaxWire
  /\ Unused(c)
  /\ Hangs(current[i])
  /\ dialer' = [dialer EXCEPT ![c] = i,
                  ![current[i]] = IF Abandoned(current[i]) THEN NoInstance ELSE i]
  /\ current' = [current EXCEPT ![i] = c]
  /\ phase' = [phase EXCEPT ![i] = "dialing"]
  /\ ShowsOtherwise(i)
  /\ UNCHANGED <<vars, announcing, replied>>

\* The socket fails or its open timeout fires (to "down": the pane will
\* reconnect), or the pane is unloaded with its document (to "quit").
HangUp(i, to) ==
  /\ phase[i] \in OpenPhases \cup {"dialing"}
  /\ dialer[current[i]] = i
  /\ Len(wire[current[i]]) < MaxWire
  /\ Hangs(current[i])
  /\ dialer' = [dialer EXCEPT ![current[i]] =
                  IF Abandoned(current[i]) THEN NoInstance ELSE @]
  /\ current' = [current EXCEPT ![i] = NoConn]
  /\ phase' = [phase EXCEPT ![i] = to]
  /\ announcing' = [announcing EXCEPT ![i] = IF to = "quit" THEN 0 ELSE @]
  /\ ShowsOtherwise(i)
  /\ UNCHANGED <<vars, replied>>

SocketFails(i) == HangUp(i, "down")
Quit(i) == HangUp(i, "quit")

\* The "close" event of a socket the daemon has closed.
PeerClosed(i) ==
  /\ current[i] # NoConn
  /\ dialer[current[i]] # i
  /\ current' = [current EXCEPT ![i] = NoConn]
  /\ phase' = [phase EXCEPT ![i] = "down"]
  /\ ShowsOtherwise(i)
  /\ UNCHANGED <<vars, announcing, dialer, wire, replied>>

-----------------------------------------------------------------------------
(* The connection's thread, driven by the frames it reads *)

Accept(c) ==
  /\ dialer[c] # NoInstance
  /\ OpenSocket(c)
  /\ UNCHANGED paneVars

NextFrame(c, f) ==
  /\ socket[c] = "open"
  /\ wire[c] # <<>>
  /\ Head(wire[c]) = f

ReadRegister(c) ==
  /\ NextFrame(c, "register")
  /\ Register(c, dialer[c])
  /\ wire' = [wire EXCEPT ![c] = Tail(@)]
  /\ replied' = [replied EXCEPT ![c] = TRUE]
  /\ UNCHANGED <<phase, current, announcing, connected, dialer>>

ReadAdded(c) ==
  /\ NextFrame(c, "added")
  /\ SessionAdded(c)
  /\ wire' = [wire EXCEPT ![c] = Tail(@)]
  /\ UNCHANGED <<phase, current, announcing, connected, dialer, replied>>

\* The loop ends on the close frame, or after HeartbeatClose.
Leave(c) ==
  /\ NextFrame(c, "close") \/ socket[c] = "closing"
  /\ RemoveConnection(c)
  /\ wire' = [wire EXCEPT ![c] = <<>>]
  /\ replied' = [replied EXCEPT ![c] = FALSE]
  /\ dialer' = [dialer EXCEPT ![c] = NoInstance]
  /\ UNCHANGED <<phase, current, announcing, connected>>

\* A pong comes from a pane that still uses the connection; a pane whose
\* task is blocked in Office may let any number of pings go unanswered.
Heartbeat(c) ==
  /\ \/ StartPing(c)
     \/ Pong(c) /\ current[dialer[c]] = c
     \/ MissPong(c)
     \/ HeartbeatClose(c)
  /\ UNCHANGED paneVars

Cleanup == (PruneStaleSessions \/ Tick) /\ UNCHANGED paneVars

-----------------------------------------------------------------------------
PaneStep(i) ==
  \/ \E c \in Conns : Dial(i, c) \/ SaveEndpoint(i, c)
  \/ SocketOpens(i)
  \/ RegisterResponse(i)
  \/ Announce(i)
  \/ AnnounceFails(i)
  \/ SocketFails(i)
  \/ Quit(i)
  \/ PeerClosed(i)

ThreadStep(c) ==
  \/ Accept(c)
  \/ ReadRegister(c)
  \/ ReadAdded(c)
  \/ Leave(c)
  \/ Heartbeat(c)

PaneNext ==
  \/ \E i \in Instances : PaneStep(i)
  \/ \E c \in Conns : ThreadStep(c)
  \/ Cleanup

PaneSpec == PaneInit /\ [][PaneNext]_allVars

\* The daemon's threads read what is on their sockets, the clock runs and
\* the cleanup thread wakes up.  Nothing is assumed of panes or users.
DaemonFairness ==
  /\ \A c \in Conns : WF_allVars(ReadRegister(c) \/ ReadAdded(c) \/ Leave(c))
  /\ WF_allVars(Cleanup)

PaneFairSpec == PaneSpec /\ DaemonFairness

-----------------------------------------------------------------------------
(* Properties *)

\* The pane shows "Connected" on a socket that is open at both ends, the daemon
\* has read all it sent, and it has removed every earlier connection of the pane:
\* nothing is under way.
Settled(i) ==
  /\ connected[i]
  /\ CanSend(i)
  /\ socket[current[i]] = "open"
  /\ wire[current[i]] = <<>>
  /\ \A d \in Conns \ {current[i]} : dialer[d] # i

\* The pane does not know whether what it announced was received, and shows
\* "Connected" also while its socket is being replaced.  Once things have settled
\* the display is right, however many calls of announceSession() were awaiting
\* and on whichever socket each of them sent: the pane is the runtime the daemon
\* routes its session's calls to.  It is wrong for a pane that the removal of an
\* earlier connection has cut off, and nothing is said of a session that another
\* runtime presents too.
ConnectedIsReachable ==
  \A i \in SoleHolders : Settled(i) /\ i \notin severed =>
    /\ status[SessionOf[i]] = "active"
    /\ linked[i] = SessionOf[i]
    /\ hubBinding[i] = current[i]

\* Once a document's pane is gone, its session, if no other runtime presents it,
\* disappears from the lists.
ClosedDocumentDisappears ==
  \A i \in SoleHolders : phase[i] = "quit" ~> status[SessionOf[i]] = "absent"

\* So it does unless the pane had been cut off when it last announced the session:
\* then, and only then, does the session stay listed as active for good.
ClosedDocumentDisappearsUnlessAstray ==
  \A i \in SoleHolders :
    phase[i] = "quit" ~> status[SessionOf[i]] = "absent" \/ SessionOf[i] \in astray
=============================================================================
