----------------------------- MODULE StdioBridge -----------------------------
(***************************************************************************)
(* The programs that talk to the daemon's HTTP frontend: the stdio bridge  *)
(* (mcp/stdio_bridge.rs), which carries the messages of an MCP client that *)
(* speaks no HTTP, the sessions command (mcp/management_client.rs), and    *)
(* HTTP clients, which send anything.  Every request has a connection of   *)
(* its own, and a program sends a request at a time.                       *)
(*                                                                         *)
(* An MCP client initializes first and starts a bridge again that ended.   *)
(***************************************************************************)
EXTENDS McpFrontend

CONSTANTS Bridges, Commands, HttpClients

ASSUME ClientsAssumption ==
  /\ Clients = Bridges \cup Commands \cup HttpClients
  /\ Bridges \cap (Commands \cup HttpClients) = {}

VARIABLES
  program,  \* of each program what it is at, and the session it holds
  cause     \* of each bridge how it ended

vars == <<up, life, sessions, nextSession, windows, queue, wire, answer,
          accepted, program, cause>>

\* A session is told apart by its id and the life of the daemon it is from;
\* only the id is sent.
SessionOf(a) == [id |-> a.session, life |-> a.life]
None == [id |-> NoSession, life |-> 0]
Program(at, session, message) ==
  [at |-> at, session |-> session, message |-> message]
Fresh == Program("idle", None, "none")

\* Bound on the requests of a source: its clients wait for a while.
MaySend(c) ==
  windows[<<SourceOf[c], "discovery">>].count
    + windows[<<SourceOf[c], "operation">>].count
    + Len(queue) < MaxRecent
MayOpen == nextSession + Len(queue) <= MaxSessions

\* Connects and sends, or finds that nobody listens.
Sends(c, request) ==
  /\ MaySend(c) /\ MayOpen
  /\ up
  /\ wire' = [wire EXCEPT ![c] = request]
  /\ queue' = Append(queue, c)
  /\ UNCHANGED <<daemonVars, frontendVars, answer>>

Takes(c) ==
  /\ answer[c] # NoAnswer
  /\ answer' = [answer EXCEPT ![c] = NoAnswer]
  /\ UNCHANGED <<daemonVars, frontendVars, queue, wire>>

-----------------------------------------------------------------------------
(* The bridge *)

\* The client's next message is read and posted.
ForwardMessage(b) ==
  /\ program[b].at = "idle"
  /\ \E m \in Messages, size \in {"fits", "over"} :
       /\ program[b].session = None => m = "initialize"
       /\ size = "over" => m = "call"
       /\ Sends(b, [Post(program[b].session.id, m) EXCEPT !.size = size])
       /\ program' =
            [program EXCEPT ![b] = Program("waiting", @.session, m)]
  /\ UNCHANGED cause

\* There is no daemon to connect to: the bridge ends.
ConnectFails(b) ==
  /\ program[b].at = "idle"
  /\ ~up
  /\ program' = [program EXCEPT ![b].at = "ended"]
  /\ cause' = [cause EXCEPT ![b] = "refused"]
  /\ UNCHANGED <<daemonVars, frontendVars, queue, wire, answer>>

\* What the bridge searches its client's message for.
SaysInitialize(m) == m \in {"initialize", "call initialize"}

\* Mutant: the session is taken from every answer.
TakenFromAny(p, a) == SessionOf(a)

\* The session of the first initialize is kept for good.
Taken(p, a) ==
  IF p.session = None /\ SaysInitialize(p.message) /\ a.session # NoSession
  THEN SessionOf(a) ELSE p.session

\* An answer is passed on, whatever it says.
PassOn(b) ==
  /\ program[b].at = "waiting"
  /\ ~Failed(answer[b])
  /\ Takes(b)
  /\ program' =
       [program EXCEPT ![b] = Program("idle", Taken(@, answer[b]), "none")]
  /\ UNCHANGED cause

\* Any error status, and a connection that closes: the bridge ends, and the
\* client is left to see its output end.
End(b) ==
  /\ program[b].at = "waiting"
  /\ Failed(answer[b])
  /\ Takes(b)
  /\ program' = [program EXCEPT ![b].at = "ended"]
  /\ cause' = [cause EXCEPT ![b] =
       CASE answer[b] = Closed -> "closed"
         [] answer[b].status = 429 -> "rate"
         [] answer[b].status = 404 -> "unknown session"
         [] OTHER -> "bad request"]

\* The client closes its end.
EndOfInput(b) ==
  /\ program[b].at = "idle"
  /\ program' = [program EXCEPT ![b].at = "ended"]
  /\ cause' = [cause EXCEPT ![b] = "end of input"]
  /\ UNCHANGED <<daemonVars, frontendVars, queue, wire, answer>>

StartAgain(b) ==
  /\ program[b].at = "ended"
  /\ program' = [program EXCEPT ![b] = Fresh]
  /\ cause' = [cause EXCEPT ![b] = "none"]
  /\ UNCHANGED <<daemonVars, frontendVars, queue, wire, answer>>

-----------------------------------------------------------------------------
(* office-mcp sessions: initialize, list the sessions, print them *)

Run(k) ==
  /\ program[k] = Fresh
  /\ Sends(k, Post(NoSession, "initialize"))
  /\ program' = [program EXCEPT ![k].at = "initializing"]
  /\ UNCHANGED cause

ListSessions(k) ==
  /\ program[k].at = "initializing"
  /\ answer[k].session # NoSession
  /\ up
  /\ answer' = [answer EXCEPT ![k] = NoAnswer]
  /\ wire' = [wire EXCEPT ![k] = Post(answer[k].session, "list")]
  /\ queue' = Append(queue, k)
  /\ program' =
       [program EXCEPT ![k] =
          Program("listing", SessionOf(answer[k]), "none")]
  /\ UNCHANGED <<daemonVars, frontendVars, cause>>

\* The list, an error, or nobody to ask for the list.
Exit(k) ==
  /\ \/ program[k].at = "initializing" /\ (Failed(answer[k]) \/ ~up)
     \/ program[k].at = "listing"
  /\ Takes(k)
  /\ program' = [program EXCEPT ![k] = Fresh]
  /\ UNCHANGED cause

-----------------------------------------------------------------------------
(* HTTP clients *)

\* Requests that no MCP client should send: one of each kind that is refused
\* whatever else it says, and a DELETE, which a GET of its session is as good as.
RefusedRequests ==
  LET usual == Post(NoSession, "initialize")
  IN  {[usual EXCEPT !.origin = "foreign"], [usual EXCEPT !.path = "/healthz"],
       [Request("GET", NoSession, "call") EXCEPT !.path = "/healthz"],
       Request("PUT", NoSession, "call")}
OddRequests(id) ==
  RefusedRequests \cup {Request("DELETE", id, "call"),
                        [Post(id, "call") EXCEPT !.size = "partial"]}

Call(h) ==
  /\ program[h].at = "idle"
  /\ LET id == program[h].session.id
     IN  \E r \in OddRequests(id) \cup {Post(id, m) : m \in Messages} :
           Sends(h, r)
  /\ program' = [program EXCEPT ![h].at = "waiting"]
  /\ UNCHANGED cause

\* The rest of a request that was sent in part.
Finish(h) ==
  /\ wire[h] # NoRequest /\ wire[h].size = "partial"
  /\ wire' = [wire EXCEPT ![h].size = "fits"]
  /\ UNCHANGED <<daemonVars, frontendVars, queue, answer, program, cause>>

\* An HTTP client keeps a session it is given and forgets one that is gone.
Hear(h) ==
  /\ program[h].at = "waiting"
  /\ Takes(h)
  /\ program' = [program EXCEPT ![h] =
       Program("idle",
               CASE answer[h].session # NoSession -> SessionOf(answer[h])
                 [] answer[h].status = 404 -> None
                 [] OTHER -> @.session,
               "none")]
  /\ UNCHANGED cause

-----------------------------------------------------------------------------
Init ==
  /\ DaemonInit
  /\ program = [c \in Clients |-> Fresh]
  /\ cause = [b \in Bridges |-> "none"]

BridgeStep(b) ==
  ForwardMessage(b) \/ ConnectFails(b) \/ PassOn(b) \/ End(b)
    \/ EndOfInput(b) \/ StartAgain(b)
CommandStep(k) == Run(k) \/ ListSessions(k) \/ Exit(k)
HttpStep(h) == Call(h) \/ Finish(h) \/ Hear(h)

DaemonStep(c) == Serve(c) /\ UNCHANGED <<program, cause>>
Pass == (Stop \/ Start \/ Tick) /\ UNCHANGED <<program, cause>>

Next ==
  \/ \E b \in Bridges : BridgeStep(b)
  \/ \E k \in Commands : CommandStep(k)
  \/ \E h \in HttpClients : HttpStep(h)
  \/ \E c \in Clients : DaemonStep(c)
  \/ Pass

\* The daemon serves what has come, a bridge reads its answer, and an HTTP client
\* sends the rest of its request: the daemon waits for it without a limit, and
\* everybody behind it with the daemon.  Clients may be silent otherwise, time
\* may stand still and the daemon stay down.
Fairness ==
  /\ WF_vars(\E c \in Clients : DaemonStep(c))
  /\ \A b \in Bridges : WF_vars(PassOn(b) \/ End(b))
  /\ \A h \in HttpClients : WF_vars(Finish(h))

Spec == Init /\ [][Next]_vars /\ Fairness

-----------------------------------------------------------------------------
(* Properties *)

Holds(c) == program[c].session # None /\ program[c].at # "ended"

\* Two programs never hold the same session of the same life of the daemon.
SessionsAreOwn ==
  \A c, d \in Clients :
    c # d /\ Holds(c) /\ Holds(d) => program[c].session # program[d].session

\* A bridge whose client keeps to the protocol ends only with its client, with
\* the daemon (one that is gone, or another that does not know the session),
\* for a message too large, or for the rate of its source.
BridgeEndsForCause ==
  \A b \in Bridges : program[b].at = "ended" =>
    /\ cause[b] # "bad request"
    /\ cause[b] = "unknown session" => program[b].session.life < life

\* A bridge does not wait for ever: an answer is passed on, or the bridge ends
\* and its client can see that.
BridgeNeverHangs ==
  \A b \in Bridges : program[b].at = "waiting" ~> program[b].at # "waiting"
=============================================================================
