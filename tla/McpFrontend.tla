----------------------------- MODULE McpFrontend -----------------------------
(***************************************************************************)
(* The daemon's HTTP frontend (mcp/http_frontend.rs, its model, and        *)
(* runtime/runtime_request_router.rs): it opens sessions for MCP clients,  *)
(* limits the rate of their requests, and refuses what it cannot serve.    *)
(* The MCP thread takes one connection at a time, in the order they come,  *)
(* reads its request without a limit of time, and answers it; what it does *)
(* with a request that has come is one step.  A stop of the daemon closes  *)
(* the connections and loses all of this state; a session id may be given  *)
(* again after a start.                                                    *)
(*                                                                         *)
(* Time is counted in ticks, and a window by its age.  A message is what   *)
(* the frontend tells apart in a body.  The times of the last activity,    *)
(* which only the UI shows, and what a forwarded message does are left out.*)
(***************************************************************************)
EXTENDS Integers, Sequences

CONSTANTS
  Clients,            \* the programs that connect
  SourceOf,           \* of a client the address its requests come from
  RequestsPerMinute,  \* the budget of a source for document operations
  DiscoveryFactor,    \* by how much that for discovery is larger
  Minute,             \* the ticks of a window
  Messages,           \* what the clients post
  MaxSessions,        \* bound: sessions opened in a life of the daemon
  MaxRecent,          \* bound: requests of a source within a window
  MaxLives            \* bound: lives of the daemon; it may not stop in the last

ASSUME FrontendAssumption ==
  /\ RequestsPerMinute \in Nat \ {0}
  /\ DiscoveryFactor \in Nat \ {0}
  /\ Minute \in Nat \ {0}
  /\ Messages \subseteq
       {"initialize", "initialized", "list", "call", "call initialize"}

VARIABLES
  up,           \* the daemon runs
  life,         \* how often it was started
  sessions,     \* the ids of the open sessions
  nextSession,  \* the number of the next id
  windows,      \* of each key its rate-limit window
  queue,        \* the clients with a connection, the one that is read first
  wire,         \* of each client the request on its connection
  answer,       \* of each client the answer on its connection
  accepted      \* history: of each key and age, the requests let through since

frontendVars == <<sessions, nextSession, windows, accepted>>
daemonVars == <<up, life>>

-----------------------------------------------------------------------------
(* Requests *)

NoSession == 0
NoRequest == [path |-> "none"]
NoAnswer == [status |-> 0, session |-> NoSession, life |-> 0]
Closed == [status |-> 999, session |-> NoSession, life |-> 0]
Failed(a) == a.status >= 400

Request(method, session, message) ==
  [path |-> "/mcp", method |-> method, origin |-> "none", size |-> "fits",
   session |-> session, message |-> message]
Post(session, message) == Request("POST", session, message)

\* The body is searched for the word; what it stands for is not looked at.
IsInitialize(message) ==
  message \in {"initialize", "initialized", "call initialize"}

ClassOf(message) ==
  IF IsInitialize(message) \/ message = "list" THEN "discovery"
  ELSE "operation"

Sources == {SourceOf[c] : c \in Clients}
Classes == {"discovery", "operation"}
Keys == Sources \X Classes
KeyOf(c) == <<SourceOf[c], ClassOf(wire[c].message)>>

LimitFor(class) ==
  IF class = "discovery" THEN RequestsPerMinute * DiscoveryFactor
  ELSE RequestsPerMinute

-----------------------------------------------------------------------------
(* Rate limiting *)

NoWindow == [age |-> 0, count |-> 0]
Ages == 0 .. Minute - 1
Never == [a \in Ages |-> 0]

\* Mutant: a window starts again with every request that is let through.
CountedSliding(w) ==
  IF w = NoWindow \/ w.count > 1 THEN [age |-> 0, count |-> 1]
  ELSE [w EXCEPT !.count = @ + 1]

\* A window that is over starts again; every request counts, refused ones too.
Counted(w) ==
  IF w = NoWindow THEN [age |-> 0, count |-> 1]
  ELSE [w EXCEPT !.count = @ + 1]

WithinLimit(c) == Counted(windows[KeyOf(c)]).count <= LimitFor(KeyOf(c)[2])

Count(c) ==
  LET more == IF WithinLimit(c) THEN 1 ELSE 0
  IN  /\ windows' = [windows EXCEPT ![KeyOf(c)] = Counted(@)]
      /\ accepted' = [accepted EXCEPT ![KeyOf(c)] = [a \in Ages |-> @[a] + more]]

\* The requests of the last minute.
Total(f) == f[Minute - 1]

-----------------------------------------------------------------------------
(* What becomes of a request.  Whoever answers also closes the connection. *)

Answered(c, a) ==
  /\ wire' = [wire EXCEPT ![c] = NoRequest]
  /\ queue' = Tail(queue)
  /\ answer' = [answer EXCEPT ![c] = a]
  /\ UNCHANGED daemonVars

Answer(c, status, session) ==
  Answered(c, [status |-> status, session |-> session, life |-> life])

\* The request has come: its size is looked at while it is read, its path by
\* the router, and by the frontend its origin first of all.
Current(c) == queue # <<>> /\ Head(queue) = c
Read(c) == Current(c) /\ wire[c].size = "fits"
Routed(c) == Read(c) /\ wire[c].path = "/mcp"
Admitted(c) == Routed(c) /\ wire[c].origin # "foreign"
Judged(c) == Admitted(c) /\ WithinLimit(c) /\ Count(c)
Known(c) == wire[c].session \in sessions

\* Too large a request is not read to its end, and gets no answer; the 413 of
\* the frontend is for bodies the reader never lets through.
DropOversized(c) ==
  /\ Current(c) /\ wire[c].size = "over"
  /\ Answered(c, Closed)
  /\ UNCHANGED frontendVars

\* /healthz, and any other path.
AnswerPath(c) ==
  /\ Read(c) /\ wire[c].path # "/mcp"
  /\ LET healthy == wire[c].path = "/healthz" /\ wire[c].method = "GET"
     IN  Answer(c, IF healthy THEN 200 ELSE 404, NoSession)
  /\ UNCHANGED frontendVars

RefuseOrigin(c) ==
  /\ Routed(c) /\ wire[c].origin = "foreign"
  /\ Answer(c, 403, NoSession)
  /\ UNCHANGED frontendVars

RefuseRate(c) ==
  /\ Admitted(c)
  /\ ~WithinLimit(c)
  /\ Count(c)
  /\ Answer(c, 429, NoSession)
  /\ UNCHANGED <<sessions, nextSession>>

\* Mutant: the number of a session is not used up.
OpenNumbered(c) ==
  /\ Judged(c)
  /\ wire[c].method = "POST" /\ wire[c].session = NoSession
  /\ IsInitialize(wire[c].message)
  /\ sessions' = sessions \cup {nextSession}
  /\ UNCHANGED nextSession
  /\ Answer(c, 200, nextSession)

\* A body with the word opens a session unless it comes with one.
OpenSession(c) ==
  /\ Judged(c)
  /\ wire[c].method = "POST" /\ wire[c].session = NoSession
  /\ IsInitialize(wire[c].message)
  /\ sessions' = sessions \cup {nextSession}
  /\ nextSession' = nextSession + 1
  /\ Answer(c, 200, nextSession)

RefuseNoSession(c) ==
  /\ Judged(c)
  /\ wire[c].method = "POST" /\ wire[c].session = NoSession
  /\ ~IsInitialize(wire[c].message)
  /\ Answer(c, 400, NoSession)
  /\ UNCHANGED <<sessions, nextSession>>

RefuseUnknownSession(c) ==
  /\ Judged(c)
  /\ wire[c].method = "POST" /\ wire[c].session # NoSession /\ ~Known(c)
  /\ Answer(c, 404, NoSession)
  /\ UNCHANGED <<sessions, nextSession>>

Forward(c) ==
  /\ Judged(c)
  /\ wire[c].method \in {"POST", "GET", "DELETE"} /\ Known(c)
  /\ Answer(c, 200, NoSession)
  /\ UNCHANGED <<sessions, nextSession>>

\* A session that is deleted stays open: a DELETE is only forwarded.
RefuseSessionRequest(c) ==
  /\ Judged(c)
  /\ wire[c].method \in {"GET", "DELETE"} /\ ~Known(c)
  /\ Answer(c, 400, NoSession)
  /\ UNCHANGED <<sessions, nextSession>>

RefuseMethod(c) ==
  /\ Judged(c)
  /\ wire[c].method \notin {"POST", "GET", "DELETE"}
  /\ Answer(c, 405, NoSession)
  /\ UNCHANGED <<sessions, nextSession>>

Serve(c) ==
  /\ up
  /\ \/ DropOversized(c)
     \/ AnswerPath(c)
     \/ RefuseOrigin(c)
     \/ RefuseRate(c)
     \/ OpenSession(c)
     \/ RefuseNoSession(c)
     \/ RefuseUnknownSession(c)
     \/ Forward(c)
     \/ RefuseSessionRequest(c)
     \/ RefuseMethod(c)

-----------------------------------------------------------------------------
(* The daemon and its clock *)

Empty ==
  [sessions |-> {}, nextSession |-> 1, windows |-> [k \in Keys |-> NoWindow],
   accepted |-> [k \in Keys |-> Never]]

DaemonInit ==
  /\ up = TRUE
  /\ life = 1
  /\ queue = <<>>
  /\ wire = [c \in Clients |-> NoRequest]
  /\ answer = [c \in Clients |-> NoAnswer]
  /\ sessions = Empty.sessions
  /\ nextSession = Empty.nextSession
  /\ windows = Empty.windows
  /\ accepted = Empty.accepted

\* What the frontend knows is gone with its process.
Forget ==
  /\ up' = FALSE
  /\ queue' = <<>>
  /\ wire' = [c \in Clients |-> NoRequest]
  /\ sessions' = Empty.sessions
  /\ nextSession' = Empty.nextSession
  /\ windows' = Empty.windows
  /\ accepted' = Empty.accepted
  /\ UNCHANGED life

\* Mutant: the connections that wait for an answer are left as they are.
StopQuietly ==
  /\ up /\ life < MaxLives
  /\ Forget
  /\ UNCHANGED answer

\* The daemon stops or is killed, and every connection with it.
Stop ==
  /\ up /\ life < MaxLives
  /\ Forget
  /\ answer' = [c \in Clients |->
       IF wire[c] # NoRequest THEN Closed ELSE answer[c]]

Start ==
  /\ ~up
  /\ up' = TRUE
  /\ life' = life + 1
  /\ UNCHANGED <<queue, wire, answer, frontendVars>>

Older(f) == [a \in Ages |-> IF a = 0 THEN 0 ELSE f[a - 1]]

\* Mutant: a window goes on as long as the daemon.
TickOnly ==
  /\ accepted' = [k \in Keys |-> Older(accepted[k])]
  /\ UNCHANGED <<daemonVars, sessions, nextSession, windows, queue, wire, answer>>

\* Time passes.  A window that is a minute old is over: its next request, the
\* first to notice, starts it again, as if it had not been.
Tick ==
  /\ windows' = [k \in Keys |->
       IF windows[k] = NoWindow \/ windows[k].age + 1 >= Minute THEN NoWindow
       ELSE [windows[k] EXCEPT !.age = @ + 1]]
  /\ accepted' = [k \in Keys |-> Older(accepted[k])]
  /\ UNCHANGED <<daemonVars, sessions, nextSession, queue, wire, answer>>

-----------------------------------------------------------------------------
(* Properties *)

\* In no span of a minute does the frontend let through more than two budgets
\* of a key, the end of one window and the start of the next.
BurstIsBounded ==
  \A k \in Keys : Total(accepted[k]) <= 2 * LimitFor(k[2])

\* A source is only refused for its rate when its whole budget of that class
\* was let through within the last minute, whenever its windows started.
RefusedOnlyIfBusy ==
  [][\A c \in Clients :
       answer'[c] # answer[c] /\ answer'[c].status = 429 =>
         Total(accepted[KeyOf(c)]) >= LimitFor(KeyOf(c)[2])]_answer
=============================================================================
