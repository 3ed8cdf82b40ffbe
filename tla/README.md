# A TLA+ verification of the office-mcp daemon

office-mcp lets MCP clients work on documents that are open in Word, Excel and
PowerPoint.  A daemon (Rust, `src/office-mcp/daemon`) stands between the two
sides: clients call tools over HTTP, and each open document has a task pane
(JavaScript, `src/office-ctl`) that keeps a WebSocket to the daemon and carries
out the calls inside Office.  This directory models the daemon, the part of the
task panes that talks to it and the programs that connect to it, checks the
models with TLC and proves all their safety properties but one with TLAPS.
Paths below are relative to `src/office-mcp/daemon/src` unless they begin with
`office-ctl` or `doc`.

## 1. Inventory

| Component | State | Operations | Talks to |
|---|---|---|---|
| Session registry (`addin_mgr/session_registry.rs`, `session_info.rs`) | runtimes by instance, sessions by id, owner of a session, `stale_since` | register, add, update and remove a session, remove a runtime, mark stale, prune, preflight | called under one mutex by everything below |
| Add-in channel (`addin_mgr/addin_channel.rs`, `addin_session_events.rs`, `runtime/addin_rpc.rs`) | registered connections, heartbeat of each | register, session events, ping, pong, missed pong, removal | registry, hub |
| Connection hub (`addin_mgr/connection_hub.rs`) | outbound queue per connection, binding per runtime, pending table, condition variable | bind, remove, invoke, drain, complete | MCP thread, connection threads |
| Connection thread (`runtime/websocket_session.rs`, `websocket_heartbeat*.rs`) | timers, its place in the loop | read a frame, write what is queued, ping, close | channel, hub, pane |
| Cleanup (`runtime/session_cleanup_service.rs`) | none | prune | registry |
| Forwarded tools (`runtime/mcp_forwarded_tool.rs`) | none of its own | enqueue, invoke, cancel after a timeout, complete | router, hub |
| Command router (`addin_mgr/command_router.rs`, `command_queue.rs`) | a queue per session, counters | enqueue, complete, fail, cancel, expire | registry, UI state |
| UI state (`api/state_store.rs`) | current tasks, two bounded histories, clients, health | start, finish | the UI reads snapshots |
| Task pane (`office-ctl/*/public/taskpane.js`, `common/addin-channel.js`, `common/task-history.js`) | socket, registration, cancelled request ids | dial, register, announce, invoke, cancel, answer, reconnect | the daemon |
| Accept loops and request dispatch (`runtime/server.rs`, `server_connection.rs`, `mcp_rpc.rs`) | the locks of a request, its registry snapshot | accept, dispatch | everything |
| MCP HTTP frontend (`mcp/http_frontend.rs`, `runtime/runtime_request_router.rs`, `http_wire.rs`) | MCP sessions, a rate-limit window per source and class of request | read, route, judge and answer a request | every MCP client, dispatch |
| Stdio bridge and the `sessions` command (`mcp/stdio_bridge.rs`, `management_client.rs`) | the MCP session they hold | post a client's message, pass on its answer, end | HTTP frontend |
| MCP catalogue and dispatch of calls (`mcp/catalog.rs`, `tool_metadata.rs`, `resource_request.rs`, `runtime/mcp_rpc.rs`) | none: tables of tools, actions, arguments, resources | list, validate, gate, turn a resource into a call | policy, registry, forwarded tools |
| Tool access policy (`mcp/tool_access_policy.rs`, `runtime/ui_http.rs`) | the policy in the file, in force and in the UI state | judge a tool or an action, change | UI, MCP thread |
| Configuration (`common/config_service.rs`, `config_toml.rs`, `config_env.rs`) | the file, the running daemon's settings | load, check, save the policy | environment, UI |
| Image fetcher, prompts, tray, UI window, logging, evidence fixtures | data, bytes, windows, files | | |

What is hard in this code: connection threads of the same pane that overlap
when it reconnects; three tables (registry, channel, hub) that are keyed
differently and must agree; a waiter on a condition variable whose answer,
deadline and lost connection race; calls that outlive their timeout in the pane
and answers that come late; a heartbeat whose pongs may be late; bookkeeping
that has to survive an early return; sessions that have to disappear in the end;
threads that take the same locks in orders of their own, one of them while it
waits for a pane; a setting kept in three places that are written one by one;
one gate for tools and one for their actions, fed from tables kept by hand in
several files; a file that two readers split into sections in different ways,
and that is rewritten in place; sessions that are numbered from 1 again after a
restart, while programs still hold the old numbers.
The list at the lines where it bites is `hazards` in `PROJECT.json`.

What makes the components correct, in one line each: the registry never forgets
a session early nor keeps one for ever; the tables agree and route a call to
the pane it is for; a call is answered once, with its own outcome, and always
returns; the heartbeat closes a silent connection and no other; what the UI
shows as running is what runs; threads never block each other for good, and a
request is judged by the policy and the sessions of its own time; nothing gets
past the policy, and what it leaves is listed and can be called; a rate limit
holds and refuses nobody else; a program's session is its own, and a bridge ends
for a cause; a daemon runs with legal settings, and a saved policy comes back.

## 2. Modules

| Module | Models | Composes |
|---|---|---|
| `SessionRegistry` | the registry, as action formulas over its variables | |
| `AddinChannel` | connection threads, channel table, hub bindings, cleanup and clock | extends `SessionRegistry` |
| `AddinReconnect` | task panes with their sockets, and the frames on the way | extends `AddinChannel` |
| `AddinHeartbeat` | the heartbeat of one connection, with its timers | |
| `ToolCallContract` | abstract: what the daemon promises the maker of a call | |
| `ToolInvocation` | hub's invoke and pending table, connection threads, the pane's `invokeTool` | refines `ToolCallContract` |
| `CommandLife` | abstract: what router and UI promise of the commands of each document | |
| `CommandRouter` | queues, current tasks, histories | refines `CommandLife` |
| `McpServer` | the daemon's threads with the locks they hold across steps, the clones an MCP request is served with, and the change of the tool access policy | |
| `ToolMetadata`, `ToolSchemas`, `ToolResources` | the tables: tools and the side effects of their actions; their arguments, enums and examples; resources and the calls they make | |
| `ToolAccess` | what becomes of `tools/list`, `tools/call` and `resources/read` under a policy, for any catalogue | `MCToolAccess` gives it the three tables |
| `McpFrontend` | the HTTP frontend: connections in their order, rate-limit windows, MCP sessions, stop and start of the daemon | |
| `StdioBridge` | the bridge, the `sessions` command and HTTP clients | extends `McpFrontend` |
| `Configuration` | file, environment, loading, checking and saving | |
| `AddinReconnect_proofs`, `AddinHeartbeat_proofs`, `ToolInvocation_proofs`, `CommandRouter_proofs`, `McpServer_proofs`, `ToolAccess_proofs`, `StdioBridge_proofs`, `Configuration_proofs` | theorems about the module they are named after; `AddinReconnect_proofs` has those about `AddinChannel` too, `StdioBridge_proofs` those about `McpFrontend` | each extends its module |
| `MCAddinChannel`, `MCAddinReconnect`, `MCToolInvocation`, `MCCommandRouter`, `MCToolAccess`, `MCStdioBridge`, `MCConfiguration` | constants for TLC | |

Definitions whose comment begins with "Faulty variant" or "Mutant" are not part
of any specification: each is a plausible bug in the definition that follows it (one,
`CloseAtSecondMiss`, is what a document says instead), and replacing the definition by it must violate the property that `mutants` in
`PROJECT.json` names.  They show that the properties can fail.

### How state and actions correspond to the code

**SessionRegistry.**  `linked[i]` is the entry of the runtime in
`connections_by_instance`: no entry, an entry without a session, or the session
it owns.  `status`, `owner` and `age` are `sessions_by_id`,
`instance_by_session` and the time since `stale_since`.  `GoStale` keeps the
first `stale_since`, as `mark_session_stale` does by its early return.
`AddSession` overwrites both session maps without a look at the former owner
and updates a runtime's entry only if there is one: a runtime may present the
session id of another, and the model lets it.

**AddinChannel.**  One action per handler, because each handler holds the
registry's and the channel's mutex until it returns and updates the hub inside.
What a thread does in two critical sections is two actions: `HeartbeatClose`
and the `RemoveConnection` that follows.  `RemoveConnection` works by runtime,
not by connection: the binding and the entry go even when they belong to the
pane's next connection already.  The server refuses nothing: `Register` is open
to a runtime with other live connections and to a connection that has registered
before, whose pending ping the channel table then forgets while its deadline
runs on in the thread (`pinging`: none, pending, forgotten).  `SessionRemoved`
is open to every connection, registered or not, for every session: the handler
is not told which connection it serves.  Two history variables, which no action
reads but to update them, name what the daemon loses track of: `severed`, the
runtimes one of whose connections was removed after they last registered while
another was left, and `astray`, the active sessions that such a runtime has
announced, in the registry without an entry that links them.  They make the
exception to reachability as narrow as it is; nothing assumes that connections
do not overlap.

**AddinReconnect.**  A pane dials, registers when its socket opens, announces
its session when the response is there and the document's metadata has been
awaited, and dials again after a failure, a close, an open timeout or a saved
endpoint.  It may be gone at any time.  Frames of a connection are read in
order.  `announcing` counts the calls of `announceSession` that are awaiting:
several may be, each from another socket.  When one of them goes on (`Announce`)
it sends on whatever socket the pane has by then, if that is open, and shows
"Connected" (`connected`) whatever the socket's state; or it throws and shows
"Failed" (`AnnounceFails`).  So a pane may show "Connected" while it dials or
registers anew, and announce on a socket whose registration has no answer yet.
Connections that end without a close frame are covered by the heartbeat's close.
The pane never sends `session.removed`, so that handler is exercised by
`AddinChannel` alone.

**ToolInvocation.**  `Invoke` is `invoke` up to its first wait, which is one
critical section; each wake-up is an action: `TakeAnswer`, `WaitAgain`, `GiveUp`
(the early return that leaves the pending entry), `WaitTimedOut` (the entry is
removed unread).  `SendCancel` is a critical section of its own.  The pane has
no queue: `StartTool` begins an execution next to whatever runs, `CancelTool`
only remembers an id, and `FinishTool` consumes the id if it turns a success
into CANCELLED.  A pane has one connection at a time in this module, so binding
and connection entry are `up`.  `IdOf` says which calls travel under the same
request id, which the code takes from the client.

**CommandRouter.**  One action per operation.  A queue that becomes empty is
dropped with its counter.  `CompleteOversized` is the early return of
`complete`.  `FinishCommand` leaves a command alone that is no current task, as
`finish_command` does.  `expire_timeouts` collects the sessions that have an
overdue command and goes through them one by one, all under one lock: that is
`ExpireTimeouts`, then one `ExpireSession` for each session in `expiring`, and
nothing else in between.  `fail`, `cancel` and `expire_timeouts` are modelled although the
daemon does not call them yet: they are part of the router's interface and of
its tests.  Clients are left out, since no caller in the daemon passes one.
`CommandLife` knows no queues and no passes: a command is in flight from its
making to its end, the oldest under a request id is the one that is meant, and
what is overdue ends at once.  It maps to the router's state by `InFlight`,
`SinceIdle` and the variables that are the same in both.

**AddinHeartbeat.**  Timers in ticks, `Interval` and `Timeout` apart; a tick
waits until the thread has polled (it polls every 100 ms).  Ping ids wrap
around; `TypeOK` bounds the unanswered pings, which makes that sound, and is
proved for every interval and timeout.  `silence` is history: ticks since the
last pong that counted, or since the start.

**McpServer.**  `pc` says where each thread is in its handler and `holder` which
thread holds the UI state, the registry and the channel; a critical section in
which nothing is waited for is one action that needs its lock free.  The MCP
thread goes `Accept`, `LockUiState`, `PruneAtAccept`, `TakeSnapshot`,
`ReadRequest`, `ClonePolicy` and then one of the ends, the longest being
`Enqueue`, `BuildPayload`, `Invoke` and the wait.  The locks it has to itself
(frontend, router) and those that are never held while another is waited for
(hub, policy) are left out.  A frame of a pane is an abstraction of the handlers
of `AddinChannel`: it takes registry and channel in the code's order and makes
the session active, stale or absent.  A change of the policy reads the file,
empties it, writes it, sets the policy in force and tells the UI state, each a
step; a policy is the set of tools it allows.  Two writes of the file at once
are taken to leave what the later one wrote.  Three variables are history:
`inForce`, the policies since a request was sent; `overdue`, the sessions whose
grace was over at the accept; `disturbed`, whether changes overlapped or failed.

**ToolAccess.**  A request is one step, since the request is served with clones
(`McpServer` has the races).  The gate is the code's, in its order: the schema
(`Valid`), the action of the call (`ActionRefused`), the tool (`AllowsTool`,
which any allowed action satisfies), then the registry's `Preflight`.  A
resource goes by the tool it calls and sees neither schema nor action gate.  The
tables are parameters.  `ToolMetadata`, `ToolSchemas` and `ToolResources` hold
the daemon's own, complete: all public tools with app, category, side
effect and actions, every argument a schema names, every enum found by argument
name or tool, every example, every resource and template.  Values that nothing
looks at are one value; schemas nested in an argument are left out.  What the
tables have to agree on is stated as assumptions, which TLC evaluates on the
daemon's own: `CatalogueAssumption` (every public tool has its metadata; the
actions it ranks are those of the enum; where the side effect of a tool is
allowed, so is that of one of its actions; a resource's arguments are those the
tool it reads takes, but for the range of slides) and `CallsAssumption` (of each
tool and each of its actions a call is tried that the schema takes; a call
without arguments, `NoObject`, is none of them).

**McpFrontend.**  The MCP thread takes connections first come, first served and
answers one at a time, so the connections are a queue and a request is answered
in the step that takes it from its head.  A request is what the frontend looks
at: path, method, origin, size, session and the kind of message; "partial" is one
whose end has not come, which the thread waits for.  A message is for
initialization if its body contains the word.  Windows are fixed, counted by
their age in ticks.  `Stop` may come at any time, closes the connections and
forgets sessions and windows; session numbers start from 1 again.  `accepted` is
history: for each age in ticks, how many requests of a source and class were let
through no longer ago than that.

**StdioBridge.**  The bridge posts one message at a time on a connection of its
own and keeps the session of the first `initialize`; any status from 400 on, and
a connection that closes, ends it.  Its client keeps to the protocol and may
start it again.  The sessions command initializes, lists and exits.  HTTP
clients send anything: wrong paths, methods and origins, ids of sessions that
are gone, requests that come in two parts.

**Configuration.**  A file is a sequence of headings and entries, with broken
lines where a write was cut or a user erred.  `Loads` is the parse, the type
checks of every key (also of one that the environment overrides) and the checks
of the values; `Starts` adds the loopback and port checks of the server.  A
refused start is no step.  `Replaced` is the save: the first `tool_access`
section up to the next heading of any kind is replaced, the parser lets the last
of several sections win.  `SaveIsCut` leaves any first part of the new file.
The configuration is read at the start only.

## 3. What is checked

Runs that pass:

| Run | Shows | Bounds |
|---|---|---|
| `channel_overlap` | `TypeOK`, `RoutingSound`, `TablesAgree`, `LinkedSessionOwned`, `GraceHonoured` with connections overlapping, registering again and removing any session | 3 panes, two of which present the same session id, 3 interchangeable connections, grace of 1 tick |
| `reconnect` | with overlapping connections of the pane: `ConnectedIsReachable`, `ActiveIsReachable`, that closed documents disappear unless the pane was cut off when it last announced (`ClosedDocumentDisappearsUnlessAstray`), and that stale sessions are resolved (`StaleIsResolved`) | 1 pane, 2 connections, 3 frames per connection, 2 calls of `announceSession` awaiting |
| `tool_invocation` | `AnswerIsOwn`, `NoLostWakeup`, `StartedOnce`, `CancelHitsItsCall`, `EntriesAccountedFor`, the refinement `KeepsContract`, and `EveryCallReturns` | 1 pane, 3 calls, two of which share a request id; connections lost and made any number of times |
| `heartbeat` | `ClosedWhenSilent`: closed after three silent rounds, neither before nor later (a disagreement with the document, below); `SilentIsClosed` | interval 3, timeout 2 |
| `command_router` | `TasksAreQueued`, `HistoriesAgree`, `SequencesIncrease`, and the refinement `KeepsLife` | 2 sessions, 3 commands, a chosen id that repeats and is one of the minted ids too, histories of 2 |
| `mcp_server` | `NoCircularWait`, `PolicyIsCurrent`, `PolicyAgrees`, `ListedHadGrace`, and that every request ends (`EveryRequestEnds`); no deadlock | 1 MCP client, 1 pane with 3 frames, 1 UI request at a time, 1 tool |
| `tool_access` | `PolicyRespected`, `ListedIffCallable`, `OnlyValidCallsAreInvoked`, `ShownIsUsable`, `WideningOnlyAdds` | the daemon's whole catalogue; 6 policies (the three modes, with nothing and with an app, a category and a tool switched off); of each tool the least and the fullest call, one argument less or more, every action, a wrong value for each enum, its examples |
| `stdio_bridge` | `BurstIsBounded`, `RefusedOnlyIfBusy`, `SessionsAreOwn`, `BridgeEndsForCause`, and that a bridge never waits for ever (`BridgeNeverHangs`) | 1 bridge, and one client that is the command at one time and an HTTP client at another; all on one machine, so that they share windows; budgets 1 and 2, a minute of 2 ticks; 2 sessions in each of 2 lives of the daemon, 3 requests within a window |
| `configuration` | `RunsInRange`, `SavedPolicyReturns`, `SaveKeepsTheRest` | 14 files, whole, cut and saved over, with the section missing, repeated, broken or in the middle; 5 environments; 2 policies; 1 cut between edits |

Two connections of a pane overlap: one in use, one whose removal is late, and
either may be removed first; two calls of `announceSession` let one of an
earlier socket send on the later one.  A third connection (`channel_overlap`)
adds one more that is removed or registers in between; with three the panes'
composition is past what the liveness properties can be checked on in minutes,
and its safety properties are proved for any number.  Two panes that share a session can take it from each other; a
third shows what that does to a session of its own.  Three calls give a timed-out call, a later one with the same
id, and a bystander whose id is its own.  Histories of 2 with 3 commands
truncate.  Interval and timeout differ so that a mistake of one for the other
shows.  Three frames let a session become active, stale and active again.  A
budget of 1 for calls and of 2 for discovery lets both run out, each alone, and
a minute of 2 ticks has an end of one window next to the start of another.  Two
lives are what a session id needs to come back as somebody else's; two sessions
of a life are one for each program, or two for a program that asks again.
The code's discovery budget is 10 times the other, of which nothing but the
bound depends.  Two UI requests at a time are the subject of `policy_race`, and of the
theorems about `McpServer`.

Runs that show a disagreement (`findings` in `PROJECT.json` quotes the lines):

| Run | Property | What happens |
|---|---|---|
| `reconnect_zombie` | `ClosedDocumentDisappears` | the old connection is removed after the new registration; the session announced next is active with no entry linking it, and stays in the lists after its document is closed |
| `heartbeat` (passes) | `ClosedWhenSilent` | the code closes after exactly three rounds without a pong; `02-registration-protocol.md:414` says "Two consecutive missed pongs".  The mutant `CloseAtSecondMiss` does as the document says and violates the property: the two numbers cannot both be right |
| `invocation_lost` | `LostCallIsTold` | the connection drops; the call waits for its deadline and reports TIMEOUT instead of SESSION_LOST |
| `policy_race` | `RestartAppliesPolicy` | two overlapping changes save in one order and set in the other: the file has one policy, the other is in force |

### Disagreements that no run is about

The models do in these points what the code does.  Documents are those of
`doc/spec`.

Connections and calls:

- `02-registration-protocol.md:248-250` has a runtime rejected that presents
  another one's session id; the registry overwrites the owner
  (`session_registry.rs:61`).  `channel_overlap` and the theorems about
  `AddinChannel` say what still holds then: routes, tables and grace periods.
  What is lost is that an entry links a session of its runtime
  (`LinkedSessionOwned` speaks of panes with an id of their own).
- `01-architecture.md:454` has calls to different sessions proceed in parallel;
  the MCP loop serves one request at a time (`runtime/server.rs:197`), with the
  UI state locked, so that a UI request made during a call waits for its end and
  never shows it among the current tasks (`09-ui.md:761`).
- A call travels under the id its client gave it when that is a string
  (`mcp_forwarded_tool.rs:31`), and an answer fills whatever entry has the id: a
  second call may be told the late answer of a first with the same id.
  `01-architecture.md:458` has ids stamped by the server.  `AnswerIsOwn` is
  about the calls that share their id with no other.
- After a timeout the next call is dispatched while the pane may still run the
  previous one (`mcp_forwarded_tool.rs:103`); `01-architecture.md:455` has
  exactly one dispatched call per session.
- A response over the limit leaves its task among the current tasks for ever
  (`command_router.rs:178`; `09-ui.md:761`): `oversized` in `TasksAreQueued`.
- As the registry is cloned before the request is read, a client that connects
  early is served with the sessions of the time it connected: `ListedHadGrace`
  counts from the accept for that reason.

Frontend and bridge:

- A request whose body contains "initialize", a text for a document for
  instance, counts against the larger discovery budget (`http_wire.rs:101`,
  `runtime_request_router.rs:47`); `03-mcp-tool-surface.md:463` counts
  operations apart.
- No session ends but with the daemon: DELETE answers without ending it and
  `close_session` has no caller outside its tests; sessions and windows are
  never freed.
- A body over the limit is dropped by the reader without an answer; the
  frontend's 413 cannot be reached.
- The bridge passes on an error reply to a notification, and its client is
  registered as one that speaks HTTP.  The time a UI client is shown to have
  connected is that of the store's creation (`state_store.rs:63`).

Configuration:

- `07-deployment.md:197` calls an empty `certificate_path` the default of the
  installation; the code takes it for a path (`config_service.rs:92`).
  `07-deployment.md:217` has 120 requests per minute, the code 1000.
- The service describes itself as one that watches the configuration
  (`config_service.rs:39`); nothing is read again after the start.
- With a repeated `tool_access` section a save replaces the first and the parser
  obeys the last; `SavedPolicyReturns` excludes it.  Names are written unescaped.

Catalogue:

- The example of `powerpoint.update_table` has the action `set_cell_text`
  (`catalog.rs:805`), which its schema refuses; `ShownIsUsable` names it as the
  one exception.
- `excel.sort_range` takes the orientations of a page (`catalog.rs:2566`) where
  `04-excel-capabilities.md:985` shows "rows"; the calls shown there for
  `excel.format_range` (869) and `excel.apply_filter` (1009) are refused too.
- The pane's `powerpoint.update_slide` needs arguments its schema refuses;
  `word.update_list` is destructive though none of its actions is.
- The three internal Word resources are read whatever the policy and the pane's
  tools say, and nothing compares a session's app with the one of the URI.
- `06-error-model.md:32` has TOOL_NOT_AVAILABLE for a tool that is switched off;
  an action that is refused gets it too.

### Fairness

`AddinReconnect` assumes that connection threads read the frames they have and
leave their loop, that the clock runs and that the cleanup thread wakes up; all
are loops without a condition in the code.  Nothing is assumed of panes or
users.  `ToolInvocation` assumes that a deadline passes, that a woken waiter
runs and that the cancel is sent; nothing of connections and panes.
`AddinHeartbeat` assumes the clock and the polling thread.  `McpServer` assumes
that threads go on where they can and that a client which has connected sends
its request or hangs up (the code sets no limit on that); it assumes nothing of
the mutexes, which promise no order, so `EveryRequestEnds` says that a thread
gets its lock once the others have run out of clients and frames.
`StdioBridge` assumes that the daemon serves the head of its queue, that a bridge
reads its answer, and that an HTTP client which has sent half a request sends
the rest: the code waits for it without a limit, and everybody behind it waits
too.  `ToolAccess`, `CommandRouter` and `Configuration` promise nothing of the
future.

## 4. What is proved

All of it for any values of the constants that meet the modules' named
assumptions.  An invariant that is not inductive is proved by way of the
strengthening named here.

**AddinChannel**, any panes, sessions and connections, any grace period,
overlapping connections; from `RegistryAssumption` and `ChannelAssumption` (the
sentinels differ from the ids, and a pane keeps one session id, which another
may present as well):

- `TypeCorrect`: `TypeOK`, inductive with `MissesBounded`, that a connection in
  its loop has fewer than three misses.
- `TablesConsistent`: `RoutingSound` and `TablesAgree`.  Neither is inductive
  alone: that removal deletes binding and entry together keeps `TablesAgree`,
  and that channel and hub name the same runtime keeps `RoutingSound`.
- `LinksAreOwned`: `LinkedSessionOwned`, strengthened by `LinksItsOwn` (an
  entry only links the session its pane presents).  It is about the panes whose
  session id nobody else presents (`SoleHolders`), whatever the others do.
- `GraceIsHonoured`: the action property `GraceHonoured`.
- `ActiveSessionsReachable`: `ActiveIsReachable`, with connections overlapping
  and registering again in any way.  The strengthening says when a runtime has
  its entry (`EntryUnlessSevered`: whenever one of its connections is in the
  channel table, unless it is severed) and that an active session that is not
  astray is linked by its owner's entry (`ActiveIsLinked`); that the entry comes
  with a binding is `TablesAgree`, and that the binding is live `RoutingSound`.

**AddinReconnect**, any panes, connections and length of the wire:

- The daemon's part of every step is a step of `AddinChannel` (`DaemonBehaves`),
  so that all of the above holds of the composition.  `PanesTypeCorrect`: the
  types, with `SocketsOK` (nothing is under way on a connection without a
  thread, nor before the socket opens).
- `PanesRegisterOnce`: a pane registers once per socket, as itself, in its first
  frame.
- `ActiveStaysReachable` and `ConnectedStaysReachable`: `ActiveIsReachable` and
  `ConnectedIsReachable`, for overlapping connections.  The second rests on
  `AnnouncedInv`: while a pane shows "Connected" on a socket that is open at both
  ends, its announcement is on the wire (`Coming`), or its effect is there
  (`Serves`), or another connection of the pane is still to be removed, or was
  and has cut it off (`Disturbed`); once nothing is under way only the second is
  left, but for a severed pane.  It is about panes with a session id of their own; the
  first about every session.

**AddinHeartbeat**, any interval and timeout: `TypeCorrect` and `ClosesOnTime`
(`ClosedWhenSilent`).  The invariant counts the silence by rounds: missed rounds
take interval and timeout each, the current one what its timers have left; the
pings in flight are the last ones sent, in order, so that ids which repeat
modulo four are never mistaken.

**ToolInvocation**, any panes, calls and ways to share request ids, from
`InvocationAssumption`: `TypeCorrect`; `AnswersReachTheirCalls` (`AnswerIsOwn`,
`NoLostWakeup`); `PendingAccounted` (`EntriesAccountedFor`); `CancelsAreTimed`
(`CancelHitsItsCall`); `NoToolRunsTwice` (`StartedOnce`): a call's payload is at
most once in what a pane has still to read, and only while the call has not been
started; and `ContractKept`, the refinement of `ToolCallContract`: a call is told
its verdict once.

**CommandRouter**, any sessions and request ids, any limit of the histories and
number of commands, from `RouterAssumption`:

- `TypeCorrect`, `TasksStayQueued` (`TasksAreQueued`), `SequencesStayOrdered`
  (`SequencesIncrease`) and `HistoriesStayTogether` (`HistoriesAgree`), all from
  one invariant, `RouterInv`.  None of them is inductive alone: that a command
  which leaves its queue leaves the tasks too needs that it is in no other queue
  and not twice in its own (`QueuesSound`: the queues hold commands of their
  session in the order of their numbers, and none that was given up as too
  large); and that the histories agree after each entered a record and dropped
  its last needs that the records of a document are in both in one order
  (`HistoriesSound`: a document's history holds only its own commands, none of
  them twice and none that is still a task).
- `LifeIsKept`: `KeepsLife`, the refinement of `CommandLife`.  A pass of
  `expire_timeouts` visits one document after the other, and two variables of the
  abstract specification change at its start for all of them: what the pass has
  still to remove counts as gone (`Leaving`), so that `ExpireTimeouts` is the one
  abstract step and each `ExpireSession` a stutter (`PassImplements`,
  `VisitStutters`).  The first command of a queue under a request id is the
  oldest in flight under it (`FlightQueued`), which needs `RouterInv`; that a
  session without a queue counts from zero (`EmptyCountsFromZero`) is what makes
  the numbers those since the document was last idle.
- The lemmas about `RemoveAt`, `Entered` and `SubSeq` say what is at each index,
  so that no recursion over sequences is left to reason about.

**McpServer**, any panes, clients, tools and UI requests, from
`ServerAssumption`:

- `TypeCorrect`; `LocksHeld`: a lock is held by the thread whose place in its
  handler says so, and by no other; `NoDeadlock`: `NoCircularWait`, by the
  order of the locks: whoever holds the channel waits for nothing, so whoever
  holds the registry waits for nobody in a circle, so neither does the holder of
  the UI state.
- `PolicyStaysCurrent`: `PolicyIsCurrent`, as the policy in force is among those
  of every open request.  `PoliciesAgree`: `PolicyAgrees`, by an invariant of
  every place in a change (`Undisturbed`): what it has read, written and set so
  far.  `GraceIsKept`: `ListedHadGrace`, as what was overdue at the accept is
  pruned before the snapshot is taken.

**ToolAccess**, any catalogue that meets `CatalogueAssumption` and calls that
meet `CallsAssumption` (TLC checks that the daemon's do), any policies and
registrations:

- `PolicyHolds` (`PolicyRespected`), by one lemma per way to reach a document
  (`GateHolds`, `ReadHolds`, `InternalHolds`).
- `WideningHolds` (`WideningOnlyAdds`), as the modes are ranked by what they
  allow.
- `ListedAreCallable` (`ListedIffCallable`): where the policy lets a tool
  through, it lets one of its actions through (`ActionsAsMild`), and the call of
  that action meets the schema; the other way round, the gate tests a call's
  tool as the list does.
- `InvokedAreValid` (`OnlyValidCallsAreInvoked`), for tools called directly and
  by way of a resource.

**StdioBridge**, any programs, budgets and bounds, any number of lives, from
`FrontendAssumption` and `ClientsAssumption`: `SessionsStayOwn`
(`SessionsAreOwn`), by the invariant that every session a program holds or is
being told of has been numbered in its life, and no two programs share one;
`BridgesEndForCause` (`BridgeEndsForCause`), which needs besides what a bridge's
request and answer can be at each of its places, and that the open sessions are
those numbered so far.  About the frontend:

- `BurstsAreBounded` (`BurstIsBounded`): within any minute no more than twice
  the budget is let through, which is what fixed windows allow.  The invariant
  `RateInv` relates each window to the history: it has counted what was let
  through since it began, and what came before it within the minute was no more
  than one budget.  Without the second half the bound is not inductive.
- `RefusalsAreDue` (`RefusedOnlyIfBusy`): whoever is refused has used up a
  budget of its own within the minute.

**Configuration**, any files, environments and policies, any number of failed
writes, from `FilesAssumption` (files are sequences of lines, and a heading is
no more than its name) and `PoliciesAssumption` (the mode has one of three
values):

- `RunningInRange` (`RunsInRange`), whatever was cut or edited in between.
- `SavedPolicies` (`SavedPolicyReturns`), by `FilesAreKept`: after a save the
  file is some file with its section replaced, and a daemon that was started
  since has read it.  `SavedIsRead` shows that such a file gives the policy back.
- `OtherSettingsStay` (`SaveKeepsTheRest`), by `LoadsOn`: a file that loads does
  so with another section, with the same settings.  Both rest on what a save
  does to the lines (`Spliced`): every line before and behind the section stays
  under its heading (`HeadingsMove`), and gives the setting it gave
  (`EntriesMove`).  That a last heading and a first section exist at all is
  `NaturalsHaveMin`, from the well-foundedness of the natural numbers.

### Only model-checked

- The liveness properties (`EveryCallReturns`, `EveryRequestEnds`,
  `SilentIsClosed`, `BridgeNeverHangs`,
  `ClosedDocumentDisappearsUnlessAstray`, `StaleIsResolved`): fairness is out of the prover's reach.
- `ShownIsUsable`: that the examples the daemon shows are accepted by its own
  schemas is a statement about its tables and nothing else.  An assumption from
  which to prove it for any catalogue would be the property over again; the run
  evaluates it on all of the daemon's tables.

## 5. What is not modelled

- Prompts, titles and descriptions, the wording of results and errors, schemas
  nested in an argument, and what a tool does inside Office.
- The image fetcher: network I/O within one request, without state.
- WebSocket and HTTP encoding, the handshake, static files.
- UI snapshots and redaction: they render state that is modelled elsewhere.
- Tray, windows, installation, daemon control, logging, audit, the evidence
  fixtures: desktop integration and append-only output.
- `session.updated` (metadata) and malformed messages, which change nothing that
  is modelled; the PATCH forms of the UI; where configuration files are looked
  for.
- In the panes: their own task list and the tool switches a user has there
  (`ToolAccess` takes any set of advertised tools instead).

Assumed of what is modelled: a pane announces the one session id it keeps in its
session storage, and a connection speaks for one pane (`Speaks`): it may register
any number of times, but always as the same instance, which is a constant of the
page (`taskpane.js:251`).  In `Configuration` three hosts stand for all that are
loopback addresses.  Ids of finished connection
threads are reused in the model, because nothing refers to them any more
(`RoutingSound`).

## 6. Plan

The core was modelled in this order, each step with its proofs: the registry and
the add-in channel with the panes; the calls; router and heartbeat; the server's
threads; the catalogue with the policy; frontend and bridge; configuration.
What is left is the panes' own task list (`office-ctl/common/task-history.js`)
and their tool switches, composed with `ToolInvocation`.  Should the registry
come to refuse a session id that another runtime owns
(`02-registration-protocol.md:248`), `SoleHolders` can go from the properties
that name it.

## 7. Running it

`tlc -config <cfg> <module>` for a run (`runs` in `PROJECT.json` lists the
pairs), and `tlapm <module>.tla` for each of the eight modules whose name ends in
`_proofs`; the longest takes about three minutes.
