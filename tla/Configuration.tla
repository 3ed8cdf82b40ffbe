--------------------------- MODULE Configuration ---------------------------
(***************************************************************************)
(* The daemon's configuration (common/config_service.rs, config_toml.rs,   *)
(* config_env.rs): it is loaded at the start from a file and from the      *)
(* environment, which wins; it is not looked at again.  The policy that    *)
(* the UI saves replaces its section of the file, which the user may edit  *)
(* at any time, and is in force at once.                                   *)
(*                                                                         *)
(* A file is a sequence of lines; blank lines and comments mean nothing    *)
(* and are left out.  A line that the parser cannot take is broken.  Names *)
(* in lists are free of separators and quotes, as those of apps, of        *)
(* categories and of tools are: they are written as they are.  Two saves   *)
(* at a time are the subject of McpServer.                                 *)
(***************************************************************************)
EXTENDS Integers, Sequences, FiniteSetsExt

CONSTANTS
  Files,     \* what the user may write
  Envs,      \* environments the daemon is started in
  Policies,  \* policies the UI may send
  MaxCuts    \* bound: failed writes of a file before the user writes it anew

VARIABLES
  file,    \* the lines of the file; none when it is missing
  env,     \* the variables that are set
  config,  \* what the running daemon has loaded
  policy,  \* the tool access policy in force
  saved,   \* the policy that was saved last, if nothing else touched the file
  cuts     \* how often a write has failed since the user wrote the file

vars == <<file, env, config, policy, saved, cuts>>

-----------------------------------------------------------------------------
(* Values *)

\* A value of the file and, by what it parses to, one of the environment.
Text(t) == [type |-> "string", text |-> t]
Number(n) == [type |-> "integer", number |-> n]
Truth(b) == [type |-> "boolean", truth |-> b]
\* The text of a list of names, "a,b", and of pairs, "a:b;c:d".
Names(S) == [type |-> "names", names |-> S]
Pairs(S) == [type |-> "pairs", pairs |-> S]
IsText(v) == v.type \in {"string", "names", "pairs"}
IsPositive(v) == v.type = "integer" /\ v.number \in Nat \ {0}

NamesOf(v) ==
  CASE v.type = "names" -> v.names
    [] v = Text("") -> {}
    [] v.type = "string" -> {v.text}
\* An item that has no colon is no pair.
IsPairs(v) == v.type = "pairs" \/ v \in {Text(""), Names({})}
PairsOf(v) == IF v.type = "pairs" THEN v.pairs ELSE {}

Lower(v) == IF v = Text("Read") THEN Text("read") ELSE v
Modes == {Text(t) : t \in {"read", "write", "all"}}
Levels == {Text(t) : t \in {"trace", "debug", "info", "warn", "error"}}
\* Three hosts stand for all that name the machine itself, whatever their form.
IsLoopbackHost(v) == v \in {Text(t) : t \in {"localhost", "127.0.0.1", "::1"}}

-----------------------------------------------------------------------------
(* The settings: section and key of the file, variables, kind and default *)

Setting(section, key, names, kind, default) ==
  [section |-> section, key |-> key, names |-> names, kind |-> kind,
   default |-> default]
InFile(section, key, new, old, kind, default) ==
  Setting(section, key, <<"OFFICE_MCP_" \o new, "OFFICE_MCP_" \o old>>,
          kind, default)

\* The origin is made of host and port, and is no key of the file.
Origin ==
  InFile("addin_channel", "no key", "ADDIN_CHANNEL__ORIGIN", "ADDIN_ORIGIN",
         "origin", Text("https://host:port"))
AddinBind ==
  InFile("addin_channel", "bind", "ADDIN_CHANNEL__BIND", "ADDIN_HOST",
         "string", Text("localhost"))
AddinPort ==
  InFile("addin_channel", "port", "ADDIN_CHANNEL__PORT", "ADDIN_PORT",
         "positive", Number(8765))
Grace ==
  InFile("addin_channel", "session_grace_sec",
         "ADDIN_CHANNEL__SESSION_GRACE_SEC", "ADDIN_SESSION_GRACE_SEC",
         "grace", Number(60))
AddinSettings == {Origin, AddinBind, AddinPort, Grace,
  InFile("addin_channel", "certificate_path",
         "ADDIN_CHANNEL__CERTIFICATE_PATH", "ADDIN_PFX_PATH",
         "string", Text(".office-mcp-localhost.pfx")),
  InFile("addin_channel", "certificate_passphrase",
         "ADDIN_CHANNEL__CERTIFICATE_PASSPHRASE", "ADDIN_PFX_PASSPHRASE",
         "string", Text("office-mcp-localhost")),
  InFile("addin_channel", "heartbeat_interval_sec",
         "ADDIN_CHANNEL__HEARTBEAT_INTERVAL_SEC",
         "ADDIN_HEARTBEAT_INTERVAL_SEC", "positive", Number(30)),
  InFile("addin_channel", "heartbeat_timeout_sec",
         "ADDIN_CHANNEL__HEARTBEAT_TIMEOUT_SEC",
         "ADDIN_HEARTBEAT_TIMEOUT_SEC", "positive", Number(10)),
  InFile("addin_channel", "max_pending_per_session",
         "ADDIN_CHANNEL__MAX_PENDING_PER_SESSION",
         "ADDIN_MAX_PENDING_PER_SESSION", "positive", Number(4))}

McpBind ==
  InFile("mcp_http", "bind", "MCP_HTTP__BIND", "MCP_HOST",
         "string", Text("127.0.0.1"))
McpPort ==
  InFile("mcp_http", "port", "MCP_HTTP__PORT", "MCP_PORT",
         "positive", Number(8800))
McpSettings == {McpBind, McpPort}

LimitsSettings == {
  InFile("limits", "max_response_bytes", "LIMITS__MAX_RESPONSE_BYTES",
         "MAX_RESPONSE_BYTES", "positive", Number(1024 * 1024)),
  InFile("limits", "max_request_bytes", "LIMITS__MAX_REQUEST_BYTES",
         "MAX_REQUEST_BYTES", "positive", Number(16 * 1024 * 1024)),
  InFile("limits", "max_ws_frame_bytes", "LIMITS__MAX_WS_FRAME_BYTES",
         "MAX_WS_FRAME_BYTES", "positive", Number(16 * 1024 * 1024)),
  InFile("limits", "default_tool_timeout_ms",
         "LIMITS__DEFAULT_TOOL_TIMEOUT_MS", "DEFAULT_TOOL_TIMEOUT_MS",
         "positive", Number(30000)),
  InFile("limits", "requests_per_minute", "LIMITS__REQUESTS_PER_MINUTE",
         "REQUESTS_PER_MINUTE", "positive", Number(1000))}

AuditSettings == {
  InFile("audit", "enabled", "AUDIT__ENABLED", "AUDIT_ENABLED",
         "boolean", Truth(FALSE)),
  InFile("audit", "path", "AUDIT__PATH", "AUDIT_PATH",
         "path", Text("audit.jsonl"))}

LoggingSettings == {
  InFile("logging", "level", "LOGGING__LEVEL", "LOG_LEVEL",
         "level", Text("info")),
  InFile("logging", "file", "LOGGING__FILE", "LOG_FILE",
         "path", Text("office-mcp.log"))}

ToolAccess(key, name, kind, default) ==
  Setting("tool_access", key, <<"OFFICE_MCP_TOOL_ACCESS__" \o name>>,
          kind, Text(default))
AccessMode == ToolAccess("access_mode", "ACCESS_MODE", "mode", "all")
DisabledApps == ToolAccess("disabled_apps", "DISABLED_APPS", "names", "")
DisabledCategories ==
  ToolAccess("disabled_categories", "DISABLED_CATEGORIES", "pairs", "")
DisabledTools == ToolAccess("disabled_tools", "DISABLED_TOOLS", "names", "")
ToolAccessSettings ==
  {AccessMode, DisabledApps, DisabledCategories, DisabledTools}

OtherSettings ==
  AddinSettings \cup McpSettings \cup LimitsSettings \cup AuditSettings
    \cup LoggingSettings
Settings == OtherSettings \cup ToolAccessSettings

-----------------------------------------------------------------------------
(* The file *)

Heading(name) == [kind |-> "heading", name |-> name]
Entry(key, value) == [kind |-> "entry", key |-> key, value |-> value]
Broken == [kind |-> "broken"]
\* A heading whose name is no identifier, which the parser cannot take either.
OddHeading == [kind |-> "odd heading"]

\* The last heading above a line; none is 0.
HeadingOf(f, i) ==
  Max({0} \cup {j \in 1 .. i : f[j].kind = "heading"})

Parses(f) ==
  \A i \in 1 .. Len(f) :
    /\ f[i].kind \in {"heading", "entry"}
    /\ f[i].kind = "entry" => HeadingOf(f, i) # 0

\* The lines that give a setting; sections may be repeated, and the last counts.
Entries(f, s) ==
  {i \in 1 .. Len(f) :
     /\ f[i].kind = "entry" /\ f[i].key = s.key
     /\ f[HeadingOf(f, i)].name = s.section}

FromFile(f, s) ==
  IF Entries(f, s) = {} THEN s.default ELSE f[Max(Entries(f, s))].value

\* What the file says has to be of its type, even when it does not count.
FileFits(f, s) ==
  CASE s.kind \in {"positive", "grace"} -> IsPositive(FromFile(f, s))
    [] s.kind = "boolean" -> FromFile(f, s).type = "boolean"
    [] OTHER -> IsText(FromFile(f, s))

-----------------------------------------------------------------------------
(* Loading *)

\* The variables of a setting that are set, by their place among its names.
Given(e, s) == {i \in DOMAIN s.names : s.names[i] \in DOMAIN e}
FromEnv(e, s) == e[s.names[Min(Given(e, s))]]

\* Mutant: the environment is believed.
EnvFitsAny(e, s) == TRUE

EnvFits(e, s) ==
  Given(e, s) # {} =>
    CASE s.kind \in {"positive", "grace"} -> IsPositive(FromEnv(e, s))
      [] s.kind = "boolean" -> FromEnv(e, s).type = "boolean"
      [] OTHER -> TRUE

MaxSessionGrace == 300
Value(f, e, s) ==
  LET given == IF Given(e, s) # {} THEN FromEnv(e, s) ELSE FromFile(f, s)
  IN  CASE s.kind = "grace" ->
             IF given.type = "integer" /\ given.number > MaxSessionGrace
             THEN Number(MaxSessionGrace) ELSE given
        [] s.kind = "mode" -> Lower(given)
        [] s.kind = "path" ->
             IF Given(e, s) = {} /\ given = Text("") THEN s.default ELSE given
        [] OTHER -> given

ValueFits(f, e, s) ==
  CASE s.kind = "mode" -> Value(f, e, s) \in Modes
    [] s.kind = "level" -> Value(f, e, s) \in Levels
    [] s.kind = "pairs" -> IsPairs(Value(f, e, s))
    [] OTHER -> TRUE

Loads(f, e) ==
  /\ Parses(f)
  /\ \A s \in Settings : FileFits(f, s) /\ EnvFits(e, s) /\ ValueFits(f, e, s)

PolicyOf(f, e) ==
  [mode |-> Value(f, e, AccessMode).text,
   apps |-> NamesOf(Value(f, e, DisabledApps)),
   categories |-> PairsOf(Value(f, e, DisabledCategories)),
   tools |-> NamesOf(Value(f, e, DisabledTools))]

\* The settings other than the policy.
Load(f, e) == [s \in OtherSettings |-> Value(f, e, s)]

\* Only loopback addresses are bound to, and a port has 16 bits.
WithinBoundary(c) == IsLoopbackHost(c[AddinBind]) /\ IsLoopbackHost(c[McpBind])
PortsFit(c) == \A s \in {AddinPort, McpPort} : c[s].number < 2^16

Starts(f, e) ==
  Loads(f, e) /\ WithinBoundary(Load(f, e)) /\ PortsFit(Load(f, e))

-----------------------------------------------------------------------------
(* Saving *)

Rendered(p) ==
  <<Heading("tool_access"),
    Entry("access_mode", Text(p.mode)),
    Entry("disabled_apps", Names(p.apps)),
    Entry("disabled_categories", Pairs(p.categories)),
    Entry("disabled_tools", Names(p.tools))>>

\* The first such section, and the line of the next heading of any kind.
SectionStart(f) ==
  Min({Len(f) + 1} \cup {i \in 1 .. Len(f) : f[i] = Heading("tool_access")})

\* Mutants: the section goes on to the end, or ends at once.
SectionEndAtLast(f) == Len(f) + 1
SectionEndAtOnce(f) == Min({SectionStart(f), Len(f)}) + 1

SectionEnd(f) ==
  Min({Len(f) + 1} \cup
      {i \in SectionStart(f) + 1 .. Len(f) :
         f[i].kind \in {"heading", "odd heading"}})

Replaced(f, p) ==
  SubSeq(f, 1, SectionStart(f) - 1) \o Rendered(p)
    \o SubSeq(f, SectionEnd(f), Len(f))

\* What the user may write.
Written == UNION {{f[i] : i \in DOMAIN f} : f \in Files}

\* A file is a sequence of lines, a heading no more than the name of its section.
ASSUME FilesAssumption ==
  /\ Files \subseteq Seq(Written)
  /\ \A l \in Written : l.kind = "heading" => l = Heading(l.name)

\* The mode has three values (enum AccessMode).
ASSUME PoliciesAssumption ==
  Policies \subseteq
    [mode : {"read", "write", "all"}, apps : SUBSET STRING,
     categories : SUBSET (STRING \X STRING), tools : SUBSET STRING]

-----------------------------------------------------------------------------
(* Actions *)

NoConfig == [s \in {} |-> Text("")]
NoPolicy == [mode |-> "none"]
Up == config # NoConfig

Init ==
  /\ file \in Files
  /\ env \in Envs
  /\ config = NoConfig
  /\ policy = NoPolicy
  /\ saved = NoPolicy
  /\ cuts = 0

\* A daemon whose configuration is refused ends with an error instead.
Start ==
  /\ ~Up
  /\ Starts(file, env)
  /\ config' = Load(file, env)
  /\ policy' = PolicyOf(file, env)
  /\ UNCHANGED <<file, env, saved, cuts>>

\* It may be started again in another environment.
Stop ==
  /\ Up
  /\ env' \in Envs
  /\ config' = NoConfig
  /\ policy' = NoPolicy
  /\ UNCHANGED <<file, saved, cuts>>

\* The user writes the file.
Edit ==
  /\ file' \in Files \ {file}
  /\ saved' = NoPolicy
  /\ cuts' = 0
  /\ UNCHANGED <<env, config, policy>>

SaveToolAccess(p) ==
  /\ Up
  /\ file' = Replaced(file, p)
  /\ policy' = p
  /\ saved' = p
  /\ UNCHANGED <<env, config, cuts>>

\* The file is emptied before it is written.  When the write fails half way, for
\* a full disk, the daemon goes on with its policy; or it is killed itself.
SaveIsCut(p) ==
  /\ Up /\ cuts < MaxCuts
  /\ cuts' = cuts + 1
  /\ \E n \in 0 .. Len(Replaced(file, p)) - 1, rest \in {<<>>, <<Broken>>} :
       file' = SubSeq(Replaced(file, p), 1, n) \o rest
  /\ saved' = NoPolicy
  /\ \/ UNCHANGED <<config, policy>>
     \/ config' = NoConfig /\ policy' = NoPolicy
  /\ UNCHANGED env

Next ==
  \/ Start \/ Stop \/ Edit
  \/ \E p \in Policies : SaveToolAccess(p) \/ SaveIsCut(p)

Spec == Init /\ [][Next]_vars

-----------------------------------------------------------------------------
(* Properties *)

\* A daemon runs with settings in range, wherever each of them comes from: what
\* counts has a legal value, ports, sizes and times are positive.
RunsInRange ==
  Up =>
    /\ \A s \in OtherSettings :
         /\ s.kind \in {"positive", "grace"} => IsPositive(config[s])
         /\ s.kind = "grace" => config[s].number <= MaxSessionGrace
         /\ s.kind = "boolean" => config[s].type = "boolean"
         /\ s.kind = "level" => config[s] \in Levels
    /\ WithinBoundary(config) /\ PortsFit(config)

\* A save changes no setting but the policy: a file that loads does so after it
\* as well, in any environment, and gives the same.
SaveKeepsTheRest ==
  [][\A p \in Policies : SaveToolAccess(p) =>
       \A e \in Envs : Loads(file, e) =>
         Loads(file', e) /\ Load(file', e) = Load(file, e)]_vars

Once(f) == Cardinality({i \in 1 .. Len(f) : f[i] = Heading("tool_access")}) = 1
Overridden(e) == \E s \in ToolAccessSettings : Given(e, s) # {}

\* The policy that was saved is the one in force, and comes back with every
\* start, unless the environment says otherwise or the section is repeated.
SavedPolicyReturns ==
  saved # NoPolicy /\ ~Overridden(env) /\ Once(file) =>
    /\ Up => policy = saved
    /\ Loads(file, env) => PolicyOf(file, env) = saved
=============================================================================
