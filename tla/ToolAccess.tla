----------------------------- MODULE ToolAccess -----------------------------
(***************************************************************************)
(* What an MCP client may do (runtime/mcp_rpc.rs, mcp/catalog.rs,          *)
(* mcp/tool_access_policy.rs, mcp/resource_request.rs): the daemon lists   *)
(* the tools its access policy allows, judges each tools/call by the       *)
(* schema, then by the action it asks for, then by the tool, and turns a   *)
(* resources/read into a tool call it makes itself.                        *)
(*                                                                         *)
(* The catalogue is a parameter; MCToolAccess gives it the daemon's own    *)
(* tables.  A request is one step: McpServer has the races of a request    *)
(* with changes of the policy, ToolInvocation what becomes of a call that  *)
(* is forwarded.  There is one document session, and names are canonical   *)
(* (the alias of a tool only replaces its dots).                           *)
(***************************************************************************)
EXTENDS Naturals

CONSTANTS
  OfficeTools,      \* the public tools: the daemon lists and forwards them
  ManagementTools,  \* the tools the daemon answers itself
  OtherNames,       \* other names clients call, those of internal tools too
  Metadata,         \* of each tool its app, category, side effect and actions
  Specs,            \* of each tool the arguments it requires and accepts
  Enums,            \* of each tool the arguments with an enum
  Resources,        \* of each app its resource paths, and the calls they make
  Examples,         \* the example calls the daemon gives of tools
  Policies,         \* the access policies
  Session,          \* the document session
  NoObject,         \* arguments that are no object: a function no tool accepts
  Told,             \* of each app the resource paths clients are told of
  Advertised,       \* of each app the tool sets its task pane may advertise
  ArgumentsOf       \* of each name, the arguments clients call it with

VARIABLES
  policy,   \* the access policy in force
  session,  \* the session's registration: app, staleness, advertised tools
  reply     \* what became of the request served last

vars == <<policy, session, reply>>

Names == OfficeTools \cup ManagementTools \cup OtherNames
Known == OfficeTools \cup ManagementTools
Described == DOMAIN Metadata
Apps == DOMAIN Resources
Absent == [app |-> "none", stale |-> FALSE, tools |-> {}]
\* What a pane says of itself: the tools it advertises are those its Office
\* supports and its user and their mode allow, out of all it has.
Registrations ==
  UNION {[app : {a}, stale : BOOLEAN, tools : Advertised[a]] : a \in Apps}
Idle == [outcome |-> "idle", tool |-> "none", args |-> NoObject]
Reply(outcome, tool, args) ==
  [outcome |-> outcome, tool |-> tool, args |-> args]

-----------------------------------------------------------------------------
(* Validation *)

\* Tools that do more than read accept a dry run, whatever their table says.
Accepts(t) ==
  Specs[t].properties \cup
    (IF t \in Described /\ Metadata[t].sideEffect # "Read"
     THEN {"validate_only"} ELSE {})

\* Mutant: an argument with a list of values takes the first only.
EnumTakesOne(t, args) ==
  \A k \in DOMAIN args \cap DOMAIN Enums[t] :
    args[k] = CHOOSE v \in Enums[t][k] : TRUE

EnumRespected(t, args) ==
  \A k \in DOMAIN args \cap DOMAIN Enums[t] : args[k] \in Enums[t][k]

Valid(t, args) ==
  /\ args # NoObject
  /\ DOMAIN args \subseteq Accepts(t)
  /\ EnumRespected(t, args)
  /\ Specs[t].required \subseteq DOMAIN args

-----------------------------------------------------------------------------
(* The access policy *)

\* Mutant: the writing mode allows what writes, and only that.
ModeIsEffect(mode, effect) ==
  mode = effect \/ mode = "All"

ModeAllows(mode, effect) ==
  CASE mode = "Read" -> effect = "Read"
    [] mode = "Write" -> effect # "Destructive"
    [] mode = "All" -> TRUE

ActionsOf(t) == DOMAIN Metadata[t].actions

\* Mutant: whatever the actions do.
HasActions(t, mode) == ActionsOf(t) # {}

HasActionAllowedBy(t, mode) ==
  \E a \in ActionsOf(t) : ModeAllows(mode, Metadata[t].actions[a])

\* Neither the tool's app nor its category is switched off.
Enabled(p, t) ==
  /\ Metadata[t].app \notin p.apps
  /\ <<Metadata[t].app, Metadata[t].category>> \notin p.categories

AllowsTool(p, t) ==
  /\ t \notin p.tools
  /\ t \in Described =>
       /\ Enabled(p, t)
       /\ \/ ModeAllows(p.mode, Metadata[t].sideEffect)
          \/ HasActionAllowedBy(t, p.mode)

\* Mutant: an action is judged as its tool.
AllowsActionOfTool(p, t, a) == AllowsTool(p, t)

AllowsAction(p, t, a) ==
  /\ t \notin p.tools
  /\ t \in Described =>
       /\ Enabled(p, t)
       /\ ModeAllows(p.mode, IF a \in ActionsOf(t) THEN Metadata[t].actions[a]
                             ELSE Metadata[t].sideEffect)

\* The action a call asks for: none, or the one.
SelectedActions(t, args) ==
  IF "action" \in DOMAIN args THEN {args["action"]}
  ELSE IF t = "powerpoint.update_tags" THEN {"list"} ELSE {}

\* Only an action with a side effect of its own is judged.
JudgedActions(t, args) ==
  IF t \in Described THEN SelectedActions(t, args) \cap ActionsOf(t)
  ELSE {}

ActionRefused(p, t, args) ==
  \E a \in JudgedActions(t, args) : ~AllowsAction(p, t, a)

\* The gate as a whole: the call gets past the schema and the policy.
Passes(p, t, args) ==
  AllowsTool(p, t) /\ Valid(t, args) /\ ~ActionRefused(p, t, args)

ListedTools(p) == ManagementTools \cup {t \in OfficeTools : AllowsTool(p, t)}

-----------------------------------------------------------------------------
(* Forwarding *)

\* What the registry says of a call, before anything is sent.
Preflight(t, id, checkCapability) ==
  IF session = Absent THEN "NO_SESSIONS"
  ELSE IF id # Session THEN "SESSION_NOT_FOUND"
  ELSE IF session.stale THEN "SESSION_STALE"
  ELSE IF checkCapability /\ t \notin session.tools
       THEN "TOOL_NOT_ENABLED_FOR_DOCUMENT" ELSE "invoked"

Init ==
  /\ policy \in Policies
  /\ session = Absent
  /\ reply = Idle

\* The daemon's UI sets another policy, or the daemon starts with one.
SetToolAccessPolicy(p) ==
  /\ reply = Idle
  /\ policy' = p
  /\ UNCHANGED <<session, reply>>

\* The session is added or updated, becomes stale, or is removed.
SessionEvent(r) ==
  /\ reply = Idle
  /\ session' = r
  /\ UNCHANGED <<policy, reply>>

\* Answers with the outcome; the client sends a request at a time.
Answer(outcome, t, args) ==
  /\ reply' = Reply(outcome, t, args)
  /\ UNCHANGED <<policy, session>>

\* The client has its answer and may send the next request.
Answered ==
  /\ reply # Idle
  /\ reply' = Idle
  /\ UNCHANGED <<policy, session>>

-----------------------------------------------------------------------------
(* tools/call, in the order the daemon looks at a call.  A refused action   *)
(* and a refused tool have the same error code and different messages.     *)

RefuseArguments(t, args) ==
  /\ t \in Known
  /\ ~Valid(t, args)
  /\ Answer("INVALID_ARGUMENTS", t, args)

RefuseAction(t, args) ==
  /\ t \in OfficeTools
  /\ Valid(t, args)
  /\ ActionRefused(policy, t, args)
  /\ Answer("ACTION_NOT_AVAILABLE", t, args)

RefuseTool(t, args) ==
  /\ t \in OfficeTools
  /\ Valid(t, args)
  /\ ~ActionRefused(policy, t, args)
  /\ ~AllowsTool(policy, t)
  /\ Answer("TOOL_NOT_AVAILABLE", t, args)

\* The daemon's own tools: they are answered whatever the policy.
AnswerManagement(t, args) ==
  /\ t \in ManagementTools
  /\ Valid(t, args)
  /\ LET unknown == session = Absent \/ args["session_id"] # Session
     IN  IF t = "office.get_session_info" /\ unknown
         THEN Answer("SESSION_NOT_FOUND", t, args)
         ELSE Answer("answered", t, args)

ForwardCall(t, args) ==
  /\ t \in OfficeTools
  /\ Passes(policy, t, args)
  /\ Answer(Preflight(t, args["session_id"], TRUE), t, args)

UnknownTool(t, args) ==
  /\ t \notin Known
  /\ Answer("UNKNOWN_TOOL", t, args)

-----------------------------------------------------------------------------
(* resources/read *)

\* The arguments of the call a resource makes; a part of the query is given
\* or not.
ResourceArguments(r, id, query) ==
  [k \in {"session_id"} \cup r.always \cup query |->
     IF k = "session_id" THEN id ELSE "any value"]

\* The URI names no session, or no resource of the app it names.  Whether the
\* session is one of that app is not looked at, here or below.
RefuseUri(app, path, id) ==
  /\ session = Absent \/ id # Session \/ path \notin DOMAIN Resources[app]
  /\ Answer("INVALID_PARAMS", path, [session_id |-> id, app |-> app])

RefuseResource(app, path) ==
  /\ session # Absent /\ path \in DOMAIN Resources[app]
  /\ LET r == Resources[app][path]
     IN  /\ r.tool \in OfficeTools
         /\ ~AllowsTool(policy, r.tool)
         /\ Answer("TOOL_NOT_AVAILABLE", r.tool, NoObject)

\* Mutant: the whole query becomes arguments.
ReadResourceOfAnyQuery(app, path, query) ==
  /\ session # Absent /\ path \in DOMAIN Resources[app]
  /\ LET r == Resources[app][path]
     IN  /\ r.tool \in OfficeTools => AllowsTool(policy, r.tool)
         /\ Answer(Preflight(r.tool, Session, r.checkCapability), r.tool,
                   ResourceArguments(r, Session, query))

\* Neither the schema nor an action is looked at; an internal tool is not
\* the policy's business, nor the session's.
ReadResource(app, path, query) ==
  /\ session # Absent /\ path \in DOMAIN Resources[app]
  /\ LET r == Resources[app][path]
     IN  /\ query \subseteq r.optional
         /\ r.tool \in OfficeTools => AllowsTool(policy, r.tool)
         /\ Answer(Preflight(r.tool, Session, r.checkCapability), r.tool,
                   ResourceArguments(r, Session, query))

-----------------------------------------------------------------------------
CallTool ==
  /\ reply = Idle
  /\ \E t \in Names : \E args \in ArgumentsOf[t] :
       \/ RefuseArguments(t, args)
       \/ RefuseAction(t, args)
       \/ RefuseTool(t, args)
       \/ AnswerManagement(t, args)
       \/ ForwardCall(t, args)
       \/ UnknownTool(t, args)

ReadAResource ==
  /\ reply = Idle
  /\ \E app \in Apps :
     \E path \in DOMAIN Resources[app] \cup Told[app] \cup OtherNames :
       \/ \E id \in {Session, "another session"} : RefuseUri(app, path, id)
       \/ RefuseResource(app, path)
       \/ \E query \in SUBSET {"sheet", "end"} : ReadResource(app, path, query)

Next ==
  \/ \E p \in Policies : SetToolAccessPolicy(p)
  \/ \E r \in Registrations \cup {Absent} : SessionEvent(r)
  \/ CallTool
  \/ ReadAResource
  \/ Answered

Spec == Init /\ [][Next]_vars

-----------------------------------------------------------------------------
(* What the tables of the catalogue owe each other: they are kept by hand  *)
(* in two files, one by tool and one by argument.                          *)

\* Every public tool has its metadata, and no other tool has.
MetadataComplete == Described = OfficeTools /\ OfficeTools \cap ManagementTools = {}

\* A tool whose actions have side effects of their own lists exactly those
\* actions and insists on one, but for update_tags, where none means a list.
ActionsCovered ==
  \A t \in OfficeTools :
    ActionsOf(t) # {} =>
      /\ "action" \in DOMAIN Enums[t]
      /\ Enums[t]["action"] = ActionsOf(t)
      /\ \/ "action" \in Specs[t].required
         \/ SelectedActions(t, <<>>) \cap ActionsOf(t) # {}

\* Resources are read with tools that take no action.
ResourcesTakeNoAction ==
  \A app \in Apps : \A path \in DOMAIN Resources[app] :
    Resources[app][path].tool \in OfficeTools =>
      ActionsOf(Resources[app][path].tool) = {}

\* A tool is as mild as one of its actions: where its side effect is allowed,
\* so is an action.
ActionsAsMild ==
  \A t \in OfficeTools : ActionsOf(t) # {} =>
    \A mode \in {"Read", "Write", "All"} :
      ModeAllows(mode, Metadata[t].sideEffect) => HasActionAllowedBy(t, mode)

\* The arguments of a resource are those the schema of its tool takes, but for
\* the range of slides, and include what it requires; none has an enum.
SlideRange == {"start", "end"}
ResourcesFitSchemas ==
  \A app \in Apps : \A path \in DOMAIN Resources[app] :
    LET r == Resources[app][path]
        given == {"session_id"} \cup r.always
    IN  r.tool \in OfficeTools =>
          /\ given \cup r.optional \subseteq Specs[r.tool].properties \cup SlideRange
          /\ Specs[r.tool].required \subseteq given
          /\ (given \cup r.optional) \cap DOMAIN Enums[r.tool] = {}

RangesAreOptional == \A t \in OfficeTools : Specs[t].required \cap SlideRange = {}

\* Clients know a call of each tool that its schema takes, and one for each of
\* its actions.
Fits(t, args) ==
  /\ DOMAIN args \subseteq Specs[t].properties
  /\ Specs[t].required \subseteq DOMAIN args
  /\ \A k \in DOMAIN args : k \in DOMAIN Enums[t] => args[k] \in Enums[t][k]

EveryActionIsCalled ==
  \A t \in OfficeTools :
    /\ \E args \in ArgumentsOf[t] : Fits(t, args)
    /\ \A a \in ActionsOf(t) : \E args \in ArgumentsOf[t] :
         Fits(t, args) /\ "action" \in DOMAIN args /\ args["action"] = a

NoObjectIsRefused == \A t \in Known : ~(DOMAIN NoObject \subseteq Accepts(t))

ASSUME PolicyAssumption ==
  \A p \in Policies : p.mode \in {"Read", "Write", "All"}

ASSUME CatalogueAssumption ==
  /\ MetadataComplete /\ ActionsCovered /\ ResourcesTakeNoAction
  /\ ActionsAsMild /\ ResourcesFitSchemas /\ RangesAreOptional

ASSUME CallsAssumption == EveryActionIsCalled /\ NoObjectIsRefused

-----------------------------------------------------------------------------
(* Properties *)

\* The side effects a call may have once the pane runs it: those of its
\* action, and at worst any where the tables do not say what it does.  The
\* internal tools read.
Performed(t, args) ==
  CASE t \notin Described -> {"Read"}
    [] t \in Described /\ ActionsOf(t) = {} -> {Metadata[t].sideEffect}
    [] OTHER ->
         LET selected == SelectedActions(t, args)
         IN  IF selected # {} /\ selected \subseteq ActionsOf(t)
             THEN {Metadata[t].actions[a] : a \in selected}
             ELSE {"Destructive"}

\* What the policy permits: no side effect beyond the access mode, no tool
\* that is off by its app, category or name.
Permitted(p, t, args) ==
  /\ \A e \in Performed(t, args) : ModeAllows(p.mode, e)
  /\ t \in OfficeTools => Enabled(p, t) /\ t \notin p.tools

\* Nothing reaches a document that the policy rules out, whether a tool or a
\* resource asks for it.  The gate looks at actions and at tools in two places,
\* and lets a tool through for any of its actions.
PolicyRespected ==
  reply.outcome = "invoked" => Permitted(policy, reply.tool, reply.args)

\* tools/list shows a tool if and only if there is a call of it that the gate
\* lets pass: no tool is listed that every call of is refused.
ListedIffCallable ==
  reply = Idle =>
    LET listed == ListedTools(policy)
    IN  \A t \in OfficeTools :
          t \in listed <=> \E args \in ArgumentsOf[t] : Passes(policy, t, args)

\* Resources make their calls past the schema.  They are calls the schema
\* would have accepted all the same, but for the range of slides, which
\* read_text takes from resources only.
OnlyValidCallsAreInvoked ==
  reply.outcome = "invoked" /\ reply.tool \in OfficeTools =>
    Valid(reply.tool,
          [k \in DOMAIN reply.args \ SlideRange |-> reply.args[k]])

\* p restricts nothing that q does not restrict.
Modes == <<"Read", "Write", "All">>
Rank(mode) == CHOOSE i \in DOMAIN Modes : Modes[i] = mode
Wider(p, q) ==
  /\ Rank(p.mode) >= Rank(q.mode)
  /\ p.apps \subseteq q.apps
  /\ p.categories \subseteq q.categories
  /\ p.tools \subseteq q.tools

\* A wider policy takes nothing away: every tool stays listed, and every call
\* that passed the gate passes it still.
WideningOnlyAdds ==
  [][policy' # policy /\ Wider(policy', policy) =>
       /\ ListedTools(policy) \subseteq ListedTools(policy')
       /\ \A t \in ListedTools(policy) : \A args \in ArgumentsOf[t] :
            Passes(policy, t, args) => Passes(policy', t, args)]_policy

\* What a client is shown can be used: the examples of a tool are calls it
\* accepts, and a resource in a session's list, or in the templates, is one that
\* is read for any session there is.  The daemon keeps these lists apart from
\* the schemas and the URIs; one example shows an action its tool does not have.
ShownIsUsable ==
  /\ reply.outcome = "INVALID_ARGUMENTS" /\ reply.tool \in DOMAIN Examples =>
       \/ reply.args # Examples[reply.tool]
       \/ reply.tool = "powerpoint.update_table"
  /\ reply.outcome = "INVALID_PARAMS" =>
       \/ session = Absent
       \/ reply.args["session_id"] # Session
       \/ reply.tool \notin Told[reply.args["app"]]
=============================================================================
