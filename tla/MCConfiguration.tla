-------------------------- MODULE MCConfiguration --------------------------
(***************************************************************************)
(* Files a user may come to write, environments that override them, and    *)
(* policies of the UI.                                                     *)
(***************************************************************************)
EXTENDS Configuration

OldPolicy ==
  <<Heading("tool_access"), Entry("access_mode", Text("Read")),
    Entry("disabled_tools", Names({"word.insert_text", "word.save"}))>>
McpSection == <<Heading("mcp_http"), Entry("port", Number(9900))>>
LimitsSection ==
  <<Heading("limits"), Entry("requests_per_minute", Number(5))>>

MCFiles ==
  {<<>>,
   OldPolicy,
   OldPolicy \o McpSection,
   McpSection \o OldPolicy \o LimitsSection,
   McpSection \o LimitsSection,
   \* The section twice, and another twice around it.
   OldPolicy \o McpSection \o
     <<Heading("tool_access"), Entry("disabled_apps", Text("excel"))>>,
   <<Heading("mcp_http"), Entry("port", Number(9900))>> \o OldPolicy
     \o <<Heading("mcp_http"), Entry("port", Number(9901))>>,
   \* Refused: a key of no section, a heading the parser cannot take, a category
   \* of no app, a number that is none, an address beyond the machine.
   <<Entry("port", Number(9900))>> \o OldPolicy,
   OldPolicy \o <<OddHeading>> \o McpSection,
   <<Heading("tool_access"), Entry("disabled_categories", Text("tables"))>>,
   <<Heading("limits"), Entry("requests_per_minute", Number(0))>>,
   <<Heading("mcp_http"), Entry("bind", Text("0.0.0.0"))>>,
   \* Cut to the range, or to the default.
   <<Heading("addin_channel"), Entry("session_grace_sec", Number(900)),
     Heading("logging"), Entry("file", Text("")),
     Entry("level", Text("warn"))>>,
   <<Heading("audit"), Entry("enabled", Truth(TRUE)),
     Entry("path", Text("a.jsonl")), Heading("mcp_http"),
     Entry("port", Number(65536))>>}

NoVariables == [n \in {} |-> Text("")]
MCEnvs ==
  {NoVariables,
   [n \in {"OFFICE_MCP_TOOL_ACCESS__DISABLED_APPS"} |-> Text("word")],
   [n \in {"OFFICE_MCP_MCP_HTTP__PORT", "OFFICE_MCP_MCP_PORT"} |->
      IF n = "OFFICE_MCP_MCP_PORT" THEN Number(0) ELSE Number(8801)],
   [n \in {"OFFICE_MCP_REQUESTS_PER_MINUTE"} |-> Number(0)],
   [n \in {"OFFICE_MCP_AUDIT_ENABLED"} |-> Text("yes")]}

MCPolicies ==
  {[mode |-> "all", apps |-> {}, categories |-> {}, tools |-> {}],
   [mode |-> "write", apps |-> {"excel", "word"},
    categories |-> {<<"word", "tables">>}, tools |-> {"word.save"}]}
=============================================================================
