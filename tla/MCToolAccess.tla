---------------------------- MODULE MCToolAccess ----------------------------
(***************************************************************************)
(* ToolAccess with the daemon's own catalogue: every tool, every action,   *)
(* every resource.                                                         *)
(***************************************************************************)
EXTENDS ToolAccess, ToolMetadata, ToolSchemas, ToolResources, TLC

\* TLC evaluates a function once and for all when it is joined with another.
Evaluated(f) == f @@ <<>>

MCMetadata == Evaluated(CatalogMetadata)
MCSpecs == Evaluated(CatalogSpecs)
MCExamples == Evaluated(CatalogExamples)
MCResources == Evaluated(SessionResources)

EnumsByTool ==
  LET enums == CatalogEnums IN [t \in DOMAIN enums |-> Evaluated(enums[t])]
MCEnums == Evaluated(EnumsByTool)

MCOtherNames == {"word._get_structure", "word.no_such_tool"}

\* The access modes, with nothing switched off, and with an app, a category of
\* another and a tool of the same.
MCPolicies ==
  {[mode |-> m, apps |-> {}, categories |-> {}, tools |-> {}] :
     m \in {"Read", "Write", "All"}}
  \cup {[mode |-> m, apps |-> {"excel"}, categories |-> {<<"word", "Media">>},
          tools |-> {"word.update_table"}] : m \in {"Read", "Write", "All"}}

\* A pane advertises the tools of its app; Word's, in one that supports less,
\* those that read.
AdvertisedByApp ==
  LET table == MCMetadata
      Tools(app) == {t \in DOMAIN table : table[t].app = app}
  IN  [app \in {"word", "excel", "powerpoint"} |->
         {Tools(app)} \cup
           {{t \in Tools(a) : table[t].sideEffect = "Read"} :
              a \in {"word"} \cap {app}}]
MCAdvertised == Evaluated(AdvertisedByApp)

-----------------------------------------------------------------------------
(* Calls *)

MCSession == "session-1"
MCNoObject == [no_object |-> AnyValue]

\* Of every tool the calls with no more than it requires and with all it
\* accepts, with one argument less or more, with every action, with a wrong
\* value for every argument that has an enum, for another session, and the
\* examples clients are shown.
CallsByTool ==
  LET specs == CatalogSpecs
      enums == MCEnums
      examples == CatalogExamples
      Least(t) == specs[t].required
      Value(t, k) ==
        CASE k = "session_id" -> MCSession
          [] k \in DOMAIN enums[t] -> CHOOSE v \in enums[t][k] : TRUE
          [] OTHER -> AnyValue
      Call(t, names) == Evaluated([k \in names |-> Value(t, k)])
      With(t, k, v) == (k :> v) @@ Call(t, Least(t))
      CallsOf(t) ==
        {MCNoObject, Call(t, Least(t)), Call(t, specs[t].properties)}
        \cup {Call(t, Least(t) \ {k}) : k \in Least(t)}
        \cup {With(t, k, AnyValue) : k \in {"validate_only", "no_such_argument"}}
        \cup {With(t, k, "session-2") : k \in Least(t) \cap {"session_id"}}
        \cup UNION {{With(t, k, v) : v \in enums[t][k]} :
                      k \in {"action"} \cap DOMAIN enums[t]}
        \cup {With(t, k, "no such value") : k \in DOMAIN enums[t]}
        \cup {examples[s] : s \in {t} \cap DOMAIN examples}
  IN  [t \in DOMAIN specs |-> CallsOf(t)] @@ [t \in MCOtherNames |-> {MCNoObject}]
MCArgumentsOf == Evaluated(CallsByTool)
=============================================================================
