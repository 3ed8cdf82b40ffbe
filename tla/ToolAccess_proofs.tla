-------------------------- MODULE ToolAccess_proofs --------------------------
(***************************************************************************)
(* Proofs about ToolAccess, for every catalogue whose tables agree         *)
(* (CatalogueAssumption), every set of policies and every call.            *)
(***************************************************************************)
EXTENDS ToolAccess, TLAPS

\* The action a valid call asks for, where the tool has actions, is one whose
\* side effect the table knows.
LEMMA ValidSelects ==
  ASSUME NEW t \in OfficeTools, NEW args, Valid(t, args), ActionsOf(t) # {}
  PROVE  /\ SelectedActions(t, args) # {}
         /\ SelectedActions(t, args) \subseteq ActionsOf(t)
<1>1. /\ "action" \in DOMAIN Enums[t]
      /\ Enums[t]["action"] = ActionsOf(t)
      /\ \/ "action" \in Specs[t].required
         \/ SelectedActions(t, <<>>) \cap ActionsOf(t) # {}
  BY CatalogueAssumption DEF ActionsCovered
<1>2. CASE "action" \in DOMAIN args
  <2>1. args["action"] \in ActionsOf(t)
    BY <1>1, <1>2 DEF Valid, EnumRespected
  <2> QED
    BY <1>2, <2>1 DEF SelectedActions
<1>3. CASE "action" \notin DOMAIN args
  <2>1. SelectedActions(t, <<>>) \cap ActionsOf(t) # {}
    BY <1>1, <1>3 DEF Valid
  <2>2. "list" \in ActionsOf(t) /\ t = "powerpoint.update_tags"
    BY <2>1 DEF SelectedActions
  <2> QED
    BY <1>3, <2>2 DEF SelectedActions
<1> QED
  BY <1>2, <1>3

\* A call that gets past the gate performs what the access mode allows.
LEMMA GateHolds ==
  ASSUME NEW p, NEW t \in OfficeTools, NEW args, Passes(p, t, args)
  PROVE  Permitted(p, t, args)
<1>1. t \in Described
  BY CatalogueAssumption DEF MetadataComplete
<1>2. /\ Valid(t, args)
      /\ ~ActionRefused(p, t, args)
      /\ t \notin p.tools
      /\ Enabled(p, t)
      /\ ModeAllows(p.mode, Metadata[t].sideEffect) \/ HasActionAllowedBy(t, p.mode)
  BY <1>1 DEF Passes, AllowsTool
<1>3. CASE ActionsOf(t) = {}
  <2>1. Performed(t, args) = {Metadata[t].sideEffect}
    BY <1>1, <1>3 DEF Performed
  <2>2. ~HasActionAllowedBy(t, p.mode)
    BY <1>3 DEF HasActionAllowedBy
  <2> QED
    BY <1>2, <2>1, <2>2 DEF Permitted
<1>4. CASE ActionsOf(t) # {}
  <2> DEFINE selected == SelectedActions(t, args)
  <2>1. selected # {} /\ selected \subseteq ActionsOf(t)
    BY <1>2, <1>4, ValidSelects
  <2>2. Performed(t, args) = {Metadata[t].actions[a] : a \in selected}
    BY <1>1, <1>4, <2>1 DEF Performed
  <2>3. ASSUME NEW a \in selected
        PROVE  ModeAllows(p.mode, Metadata[t].actions[a])
    <3>1. a \in JudgedActions(t, args)
      BY <1>1, <2>1 DEF JudgedActions
    <3>2. AllowsAction(p, t, a)
      BY <1>2, <3>1 DEF ActionRefused
    <3> QED
      BY <1>1, <2>1, <3>2 DEF AllowsAction
  <2> QED
    BY <1>2, <2>2, <2>3 DEF Permitted
<1> QED
  BY <1>3, <1>4

\* A tool without actions of its own that the policy lists performs its side
\* effect, whatever it is called with: no arguments are judged.
LEMMA ReadHolds ==
  ASSUME NEW p, NEW t \in OfficeTools, NEW args, AllowsTool(p, t),
         ActionsOf(t) = {}
  PROVE  Permitted(p, t, args)
<1>1. t \in Described
  BY CatalogueAssumption DEF MetadataComplete
<1>2. Performed(t, args) = {Metadata[t].sideEffect}
  BY <1>1 DEF Performed
<1>3. ~HasActionAllowedBy(t, p.mode)
  BY DEF HasActionAllowedBy
<1> QED
  BY <1>1, <1>2, <1>3 DEF AllowsTool, Permitted

\* An internal tool reads, and every access mode allows that.
LEMMA InternalHolds ==
  ASSUME NEW p \in Policies, NEW t, t \notin OfficeTools, NEW args
  PROVE  Permitted(p, t, args)
<1>1. Performed(t, args) = {"Read"}
  BY CatalogueAssumption DEF MetadataComplete, Performed
<1>2. ModeAllows(p.mode, "Read")
  BY PolicyAssumption DEF ModeAllows
<1> QED
  BY <1>1, <1>2 DEF Permitted

\* The policy in force is one of the policies.
PolicyIsOne == policy \in Policies

\* Every step that answers, refuses, or forwards a permitted call keeps the
\* property; nothing else writes the reply.
LEMMA StepRespects ==
  ASSUME PolicyIsOne, PolicyRespected, [Next]_vars
  PROVE  PolicyIsOne' /\ PolicyRespected'
<1> USE DEF PolicyIsOne
<1>1. ASSUME NEW outcome, NEW t, NEW args, Answer(outcome, t, args),
             outcome = "invoked" => Permitted(policy, t, args)
      PROVE  PolicyIsOne' /\ PolicyRespected'
  BY <1>1 DEF Answer, Reply, PolicyRespected
<1>2. CASE \E p \in Policies : SetToolAccessPolicy(p)
  BY <1>2 DEF SetToolAccessPolicy, Idle, PolicyRespected
<1>3. CASE \E r \in Registrations \cup {Absent} : SessionEvent(r)
  BY <1>3 DEF SessionEvent, PolicyRespected
<1>4. CASE CallTool
  <2>1. PICK t \in Names : \E args \in ArgumentsOf[t] :
          \/ RefuseArguments(t, args)
          \/ RefuseAction(t, args)
          \/ RefuseTool(t, args)
          \/ AnswerManagement(t, args)
          \/ ForwardCall(t, args)
          \/ UnknownTool(t, args)
    BY <1>4 DEF CallTool
  <2>2. PICK args \in ArgumentsOf[t] :
          \/ RefuseArguments(t, args)
          \/ RefuseAction(t, args)
          \/ RefuseTool(t, args)
          \/ AnswerManagement(t, args)
          \/ ForwardCall(t, args)
          \/ UnknownTool(t, args)
    BY <2>1
  <2>3. CASE RefuseArguments(t, args)
    BY <1>1, <2>3 DEF RefuseArguments
  <2>4. CASE RefuseAction(t, args)
    BY <1>1, <2>4 DEF RefuseAction
  <2>5. CASE RefuseTool(t, args)
    BY <1>1, <2>5 DEF RefuseTool
  <2>6. CASE AnswerManagement(t, args)
    <3>1. \/ Answer("SESSION_NOT_FOUND", t, args)
          \/ Answer("answered", t, args)
      BY <2>6 DEF AnswerManagement
    <3> QED
      BY <1>1, <3>1
  <2>7. CASE ForwardCall(t, args)
    <3>1. Permitted(policy, t, args)
      BY <2>7, GateHolds DEF ForwardCall
    <3> QED
      BY <1>1, <2>7, <3>1 DEF ForwardCall
  <2>8. CASE UnknownTool(t, args)
    BY <1>1, <2>8 DEF UnknownTool
  <2> QED
    BY <2>2, <2>3, <2>4, <2>5, <2>6, <2>7, <2>8
<1>5. CASE ReadAResource
  <2>1. PICK app \in Apps : 
          \E path \in DOMAIN Resources[app] \cup Told[app] \cup OtherNames :
          \/ \E id \in {Session, "another session"} : RefuseUri(app, path, id)
          \/ RefuseResource(app, path)
          \/ \E query \in SUBSET {"sheet", "end"} :
               ReadResource(app, path, query)
    BY <1>5 DEF ReadAResource
  <2>2. PICK path \in DOMAIN Resources[app] \cup Told[app] \cup OtherNames :
          \/ \E id \in {Session, "another session"} : RefuseUri(app, path, id)
          \/ RefuseResource(app, path)
          \/ \E query \in SUBSET {"sheet", "end"} :
               ReadResource(app, path, query)
    BY <2>1
  <2>3. CASE \E id \in {Session, "another session"} : RefuseUri(app, path, id)
    BY <1>1, <2>3 DEF RefuseUri
  <2>4. CASE RefuseResource(app, path)
    BY <1>1, <2>4 DEF RefuseResource
  <2>5. CASE \E query \in SUBSET {"sheet", "end"} :
               ReadResource(app, path, query)
    <3>1. PICK query \in SUBSET {"sheet", "end"} :
            ReadResource(app, path, query)
      BY <2>5
    <3> DEFINE r == Resources[app][path]
               args == ResourceArguments(r, Session, query)
    <3>2. /\ path \in DOMAIN Resources[app]
          /\ r.tool \in OfficeTools => AllowsTool(policy, r.tool)
          /\ Answer(Preflight(r.tool, Session, r.checkCapability), r.tool, args)
      BY <3>1 DEF ReadResource
    <3>3. Permitted(policy, r.tool, args)
      <4>1. CASE r.tool \in OfficeTools
        <5>1. ActionsOf(r.tool) = {}
          BY <3>2, <4>1, CatalogueAssumption DEF ResourcesTakeNoAction
        <5> HIDE DEF args
        <5> QED
          BY <3>2, <4>1, <5>1, ReadHolds
      <4>2. CASE r.tool \notin OfficeTools
        BY <4>2, InternalHolds
      <4> QED
        BY <4>1, <4>2
    <3> HIDE DEF r, args
    <3> QED
      BY <1>1, <3>2, <3>3
  <2> QED
    BY <2>2, <2>3, <2>4, <2>5
<1>6. CASE Answered
  BY <1>6 DEF Answered, Idle, PolicyRespected
<1>7. CASE UNCHANGED vars
  BY <1>7 DEF vars, PolicyRespected
<1> QED
  BY <1>2, <1>3, <1>4, <1>5, <1>6, <1>7 DEF Next

\* Whatever the catalogue, the policies and the calls: nothing reaches a
\* document that the access policy in force rules out, by tools/call or by
\* resources/read.
THEOREM PolicyHolds == Spec => []PolicyRespected
<1>1. Init => PolicyIsOne /\ PolicyRespected
  BY DEF Init, Idle, PolicyIsOne, PolicyRespected
<1>2. PolicyIsOne /\ PolicyRespected /\ [Next]_vars
        => PolicyIsOne' /\ PolicyRespected'
  BY StepRespects
<1> QED
  BY <1>1, <1>2, PTL DEF Spec

-----------------------------------------------------------------------------
(* Wider policies *)

\* The modes are ranked by what they allow.
LEMMA ModesAreRanked ==
  ASSUME NEW p \in Policies, NEW q \in Policies, Rank(p.mode) >= Rank(q.mode),
         NEW e, ModeAllows(q.mode, e)
  PROVE  ModeAllows(p.mode, e)
<1>1. Rank("Read") = 1 /\ Rank("Write") = 2 /\ Rank("All") = 3
  BY DEF Rank, Modes
<1>2. p.mode \in {"Read", "Write", "All"} /\ q.mode \in {"Read", "Write", "All"}
  BY PolicyAssumption
<1>3. CASE q.mode = "All"
  <2>1. p.mode = "All"
    BY <1>1, <1>2, <1>3
  <2> QED
    BY <2>1 DEF ModeAllows
<1>4. CASE q.mode = "Write"
  <2>1. p.mode \in {"Write", "All"}
    BY <1>1, <1>2, <1>4
  <2>2. e # "Destructive"
    BY <1>4 DEF ModeAllows
  <2> QED
    BY <2>1, <2>2 DEF ModeAllows
<1>5. CASE q.mode = "Read"
  <2>1. e = "Read"
    BY <1>5 DEF ModeAllows
  <2> QED
    BY <1>2, <2>1 DEF ModeAllows
<1> QED
  BY <1>2, <1>3, <1>4, <1>5

\* The gate looks at a policy only in ways that a wider one is wider in.
LEMMA WiderAllows ==
  ASSUME NEW p \in Policies, NEW q \in Policies, Wider(p, q), NEW t
  PROVE  /\ AllowsTool(q, t) => AllowsTool(p, t)
         /\ \A a : AllowsAction(q, t, a) => AllowsAction(p, t, a)
<1>1. \A e : ModeAllows(q.mode, e) => ModeAllows(p.mode, e)
  BY ModesAreRanked DEF Wider
<1>2. HasActionAllowedBy(t, q.mode) => HasActionAllowedBy(t, p.mode)
  BY <1>1 DEF HasActionAllowedBy
<1>3. Enabled(q, t) => Enabled(p, t)
  BY DEF Enabled, Wider
<1>4. t \notin q.tools => t \notin p.tools
  BY DEF Wider
<1>5. AllowsTool(q, t) => AllowsTool(p, t)
  BY <1>1, <1>2, <1>3, <1>4 DEF AllowsTool
<1>6. ASSUME NEW a, AllowsAction(q, t, a) PROVE AllowsAction(p, t, a)
  BY <1>1, <1>3, <1>4, <1>6 DEF AllowsAction
<1> QED
  BY <1>5, <1>6

\* A change of the policy to a wider one, whatever the catalogue.
LEMMA WideningStep ==
  ASSUME PolicyIsOne, [Next]_vars, policy' # policy, Wider(policy', policy)
  PROVE  /\ ListedTools(policy) \subseteq ListedTools(policy')
         /\ \A t \in ListedTools(policy) : \A args \in ArgumentsOf[t] :
              Passes(policy, t, args) => Passes(policy', t, args)
<1>1. policy \in Policies /\ policy' \in Policies
  <2>1. \/ \E p \in Policies : SetToolAccessPolicy(p)
        \/ \E r \in Registrations \cup {Absent} : SessionEvent(r)
        \/ CallTool \/ ReadAResource \/ Answered \/ UNCHANGED vars
    BY DEF Next
  <2>2. \A outcome, t, args : Answer(outcome, t, args) => UNCHANGED policy
    BY DEF Answer
  <2>3. ~CallTool
    BY <2>2 DEF CallTool, RefuseArguments, RefuseAction, RefuseTool, AnswerManagement,
                ForwardCall, UnknownTool
  <2>4. ~ReadAResource
    BY <2>2 DEF ReadAResource, RefuseUri, RefuseResource, ReadResource
  <2>5. \E p \in Policies : SetToolAccessPolicy(p)
    BY <2>1, <2>3, <2>4 DEF SessionEvent, Answered, vars
  <2> QED
    BY <2>5 DEF SetToolAccessPolicy, PolicyIsOne
<1>2. ASSUME NEW t, AllowsTool(policy, t) PROVE AllowsTool(policy', t)
  BY <1>1, <1>2, WiderAllows
<1>3. ASSUME NEW t, NEW args, Passes(policy, t, args) PROVE Passes(policy', t, args)
  <2>1. AllowsTool(policy', t)
    BY <1>2, <1>3 DEF Passes
  <2>2. ASSUME NEW a \in JudgedActions(t, args) PROVE AllowsAction(policy', t, a)
    <3>1. AllowsAction(policy, t, a)
      BY <1>3 DEF Passes, ActionRefused
    <3> QED
      BY <1>1, <3>1, WiderAllows
  <2> QED
    BY <1>3, <2>1, <2>2 DEF Passes, ActionRefused
<1>4. ListedTools(policy) \subseteq ListedTools(policy')
  BY <1>2 DEF ListedTools
<1> QED
  BY <1>3, <1>4

\* Whatever the catalogue: a policy that restricts less never takes a tool or
\* a call away, although actions and tools are judged in two places.
THEOREM WideningHolds == Spec => WideningOnlyAdds
<1>1. Init => PolicyIsOne /\ PolicyRespected
  BY DEF Init, Idle, PolicyIsOne, PolicyRespected
<1>2. PolicyIsOne /\ PolicyRespected /\ [Next]_vars
        => PolicyIsOne' /\ PolicyRespected'
  BY StepRespects
<1>3. PolicyIsOne /\ [Next]_vars =>
        [policy' # policy /\ Wider(policy', policy) =>
           /\ ListedTools(policy) \subseteq ListedTools(policy')
           /\ \A t \in ListedTools(policy) : \A args \in ArgumentsOf[t] :
                Passes(policy, t, args) => Passes(policy', t, args)]_policy
  BY WideningStep
<1> QED
  BY <1>1, <1>2, <1>3, PTL DEF Spec, WideningOnlyAdds

-----------------------------------------------------------------------------
(* What is listed and what can be called *)

\* A call of a tool without actions, or with an action the mode allows, passes
\* the gate wherever its tool is allowed.
LEMMA FittingPasses ==
  ASSUME NEW p, NEW t \in OfficeTools, NEW args \in ArgumentsOf[t],
         AllowsTool(p, t), Fits(t, args),
         \/ ActionsOf(t) = {}
         \/ /\ "action" \in DOMAIN args
            /\ args["action"] \in ActionsOf(t)
            /\ ModeAllows(p.mode, Metadata[t].actions[args["action"]])
  PROVE  Passes(p, t, args)
<1>1. t \in Described /\ t \in Known
  BY CatalogueAssumption DEF MetadataComplete, Known
<1>2. Valid(t, args)
  <2>1. DOMAIN args \subseteq Accepts(t)
    BY DEF Fits, Accepts
  <2>2. args # NoObject
    BY <1>1, <2>1, CallsAssumption DEF NoObjectIsRefused
  <2>3. EnumRespected(t, args)
    BY DEF Fits, EnumRespected
  <2> QED
    BY <2>1, <2>2, <2>3 DEF Fits, Valid
<1>3. ASSUME NEW a \in JudgedActions(t, args) PROVE AllowsAction(p, t, a)
  <2>1. a \in SelectedActions(t, args) /\ a \in ActionsOf(t)
    BY <1>1 DEF JudgedActions
  <2>2. a = args["action"] /\ ModeAllows(p.mode, Metadata[t].actions[a])
    BY <2>1 DEF SelectedActions
  <2>3. t \notin p.tools /\ Enabled(p, t)
    BY <1>1 DEF AllowsTool
  <2> QED
    BY <2>1, <2>2, <2>3 DEF AllowsAction
<1> QED
  BY <1>2, <1>3 DEF Passes, ActionRefused

\* Of a tool the policy allows there is a call that passes.
LEMMA AllowedIsCallable ==
  ASSUME NEW p \in Policies, NEW t \in OfficeTools, AllowsTool(p, t)
  PROVE  \E args \in ArgumentsOf[t] : Passes(p, t, args)
<1>1. CASE ActionsOf(t) = {}
  <2>1. PICK args \in ArgumentsOf[t] : Fits(t, args)
    BY CallsAssumption DEF EveryActionIsCalled
  <2> QED
    BY <1>1, <2>1, FittingPasses
<1>2. CASE ActionsOf(t) # {}
  <2>1. HasActionAllowedBy(t, p.mode)
    <3>1. ModeAllows(p.mode, Metadata[t].sideEffect) \/ HasActionAllowedBy(t, p.mode)
      BY CatalogueAssumption DEF MetadataComplete, AllowsTool
    <3> QED
      BY <1>2, <3>1, CatalogueAssumption, PolicyAssumption DEF ActionsAsMild
  <2>2. PICK a \in ActionsOf(t) : ModeAllows(p.mode, Metadata[t].actions[a])
    BY <2>1 DEF HasActionAllowedBy
  <2>3. PICK args \in ArgumentsOf[t] :
          Fits(t, args) /\ "action" \in DOMAIN args /\ args["action"] = a
    BY CallsAssumption DEF EveryActionIsCalled
  <2> QED
    BY <2>2, <2>3, FittingPasses
<1> QED
  BY <1>1, <1>2

\* tools/list and tools/call agree for every catalogue whose tables fit, every
\* policy and every set of calls that has one of each action: a tool is listed
\* if and only if some call of it passes (tool_access_policy.rs, catalog.rs).
THEOREM ListedAreCallable == Spec => []ListedIffCallable
<1>1. Init => PolicyIsOne /\ PolicyRespected
  BY DEF Init, Idle, PolicyIsOne, PolicyRespected
<1>2. PolicyIsOne /\ PolicyRespected /\ [Next]_vars
        => PolicyIsOne' /\ PolicyRespected'
  BY StepRespects
<1>3. PolicyIsOne => ListedIffCallable
  <2> SUFFICES ASSUME PolicyIsOne, NEW t \in OfficeTools
               PROVE  t \in ListedTools(policy) <=>
                        \E args \in ArgumentsOf[t] : Passes(policy, t, args)
    BY DEF ListedIffCallable
  <2>1. t \in ListedTools(policy) <=> AllowsTool(policy, t)
    BY CatalogueAssumption DEF ListedTools, MetadataComplete
  <2>2. AllowsTool(policy, t) => \E args \in ArgumentsOf[t] : Passes(policy, t, args)
    BY AllowedIsCallable DEF PolicyIsOne
  <2>3. ASSUME NEW args, Passes(policy, t, args) PROVE AllowsTool(policy, t)
    BY <2>3 DEF Passes
  <2> QED
    BY <2>1, <2>2, <2>3
<1> QED
  BY <1>1, <1>2, <1>3, PTL DEF Spec

-----------------------------------------------------------------------------
(* Resources and the schemas *)

\* What a resource asks of a public tool is what its schema takes, but for the
\* range of slides.
LEMMA ResourceFits ==
  ASSUME NEW app \in Apps, NEW path \in DOMAIN Resources[app], NEW id,
         NEW query \in SUBSET Resources[app][path].optional,
         Resources[app][path].tool \in OfficeTools
  PROVE  LET args == ResourceArguments(Resources[app][path], id, query)
         IN  Valid(Resources[app][path].tool,
                   [k \in DOMAIN args \ SlideRange |-> args[k]])
<1>r. PICK r : r = Resources[app][path]
  OBVIOUS
<1> DEFINE t == r.tool
           given == {"session_id"} \cup r.always
           args == ResourceArguments(r, id, query)
           trimmed == [k \in DOMAIN args \ SlideRange |-> args[k]]
<1>1. /\ given \cup r.optional \subseteq Specs[t].properties \cup SlideRange
      /\ Specs[t].required \subseteq given
      /\ (given \cup r.optional) \cap DOMAIN Enums[t] = {}
      /\ Specs[t].required \cap SlideRange = {}
      /\ t \in OfficeTools /\ query \subseteq r.optional
  BY <1>r, CatalogueAssumption DEF ResourcesFitSchemas, RangesAreOptional
<1>2. DOMAIN trimmed = (given \cup query) \ SlideRange
  BY DEF ResourceArguments
<1> HIDE DEF args
<1>3. DOMAIN trimmed \subseteq Accepts(t)
  BY <1>1, <1>2 DEF Accepts
<1>4. trimmed # NoObject
  BY <1>1, <1>3, CallsAssumption DEF NoObjectIsRefused, Known
<1>5. EnumRespected(t, trimmed)
  BY <1>1, <1>2 DEF EnumRespected
<1>6. Specs[t].required \subseteq DOMAIN trimmed
  BY <1>1, <1>2
<1>7. Valid(t, trimmed)
  BY <1>3, <1>4, <1>5, <1>6 DEF Valid
<1> QED
  BY <1>7, <1>r DEF args

\* A valid call is one still without the range of slides.
LEMMA ValidWithoutRange ==
  ASSUME NEW t \in OfficeTools, NEW args, Valid(t, args)
  PROVE  Valid(t, [k \in DOMAIN args \ SlideRange |-> args[k]])
<1> DEFINE trimmed == [k \in DOMAIN args \ SlideRange |-> args[k]]
<1>1. DOMAIN trimmed = DOMAIN args \ SlideRange
  OBVIOUS
<1>2. DOMAIN trimmed \subseteq Accepts(t)
  BY DEF Valid
<1>3. trimmed # NoObject
  BY <1>2, CallsAssumption DEF NoObjectIsRefused, Known
<1>4. EnumRespected(t, trimmed)
  BY DEF Valid, EnumRespected
<1>5. Specs[t].required \subseteq DOMAIN trimmed
  BY CatalogueAssumption DEF Valid, RangesAreOptional
<1> QED
  BY <1>2, <1>3, <1>4, <1>5 DEF Valid

LEMMA StepInvokesValid ==
  ASSUME OnlyValidCallsAreInvoked, [Next]_vars
  PROVE  OnlyValidCallsAreInvoked'
<1>1. ASSUME NEW outcome, NEW t, NEW args, Answer(outcome, t, args),
             outcome = "invoked" /\ t \in OfficeTools =>
               Valid(t, [k \in DOMAIN args \ SlideRange |-> args[k]])
      PROVE  OnlyValidCallsAreInvoked'
  BY <1>1 DEF Answer, Reply, OnlyValidCallsAreInvoked
<1>2. CASE \E p \in Policies : SetToolAccessPolicy(p)
  BY <1>2 DEF SetToolAccessPolicy, OnlyValidCallsAreInvoked
<1>3. CASE \E r \in Registrations \cup {Absent} : SessionEvent(r)
  BY <1>3 DEF SessionEvent, OnlyValidCallsAreInvoked
<1>4. CASE CallTool
  <2>0. PICK t \in Names : \E args \in ArgumentsOf[t] :
          \/ RefuseArguments(t, args)
          \/ RefuseAction(t, args)
          \/ RefuseTool(t, args)
          \/ AnswerManagement(t, args)
          \/ ForwardCall(t, args)
          \/ UnknownTool(t, args)
    BY <1>4 DEF CallTool
  <2>1. PICK args \in ArgumentsOf[t] :
          \/ RefuseArguments(t, args)
          \/ RefuseAction(t, args)
          \/ RefuseTool(t, args)
          \/ AnswerManagement(t, args)
          \/ ForwardCall(t, args)
          \/ UnknownTool(t, args)
    BY <2>0
  <2>2. CASE ForwardCall(t, args)
    <3>1. t \in OfficeTools /\ Valid(t, args)
      BY <2>2 DEF ForwardCall, Passes
    <3>2. Valid(t, [k \in DOMAIN args \ SlideRange |-> args[k]])
      BY <3>1, ValidWithoutRange
    <3> QED
      BY <1>1, <2>2, <3>2 DEF ForwardCall
  <2>3. CASE AnswerManagement(t, args)
    <3>1. Answer("SESSION_NOT_FOUND", t, args) \/ Answer("answered", t, args)
      BY <2>3 DEF AnswerManagement
    <3> QED
      BY <1>1, <3>1
  <2>4. CASE RefuseArguments(t, args)
    BY <1>1, <2>4 DEF RefuseArguments
  <2>5. CASE RefuseAction(t, args)
    BY <1>1, <2>5 DEF RefuseAction
  <2>6. CASE RefuseTool(t, args)
    BY <1>1, <2>6 DEF RefuseTool
  <2>7. CASE UnknownTool(t, args)
    BY <1>1, <2>7 DEF UnknownTool
  <2> QED
    BY <2>1, <2>2, <2>3, <2>4, <2>5, <2>6, <2>7
<1>5. CASE ReadAResource
  <2>0. PICK app \in Apps :
          \E path \in DOMAIN Resources[app] \cup Told[app] \cup OtherNames :
          \/ \E id \in {Session, "another session"} : RefuseUri(app, path, id)
          \/ RefuseResource(app, path)
          \/ \E query \in SUBSET {"sheet", "end"} : ReadResource(app, path, query)
    BY <1>5 DEF ReadAResource
  <2>1. PICK path \in DOMAIN Resources[app] \cup Told[app] \cup OtherNames :
          \/ \E id \in {Session, "another session"} : RefuseUri(app, path, id)
          \/ RefuseResource(app, path)
          \/ \E query \in SUBSET {"sheet", "end"} : ReadResource(app, path, query)
    BY <2>0
  <2>2. CASE \E id \in {Session, "another session"} : RefuseUri(app, path, id)
    BY <1>1, <2>2 DEF RefuseUri
  <2>3. CASE RefuseResource(app, path)
    BY <1>1, <2>3 DEF RefuseResource
  <2>4. ASSUME NEW query, ReadResource(app, path, query)
        PROVE  OnlyValidCallsAreInvoked'
    <3>r. PICK r : r = Resources[app][path]
      OBVIOUS
    <3>a. PICK args : args = ResourceArguments(r, Session, query)
      OBVIOUS
    <3>1. /\ path \in DOMAIN Resources[app]
          /\ query \in SUBSET Resources[app][path].optional
          /\ Answer(Preflight(r.tool, Session, r.checkCapability), r.tool, args)
      BY <2>4, <3>r, <3>a DEF ReadResource
    <3>2. r.tool \in OfficeTools =>
            Valid(r.tool, [k \in DOMAIN args \ SlideRange |-> args[k]])
      BY <3>1, <3>r, <3>a, ResourceFits
    <3> QED
      BY <1>1, <3>1, <3>2
  <2> QED
    BY <2>1, <2>2, <2>3, <2>4
<1>6. CASE Answered
  BY <1>6 DEF Answered, Idle, OnlyValidCallsAreInvoked
<1>7. CASE UNCHANGED vars
  BY <1>7 DEF vars, OnlyValidCallsAreInvoked
<1> QED
  BY <1>2, <1>3, <1>4, <1>5, <1>6, <1>7 DEF Next

\* Whatever the catalogue, as long as its resources fit its schemas: no call
\* reaches a public tool that the schema of the tool would have refused, although
\* the calls resources make are not validated (resource_request.rs).
THEOREM InvokedAreValid == Spec => []OnlyValidCallsAreInvoked
<1>1. Init => OnlyValidCallsAreInvoked
  BY DEF Init, Idle, OnlyValidCallsAreInvoked
<1>2. OnlyValidCallsAreInvoked /\ [Next]_vars => OnlyValidCallsAreInvoked'
  BY StepInvokesValid
<1> QED
  BY <1>1, <1>2, PTL DEF Spec
=============================================================================
