------------------------ MODULE ToolInvocation_proofs ------------------------
(***************************************************************************)
(* Proofs about ToolInvocation, for any number of panes and calls and any  *)
(* assignment of request ids: its safety properties, and that it           *)
(* implements ToolCallContract.                                            *)
(***************************************************************************)
EXTENDS ToolInvocation, SequenceTheorems, FiniteSetTheorems, TLAPS

-----------------------------------------------------------------------------
\* The types

LEMMA OwnIsVerdict ==
  ASSUME NEW k \in Calls, NEW what \in Outcomes \cup {"nothing", "timeout", "lost"}
  PROVE  /\ Own(k, what) \in Verdicts
         /\ what \in Outcomes => Own(k, what) \in Answers
         /\ Own(k, what).call = k /\ Own(k, what).outcome = what
BY DEF Own, Verdicts, Answers

LEMMA AnswersAreVerdicts == Answers \subseteq Verdicts
BY DEF Answers, Verdicts

LEMMA ReturnTypes ==
  ASSUME TypeOK, NEW k \in Calls, NEW what \in Verdicts, Return(k, what)
  PROVE  /\ told' \in [Calls -> Verdicts]
         /\ caller' \in [Calls -> {"idle", "waiting", "cancelling", "done"}]
BY DEF TypeOK, Return

LEMMA ReplyTypes ==
  ASSUME TypeOK, NEW i \in Instances, NEW k \in Calls, NEW outcome \in Outcomes,
         Reply(i, k, outcome)
  PROVE  replies' \in [Instances -> Seq(Answers)]
<1>1. Own(k, outcome) \in Answers
  BY OwnIsVerdict
<1> QED
  BY <1>1 DEF TypeOK, Reply

LEMMA HeadOfWire ==
  ASSUME TypeOK, NEW i \in Instances, NEW kind, NextPayload(i, kind)
  PROVE  /\ Head(wire[i]) \in Payloads
         /\ Head(wire[i]).call \in Calls
         /\ Head(wire[i]).kind = kind
         /\ Tail(wire[i]) \in Seq(Payloads)
<1>1. wire[i] \in Seq(Payloads) /\ wire[i] # <<>> /\ Head(wire[i]).kind = kind
  BY DEF TypeOK, NextPayload
<1>2. Head(wire[i]) \in Payloads /\ Tail(wire[i]) \in Seq(Payloads)
  BY <1>1, HeadTailProperties
<1> QED
  BY <1>1, <1>2 DEF Payloads

LEMMA HeadOfReplies ==
  ASSUME TypeOK, NEW i \in Instances, replies[i] # <<>>
  PROVE  /\ Head(replies[i]) \in Answers
         /\ Head(replies[i]).call \in Calls
         /\ IdOf[Head(replies[i]).call] \in Requests
         /\ Tail(replies[i]) \in Seq(Answers)
<1>1. replies[i] \in Seq(Answers)
  BY DEF TypeOK
<1>2. Head(replies[i]) \in Answers /\ Tail(replies[i]) \in Seq(Answers)
  BY <1>1, HeadTailProperties
<1>3. Head(replies[i]).call \in Calls
  BY <1>2 DEF Answers
<1> QED
  BY <1>2, <1>3, InvocationAssumption

LEMMA TypesInit == Init => TypeOK
<1> SUFFICES ASSUME Init PROVE TypeOK
  OBVIOUS
<1>1. \A k \in Calls : Own(k, "nothing") \in Verdicts
  BY OwnIsVerdict
<1>2. \A S : <<>> \in Seq(S)
  OBVIOUS
<1> QED
  BY <1>1, <1>2 DEF Init, TypeOK

LEMMA TypesCaller ==
  ASSUME TypeOK, NEW k \in Calls, CallerStep(k)
  PROVE  TypeOK'
<1> USE InvocationAssumption
<1>0. /\ \A o \in {"timeout", "lost"} : Own(k, o) \in Verdicts
      /\ TargetOf[k] \in Instances /\ IdOf[k] \in Requests
      /\ [kind |-> "invoke", call |-> k] \in Payloads
      /\ [kind |-> "cancel", call |-> k] \in Payloads
  BY OwnIsVerdict DEF Payloads
<1>1. CASE InvokeRefused(k)
  BY <1>0, <1>1, ReturnTypes DEF InvokeRefused, TypeOK, hubVars, paneVars
<1>2. CASE Invoke(k)
  <2>1. outbound' \in [Instances -> Seq(Payloads)]
    BY <1>0, <1>2 DEF Invoke, TypeOK
  <2>2. /\ pending' \in [Requests -> Answers \cup {Absent, Vacant}]
        /\ caller' \in [Calls -> {"idle", "waiting", "cancelling", "done"}]
        /\ notified' \in BOOLEAN
    BY <1>0, <1>2 DEF Invoke, TypeOK
  <2> QED
    BY <1>2, <2>1, <2>2 DEF Invoke, TypeOK, paneVars
<1>3. CASE DeadlinePasses(k)
  BY <1>3 DEF DeadlinePasses, TypeOK, hubVars, paneVars
<1>4. CASE TakeAnswer(k)
  <2>1. pending[IdOf[k]] \in Verdicts
    BY <1>4, AnswersAreVerdicts DEF TakeAnswer
  <2> QED
    BY <1>0, <1>4, <2>1, ReturnTypes DEF TakeAnswer, TypeOK, paneVars
<1>5. CASE WaitAgain(k)
  BY <1>5 DEF WaitAgain, TypeOK, hubVars, paneVars
<1>6. CASE GiveUp(k)
  BY <1>0, <1>6, ReturnTypes DEF GiveUp, TypeOK, hubVars, paneVars
<1>7. CASE WaitTimedOut(k)
  BY <1>0, <1>7, ReturnTypes DEF WaitTimedOut, TypeOK, paneVars
<1>8. CASE SendCancel(k)
  BY <1>0, <1>8 DEF SendCancel, TypeOK, paneVars
<1> QED
  BY <1>1, <1>2, <1>3, <1>4, <1>5, <1>6, <1>7, <1>8 DEF CallerStep, Wake

LEMMA TypesConnection ==
  ASSUME TypeOK, NEW i \in Instances, ConnectionStep(i)
  PROVE  TypeOK'
<1>1. CASE Drain(i)
  BY <1>1 DEF Drain, TypeOK, callVars
<1>2. CASE Complete(i)
  BY <1>2, HeadOfReplies DEF Complete, TypeOK
<1>3. CASE Disconnect(i)
  BY <1>3 DEF Disconnect, TypeOK
<1>4. CASE Connect(i)
  BY <1>4 DEF Connect, TypeOK, callVars, paneVars
<1> QED
  BY <1>1, <1>2, <1>3, <1>4 DEF ConnectionStep

LEMMA TypesPane ==
  ASSUME TypeOK, NEW i \in Instances, PaneStep(i)
  PROVE  TypeOK'
<1> USE InvocationAssumption
<1>1. CASE StartTool(i)
  BY <1>1, HeadOfWire DEF StartTool, TypeOK, hubVars, callVars
<1>2. CASE RefuseTool(i)
  <2> DEFINE k == Head(wire[i]).call
  <2>1. k \in Calls /\ Tail(wire[i]) \in Seq(Payloads)
    BY <1>2, HeadOfWire DEF RefuseTool
  <2>2. replies' \in [Instances -> Seq(Answers)]
    BY <1>2, <2>1, ReplyTypes DEF RefuseTool, Outcomes
  <2> QED
    BY <1>2, <2>1, <2>2 DEF RefuseTool, TypeOK, hubVars, callVars
<1>3. CASE CancelTool(i)
  BY <1>3, HeadOfWire DEF CancelTool, TypeOK, hubVars, callVars
<1>4. ASSUME NEW k \in Calls, NEW outcome \in Outcomes, FinishTool(i, k, outcome)
      PROVE  TypeOK'
  BY <1>4, ReplyTypes DEF FinishTool, TypeOK, hubVars, callVars
<1> QED
  BY <1>1, <1>2, <1>3, <1>4 DEF PaneStep

LEMMA TypesStep ==
  ASSUME TypeOK, [Next]_vars
  PROVE  TypeOK'
<1>1. CASE UNCHANGED vars
  BY <1>1 DEF vars, hubVars, callVars, paneVars, TypeOK
<1> QED
  BY <1>1, TypesCaller, TypesConnection, TypesPane DEF Next

-----------------------------------------------------------------------------
\* The caller

\* One call at a time is in the thread, and it is told something once.
CallerInv ==
  /\ \A j, k \in Calls :
       /\ caller[j] \in {"waiting", "cancelling"}
       /\ caller[k] \in {"waiting", "cancelling"}
       => j = k
  /\ \A k \in Calls : caller[k] \in {"idle", "waiting"} => told[k] = Own(k, "nothing")
  /\ \A k \in Calls : caller[k] = "cancelling" => told[k].outcome = "timeout"

\* An entry holds an answer to a call of its id, and so does a verdict.
EntriesInv ==
  /\ \A r \in Requests : pending[r] \in Answers => IdOf[pending[r].call] = r
  /\ \A k \in Calls : IdOf[told[k].call] = IdOf[k]
  /\ NoLostWakeup
  /\ EntriesAccountedFor

\* The ways a call gets out of its wait.
Finishes(k) == TakeAnswer(k) \/ GiveUp(k) \/ WaitTimedOut(k)

LEMMA Returned ==
  ASSUME TypeOK, NEW k \in Calls, NEW what \in Verdicts, Return(k, what)
  PROVE  /\ told'[k] = what
         /\ caller'[k] = IF what.outcome = "timeout" THEN "cancelling" ELSE "done"
         /\ \A j \in Calls \ {k} : told'[j] = told[j] /\ caller'[j] = caller[j]
BY DEF TypeOK, Return

LEMMA FinishesWith ==
  ASSUME TypeOK, EntriesInv, NEW k \in Calls, Finishes(k)
  PROVE  /\ caller[k] = "waiting"
         /\ \E what \in Verdicts :
              /\ Return(k, what)
              /\ what.outcome \in Outcomes \cup {"timeout"}
              /\ IdOf[what.call] = IdOf[k]
              /\ TakeAnswer(k) => what = pending[IdOf[k]]
              /\ ~TakeAnswer(k) => what = Own(k, "timeout")
<1>1. CASE TakeAnswer(k)
  <2>1. pending[IdOf[k]] \in Answers
    BY <1>1 DEF TakeAnswer
  <2>2. IdOf[k] \in Requests
    BY InvocationAssumption
  <2> QED
    BY <1>1, <2>1, <2>2, AnswersAreVerdicts DEF TakeAnswer, EntriesInv, Answers
<1>2. CASE ~TakeAnswer(k)
  <2>1. /\ Own(k, "timeout") \in Verdicts
        /\ Own(k, "timeout").call = k
        /\ Own(k, "timeout").outcome = "timeout"
    BY OwnIsVerdict
  <2> QED
    BY <1>2, <2>1 DEF Finishes, GiveUp, WaitTimedOut
<1> QED
  BY <1>1, <1>2

\* What a step does to the callers.
LEMMA CallerCases ==
  ASSUME TypeOK, [Next]_vars
  PROVE  \/ UNCHANGED <<caller, told>>
         \/ \E k \in Calls :
              InvokeRefused(k) \/ Invoke(k) \/ SendCancel(k) \/ Finishes(k)
<1>1. ASSUME NEW k \in Calls, CallerStep(k)
      PROVE  \/ UNCHANGED <<caller, told>>
             \/ InvokeRefused(k) \/ Invoke(k) \/ SendCancel(k) \/ Finishes(k)
  BY <1>1 DEF CallerStep, Wake, DeadlinePasses, WaitAgain, Finishes
<1>2. ASSUME NEW i \in Instances, ConnectionStep(i)
      PROVE  UNCHANGED <<caller, told>>
  BY <1>2 DEF ConnectionStep, Drain, Complete, Disconnect, Connect, callVars
<1>3. ASSUME NEW i \in Instances, PaneStep(i)
      PROVE  UNCHANGED <<caller, told>>
  BY <1>3 DEF PaneStep, StartTool, RefuseTool, CancelTool, FinishTool, callVars
<1>4. CASE UNCHANGED vars
  BY <1>4 DEF vars, callVars
<1> QED
  BY <1>1, <1>2, <1>3, <1>4 DEF Next

LEMMA CallerStepHolds ==
  ASSUME TypeOK, CallerInv, EntriesInv, [Next]_vars
  PROVE  CallerInv'
<1>1. CASE UNCHANGED <<caller, told>>
  BY <1>1 DEF CallerInv
<1>2. ASSUME NEW k \in Calls, InvokeRefused(k)
      PROVE  CallerInv'
  <2>1. Own(k, "lost") \in Verdicts /\ Own(k, "lost").outcome = "lost"
    BY OwnIsVerdict
  <2> QED
    <3>1. /\ caller'[k] = "done"
          /\ \A j \in Calls \ {k} : told'[j] = told[j] /\ caller'[j] = caller[j]
      BY <1>2, <2>1, Returned DEF InvokeRefused
    <3> QED
      BY <3>1 DEF CallerInv
<1>3. ASSUME NEW k \in Calls, Invoke(k)
      PROVE  CallerInv'
  BY <1>3 DEF Invoke, ThreadIsFree, CallerInv, TypeOK
<1>4. ASSUME NEW k \in Calls, SendCancel(k)
      PROVE  CallerInv'
  BY <1>4 DEF SendCancel, CallerInv, TypeOK
<1>5. ASSUME NEW k \in Calls, Finishes(k)
      PROVE  CallerInv'
  <2>1. caller[k] = "waiting"
    BY <1>5, FinishesWith
  <2>2. PICK what \in Verdicts : Return(k, what)
    BY <1>5, FinishesWith
  <2> QED
    <3>1. /\ told'[k] = what
          /\ caller'[k] = IF what.outcome = "timeout" THEN "cancelling" ELSE "done"
          /\ \A j \in Calls \ {k} : told'[j] = told[j] /\ caller'[j] = caller[j]
      BY <2>2, Returned
    <3> QED
      BY <2>1, <3>1 DEF CallerInv
<1> QED
  BY <1>1, <1>2, <1>3, <1>4, <1>5, CallerCases

\* A call that has been made stays made, and a verdict stands.
LEMMA VerdictsStand ==
  ASSUME TypeOK, CallerInv, EntriesInv, [Next]_vars, NEW j \in Calls
  PROVE  /\ caller[j] # "idle" => caller'[j] # "idle"
         /\ told[j].outcome = "timeout" => told'[j].outcome = "timeout"
         /\ caller[j] # "idle" /\ told[j].outcome # "lost" => told'[j].outcome # "lost"
<1>0. Own(j, "nothing").outcome = "nothing"
  BY OwnIsVerdict
<1>1. CASE UNCHANGED <<caller, told>>
  BY <1>1
<1>2. ASSUME NEW k \in Calls, InvokeRefused(k)
      PROVE  /\ caller[j] # "idle" => caller'[j] = caller[j] /\ told'[j] = told[j]
             /\ told[j].outcome # "timeout" \/ caller[j] # "idle"
  <2>1. Own(k, "lost") \in Verdicts
    BY OwnIsVerdict
  <2> QED
    BY <1>0, <1>2, <2>1, Returned DEF InvokeRefused, CallerInv
<1>3. ASSUME NEW k \in Calls, Invoke(k) \/ SendCancel(k)
      PROVE  told' = told /\ (caller[j] # "idle" => caller'[j] # "idle")
  BY <1>3 DEF Invoke, SendCancel, TypeOK
<1>4. ASSUME NEW k \in Calls, Finishes(k)
      PROVE  /\ caller[j] # "idle" => caller'[j] # "idle"
             /\ told[j].outcome = "timeout" => told'[j].outcome = "timeout"
             /\ told[j].outcome # "lost" => told'[j].outcome # "lost"
  <2>1. caller[k] = "waiting"
    BY <1>4, FinishesWith
  <2>2. PICK what \in Verdicts :
          Return(k, what) /\ what.outcome \in Outcomes \cup {"timeout"}
    BY <1>4, FinishesWith
  <2>3. what.outcome # "lost"
    BY <2>2 DEF Outcomes
  <2>4. CASE j = k
    BY <1>0, <2>1, <2>2, <2>3, <2>4, Returned DEF CallerInv
  <2>5. CASE j # k
    BY <2>2, <2>5, Returned
  <2> QED
    BY <2>4, <2>5
<1> QED
  BY <1>1, <1>2, <1>3, <1>4, CallerCases

-----------------------------------------------------------------------------
\* The pending table

LEMMA EntriesCaller ==
  ASSUME TypeOK, CallerInv, EntriesInv, NEW k \in Calls, CallerStep(k)
  PROVE  EntriesInv'
<1>0. IdOf[k] \in Requests /\ Vacant \notin Answers /\ Absent \notin Answers
        /\ Vacant # Absent
  BY InvocationAssumption
<1>1. CASE InvokeRefused(k)
  <2>1. /\ Own(k, "lost") \in Verdicts
        /\ Own(k, "lost").call = k /\ Own(k, "lost").outcome = "lost"
    BY OwnIsVerdict
  <2>2. /\ caller[k] = "idle" /\ caller'[k] = "done" /\ told'[k].call = k
        /\ \A j \in Calls \ {k} : told'[j] = told[j] /\ caller'[j] = caller[j]
        /\ UNCHANGED <<pending, notified, expired>>
    BY <1>1, <2>1, Returned DEF InvokeRefused, hubVars
  <2>3. told[k].outcome = "nothing"
    BY <2>2, OwnIsVerdict DEF CallerInv
  <2> QED
    BY <2>2, <2>3 DEF EntriesInv, NoLostWakeup, EntriesAccountedFor
<1>2. CASE Invoke(k)
  <2>1. /\ pending' = [pending EXCEPT ![IdOf[k]] = Vacant]
        /\ caller' = [caller EXCEPT ![k] = "waiting"]
        /\ told' = told /\ expired' = expired
        /\ \A j \in Calls : caller[j] # "waiting"
    BY <1>2 DEF Invoke, ThreadIsFree
  <2>2. /\ pending'[IdOf[k]] = Vacant
        /\ \A r \in Requests \ {IdOf[k]} : pending'[r] = pending[r]
        /\ caller'[k] = "waiting"
        /\ \A j \in Calls \ {k} : caller'[j] = caller[j]
    BY <1>0, <2>1 DEF TypeOK
  <2>3. NoLostWakeup'
    BY <1>0, <2>1, <2>2 DEF NoLostWakeup
  <2>4. EntriesAccountedFor'
    BY <2>1, <2>2 DEF EntriesInv, EntriesAccountedFor
  <2> QED
    BY <1>0, <2>1, <2>2, <2>3, <2>4 DEF EntriesInv
<1>3. CASE DeadlinePasses(k) \/ SendCancel(k)
  <2>1. /\ pending' = pending /\ told' = told
        /\ expired \subseteq expired'
        /\ notified => notified'
        /\ \A j \in Calls : caller'[j] = "waiting" <=> caller[j] = "waiting"
    BY <1>3 DEF DeadlinePasses, SendCancel, TypeOK, hubVars
  <2> QED
    BY <2>1 DEF EntriesInv, NoLostWakeup, EntriesAccountedFor
<1>4. CASE WaitAgain(k)
  <2>1. /\ UNCHANGED <<pending, told, caller, expired>>
        /\ caller[k] = "waiting" /\ pending[IdOf[k]] \notin Answers
    BY <1>4 DEF WaitAgain, hubVars
  <2>2. \A j \in Calls : caller[j] = "waiting" => j = k
    BY <2>1 DEF CallerInv
  <2> QED
    BY <2>1, <2>2 DEF EntriesInv, NoLostWakeup, EntriesAccountedFor
<1>5. CASE Finishes(k)
  <2>1. PICK what \in Verdicts : Return(k, what) /\ IdOf[what.call] = IdOf[k]
          /\ (~TakeAnswer(k) => what = Own(k, "timeout"))
    BY <1>5, FinishesWith
  <2>2. /\ told'[k] = what /\ caller'[k] # "waiting"
        /\ \A j \in Calls \ {k} : told'[j] = told[j] /\ caller'[j] = caller[j]
    BY <2>1, Returned
  <2>3. caller[k] = "waiting"
    BY <1>5, FinishesWith
  <2>4. \A j \in Calls : caller'[j] # "waiting"
    BY <2>2, <2>3 DEF CallerInv
  <2>5. CASE GiveUp(k) /\ ~TakeAnswer(k)
    <3>1. pending' = pending /\ what.outcome = "timeout"
      BY <2>1, <2>5, OwnIsVerdict DEF GiveUp, hubVars
    <3> QED
      BY <2>1, <2>2, <2>3, <2>4, <3>1
         DEF EntriesInv, NoLostWakeup, EntriesAccountedFor
  <2>6. CASE TakeAnswer(k) \/ WaitTimedOut(k)
    <3>1. pending' = [pending EXCEPT ![IdOf[k]] = Absent]
      BY <2>6 DEF TakeAnswer, WaitTimedOut
    <3>2. /\ pending'[IdOf[k]] = Absent
          /\ \A r \in Requests \ {IdOf[k]} : pending'[r] = pending[r]
      BY <1>0, <3>1 DEF TypeOK
    <3>3. EntriesAccountedFor'
      <4> SUFFICES ASSUME NEW r \in Requests, pending'[r] # Absent
                   PROVE  \E j \in Calls : IdOf[j] = r /\
                            (caller'[j] = "waiting" \/ told'[j].outcome = "timeout")
        BY DEF EntriesAccountedFor
      <4>1. r # IdOf[k] /\ pending[r] # Absent
        BY <3>2
      <4>2. PICK j \in Calls : IdOf[j] = r /\
              (caller[j] = "waiting" \/ told[j].outcome = "timeout")
        BY <4>1 DEF EntriesInv, EntriesAccountedFor
      <4> QED
        BY <2>2, <4>1, <4>2
    <3> QED
      BY <1>0, <2>1, <2>2, <2>4, <3>2, <3>3 DEF EntriesInv, NoLostWakeup
  <2> QED
    BY <1>5, <2>5, <2>6 DEF Finishes
<1> QED
  BY <1>1, <1>2, <1>3, <1>4, <1>5 DEF CallerStep, Wake, Finishes

LEMMA EntriesConnection ==
  ASSUME TypeOK, EntriesInv, NEW i \in Instances, ConnectionStep(i)
  PROVE  EntriesInv'
<1>1. CASE Complete(i)
  <2> DEFINE answer == Head(replies[i])
             r == IdOf[answer.call]
  <2>1. answer \in Answers /\ r \in Requests
    BY <1>1, HeadOfReplies DEF Complete
  <2>2. UNCHANGED <<caller, told, expired>>
    BY <1>1 DEF Complete
  <2>3. CASE pending[r] = Absent
    BY <1>1, <2>2, <2>3 DEF Complete, EntriesInv, NoLostWakeup, EntriesAccountedFor
  <2>4. CASE pending[r] # Absent
    <3>1. pending' = [pending EXCEPT ![r] = answer] /\ notified'
      BY <1>1, <2>4 DEF Complete
    <3>2. pending'[r] = answer /\ \A q \in Requests \ {r} : pending'[q] = pending[q]
      BY <2>1, <3>1 DEF TypeOK
    <3> QED
      BY <2>1, <2>2, <2>4, <3>1, <3>2 DEF EntriesInv, NoLostWakeup, EntriesAccountedFor
  <2> QED
    BY <2>3, <2>4
<1>2. CASE Drain(i) \/ Disconnect(i) \/ Connect(i)
  <2>1. UNCHANGED <<pending, caller, told, expired>> /\ (notified => notified')
    <3>1. CASE Drain(i) \/ Connect(i)
      <4>1. pending' = pending /\ UNCHANGED callVars
        BY <3>1 DEF Drain, Connect
      <4> QED
        BY <4>1 DEF callVars
    <3>2. CASE Disconnect(i)
      BY <3>2 DEF Disconnect
    <3> QED
      BY <1>2, <3>1, <3>2
  <2> QED
    BY <2>1 DEF EntriesInv, NoLostWakeup, EntriesAccountedFor
<1> QED
  BY <1>1, <1>2 DEF ConnectionStep

LEMMA EntriesStep ==
  ASSUME TypeOK, CallerInv, EntriesInv, [Next]_vars
  PROVE  EntriesInv'
<1>1. ASSUME NEW i \in Instances, PaneStep(i)
      PROVE  UNCHANGED <<hubVars, callVars>>
  BY <1>1 DEF PaneStep, StartTool, RefuseTool, CancelTool, FinishTool
<1>2. ASSUME UNCHANGED <<hubVars, callVars>>
      PROVE  EntriesInv'
  BY <1>2 DEF hubVars, callVars, EntriesInv, NoLostWakeup, EntriesAccountedFor
<1>3. CASE UNCHANGED vars
  BY <1>2, <1>3 DEF vars
<1> QED
  BY <1>1, <1>2, <1>3, EntriesCaller, EntriesConnection DEF Next

-----------------------------------------------------------------------------
\* The payloads on their way to a pane

Items(s) == {s[n] : n \in 1 .. Len(s)}

\* No invocation is twice in a sequence of payloads.
OnceIn(s) ==
  \A m, n \in 1 .. Len(s) : s[m].kind = "invoke" /\ s[n] = s[m] => m = n

\* What the pane will read: what is written, then what is queued.
Line(i) == wire[i] \o outbound[i]

LEMMA ItemsOfEmpty == Items(<<>>) = {} /\ OnceIn(<<>>)
BY DEF Items, OnceIn

LEMMA ItemsOfTail ==
  ASSUME NEW S, NEW s \in Seq(S), s # <<>>
  PROVE  /\ Items(Tail(s)) \subseteq Items(s)
         /\ Head(s) \in Items(s)
         /\ OnceIn(s) => OnceIn(Tail(s))
         /\ OnceIn(s) /\ Head(s).kind = "invoke" => Head(s) \notin Items(Tail(s))
<1>1. /\ Len(s) \in Nat \ {0}
      /\ Len(Tail(s)) = Len(s) - 1
      /\ \A n \in 1 .. Len(Tail(s)) : Tail(s)[n] = s[n + 1]
      /\ Head(s) = s[1]
  BY HeadTailProperties, EmptySeq
<1>2. Items(Tail(s)) \subseteq Items(s) /\ Head(s) \in Items(s)
  BY <1>1 DEF Items
<1>3. OnceIn(s) => OnceIn(Tail(s))
  <2> SUFFICES ASSUME OnceIn(s),
                      NEW m \in 1 .. Len(Tail(s)), NEW n \in 1 .. Len(Tail(s)),
                      Tail(s)[m].kind = "invoke", Tail(s)[n] = Tail(s)[m]
               PROVE  m = n
    BY DEF OnceIn
  <2>1. m + 1 \in 1 .. Len(s) /\ n + 1 \in 1 .. Len(s)
    BY <1>1
  <2>2. s[m + 1].kind = "invoke" /\ s[n + 1] = s[m + 1]
    BY <1>1
  <2>3. m + 1 = n + 1
    BY <2>1, <2>2 DEF OnceIn
  <2> QED
    BY <2>3
<1>4. OnceIn(s) /\ Head(s).kind = "invoke" => Head(s) \notin Items(Tail(s))
  <2> SUFFICES ASSUME OnceIn(s), Head(s).kind = "invoke",
                      NEW n \in 1 .. Len(Tail(s)), Tail(s)[n] = Head(s)
               PROVE  FALSE
    BY DEF Items
  <2>1. n + 1 \in 1 .. Len(s) /\ 1 \in 1 .. Len(s)
    BY <1>1
  <2>2. s[n + 1] = s[1] /\ s[1].kind = "invoke"
    BY <1>1
  <2>3. 1 = n + 1
    BY <2>1, <2>2 DEF OnceIn
  <2> QED
    BY <2>3
<1> QED
  BY <1>2, <1>3, <1>4

LEMMA ItemsOfAppend ==
  ASSUME NEW S, NEW s \in Seq(S), NEW e \in S
  PROVE  /\ Items(Append(s, e)) = Items(s) \cup {e}
         /\ OnceIn(s) /\ (e.kind = "invoke" => e \notin Items(s)) => OnceIn(Append(s, e))
<1>1. /\ Len(s) \in Nat
      /\ Len(Append(s, e)) = Len(s) + 1
      /\ \A n \in 1 .. Len(s) : Append(s, e)[n] = s[n]
      /\ Append(s, e)[Len(s) + 1] = e
      /\ 1 .. Len(s) + 1 = 1 .. Len(s) \cup {Len(s) + 1}
  BY AppendProperties, LenProperties
<1>2. Items(Append(s, e)) = Items(s) \cup {e}
  BY <1>1 DEF Items
<1>3. OnceIn(s) /\ (e.kind = "invoke" => e \notin Items(s)) => OnceIn(Append(s, e))
  BY <1>1 DEF OnceIn, Items
<1> QED
  BY <1>2, <1>3

LEMMA ConcatOfAppend ==
  ASSUME NEW S, NEW w \in Seq(S), NEW o \in Seq(S), NEW e \in S
  PROVE  w \o Append(o, e) = Append(w \o o, e)
<1>1. <<e>> \in Seq(S) /\ w \o o \in Seq(S)
  BY ConcatProperties
<1>2. (w \o o) \o <<e>> = w \o (o \o <<e>>)
  BY <1>1, ConcatAssociative
<1>3. Append(o, e) = o \o <<e>>
  BY AppendIsConcat
<1>4. Append(w \o o, e) = (w \o o) \o <<e>>
  BY <1>1, AppendIsConcat
<1> QED
  BY <1>2, <1>3, <1>4

LEMMA TailOfConcat ==
  ASSUME NEW S, NEW w \in Seq(S), NEW o \in Seq(S), w # <<>>
  PROVE  /\ w \o o # <<>>
         /\ Head(w \o o) = Head(w)
         /\ Tail(w \o o) = Tail(w) \o o
<1>1. /\ Len(w) \in Nat \ {0} /\ Len(o) \in Nat
      /\ Tail(w) \in Seq(S) /\ Len(Tail(w)) = Len(w) - 1
      /\ \A n \in 1 .. Len(w) - 1 : Tail(w)[n] = w[n + 1]
      /\ Head(w) = w[1]
  BY HeadTailProperties, EmptySeq, LenProperties
<1>2. PICK s : s = w \o o
  OBVIOUS
<1>3. PICK u : u = Tail(w)
  OBVIOUS
<1>4. PICK t : t = u \o o
  OBVIOUS
<1>5. /\ s \in Seq(S) /\ Len(s) = Len(w) + Len(o)
      /\ \A n \in 1 .. Len(w) + Len(o) :
           s[n] = IF n <= Len(w) THEN w[n] ELSE o[n - Len(w)]
  BY <1>2, ConcatProperties
<1>6. u \in Seq(S) /\ Len(u) = Len(w) - 1
  BY <1>1, <1>3
<1>7. /\ t \in Seq(S) /\ Len(t) = Len(u) + Len(o)
      /\ \A n \in 1 .. Len(u) + Len(o) :
           t[n] = IF n <= Len(u) THEN u[n] ELSE o[n - Len(u)]
  BY <1>4, <1>6, ConcatProperties
<1>8. Len(s) # 0 /\ s # <<>> /\ Head(s) = w[1]
  <2>1. Len(s) # 0 /\ 1 \in 1 .. Len(w) + Len(o) /\ 1 <= Len(w)
    BY <1>1, <1>5
  <2>2. s[1] = w[1]
    BY <1>5, <2>1
  <2> QED
    BY <2>1, <2>2, <1>5
<1>9. /\ Tail(s) \in Seq(S) /\ Len(Tail(s)) = Len(s) - 1
      /\ \A n \in 1 .. Len(s) - 1 : Tail(s)[n] = s[n + 1]
  BY <1>5, <1>8, HeadTailProperties
<1>10. ASSUME NEW n \in 1 .. Len(t)
       PROVE  Tail(s)[n] = t[n]
  <2>1. n + 1 \in 1 .. Len(w) + Len(o) /\ n \in 1 .. Len(s) - 1
          /\ n \in 1 .. Len(u) + Len(o)
    BY ONLY <1>1, <1>5, <1>6, <1>7
  <2>2. Tail(s)[n] = IF n + 1 <= Len(w) THEN w[n + 1] ELSE o[n + 1 - Len(w)]
    BY ONLY <1>5, <1>9, <2>1
  <2>3. t[n] = IF n <= Len(u) THEN u[n] ELSE o[n - Len(u)]
    BY ONLY <1>7, <2>1
  <2>4. n <= Len(u) => u[n] = w[n + 1]
    <3>1. n <= Len(u) => n \in 1 .. Len(w) - 1
      BY ONLY <1>1, <1>6, <2>1
    <3> QED
      BY ONLY <1>1, <1>3, <3>1
  <2>5. (n + 1 <= Len(w) <=> n <= Len(u)) /\ n + 1 - Len(w) = n - Len(u)
    BY ONLY <1>1, <1>6, <2>1
  <2> QED
    BY ONLY <2>2, <2>3, <2>4, <2>5
<1>11. Len(t) = Len(Tail(s))
  BY ONLY <1>1, <1>5, <1>6, <1>7, <1>9
<1>12. Tail(s) = t
  BY <1>7, <1>9, <1>10, <1>11, SeqEqual
<1> QED
  BY <1>1, <1>2, <1>3, <1>4, <1>8, <1>12

LEMMA LineType ==
  ASSUME TypeOK, NEW i \in Instances
  PROVE  /\ wire[i] \in Seq(Payloads) /\ outbound[i] \in Seq(Payloads)
         /\ Line(i) \in Seq(Payloads)
BY ConcatProperties DEF TypeOK, Line

\* The pane reads the first payload of its line.
Reads(i) == StartTool(i) \/ RefuseTool(i) \/ CancelTool(i)

LEMMA LineAppend ==
  ASSUME TypeOK, NEW i \in Instances, NEW p \in Payloads,
         UNCHANGED wire, outbound' = [outbound EXCEPT ![i] = Append(@, p)]
  PROVE  /\ Line(i)' = Append(Line(i), p)
         /\ \A j \in Instances \ {i} : Line(j)' = Line(j)
<1>1. /\ outbound'[i] = Append(outbound[i], p)
      /\ \A j \in Instances \ {i} : outbound'[j] = outbound[j]
  BY DEF TypeOK
<1>2. wire[i] \in Seq(Payloads) /\ outbound[i] \in Seq(Payloads) /\ Line(i) \in Seq(Payloads)
  BY LineType
<1>3. wire[i] \o Append(outbound[i], p) = Append(wire[i] \o outbound[i], p)
  <2>1. \A w, o \in Seq(Payloads) : w \o Append(o, p) = Append(w \o o, p)
    BY ConcatOfAppend
  <2> QED
    BY ONLY <1>2, <2>1
<1> QED
  BY <1>1, <1>3 DEF Line

LEMMA LineRead ==
  ASSUME TypeOK, NEW i \in Instances, Reads(i)
  PROVE  /\ Line(i) # <<>>
         /\ Head(Line(i)) = Head(wire[i])
         /\ Line(i)' = Tail(Line(i))
         /\ \A j \in Instances \ {i} : Line(j)' = Line(j)
<1>1. /\ wire' = [wire EXCEPT ![i] = Tail(@)]
      /\ outbound' = outbound
      /\ wire[i] # <<>>
  BY DEF Reads, StartTool, RefuseTool, CancelTool, NextPayload, hubVars
<1>2. wire'[i] = Tail(wire[i]) /\ \A j \in Instances \ {i} : wire'[j] = wire[j]
  BY <1>1 DEF TypeOK
<1>3. wire[i] \in Seq(Payloads) /\ outbound[i] \in Seq(Payloads)
  BY LineType
<1>4. /\ wire[i] \o outbound[i] # <<>>
      /\ Head(wire[i] \o outbound[i]) = Head(wire[i])
      /\ Tail(wire[i] \o outbound[i]) = Tail(wire[i]) \o outbound[i]
  BY <1>1, <1>3, TailOfConcat
<1> QED
  BY <1>1, <1>2, <1>4 DEF Line

LEMMA LineCases ==
  ASSUME TypeOK, [Next]_vars, NEW j \in Instances
  PROVE  \/ Line(j)' = Line(j)
         \/ Line(j)' = <<>>
         \/ \E k \in Calls :
              /\ Invoke(k) /\ j = TargetOf[k]
              /\ Line(j)' = Append(Line(j), [kind |-> "invoke", call |-> k])
         \/ \E k \in Calls :
              /\ SendCancel(k)
              /\ Line(j)' = Append(Line(j), [kind |-> "cancel", call |-> k])
         \/ /\ Reads(j)
            /\ Line(j) # <<>> /\ Head(Line(j)) = Head(wire[j])
            /\ Line(j)' = Tail(Line(j))
<1>1. ASSUME NEW k \in Calls, CallerStep(k)
      PROVE  \/ Line(j)' = Line(j)
             \/ /\ Invoke(k) /\ j = TargetOf[k]
                /\ Line(j)' = Append(Line(j), [kind |-> "invoke", call |-> k])
             \/ /\ SendCancel(k)
                /\ Line(j)' = Append(Line(j), [kind |-> "cancel", call |-> k])
  <2>1. /\ TargetOf[k] \in Instances
        /\ [kind |-> "invoke", call |-> k] \in Payloads
        /\ [kind |-> "cancel", call |-> k] \in Payloads
    BY InvocationAssumption DEF Payloads
  <2>2. CASE UNCHANGED <<wire, outbound>>
    BY <2>2 DEF Line
  <2>3. CASE Invoke(k)
    BY <2>1, <2>3, LineAppend DEF Invoke, paneVars
  <2>4. CASE SendCancel(k)
    <3>1. CASE up[TargetOf[k]]
      BY <2>1, <2>4, <3>1, LineAppend DEF SendCancel, paneVars
    <3>2. CASE ~up[TargetOf[k]]
      BY <2>4, <3>2 DEF SendCancel, paneVars, Line
    <3> QED
      BY <3>1, <3>2
  <2> QED
    BY <1>1, <2>2, <2>3, <2>4
       DEF CallerStep, Wake, InvokeRefused, DeadlinePasses, TakeAnswer, WaitAgain,
           GiveUp, WaitTimedOut, hubVars, paneVars
<1>2. ASSUME NEW i \in Instances, ConnectionStep(i)
      PROVE  Line(j)' = Line(j) \/ Line(j)' = <<>>
  <2>1. CASE Drain(i)
    <3>1. /\ wire' = [wire EXCEPT ![i] = @ \o outbound[i]]
          /\ outbound' = [outbound EXCEPT ![i] = <<>>]
      BY <2>1 DEF Drain
    <3>2. CASE j = i
      <4>1. Line(j) \in Seq(Payloads)
        BY LineType
      <4>2. Line(j)' = Line(j) \o <<>>
        BY <3>1, <3>2 DEF TypeOK, Line
      <4> QED
        BY <4>1, <4>2, ConcatEmptySeq
    <3>3. CASE j # i
      BY <3>1, <3>3 DEF TypeOK, Line
    <3> QED
      BY <3>2, <3>3
  <2>2. CASE Disconnect(i)
    <3>1. CASE j = i
      <4>1. wire'[j] = <<>> /\ outbound'[j] = <<>>
        BY <2>2, <3>1 DEF Disconnect, TypeOK
      <4>2. <<>> \in Seq(Payloads)
        OBVIOUS
      <4> QED
        BY <4>1, <4>2, ConcatEmptySeq DEF Line
    <3>2. CASE j # i
      BY <2>2, <3>2 DEF Disconnect, TypeOK, Line
    <3> QED
      BY <3>1, <3>2
  <2>3. CASE Complete(i) \/ Connect(i)
    BY <2>3 DEF Complete, Connect, paneVars, Line
  <2> QED
    BY <1>2, <2>1, <2>2, <2>3 DEF ConnectionStep
<1>3. ASSUME NEW i \in Instances, PaneStep(i)
      PROVE  \/ Line(j)' = Line(j)
             \/ /\ Reads(j)
                /\ Line(j) # <<>> /\ Head(Line(j)) = Head(wire[j])
                /\ Line(j)' = Tail(Line(j))
  <2>1. CASE Reads(i)
    BY <2>1, LineRead
  <2>2. ASSUME NEW k \in Calls, NEW outcome \in Outcomes, FinishTool(i, k, outcome)
        PROVE  Line(j)' = Line(j)
    BY <2>2 DEF FinishTool, hubVars, Line
  <2> QED
    BY <1>3, <2>1, <2>2 DEF PaneStep, Reads
<1>4. CASE UNCHANGED vars
  BY <1>4 DEF vars, hubVars, paneVars, Line
<1> QED
  BY <1>1, <1>2, <1>3, <1>4 DEF Next

-----------------------------------------------------------------------------
\* The pane

\* A call whose invocation is on its way to pane i has been made and not begun.
Fresh(k, i) ==
  /\ TargetOf[k] = i
  /\ caller[k] # "idle" /\ told[k].outcome # "lost"
  /\ k \notin started

LineInv ==
  \A i \in Instances :
    /\ OnceIn(Line(i))
    /\ \A p \in Items(Line(i)) : p.kind = "invoke" => Fresh(p.call, i)

\* What has begun was made; what has ended has begun and runs no more; an
\* answer is that of a call which has ended.
PaneInv ==
  /\ ended \subseteq started
  /\ \A k \in started : caller[k] # "idle" /\ told[k].outcome # "lost"
  /\ \A i \in Instances : \A k \in running[i] :
       TargetOf[k] = i /\ k \in started /\ k \notin ended
  /\ \A i \in Instances : \A a \in Items(replies[i]) : a.call \in ended
  /\ \A r \in Requests : pending[r] \in Answers => pending[r].call \in ended

\* Some call under the id was told that it timed out.
Suspect(r) == \E k \in Calls : IdOf[k] = r /\ told[k].outcome = "timeout"

\* Cancellations, and what is told of them, come after a timeout.
CancelInv ==
  /\ \A i \in Instances : \A p \in Items(Line(i)) :
       p.kind = "cancel" => told[p.call].outcome = "timeout"
  /\ \A i \in Instances : \A r \in cancelled[i] : Suspect(r)
  /\ \A i \in Instances : \A a \in Items(replies[i]) :
       a.outcome = "cancelled" => Suspect(IdOf[a.call])
  /\ \A r \in Requests :
       pending[r] \in Answers /\ pending[r].outcome = "cancelled" => Suspect(r)
  /\ \A k \in Calls : told[k].outcome = "cancelled" => Suspect(IdOf[k])

\* The payload a pane reads is the first of its line.
LEMMA ReadItem ==
  ASSUME TypeOK, NEW i \in Instances, Reads(i)
  PROVE  /\ Head(wire[i]) \in Items(Line(i))
         /\ Head(wire[i]) \in Payloads
         /\ Head(wire[i]).call \in Calls
         /\ Items(Line(i)') \subseteq Items(Line(i))
         /\ OnceIn(Line(i)) => OnceIn(Line(i)')
         /\ OnceIn(Line(i)) /\ Head(wire[i]).kind = "invoke"
              => Head(wire[i]) \notin Items(Line(i)')
<1>1. /\ Line(i) # <<>> /\ Head(Line(i)) = Head(wire[i])
      /\ Line(i)' = Tail(Line(i))
  BY LineRead
<1>2. Line(i) \in Seq(Payloads)
  BY LineType
<1>3. Head(wire[i]) \in Payloads /\ Head(wire[i]).call \in Calls
  <2>1. \E kind : NextPayload(i, kind)
    BY DEF Reads, StartTool, RefuseTool, CancelTool
  <2> QED
    BY <2>1, HeadOfWire
<1> QED
  BY <1>1, <1>2, <1>3, ItemsOfTail

\* Where a call begins to be handled.
LEMMA StartedCases ==
  ASSUME [Next]_vars
  PROVE  \/ started' = started
         \/ \E i \in Instances :
              /\ StartTool(i) \/ RefuseTool(i)
              /\ started' = started \cup {Head(wire[i]).call}
              /\ Head(wire[i]).kind = "invoke"
<1>1. ASSUME NEW k \in Calls, CallerStep(k)
      PROVE  started' = started
  BY <1>1 DEF CallerStep, Wake, InvokeRefused, Invoke, DeadlinePasses, TakeAnswer,
              WaitAgain, GiveUp, WaitTimedOut, SendCancel, paneVars
<1>2. ASSUME NEW i \in Instances, ConnectionStep(i)
      PROVE  started' = started
  BY <1>2 DEF ConnectionStep, Drain, Complete, Disconnect, Connect, paneVars
<1>3. ASSUME NEW i \in Instances, PaneStep(i)
      PROVE  \/ started' = started
             \/ /\ StartTool(i) \/ RefuseTool(i)
                /\ started' = started \cup {Head(wire[i]).call}
                /\ Head(wire[i]).kind = "invoke"
  BY <1>3 DEF PaneStep, StartTool, RefuseTool, CancelTool, FinishTool, NextPayload
<1>4. CASE UNCHANGED vars
  BY <1>4 DEF vars, paneVars
<1> QED
  BY <1>1, <1>2, <1>3, <1>4 DEF Next

LEMMA LineStep ==
  ASSUME TypeOK, CallerInv, EntriesInv, LineInv, PaneInv, [Next]_vars
  PROVE  LineInv'
<1> SUFFICES ASSUME NEW j \in Instances
             PROVE  /\ OnceIn(Line(j)')
                    /\ \A p \in Items(Line(j)') : p.kind = "invoke" => Fresh(p.call, j)'
  BY DEF LineInv, OnceIn, Items
<1>0. ASSUME NEW p \in Items(Line(j)), p.kind = "invoke", p.call \notin started'
      PROVE  Fresh(p.call, j)'
  <2>1. Fresh(p.call, j)
    BY <1>0 DEF LineInv
  <2>2. p.call \in Calls
    <3>1. Line(j) \in Seq(Payloads)
      BY LineType
    <3>2. p \in Payloads
      BY <1>0, <3>1, ElementOfSeq DEF Items
    <3> QED
      BY <3>2 DEF Payloads
  <2> QED
    BY <1>0, <2>1, <2>2, VerdictsStand DEF Fresh
<1>1. OnceIn(Line(j)) /\ Line(j) \in Seq(Payloads)
  BY LineType DEF LineInv
<1>2. ASSUME NEW i \in Instances, Reads(i)
      PROVE  /\ OnceIn(Line(j)')
             /\ \A p \in Items(Line(j)') : p.kind = "invoke" => Fresh(p.call, j)'
  <2>1. /\ Items(Line(j)') \subseteq Items(Line(j))
        /\ OnceIn(Line(j)')
    BY <1>1, <1>2, ReadItem, LineRead
  <2>2. started' = started \/
          (started' = started \cup {Head(wire[i]).call} /\ Head(wire[i]).kind = "invoke")
    BY <1>2 DEF Reads, StartTool, RefuseTool, CancelTool, NextPayload
  <2>3. ASSUME NEW p \in Items(Line(j)'), p.kind = "invoke"
        PROVE  p.call \notin started'
    <3>1. Fresh(p.call, j) /\ p.call \notin started
      BY <2>1, <2>3 DEF LineInv, Fresh
    <3>2. ASSUME Head(wire[i]).kind = "invoke", p.call = Head(wire[i]).call
          PROVE  FALSE
      <4>1. Fresh(Head(wire[i]).call, i)
        BY <1>2, <3>2, ReadItem DEF LineInv
      <4>2. i = j
        BY <3>1, <3>2, <4>1 DEF Fresh
      <4>3. p \in Payloads
        BY <1>1, <2>1, <2>3, ElementOfSeq DEF Items
      <4>4. p = Head(wire[i])
        BY <1>2, <2>3, <3>2, <4>3, ReadItem DEF Payloads
      <4> QED
        BY <1>1, <1>2, <2>3, <3>2, <4>2, <4>4, ReadItem
    <3> QED
      BY <2>2, <3>1, <3>2
  <2> QED
    BY <1>0, <2>1, <2>3
<1>3. CASE \A i \in Instances : ~Reads(i)
  <2>1. started' = started
    BY <1>3, StartedCases DEF Reads
  <2>2. \A p \in Items(Line(j)) : p.kind = "invoke" => Fresh(p.call, j)'
    <3>1. \A p \in Items(Line(j)) : p.kind = "invoke" => p.call \notin started
      BY DEF LineInv, Fresh
    <3> QED
      BY <1>0, <2>1, <3>1
  <2>3. CASE Line(j)' = Line(j) \/ Line(j)' = <<>>
    BY <1>1, <2>2, <2>3, ItemsOfEmpty
  <2>4. ASSUME NEW k \in Calls, Invoke(k), j = TargetOf[k],
               Line(j)' = Append(Line(j), [kind |-> "invoke", call |-> k])
        PROVE  /\ OnceIn(Line(j)')
               /\ \A p \in Items(Line(j)') : p.kind = "invoke" => Fresh(p.call, j)'
    <3> DEFINE e == [kind |-> "invoke", call |-> k]
    <3>1. e \in Payloads /\ e.kind = "invoke" /\ e.call = k
      BY DEF Payloads
    <3>2. caller[k] = "idle" /\ caller'[k] = "waiting" /\ told' = told
      BY <2>4 DEF Invoke, TypeOK
    <3>3. e \notin Items(Line(j))
      BY <3>1, <3>2 DEF LineInv, Fresh
    <3>4. told[k].outcome = "nothing"
      BY <3>2, OwnIsVerdict DEF CallerInv
    <3>5. k \notin started
      BY <3>2 DEF PaneInv
    <3>6. Fresh(k, j)'
      BY <2>1, <2>4, <3>2, <3>4, <3>5 DEF Fresh
    <3> HIDE DEF e
    <3>7. Line(j)' = Append(Line(j), e)
      BY <2>4 DEF e
    <3> QED
      BY <1>1, <2>2, <3>1, <3>3, <3>6, <3>7, ItemsOfAppend
  <2>5. ASSUME NEW k \in Calls, Line(j)' = Append(Line(j), [kind |-> "cancel", call |-> k])
        PROVE  /\ OnceIn(Line(j)')
               /\ \A p \in Items(Line(j)') : p.kind = "invoke" => Fresh(p.call, j)'
    <3> DEFINE e == [kind |-> "cancel", call |-> k]
    <3>1. e \in Payloads /\ e.kind # "invoke"
      BY DEF Payloads
    <3>2. Line(j)' = Append(Line(j), e)
      BY <2>5
    <3> HIDE DEF e
    <3> QED
      BY <1>1, <2>2, <3>1, <3>2, ItemsOfAppend
  <2> QED
    BY <1>3, <2>3, <2>4, <2>5, LineCases
<1> QED
  BY <1>2, <1>3

\* Where an answer that is on its way comes from.
LEMMA ReplyCases ==
  ASSUME TypeOK, [Next]_vars, NEW j \in Instances, NEW a \in Items(replies'[j])
  PROVE  \/ a \in Items(replies[j])
         \/ /\ RefuseTool(j)
            /\ a.call = Head(wire[j]).call
         \/ \E k \in Calls, outcome \in Outcomes :
              FinishTool(j, k, outcome) /\ a = Own(k, outcome)
<1>0. replies[j] \in Seq(Answers)
  BY DEF TypeOK
<1>1. CASE replies'[j] = replies[j]
  BY <1>1
<1>2. CASE replies' = replies
  BY <1>2
<1>3. ASSUME NEW i \in Instances, NEW k \in Calls, NEW outcome \in Outcomes,
             Reply(i, k, outcome)
      PROVE  \/ a \in Items(replies[j])
             \/ i = j /\ a = Own(k, outcome)
  <2>1. CASE replies' = replies
    BY <2>1
  <2>2. CASE replies' = [replies EXCEPT ![i] = Append(@, Own(k, outcome))]
    <3>1. CASE i = j
      <4>1. replies'[j] = Append(replies[j], Own(k, outcome))
        BY <2>2, <3>1 DEF TypeOK
      <4>2. Own(k, outcome) \in Answers
        BY OwnIsVerdict
      <4>3. Items(replies'[j]) = Items(replies[j]) \cup {Own(k, outcome)}
        BY <1>0, <4>1, <4>2, ItemsOfAppend
      <4> QED
        BY <3>1, <4>3
    <3>2. CASE i # j
      <4>1. replies'[j] = replies[j]
        BY <2>2, <3>2 DEF TypeOK
      <4> QED
        BY <4>1
    <3> QED
      BY <3>1, <3>2
  <2> QED
    BY <1>3, <2>1, <2>2 DEF Reply
<1>4. ASSUME NEW k \in Calls, CallerStep(k)
      PROVE  replies' = replies
  BY <1>4 DEF CallerStep, Wake, InvokeRefused, Invoke, DeadlinePasses, TakeAnswer,
              WaitAgain, GiveUp, WaitTimedOut, SendCancel, paneVars
<1>5. ASSUME NEW i \in Instances, ConnectionStep(i)
      PROVE  a \in Items(replies[j])
  <2>1. CASE Drain(i) \/ Connect(i)
    BY <1>2, <2>1 DEF Drain, Connect, paneVars
  <2>2. CASE Complete(i)
    <3>1. replies[i] # <<>> /\ replies' = [replies EXCEPT ![i] = Tail(@)]
      BY <2>2 DEF Complete
    <3>2. CASE i = j
      <4>1. replies'[j] = Tail(replies[j]) /\ replies[j] # <<>>
        BY <3>1, <3>2 DEF TypeOK
      <4> QED
        BY <1>0, <4>1, ItemsOfTail
    <3>3. CASE i # j
      BY <1>1, <3>1, <3>3 DEF TypeOK
    <3> QED
      BY <3>2, <3>3
  <2>3. CASE Disconnect(i)
    <3>1. CASE i = j
      <4>1. replies'[j] = <<>>
        BY <2>3, <3>1 DEF Disconnect, TypeOK
      <4> QED
        BY <4>1, ItemsOfEmpty
    <3>2. CASE i # j
      BY <1>1, <2>3, <3>2 DEF Disconnect, TypeOK
    <3> QED
      BY <3>1, <3>2
  <2> QED
    BY <1>5, <2>1, <2>2, <2>3 DEF ConnectionStep
<1>6. ASSUME NEW i \in Instances, PaneStep(i)
      PROVE  \/ a \in Items(replies[j])
             \/ RefuseTool(j) /\ a.call = Head(wire[j]).call
             \/ \E k \in Calls, outcome \in Outcomes :
                  FinishTool(j, k, outcome) /\ a = Own(k, outcome)
  <2>1. CASE StartTool(i) \/ CancelTool(i)
    BY <1>2, <2>1 DEF StartTool, CancelTool
  <2>2. CASE RefuseTool(i)
    <3>1. Head(wire[i]).call \in Calls
      BY <2>2, HeadOfWire DEF RefuseTool
    <3>2. PICK outcome \in {"failed", "cancelled"} : Reply(i, Head(wire[i]).call, outcome)
      BY <2>2 DEF RefuseTool
    <3>3. outcome \in Outcomes
      BY <3>2 DEF Outcomes
    <3>4. Own(Head(wire[i]).call, outcome).call = Head(wire[i]).call
      BY DEF Own
    <3> QED
      BY <1>3, <2>2, <3>1, <3>2, <3>3, <3>4
  <2>3. ASSUME NEW k \in Calls, NEW outcome \in Outcomes, FinishTool(i, k, outcome)
        PROVE  \/ a \in Items(replies[j])
               \/ FinishTool(j, k, outcome) /\ a = Own(k, outcome)
    <3>1. Reply(i, k, outcome)
      BY <2>3 DEF FinishTool
    <3> QED
      BY <1>3, <2>3, <3>1
  <2> QED
    BY <1>6, <2>1, <2>2, <2>3 DEF PaneStep
<1>7. CASE UNCHANGED vars
  BY <1>2, <1>7 DEF vars, paneVars
<1> QED
  BY <1>4, <1>5, <1>6, <1>7, <1>2 DEF Next

\* Where an answer in the pending table comes from.
LEMMA PendingCases ==
  ASSUME TypeOK, [Next]_vars, NEW r \in Requests, pending'[r] \in Answers
  PROVE  \/ pending'[r] = pending[r]
         \/ \E i \in Instances :
              pending'[r] \in Items(replies[i]) /\ IdOf[pending'[r].call] = r
<1>0. Vacant \notin Answers /\ Absent \notin Answers
  BY InvocationAssumption
<1>1. ASSUME NEW k \in Calls, CallerStep(k)
      PROVE  pending'[r] = pending[r]
  <2>1. CASE pending' = pending
    BY <2>1
  <2>2. CASE pending' = [pending EXCEPT ![IdOf[k]] = Absent]
    BY <1>0, <2>2 DEF TypeOK
  <2>3. CASE pending' = [pending EXCEPT ![IdOf[k]] = Vacant]
    BY <1>0, <2>3 DEF TypeOK
  <2> QED
    BY <1>1, <2>1, <2>2, <2>3
       DEF CallerStep, Wake, InvokeRefused, Invoke, DeadlinePasses, TakeAnswer,
           WaitAgain, GiveUp, WaitTimedOut, SendCancel, hubVars
<1>2. ASSUME NEW i \in Instances, ConnectionStep(i)
      PROVE  \/ pending'[r] = pending[r]
             \/ pending'[r] \in Items(replies[i]) /\ IdOf[pending'[r].call] = r
  <2>1. CASE pending' = pending
    BY <2>1
  <2>2. CASE Complete(i) /\ pending' # pending
    <3> DEFINE answer == Head(replies[i])
    <3>1. /\ replies[i] # <<>> /\ replies[i] \in Seq(Answers)
          /\ pending' = [pending EXCEPT ![IdOf[answer.call]] = answer]
      BY <2>2 DEF Complete, TypeOK
    <3>2. answer \in Items(replies[i])
      BY <3>1, ItemsOfTail
    <3> HIDE DEF answer
    <3>3. CASE r = IdOf[answer.call]
      BY <3>1, <3>2, <3>3 DEF TypeOK
    <3>4. CASE r # IdOf[answer.call]
      BY <3>1, <3>4 DEF TypeOK
    <3> QED
      BY <3>3, <3>4
  <2> QED
    BY <1>2, <2>1, <2>2 DEF ConnectionStep, Drain, Disconnect, Connect
<1>3. ASSUME NEW i \in Instances, PaneStep(i)
      PROVE  pending' = pending
  BY <1>3 DEF PaneStep, StartTool, RefuseTool, CancelTool, FinishTool, hubVars
<1>4. CASE UNCHANGED vars
  BY <1>4 DEF vars, hubVars
<1> QED
  BY <1>1, <1>2, <1>3, <1>4 DEF Next

\* The payload with which a call begins is of a call that was made, is for
\* this pane, and has not begun.
LEMMA BeginsFresh ==
  ASSUME TypeOK, LineInv, NEW i \in Instances, StartTool(i) \/ RefuseTool(i)
  PROVE  Head(wire[i]).call \in Calls /\ Fresh(Head(wire[i]).call, i)
<1>1. Reads(i) /\ Head(wire[i]).kind = "invoke"
  BY DEF Reads, StartTool, RefuseTool, NextPayload
<1>2. Head(wire[i]) \in Items(Line(i)) /\ Head(wire[i]).call \in Calls
  BY <1>1, ReadItem
<1> QED
  BY <1>1, <1>2 DEF LineInv

\* Executions begin once and end once.
ExecutionsGoOn ==
  /\ ended \subseteq ended' /\ ended' \subseteq started'
  /\ started \subseteq started' /\ started' \subseteq Calls
  /\ \A i \in Instances : \A k \in running'[i] :
       TargetOf[k] = i /\ k \in started' /\ k \notin ended'

LEMMA ExecutionsStep ==
  ASSUME TypeOK, LineInv, PaneInv, [Next]_vars
  PROVE  ExecutionsGoOn
<1>1. ASSUME UNCHANGED <<running, started, ended>>
      PROVE  ExecutionsGoOn
  BY <1>1 DEF ExecutionsGoOn, PaneInv, TypeOK
<1>2. ASSUME NEW k \in Calls, CallerStep(k)
      PROVE  ExecutionsGoOn
  BY <1>1, <1>2
     DEF CallerStep, Wake, InvokeRefused, Invoke, DeadlinePasses, TakeAnswer,
         WaitAgain, GiveUp, WaitTimedOut, SendCancel, paneVars
<1>3. ASSUME NEW i \in Instances, ConnectionStep(i)
      PROVE  ExecutionsGoOn
  BY <1>1, <1>3 DEF ConnectionStep, Drain, Complete, Disconnect, Connect, paneVars
<1>4. ASSUME NEW i \in Instances, PaneStep(i)
      PROVE  ExecutionsGoOn
  <2>1. CASE StartTool(i)
    <3> DEFINE k == Head(wire[i]).call
    <3>1. k \in Calls /\ TargetOf[k] = i /\ k \notin started
      BY <2>1, BeginsFresh DEF Fresh
    <3>2. /\ running' = [running EXCEPT ![i] = @ \cup {k}]
          /\ started' = started \cup {k} /\ ended' = ended
      BY <2>1 DEF StartTool
    <3> HIDE DEF k
    <3> QED
      BY <3>1, <3>2 DEF ExecutionsGoOn, PaneInv, TypeOK
  <2>2. CASE RefuseTool(i)
    <3> DEFINE k == Head(wire[i]).call
    <3>1. k \in Calls /\ k \notin started
      BY <2>2, BeginsFresh DEF Fresh
    <3>2. /\ running' = running
          /\ started' = started \cup {k} /\ ended' = ended \cup {k}
      BY <2>2 DEF RefuseTool
    <3> HIDE DEF k
    <3> QED
      BY <3>1, <3>2 DEF ExecutionsGoOn, PaneInv, TypeOK
  <2>3. CASE CancelTool(i)
    BY <1>1, <2>3 DEF CancelTool
  <2>4. ASSUME NEW k \in Calls, NEW outcome \in Outcomes, FinishTool(i, k, outcome)
        PROVE  ExecutionsGoOn
    <3>1. /\ k \in running[i]
          /\ running' = [running EXCEPT ![i] = @ \ {k}]
          /\ ended' = ended \cup {k} /\ started' = started
      BY <2>4 DEF FinishTool
    <3>2. TargetOf[k] = i /\ k \in started
      BY <3>1 DEF PaneInv
    <3> QED
      BY <3>1, <3>2 DEF ExecutionsGoOn, PaneInv, TypeOK
  <2> QED
    BY <1>4, <2>1, <2>2, <2>3, <2>4 DEF PaneStep
<1>5. CASE UNCHANGED vars
  BY <1>1, <1>5 DEF vars, paneVars
<1> QED
  BY <1>2, <1>3, <1>4, <1>5 DEF Next

LEMMA PaneStepHolds ==
  ASSUME TypeOK, CallerInv, EntriesInv, LineInv, PaneInv, [Next]_vars
  PROVE  PaneInv'
<1>1. ExecutionsGoOn
  BY ExecutionsStep
<1>2. ASSUME NEW k \in started'
      PROVE  caller'[k] # "idle" /\ told'[k].outcome # "lost"
  <2>1. k \in Calls
    BY <1>1 DEF ExecutionsGoOn
  <2>2. caller[k] # "idle" /\ told[k].outcome # "lost"
    <3>1. CASE k \in started
      BY <3>1 DEF PaneInv
    <3>2. CASE k \notin started
      <4>1. PICK i \in Instances :
              (StartTool(i) \/ RefuseTool(i)) /\ k = Head(wire[i]).call
        BY <1>2, <3>2, StartedCases
      <4> QED
        BY <4>1, BeginsFresh DEF Fresh
    <3> QED
      BY <3>1, <3>2
  <2> QED
    BY <2>1, <2>2, VerdictsStand
<1>3. ASSUME NEW i \in Instances, NEW a \in Items(replies'[i])
      PROVE  a.call \in ended'
  <2>1. CASE a \in Items(replies[i])
    BY <1>1, <2>1 DEF PaneInv, ExecutionsGoOn
  <2>2. CASE RefuseTool(i) /\ a.call = Head(wire[i]).call
    BY <2>2 DEF RefuseTool
  <2>3. ASSUME NEW k \in Calls, NEW outcome \in Outcomes,
               FinishTool(i, k, outcome), a = Own(k, outcome)
        PROVE  a.call \in ended'
    BY <2>3 DEF FinishTool, Own
  <2> QED
    BY <2>1, <2>2, <2>3, ReplyCases
<1>4. ASSUME NEW r \in Requests, pending'[r] \in Answers
      PROVE  pending'[r].call \in ended'
  <2>1. pending'[r].call \in ended
    BY <1>4, PendingCases DEF PaneInv
  <2> QED
    BY <1>1, <2>1 DEF ExecutionsGoOn
<1> QED
  BY <1>1, <1>2, <1>3, <1>4 DEF PaneInv, ExecutionsGoOn, Items

LEMMA SuspectStays ==
  ASSUME TypeOK, CallerInv, EntriesInv, [Next]_vars, NEW r, Suspect(r)
  PROVE  Suspect(r)'
BY VerdictsStand DEF Suspect

LEMMA CancelStep ==
  ASSUME TypeOK, CallerInv, EntriesInv, LineInv, CancelInv, [Next]_vars
  PROVE  CancelInv'
<1>1. ASSUME NEW i \in Instances, NEW p \in Items(Line(i)'), p.kind = "cancel"
      PROVE  told'[p.call].outcome = "timeout"
  <2>1. Line(i) \in Seq(Payloads)
    BY LineType
  <2>2. ASSUME p \in Items(Line(i))
        PROVE  told'[p.call].outcome = "timeout"
    <3>1. p \in Payloads
      BY <2>1, <2>2, ElementOfSeq DEF Items
    <3>2. p.call \in Calls /\ told[p.call].outcome = "timeout"
      BY <1>1, <2>2, <3>1 DEF CancelInv, Payloads
    <3> QED
      BY <3>2, VerdictsStand
  <2>3. CASE Line(i)' = Line(i) \/ Line(i)' = <<>>
    BY <1>1, <2>2, <2>3, ItemsOfEmpty
  <2>4. ASSUME NEW k \in Calls, Line(i)' = Append(Line(i), [kind |-> "invoke", call |-> k])
        PROVE  p \in Items(Line(i))
    <3> DEFINE e == [kind |-> "invoke", call |-> k]
    <3>1. e \in Payloads /\ e.kind # "cancel"
      BY DEF Payloads
    <3>2. Line(i)' = Append(Line(i), e)
      BY <2>4
    <3> HIDE DEF e
    <3> QED
      BY <1>1, <2>1, <3>1, <3>2, ItemsOfAppend
  <2>5. ASSUME NEW k \in Calls, SendCancel(k),
               Line(i)' = Append(Line(i), [kind |-> "cancel", call |-> k])
        PROVE  p \in Items(Line(i)) \/ told'[p.call].outcome = "timeout"
    <3> DEFINE e == [kind |-> "cancel", call |-> k]
    <3>1. e \in Payloads /\ e.call = k
      BY DEF Payloads
    <3>2. Line(i)' = Append(Line(i), e)
      BY <2>5
    <3>3. told'[k].outcome = "timeout"
      BY <2>5 DEF SendCancel, CallerInv
    <3> HIDE DEF e
    <3> QED
      BY <1>1, <2>1, <3>1, <3>2, <3>3, ItemsOfAppend
  <2>6. CASE Reads(i) /\ Line(i) # <<>> /\ Line(i)' = Tail(Line(i))
    <3>1. Items(Line(i)') \subseteq Items(Line(i))
      BY <2>6, ReadItem
    <3> QED
      BY <1>1, <2>2, <3>1
  <2> QED
    BY <2>2, <2>3, <2>4, <2>5, <2>6, LineCases
<1>2. ASSUME NEW i \in Instances, NEW r \in cancelled'[i]
      PROVE  Suspect(r)
  <2>1. CASE r \in cancelled[i]
    BY <2>1 DEF CancelInv
  <2>2. CASE r \notin cancelled[i]
    <3>1. CancelTool(i) /\ r = IdOf[Head(wire[i]).call]
      <4>1. ASSUME NEW k \in Calls, CallerStep(k)
            PROVE  cancelled' = cancelled
        BY <4>1 DEF CallerStep, Wake, InvokeRefused, Invoke, DeadlinePasses,
                    TakeAnswer, WaitAgain, GiveUp, WaitTimedOut, SendCancel, paneVars
      <4>2. ASSUME NEW j \in Instances, ConnectionStep(j)
            PROVE  cancelled' = cancelled
        BY <4>2 DEF ConnectionStep, Drain, Complete, Disconnect, Connect, paneVars
      <4>3. ASSUME NEW j \in Instances, PaneStep(j)
            PROVE  \/ cancelled'[i] \subseteq cancelled[i]
                   \/ CancelTool(i) /\ cancelled'[i] =
                                         cancelled[i] \cup {IdOf[Head(wire[i]).call]}
        <5>1. CASE StartTool(j) \/ RefuseTool(j)
          BY <5>1 DEF StartTool, RefuseTool
        <5>2. CASE CancelTool(j)
          BY <5>2 DEF CancelTool, TypeOK
        <5>3. ASSUME NEW k \in Calls, NEW outcome \in Outcomes, FinishTool(j, k, outcome)
              PROVE  cancelled'[i] \subseteq cancelled[i]
          BY <5>3 DEF FinishTool, TypeOK
        <5> QED
          BY <4>3, <5>1, <5>2, <5>3 DEF PaneStep
      <4>4. CASE UNCHANGED vars
        BY <1>2, <2>2, <4>4 DEF vars, paneVars
      <4> QED
        BY <1>2, <2>2, <4>1, <4>2, <4>3, <4>4 DEF Next
    <3>2. Reads(i) /\ Head(wire[i]).kind = "cancel"
      BY <3>1 DEF Reads, CancelTool, NextPayload
    <3>3. Head(wire[i]).call \in Calls /\ told[Head(wire[i]).call].outcome = "timeout"
      BY <3>2, ReadItem DEF CancelInv
    <3> QED
      BY <3>1, <3>3 DEF Suspect
  <2> QED
    BY <2>1, <2>2
<1>3. ASSUME NEW i \in Instances, NEW a \in Items(replies'[i]), a.outcome = "cancelled"
      PROVE  Suspect(IdOf[a.call])
  <2>1. CASE a \in Items(replies[i])
    BY <1>3, <2>1 DEF CancelInv
  <2>2. CASE RefuseTool(i) /\ a.call = Head(wire[i]).call
    <3>1. IdOf[a.call] \in cancelled[i]
      BY <2>2 DEF RefuseTool
    <3> QED
      BY <3>1 DEF CancelInv
  <2>3. ASSUME NEW k \in Calls, NEW outcome \in Outcomes,
               FinishTool(i, k, outcome), a = Own(k, outcome)
        PROVE  Suspect(IdOf[a.call])
    <3>1. a.call = k /\ outcome = "cancelled"
      BY <1>3, <2>3 DEF Own
    <3>2. IdOf[k] \in cancelled[i]
      BY <2>3, <3>1 DEF FinishTool
    <3> QED
      BY <3>1, <3>2 DEF CancelInv
  <2> QED
    BY <2>1, <2>2, <2>3, ReplyCases
<1>4. ASSUME NEW r \in Requests, pending'[r] \in Answers, pending'[r].outcome = "cancelled"
      PROVE  Suspect(r)
  BY <1>4, PendingCases DEF CancelInv
<1>5. ASSUME NEW k \in Calls, told'[k].outcome = "cancelled"
      PROVE  Suspect(IdOf[k])
  <2>1. CASE UNCHANGED <<caller, told>>
    BY <1>5, <2>1 DEF CancelInv
  <2>2. ASSUME NEW j \in Calls, InvokeRefused(j)
        PROVE  told[k].outcome = "cancelled"
    <3>1. Own(j, "lost") \in Verdicts /\ Own(j, "lost").outcome = "lost"
      BY OwnIsVerdict
    <3> QED
      BY <1>5, <2>2, <3>1, Returned DEF InvokeRefused
  <2>3. ASSUME NEW j \in Calls, Invoke(j) \/ SendCancel(j)
        PROVE  told[k].outcome = "cancelled"
    BY <1>5, <2>3 DEF Invoke, SendCancel
  <2>4. ASSUME NEW j \in Calls, Finishes(j)
        PROVE  Suspect(IdOf[k])
    <3>1. PICK what \in Verdicts :
            /\ Return(j, what)
            /\ TakeAnswer(j) => what = pending[IdOf[j]]
            /\ ~TakeAnswer(j) => what = Own(j, "timeout")
      BY <2>4, FinishesWith
    <3>2. told'[j] = what /\ \A h \in Calls \ {j} : told'[h] = told[h]
      BY <3>1, Returned
    <3>3. CASE k = j
      <4>1. what.outcome = "cancelled"
        BY <1>5, <3>2, <3>3
      <4>2. TakeAnswer(j)
        BY <3>1, <4>1, OwnIsVerdict
      <4>3. pending[IdOf[j]] \in Answers /\ IdOf[j] \in Requests
        BY <4>2, InvocationAssumption DEF TakeAnswer
      <4> QED
        BY <3>1, <3>3, <4>1, <4>2, <4>3 DEF CancelInv
    <3>4. CASE k # j
      BY <1>5, <3>2, <3>4 DEF CancelInv
    <3> QED
      BY <3>3, <3>4
  <2>5. told[k].outcome = "cancelled" => Suspect(IdOf[k])
    BY DEF CancelInv
  <2> QED
    BY <2>1, <2>2, <2>3, <2>4, <2>5, CallerCases
<1>6. \A r : Suspect(r) => Suspect(r)'
  BY SuspectStays
<1> QED
  BY <1>1, <1>2, <1>3, <1>4, <1>5, <1>6 DEF CancelInv, Items, Line

-----------------------------------------------------------------------------
IInv == TypeOK /\ CallerInv /\ EntriesInv /\ LineInv /\ PaneInv /\ CancelInv

LEMMA InitHolds == Init => IInv
<1> SUFFICES ASSUME Init PROVE IInv
  OBVIOUS
<1>1. TypeOK
  BY TypesInit
<1>2. /\ Absent \notin Answers
      /\ \A r \in Requests : pending[r] = Absent
      /\ \A k \in Calls : caller[k] = "idle" /\ told[k] = Own(k, "nothing")
      /\ \A i \in Instances : /\ wire[i] = <<>> /\ outbound[i] = <<>>
                               /\ replies[i] = <<>>
                               /\ running[i] = {} /\ cancelled[i] = {}
      /\ started = {} /\ ended = {}
  BY InvocationAssumption DEF Init
<1>3. \A k \in Calls : told[k].call = k /\ told[k].outcome = "nothing"
  BY <1>2, OwnIsVerdict
<1>4. \A i \in Instances : Line(i) = <<>>
  <2>1. <<>> \in Seq(Payloads)
    OBVIOUS
  <2> QED
    BY <1>2, <2>1, ConcatEmptySeq DEF Line
<1>5. CallerInv /\ EntriesInv
  BY <1>2, <1>3 DEF CallerInv, EntriesInv, NoLostWakeup, EntriesAccountedFor
<1>6. LineInv
  BY <1>4, ItemsOfEmpty DEF LineInv
<1>7. PaneInv /\ CancelInv
  BY <1>2, <1>3, <1>4, ItemsOfEmpty DEF PaneInv, CancelInv
<1> QED
  BY <1>1, <1>5, <1>6, <1>7 DEF IInv

LEMMA Inductive == Spec => []IInv
<1>1. IInv /\ [Next]_vars => IInv'
  BY TypesStep, CallerStepHolds, EntriesStep, LineStep, PaneStepHolds, CancelStep
     DEF IInv
<1> QED
  BY InitHolds, <1>1, PTL DEF Spec

\* The types of the variables of the hub, the callers and the panes.
THEOREM TypeCorrect == Spec => []TypeOK
BY Inductive, PTL DEF IInv

\* A caller is told what happened to its own call, and no answer that is in
\* the table waits for a thread that nobody wakes, for any number of calls,
\* panes and late answers.
THEOREM AnswersReachTheirCalls == Spec => [](AnswerIsOwn /\ NoLostWakeup)
<1>1. IInv => AnswerIsOwn /\ NoLostWakeup
  <2> SUFFICES ASSUME IInv PROVE AnswerIsOwn
    BY DEF IInv, EntriesInv
  <2>1. \A k \in Calls : told[k].call \in Calls /\ IdOf[told[k].call] = IdOf[k]
    BY DEF IInv, EntriesInv, TypeOK, Verdicts
  <2> QED
    BY <2>1 DEF AnswerIsOwn, OwnId
<1> QED
  BY <1>1, Inductive, PTL

\* An answered call leaves nothing in the pending table.
THEOREM PendingAccounted == Spec => []EntriesAccountedFor
<1>1. IInv => EntriesAccountedFor
  BY DEF IInv, EntriesInv
<1> QED
  BY <1>1, Inductive, PTL

\* A cancel never hits a call that still waits, unless two calls share an id.
THEOREM CancelsAreTimed == Spec => []CancelHitsItsCall
<1>1. IInv => CancelHitsItsCall
  BY DEF IInv, CancelInv, CancelHitsItsCall, OwnId, Suspect
<1> QED
  BY <1>1, Inductive, PTL

LEMMA ConcatPlaces ==
  ASSUME NEW S, NEW w \in Seq(S), NEW o \in Seq(S)
  PROVE  /\ \A n \in DOMAIN w :
              /\ n \in Nat \ {0} /\ n <= Len(w)
              /\ n \in 1 .. Len(w \o o) /\ (w \o o)[n] = w[n]
         /\ \A n \in DOMAIN o :
              /\ n \in Nat \ {0}
              /\ Len(w) + n \in 1 .. Len(w \o o) /\ (w \o o)[Len(w) + n] = o[n]
<1>1. PICK s : s = w \o o
  OBVIOUS
<1>2. PICK a : a = Len(w)
  OBVIOUS
<1>3. PICK b : b = Len(o)
  OBVIOUS
<1>4. a \in Nat /\ b \in Nat /\ DOMAIN w = 1 .. a /\ DOMAIN o = 1 .. b
  BY <1>2, <1>3, LenProperties
<1>5. /\ Len(s) = a + b
      /\ \A n \in 1 .. a + b : s[n] = IF n <= a THEN w[n] ELSE o[n - a]
  BY <1>1, <1>2, <1>3, ConcatProperties
<1>6. \A n \in 1 .. a : n \in Nat \ {0} /\ n <= a /\ n \in 1 .. a + b /\ s[n] = w[n]
  BY ONLY <1>4, <1>5
<1>7. \A n \in 1 .. b :
        n \in Nat \ {0} /\ a + n \in 1 .. a + b /\ ~(a + n <= a) /\ a + n - a = n
  BY ONLY <1>4
<1>8. ASSUME NEW n \in 1 .. b
      PROVE  s[a + n] = o[n]
  <2>1. PICK m : m = a + n
    OBVIOUS
  <2>2. m \in 1 .. a + b /\ ~(m <= a) /\ m - a = n
    BY <1>4, <2>1
  <2>3. s[m] = o[m - a]
    BY <1>5, <2>2
  <2> QED
    BY <2>1, <2>2, <2>3
<1> QED
  BY ONLY <1>1, <1>2, <1>4, <1>5, <1>6, <1>7, <1>8

\* Where a payload that is underway stands in its line.
LEMMA UnderwayInLine ==
  ASSUME TypeOK, NEW k \in Calls, NEW x \in Underway(k)
  PROVE  LET n == IF x[1] = "outbound" THEN Len(wire[x[2]]) + x[3] ELSE x[3]
         IN /\ x = <<x[1], x[2], x[3]>> /\ x[2] \in Instances
            /\ x[1] \in {"outbound", "wire"}
            /\ x[3] \in Nat \ {0} /\ Len(wire[x[2]]) \in Nat
            /\ x[1] = "wire" => x[3] <= Len(wire[x[2]])
            /\ n \in 1 .. Len(Line(x[2]))
            /\ Line(x[2])[n] = [kind |-> "invoke", call |-> k]
<1> DEFINE i == x[2]
           p == [kind |-> "invoke", call |-> k]
<1>1. /\ x = <<x[1], x[2], x[3]>> /\ i \in Instances
      /\ x[1] \in {"outbound", "wire"}
  BY DEF Underway
<1>2. x[3] \in DOMAIN (IF x[1] = "outbound" THEN outbound[i] ELSE wire[i])
        /\ (IF x[1] = "outbound" THEN outbound[i] ELSE wire[i])[x[3]] = p
  BY DEF Underway
<1>3. wire[i] \in Seq(Payloads) /\ outbound[i] \in Seq(Payloads)
  BY <1>1 DEF TypeOK
<1>4. Len(wire[i]) \in Nat
  BY <1>3, LenProperties
<1> HIDE DEF i, p
<1>5. /\ \A n \in DOMAIN wire[i] :
           /\ n \in Nat \ {0} /\ n <= Len(wire[i])
           /\ n \in 1 .. Len(Line(i)) /\ Line(i)[n] = wire[i][n]
      /\ \A n \in DOMAIN outbound[i] :
           /\ n \in Nat \ {0}
           /\ Len(wire[i]) + n \in 1 .. Len(Line(i))
           /\ Line(i)[Len(wire[i]) + n] = outbound[i][n]
  <2>1. PICK w \in Seq(Payloads) : w = wire[i]
    BY <1>3
  <2>2. PICK o \in Seq(Payloads) : o = outbound[i]
    BY <1>3
  <2>3. /\ \A n \in DOMAIN w :
             /\ n \in Nat \ {0} /\ n <= Len(w)
             /\ n \in 1 .. Len(w \o o) /\ (w \o o)[n] = w[n]
        /\ \A n \in DOMAIN o :
             /\ n \in Nat \ {0}
             /\ Len(w) + n \in 1 .. Len(w \o o) /\ (w \o o)[Len(w) + n] = o[n]
    BY ConcatPlaces
  <2> QED
    BY ONLY <2>1, <2>2, <2>3 DEF Line
<1>6. CASE x[1] = "outbound"
  <2>1. x[3] \in DOMAIN outbound[i] /\ outbound[i][x[3]] = p
    BY <1>2, <1>6
  <2>2. /\ x[3] \in Nat \ {0}
        /\ Len(wire[i]) + x[3] \in 1 .. Len(Line(i))
        /\ Line(i)[Len(wire[i]) + x[3]] = p
    BY ONLY <1>5, <2>1
  <2> QED
    BY <1>1, <1>4, <1>6, <2>2 DEF i, p
<1>7. CASE x[1] = "wire"
  <2>1. x[3] \in DOMAIN wire[i] /\ wire[i][x[3]] = p
    BY <1>2, <1>7
  <2>2. /\ x[3] \in Nat \ {0} /\ x[3] <= Len(wire[i])
        /\ x[3] \in 1 .. Len(Line(i))
        /\ Line(i)[x[3]] = p
    BY ONLY <1>5, <2>1
  <2> QED
    BY <1>1, <1>4, <1>7, <2>2 DEF i, p
<1> QED
  BY <1>1, <1>6, <1>7

LEMMA UnderwayOnce ==
  ASSUME IInv, NEW k \in Calls, NEW x \in Underway(k), NEW y \in Underway(k)
  PROVE  x = y /\ k \notin started
<1> USE DEF IInv
<1> DEFINE p == [kind |-> "invoke", call |-> k]
           place(z) == IF z[1] = "outbound" THEN Len(wire[z[2]]) + z[3] ELSE z[3]
<1>1. ASSUME NEW z \in Underway(k)
      PROVE  /\ z = <<z[1], z[2], z[3]>> /\ z[2] \in Instances
             /\ z[1] \in {"outbound", "wire"}
             /\ z[3] \in Nat \ {0} /\ Len(wire[z[2]]) \in Nat
             /\ z[1] = "wire" => z[3] <= Len(wire[z[2]])
             /\ place(z) \in 1 .. Len(Line(z[2]))
             /\ Line(z[2])[place(z)] = p
  BY UnderwayInLine
<1>2. p.kind = "invoke" /\ p.call = k
  OBVIOUS
<1>3. ASSUME NEW z \in Underway(k)
      PROVE  TargetOf[k] = z[2] /\ k \notin started
  <2> HIDE DEF p, place
  <2>1. p \in Items(Line(z[2])) /\ z[2] \in Instances
    BY <1>1 DEF Items
  <2> QED
    BY <1>2, <2>1 DEF LineInv, Fresh
<1>4. x[2] = y[2]
  BY <1>3
<1>5. place(x) = place(y)
  <2> HIDE DEF p, place
  <2>1. OnceIn(Line(x[2]))
    BY <1>1 DEF LineInv
  <2> QED
    BY <1>1, <1>2, <1>4, <2>1 DEF OnceIn
<1>6. x[1] = y[1] /\ x[3] = y[3]
  BY <1>1, <1>4, <1>5
<1> QED
  BY <1>1, <1>3, <1>4, <1>6

\* No tool runs twice for one call.
THEOREM NoToolRunsTwice == Spec => []StartedOnce
<1>1. IInv => StartedOnce
  <2> SUFFICES ASSUME IInv, NEW k \in Calls
               PROVE  /\ Cardinality(Underway(k)) <= 1
                      /\ k \in started => Underway(k) = {}
                      /\ \A i, j \in Instances : k \in running[i] \cap running[j] => i = j
    BY DEF StartedOnce
  <2>1. Underway(k) = {} \/ \E x : Underway(k) = {x}
    BY UnderwayOnce
  <2>2. Cardinality(Underway(k)) <= 1
    BY <2>1, FS_EmptySet, FS_Singleton
  <2>3. k \in started => Underway(k) = {}
    BY UnderwayOnce
  <2>4. \A i, j \in Instances : k \in running[i] \cap running[j] => i = j
    BY DEF IInv, PaneInv
  <2> QED
    BY <2>2, <2>3, <2>4
<1> QED
  BY <1>1, Inductive, PTL

-----------------------------------------------------------------------------
\* The refinement

\* The variables of the contract, as KeepsContract substitutes them.
Made == {k \in OwnId : caller[k] # "idle" /\ told[k].outcome # "lost"}
Started == started \cap OwnId
Ended == ended \cap OwnId
VerdictOf(outcome) == CASE outcome = "nothing" -> "none"
                        [] outcome \in Outcomes -> "answered"
                        [] OTHER -> outcome
Verdict == [k \in OwnId |-> VerdictOf(told[k].outcome)]

LEMMA Spelled ==
  /\ VerdictOf("nothing") = "none"
  /\ VerdictOf("lost") = "lost" /\ VerdictOf("timeout") = "timeout"
  /\ \A outcome \in Outcomes : VerdictOf(outcome) = "answered"
BY DEF VerdictOf, Outcomes

\* A stutter of the contract, and its steps, in those variables.
LEMMA Stutters ==
  ASSUME UNCHANGED <<Made, Started, Ended, Verdict>>
  PROVE  UNCHANGED Contract!contractVars
BY DEF Made, Started, Ended, Verdict, VerdictOf, Contract!contractVars

LEMMA Steps ==
  ASSUME NEW k \in OwnId
  PROVE  /\ /\ k \notin Made /\ Verdict[k] = "none"
            /\ Made' = Made \cup {k} /\ UNCHANGED <<Started, Ended, Verdict>>
            => Contract!ContractNext
         /\ /\ k \notin Made /\ Verdict[k] = "none"
            /\ Verdict' = [Verdict EXCEPT ![k] = "lost"]
            /\ UNCHANGED <<Made, Started, Ended>>
            => Contract!ContractNext
         /\ /\ k \in Made /\ k \notin Started
            /\ Started' = Started \cup {k} /\ UNCHANGED <<Made, Ended, Verdict>>
            => Contract!ContractNext
         /\ /\ k \in Made /\ k \notin Started
            /\ Started' = Started \cup {k} /\ Ended' = Ended \cup {k}
            /\ UNCHANGED <<Made, Verdict>>
            => Contract!ContractNext
         /\ /\ k \in Started /\ k \notin Ended
            /\ Ended' = Ended \cup {k} /\ UNCHANGED <<Made, Started, Verdict>>
            => Contract!ContractNext
         /\ /\ k \in Ended /\ Verdict[k] = "none"
            /\ Verdict' = [Verdict EXCEPT ![k] = "answered"]
            /\ UNCHANGED <<Made, Started, Ended>>
            => Contract!ContractNext
         /\ /\ k \in Made /\ Verdict[k] = "none"
            /\ Verdict' = [Verdict EXCEPT ![k] = "timeout"]
            /\ UNCHANGED <<Made, Started, Ended>>
            => Contract!ContractNext
<1>1. ASSUME k \notin Made, Verdict[k] = "none", Made' = Made \cup {k},
             UNCHANGED <<Started, Ended, Verdict>>
      PROVE  Contract!Make(k)
  BY <1>1 DEF Made, Started, Ended, Verdict, VerdictOf, Contract!Make
<1>2. ASSUME k \notin Made, Verdict[k] = "none",
             Verdict' = [Verdict EXCEPT ![k] = "lost"], UNCHANGED <<Made, Started, Ended>>
      PROVE  Contract!Lose(k)
  BY <1>2 DEF Made, Started, Ended, Verdict, VerdictOf, Contract!Lose
<1>3. ASSUME k \in Made, k \notin Started, Started' = Started \cup {k},
             UNCHANGED <<Made, Ended, Verdict>>
      PROVE  Contract!Start(k)
  BY <1>3 DEF Made, Started, Ended, Verdict, VerdictOf, Contract!Start
<1>4. ASSUME k \in Made, k \notin Started, Started' = Started \cup {k},
             Ended' = Ended \cup {k}, UNCHANGED <<Made, Verdict>>
      PROVE  Contract!Refuse(k)
  BY <1>4 DEF Made, Started, Ended, Verdict, VerdictOf, Contract!Refuse
<1>5. ASSUME k \in Started, k \notin Ended, Ended' = Ended \cup {k},
             UNCHANGED <<Made, Started, Verdict>>
      PROVE  Contract!End(k)
  BY <1>5 DEF Made, Started, Ended, Verdict, VerdictOf, Contract!End
<1>6. ASSUME k \in Ended, Verdict[k] = "none",
             Verdict' = [Verdict EXCEPT ![k] = "answered"], UNCHANGED <<Made, Started, Ended>>
      PROVE  Contract!Answer(k)
  BY <1>6 DEF Made, Started, Ended, Verdict, VerdictOf, Contract!Answer
<1>7. ASSUME k \in Made, Verdict[k] = "none",
             Verdict' = [Verdict EXCEPT ![k] = "timeout"], UNCHANGED <<Made, Started, Ended>>
      PROVE  Contract!TimeOut(k)
  BY <1>7 DEF Made, Started, Ended, Verdict, VerdictOf, Contract!TimeOut
<1> QED
  BY <1>1, <1>2, <1>3, <1>4, <1>5, <1>6, <1>7 DEF Contract!ContractNext

\* Verdicts and made calls change with caller and told only.
LEMMA NothingSaid ==
  ASSUME UNCHANGED <<caller, told>>
  PROVE  UNCHANGED <<Made, Verdict>>
BY DEF Made, Verdict, OwnId

\* A call is told something: only its own verdict changes.
LEMMA Said ==
  ASSUME NEW k \in OwnId, UNCHANGED <<started, ended>>,
         \A j \in Calls \ {k} : told'[j] = told[j]
  PROVE  /\ UNCHANGED <<Started, Ended>>
         /\ Verdict' = [Verdict EXCEPT ![k] = VerdictOf(told'[k].outcome)]
BY DEF Started, Ended, Verdict, OwnId

LEMMA CallerImplements ==
  ASSUME IInv, NEW k \in Calls, CallerStep(k)
  PROVE  Contract!ContractNext \/ UNCHANGED Contract!contractVars
<1> USE DEF IInv
<1>0. started' = started /\ ended' = ended /\ OwnId \subseteq Calls
  BY DEF CallerStep, Wake, InvokeRefused, Invoke, DeadlinePasses, TakeAnswer,
         WaitAgain, GiveUp, WaitTimedOut, SendCancel, paneVars, OwnId
<1>1. /\ Started' = Started /\ Ended' = Ended
      /\ \A j \in OwnId : Verdict[j] = VerdictOf(told[j].outcome)
  BY <1>0 DEF Started, Ended, Verdict
<1>2. CASE UNCHANGED <<caller, told>>
  BY <1>1, <1>2, NothingSaid, Stutters
<1>3. CASE InvokeRefused(k)
  <2>1. Own(k, "lost") \in Verdicts /\ Own(k, "lost").outcome = "lost"
          /\ Own(k, "nothing").outcome = "nothing"
    BY OwnIsVerdict
  <2>2. /\ caller[k] = "idle" /\ caller'[k] = "done" /\ told'[k].outcome = "lost"
        /\ \A j \in Calls \ {k} : told'[j] = told[j] /\ caller'[j] = caller[j]
    BY <1>3, <2>1, Returned DEF InvokeRefused
  <2>3. told[k].outcome = "nothing"
    BY <2>1, <2>2 DEF CallerInv
  <2>4. Made' = Made /\ k \notin Made
    BY <1>0, <2>2 DEF Made
  <2>5. CASE k \in OwnId
    BY <1>0, <1>1, <2>2, <2>3, <2>4, <2>5, Said, Spelled, Steps
  <2>6. CASE k \notin OwnId
    <3>1. Verdict' = Verdict
      BY <1>0, <2>2, <2>6 DEF Verdict
    <3> QED
      BY <1>1, <2>4, <3>1, Stutters
  <2> QED
    BY <2>5, <2>6
<1>4. CASE Invoke(k)
  <2>1. /\ caller[k] = "idle" /\ caller'[k] = "waiting" /\ told' = told
        /\ \A j \in Calls \ {k} : caller'[j] = caller[j]
    BY <1>4 DEF Invoke, TypeOK
  <2>2. told[k].outcome = "nothing"
    BY <2>1, OwnIsVerdict DEF CallerInv
  <2>3. Verdict' = Verdict
    BY <2>1 DEF Verdict
  <2>4. CASE k \in OwnId
    <3>1. Made' = Made \cup {k} /\ k \notin Made
      BY <1>0, <2>1, <2>2, <2>4 DEF Made
    <3> QED
      BY <1>1, <2>2, <2>3, <2>4, <3>1, Spelled, Steps
  <2>5. CASE k \notin OwnId
    <3>1. Made' = Made
      BY <1>0, <2>1, <2>5 DEF Made
    <3> QED
      BY <1>1, <2>3, <3>1, Stutters
  <2> QED
    BY <2>4, <2>5
<1>5. CASE SendCancel(k)
  <2>1. told' = told /\ \A j \in Calls : caller'[j] # "idle" <=> caller[j] # "idle"
    BY <1>5 DEF SendCancel, TypeOK
  <2>2. Made' = Made /\ Verdict' = Verdict
    BY <1>0, <2>1 DEF Made, Verdict
  <2> QED
    BY <1>1, <2>2, Stutters
<1>6. CASE Finishes(k)
  <2>1. /\ caller[k] = "waiting" /\ told[k].outcome = "nothing"
    BY <1>6, FinishesWith, OwnIsVerdict DEF CallerInv
  <2>2. PICK what \in Verdicts :
          /\ Return(k, what)
          /\ what.outcome \in Outcomes \cup {"timeout"}
          /\ TakeAnswer(k) => what = pending[IdOf[k]]
          /\ ~TakeAnswer(k) => what = Own(k, "timeout")
    BY <1>6, FinishesWith
  <2>3. /\ told'[k] = what /\ caller'[k] \in {"cancelling", "done"}
        /\ \A j \in Calls \ {k} : told'[j] = told[j] /\ caller'[j] = caller[j]
    BY <2>2, Returned
  <2>4. Made' = Made /\ (k \in OwnId => k \in Made)
    <3>1. what.outcome # "lost"
      BY <2>2 DEF Outcomes
    <3> QED
      BY <1>0, <2>1, <2>3, <3>1 DEF Made
  <2>5. CASE k \notin OwnId
    <3>1. Verdict' = Verdict
      BY <1>0, <2>3, <2>5 DEF Verdict
    <3> QED
      BY <1>1, <2>4, <3>1, Stutters
  <2>6. CASE k \in OwnId /\ TakeAnswer(k)
    <3>1. /\ pending[IdOf[k]] \in Answers /\ IdOf[k] \in Requests
          /\ what = pending[IdOf[k]]
      BY <2>2, <2>6, InvocationAssumption DEF TakeAnswer
    <3>2. what.call \in Calls /\ IdOf[what.call] = IdOf[k] /\ what.call \in ended
            /\ what.outcome \in Outcomes
      BY <3>1 DEF EntriesInv, PaneInv, Answers
    <3>3. k \in Ended
      BY <2>6, <3>2 DEF OwnId, Ended
    <3>4. Verdict' = [Verdict EXCEPT ![k] = "answered"]
      BY <1>0, <2>3, <2>6, <3>2, Said, Spelled
    <3> QED
      BY <1>1, <2>1, <2>4, <2>6, <3>3, <3>4, Spelled, Steps
  <2>7. CASE k \in OwnId /\ ~TakeAnswer(k)
    <3>1. what.outcome = "timeout"
      BY <2>2, <2>7, OwnIsVerdict
    <3>2. Verdict' = [Verdict EXCEPT ![k] = "timeout"]
      BY <1>0, <2>3, <2>7, <3>1, Said, Spelled
    <3> QED
      BY <1>1, <2>1, <2>4, <2>7, <3>2, Spelled, Steps
  <2> QED
    BY <2>5, <2>6, <2>7
<1> QED
  BY <1>2, <1>3, <1>4, <1>5, <1>6
     DEF CallerStep, Wake, Finishes, DeadlinePasses, WaitAgain

LEMMA PaneImplements ==
  ASSUME IInv, NEW i \in Instances, PaneStep(i)
  PROVE  Contract!ContractNext \/ UNCHANGED Contract!contractVars
<1> USE DEF IInv
<1>1. Made' = Made /\ Verdict' = Verdict
  <2>1. UNCHANGED callVars
    BY DEF PaneStep, StartTool, RefuseTool, CancelTool, FinishTool
  <2> QED
    BY <2>1, NothingSaid DEF callVars
<1>2. CASE UNCHANGED <<started, ended>>
  BY <1>1, <1>2, Stutters DEF Started, Ended, OwnId
<1>3. CASE StartTool(i) \/ RefuseTool(i)
  <2> DEFINE k == Head(wire[i]).call
  <2>1. /\ k \in Calls /\ k \notin started
        /\ caller[k] # "idle" /\ told[k].outcome # "lost"
    BY <1>3, BeginsFresh DEF Fresh
  <2>2. started' = started \cup {k} /\ (ended' = ended \/ ended' = ended \cup {k})
    BY <1>3 DEF StartTool, RefuseTool
  <2> HIDE DEF k
  <2>3. CASE k \in OwnId
    <3>1. /\ k \in Made /\ k \notin Started /\ Started' = Started \cup {k}
          /\ Ended' = Ended \/ Ended' = Ended \cup {k}
      BY <2>1, <2>2, <2>3 DEF Made, Started, Ended, OwnId
    <3> QED
      BY <1>1, <2>3, <3>1, Steps
  <2>4. CASE k \notin OwnId
    <3>1. Started' = Started /\ Ended' = Ended
      BY <2>2, <2>4 DEF Started, Ended, OwnId
    <3> QED
      BY <1>1, <3>1, Stutters
  <2> QED
    BY <2>3, <2>4
<1>4. ASSUME NEW k \in Calls, NEW outcome \in Outcomes, FinishTool(i, k, outcome)
      PROVE  Contract!ContractNext \/ UNCHANGED Contract!contractVars
  <2>1. started' = started /\ ended' = ended \cup {k} /\ k \in running[i]
    BY <1>4 DEF FinishTool
  <2>2. k \in started /\ k \notin ended
    BY <2>1 DEF PaneInv
  <2>3. CASE k \in OwnId
    <3>1. k \in Started /\ k \notin Ended /\ Started' = Started /\ Ended' = Ended \cup {k}
      BY <2>1, <2>2, <2>3 DEF Started, Ended, OwnId
    <3> QED
      BY <1>1, <2>3, <3>1, Steps
  <2>4. CASE k \notin OwnId
    <3>1. Started' = Started /\ Ended' = Ended
      BY <2>1, <2>4 DEF Started, Ended, OwnId
    <3> QED
      BY <1>1, <3>1, Stutters
  <2> QED
    BY <2>3, <2>4
<1> QED
  BY <1>2, <1>3, <1>4 DEF PaneStep, CancelTool

LEMMA StepImplements ==
  ASSUME IInv, [Next]_vars
  PROVE  [Contract!ContractNext]_(Contract!contractVars)
<1>1. ASSUME UNCHANGED <<caller, told, started, ended>>
      PROVE  UNCHANGED Contract!contractVars
  BY <1>1, NothingSaid, Stutters DEF Started, Ended, OwnId
<1>2. ASSUME NEW i \in Instances, ConnectionStep(i)
      PROVE  UNCHANGED <<caller, told, started, ended>>
  BY <1>2 DEF ConnectionStep, Drain, Complete, Disconnect, Connect, callVars, paneVars
<1>3. CASE UNCHANGED vars
  BY <1>1, <1>3 DEF vars, callVars, paneVars
<1> QED
  BY <1>1, <1>2, <1>3, CallerImplements, PaneImplements DEF Next

\* The daemon keeps its contract with the maker of every call that has a
\* request id of its own: connection hub, connection threads and panes
\* implement ToolCallContract, for any number of each.
THEOREM ContractKept == Spec => KeepsContract
<1>1. Init => Contract!ContractInit
  <2> SUFFICES ASSUME Init PROVE Contract!ContractInit
    OBVIOUS
  <2>1. \A k \in Calls : caller[k] = "idle" /\ told[k].outcome = "nothing"
    BY OwnIsVerdict DEF Init
  <2> QED
    <3>1. Made = {} /\ Started = {} /\ Ended = {}
      BY <2>1 DEF Made, Started, Ended, Init, OwnId
    <3>2. Verdict = [k \in OwnId |-> "none"]
      BY <2>1, Spelled DEF Verdict, OwnId
    <3> QED
      BY <3>1, <3>2 DEF Contract!ContractInit, Made, Started, Ended, Verdict, VerdictOf
<1>2. IInv /\ [Next]_vars => [Contract!ContractNext]_(Contract!contractVars)
  BY StepImplements
<1> QED
  BY <1>1, <1>2, Inductive, PTL DEF Spec, KeepsContract, Contract!ContractSpec
=============================================================================
