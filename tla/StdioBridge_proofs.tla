-------------------------- MODULE StdioBridge_proofs --------------------------
(***************************************************************************)
(* Proofs about StdioBridge, for any programs, sources, budgets and bounds.*)
(***************************************************************************)
EXTENDS StdioBridge, TLAPS

-----------------------------------------------------------------------------
(* Sessions *)

Real(t) == t.id # NoSession

\* The sessions a program holds or is just being told.
Tokens(c) == {program[c].session, SessionOf(answer[c])}

\* A session is of this life of the daemon or an earlier one; those of this
\* life were numbered already; and no two programs have the same.
TokensInv ==
  /\ life \in Nat \ {0}
  /\ nextSession \in Nat \ {0}
  /\ DOMAIN program = Clients /\ DOMAIN answer = Clients
  /\ \A c \in Clients : program[c].session = None \/ Real(program[c].session)
  /\ \A c \in Clients : \A t \in Tokens(c) : Real(t) =>
       /\ t.life \in 0 .. life
       /\ up /\ t.life = life => t.id \in 1 .. nextSession - 1
  /\ \A c, d \in Clients : c # d => \A t \in Tokens(c) \cap Tokens(d) : ~Real(t)

\* A step that gives no program a session it did not have.
LEMMA NothingNew ==
  ASSUME TokensInv,
         \/ UNCHANGED <<up, life, nextSession>>
         \/ ~up' /\ UNCHANGED life /\ nextSession' = 1
         \/ ~up /\ up' /\ life' = life + 1 /\ UNCHANGED nextSession,
         DOMAIN program' = Clients, DOMAIN answer' = Clients,
         \A c \in Clients : program'[c].session \in Tokens(c) \cup {None},
         \A c \in Clients :
           program'[c].session = None \/ Real(program'[c].session),
         \A c \in Clients : Real(SessionOf(answer'[c])) =>
           SessionOf(answer'[c]) = SessionOf(answer[c])
  PROVE  TokensInv'
<1>1. ~Real(None)
  BY DEF Real, None
<1>2. \A c \in Clients : \A t \in Tokens(c)' : Real(t) => t \in Tokens(c)
  BY <1>1 DEF Tokens, SessionOf
<1>3. life' \in Nat \ {0} /\ nextSession' \in Nat \ {0} /\ life <= life'
  BY DEF TokensInv
<1>4. ASSUME NEW c \in Clients, NEW t \in Tokens(c)', Real(t)
      PROVE  /\ t.life \in 0 .. life'
             /\ up' /\ t.life = life' => t.id \in 1 .. nextSession' - 1
  <2>1. /\ t.life \in 0 .. life
        /\ up /\ t.life = life => t.id \in 1 .. nextSession - 1
    BY <1>2, <1>4 DEF TokensInv
  <2> QED
    BY <2>1 DEF TokensInv
<1>5. \A c, d \in Clients : c # d => \A t \in Tokens(c)' \cap Tokens(d)' : ~Real(t)
  BY <1>2 DEF TokensInv
<1> QED
  BY <1>3, <1>4, <1>5 DEF TokensInv

\* Answers take nothing but the session of their answer.
LEMMA AnswerGives ==
  ASSUME TokensInv, NEW c \in Clients, NEW status, NEW id, Answer(c, status, id)
  PROVE  /\ DOMAIN answer' = Clients
         /\ SessionOf(answer'[c]) = [id |-> id, life |-> life]
         /\ \A d \in Clients \ {c} : answer'[d] = answer[d]
         /\ UNCHANGED <<up, life>>
  BY DEF Answer, Answered, SessionOf, TokensInv, daemonVars

\* Serving a request gives no session but a new one.
LEMMA ServeKeepsTokens ==
  ASSUME TokensInv, NEW c \in Clients, DaemonStep(c)
  PROVE  TokensInv'
<1> USE DEF DaemonStep
<1>1. ASSUME NEW status, Answer(c, status, NoSession), UNCHANGED nextSession
      PROVE  TokensInv'
  <2>0. SessionOf(answer'[c]) = [id |-> NoSession, life |-> life]
    BY <1>1, AnswerGives
  <2>1. ~Real(SessionOf(answer'[c]))
    BY <2>0 DEF Real
  <2> QED
    BY <1>1, <2>1, AnswerGives, NothingNew DEF TokensInv, Tokens
<1>2. CASE DropOversized(c)
  <2>1. /\ DOMAIN answer' = Clients /\ ~Real(SessionOf(answer'[c]))
        /\ \A d \in Clients \ {c} : answer'[d] = answer[d]
        /\ UNCHANGED <<up, life, nextSession>>
    BY <1>2 DEF DropOversized, Answered, SessionOf, Closed, Real, TokensInv,
                daemonVars, frontendVars
  <2> QED
    BY <2>1, NothingNew DEF TokensInv, Tokens
<1>3. CASE OpenSession(c)
  <2> DEFINE new == [id |-> nextSession, life |-> life]
  <2>1. /\ DOMAIN answer' = Clients
        /\ SessionOf(answer'[c]) = new
        /\ \A d \in Clients \ {c} : answer'[d] = answer[d]
        /\ UNCHANGED <<up, life, program>>
        /\ nextSession' = nextSession + 1
        /\ up
    BY <1>3, AnswerGives DEF OpenSession, Serve
  <2>2. \A d \in Clients : new \notin Tokens(d)
    <3>1. SUFFICES ASSUME NEW d \in Clients, new \in Tokens(d) PROVE FALSE
      OBVIOUS
    <3>2. Real(new)
      BY DEF Real, TokensInv, NoSession
    <3>3. new.id \in 1 .. nextSession - 1
      BY <2>1, <3>1, <3>2 DEF TokensInv
    <3> QED
      BY <3>3 DEF TokensInv
  <2>3. \A d \in Clients \ {c} : Tokens(d)' = Tokens(d)
    BY <2>1 DEF Tokens
  <2>4. Tokens(c)' \subseteq Tokens(c) \cup {new}
    BY <2>1 DEF Tokens
  <2>5. ASSUME NEW d \in Clients, NEW t \in Tokens(d)', Real(t)
        PROVE  /\ t.life \in 0 .. life'
               /\ up' /\ t.life = life' => t.id \in 1 .. nextSession' - 1
    <3>1. CASE t = new
      BY <2>1, <3>1 DEF TokensInv
    <3>2. CASE t \in Tokens(d)
      <4>1. /\ t.life \in 0 .. life
            /\ up /\ t.life = life => t.id \in 1 .. nextSession - 1
        BY <2>5, <3>2 DEF TokensInv
      <4> QED
        BY <2>1, <4>1 DEF TokensInv
    <3> QED
      BY <2>3, <2>4, <3>1, <3>2, <2>5
  <2>6. ASSUME NEW d \in Clients, NEW e \in Clients, d # e,
               NEW t \in Tokens(d)' \cap Tokens(e)'
        PROVE  ~Real(t)
    <3>1. t \in Tokens(d) \cup {new} /\ t \in Tokens(e) \cup {new}
      BY <2>3, <2>4
    <3>2. CASE t = new
      BY <2>2, <2>3, <2>6, <3>2
    <3>3. CASE t # new
      BY <2>6, <3>1, <3>3 DEF TokensInv
    <3> QED
      BY <3>2, <3>3
  <2>7. nextSession' \in Nat \ {0}
    BY <2>1 DEF TokensInv
  <2> HIDE DEF new
  <2> QED
    BY <2>1, <2>5, <2>6, <2>7 DEF TokensInv
<1>4. CASE \/ AnswerPath(c) \/ RefuseOrigin(c) \/ RefuseRate(c)
           \/ RefuseNoSession(c) \/ RefuseUnknownSession(c) \/ Forward(c)
           \/ RefuseSessionRequest(c) \/ RefuseMethod(c)
  BY <1>1, <1>4 DEF AnswerPath, RefuseOrigin, RefuseRate, RefuseNoSession,
                    RefuseUnknownSession, Forward, RefuseSessionRequest,
                    RefuseMethod, frontendVars
<1> QED
  BY <1>2, <1>3, <1>4 DEF Serve

LEMMA ProgramsKeepTokens ==
  ASSUME TokensInv, NEW c \in Clients,
         \/ c \in Bridges /\ BridgeStep(c)
         \/ c \in Commands /\ CommandStep(c)
         \/ c \in HttpClients /\ HttpStep(c)
  PROVE  TokensInv'
<1> USE DEF daemonVars, frontendVars
<1>n. ~Real(None) /\ ~Real(SessionOf(NoAnswer))
  BY DEF Real, None, NoAnswer, SessionOf
\* It keeps its session, takes that of its answer, or has none; and its answer
\* stays or is gone.
<1>1. ASSUME NEW new, program' = [program EXCEPT ![c] = new],
             new.session \in Tokens(c) \cup {None},
             new.session = None \/ Real(new.session),
             UNCHANGED <<up, life, nextSession>>,
             answer' = answer \/ answer' = [answer EXCEPT ![c] = NoAnswer]
      PROVE  TokensInv'
  <2>1. /\ DOMAIN program' = Clients /\ DOMAIN answer' = Clients
        /\ program'[c].session = new.session
        /\ \A d \in Clients \ {c} : program'[d] = program[d]
        /\ \A d \in Clients : Real(SessionOf(answer'[d])) =>
             SessionOf(answer'[d]) = SessionOf(answer[d])
    BY <1>1, <1>n DEF TokensInv
  <2>2. \A d \in Clients : program'[d].session \in Tokens(d) \cup {None}
    BY <1>1, <2>1 DEF Tokens
  <2>3. \A d \in Clients : program'[d].session = None \/ Real(program'[d].session)
    BY <1>1, <2>1 DEF TokensInv
  <2> QED
    BY <1>1, <2>1, <2>2, <2>3, NothingNew
\* The same for a step that only changes what the program is at.
<1>2. ASSUME NEW at, program' = [program EXCEPT ![c].at = at],
             UNCHANGED <<up, life, nextSession>>,
             answer' = answer \/ answer' = [answer EXCEPT ![c] = NoAnswer]
      PROVE  TokensInv'
  <2>1. /\ DOMAIN program' = Clients /\ DOMAIN answer' = Clients
        /\ \A d \in Clients : program'[d].session = program[d].session
        /\ \A d \in Clients : Real(SessionOf(answer'[d])) =>
             SessionOf(answer'[d]) = SessionOf(answer[d])
    BY <1>2, <1>n DEF TokensInv
  <2>2. \A d \in Clients : program'[d].session \in Tokens(d) \cup {None}
    BY <2>1 DEF Tokens
  <2>3. \A d \in Clients : program'[d].session = None \/ Real(program'[d].session)
    BY <2>1 DEF TokensInv
  <2> QED
    BY <1>2, <2>1, <2>2, <2>3, NothingNew
<1>f. Fresh.session = None
  BY DEF Fresh, Program
<1>s. program[c].session \in Tokens(c)
      /\ (program[c].session = None \/ Real(program[c].session))
      /\ SessionOf(answer[c]) \in Tokens(c)
      /\ (answer[c].session # NoSession => Real(SessionOf(answer[c])))
  BY DEF Tokens, TokensInv, Real, SessionOf
<1>3. CASE ForwardMessage(c)
  <2>1. PICK m \in Messages, size \in {"fits", "over"} :
          /\ Sends(c, [Post(program[c].session.id, m) EXCEPT !.size = size])
          /\ program' = [program EXCEPT ![c] = Program("waiting", @.session, m)]
    BY <1>3 DEF ForwardMessage
  <2> DEFINE new == Program("waiting", program[c].session, m)
  <2>2. program' = [program EXCEPT ![c] = new] /\ new.session = program[c].session
    BY <2>1 DEF Program
  <2>3. UNCHANGED <<up, life, nextSession, answer>>
    BY <2>1 DEF Sends
  <2> HIDE DEF new
  <2> QED
    BY <1>1, <1>s, <2>2, <2>3
<1>4. CASE ConnectFails(c) \/ End(c) \/ EndOfInput(c)
  <2>1. program' = [program EXCEPT ![c].at = "ended"]
    BY <1>4 DEF ConnectFails, End, EndOfInput
  <2>2. /\ UNCHANGED <<up, life, nextSession>>
        /\ answer' = answer \/ answer' = [answer EXCEPT ![c] = NoAnswer]
    BY <1>4 DEF ConnectFails, End, EndOfInput, Takes
  <2> QED
    BY <1>2, <2>1, <2>2
<1>5. CASE PassOn(c)
  <2> DEFINE new == Program("idle", Taken(program[c], answer[c]), "none")
  <2>1. program' = [program EXCEPT ![c] = new]
    BY <1>5 DEF PassOn
  <2>2. new.session = Taken(program[c], answer[c])
    BY DEF Program
  <2>3. /\ UNCHANGED <<up, life, nextSession>>
        /\ answer' = answer \/ answer' = [answer EXCEPT ![c] = NoAnswer]
    BY <1>5 DEF PassOn, Takes
  <2>4. /\ new.session \in Tokens(c) \cup {None}
        /\ new.session = None \/ Real(new.session)
    BY <1>s, <2>2 DEF Taken
  <2> HIDE DEF new
  <2> QED
    BY <1>1, <2>1, <2>3, <2>4
<1>6. CASE StartAgain(c) \/ Exit(c)
  <2>1. program' = [program EXCEPT ![c] = Fresh]
    BY <1>6 DEF StartAgain, Exit
  <2>2. /\ UNCHANGED <<up, life, nextSession>>
        /\ answer' = answer \/ answer' = [answer EXCEPT ![c] = NoAnswer]
    BY <1>6 DEF StartAgain, Exit, Takes
  <2> QED
    BY <1>1, <1>f, <2>1, <2>2
<1>7. CASE Run(c)
  <2>1. program' = [program EXCEPT ![c].at = "initializing"]
        /\ UNCHANGED <<up, life, nextSession, answer>>
    BY <1>7 DEF Run, Sends
  <2> QED
    BY <1>2, <2>1
<1>8. CASE ListSessions(c)
  <2> DEFINE new == Program("listing", SessionOf(answer[c]), "none")
  <2>1. program' = [program EXCEPT ![c] = new] /\ new.session = SessionOf(answer[c])
    BY <1>8 DEF ListSessions, Program
  <2>2. /\ UNCHANGED <<up, life, nextSession>>
        /\ answer' = [answer EXCEPT ![c] = NoAnswer]
        /\ answer[c].session # NoSession
    BY <1>8 DEF ListSessions
  <2> HIDE DEF new
  <2> QED
    BY <1>1, <1>s, <2>1, <2>2
<1>9. CASE Call(c)
  <2>1. program' = [program EXCEPT ![c].at = "waiting"]
        /\ UNCHANGED <<up, life, nextSession, answer>>
    BY <1>9 DEF Call, Sends
  <2> QED
    BY <1>2, <2>1
<1>10. CASE Finish(c)
  <2>1. UNCHANGED <<up, life, nextSession, answer, program>>
    BY <1>10 DEF Finish
  <2> QED
    BY <2>1, NothingNew DEF TokensInv, Tokens
<1>11. CASE Hear(c)
  <2> DEFINE session == CASE answer[c].session # NoSession -> SessionOf(answer[c])
                          [] answer[c].status = 404 -> None
                          [] OTHER -> program[c].session
             new == Program("idle", session, "none")
  <2>1. program' = [program EXCEPT ![c] = new] /\ new.session = session
    BY <1>11 DEF Hear, Program
  <2>2. /\ UNCHANGED <<up, life, nextSession>>
        /\ answer' = [answer EXCEPT ![c] = NoAnswer]
    BY <1>11 DEF Hear, Takes
  <2>3. session \in Tokens(c) \cup {None} /\ (session = None \/ Real(session))
    BY <1>s
  <2> HIDE DEF session, new
  <2> QED
    BY <1>1, <2>1, <2>2, <2>3
<1> QED
  BY <1>3, <1>4, <1>5, <1>6, <1>7, <1>8, <1>9, <1>10, <1>11
     DEF BridgeStep, CommandStep, HttpStep

LEMMA PassKeepsTokens ==
  ASSUME TokensInv, Pass
  PROVE  TokensInv'
<1> USE DEF Pass, daemonVars, frontendVars
<1>1. CASE Stop
  <2>1. /\ ~up' /\ UNCHANGED <<life, program>> /\ nextSession' = 1
        /\ answer' = [c \in Clients |->
                        IF wire[c] # NoRequest THEN Closed ELSE answer[c]]
    BY <1>1 DEF Stop, Forget, Empty
  <2>2. ~Real(SessionOf(Closed))
    BY DEF Real, SessionOf, Closed
  <2> QED
    BY <2>1, <2>2, NothingNew DEF TokensInv, Tokens
<1>2. CASE Start
  <2>1. ~up /\ up' /\ life' = life + 1 /\ UNCHANGED <<nextSession, answer, program>>
    BY <1>2 DEF Start
  <2> QED
    BY <2>1, NothingNew DEF TokensInv, Tokens
<1>3. CASE Tick
  <2>1. UNCHANGED <<up, life, nextSession, answer, program>>
    BY <1>3 DEF Tick
  <2> QED
    BY <2>1, NothingNew DEF TokensInv, Tokens
<1> QED
  BY <1>1, <1>2, <1>3

LEMMA TokensStart == Init => TokensInv
<1> SUFFICES ASSUME Init PROVE TokensInv
  OBVIOUS
<1>1. /\ life = 1 /\ nextSession = 1
      /\ program = [c \in Clients |-> Fresh] /\ answer = [c \in Clients |-> NoAnswer]
  BY DEF Init, DaemonInit, Empty
<1>2. \A c \in Clients : program[c].session = None /\ SessionOf(answer[c]) = None
  BY <1>1 DEF Fresh, Program, SessionOf, NoAnswer, None
<1>3. ~Real(None)
  BY DEF Real, None
<1> QED
  BY <1>1, <1>2, <1>3 DEF TokensInv, Tokens

LEMMA TokensStep == TokensInv /\ [Next]_vars => TokensInv'
<1> SUFFICES ASSUME TokensInv, [Next]_vars PROVE TokensInv'
  OBVIOUS
<1>1. CASE UNCHANGED vars
  BY <1>1 DEF vars, TokensInv, Tokens
<1>2. CASE \E c \in Clients : DaemonStep(c)
  BY <1>2, ServeKeepsTokens
<1>3. CASE Pass
  BY <1>3, PassKeepsTokens
<1>4. Bridges \subseteq Clients /\ Commands \subseteq Clients /\ HttpClients \subseteq Clients
  BY ClientsAssumption
<1>5. CASE \/ \E b \in Bridges : BridgeStep(b)
           \/ \E k \in Commands : CommandStep(k)
           \/ \E h \in HttpClients : HttpStep(h)
  BY <1>4, <1>5, ProgramsKeepTokens
<1> QED
  BY <1>1, <1>2, <1>3, <1>5 DEF Next

\* However often the daemon is stopped and started, and numbers its sessions
\* from 1 again: no two programs hold the same session of one life.
THEOREM SessionsStayOwn == Spec => []SessionsAreOwn
<1>1. TokensInv => SessionsAreOwn
  BY DEF TokensInv, Tokens, SessionsAreOwn, Holds
<1> QED
  BY <1>1, TokensStart, TokensStep, PTL DEF Spec

-----------------------------------------------------------------------------
(* Connections *)

\* The clients in the queue are those with a request on their connection,
\* each once; whoever is answered or idle has none.
WireInv ==
  /\ queue \in Seq(Clients)
  /\ \A i, j \in 1 .. Len(queue) : queue[i] = queue[j] => i = j
  /\ \A i \in 1 .. Len(queue) : wire[queue[i]] # NoRequest
  /\ DOMAIN wire = Clients /\ DOMAIN answer = Clients /\ DOMAIN program = Clients
  /\ \A c \in Clients :
       /\ "at" \in DOMAIN program[c]
       /\ wire[c] # NoRequest => \E i \in 1 .. Len(queue) : queue[i] = c
       /\ wire[c] # NoRequest => "size" \in DOMAIN wire[c]
       /\ wire[c] = NoRequest \/ answer[c] = NoAnswer
       /\ program[c].at \in {"idle", "ended"} =>
            wire[c] = NoRequest /\ answer[c] = NoAnswer

\* A bridge's request is a post of its own session, and an initialize if it has
\* none; its answer is none that other requests get.
BridgeInv ==
  \A b \in Bridges :
    /\ program[b].at \in {"idle", "waiting", "ended"}
    /\ wire[b] # NoRequest =>
         /\ wire[b].path = "/mcp" /\ wire[b].origin = "none"
         /\ wire[b].method = "POST"
         /\ wire[b].session = program[b].session.id
         /\ program[b].session = None => wire[b].message = "initialize"
    /\ answer[b].status \in {0, 200, 404, 429, 999}
    /\ answer[b].status = 999 => answer[b] = Closed
    /\ answer[b].status = 404 => program[b].session.life < life

\* The daemon's sessions are those it numbered in this life.
NumberedInv == sessions = 1 .. nextSession - 1

\* What a bridge says of its end.
CauseInv == DOMAIN cause = Bridges /\ BridgeEndsForCause

LEMMA QueueTail ==
  ASSUME NEW q \in Seq(Clients), q # <<>>
  PROVE  /\ Tail(q) \in Seq(Clients) /\ Len(Tail(q)) = Len(q) - 1
         /\ Len(q) \in Nat \ {0} /\ Head(q) = q[1] /\ Head(q) \in Clients
         /\ \A i \in 1 .. Len(q) - 1 : Tail(q)[i] = q[i + 1]
  OBVIOUS

LEMMA QueueAppend ==
  ASSUME NEW q \in Seq(Clients), NEW c \in Clients
  PROVE  /\ Append(q, c) \in Seq(Clients) /\ Len(Append(q, c)) = Len(q) + 1
         /\ Len(q) \in Nat
         /\ \A i \in 1 .. Len(q) : Append(q, c)[i] = q[i]
         /\ Append(q, c)[Len(q) + 1] = c
  OBVIOUS

\* Whoever answers takes the first of the queue.
LEMMA AnsweredKeepsWire ==
  ASSUME WireInv, NEW c \in Clients, Current(c), NEW a, Answered(c, a),
         UNCHANGED program
  PROVE  WireInv' /\ wire[c] # NoRequest
<1>1. queue # <<>> /\ queue \in Seq(Clients) /\ c = queue[1]
  BY QueueTail DEF Current, WireInv
<1>2. /\ queue' \in Seq(Clients) /\ Len(queue') = Len(queue) - 1
      /\ Len(queue) \in Nat \ {0}
      /\ \A i \in 1 .. Len(queue) - 1 : queue'[i] = queue[i + 1]
  BY <1>1, QueueTail DEF Answered
<1>3. /\ DOMAIN wire' = Clients /\ DOMAIN answer' = Clients
      /\ wire'[c] = NoRequest /\ answer'[c] = a
      /\ \A d \in Clients \ {c} : wire'[d] = wire[d] /\ answer'[d] = answer[d]
  BY DEF Answered, WireInv
<1>4. wire[c] # NoRequest
  BY <1>1, <1>2 DEF WireInv
<1>5. \A i, j \in 1 .. Len(queue') : queue'[i] = queue'[j] => i = j
  <2>1. SUFFICES ASSUME NEW i \in 1 .. Len(queue'), NEW j \in 1 .. Len(queue'),
                        queue'[i] = queue'[j]
                 PROVE  i = j
    OBVIOUS
  <2>2. queue[i + 1] = queue[j + 1]
    BY <1>2, <2>1
  <2>3. i + 1 = j + 1
    BY <1>2, <2>2 DEF WireInv
  <2> QED
    BY <2>3
<1>6. \A i \in 1 .. Len(queue') : queue'[i] # c /\ wire'[queue'[i]] # NoRequest
  <2>1. SUFFICES ASSUME NEW i \in 1 .. Len(queue')
                 PROVE  queue'[i] # c /\ wire'[queue'[i]] # NoRequest
    OBVIOUS
  <2>2. i + 1 \in 1 .. Len(queue) /\ 1 \in 1 .. Len(queue) /\ i + 1 # 1
    BY <1>2
  <2>3. queue'[i] = queue[i + 1] /\ queue[i + 1] # queue[1]
    BY <1>2, <2>2 DEF WireInv
  <2>4. wire[queue[i + 1]] # NoRequest /\ queue[i + 1] \in Clients
    BY <2>2 DEF WireInv
  <2> QED
    BY <1>1, <1>3, <2>3, <2>4
<1>7. ASSUME NEW d \in Clients, wire'[d] # NoRequest
      PROVE  \E i \in 1 .. Len(queue') : queue'[i] = d
  <2>1. d # c /\ wire[d] # NoRequest
    BY <1>3, <1>7
  <2>2. PICK i \in 1 .. Len(queue) : queue[i] = d
    BY <2>1 DEF WireInv
  <2>3. i # 1
    BY <1>1, <2>1, <2>2
  <2>4. i - 1 \in 1 .. Len(queue') /\ queue'[i - 1] = queue[(i - 1) + 1]
    BY <1>2, <2>3
  <2> QED
    BY <2>2, <2>4
<1>8. program[c].at \notin {"idle", "ended"}
  BY <1>4 DEF WireInv
<1> QED
  BY <1>2, <1>3, <1>4, <1>5, <1>6, <1>7, <1>8 DEF WireInv

\* Whoever sends is put at the end of the queue.
LEMMA SentKeepsWire ==
  ASSUME WireInv, NEW c \in Clients, wire[c] = NoRequest, NEW r, "size" \in DOMAIN r,
         wire' = [wire EXCEPT ![c] = r], queue' = Append(queue, c),
         DOMAIN answer' = Clients, DOMAIN program' = Clients,
         answer'[c] = NoAnswer, program'[c].at \notin {"idle", "ended"},
         "at" \in DOMAIN program'[c],
         \A d \in Clients \ {c} : answer'[d] = answer[d] /\ program'[d] = program[d]
  PROVE  WireInv'
<1>0. r # NoRequest
  <2>1. "size" \notin DOMAIN NoRequest
    BY DEF NoRequest
  <2> QED
    BY <2>1
<1>1. /\ queue' \in Seq(Clients) /\ Len(queue') = Len(queue) + 1
      /\ Len(queue) \in Nat
      /\ \A i \in 1 .. Len(queue) : queue'[i] = queue[i]
      /\ queue'[Len(queue) + 1] = c
  BY QueueAppend DEF WireInv
<1>2. /\ DOMAIN wire' = Clients /\ wire'[c] = r
      /\ \A d \in Clients \ {c} : wire'[d] = wire[d]
  BY DEF WireInv
<1>3. \A i \in 1 .. Len(queue) : queue[i] # c /\ queue[i] \in Clients
  BY DEF WireInv
<1>4. \A i, j \in 1 .. Len(queue') : queue'[i] = queue'[j] => i = j
  BY <1>1, <1>3 DEF WireInv
<1>5. \A i \in 1 .. Len(queue') : wire'[queue'[i]] # NoRequest
  BY <1>0, <1>1, <1>2, <1>3 DEF WireInv
<1>6. ASSUME NEW d \in Clients, wire'[d] # NoRequest
      PROVE  \E i \in 1 .. Len(queue') : queue'[i] = d
  <2>1. CASE d = c
    BY <1>1, <2>1
  <2>2. CASE d # c
    <3>1. PICK i \in 1 .. Len(queue) : queue[i] = d
      BY <1>2, <1>6, <2>2 DEF WireInv
    <3>2. i \in 1 .. Len(queue') /\ queue'[i] = d
      BY <1>1, <3>1
    <3> QED
      BY <3>2
  <2> QED
    BY <2>1, <2>2
<1> QED
  BY <1>1, <1>2, <1>4, <1>5, <1>6 DEF WireInv

\* Whoever reads its answer, or ends without one, has no request.
LEMMA ReadKeepsWire ==
  ASSUME WireInv, NEW c \in Clients, UNCHANGED <<wire, queue>>,
         DOMAIN answer' = Clients, DOMAIN program' = Clients,
         answer'[c] \in {answer[c], NoAnswer}, "at" \in DOMAIN program'[c],
         program'[c].at \in {"idle", "ended"} =>
           wire[c] = NoRequest /\ answer'[c] = NoAnswer,
         \A d \in Clients \ {c} : answer'[d] = answer[d] /\ program'[d] = program[d]
  PROVE  WireInv'
  BY DEF WireInv

LEMMA WireStart == Init => WireInv
<1> SUFFICES ASSUME Init PROVE WireInv
  OBVIOUS
<1>1. /\ queue = <<>> /\ wire = [c \in Clients |-> NoRequest]
      /\ answer = [c \in Clients |-> NoAnswer] /\ program = [c \in Clients |-> Fresh]
  BY DEF Init, DaemonInit
<1>2. queue \in Seq(Clients) /\ Len(queue) = 0
  BY <1>1
<1>3. "at" \in DOMAIN Fresh
  BY DEF Fresh, Program
<1> QED
  BY <1>1, <1>2, <1>3 DEF WireInv

\* Everything the daemon does with a request ends in an answer.
LEMMA ServedIsAnswered ==
  ASSUME NEW c \in Clients, DaemonStep(c)
  PROVE  Current(c) /\ \E a : Answered(c, a) /\ UNCHANGED program
<1>1. Current(c)
  BY DEF DaemonStep, Serve, DropOversized, AnswerPath, RefuseOrigin, RefuseRate,
         OpenSession, RefuseNoSession, RefuseUnknownSession, Forward,
         RefuseSessionRequest, RefuseMethod, Judged, Admitted, Routed, Read
<1>2. \E a : Answered(c, a)
  BY DEF DaemonStep, Serve, DropOversized, AnswerPath, RefuseOrigin, RefuseRate,
         OpenSession, RefuseNoSession, RefuseUnknownSession, Forward,
         RefuseSessionRequest, RefuseMethod, Answer
<1> QED
  BY <1>1, <1>2 DEF DaemonStep

LEMMA PassKeepsWire ==
  ASSUME WireInv, Pass
  PROVE  WireInv'
<1>1. CASE Stop
  <2>1. /\ queue' = <<>> /\ UNCHANGED program
        /\ wire' = [c \in Clients |-> NoRequest]
        /\ answer' = [c \in Clients |->
                        IF wire[c] # NoRequest THEN Closed ELSE answer[c]]
    BY <1>1 DEF Pass, Stop, Forget
  <2>2. queue' \in Seq(Clients) /\ Len(queue') = 0
    BY <2>1
  <2> QED
    BY <2>1, <2>2 DEF WireInv
<1>2. CASE Start \/ Tick
  <2>1. UNCHANGED <<queue, wire, answer, program>>
    BY <1>2 DEF Pass, Start, Tick
  <2> QED
    BY <2>1 DEF WireInv
<1> QED
  BY <1>1, <1>2 DEF Pass

\* What the program a step belongs to does to its connection.
LEMMA ProgramsKeepWire ==
  ASSUME WireInv, NEW c \in Clients,
         BridgeStep(c) \/ CommandStep(c) \/ HttpStep(c)
  PROVE  /\ WireInv'
         /\ \A d \in Clients \ {c} :
              wire'[d] = wire[d] /\ answer'[d] = answer[d] /\ program'[d] = program[d]
<1>d. /\ DOMAIN wire = Clients /\ DOMAIN answer = Clients /\ DOMAIN program = Clients
      /\ answer[c] # NoAnswer => wire[c] = NoRequest
      /\ program[c].at \in {"idle", "ended"} => wire[c] = NoRequest /\ answer[c] = NoAnswer
  BY DEF WireInv
\* It sends.
<1>1. ASSUME NEW r, "size" \in DOMAIN r, wire' = [wire EXCEPT ![c] = r],
             queue' = Append(queue, c), wire[c] = NoRequest,
             \/ answer' = answer /\ answer[c] = NoAnswer
             \/ answer' = [answer EXCEPT ![c] = NoAnswer],
             NEW new, program' = [program EXCEPT ![c] = new],
             "at" \in DOMAIN new, new.at \notin {"idle", "ended"}
      PROVE  /\ WireInv'
             /\ \A d \in Clients \ {c} :
                  wire'[d] = wire[d] /\ answer'[d] = answer[d] /\ program'[d] = program[d]
  <2>1. /\ DOMAIN answer' = Clients /\ DOMAIN program' = Clients
        /\ answer'[c] = NoAnswer /\ program'[c].at \notin {"idle", "ended"}
        /\ "at" \in DOMAIN program'[c]
        /\ \A d \in Clients \ {c} :
             wire'[d] = wire[d] /\ answer'[d] = answer[d] /\ program'[d] = program[d]
    BY <1>1, <1>d
  <2>2. WireInv'
    BY <1>1, <2>1, SentKeepsWire
  <2> QED
    BY <2>1, <2>2
\* It reads its answer, or goes on without a request.
<1>2. ASSUME UNCHANGED <<wire, queue>>,
             answer' = answer \/ answer' = [answer EXCEPT ![c] = NoAnswer],
             NEW new, program' = [program EXCEPT ![c] = new],
             "at" \in DOMAIN new, wire[c] = NoRequest, answer'[c] = NoAnswer
      PROVE  /\ WireInv'
             /\ \A d \in Clients \ {c} :
                  wire'[d] = wire[d] /\ answer'[d] = answer[d] /\ program'[d] = program[d]
  <2>1. /\ DOMAIN answer' = Clients /\ DOMAIN program' = Clients
        /\ answer'[c] \in {answer[c], NoAnswer} /\ "at" \in DOMAIN program'[c]
        /\ \A d \in Clients \ {c} :
             wire'[d] = wire[d] /\ answer'[d] = answer[d] /\ program'[d] = program[d]
    BY <1>2, <1>d
  <2>2. WireInv'
    BY <1>2, <2>1, ReadKeepsWire
  <2> QED
    BY <2>1, <2>2
<1>3. CASE ForwardMessage(c)
  <2>1. PICK m \in Messages, size \in {"fits", "over"} :
          /\ Sends(c, [Post(program[c].session.id, m) EXCEPT !.size = size])
          /\ program' = [program EXCEPT ![c] = Program("waiting", @.session, m)]
    BY <1>3 DEF ForwardMessage
  <2> DEFINE r == [Post(program[c].session.id, m) EXCEPT !.size = size]
             new == Program("waiting", program[c].session, m)
  <2>2. "size" \in DOMAIN r
    BY DEF Post, Request
  <2>3. program' = [program EXCEPT ![c] = new] /\ new.at = "waiting" /\ "at" \in DOMAIN new
    BY <2>1 DEF Program
  <2>4. wire' = [wire EXCEPT ![c] = r] /\ queue' = Append(queue, c) /\ answer' = answer
    BY <2>1 DEF Sends
  <2>5. wire[c] = NoRequest /\ answer[c] = NoAnswer
    BY <1>3, <1>d DEF ForwardMessage
  <2> HIDE DEF r, new
  <2> QED
    BY <1>1, <2>2, <2>3, <2>4, <2>5
<1>4. CASE ConnectFails(c) \/ EndOfInput(c)
  <2>1. /\ program' = [program EXCEPT ![c] = [program[c] EXCEPT !.at = "ended"]]
        /\ UNCHANGED <<wire, queue, answer>>
    BY <1>4 DEF ConnectFails, EndOfInput
  <2>3. "at" \in DOMAIN [program[c] EXCEPT !.at = "ended"]
    BY DEF WireInv
  <2>2. wire[c] = NoRequest /\ answer[c] = NoAnswer
    BY <1>4, <1>d DEF ConnectFails, EndOfInput
  <2> QED
    BY <1>2, <2>1, <2>2, <2>3
<1>5. CASE StartAgain(c)
  <2>1. program' = [program EXCEPT ![c] = Fresh] /\ UNCHANGED <<wire, queue, answer>>
    BY <1>5 DEF StartAgain
  <2>2. wire[c] = NoRequest /\ answer[c] = NoAnswer
    BY <1>5, <1>d DEF StartAgain
  <2>3. "at" \in DOMAIN Fresh
    BY DEF Fresh, Program
  <2> QED
    BY <1>2, <2>1, <2>2, <2>3
<1>6. CASE PassOn(c) \/ End(c) \/ Exit(c) \/ Hear(c)
  <2>1. /\ answer[c] # NoAnswer /\ answer' = [answer EXCEPT ![c] = NoAnswer]
        /\ UNCHANGED <<wire, queue>>
    BY <1>6 DEF PassOn, End, Exit, Hear, Takes
  <2>2. \E new : program' = [program EXCEPT ![c] = new] /\ "at" \in DOMAIN new
    <3>0. \A at, t, m : "at" \in DOMAIN Program(at, t, m)
      BY DEF Program
    <3>1. CASE PassOn(c)
      <4>1. program' = [program EXCEPT ![c] =
                          Program("idle", Taken(program[c], answer[c]), "none")]
        BY <3>1 DEF PassOn
      <4> QED
        BY <3>0, <4>1
    <3>2. CASE End(c)
      <4>1. program' = [program EXCEPT ![c] = [program[c] EXCEPT !.at = "ended"]]
        BY <3>2 DEF End
      <4>2. "at" \in DOMAIN [program[c] EXCEPT !.at = "ended"]
        BY DEF WireInv
      <4> QED
        BY <4>1, <4>2
    <3>3. CASE Exit(c)
      <4>1. program' = [program EXCEPT ![c] = Program("idle", None, "none")]
        BY <3>3 DEF Exit, Fresh
      <4> QED
        BY <3>0, <4>1
    <3>4. CASE Hear(c)
      <4>1. PICK t : program' = [program EXCEPT ![c] = Program("idle", t, "none")]
        BY <3>4 DEF Hear
      <4> QED
        BY <3>0, <4>1
    <3> QED
      BY <1>6, <3>1, <3>2, <3>3, <3>4
  <2>3. wire[c] = NoRequest /\ answer'[c] = NoAnswer
    BY <2>1, <1>d
  <2> QED
    BY <1>2, <2>1, <2>2, <2>3
<1>7. CASE Run(c)
  <2> DEFINE r == Post(NoSession, "initialize")
             new == [program[c] EXCEPT !.at = "initializing"]
  <2>1. /\ program[c] = Fresh /\ program' = [program EXCEPT ![c] = new]
        /\ wire' = [wire EXCEPT ![c] = r] /\ queue' = Append(queue, c) /\ answer' = answer
    BY <1>7 DEF Run, Sends
  <2>2. "size" \in DOMAIN r
    BY DEF Post, Request
  <2>3. new.at = "initializing" /\ "at" \in DOMAIN new /\ wire[c] = NoRequest /\ answer[c] = NoAnswer
    BY <2>1, <1>d DEF Fresh, Program
  <2> HIDE DEF r, new
  <2> QED
    BY <1>1, <2>1, <2>2, <2>3
<1>8. CASE ListSessions(c)
  <2> DEFINE r == Post(answer[c].session, "list")
             new == Program("listing", SessionOf(answer[c]), "none")
  <2>1. /\ program' = [program EXCEPT ![c] = new] /\ answer[c].session # NoSession
        /\ wire' = [wire EXCEPT ![c] = r] /\ queue' = Append(queue, c)
        /\ answer' = [answer EXCEPT ![c] = NoAnswer]
    BY <1>8 DEF ListSessions
  <2>2. "size" \in DOMAIN r /\ new.at = "listing" /\ "at" \in DOMAIN new
    BY DEF Post, Request, Program
  <2>3. wire[c] = NoRequest
    BY <2>1, <1>d DEF NoAnswer
  <2> HIDE DEF r, new
  <2> QED
    BY <1>1, <2>1, <2>2, <2>3
<1>9. CASE Call(c)
  <2> DEFINE id == program[c].session.id
             new == [program[c] EXCEPT !.at = "waiting"]
  <2>1. PICK r \in OddRequests(id) \cup {Post(id, m) : m \in Messages} : Sends(c, r)
    BY <1>9 DEF Call
  <2>2. /\ wire' = [wire EXCEPT ![c] = r] /\ queue' = Append(queue, c) /\ answer' = answer
        /\ program[c].at = "idle" /\ program' = [program EXCEPT ![c] = new]
    BY <1>9, <2>1 DEF Call, Sends
  <2>3. "size" \in DOMAIN r
    BY <2>1 DEF OddRequests, RefusedRequests, Post, Request
  <2>4. wire[c] = NoRequest /\ answer[c] = NoAnswer
    BY <2>2, <1>d
  <2>5. new.at = "waiting" /\ "at" \in DOMAIN new
    BY DEF WireInv
  <2> HIDE DEF new
  <2> QED
    BY <1>1, <2>2, <2>3, <2>4, <2>5
<1>10. CASE Finish(c)
  <2> DEFINE r == [wire[c] EXCEPT !.size = "fits"]
  <2>1. /\ wire[c] # NoRequest /\ wire' = [wire EXCEPT ![c] = r]
        /\ UNCHANGED <<queue, answer, program>>
    BY <1>10 DEF Finish
  <2>2. "size" \in DOMAIN wire[c]
    BY <2>1 DEF WireInv
  <2>3. "size" \in DOMAIN r
    BY <2>2
  <2>4. r # NoRequest
    <3>1. "size" \notin DOMAIN NoRequest
      BY DEF NoRequest
    <3> HIDE DEF r
    <3> QED
      BY <2>3, <3>1
  <2> HIDE DEF r
  <2>5. \A d \in Clients : wire'[d] # NoRequest <=> wire[d] # NoRequest
    BY <1>d, <2>1, <2>4
  <2>6. \A d \in Clients : wire'[d] # NoRequest => "size" \in DOMAIN wire'[d]
    BY <1>d, <2>1, <2>3 DEF WireInv
  <2>7. DOMAIN wire' = Clients /\ \A d \in Clients \ {c} : wire'[d] = wire[d]
    BY <1>d, <2>1
  <2> QED
    BY <2>1, <2>5, <2>6, <2>7 DEF WireInv
<1> QED
  BY <1>3, <1>4, <1>5, <1>6, <1>7, <1>8, <1>9, <1>10
     DEF BridgeStep, CommandStep, HttpStep

-----------------------------------------------------------------------------
(* The ends of bridges *)

\* The daemon finds nothing wrong with a bridge's request but its size, its
\* rate, or a session of another life.
LEMMA ServeTreatsBridge ==
  ASSUME TokensInv, WireInv, BridgeInv, NumberedInv,
         NEW b \in Bridges, b \in Clients, DaemonStep(b)
  PROVE  /\ answer'[b].status \in {200, 404, 429, 999}
         /\ answer'[b].status = 999 => answer'[b] = Closed
         /\ answer'[b].status = 404 => program[b].session.life < life
<1>1. wire[b] # NoRequest
  BY ServedIsAnswered, AnsweredKeepsWire
<1>2. /\ wire[b].path = "/mcp" /\ wire[b].origin = "none"
      /\ wire[b].method = "POST"
      /\ wire[b].session = program[b].session.id
      /\ program[b].session = None => wire[b].message = "initialize"
  BY <1>1 DEF BridgeInv
<1>3. program[b].session = None \/ Real(program[b].session)
  BY DEF TokensInv
<1>4. \A status, id : Answer(b, status, id) => answer'[b].status = status
  BY DEF Answer, Answered, WireInv
<1>5. CASE DropOversized(b)
  BY <1>5 DEF DropOversized, Answered, WireInv, Closed
<1>6. CASE OpenSession(b) \/ Forward(b)
  BY <1>4, <1>6 DEF OpenSession, Forward
<1>7. CASE RefuseRate(b)
  BY <1>4, <1>7 DEF RefuseRate
<1>8. CASE RefuseUnknownSession(b)
  <2>1. /\ wire[b].session # NoSession /\ wire[b].session \notin sessions
        /\ answer'[b].status = 404 /\ up
    BY <1>4, <1>8 DEF RefuseUnknownSession, Known, DaemonStep, Serve
  <2>2. Real(program[b].session)
    BY <1>2, <2>1 DEF Real
  <2>3. program[b].session.life \in 0 .. life
        /\ (program[b].session.life = life =>
              program[b].session.id \in 1 .. nextSession - 1)
    BY <2>1, <2>2 DEF TokensInv, Tokens
  <2>4. program[b].session.life # life
    BY <1>2, <2>1, <2>3 DEF NumberedInv
  <2>5. program[b].session.life < life
    BY <2>3, <2>4 DEF TokensInv
  <2> QED
    BY <2>1, <2>5
<1>9. ~AnswerPath(b) /\ ~RefuseOrigin(b) /\ ~RefuseSessionRequest(b) /\ ~RefuseMethod(b)
  BY <1>2 DEF AnswerPath, RefuseOrigin, RefuseSessionRequest, RefuseMethod
<1>10. ~RefuseNoSession(b)
  <2>1. SUFFICES ASSUME RefuseNoSession(b) PROVE FALSE
    OBVIOUS
  <2>2. wire[b].session = NoSession /\ ~IsInitialize(wire[b].message)
    BY <2>1 DEF RefuseNoSession
  <2>3. program[b].session = None
    BY <1>2, <1>3, <2>2 DEF Real
  <2> QED
    BY <1>2, <2>2, <2>3 DEF IsInitialize
<1> QED
  BY <1>5, <1>6, <1>7, <1>8, <1>9, <1>10 DEF DaemonStep, Serve

LEMMA ServeKeepsBridges ==
  ASSUME TokensInv, WireInv, BridgeInv, NumberedInv, NEW c \in Clients, DaemonStep(c)
  PROVE  BridgeInv'
<1>1. /\ Current(c) /\ UNCHANGED <<life, program>>
      /\ wire'[c] = NoRequest
      /\ \A d \in Clients \ {c} : wire'[d] = wire[d] /\ answer'[d] = answer[d]
  BY ServedIsAnswered DEF Answered, WireInv, daemonVars, DaemonStep
<1>2. Bridges \subseteq Clients
  BY ClientsAssumption
<1>3. SUFFICES ASSUME NEW b \in Bridges
               PROVE  /\ program'[b].at \in {"idle", "waiting", "ended"}
                      /\ wire'[b] # NoRequest =>
                           /\ wire'[b].path = "/mcp" /\ wire'[b].origin = "none"
                           /\ wire'[b].method = "POST"
                           /\ wire'[b].session = program'[b].session.id
                           /\ program'[b].session = None => wire'[b].message = "initialize"
                      /\ answer'[b].status \in {0, 200, 404, 429, 999}
                      /\ answer'[b].status = 999 => answer'[b] = Closed
                      /\ answer'[b].status = 404 => program'[b].session.life < life'
  BY DEF BridgeInv
<1>4. CASE b = c
  BY <1>1, <1>2, <1>4, ServeTreatsBridge DEF BridgeInv
<1>5. CASE b # c
  BY <1>1, <1>2, <1>5 DEF BridgeInv
<1> QED
  BY <1>4, <1>5

LEMMA PassKeepsBridges ==
  ASSUME TokensInv, WireInv, BridgeInv, Pass
  PROVE  BridgeInv'
<1>1. Bridges \subseteq Clients
  BY ClientsAssumption
<1>2. CASE Stop
  <2>1. /\ UNCHANGED <<program, life>>
        /\ wire' = [c \in Clients |-> NoRequest]
        /\ answer' = [c \in Clients |->
                        IF wire[c] # NoRequest THEN Closed ELSE answer[c]]
    BY <1>2 DEF Pass, Stop, Forget
  <2>2. Closed.status = 999
    BY DEF Closed
  <2> QED
    BY <1>1, <2>1, <2>2 DEF BridgeInv
<1>3. CASE Start
  <2>1. UNCHANGED <<wire, answer, program>> /\ life' = life + 1
    BY <1>3 DEF Pass, Start
  <2>2. ASSUME NEW b \in Bridges, answer[b].status = 404
        PROVE  program[b].session.life < life'
    <3>1. program[b].session.life < life
      BY <2>2 DEF BridgeInv
    <3>2. program[b].session.life \in Int
      <4>1. program[b].session \in Tokens(b)
        BY DEF Tokens
      <4> QED
        BY <1>1, <4>1 DEF TokensInv, None
    <3> QED
      BY <2>1, <3>1, <3>2 DEF TokensInv
  <2> QED
    BY <2>1, <2>2 DEF BridgeInv
<1>4. CASE Tick
  <2>1. UNCHANGED <<wire, answer, program, life>>
    BY <1>4 DEF Pass, Tick, daemonVars
  <2> QED
    BY <2>1 DEF BridgeInv
<1> QED
  BY <1>2, <1>3, <1>4 DEF Pass

\* A bridge's own steps.
LEMMA BridgesKeepBridges ==
  ASSUME WireInv, BridgeInv, NEW b \in Bridges, b \in Clients, BridgeStep(b)
  PROVE  BridgeInv'
<1>d. DOMAIN wire = Clients /\ DOMAIN answer = Clients /\ DOMAIN program = Clients
  BY DEF WireInv
<1>l. UNCHANGED life
  BY DEF BridgeStep, ForwardMessage, Sends, ConnectFails, PassOn, End, Takes, EndOfInput,
         StartAgain, daemonVars
<1>o. \A d \in Clients \ {b} :
        wire'[d] = wire[d] /\ answer'[d] = answer[d] /\ program'[d] = program[d]
  BY ProgramsKeepWire
<1>b. Bridges \subseteq Clients
  BY ClientsAssumption
<1>1. ASSUME program'[b].at \in {"idle", "waiting", "ended"},
             answer'[b].status = 0,
             wire'[b] # NoRequest =>
               /\ wire'[b].path = "/mcp" /\ wire'[b].origin = "none"
               /\ wire'[b].method = "POST"
               /\ wire'[b].session = program'[b].session.id
               /\ program'[b].session = None => wire'[b].message = "initialize"
      PROVE  BridgeInv'
  <2>1. ASSUME NEW d \in Bridges
        PROVE  /\ program'[d].at \in {"idle", "waiting", "ended"}
               /\ wire'[d] # NoRequest =>
                    /\ wire'[d].path = "/mcp" /\ wire'[d].origin = "none"
                    /\ wire'[d].method = "POST"
                    /\ wire'[d].session = program'[d].session.id
                    /\ program'[d].session = None => wire'[d].message = "initialize"
               /\ answer'[d].status \in {0, 200, 404, 429, 999}
               /\ answer'[d].status = 999 => answer'[d] = Closed
               /\ answer'[d].status = 404 => program'[d].session.life < life'
    <3>1. CASE d = b
      BY <1>1, <3>1
    <3>2. CASE d # b
      BY <1>l, <1>o, <1>b, <3>2 DEF BridgeInv
    <3> QED
      BY <3>1, <3>2
  <2> QED
    BY <2>1 DEF BridgeInv
<1>n. NoAnswer.status = 0
  BY DEF NoAnswer
<1>2. CASE ForwardMessage(b)
  <2>1. PICK m \in Messages, size \in {"fits", "over"} :
          /\ program[b].session = None => m = "initialize"
          /\ Sends(b, [Post(program[b].session.id, m) EXCEPT !.size = size])
          /\ program' = [program EXCEPT ![b] = Program("waiting", @.session, m)]
    BY <1>2 DEF ForwardMessage
  <2> DEFINE r == [Post(program[b].session.id, m) EXCEPT !.size = size]
  <2>2. /\ r.path = "/mcp" /\ r.origin = "none" /\ r.method = "POST"
        /\ r.session = program[b].session.id /\ r.message = m
    BY DEF Post, Request
  <2> HIDE DEF r
  <2>3. /\ wire' = [wire EXCEPT ![b] = r] /\ UNCHANGED answer
        /\ program[b].at = "idle"
    BY <1>2, <2>1 DEF Sends, ForwardMessage, r
  <2>4. program'[b].at = "waiting" /\ program'[b].session = program[b].session
    BY <1>d, <2>1 DEF Program
  <2>5. wire'[b] = r /\ answer'[b] = NoAnswer
    BY <1>d, <2>3 DEF WireInv
  <2> QED
    BY <1>1, <1>n, <2>1, <2>2, <2>4, <2>5
<1>3. CASE ConnectFails(b) \/ EndOfInput(b) \/ StartAgain(b)
  <2>1. UNCHANGED <<wire, answer>> /\ program[b].at \in {"idle", "ended"}
    BY <1>3 DEF ConnectFails, EndOfInput, StartAgain
  <2>2. wire'[b] = NoRequest /\ answer'[b] = NoAnswer
    BY <2>1 DEF WireInv
  <2>a. "at" \in DOMAIN program[b]
    BY DEF WireInv
  <2>3. program'[b].at \in {"idle", "ended"}
    <3>1. CASE ConnectFails(b) \/ EndOfInput(b)
      <4>1. program'[b] = [program[b] EXCEPT !.at = "ended"]
        BY <1>d, <3>1 DEF ConnectFails, EndOfInput
      <4> QED
        BY <2>a, <4>1
    <3>2. CASE StartAgain(b)
      BY <1>d, <3>2 DEF StartAgain, Fresh, Program
    <3> QED
      BY <1>3, <3>1, <3>2
  <2> QED
    BY <1>1, <1>n, <2>2, <2>3
<1>4. CASE PassOn(b) \/ End(b)
  <2>1. answer[b] # NoAnswer /\ UNCHANGED wire /\ answer'[b] = NoAnswer
    BY <1>4, <1>d DEF PassOn, End, Takes
  <2>2. wire'[b] = NoRequest
    BY <2>1 DEF WireInv
  <2>a. "at" \in DOMAIN program[b]
    BY DEF WireInv
  <2>3. program'[b].at \in {"idle", "ended"}
    <3>1. CASE End(b)
      <4>1. program'[b] = [program[b] EXCEPT !.at = "ended"]
        BY <1>d, <3>1 DEF End
      <4> QED
        BY <2>a, <4>1
    <3>2. CASE PassOn(b)
      <4>1. program'[b] = Program("idle", Taken(program[b], answer[b]), "none")
        BY <1>d, <3>2 DEF PassOn
      <4> QED
        BY <4>1 DEF Program
    <3> QED
      BY <1>4, <3>1, <3>2
  <2> QED
    BY <1>1, <1>n, <2>1, <2>2, <2>3
<1> QED
  BY <1>2, <1>3, <1>4 DEF BridgeStep

\* Those of other programs.
LEMMA OthersKeepBridges ==
  ASSUME WireInv, BridgeInv, NEW c \in Clients \ Bridges, CommandStep(c) \/ HttpStep(c)
  PROVE  BridgeInv'
<1>1. UNCHANGED life
  BY DEF CommandStep, Run, Sends, ListSessions, Exit, Takes, HttpStep, Call, Finish, Hear,
         daemonVars
<1>2. \A d \in Clients \ {c} :
        wire'[d] = wire[d] /\ answer'[d] = answer[d] /\ program'[d] = program[d]
  BY ProgramsKeepWire
<1>3. \A b \in Bridges : b \in Clients \ {c}
  BY ClientsAssumption
<1> QED
  BY <1>1, <1>2, <1>3 DEF BridgeInv

LEMMA NumberedStep ==
  ASSUME TokensInv, NumberedInv, [Next]_vars
  PROVE  NumberedInv'
<1> USE DEF daemonVars, frontendVars
<1>1. CASE UNCHANGED vars
  BY <1>1 DEF vars, NumberedInv
<1>2. CASE \/ \E b \in Bridges : BridgeStep(b)
           \/ \E k \in Commands : CommandStep(k)
           \/ \E h \in HttpClients : HttpStep(h)
  BY <1>2 DEF BridgeStep, ForwardMessage, Sends, ConnectFails, PassOn, End, Takes,
              EndOfInput, StartAgain, CommandStep, Run, ListSessions, Exit, HttpStep,
              Call, Finish, Hear, NumberedInv
<1>3. ASSUME NEW c \in Clients, DaemonStep(c) PROVE NumberedInv'
  <2>1. CASE OpenSession(c)
    <3>1. sessions' = sessions \cup {nextSession} /\ nextSession' = nextSession + 1
      BY <2>1 DEF OpenSession
    <3>2. nextSession \in Nat \ {0}
      BY DEF TokensInv
    <3>3. 1 .. nextSession = (1 .. nextSession - 1) \cup {nextSession}
      BY <3>2
    <3> QED
      BY <3>1, <3>2, <3>3 DEF NumberedInv
  <2>2. CASE ~OpenSession(c)
    BY <1>3, <2>2 DEF DaemonStep, Serve, DropOversized, AnswerPath, RefuseOrigin,
         RefuseRate, RefuseNoSession, RefuseUnknownSession, Forward,
         RefuseSessionRequest, RefuseMethod, NumberedInv
  <2> QED
    BY <2>1, <2>2
<1>4. CASE Pass
  <2>1. CASE Stop
    <3>1. sessions' = {} /\ nextSession' = 1
      BY <2>1 DEF Stop, Forget, Empty
    <3> QED
      BY <3>1 DEF NumberedInv
  <2>2. CASE Start \/ Tick
    BY <2>2 DEF Start, Tick, NumberedInv
  <2> QED
    BY <1>4, <2>1, <2>2 DEF Pass
<1> QED
  BY <1>1, <1>2, <1>3, <1>4 DEF Next

\* A bridge ends where the causes are told apart.
LEMMA CauseStep ==
  ASSUME TokensInv, WireInv, BridgeInv, CauseInv, [Next]_vars
  PROVE  CauseInv'
<1>b. Bridges \subseteq Clients
  BY ClientsAssumption
<1>t. \A b \in Bridges : program[b].session.life \in Int
  <2>1. \A b \in Bridges : program[b].session \in Tokens(b)
    BY DEF Tokens
  <2> QED
    BY <1>b, <2>1 DEF TokensInv, None
\* Whatever does not touch a bridge, and lets no life begin but the next.
<1>1. ASSUME UNCHANGED cause, \A b \in Bridges : program'[b] = program[b],
             life' = life \/ life' = life + 1
      PROVE  CauseInv'
  <2>1. \A b \in Bridges : program[b].session.life < life => program[b].session.life < life'
    BY <1>1, <1>t DEF TokensInv
  <2> QED
    BY <1>1, <2>1 DEF CauseInv, BridgeEndsForCause
<1>2. CASE UNCHANGED vars
  BY <1>1, <1>2 DEF vars
<1>3. CASE \/ \E c \in Clients : DaemonStep(c)
           \/ Pass
  <2>1. UNCHANGED <<cause, program>>
    BY <1>3 DEF DaemonStep, Pass
  <2>2. life' = life \/ life' = life + 1
    <3>1. CASE Pass
      BY <3>1 DEF Pass, Stop, Forget, Start, Tick, daemonVars
    <3>2. CASE \E c \in Clients : DaemonStep(c)
      BY <3>2, ServedIsAnswered DEF Answered, daemonVars
    <3> QED
      BY <1>3, <3>1, <3>2
  <2> QED
    BY <1>1, <2>1, <2>2
<1>4. ASSUME NEW c \in Commands \cup HttpClients, CommandStep(c) \/ HttpStep(c)
      PROVE  CauseInv'
  <2>1. UNCHANGED <<cause, life>>
    BY <1>4 DEF CommandStep, Run, Sends, ListSessions, Exit, Takes, HttpStep, Call,
                Finish, Hear, daemonVars
  <2>2. c \in Clients \ Bridges
    BY ClientsAssumption
  <2>3. \A b \in Bridges : program'[b] = program[b]
    BY <1>4, <1>b, <2>2, ProgramsKeepWire
  <2> QED
    BY <1>1, <2>1, <2>3
<1>5. ASSUME NEW b \in Bridges, BridgeStep(b) PROVE CauseInv'
  <2>1. \A d \in Bridges \ {b} : program'[d] = program[d]
    BY <1>5, <1>b, ProgramsKeepWire
  <2>2. UNCHANGED life
    BY <1>5 DEF BridgeStep, ForwardMessage, Sends, ConnectFails, PassOn, End, Takes,
                EndOfInput, StartAgain, daemonVars
  <2>3. /\ DOMAIN cause' = Bridges
        /\ \A d \in Bridges \ {b} : cause'[d] = cause[d]
    BY <1>5 DEF BridgeStep, ForwardMessage, ConnectFails, PassOn, End, EndOfInput,
                StartAgain, CauseInv
  <2>4. ASSUME program'[b].at = "ended" =>
                 /\ cause'[b] # "bad request"
                 /\ cause'[b] = "unknown session" => program'[b].session.life < life
        PROVE  CauseInv'
    BY <2>1, <2>2, <2>3, <2>4 DEF CauseInv, BridgeEndsForCause
  <2>d. b \in DOMAIN program /\ b \in DOMAIN cause /\ "at" \in DOMAIN program[b]
    BY <1>b DEF WireInv, CauseInv
  <2>5. CASE ForwardMessage(b) \/ PassOn(b) \/ StartAgain(b)
    <3>1. \E at \in {"waiting", "idle"} : \E t, m : program'[b] = Program(at, t, m)
      <4>1. CASE ForwardMessage(b)
        BY <2>d, <4>1 DEF ForwardMessage
      <4>2. CASE PassOn(b)
        BY <2>d, <4>2 DEF PassOn
      <4>3. CASE StartAgain(b)
        BY <2>d, <4>3 DEF StartAgain, Fresh
      <4> QED
        BY <2>5, <4>1, <4>2, <4>3
    <3>2. program'[b].at # "ended"
      BY <3>1 DEF Program
    <3> QED
      BY <2>4, <3>2
  <2>6. CASE ConnectFails(b) \/ EndOfInput(b)
    <3>1. cause'[b] \in {"refused", "end of input"}
      BY <2>6, <2>d DEF ConnectFails, EndOfInput
    <3> QED
      BY <2>4, <3>1
  <2>7. CASE End(b)
    <3>c. Closed.status = 999
      BY DEF Closed
    <3>1. /\ Failed(answer[b])
          /\ answer[b] = Closed => cause'[b] = "closed"
          /\ answer[b].status = 429 => cause'[b] = "rate"
          /\ answer[b].status = 404 => cause'[b] = "unknown session"
      <4>1. cause' = [cause EXCEPT ![b] =
                        CASE answer[b] = Closed -> "closed"
                          [] answer[b].status = 429 -> "rate"
                          [] answer[b].status = 404 -> "unknown session"
                          [] OTHER -> "bad request"]
        BY <2>7 DEF End
      <4>2. CASE answer[b] = Closed
        <5>1. answer[b].status # 429 /\ answer[b].status # 404
          BY <3>c, <4>2
        <5> QED
          BY <2>7, <2>d, <4>1, <4>2, <5>1 DEF End
      <4>3. CASE answer[b].status = 429
        BY <2>7, <2>d, <3>c, <4>1, <4>3 DEF End
      <4>4. CASE answer[b].status = 404
        <5>1. answer[b] # Closed /\ answer[b].status # 429
          BY <3>c, <4>4
        <5>2. cause'[b] = "unknown session"
          BY <2>d, <4>1, <4>4, <5>1
        <5> QED
          BY <2>7, <4>4, <5>1, <5>2 DEF End
      <4> QED
        BY <2>7, <4>2, <4>3, <4>4 DEF End
    <3>2. /\ answer[b].status \in {404, 429, 999}
          /\ answer[b].status = 999 => answer[b] = Closed
          /\ answer[b].status = 404 => program[b].session.life < life
      <4>1. /\ answer[b].status \in {0, 200, 404, 429, 999}
            /\ answer[b].status = 999 => answer[b] = Closed
            /\ answer[b].status = 404 => program[b].session.life < life
        BY DEF BridgeInv
      <4>2. answer[b].status >= 400
        BY <3>1 DEF Failed
      <4> QED
        BY <4>1, <4>2
    <3>3. program'[b].session = program[b].session
      <4>1. program'[b] = [program[b] EXCEPT !.at = "ended"]
        BY <2>7, <2>d DEF End
      <4> QED
        BY <4>1
    <3>4. CASE answer[b].status = 999
      <4>1. cause'[b] = "closed"
        BY <3>1, <3>2, <3>4
      <4> QED
        BY <2>4, <4>1
    <3>5. CASE answer[b].status = 429
      <4>1. cause'[b] = "rate"
        BY <3>1, <3>5
      <4> QED
        BY <2>4, <4>1
    <3>6. CASE answer[b].status = 404
      <4>1. cause'[b] = "unknown session" /\ program[b].session.life < life
        BY <3>1, <3>2, <3>6
      <4> QED
        BY <2>4, <3>3, <4>1
    <3> QED
      BY <3>2, <3>4, <3>5, <3>6
  <2> QED
    BY <1>5, <2>5, <2>6, <2>7 DEF BridgeStep
<1> QED
  BY <1>2, <1>3, <1>4, <1>5 DEF Next

IInv == TokensInv /\ WireInv /\ BridgeInv /\ NumberedInv /\ CauseInv

LEMMA Inductive == IInv /\ [Next]_vars => IInv'
<1> SUFFICES ASSUME IInv, [Next]_vars PROVE IInv'
  OBVIOUS
<1> USE DEF IInv
<1>1. TokensInv' /\ NumberedInv' /\ CauseInv'
  BY TokensStep, NumberedStep, CauseStep
<1>2. CASE UNCHANGED vars
  BY <1>1, <1>2 DEF vars, WireInv, BridgeInv
<1>3. ASSUME NEW c \in Clients, DaemonStep(c) PROVE IInv'
  <2>1. WireInv'
    BY <1>3, ServedIsAnswered, AnsweredKeepsWire
  <2> QED
    BY <1>1, <1>3, <2>1, ServeKeepsBridges
<1>4. CASE Pass
  BY <1>1, <1>4, PassKeepsWire, PassKeepsBridges
<1>5. ASSUME NEW b \in Bridges, BridgeStep(b) PROVE IInv'
  BY <1>1, <1>5, ClientsAssumption, ProgramsKeepWire, BridgesKeepBridges
<1>6. ASSUME NEW c \in Commands \cup HttpClients, CommandStep(c) \/ HttpStep(c) PROVE IInv'
  <2>1. c \in Clients \ Bridges
    BY ClientsAssumption
  <2> QED
    BY <1>1, <1>6, <2>1, ProgramsKeepWire, OthersKeepBridges
<1> QED
  BY <1>2, <1>3, <1>4, <1>5, <1>6 DEF Next

\* However requests, restarts and other clients interleave: the daemon never
\* turns down what a bridge sends for its client, unless it is another daemon
\* than the one that gave the bridge its session.
THEOREM BridgesEndForCause == Spec => []BridgeEndsForCause
<1>1. Init => IInv
  <2> SUFFICES ASSUME Init PROVE IInv
    OBVIOUS
  <2>1. TokensInv /\ WireInv
    BY TokensStart, WireStart
  <2>2. /\ sessions = {} /\ nextSession = 1 /\ cause = [b \in Bridges |-> "none"]
        /\ program = [c \in Clients |-> Fresh] /\ answer = [c \in Clients |-> NoAnswer]
        /\ wire = [c \in Clients |-> NoRequest]
    BY DEF Init, DaemonInit, Empty
  <2>3. Bridges \subseteq Clients
    BY ClientsAssumption
  <2>4. Fresh.at = "idle" /\ NoAnswer.status = 0
    BY DEF Fresh, Program, NoAnswer
  <2>5. BridgeInv
    BY <2>2, <2>3, <2>4 DEF BridgeInv
  <2>6. NumberedInv /\ CauseInv
    BY <2>2, <2>3, <2>4 DEF NumberedInv, CauseInv, BridgeEndsForCause
  <2> QED
    BY <2>1, <2>5, <2>6 DEF IInv
<1>2. IInv => BridgeEndsForCause
  BY DEF IInv, CauseInv
<1> QED
  BY <1>1, <1>2, Inductive, PTL DEF Spec

-----------------------------------------------------------------------------
(* The rate of requests *)

\* What a window says of the requests let through: it has counted those since it
\* began, up to the budget, and before it began there were no more than another
\* budget within the minute.
KeyInv(w, f, limit) ==
  /\ w \in [age : Ages, count : Nat]
  /\ f \in [Ages -> Nat]
  /\ \A a, b \in Ages : a <= b => f[a] <= f[b]
  /\ w.count = 0 => w = NoWindow /\ f[0] = 0 /\ Total(f) <= limit
  /\ w.count > 0 => /\ f[w.age] = IF w.count <= limit THEN w.count ELSE limit
                    /\ Total(f) <= f[w.age] + limit

RateInv ==
  /\ DOMAIN windows = Keys /\ DOMAIN accepted = Keys
  /\ \A k \in Keys : KeyInv(windows[k], accepted[k], LimitFor(k[2]))

LEMMA LimitsArePositive == \A class : LimitFor(class) \in Nat \ {0}
<1>1. RequestsPerMinute * DiscoveryFactor \in Nat \ {0}
  <2>1. \A m, n \in Nat \ {0} : m * n \in Nat \ {0}
    OBVIOUS
  <2> QED
    BY <2>1, FrontendAssumption
<1> QED
  BY <1>1, FrontendAssumption DEF LimitFor

LEMMA AgesOfAMinute ==
  /\ Minute \in Nat \ {0} /\ Ages = 0 .. Minute - 1 /\ Ages \subseteq Nat
  /\ Minute - 1 \in Ages /\ 0 \in Ages
<1>1. Minute \in Nat \ {0}
  BY FrontendAssumption
<1> QED
  BY <1>1 DEF Ages

\* A request is counted, and let through if it is within the budget.
LEMMA CountingKeepsKey ==
  ASSUME NEW w, NEW f, NEW limit \in Nat \ {0}, KeyInv(w, f, limit),
         NEW more, more = IF Counted(w).count <= limit THEN 1 ELSE 0
  PROVE  KeyInv(Counted(w), [a \in Ages |-> f[a] + more], limit)
<1> DEFINE v == Counted(w)
           g == [a \in Ages |-> f[a] + more]
<1>1. /\ w \in [age : Ages, count : Nat] /\ f \in [Ages -> Nat] /\ more \in {0, 1}
      /\ \A a, b \in Ages : a <= b => f[a] <= f[b]
      /\ w.count = 0 => w = NoWindow /\ f[0] = 0 /\ Total(f) <= limit
      /\ w.count > 0 => /\ f[w.age] = IF w.count <= limit THEN w.count ELSE limit
                        /\ Total(f) <= f[w.age] + limit
  BY DEF KeyInv
<1>2. Minute - 1 \in Ages /\ 0 \in Ages /\ Ages \subseteq Nat
  BY AgesOfAMinute
<1>3. w = NoWindow <=> w.count = 0
  BY <1>1 DEF NoWindow
<1>4. /\ v \in [age : Ages, count : Nat] /\ v.count = w.count + 1 /\ v.age = w.age
      /\ w.count = 0 => w.age = 0
  BY <1>1, <1>2, <1>3 DEF Counted, NoWindow
<1>5. /\ g \in [Ages -> Nat]
      /\ \A a \in Ages : g[a] = f[a] + more
      /\ \A a, b \in Ages : a <= b => g[a] <= g[b]
  BY <1>1
<1>6. more = IF v.count <= limit THEN 1 ELSE 0
  OBVIOUS
<1> HIDE DEF v, g
<1>7. /\ Total(g) = Total(f) + more /\ Total(f) \in Nat
      /\ g[w.age] = f[w.age] + more /\ f[w.age] \in Nat /\ w.count \in Nat
  BY <1>1, <1>2, <1>5 DEF Total
<1>8. g[v.age] = IF v.count <= limit THEN v.count ELSE limit
  <2>1. CASE w.count = 0
    BY <1>1, <1>4, <1>6, <1>7, <2>1
  <2>2. CASE w.count > 0
    BY <1>1, <1>4, <1>6, <1>7, <2>2
  <2> QED
    BY <1>7, <2>1, <2>2
<1>9. Total(g) <= g[v.age] + limit
  <2>1. CASE w.count = 0
    BY <1>1, <1>4, <1>6, <1>7, <2>1
  <2>2. CASE w.count > 0
    BY <1>1, <1>4, <1>7, <2>2
  <2> QED
    BY <1>7, <2>1, <2>2
<1>10. KeyInv(v, g, limit)
  BY <1>4, <1>5, <1>7, <1>8, <1>9 DEF KeyInv
<1> QED
  BY <1>10 DEF v, g

\* Time passes for a window, and it may be over.
LEMMA TickKeepsKey ==
  ASSUME NEW w, NEW f, NEW limit \in Nat \ {0}, KeyInv(w, f, limit)
  PROVE  KeyInv(IF w = NoWindow \/ w.age + 1 >= Minute THEN NoWindow
                ELSE [w EXCEPT !.age = @ + 1],
                Older(f), limit)
<1> DEFINE g == Older(f)
<1>1. /\ w \in [age : Ages, count : Nat] /\ f \in [Ages -> Nat]
      /\ \A a, b \in Ages : a <= b => f[a] <= f[b]
      /\ w.count = 0 => w = NoWindow /\ f[0] = 0 /\ Total(f) <= limit
      /\ w.count > 0 => /\ f[w.age] = IF w.count <= limit THEN w.count ELSE limit
                        /\ Total(f) <= f[w.age] + limit
  BY DEF KeyInv
<1>2. /\ Minute \in Nat \ {0} /\ Ages = 0 .. Minute - 1
      /\ Minute - 1 \in Ages /\ 0 \in Ages
  BY AgesOfAMinute
<1>3. /\ g \in [Ages -> Nat] /\ g[0] = 0
      /\ \A a \in Ages : a # 0 => g[a] = f[a - 1] /\ a - 1 \in Ages
  BY <1>1, <1>2 DEF Older
<1> HIDE DEF g
<1>4. \A a \in Ages : g[a] <= f[a] /\ f[a] \in Nat
  <2> SUFFICES ASSUME NEW a \in Ages PROVE g[a] <= f[a] /\ f[a] \in Nat
    OBVIOUS
  <2>1. CASE a = 0
    BY <1>1, <1>3, <2>1
  <2>2. CASE a # 0
    <3>1. g[a] = f[a - 1] /\ a - 1 \in Ages /\ a - 1 <= a
      BY <1>2, <1>3, <2>2
    <3> QED
      BY <1>1, <3>1
  <2> QED
    BY <2>1, <2>2
<1>5. ASSUME NEW a \in Ages, NEW b \in Ages, a <= b PROVE g[a] <= g[b]
  <2>1. CASE a = 0
    BY <1>3, <2>1
  <2>2. CASE a # 0
    <3>1. b # 0 /\ a - 1 <= b - 1
      BY <1>2, <1>5, <2>2
    <3> QED
      BY <1>1, <1>3, <2>2, <3>1
  <2> QED
    BY <2>1, <2>2
<1>6. Total(g) <= Total(f) /\ Total(f) \in Nat /\ Total(g) \in Nat
  BY <1>2, <1>3, <1>4 DEF Total
<1>7. w = NoWindow <=> w.count = 0
  BY <1>1 DEF NoWindow
<1>8. CASE w = NoWindow
  <2>1. Total(g) <= limit
    BY <1>1, <1>6, <1>7, <1>8
  <2>2. KeyInv(NoWindow, g, limit)
    BY <1>2, <1>3, <1>5, <2>1 DEF KeyInv, NoWindow
  <2> QED
    BY <1>8, <2>2 DEF g
<1>9. CASE w # NoWindow /\ w.age + 1 >= Minute
  <2>1. w.age = Minute - 1 /\ w.count > 0
    BY <1>1, <1>2, <1>7, <1>9
  <2>2. Total(f) <= limit
    BY <1>1, <1>2, <2>1 DEF Total
  <2>3. Total(g) <= limit
    BY <1>6, <2>2
  <2>4. KeyInv(NoWindow, g, limit)
    BY <1>2, <1>3, <1>5, <2>3 DEF KeyInv, NoWindow
  <2> QED
    BY <1>9, <2>4 DEF g
<1>10. CASE w # NoWindow /\ ~(w.age + 1 >= Minute)
  <2> DEFINE v == [w EXCEPT !.age = @ + 1]
  <2>1. /\ v \in [age : Ages, count : Nat] /\ v.count = w.count /\ v.age = w.age + 1
        /\ v.count > 0
    BY <1>1, <1>2, <1>7, <1>10
  <2> HIDE DEF v
  <2>2. g[v.age] = f[w.age]
    BY <1>1, <1>2, <1>3, <2>1
  <2>3. /\ g[v.age] = IF v.count <= limit THEN v.count ELSE limit
        /\ Total(g) <= g[v.age] + limit
    <3>1. f[w.age] \in Nat
      BY <1>1
    <3> QED
      BY <1>1, <1>6, <2>1, <2>2, <3>1
  <2>4. KeyInv(v, g, limit)
    BY <1>3, <1>5, <2>1, <2>3 DEF KeyInv
  <2> QED
    BY <1>10, <2>4 DEF g, v
<1> QED
  BY <1>8, <1>9, <1>10

\* A request is counted with the key of its source and class.
LEMMA KeysAreKeys == \A c \in Clients : KeyOf(c) \in Keys
BY DEF KeyOf, Keys, Sources, Classes, ClassOf

LEMMA CountKeepsRates ==
  ASSUME RateInv, NEW c \in Clients, Count(c)
  PROVE  RateInv'
<1>k. PICK k \in Keys : k = KeyOf(c)
  BY KeysAreKeys
<1>l. PICK limit \in Nat \ {0} : limit = LimitFor(k[2])
  BY LimitsArePositive
<1>m. PICK more : more = IF Counted(windows[k]).count <= limit THEN 1 ELSE 0
  OBVIOUS
<1>1. /\ windows' = [windows EXCEPT ![k] = Counted(@)]
      /\ accepted' = [accepted EXCEPT ![k] = [a \in Ages |-> @[a] + more]]
  BY <1>k, <1>l, <1>m DEF Count, WithinLimit
<1>2. /\ DOMAIN windows = Keys /\ DOMAIN accepted = Keys
      /\ \A x \in Keys : KeyInv(windows[x], accepted[x], LimitFor(x[2]))
  BY DEF RateInv
<1>3. KeyInv(Counted(windows[k]), [a \in Ages |-> accepted[k][a] + more], limit)
  <2>1. KeyInv(windows[k], accepted[k], limit)
    BY <1>2, <1>l
  <2>w. PICK w : w = windows[k]
    OBVIOUS
  <2>f. PICK f : f = accepted[k]
    OBVIOUS
  <2>2. KeyInv(w, f, limit) /\ more = IF Counted(w).count <= limit THEN 1 ELSE 0
    BY <1>m, <2>1, <2>w, <2>f
  <2>3. KeyInv(Counted(w), [a \in Ages |-> f[a] + more], limit)
    BY <2>2, CountingKeepsKey
  <2> QED
    BY <2>3, <2>w, <2>f
<1>4. /\ windows'[k] = Counted(windows[k])
      /\ accepted'[k] = [a \in Ages |-> accepted[k][a] + more]
      /\ \A x \in Keys \ {k} : windows'[x] = windows[x] /\ accepted'[x] = accepted[x]
      /\ DOMAIN windows' = Keys /\ DOMAIN accepted' = Keys
  BY <1>1, <1>2
<1>5. \A x \in Keys : KeyInv(windows'[x], accepted'[x], LimitFor(x[2]))
  BY <1>2, <1>3, <1>4, <1>l
<1> QED
  BY <1>4, <1>5 DEF RateInv, KeyInv

LEMMA EmptyRates == \A k \in Keys : KeyInv(NoWindow, Never, LimitFor(k[2]))
<1>1. Minute - 1 \in Ages /\ 0 \in Ages
  BY AgesOfAMinute
<1> QED
  BY <1>1, LimitsArePositive DEF KeyInv, NoWindow, Never, Total

\* What serves a request counts it, or leaves the windows alone.
LEMMA ServeCounts ==
  ASSUME NEW c \in Clients, Serve(c)
  PROVE  Count(c) \/ UNCHANGED <<windows, accepted>>
<1>1. CASE DropOversized(c) \/ AnswerPath(c) \/ RefuseOrigin(c)
  BY <1>1 DEF DropOversized, AnswerPath, RefuseOrigin, frontendVars
<1>2. CASE RefuseRate(c)
  BY <1>2 DEF RefuseRate
<1>3. CASE \/ OpenSession(c) \/ RefuseNoSession(c) \/ RefuseUnknownSession(c)
           \/ Forward(c) \/ RefuseSessionRequest(c) \/ RefuseMethod(c)
  BY <1>3 DEF OpenSession, RefuseNoSession, RefuseUnknownSession, Forward,
              RefuseSessionRequest, RefuseMethod, Judged
<1> QED
  BY <1>1, <1>2, <1>3 DEF Serve

\* The programs have no part in the windows.
LEMMA ProgramsLeaveWindows ==
  ASSUME \/ \E b \in Bridges : BridgeStep(b)
         \/ \E k \in Commands : CommandStep(k)
         \/ \E h \in HttpClients : HttpStep(h)
  PROVE  UNCHANGED <<windows, accepted>>
<1>1. ASSUME NEW b \in Bridges, BridgeStep(b) PROVE UNCHANGED <<windows, accepted>>
  BY <1>1 DEF BridgeStep, ForwardMessage, ConnectFails, PassOn, End, EndOfInput, StartAgain,
              Sends, Takes, frontendVars
<1>2. ASSUME NEW k \in Commands, CommandStep(k) PROVE UNCHANGED <<windows, accepted>>
  BY <1>2 DEF CommandStep, Run, ListSessions, Exit, Sends, Takes, frontendVars
<1>3. ASSUME NEW h \in HttpClients, HttpStep(h) PROVE UNCHANGED <<windows, accepted>>
  BY <1>3 DEF HttpStep, Call, Finish, Hear, Sends, Takes, frontendVars
<1> QED
  BY <1>1, <1>2, <1>3

LEMMA RateStep == RateInv /\ [Next]_vars => RateInv'
<1> SUFFICES ASSUME RateInv, [Next]_vars PROVE RateInv'
  OBVIOUS
<1>0. UNCHANGED <<windows, accepted>> => RateInv'
  BY DEF RateInv, KeyInv
<1>1. ASSUME NEW c \in Clients, DaemonStep(c) PROVE RateInv'
  BY <1>0, <1>1, ServeCounts, CountKeepsRates DEF DaemonStep
<1>2. CASE Pass
  <2>1. CASE Stop
    <3>1. windows' = [k \in Keys |-> NoWindow] /\ accepted' = [k \in Keys |-> Never]
      BY <2>1 DEF Stop, Forget, Empty
    <3> QED
      BY <3>1, EmptyRates DEF RateInv
  <2>2. CASE Start
    BY <1>0, <2>2 DEF Start, frontendVars
  <2>3. CASE Tick
    <3>1. /\ windows' = [k \in Keys |->
               IF windows[k] = NoWindow \/ windows[k].age + 1 >= Minute THEN NoWindow
               ELSE [windows[k] EXCEPT !.age = @ + 1]]
          /\ accepted' = [k \in Keys |-> Older(accepted[k])]
      BY <2>3 DEF Tick
    <3>2. ASSUME NEW k \in Keys
          PROVE  KeyInv(windows'[k], accepted'[k], LimitFor(k[2]))
      <4>l. PICK limit \in Nat \ {0} : limit = LimitFor(k[2])
        BY LimitsArePositive
      <4>w. PICK w : w = windows[k]
        OBVIOUS
      <4>f. PICK f : f = accepted[k]
        OBVIOUS
      <4>1. KeyInv(w, f, limit)
        BY <4>l, <4>w, <4>f DEF RateInv
      <4>2. KeyInv(IF w = NoWindow \/ w.age + 1 >= Minute THEN NoWindow
                   ELSE [w EXCEPT !.age = @ + 1],
                   Older(f), limit)
        BY <4>1, TickKeepsKey
      <4>3. /\ windows'[k] = IF w = NoWindow \/ w.age + 1 >= Minute THEN NoWindow
                             ELSE [w EXCEPT !.age = @ + 1]
            /\ accepted'[k] = Older(f)
        BY <3>1, <4>w, <4>f
      <4> QED
        BY <4>2, <4>3, <4>l
    <3> QED
      BY <3>1, <3>2 DEF RateInv
  <2> QED
    BY <1>2, <2>1, <2>2, <2>3 DEF Pass
<1>3. CASE \/ \E b \in Bridges : BridgeStep(b)
           \/ \E k \in Commands : CommandStep(k)
           \/ \E h \in HttpClients : HttpStep(h)
  BY <1>0, <1>3, ProgramsLeaveWindows
<1>4. CASE UNCHANGED vars
  BY <1>0, <1>4 DEF vars
<1> QED
  BY <1>1, <1>2, <1>3, <1>4 DEF Next

LEMMA RateStart == Init => RateInv
BY EmptyRates DEF Init, DaemonInit, Empty, RateInv

\* Whatever the budgets and the length of a window: in no minute does the daemon
\* let through more than two budgets of a source and class
\* (http_frontend.rs: check_rate_limit).
THEOREM BurstsAreBounded == Spec => []BurstIsBounded
<1>1. RateInv => BurstIsBounded
  <2> SUFFICES ASSUME RateInv, NEW k \in Keys
               PROVE  Total(accepted[k]) <= 2 * LimitFor(k[2])
    BY DEF BurstIsBounded
  <2>l. PICK limit \in Nat \ {0} : limit = LimitFor(k[2])
    BY LimitsArePositive
  <2>w. PICK w : w = windows[k]
    OBVIOUS
  <2>f. PICK f : f = accepted[k]
    OBVIOUS
  <2>1. KeyInv(w, f, limit)
    BY <2>l, <2>w, <2>f DEF RateInv
  <2>2. Total(f) \in Nat /\ w.count \in Nat /\ f[w.age] \in Nat
    <3>1. Minute - 1 \in Ages
      BY AgesOfAMinute
    <3> QED
      BY <2>1, <3>1 DEF KeyInv, Total
  <2>3. CASE w.count = 0
    BY <2>1, <2>2, <2>3, <2>l, <2>f DEF KeyInv
  <2>4. CASE w.count > 0
    <3>1. f[w.age] <= limit /\ Total(f) <= f[w.age] + limit
      BY <2>1, <2>2, <2>4 DEF KeyInv
    <3> QED
      BY <2>2, <3>1, <2>l, <2>f
  <2> QED
    BY <2>2, <2>3, <2>4
<1> QED
  BY <1>1, RateStart, RateStep, PTL DEF Spec

\* Only an answer to a request over its budget has that status.
LEMMA RefusedForRate ==
  ASSUME TokensInv, [Next]_vars, NEW c \in Clients,
         answer'[c] # answer[c], answer'[c].status = 429
  PROVE  ~WithinLimit(c)
<1>d. DOMAIN answer = Clients
  BY DEF TokensInv
<1>1. ASSUME NEW d \in Clients, DaemonStep(d) PROVE ~WithinLimit(c)
  <2>1. ASSUME NEW a, Answered(d, a), a.status # 429 PROVE FALSE
    <3>1. answer'[c] \in {answer[c], a}
      BY <1>d, <2>1 DEF Answered
    <3> QED
      BY <2>1, <3>1
  <2>2. ASSUME NEW status, NEW id, Answer(d, status, id), status # 429 PROVE FALSE
    BY <2>1, <2>2 DEF Answer
  <2>3. CASE DropOversized(d)
    BY <2>1, <2>3 DEF DropOversized, Closed
  <2>4. CASE AnswerPath(d)
    BY <2>2, <2>4 DEF AnswerPath
  <2>5. CASE RefuseOrigin(d)
    BY <2>2, <2>5 DEF RefuseOrigin
  <2>6. CASE RefuseRate(d)
    <3>1. c = d
      BY <1>d, <2>6 DEF RefuseRate, Answer, Answered
    <3> QED
      BY <2>6, <3>1 DEF RefuseRate
  <2>7. CASE OpenSession(d)
    BY <2>2, <2>7 DEF OpenSession
  <2>8. CASE RefuseNoSession(d) \/ RefuseUnknownSession(d) \/ Forward(d)
    BY <2>2, <2>8 DEF RefuseNoSession, RefuseUnknownSession, Forward
  <2>9. CASE RefuseSessionRequest(d) \/ RefuseMethod(d)
    BY <2>2, <2>9 DEF RefuseSessionRequest, RefuseMethod
  <2> QED
    BY <1>1, <2>3, <2>4, <2>5, <2>6, <2>7, <2>8, <2>9 DEF DaemonStep, Serve
<1>2. CASE Pass
  BY <1>2 DEF Pass, Stop, Start, Tick, Closed
<1>3. ASSUME NEW d \in Clients,
             UNCHANGED answer \/ answer' = [answer EXCEPT ![d] = NoAnswer]
      PROVE  FALSE
  BY <1>d, <1>3 DEF NoAnswer
<1>4. Bridges \subseteq Clients /\ Commands \subseteq Clients /\ HttpClients \subseteq Clients
  BY ClientsAssumption
<1>5. ASSUME NEW b \in Bridges, BridgeStep(b) PROVE FALSE
  <2>1. UNCHANGED answer \/ answer' = [answer EXCEPT ![b] = NoAnswer]
    BY <1>5 DEF BridgeStep, ForwardMessage, ConnectFails, PassOn, End, EndOfInput,
                StartAgain, Sends, Takes
  <2> QED
    BY <1>3, <1>4, <2>1
<1>6. ASSUME NEW k \in Commands, CommandStep(k) PROVE FALSE
  BY <1>3, <1>4, <1>6 DEF CommandStep, Run, ListSessions, Exit, Sends, Takes
<1>7. ASSUME NEW h \in HttpClients, HttpStep(h) PROVE FALSE
  BY <1>3, <1>4, <1>7 DEF HttpStep, Call, Finish, Hear, Sends, Takes
<1>8. CASE UNCHANGED vars
  BY <1>8 DEF vars
<1> QED
  BY <1>1, <1>2, <1>5, <1>6, <1>7, <1>8 DEF Next

\* Whatever the budgets: a request is refused for its rate only if the whole
\* budget was let through within the minute, wherever the windows began.
THEOREM RefusalsAreDue == Spec => RefusedOnlyIfBusy
<1>1. ASSUME TokensInv, RateInv, [Next]_vars, NEW c \in Clients,
             answer'[c] # answer[c], answer'[c].status = 429
      PROVE  Total(accepted[KeyOf(c)]) >= LimitFor(KeyOf(c)[2])
  <2>k. PICK k \in Keys : k = KeyOf(c)
    BY KeysAreKeys
  <2>l. PICK limit \in Nat \ {0} : limit = LimitFor(k[2])
    BY LimitsArePositive
  <2>w. PICK w : w = windows[k]
    OBVIOUS
  <2>f. PICK f : f = accepted[k]
    OBVIOUS
  <2>1. KeyInv(w, f, limit)
    BY <1>1, <2>l, <2>w, <2>f DEF RateInv
  <2>2. ~(Counted(w).count <= limit)
    BY <1>1, <2>k, <2>l, <2>w, RefusedForRate DEF WithinLimit
  <2>3. w.count \in Nat /\ w.age \in Ages
    BY <2>1 DEF KeyInv
  <2>4. Counted(w).count = w.count + 1
    BY <2>1 DEF KeyInv, Counted, NoWindow
  <2>5. w.count >= limit
    BY <2>2, <2>3, <2>4
  <2>6. f[w.age] = limit
    BY <2>1, <2>3, <2>5 DEF KeyInv
  <2>7. Minute - 1 \in Ages /\ w.age <= Minute - 1
    BY <2>3, AgesOfAMinute
  <2>8. f[w.age] <= Total(f) /\ Total(f) \in Nat
    BY <2>1, <2>3, <2>7 DEF KeyInv, Total
  <2> QED
    BY <2>6, <2>8, <2>k, <2>l, <2>f
<1>2. TokensInv /\ RateInv /\ [Next]_vars =>
        [\A c \in Clients :
           answer'[c] # answer[c] /\ answer'[c].status = 429 =>
             Total(accepted[KeyOf(c)]) >= LimitFor(KeyOf(c)[2])]_answer
  BY <1>1
<1> QED
  BY <1>2, TokensStart, TokensStep, RateStart, RateStep, PTL DEF Spec, RefusedOnlyIfBusy
=============================================================================
