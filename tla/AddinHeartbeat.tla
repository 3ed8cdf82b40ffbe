--------------------------- MODULE AddinHeartbeat ---------------------------
(***************************************************************************)
(* The heartbeat of one registered add-in connection, with its clock: the  *)
(* timers of the connection's thread (runtime/websocket_heartbeat.rs), the *)
(* pending ping and the count of missed pongs                              *)
(* (addin_mgr/addin_heartbeat.rs), and the pane that answers pings in the  *)
(* order they come, when it gets to it.                                    *)
(*                                                                         *)
(* The thread polls its timers at least once a tick, so Tick waits for it; *)
(* a frame that has arrived is read before or after a tick.  AddinChannel  *)
(* abstracts this module: StartPing, Pong, MissPong and HeartbeatClose     *)
(* there say nothing of time.                                              *)
(***************************************************************************)
EXTENDS Integers, Sequences

CONSTANTS
  Interval,   \* heartbeat_interval, in ticks
  Timeout     \* heartbeat_timeout, in ticks

ASSUME HeartbeatAssumption == Interval \in Nat \ {0} /\ Timeout \in Nat \ {0}

MaxMissedPongs == 3

\* Ping ids count up and are compared for equality only.  No more than
\* MaxMissedPongs pings are unanswered at a time (TypeOK),
\* so ids that repeat after that many are as good.
PingIds == 0 .. MaxMissedPongs
NoPing == -1
Off == -1

VARIABLES
  open,        \* the thread is in its loop
  pending,     \* pending_ping_id
  missed,      \* missed_pongs
  nextPing,    \* next_ping_id
  toPing,      \* ticks until next_ping_at
  toDeadline,  \* ticks until the deadline, Off when there is none
  pings,       \* pings the pane has not answered yet
  pongs,       \* pongs the thread has not read yet
  silence      \* history: ticks since the last pong that was counted

timerVars == <<toPing, toDeadline>>
vars == <<open, pending, missed, nextPing, timerVars, pings, pongs, silence>>

MaxSilence == MaxMissedPongs * (Interval + Timeout)

\* The types of the variables; no more pings are unanswered than misses are
\* allowed, on which the wrap-around of the ids rests.
TypeOK ==
  /\ open \in BOOLEAN
  /\ pending \in PingIds \cup {NoPing}
  /\ missed \in 0 .. MaxMissedPongs
  /\ nextPing \in PingIds
  /\ toPing \in 0 .. Interval
  /\ toDeadline \in 0 .. Timeout \cup {Off}
  /\ pings \in Seq(PingIds)
  /\ pongs \in Seq(PingIds)
  /\ Len(pings) + Len(pongs) <= MaxMissedPongs
  /\ silence \in 0 .. MaxSilence + 1

Init ==
  /\ open = TRUE
  /\ pending = NoPing
  /\ missed = 0
  /\ nextPing = 0
  /\ toPing = Interval
  /\ toDeadline = Off
  /\ pings = <<>>
  /\ pongs = <<>>
  /\ silence = 0

-----------------------------------------------------------------------------
\* mark_pong_received: no deadline, the next ping an interval away.
Rest ==
  /\ toDeadline' = Off
  /\ toPing' = Interval

DeadlineElapsed == open /\ toDeadline = 0

ShouldStartPing == open /\ toDeadline = Off /\ toPing = 0

\* Variants of RecordTimeout: the second miss closes, which is what
\* doc/spec/02-registration-protocol.md:414 says and the code does not do; and,
\* faulty, a miss is not counted.
CloseAtSecondMiss ==
  /\ DeadlineElapsed
  /\ pending' = NoPing
  /\ missed' = missed + 1
  /\ IF missed + 1 < MaxMissedPongs - 1
     THEN Rest /\ UNCHANGED open
     ELSE open' = FALSE /\ UNCHANGED timerVars
  /\ UNCHANGED <<nextPing, pings, pongs, silence>>
MissIsForgotten ==
  /\ DeadlineElapsed
  /\ pending' = NoPing
  /\ Rest
  /\ UNCHANGED <<open, missed, nextPing, pings, pongs, silence>>

\* The deadline has elapsed: the ping is given up and counted as missed; the
\* connection is closed when it is the last one allowed.
RecordTimeout ==
  /\ DeadlineElapsed
  /\ pending' = NoPing
  /\ missed' = missed + 1
  /\ IF missed + 1 < MaxMissedPongs
     THEN Rest /\ UNCHANGED open
     ELSE open' = FALSE /\ UNCHANGED timerVars
  /\ UNCHANGED <<nextPing, pings, pongs, silence>>

StartPing ==
  /\ ShouldStartPing
  /\ pending' = nextPing
  /\ nextPing' = (nextPing + 1) % (MaxMissedPongs + 1)
  /\ pings' = Append(pings, nextPing)
  /\ toDeadline' = Timeout
  /\ UNCHANGED <<open, missed, toPing, pongs, silence>>

\* Faulty variant of ReadPong: any pong counts while a ping is pending.
ReadAnyPong ==
  /\ open
  /\ pongs # <<>>
  /\ pongs' = Tail(pongs)
  /\ IF pending # NoPing
     THEN /\ pending' = NoPing
          /\ missed' = 0
          /\ silence' = IF Head(pongs) = pending THEN 0 ELSE silence
          /\ Rest
     ELSE UNCHANGED <<pending, missed, silence, timerVars>>
  /\ UNCHANGED <<open, nextPing, pings>>

\* The thread reads a pong, possibly while the deadline elapses.  Only the
\* answer to the pending ping counts; a late one goes on to
\* complete_from_text and changes nothing here.
ReadPong ==
  /\ open
  /\ pongs # <<>>
  /\ pongs' = Tail(pongs)
  /\ IF Head(pongs) = pending
     THEN /\ pending' = NoPing
          /\ missed' = 0
          /\ silence' = 0
          /\ Rest
     ELSE UNCHANGED <<pending, missed, silence, timerVars>>
  /\ UNCHANGED <<open, nextPing, pings>>

\* The pane answers the oldest ping it has.
PaneAnswers ==
  /\ pings # <<>>
  /\ pongs' = Append(pongs, Head(pings))
  /\ pings' = Tail(pings)
  /\ UNCHANGED <<open, pending, missed, nextPing, timerVars, silence>>

CountDown(t) == IF t > 0 THEN t - 1 ELSE t

Tick ==
  /\ open
  /\ ~DeadlineElapsed /\ ~ShouldStartPing
  /\ toPing' = CountDown(toPing)
  /\ toDeadline' = CountDown(toDeadline)
  /\ silence' = IF silence <= MaxSilence THEN silence + 1 ELSE silence
  /\ UNCHANGED <<open, pending, missed, nextPing, pings, pongs>>

-----------------------------------------------------------------------------
Next == RecordTimeout \/ StartPing \/ ReadPong \/ PaneAnswers \/ Tick

Spec == Init /\ [][Next]_vars

\* The clock runs and the thread polls; the pane owes nothing.
Fairness == WF_vars(Tick) /\ WF_vars(RecordTimeout) /\ WF_vars(StartPing)

FairSpec == Spec /\ Fairness

-----------------------------------------------------------------------------
(* Properties *)

\* A connection is closed only after three pings in a row went their whole
\* timeout without their own pong: a late pong of an earlier ping neither
\* saves the connection nor brings its end nearer, and a pong in time gives it
\* the full three rounds again.  One that is kept has shown life within them:
\* that long, and no longer, a dead task pane stays listed.  Three is the code's
\* number; the document of the protocol has two, and the variant CloseAtSecondMiss,
\* which does as it says, violates this property (see the findings).
ClosedWhenSilent ==
  /\ ~open => silence >= MaxSilence
  /\ open => silence <= MaxSilence

\* A pane that stops answering in time, for good, is closed, whether it is
\* dead or its answers are always too late.
SilentIsClosed == []<>(silence = 0) \/ <>~open
=============================================================================
