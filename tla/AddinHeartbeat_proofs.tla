------------------------ MODULE AddinHeartbeat_proofs ------------------------
(***************************************************************************)
(* Proofs about AddinHeartbeat, for every interval and every timeout.      *)
(***************************************************************************)
EXTENDS AddinHeartbeat, TLAPS

Round == Interval + Timeout
InFlight == Len(pings) + Len(pongs)

\* A ping is pending exactly while a deadline runs; a connection in its loop
\* has misses left.
TimersInv ==
  /\ open \in BOOLEAN
  /\ missed \in 0 .. MaxMissedPongs
  /\ open => missed < MaxMissedPongs
  /\ toPing \in 0 .. Interval
  /\ toDeadline \in 0 .. Timeout \cup {Off}
  /\ open => (pending # NoPing <=> toDeadline # Off)
  /\ ~open => missed = MaxMissedPongs /\ pending = NoPing

\* The pings in flight are the last ones sent, in their order, and no more
\* than were missed since the last pong that counted, and the pending one.
OrderInv ==
  /\ nextPing \in PingIds
  /\ pings \in Seq(PingIds)
  /\ pongs \in Seq(PingIds)
  /\ InFlight <= missed + (IF pending = NoPing THEN 0 ELSE 1)
  /\ pending # NoPing => pending = (nextPing + 3) % 4
  /\ \A i \in 1 .. Len(pings) :
       pings[i] = (nextPing + 3 + i - Len(pings)) % 4
  /\ \A i \in 1 .. Len(pongs) :
       pongs[i] = (nextPing + 3 + i - Len(pongs) - Len(pings)) % 4

\* The ticks of the round the connection is in.
Elapsed ==
  IF toDeadline = Off THEN Interval - toPing
  ELSE Interval + Timeout - toDeadline

\* The silence is as long as the rounds missed and the one that runs.
SilenceInv ==
  /\ open => /\ silence = missed * Round + Elapsed
             /\ toDeadline # Off => toPing = 0
  /\ ~open => silence = MaxSilence

IInv == TimersInv /\ OrderInv /\ SilenceInv

-----------------------------------------------------------------------------
\* Products with the number of misses, which the prover does not compute.
LEMMA Rounds ==
  /\ Round \in Nat \ {0, 1}
  /\ 0 * Round = 0
  /\ \A n \in 0 .. MaxMissedPongs : (n + 1) * Round = n * Round + Round
  /\ \A n \in 0 .. MaxMissedPongs - 1 :
       n * Round \in Nat /\ n * Round + Round <= MaxSilence
  /\ MaxSilence = (MaxMissedPongs - 1) * Round + Round
  /\ MaxSilence \in Nat
<1> DEFINE r == Round
<1>1. r \in Nat \ {0, 1} /\ MaxSilence = 3 * r
  BY HeartbeatAssumption DEF Round, MaxSilence, MaxMissedPongs
<1> HIDE DEF r
<1>2. 0 * r = 0 /\ 1 * r = r /\ 2 * r = r + r /\ 3 * r = r + r + r
        /\ 4 * r = r + r + r + r
  BY <1>1
<1>3. /\ \A n \in 0 .. 3 : (n + 1) * r = n * r + r
      /\ \A n \in 0 .. 2 : n * r \in Nat /\ n * r + r <= 3 * r
  <2>1. \A n \in 0 .. 3 : n = 0 \/ n = 1 \/ n = 2 \/ n = 3
    OBVIOUS
  <2>2. \A n \in 0 .. 2 : n = 0 \/ n = 1 \/ n = 2
    OBVIOUS
  <2> QED
    BY <1>1, <1>2, <2>1, <2>2
<1> QED
  BY <1>1, <1>2, <1>3 DEF r, MaxMissedPongs

\* Ids count up modulo 4: the next id, the one k before it, and that the last
\* three ids sent differ.
LEMMA Ids ==
  /\ \A n \in 0 .. 3 : (n + 1) % 4 \in 0 .. 3 /\ (((n + 1) % 4) + 3) % 4 = n
  /\ \A n \in 0 .. 3, k \in 0 .. 3 :
       (n + 3 - k) % 4 = (((n + 1) % 4) + 3 - (k + 1)) % 4
  /\ \A n \in 0 .. 3, k \in 1 .. 3 : (n + 3) % 4 = (n + 4 - k) % 4 => k = 1
<1>1. \A n \in 0 .. 3 : (n + 1) % 4 \in 0 .. 3 /\ (((n + 1) % 4) + 3) % 4 = n
  OBVIOUS
<1>2. \A n \in 0 .. 3, k \in 0 .. 3 :
        (n + 3 - k) % 4 = (((n + 1) % 4) + 3 - (k + 1)) % 4
  OBVIOUS
<1>3. \A n \in 0 .. 3, k \in 1 .. 3 : (n + 3) % 4 = (n + 4 - k) % 4 => k = 1
  OBVIOUS
<1> QED
  BY <1>1, <1>2, <1>3

LEMMA InitHolds == Init => IInv
BY HeartbeatAssumption, Rounds
   DEF Init, IInv, TimersInv, OrderInv, SilenceInv, InFlight, Elapsed, PingIds,
       NoPing, Off, MaxMissedPongs

LEMMA TimersStep ==
  ASSUME IInv, [Next]_vars
  PROVE  TimersInv'
<1> USE HeartbeatAssumption DEF IInv, TimersInv, MaxMissedPongs, NoPing, Off
<1>1. CASE RecordTimeout
  <2>1. /\ open /\ pending' = NoPing /\ missed' = missed + 1
        /\ missed \in 0 .. 2
    BY <1>1 DEF RecordTimeout, DeadlineElapsed
  <2>2. CASE missed + 1 < MaxMissedPongs
    BY <1>1, <2>1, <2>2 DEF RecordTimeout, Rest
  <2>3. CASE ~(missed + 1 < MaxMissedPongs)
    <3>1. open' = FALSE /\ toPing' = toPing /\ toDeadline' = toDeadline
      BY <1>1, <2>1, <2>3 DEF RecordTimeout, timerVars
    <3>2. missed' = 3
      BY <2>1, <2>3
    <3>3. toPing' \in 0 .. Interval /\ toDeadline' \in 0 .. Timeout \cup {Off}
      BY <3>1
    <3>4. missed' \in 0 .. MaxMissedPongs /\ pending' = NoPing
      BY <2>1, <3>2
    <3> HIDE DEF NoPing, Off, MaxMissedPongs
    <3> QED
      BY <3>1, <3>2, <3>3, <3>4 DEF MaxMissedPongs
  <2> QED
    BY <2>2, <2>3
<1>2. CASE StartPing
  BY <1>2 DEF StartPing, ShouldStartPing, OrderInv, PingIds
<1>3. CASE ReadPong
  BY <1>3 DEF ReadPong, Rest, timerVars
<1>4. CASE PaneAnswers
  BY <1>4 DEF PaneAnswers, timerVars
<1>5. CASE Tick
  BY <1>5 DEF Tick, CountDown
<1>6. CASE UNCHANGED vars
  BY <1>6 DEF vars, timerVars
<1> QED
  BY <1>1, <1>2, <1>3, <1>4, <1>5, <1>6 DEF Next

LEMMA OrderStep ==
  ASSUME IInv, [Next]_vars
  PROVE  OrderInv'
<1> USE DEF IInv, OrderInv, InFlight, PingIds, MaxMissedPongs, NoPing
<1>0. missed \in 0 .. 3 /\ Len(pings) \in Nat /\ Len(pongs) \in Nat
  BY DEF TimersInv
<1>1. CASE RecordTimeout
  <2>1. pending # NoPing
    BY <1>1 DEF RecordTimeout, DeadlineElapsed, TimersInv, Off
  <2> QED
    BY <1>0, <1>1, <2>1 DEF RecordTimeout
<1>2. CASE StartPing
  <2>1. pending = NoPing /\ missed <= 2
    BY <1>2 DEF StartPing, ShouldStartPing, TimersInv, Off
  <2>2. /\ pings' = Append(pings, nextPing)
        /\ pongs' = pongs
        /\ nextPing' = (nextPing + 1) % 4
        /\ pending' = nextPing
        /\ missed' = missed
    BY <1>2 DEF StartPing
  <2>3. /\ pings' \in Seq(0 .. 3)
        /\ Len(pings') = Len(pings) + 1
        /\ \A i \in 1 .. Len(pings) : pings'[i] = pings[i]
        /\ pings'[Len(pings) + 1] = nextPing
    BY <2>2
  <2>4. nextPing' \in 0 .. 3 /\ (nextPing' + 3) % 4 = nextPing
    BY <2>2, Ids
  <2>5. Len(pings) + Len(pongs) <= 2
    BY <1>0, <2>1
  <2>6. ASSUME NEW k \in 0 .. 2
        PROVE  (nextPing + 3 - k) % 4 = (nextPing' + 3 - (k + 1)) % 4
    BY <2>2, Ids
  <2>7. ASSUME NEW i \in 1 .. Len(pings')
        PROVE  pings'[i] = (nextPing' + 3 + i - Len(pings')) % 4
    <3>1. CASE i = Len(pings) + 1
      <4>1. nextPing' + 3 + i - Len(pings') = nextPing' + 3
        BY <1>0, <2>3, <2>4, <3>1
      <4> QED
        BY <2>3, <2>4, <3>1, <4>1
    <3>2. CASE i # Len(pings) + 1
      <4> DEFINE k == Len(pings) - i
      <4>1. i \in 1 .. Len(pings) /\ k \in 0 .. 2
        BY <1>0, <2>3, <2>5, <3>2
      <4>2. /\ nextPing + 3 + i - Len(pings) = nextPing + 3 - k
            /\ nextPing' + 3 + i - Len(pings') = nextPing' + 3 - (k + 1)
        BY <1>0, <2>3, <2>4, <4>1
      <4>3. pings'[i] = (nextPing + 3 + i - Len(pings)) % 4
        BY <2>3, <4>1
      <4> HIDE DEF k
      <4> QED
        BY <2>6, <4>1, <4>2, <4>3
    <3> QED
      BY <3>1, <3>2
  <2>8. ASSUME NEW i \in 1 .. Len(pongs)
        PROVE  pongs[i] = (nextPing' + 3 + i - Len(pongs) - Len(pings')) % 4
    <3> DEFINE k == Len(pongs) + Len(pings) - i
    <3>1. k \in 0 .. 2
      BY <1>0, <2>5
    <3>2. /\ nextPing + 3 + i - Len(pongs) - Len(pings) = nextPing + 3 - k
          /\ nextPing' + 3 + i - Len(pongs) - Len(pings')
               = nextPing' + 3 - (k + 1)
      BY <1>0, <2>3, <2>4, <3>1
    <3>3. pongs[i] = (nextPing + 3 + i - Len(pongs) - Len(pings)) % 4
      OBVIOUS
    <3> HIDE DEF k
    <3> QED
      BY <2>6, <3>1, <3>2, <3>3
  <2>9. InFlight' <= missed' + 1 /\ pending' # NoPing
    BY <1>0, <2>2, <2>3, <2>5, <2>1
  <2> QED
    BY <2>2, <2>3, <2>4, <2>7, <2>8, <2>9
<1>3. CASE ReadPong
  <2>1. /\ Len(pongs) > 0
        /\ pongs' = Tail(pongs)
        /\ pings' = pings
        /\ nextPing' = nextPing
    BY <1>3 DEF ReadPong
  <2>2. /\ pongs' \in Seq(0 .. 3)
        /\ Len(pongs') = Len(pongs) - 1
        /\ \A i \in 1 .. Len(pongs) - 1 : pongs'[i] = pongs[i + 1]
    BY <2>1
  <2>3. \A i \in 1 .. Len(pongs') :
          pongs'[i] = (nextPing + 3 + i - Len(pongs') - Len(pings)) % 4
    BY <1>0, <2>2
  <2>4. CASE Head(pongs) = pending
    <3>1. pongs[1] = pending /\ pending # NoPing
      BY <2>1, <2>4
    <3>2. (nextPing + 3) % 4 = (nextPing + 4 - Len(pongs) - Len(pings)) % 4
      BY <2>1, <3>1
    <3>3. Len(pongs) + Len(pings) <= 3
      BY <1>0, <1>3 DEF ReadPong, TimersInv
    <3>4. Len(pongs) = 1 /\ Len(pings) = 0
      <4> DEFINE k == Len(pongs) + Len(pings)
      <4>1. k \in 1 .. 3 /\ nextPing + 4 - Len(pongs) - Len(pings) = nextPing + 4 - k
        BY <1>0, <2>1, <3>3
      <4> HIDE DEF k
      <4>2. k = 1
        BY <3>2, <4>1, Ids
      <4> QED
        <5>1. Len(pongs) \in Nat /\ Len(pings) \in Nat /\ Len(pongs) > 0
                /\ Len(pongs) + Len(pings) = 1
          BY <1>0, <2>1, <4>2 DEF k
        <5> QED
          BY ONLY <5>1
    <3>5. pending' = NoPing /\ missed' = 0
      BY <1>3, <2>4 DEF ReadPong
    <3> QED
      BY <2>1, <2>2, <2>3, <3>4, <3>5
  <2>5. CASE Head(pongs) # pending
    <3>1. pending' = pending /\ missed' = missed
      BY <1>3, <2>5 DEF ReadPong
    <3> QED
      BY <1>0, <2>1, <2>2, <2>3, <3>1
  <2> QED
    BY <2>4, <2>5
<1>4. CASE PaneAnswers
  <2>1. /\ Len(pings) > 0
        /\ pings' = Tail(pings)
        /\ pongs' = Append(pongs, Head(pings))
        /\ UNCHANGED <<nextPing, pending, missed>>
    BY <1>4 DEF PaneAnswers
  <2>2. /\ pings' \in Seq(0 .. 3) /\ pongs' \in Seq(0 .. 3)
        /\ Len(pings') = Len(pings) - 1 /\ Len(pongs') = Len(pongs) + 1
        /\ \A i \in 1 .. Len(pings) - 1 : pings'[i] = pings[i + 1]
        /\ \A i \in 1 .. Len(pongs) : pongs'[i] = pongs[i]
        /\ pongs'[Len(pongs) + 1] = pings[1]
    BY <2>1
  <2>3. \A i \in 1 .. Len(pings') :
          pings'[i] = (nextPing + 3 + i - Len(pings')) % 4
    BY <1>0, <2>2
  <2>4. ASSUME NEW i \in 1 .. Len(pongs')
        PROVE  pongs'[i] = (nextPing + 3 + i - Len(pongs') - Len(pings')) % 4
    <3>1. Len(pongs') + Len(pings') = Len(pongs) + Len(pings)
      BY <1>0, <2>2
    <3>2. nextPing + 3 + i - Len(pongs') - Len(pings')
            = nextPing + 3 + i - Len(pongs) - Len(pings)
      BY <1>0, <2>2
    <3>3. CASE i = Len(pongs) + 1
      <4>1. nextPing + 3 + i - Len(pongs) - Len(pings)
              = nextPing + 3 + 1 - Len(pings)
        BY <1>0, <3>3
      <4>2. pings[1] = (nextPing + 3 + 1 - Len(pings)) % 4
        BY <1>0, <2>1
      <4> QED
        BY <2>2, <3>2, <3>3, <4>1, <4>2
    <3>4. CASE i # Len(pongs) + 1
      <4>1. i \in 1 .. Len(pongs)
        BY <1>0, <2>2, <3>4
      <4> QED
        BY <2>2, <3>2, <4>1
    <3> QED
      BY <3>3, <3>4
  <2>5. InFlight' = InFlight
    BY <1>0, <2>2
  <2> QED
    BY <1>0, <2>1, <2>2, <2>3, <2>4, <2>5
<1>5. CASE Tick
  BY <1>5 DEF Tick
<1>6. CASE UNCHANGED vars
  BY <1>6 DEF vars
<1> QED
  BY <1>1, <1>2, <1>3, <1>4, <1>5, <1>6 DEF Next

LEMMA SilenceStep ==
  ASSUME IInv, [Next]_vars
  PROVE  SilenceInv'
<1> USE HeartbeatAssumption DEF IInv, TimersInv, SilenceInv, Elapsed, NoPing, Off
<1> DEFINE rounds == missed * Round
<1>0. /\ MaxMissedPongs = 3
      /\ Round = Interval + Timeout
      /\ missed \in 0 .. 3
      /\ open => /\ missed \in 0 .. 2
                 /\ rounds \in Nat
                 /\ rounds + Round <= MaxSilence
      /\ MaxSilence = 2 * Round + Round
      /\ MaxSilence \in Nat
  BY Rounds DEF MaxMissedPongs, Round
<1>1. CASE RecordTimeout
  <2>1. open /\ toDeadline = 0 /\ missed' = missed + 1 /\ silence' = silence
    BY <1>1 DEF RecordTimeout, DeadlineElapsed
  <2>2. silence = rounds + Round
    BY <1>0, <2>1
  <2>3. (missed + 1) * Round = rounds + Round
    BY <1>0, <2>1, Rounds DEF MaxMissedPongs
  <2>4. CASE missed + 1 < MaxMissedPongs
    BY <1>0, <1>1, <2>1, <2>2, <2>3, <2>4 DEF RecordTimeout, Rest
  <2>5. CASE ~(missed + 1 < MaxMissedPongs)
    <3>1. missed = 2 /\ ~open'
      BY <1>0, <1>1, <2>1, <2>5 DEF RecordTimeout
    <3> QED
      BY <1>0, <2>1, <2>2, <3>1
  <2> QED
    BY <2>4, <2>5
<1>2. CASE StartPing
  BY <1>0, <1>2 DEF StartPing, ShouldStartPing
<1>3. CASE ReadPong
  <2>1. CASE Head(pongs) = pending
    <3>1. 0 * Round = 0
      BY Rounds
    <3> QED
      BY <1>3, <2>1, <3>1 DEF ReadPong, Rest
  <2>2. CASE Head(pongs) # pending
    BY <1>3, <2>2 DEF ReadPong, timerVars
  <2> QED
    BY <2>1, <2>2
<1>4. CASE PaneAnswers
  BY <1>4 DEF PaneAnswers, timerVars
<1>5. CASE Tick
  <2>1. open /\ open' /\ missed' = missed
    BY <1>5 DEF Tick
  <2>2. silence \in Nat /\ silence <= MaxSilence
    BY <1>0, <2>1
  <2> HIDE DEF rounds
  <2>3. silence' = silence + 1
    BY <1>5, <2>2 DEF Tick
  <2>4. silence = rounds + Elapsed
    BY <2>1 DEF rounds
  <2>5. Elapsed' = Elapsed + 1 /\ (toDeadline' # Off => toPing' = 0)
    BY <1>5, <2>1 DEF Tick, CountDown, DeadlineElapsed, ShouldStartPing
  <2>6. rounds' = rounds
    BY <2>1 DEF rounds
  <2>7. rounds \in Nat /\ Elapsed \in Nat
    BY <1>0, <2>1
  <2>8. silence' = rounds' + Elapsed'
    BY <2>3, <2>4, <2>5, <2>6, <2>7
  <2> QED
    BY <2>1, <2>5, <2>8 DEF rounds
<1>6. CASE UNCHANGED vars
  BY <1>6 DEF vars, timerVars
<1> QED
  BY <1>1, <1>2, <1>3, <1>4, <1>5, <1>6 DEF Next

LEMMA Inductive == Spec => []IInv
<1>1. IInv /\ [Next]_vars => IInv'
  BY TimersStep, OrderStep, SilenceStep DEF IInv
<1> QED
  BY InitHolds, <1>1, PTL DEF Spec

-----------------------------------------------------------------------------
\* The types, and with them that no more pings are in flight than misses are
\* allowed: the reason that the ids of the model may repeat.
THEOREM TypeCorrect == Spec => []TypeOK
<1>1. IInv => TypeOK
  <2> SUFFICES ASSUME IInv PROVE TypeOK
    OBVIOUS
  <2>1. silence \in 0 .. MaxSilence + 1
    <3>1. CASE open
      <4> DEFINE rounds == missed * Round
      <4>1. rounds \in Nat /\ rounds + Round <= MaxSilence
        BY <3>1, Rounds DEF IInv, TimersInv, MaxMissedPongs
      <4>2. silence = rounds + Elapsed /\ Elapsed \in 0 .. Round
        BY <3>1, HeartbeatAssumption
           DEF IInv, TimersInv, SilenceInv, Elapsed, Round, Off
      <4> HIDE DEF rounds
      <4> QED
        BY <4>1, <4>2, Rounds
    <3>2. CASE ~open
      BY <3>2, Rounds DEF IInv, SilenceInv
    <3> QED
      BY <3>1, <3>2
  <2>2. pending \in PingIds \cup {NoPing}
    BY DEF IInv, OrderInv, PingIds, MaxMissedPongs
  <2>3. Len(pings) + Len(pongs) <= MaxMissedPongs
    <3>1. missed + (IF pending = NoPing THEN 0 ELSE 1) <= 3
      BY DEF IInv, TimersInv, MaxMissedPongs
    <3>2. Len(pings) + Len(pongs)
            <= missed + (IF pending = NoPing THEN 0 ELSE 1)
      BY DEF IInv, OrderInv, InFlight
    <3>3. missed \in Nat /\ Len(pings) \in Nat /\ Len(pongs) \in Nat
      BY DEF IInv, TimersInv, OrderInv
    <3> QED
      BY <3>1, <3>2, <3>3 DEF MaxMissedPongs
  <2> QED
    BY <2>1, <2>2, <2>3 DEF IInv, TimersInv, OrderInv, TypeOK
<1> QED
  BY <1>1, Inductive, PTL

\* A connection is closed after exactly three silent rounds: not before, and
\* not kept after, whatever pongs come late, for every interval and timeout.
THEOREM ClosesOnTime == Spec => []ClosedWhenSilent
<1>1. IInv => ClosedWhenSilent
  <2> SUFFICES ASSUME IInv PROVE ClosedWhenSilent
    OBVIOUS
  <2>1. CASE open
    <3> DEFINE rounds == missed * Round
    <3>1. rounds \in Nat /\ rounds + Round <= MaxSilence
      BY <2>1, Rounds DEF IInv, TimersInv, MaxMissedPongs
    <3>2. silence = rounds + Elapsed /\ Elapsed \in 0 .. Round
      BY <2>1, HeartbeatAssumption
         DEF IInv, TimersInv, SilenceInv, Elapsed, Round, Off
    <3> HIDE DEF rounds
    <3> QED
      BY <2>1, <3>1, <3>2, Rounds DEF ClosedWhenSilent
  <2>2. CASE ~open
    BY <2>2, Rounds DEF IInv, SilenceInv, ClosedWhenSilent
  <2> QED
    BY <2>1, <2>2
<1> QED
  BY <1>1, Inductive, PTL
=============================================================================
