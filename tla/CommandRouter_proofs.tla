------------------------ MODULE CommandRouter_proofs ------------------------
(***************************************************************************)
(* Proofs about CommandRouter, for any sessions and request ids, any limit *)
(* of the histories and any number of commands.                            *)
(***************************************************************************)
EXTENDS CommandRouter, SequenceTheorems, TLAPS

-----------------------------------------------------------------------------
(* What the helpers on sequences return *)

\* A sequence without its n-th element.
LEMMA RemoveAtElements ==
  ASSUME NEW S, NEW q \in Seq(S), NEW n \in 1 .. Len(q)
  PROVE  /\ RemoveAt(q, n) \in Seq(S)
         /\ Len(RemoveAt(q, n)) = Len(q) - 1
         /\ \A i \in 1 .. Len(q) - 1 :
              RemoveAt(q, n)[i] = q[IF i < n THEN i ELSE i + 1]
<1> DEFINE front == SubSeq(q, 1, n - 1)
           back == SubSeq(q, n + 1, Len(q))
<1>1. /\ front \in Seq(S) /\ Len(front) = n - 1
      /\ \A i \in 1 .. n - 1 : front[i] = q[i]
  BY SubSeqProperties
<1>2. /\ back \in Seq(S) /\ Len(back) = Len(q) - n
      /\ \A i \in 1 .. Len(q) - n : back[i] = q[n + i]
  BY SubSeqProperties
<1>3. RemoveAt(q, n) = front \o back
  BY DEF RemoveAt
<1> HIDE DEF front, back
<1>4. /\ front \o back \in Seq(S)
      /\ Len(front \o back) = Len(front) + Len(back)
      /\ \A i \in 1 .. Len(front) + Len(back) :
           (front \o back)[i] = IF i <= Len(front) THEN front[i] ELSE back[i - Len(front)]
  BY <1>1, <1>2, ConcatProperties
<1> QED
  BY <1>1, <1>2, <1>3, <1>4

\* A sequence without its first n elements.
LEMMA TailElements ==
  ASSUME NEW S, NEW q \in Seq(S), NEW n \in 1 .. Len(q)
  PROVE  LET left == SubSeq(q, n + 1, Len(q))
         IN  /\ left \in Seq(S)
             /\ Len(left) = Len(q) - n
             /\ DOMAIN left = 1 .. Len(q) - n
             /\ \A i \in 1 .. Len(q) - n : left[i] = q[n + i]
<1> DEFINE left == SubSeq(q, n + 1, Len(q))
<1>1. /\ Len(q) \in Nat /\ n \in Nat /\ n <= Len(q)
      /\ \A i \in n + 1 .. Len(q) : q[i] \in S
  BY ElementOfSeq
<1>2. /\ left \in Seq(S)
      /\ Len(left) = IF n + 1 <= Len(q) THEN Len(q) - (n + 1) + 1 ELSE 0
      /\ \A i \in 1 .. Len(q) - (n + 1) + 1 : left[i] = q[(n + 1) + i - 1]
  BY <1>1, SubSeqProperties
<1> HIDE DEF left
<1>3. /\ Len(left) = Len(q) - n
      /\ Len(q) - (n + 1) + 1 = Len(q) - n
  BY <1>1, <1>2
<1>4. ASSUME NEW i \in 1 .. Len(q) - n PROVE left[i] = q[n + i]
  <2>1. (n + 1) + i - 1 = n + i
    BY <1>1
  <2> QED
    BY <1>2, <1>3, <2>1
<1>5. DOMAIN left = 1 .. Len(q) - n
  BY <1>2, <1>3
<1> QED
  BY <1>2, <1>3, <1>4, <1>5 DEF left

\* The records that enter a history come first, and the limit is kept.
LEMMA EnteredElements ==
  ASSUME NEW S, NEW records \in Seq(S), NEW list \in Seq(S)
  PROVE  /\ Entered(records, list) \in Seq(S)
         /\ Len(Entered(records, list)) <= HistoryLimit
         /\ Len(Entered(records, list)) <= Len(records) + Len(list)
         /\ Len(Entered(records, list)) = Len(records) + Len(list)
              \/ Len(Entered(records, list)) = HistoryLimit
         /\ \A n \in 1 .. Len(Entered(records, list)) :
              Entered(records, list)[n] =
                IF n <= Len(records) THEN records[n] ELSE list[n - Len(records)]
<1> DEFINE all == records \o list
           m == IF Len(all) < HistoryLimit THEN Len(all) ELSE HistoryLimit
<1>1. /\ all \in Seq(S)
      /\ Len(all) = Len(records) + Len(list)
      /\ \A i \in 1 .. Len(records) + Len(list) :
           all[i] = IF i <= Len(records) THEN records[i] ELSE list[i - Len(records)]
  BY ConcatProperties
<1>2. Entered(records, list) = SubSeq(all, 1, m)
  BY DEF Entered, Truncated
<1> HIDE DEF all
<1>3. m \in Nat /\ m <= Len(all) /\ m <= HistoryLimit /\ (m = Len(all) \/ m = HistoryLimit)
  BY <1>1, RouterAssumption
<1> HIDE DEF m
<1>4. /\ SubSeq(all, 1, m) \in Seq(S)
      /\ Len(SubSeq(all, 1, m)) = m
      /\ \A i \in 1 .. m : SubSeq(all, 1, m)[i] = all[i]
  <2>1. \A i \in 1 .. m : all[i] \in S
    BY <1>1, <1>3, ElementOfSeq
  <2> QED
    BY <1>1, <1>3, <2>1, SubSeqProperties
<1> QED
  BY <1>1, <1>2, <1>3, <1>4

\* Where a record of a history comes from, and where one goes to.
LEMMA EnteredPlaces ==
  ASSUME NEW S, NEW records \in Seq(S), NEW list \in Seq(S)
  PROVE  /\ \A n \in 1 .. Len(Entered(records, list)) :
              \/ /\ n \in 1 .. Len(records)
                 /\ Entered(records, list)[n] = records[n]
              \/ /\ n > Len(records) /\ n - Len(records) \in 1 .. Len(list)
                 /\ Entered(records, list)[n] = list[n - Len(records)]
         /\ \A n \in 1 .. Len(records) : n <= HistoryLimit =>
              /\ n \in 1 .. Len(Entered(records, list))
              /\ Entered(records, list)[n] = records[n]
         /\ \A n \in 1 .. Len(list) : n + Len(records) <= HistoryLimit =>
              /\ n + Len(records) \in 1 .. Len(Entered(records, list))
              /\ Entered(records, list)[n + Len(records)] = list[n]
<1> DEFINE all == Entered(records, list)
<1>1. /\ Len(all) \in Nat /\ Len(records) \in Nat /\ Len(list) \in Nat
      /\ HistoryLimit \in Nat
  BY EnteredElements, RouterAssumption
<1>2. /\ Len(all) <= Len(records) + Len(list)
      /\ Len(all) = Len(records) + Len(list) \/ Len(all) = HistoryLimit
      /\ \A n \in 1 .. Len(all) :
           all[n] = IF n <= Len(records) THEN records[n] ELSE list[n - Len(records)]
  BY EnteredElements
<1> HIDE DEF all
<1>3. ASSUME NEW n \in 1 .. Len(all)
      PROVE  \/ n \in 1 .. Len(records) /\ all[n] = records[n]
             \/ /\ n > Len(records) /\ n - Len(records) \in 1 .. Len(list)
                /\ all[n] = list[n - Len(records)]
  BY <1>1, <1>2
<1>4. ASSUME NEW n \in 1 .. Len(records), n <= HistoryLimit
      PROVE  n \in 1 .. Len(all) /\ all[n] = records[n]
  BY <1>1, <1>2, <1>4
<1>5. ASSUME NEW n \in 1 .. Len(list), n + Len(records) <= HistoryLimit
      PROVE  n + Len(records) \in 1 .. Len(all) /\ all[n + Len(records)] = list[n]
  <2>1. n + Len(records) \in 1 .. Len(all)
    BY <1>1, <1>2, <1>5
  <2>2. ~(n + Len(records) <= Len(records)) /\ (n + Len(records)) - Len(records) = n
    BY <1>1
  <2> QED
    BY <1>2, <2>1, <2>2
<1> QED
  BY <1>3, <1>4, <1>5 DEF all

-----------------------------------------------------------------------------
(* The inductive invariant *)

\* What the queues hold: commands of their own session in the order they were
\* enqueued, none of whose response was found too large, and numbered in that
\* order.  No counter is ahead of the commands that were made.
QueuesSound ==
  /\ minted <= made
  /\ oversized \subseteq 1 .. made
  /\ \A s \in Sessions :
       /\ nextSequence[s] <= made
       /\ \A n \in DOMAIN queue[s] :
            /\ queue[s][n] \in (1 .. made) \ oversized
            /\ info[queue[s][n]].session = s
       /\ \A m, n \in DOMAIN queue[s] : m < n => queue[s][m] < queue[s][n]
  /\ SequencesIncrease

\* A record of the global history is found in that of its document, not further
\* behind, and preceded by the same records there and here.  No record is of a
\* command that still runs, and none comes twice.
HistoriesSound ==
  /\ \A n \in DOMAIN recent : recent[n][1] \in (1 .. made) \ current
  /\ \A m, n \in DOMAIN recent : recent[m][1] = recent[n][1] => m = n
  /\ \A s \in Sessions :
       /\ \A j \in DOMAIN history[s] :
            /\ history[s][j][1] \in (1 .. made) \ current
            /\ info[history[s][j][1]].session = s
       /\ \A i, j \in DOMAIN history[s] :
            history[s][i][1] = history[s][j][1] => i = j
       /\ \A n \in DOMAIN recent :
            info[recent[n][1]].session = s =>
              \E j \in 1 .. n : j \in DOMAIN history[s] /\ history[s][j] = recent[n]
       /\ \A j \in DOMAIN history[s] : \A n \in DOMAIN recent :
            history[s][j] = recent[n] =>
              \A i \in 1 .. j - 1 : \E m \in 1 .. n - 1 : recent[m] = history[s][i]

RouterInv == TypeOK /\ TasksAreQueued /\ QueuesSound /\ HistoriesSound

\* Commands that leave a queue, for whatever reason, leave the others in order
\* and numbered as they were: those that are left are at places f of the queue.
LEMMA LeavingKeepsQueues ==
  ASSUME TypeOK, QueuesSound, NEW s \in Sessions,
         NEW left \in Seq(Commands), NEW f,
         \A i \in 1 .. Len(left) : f[i] \in DOMAIN queue[s] /\ left[i] = queue[s][f[i]],
         \A i, j \in 1 .. Len(left) : i < j => f[i] < f[j],
         Shorten(s, left), UNCHANGED <<made, minted, info>>,
         NEW lost \in SUBSET ToSet(queue[s]), lost \cap ToSet(left) = {},
         oversized' = oversized \cup lost
  PROVE  /\ QueuesSound'
         /\ queue' \in [Sessions -> Seq(Commands)]
         /\ nextSequence' \in [Sessions -> 0 .. MaxCommands]
<1>1. /\ queue \in [Sessions -> Seq(Commands)]
      /\ nextSequence \in [Sessions -> 0 .. MaxCommands]
      /\ made \in 0 .. MaxCommands
  BY DEF TypeOK
<1>2. /\ queue' \in [Sessions -> Seq(Commands)]
      /\ queue'[s] = left
      /\ \A t \in Sessions \ {s} : queue'[t] = queue[t]
  BY <1>1 DEF Shorten
<1>3. /\ nextSequence' \in [Sessions -> 0 .. MaxCommands]
      /\ left # <<>> => nextSequence'[s] = nextSequence[s]
      /\ nextSequence'[s] \in {0, nextSequence[s]}
      /\ \A t \in Sessions \ {s} : nextSequence'[t] = nextSequence[t]
  BY <1>1, RouterAssumption DEF Shorten
<1>4. ASSUME NEW t \in Sessions
      PROVE  /\ nextSequence'[t] <= made
             /\ \A n \in DOMAIN queue'[t] :
                  /\ queue'[t][n] \in (1 .. made) \ oversized'
                  /\ info[queue'[t][n]].session = t
             /\ \A m, n \in DOMAIN queue'[t] : m < n => queue'[t][m] < queue'[t][n]
  <2>1. nextSequence'[t] <= made
    <3>1. nextSequence[t] <= made
      BY DEF QueuesSound
    <3>2. nextSequence'[t] \in {0, nextSequence[t]}
      BY <1>3
    <3> QED
      BY <1>1, <3>1, <3>2
  <2>2. CASE t = s
    <3>1. DOMAIN left = 1 .. Len(left)
      OBVIOUS
    <3>2. ASSUME NEW n \in DOMAIN left
          PROVE  left[n] \in (1 .. made) \ oversized' /\ info[left[n]].session = s
      <4>1. left[n] = queue[s][f[n]] /\ f[n] \in DOMAIN queue[s]
        BY <3>1
      <4>2. left[n] \in (1 .. made) \ oversized /\ info[left[n]].session = s
        BY <4>1 DEF QueuesSound
      <4>3. left[n] \in ToSet(left)
        BY DEF ToSet
      <4> QED
        BY <4>2, <4>3
    <3>3. ASSUME NEW m \in DOMAIN left, NEW n \in DOMAIN left, m < n
          PROVE  left[m] < left[n]
      <4>1. /\ f[m] \in DOMAIN queue[s] /\ f[n] \in DOMAIN queue[s] /\ f[m] < f[n]
            /\ left[m] = queue[s][f[m]] /\ left[n] = queue[s][f[n]]
        BY <3>1, <3>3
      <4> QED
        BY <4>1 DEF QueuesSound
    <3> QED
      BY <1>2, <2>1, <2>2, <3>2, <3>3
  <2>3. CASE t # s
    <3>1. queue'[t] = queue[t]
      BY <1>2, <2>3
    <3>2. ASSUME NEW n \in DOMAIN queue[t] PROVE queue[t][n] \notin lost
      <4>1. info[queue[t][n]].session = t
        BY DEF QueuesSound
      <4>2. \A k \in lost : info[k].session = s
        BY DEF QueuesSound, ToSet
      <4> QED
        BY <2>3, <4>1, <4>2
    <3>3. \A n \in DOMAIN queue[t] : 
            queue[t][n] \in (1 .. made) \ oversized /\ info[queue[t][n]].session = t
      BY DEF QueuesSound
    <3>4. \A m, n \in DOMAIN queue[t] : m < n => queue[t][m] < queue[t][n]
      BY DEF QueuesSound
    <3> QED
      BY <2>1, <3>1, <3>2, <3>3, <3>4
  <2> QED
    BY <2>2, <2>3
<1>5. oversized' \subseteq 1 .. made' /\ minted' <= made'
  <2>1. ASSUME NEW k \in lost PROVE k \in 1 .. made
    <3>1. PICK n \in DOMAIN queue[s] : k = queue[s][n]
      BY DEF ToSet
    <3> QED
      BY <3>1 DEF QueuesSound
  <2> QED
    BY <2>1 DEF QueuesSound
<1>6. SequencesIncrease'
  <2> SUFFICES ASSUME NEW t \in Sessions
               PROVE  /\ \A m, n \in DOMAIN queue'[t] : m < n =>
                           info[queue'[t][m]].sequence < info[queue'[t][n]].sequence
                      /\ \A n \in DOMAIN queue'[t] :
                           info[queue'[t][n]].sequence < nextSequence'[t]
    BY DEF SequencesIncrease
  <2>1. SequencesIncrease
    BY DEF QueuesSound
  <2>2. CASE t # s
    BY <1>2, <1>3, <2>1, <2>2 DEF SequencesIncrease
  <2>3. CASE t = s
    <3>1. DOMAIN left = 1 .. Len(left)
      OBVIOUS
    <3>2. \A n \in DOMAIN left : f[n] \in DOMAIN queue[s] /\ left[n] = queue[s][f[n]]
      BY <3>1
    <3>3. \A m, n \in DOMAIN left : m < n => f[m] < f[n]
      BY <3>1
    <3>4. DOMAIN left # {} => nextSequence'[s] = nextSequence[s]
      BY <1>3, <3>1
    <3> QED
      BY <1>2, <2>1, <2>3, <3>2, <3>3, <3>4 DEF SequencesIncrease
  <2> QED
    BY <2>2, <2>3
<1> QED
  BY <1>2, <1>3, <1>4, <1>5, <1>6 DEF QueuesSound

\* Those that leave are no longer queued anywhere.
LEMMA LeavingIsGone ==
  ASSUME TypeOK, QueuesSound, NEW s \in Sessions,
         NEW left \in Seq(Commands), NEW gone \in SUBSET ToSet(queue[s]),
         ToSet(left) = ToSet(queue[s]) \ gone, Shorten(s, left)
  PROVE  Queued' = Queued \ gone
<1>1. queue \in [Sessions -> Seq(Commands)]
  BY DEF TypeOK
<1>2. /\ queue'[s] = left
      /\ \A t \in Sessions \ {s} : queue'[t] = queue[t]
  BY <1>1 DEF Shorten
<1>3. \A t \in Sessions \ {s} : ToSet(queue[t]) \cap gone = {}
  <2> SUFFICES ASSUME NEW t \in Sessions \ {s}, NEW k \in ToSet(queue[t]), k \in gone
               PROVE  FALSE
    OBVIOUS
  <2>1. info[k].session = t
    BY DEF QueuesSound, ToSet
  <2>2. info[k].session = s
    BY DEF QueuesSound, ToSet
  <2> QED
    BY <2>1, <2>2
<1>4. \A t \in Sessions : ToSet(queue'[t]) = ToSet(queue[t]) \ gone
  BY <1>2, <1>3
<1> QED
  BY <1>4 DEF Queued

\* Running commands of one session that end, the newest first, keep the
\* histories together, wherever they are cut.
LEMMA FinishKeepsHistories ==
  ASSUME TypeOK, HistoriesSound, NEW s \in Sessions, NEW records \in Seq(Records),
         \A n \in DOMAIN records :
           /\ records[n][1] \in current \cap (1 .. made)
           /\ info[records[n][1]].session = s,
         \A m, n \in DOMAIN records : records[m][1] = records[n][1] => m = n,
         Finish(s, records), UNCHANGED <<made, info>>
  PROVE  /\ HistoriesSound'
         /\ recent' \in Seq(Records) /\ Len(recent') <= HistoryLimit
         /\ history' \in [Sessions -> Seq(Records)]
         /\ \A t \in Sessions : Len(history'[t]) <= HistoryLimit
<1> DEFINE L == Len(records)
           own == history[s]
           all == Entered(records, recent)
           mine == Entered(records, own)
<1>t. /\ recent \in Seq(Records) /\ own \in Seq(Records)
      /\ history \in [Sessions -> Seq(Records)]
      /\ Len(recent) <= HistoryLimit /\ Len(own) <= HistoryLimit
      /\ L \in Nat /\ DOMAIN records = 1 .. L
      /\ DOMAIN recent = 1 .. Len(recent) /\ DOMAIN own = 1 .. Len(own)
      /\ Len(recent) \in Nat /\ Len(own) \in Nat /\ HistoryLimit \in Nat
  BY RouterAssumption DEF TypeOK
<1>r. /\ all \in Seq(Records) /\ DOMAIN all = 1 .. Len(all)
      /\ Len(all) \in Nat /\ Len(all) <= HistoryLimit
  BY <1>t, EnteredElements
<1>rf. \A n \in 1 .. Len(all) :
         \/ n \in 1 .. L /\ all[n] = records[n]
         \/ n > L /\ n - L \in 1 .. Len(recent) /\ all[n] = recent[n - L]
  BY <1>t, EnteredPlaces
<1>rn. \A n \in 1 .. L : n <= HistoryLimit => n \in 1 .. Len(all) /\ all[n] = records[n]
  BY <1>t, EnteredPlaces
<1>rs. \A n \in 1 .. Len(recent) : n + L <= HistoryLimit =>
         n + L \in 1 .. Len(all) /\ all[n + L] = recent[n]
  BY <1>t, EnteredPlaces
<1>o. /\ mine \in Seq(Records) /\ DOMAIN mine = 1 .. Len(mine)
      /\ Len(mine) \in Nat /\ Len(mine) <= HistoryLimit
  BY <1>t, EnteredElements
<1>of. \A n \in 1 .. Len(mine) :
         \/ n \in 1 .. L /\ mine[n] = records[n]
         \/ n > L /\ n - L \in 1 .. Len(own) /\ mine[n] = own[n - L]
  BY <1>t, EnteredPlaces
<1>on. \A n \in 1 .. L : n <= HistoryLimit => n \in 1 .. Len(mine) /\ mine[n] = records[n]
  BY <1>t, EnteredPlaces
<1>os. \A n \in 1 .. Len(own) : n + L <= HistoryLimit =>
         n + L \in 1 .. Len(mine) /\ mine[n + L] = own[n]
  BY <1>t, EnteredPlaces
<1>p. /\ recent' = all
      /\ history' = [history EXCEPT ![s] = mine]
      /\ current' = current \ {x[1] : x \in ToSet(records)}
  BY DEF Finish
<1>c. \A k : k \in current' => k \in current /\ \A n \in 1 .. L : k # records[n][1]
  BY <1>t, <1>p DEF ToSet
<1> HIDE DEF L, own, all, mine
<1>h. /\ history' \in [Sessions -> Seq(Records)] /\ history'[s] = mine
      /\ \A t \in Sessions \ {s} : history'[t] = history[t]
  BY <1>t, <1>p, <1>o
\* The new records are of commands that ran, the old ones of others.
<1>a. \A n \in 1 .. L : records[n][1] \in current /\ records[n][1] \in 1 .. made
                         /\ info[records[n][1]].session = s
  BY <1>t
<1>b. \A n \in 1 .. Len(recent) : recent[n][1] \in (1 .. made) \ current
  BY <1>t DEF HistoriesSound
<1>d. \A j \in 1 .. Len(own) : /\ own[j][1] \in (1 .. made) \ current
                               /\ info[own[j][1]].session = s
  BY <1>t DEF HistoriesSound, own
<1>e. \A m, n \in 1 .. L : records[m][1] = records[n][1] => m = n
  BY <1>t
<1>f. \A m, n \in 1 .. Len(recent) : recent[m][1] = recent[n][1] => m = n
  BY <1>t DEF HistoriesSound
<1>g. \A i, j \in 1 .. Len(own) : own[i][1] = own[j][1] => i = j
  <2>1. \A i, j \in DOMAIN history[s] : history[s][i][1] = history[s][j][1] => i = j
    BY DEF HistoriesSound
  <2> QED
    BY <1>t, <2>1 DEF own
<1>u. ASSUME NEW t \in Sessions, NEW n \in 1 .. Len(recent), info[recent[n][1]].session = t
      PROVE  \E j \in 1 .. n : j \in DOMAIN history[t] /\ history[t][j] = recent[n]
  <2>1. n \in DOMAIN recent
    BY <1>t
  <2> QED
    BY <1>u, <2>1 DEF HistoriesSound
<1>v. ASSUME NEW t \in Sessions, NEW j \in DOMAIN history[t], NEW n \in 1 .. Len(recent),
             history[t][j] = recent[n], NEW i \in 1 .. j - 1
      PROVE  \E m \in 1 .. n - 1 : recent[m] = history[t][i]
  <2>1. n \in DOMAIN recent
    BY <1>t
  <2> QED
    BY <1>v, <2>1 DEF HistoriesSound
<1>w. ASSUME NEW j \in 1 .. Len(own), NEW n \in 1 .. Len(recent), own[j] = recent[n],
             NEW i \in 1 .. j - 1
      PROVE  \E m \in 1 .. n - 1 : recent[m] = own[i]
  <2>1. j \in DOMAIN history[s] /\ history[s][j] = recent[n]
    BY <1>t, <1>w DEF own
  <2>2. \E m \in 1 .. n - 1 : recent[m] = history[s][i]
    BY <1>v, <2>1
  <2> QED
    BY <2>2 DEF own
<1>1. ASSUME NEW n \in 1 .. Len(all) PROVE all[n][1] \in (1 .. made) \ current'
  BY <1>a, <1>b, <1>c, <1>rf
<1>2. ASSUME NEW m \in 1 .. Len(all), NEW n \in 1 .. Len(all), all[m][1] = all[n][1]
      PROVE  m = n
  <2>1. CASE m \in 1 .. L /\ n \in 1 .. L /\ all[m] = records[m] /\ all[n] = records[n]
    BY <1>2, <1>e, <2>1
  <2>2. CASE /\ m - L \in 1 .. Len(recent) /\ all[m] = recent[m - L]
             /\ n - L \in 1 .. Len(recent) /\ all[n] = recent[n - L]
    <3>1. m - L = n - L
      BY <1>2, <1>f, <2>2
    <3> QED
      BY <1>t, <3>1
  <2>3. \A i \in 1 .. L, j \in 1 .. Len(recent) : records[i][1] # recent[j][1]
    BY <1>a, <1>b
  <2> QED
    BY <1>2, <1>rf, <2>1, <2>2, <2>3
<1>3. ASSUME NEW j \in 1 .. Len(mine)
      PROVE  mine[j][1] \in (1 .. made) \ current' /\ info[mine[j][1]].session = s
  BY <1>a, <1>d, <1>c, <1>of
<1>4. ASSUME NEW i \in 1 .. Len(mine), NEW j \in 1 .. Len(mine), mine[i][1] = mine[j][1]
      PROVE  i = j
  <2>1. CASE i \in 1 .. L /\ j \in 1 .. L /\ mine[i] = records[i] /\ mine[j] = records[j]
    BY <1>4, <1>e, <2>1
  <2>2. CASE /\ i - L \in 1 .. Len(own) /\ mine[i] = own[i - L]
             /\ j - L \in 1 .. Len(own) /\ mine[j] = own[j - L]
    <3>1. i - L = j - L
      BY <1>4, <1>g, <2>2
    <3> QED
      BY <1>t, <3>1
  <2>3. \A n \in 1 .. L, k \in 1 .. Len(own) : records[n][1] # own[k][1]
    BY <1>a, <1>d
  <2> QED
    BY <1>4, <1>of, <2>1, <2>2, <2>3
\* A record of the global history in that of its document.
<1>5. ASSUME NEW t \in Sessions, NEW n \in 1 .. Len(all), info[all[n][1]].session = t
      PROVE  \E j \in 1 .. n : j \in DOMAIN history'[t] /\ history'[t][j] = all[n]
  <2>0. n <= HistoryLimit
    BY <1>t, <1>r
  <2>1. CASE n \in 1 .. L /\ all[n] = records[n]
    <3>1. t = s
      BY <1>5, <1>a, <2>1
    <3>2. n \in 1 .. Len(mine) /\ mine[n] = records[n]
      BY <1>on, <2>0, <2>1
    <3> QED
      BY <1>h, <1>o, <2>1, <3>1, <3>2
  <2>2. CASE n > L /\ n - L \in 1 .. Len(recent) /\ all[n] = recent[n - L]
    <3>2. PICK j \in 1 .. n - L : j \in DOMAIN history[t] /\ history[t][j] = recent[n - L]
      BY <1>5, <1>u, <2>2
    <3>3. j \in 1 .. n /\ j + L <= n /\ j + L \in 1 .. n
      BY <1>t, <2>2
    <3>4. CASE t = s
      <4>1. j \in 1 .. Len(own) /\ own[j] = recent[n - L]
        BY <1>t, <3>2, <3>4 DEF own
      <4>2. j + L <= HistoryLimit
        BY <1>t, <2>0, <3>3
      <4>3. j + L \in 1 .. Len(mine) /\ mine[j + L] = own[j]
        BY <1>os, <4>1, <4>2
      <4> QED
        BY <1>h, <1>o, <2>2, <3>3, <3>4, <4>1, <4>3
    <3>5. CASE t # s
      BY <1>h, <2>2, <3>2, <3>3, <3>5
    <3> QED
      BY <3>4, <3>5
  <2> QED
    BY <1>rf, <2>1, <2>2
\* What precedes it there precedes it here: an old record after the new ones.
<1>s. ASSUME NEW n \in 1 .. Len(all), n > L, NEW x, 
             \E m \in 1 .. (n - L) - 1 : m \in 1 .. Len(recent) /\ recent[m] = x
      PROVE  \E m \in 1 .. n - 1 : all[m] = x
  <2>1. PICK m \in 1 .. (n - L) - 1 : m \in 1 .. Len(recent) /\ recent[m] = x
    BY <1>s
  <2>2. m + L \in 1 .. n - 1 /\ m + L <= HistoryLimit
    BY <1>t, <1>r, <1>s
  <2>3. all[m + L] = recent[m]
    BY <1>rs, <2>1, <2>2
  <2> QED
    BY <2>1, <2>2, <2>3
<1>6. ASSUME NEW t \in Sessions, NEW j \in DOMAIN history'[t], NEW n \in 1 .. Len(all),
             history'[t][j] = all[n], NEW i \in 1 .. j - 1
      PROVE  \E m \in 1 .. n - 1 : all[m] = history'[t][i]
  <2>1. CASE t = s
    <3>0. /\ j \in 1 .. Len(mine) /\ mine[j] = all[n] /\ history'[t][i] = mine[i]
      BY <1>6, <1>h, <1>o, <2>1
    <3>i. i \in 1 .. Len(mine) /\ i < j /\ i \in Nat /\ j \in Nat
      BY <1>o, <3>0
    <3>1. CASE n \in 1 .. L /\ all[n] = records[n]
      <4>1. j \in 1 .. L /\ mine[j] = records[j]
        BY <1>of, <1>a, <1>d, <3>0, <3>1
      <4>2. j = n
        BY <1>e, <3>0, <3>1, <4>1
      <4>3. i \in 1 .. L /\ i <= HistoryLimit /\ i \in 1 .. n - 1
        BY <1>t, <1>o, <3>i, <4>1, <4>2
      <4> QED
        BY <1>rn, <1>on, <3>0, <4>3
    <3>2. CASE n > L /\ n - L \in 1 .. Len(recent) /\ all[n] = recent[n - L]
      <4>1. CASE i \in 1 .. L /\ mine[i] = records[i]
        <5>1. i <= HistoryLimit /\ i \in 1 .. n - 1
          BY <1>t, <1>o, <3>i, <3>2, <4>1
        <5> QED
          BY <1>rn, <3>0, <4>1, <5>1
      <4>2. CASE i > L /\ i - L \in 1 .. Len(own) /\ mine[i] = own[i - L]
        <5>1. j - L \in 1 .. Len(own) /\ mine[j] = own[j - L]
          <6>1. j \notin 1 .. L
            BY <1>t, <3>i, <4>2
          <6> QED
            BY <1>of, <3>0, <6>1
        <5>2. i - L \in 1 .. (j - L) - 1
          BY <1>t, <3>i, <4>2
        <5>3. \E m \in 1 .. (n - L) - 1 : recent[m] = own[i - L]
          BY <1>w, <3>0, <3>2, <5>1, <5>2
        <5>4. \A m \in 1 .. (n - L) - 1 : m \in 1 .. Len(recent)
          BY <1>t, <3>2
        <5>5. PICK x : x = own[i - L]
          OBVIOUS
        <5>6. \E m \in 1 .. (n - L) - 1 :
                m \in 1 .. Len(recent) /\ recent[m] = x
          BY <5>3, <5>4, <5>5
        <5>7. \E m \in 1 .. n - 1 : all[m] = x
          BY <1>s, <3>2, <5>6
        <5> QED
          BY <3>0, <4>2, <5>5, <5>7
      <4> QED
        BY <1>of, <3>i, <4>1, <4>2
    <3> QED
      BY <1>rf, <3>1, <3>2
  <2>2. CASE t # s
    <3>1. /\ j \in DOMAIN history[t] /\ history[t][j] = all[n]
          /\ history'[t] = history[t]
      BY <1>6, <1>h, <2>2
    <3>2. n > L /\ n - L \in 1 .. Len(recent) /\ all[n] = recent[n - L]
      <4>1. info[history[t][j][1]].session = t
        BY <3>1 DEF HistoriesSound
      <4> QED
        BY <1>rf, <1>a, <2>2, <3>1, <4>1
    <3>3. \E m \in 1 .. (n - L) - 1 : recent[m] = history[t][i]
      BY <1>v, <3>1, <3>2
    <3>4. \A m \in 1 .. (n - L) - 1 : m \in 1 .. Len(recent)
      BY <1>t, <3>2
    <3>5. PICK x : x = history[t][i]
      OBVIOUS
    <3>6. \E m \in 1 .. (n - L) - 1 : m \in 1 .. Len(recent) /\ recent[m] = x
      BY <3>3, <3>4, <3>5
    <3>7. \E m \in 1 .. n - 1 : all[m] = x
      BY <1>s, <3>2, <3>6
    <3> QED
      BY <3>1, <3>5, <3>7
  <2> QED
    BY <2>1, <2>2
<1>7. ASSUME NEW t \in Sessions, t # s
      PROVE  /\ \A j \in DOMAIN history[t] :
                  /\ history[t][j][1] \in (1 .. made) \ current'
                  /\ info[history[t][j][1]].session = t
             /\ \A i, j \in DOMAIN history[t] :
                  history[t][i][1] = history[t][j][1] => i = j
  <2>1. \A j \in DOMAIN history[t] :
          /\ history[t][j][1] \in (1 .. made) \ current
          /\ info[history[t][j][1]].session = t
    BY DEF HistoriesSound
  <2>2. \A i, j \in DOMAIN history[t] : history[t][i][1] = history[t][j][1] => i = j
    BY DEF HistoriesSound
  <2> QED
    BY <1>c, <2>1, <2>2
<1>8. ASSUME NEW t \in Sessions
      PROVE  /\ \A j \in DOMAIN history'[t] :
                  /\ history'[t][j][1] \in (1 .. made) \ current'
                  /\ info[history'[t][j][1]].session = t
             /\ \A i, j \in DOMAIN history'[t] :
                  history'[t][i][1] = history'[t][j][1] => i = j
             /\ Len(history'[t]) <= HistoryLimit
  <2>1. CASE t = s
    BY <1>h, <1>o, <1>3, <1>4, <2>1
  <2>2. CASE t # s
    BY <1>h, <1>7, <2>2 DEF TypeOK
  <2> QED
    BY <2>1, <2>2
<1>9. HistoriesSound'
  <2>1. \A n \in DOMAIN recent' : recent'[n][1] \in (1 .. made') \ current'
    BY <1>p, <1>r, <1>1
  <2>2. \A m, n \in DOMAIN recent' : recent'[m][1] = recent'[n][1] => m = n
    BY <1>p, <1>r, <1>2
  <2>3. ASSUME NEW t \in Sessions
        PROVE  /\ \A n \in DOMAIN recent' :
                    info'[recent'[n][1]].session = t =>
                      \E j \in 1 .. n : j \in DOMAIN history'[t] /\ history'[t][j] = recent'[n]
               /\ \A j \in DOMAIN history'[t] : \A n \in DOMAIN recent' :
                    history'[t][j] = recent'[n] =>
                      \A i \in 1 .. j - 1 : \E m \in 1 .. n - 1 : recent'[m] = history'[t][i]
    BY <1>p, <1>r, <1>5, <1>6
  <2>4. \A t \in Sessions :
          /\ \A j \in DOMAIN history'[t] :
               /\ history'[t][j][1] \in (1 .. made') \ current'
               /\ info'[history'[t][j][1]].session = t
          /\ \A i, j \in DOMAIN history'[t] :
               history'[t][i][1] = history'[t][j][1] => i = j
    BY <1>8
  <2> QED
    BY <2>1, <2>2, <2>3, <2>4 DEF HistoriesSound
<1> QED
  BY <1>9, <1>p, <1>r, <1>h, <1>8

-----------------------------------------------------------------------------
(* Every step keeps the invariant *)

\* A command that is removed from its queue leaves the others at their places.
LEMMA RemovedFrom ==
  ASSUME TypeOK, QueuesSound, NEW s \in Sessions, NEW n \in DOMAIN queue[s]
  PROVE  /\ Without(s, n) \in Seq(Commands)
         /\ ToSet(Without(s, n)) = ToSet(queue[s]) \ {queue[s][n]}
         /\ queue[s][n] \in ToSet(queue[s])
         /\ \E f : /\ \A i \in 1 .. Len(Without(s, n)) :
                        f[i] \in DOMAIN queue[s] /\ Without(s, n)[i] = queue[s][f[i]]
                   /\ \A i, j \in 1 .. Len(Without(s, n)) : i < j => f[i] < f[j]
<1> DEFINE q == queue[s]
           left == Without(s, n)
           f == [i \in 1 .. Len(q) - 1 |-> IF i < n THEN i ELSE i + 1]
<1>1. q \in Seq(Commands) /\ DOMAIN q = 1 .. Len(q) /\ Len(q) \in Nat
  BY DEF TypeOK
<1>2. /\ left \in Seq(Commands) /\ Len(left) = Len(q) - 1
      /\ \A i \in 1 .. Len(q) - 1 : left[i] = q[IF i < n THEN i ELSE i + 1]
  BY <1>1, RemoveAtElements DEF Without
<1>3. \A i, j \in DOMAIN q : i < j => q[i] < q[j]
  BY DEF QueuesSound
<1>4. \A i \in DOMAIN q : q[i] \in Nat
  <2>1. \A i \in DOMAIN q : q[i] \in Commands
    BY <1>1
  <2>2. Commands \subseteq Nat
    BY RouterAssumption DEF Commands
  <2> QED
    BY <2>1, <2>2
<1>5. n \in 1 .. Len(q)
  BY <1>1
<1> HIDE DEF q, left
<1>6. ToSet(left) = ToSet(q) \ {q[n]}
  <2>0. DOMAIN left = 1 .. Len(q) - 1
    BY <1>2
  <2>1. ASSUME NEW k \in ToSet(left) PROVE k \in ToSet(q) \ {q[n]}
    <3>1. PICK i \in 1 .. Len(q) - 1 : k = left[i]
      BY <2>0 DEF ToSet
    <3>2. PICK m \in 1 .. Len(q) : m # n /\ k = q[m]
      BY <1>1, <1>2, <1>5, <3>1
    <3>3. q[m] # q[n]
      BY <1>1, <1>3, <1>4, <1>5, <3>2
    <3> QED
      BY <1>1, <3>2, <3>3 DEF ToSet
  <2>2. ASSUME NEW k \in ToSet(q) \ {q[n]} PROVE k \in ToSet(left)
    <3>1. PICK m \in 1 .. Len(q) : m # n /\ k = q[m]
      BY <1>1 DEF ToSet
    <3>2. CASE m < n
      <4>1. m \in 1 .. Len(q) - 1 /\ left[m] = q[m]
        BY <1>1, <1>2, <1>5, <3>2
      <4> QED
        BY <2>0, <3>1, <4>1 DEF ToSet
    <3>3. CASE m > n
      <4>1. m - 1 \in 1 .. Len(q) - 1 /\ ~(m - 1 < n) /\ (m - 1) + 1 = m
        BY <1>1, <1>5, <3>1, <3>3
      <4>2. left[m - 1] = q[m]
        BY <1>2, <4>1
      <4> QED
        BY <2>0, <3>1, <4>1, <4>2 DEF ToSet
    <3> QED
      BY <1>1, <1>5, <3>1, <3>2, <3>3
  <2> QED
    BY <2>1, <2>2
<1>7. /\ \A i \in 1 .. Len(left) : f[i] \in DOMAIN q /\ left[i] = q[f[i]]
      /\ \A i, j \in 1 .. Len(left) : i < j => f[i] < f[j]
  BY <1>1, <1>2, <1>5
<1>8. q[n] \in ToSet(q)
  BY <1>1, <1>5 DEF ToSet
<1> QED
  BY <1>2, <1>6, <1>7, <1>8 DEF q, left

\* complete, fail and cancel.
LEMMA FinishedKeepsInv ==
  ASSUME RouterInv, NEW s \in Sessions, NEW n \in DOMAIN queue[s],
         NEW result \in Results, RemoveCommand(s, n),
         FinishCommand(s, queue[s][n], result),
         UNCHANGED <<made, minted, due, expiring, info, oversized>>
  PROVE  RouterInv'
<1>k. PICK k : k = queue[s][n]
  OBVIOUS
<1>l. PICK left : left = Without(s, n)
  OBVIOUS
<1> DEFINE records == <<<<k, result>>>>
<1>0. TypeOK /\ TasksAreQueued /\ QueuesSound /\ HistoriesSound
  BY DEF RouterInv
<1>1. /\ left \in Seq(Commands)
      /\ ToSet(left) = ToSet(queue[s]) \ {k}
      /\ k \in ToSet(queue[s])
      /\ \E f : /\ \A i \in 1 .. Len(left) : f[i] \in DOMAIN queue[s] /\ left[i] = queue[s][f[i]]
                /\ \A i, j \in 1 .. Len(left) : i < j => f[i] < f[j]
  <2>1. /\ Without(s, n) \in Seq(Commands)
        /\ ToSet(Without(s, n)) = ToSet(queue[s]) \ {queue[s][n]}
        /\ queue[s][n] \in ToSet(queue[s])
        /\ \E f : /\ \A i \in 1 .. Len(Without(s, n)) :
                       f[i] \in DOMAIN queue[s] /\ Without(s, n)[i] = queue[s][f[i]]
                  /\ \A i, j \in 1 .. Len(Without(s, n)) : i < j => f[i] < f[j]
    BY <1>0, RemovedFrom
  <2> QED
    BY <1>k, <1>l, <2>1
<1>2. Shorten(s, left)
  BY <1>l DEF RemoveCommand
<1>3. k \in (1 .. made) \ oversized /\ info[k].session = s /\ k \in current
  BY <1>0, <1>1, <1>k DEF QueuesSound, TasksAreQueued, Queued
<1>4. /\ QueuesSound'
      /\ queue' \in [Sessions -> Seq(Commands)]
      /\ nextSequence' \in [Sessions -> 0 .. MaxCommands]
  <2>1. PICK f : /\ \A i \in 1 .. Len(left) : f[i] \in DOMAIN queue[s] /\ left[i] = queue[s][f[i]]
                 /\ \A i, j \in 1 .. Len(left) : i < j => f[i] < f[j]
    BY <1>1
  <2>2. /\ oversized' = oversized \cup {} /\ {} \cap ToSet(left) = {}
        /\ {} \in SUBSET ToSet(queue[s]) /\ UNCHANGED <<made, minted, info>>
    OBVIOUS
  <2> QED
    BY <1>0, <1>1, <1>2, <2>1, <2>2, LeavingKeepsQueues, Zenon
<1>5. Queued' = Queued \ {k}
  <2>1. {k} \in SUBSET ToSet(queue[s])
    BY <1>1
  <2> QED
    BY <1>0, <1>1, <1>2, <2>1, LeavingIsGone, Zenon
<1>6. k \in Commands /\ Finish(s, records)
  BY <1>0, <1>3, <1>k DEF FinishCommand, TypeOK, Commands
<1>7. /\ records \in Seq(Records) /\ DOMAIN records = {1} /\ records[1][1] = k
      /\ {x[1] : x \in ToSet(records)} = {k}
  BY <1>6 DEF Records, ToSet
<1> HIDE DEF records
<1>8. /\ HistoriesSound'
      /\ recent' \in Seq(Records) /\ Len(recent') <= HistoryLimit
      /\ history' \in [Sessions -> Seq(Records)]
      /\ \A t \in Sessions : Len(history'[t]) <= HistoryLimit
  BY <1>0, <1>3, <1>6, <1>7, FinishKeepsHistories
<1>9. current' = current \ {k}
  BY <1>6, <1>7 DEF Finish
<1>10. TasksAreQueued'
  BY <1>0, <1>3, <1>5, <1>9 DEF TasksAreQueued
<1>11. TypeOK'
  BY <1>0, <1>4, <1>8, <1>9 DEF TypeOK
<1> QED
  BY <1>4, <1>8, <1>10, <1>11 DEF RouterInv

\* A response over the limit: the command has left its queue and stays a task.
LEMMA OversizedKeepsInv ==
  ASSUME RouterInv, NEW s \in Sessions, NEW r, CompleteOversized(s, r)
  PROVE  RouterInv'
<1>1. PICK n \in DOMAIN queue[s] :
        RemoveCommand(s, n) /\ oversized' = oversized \cup {queue[s][n]}
  BY DEF CompleteOversized
<1>k. PICK k : k = queue[s][n]
  OBVIOUS
<1>l. PICK left : left = Without(s, n)
  OBVIOUS
<1>0. TypeOK /\ TasksAreQueued /\ QueuesSound /\ HistoriesSound
  BY DEF RouterInv
<1>2. /\ left \in Seq(Commands)
      /\ ToSet(left) = ToSet(queue[s]) \ {k}
      /\ k \in ToSet(queue[s])
      /\ \E f : /\ \A i \in 1 .. Len(left) : f[i] \in DOMAIN queue[s] /\ left[i] = queue[s][f[i]]
                /\ \A i, j \in 1 .. Len(left) : i < j => f[i] < f[j]
  <2>1. /\ Without(s, n) \in Seq(Commands)
        /\ ToSet(Without(s, n)) = ToSet(queue[s]) \ {queue[s][n]}
        /\ queue[s][n] \in ToSet(queue[s])
        /\ \E f : /\ \A i \in 1 .. Len(Without(s, n)) :
                       f[i] \in DOMAIN queue[s] /\ Without(s, n)[i] = queue[s][f[i]]
                  /\ \A i, j \in 1 .. Len(Without(s, n)) : i < j => f[i] < f[j]
    BY <1>0, RemovedFrom
  <2> QED
    BY <1>k, <1>l, <2>1
<1>3. Shorten(s, left) /\ oversized' = oversized \cup {k}
  BY <1>1, <1>k, <1>l DEF RemoveCommand
<1>4. k \in Commands /\ k \in Queued
  BY <1>0, <1>2, <1>k DEF TypeOK, Queued
<1>u. UNCHANGED <<made, minted, due, expiring, info, current, recent, history>>
  BY DEF CompleteOversized, storeVars
<1>5. /\ QueuesSound'
      /\ queue' \in [Sessions -> Seq(Commands)]
      /\ nextSequence' \in [Sessions -> 0 .. MaxCommands]
  <2>1. PICK f : /\ \A i \in 1 .. Len(left) : f[i] \in DOMAIN queue[s] /\ left[i] = queue[s][f[i]]
                 /\ \A i, j \in 1 .. Len(left) : i < j => f[i] < f[j]
    BY <1>2
  <2>2. /\ {k} \cap ToSet(left) = {} /\ {k} \in SUBSET ToSet(queue[s])
        /\ UNCHANGED <<made, minted, info>>
    BY <1>2, <1>u
  <2> QED
    BY <1>0, <1>2, <1>3, <2>1, <2>2, LeavingKeepsQueues, Zenon
<1>6. Queued' = Queued \ {k}
  <2>1. {k} \in SUBSET ToSet(queue[s])
    BY <1>2
  <2> QED
    BY <1>0, <1>2, <1>3, <2>1, LeavingIsGone, Zenon
<1>7. TasksAreQueued'
  BY <1>0, <1>3, <1>4, <1>6, <1>u DEF TasksAreQueued
<1>8. HistoriesSound'
  BY <1>0, <1>u DEF HistoriesSound
<1>9. TypeOK'
  BY <1>0, <1>3, <1>4, <1>5, <1>u DEF TypeOK
<1> QED
  BY <1>5, <1>7, <1>8, <1>9 DEF RouterInv

\* A command that is enqueued: the newest, last in its queue, a current task.
LEMMA EnqueueKeepsInv ==
  ASSUME RouterInv, NEW s \in Sessions, NEW r \in Requests, Enqueue(s, r),
         minted' \in {minted, minted + 1}
  PROVE  RouterInv'
<1> DEFINE q == queue[s]
           k == made + 1
           entry == [session |-> s, request |-> r, sequence |-> nextSequence[s]]
           Entry == [session : Sessions, request : Requests, sequence : 0 .. MaxCommands]
<1>0. TypeOK /\ TasksAreQueued /\ QueuesSound /\ HistoriesSound
  BY DEF RouterInv
<1>1. /\ queue \in [Sessions -> Seq(Commands)] /\ q \in Seq(Commands)
      /\ nextSequence \in [Sessions -> 0 .. MaxCommands]
      /\ made \in Nat /\ minted \in Nat /\ due \in 0 .. made
      /\ info \in [1 .. made -> Entry] /\ made < MaxCommands /\ MaxCommands \in Nat
  <2>1. /\ queue \in [Sessions -> Seq(Commands)]
        /\ nextSequence \in [Sessions -> 0 .. MaxCommands]
        /\ made \in 0 .. MaxCommands /\ minted \in 0 .. MaxCommands /\ due \in 0 .. made
        /\ info \in [1 .. made -> Entry]
    BY <1>0 DEF TypeOK
  <2>2. made < MaxCommands /\ MaxCommands \in Nat
    BY RouterAssumption DEF Enqueue
  <2> QED
    BY <2>1, <2>2
<1>2. /\ made' = k
      /\ info' = Append(info, entry)
      /\ queue' = [queue EXCEPT ![s] = Append(@, made + 1)]
      /\ nextSequence' = [nextSequence EXCEPT ![s] = @ + 1]
      /\ current' = current \cup {k}
      /\ UNCHANGED <<due, expiring, recent, history, oversized>>
  BY DEF Enqueue
<1>3. k \in Commands /\ k \in Nat /\ k <= MaxCommands
  BY <1>1 DEF Commands
<1>4. /\ \A t \in Sessions : nextSequence[t] <= made
      /\ \A t \in Sessions : \A n \in DOMAIN queue[t] :
           queue[t][n] \in (1 .. made) \ oversized /\ info[queue[t][n]].session = t
      /\ \A t \in Sessions : \A m, n \in DOMAIN queue[t] : m < n => queue[t][m] < queue[t][n]
      /\ minted <= made /\ oversized \subseteq 1 .. made
  BY <1>0 DEF QueuesSound
<1>5. entry \in Entry
  BY <1>1
<1> HIDE DEF Entry, entry
<1>6. /\ info' \in [1 .. k -> Entry]
      /\ info'[k] = entry
      /\ \A c \in 1 .. made : info'[c] = info[c]
  <2>1. info \in Seq(Entry) /\ Len(info) = made
    BY <1>1
  <2>2. /\ info' \in Seq(Entry) /\ Len(info') = k /\ info'[k] = entry
        /\ \A c \in 1 .. made : info'[c] = info[c]
    BY <1>1, <1>2, <1>5, <2>1
  <2> QED
    BY <2>2
<1>7. /\ Append(q, k) \in Seq(Commands) /\ Len(Append(q, k)) = Len(q) + 1
      /\ Len(q) \in Nat /\ DOMAIN q = 1 .. Len(q)
      /\ DOMAIN Append(q, k) = 1 .. Len(q) + 1
      /\ Append(q, k)[Len(q) + 1] = k
      /\ \A n \in DOMAIN q : Append(q, k)[n] = q[n]
  BY <1>1, <1>3
<1>8. /\ queue' \in [Sessions -> Seq(Commands)]
      /\ queue'[s] = Append(q, k)
      /\ \A t \in Sessions \ {s} : queue'[t] = queue[t]
  BY <1>1, <1>2, <1>7
<1>9. /\ nextSequence' \in [Sessions -> 0 .. MaxCommands]
      /\ nextSequence'[s] = nextSequence[s] + 1
      /\ \A t \in Sessions \ {s} : nextSequence'[t] = nextSequence[t]
  BY <1>1, <1>2, <1>4
<1> HIDE DEF k, q
<1>10. ASSUME NEW t \in Sessions
       PROVE  /\ nextSequence'[t] <= k
              /\ \A n \in DOMAIN queue'[t] :
                   /\ queue'[t][n] \in (1 .. k) \ oversized
                   /\ info'[queue'[t][n]].session = t
              /\ \A m, n \in DOMAIN queue'[t] : m < n => queue'[t][m] < queue'[t][n]
              /\ \A m, n \in DOMAIN queue'[t] : m < n =>
                   info'[queue'[t][m]].sequence < info'[queue'[t][n]].sequence
              /\ \A n \in DOMAIN queue'[t] : info'[queue'[t][n]].sequence < nextSequence'[t]
  <2>1. /\ \A m, n \in DOMAIN queue[t] : m < n =>
             info[queue[t][m]].sequence < info[queue[t][n]].sequence
        /\ \A n \in DOMAIN queue[t] : info[queue[t][n]].sequence < nextSequence[t]
    BY <1>0 DEF QueuesSound, SequencesIncrease
  <2>2. \A n \in DOMAIN queue[t] :
          /\ queue[t][n] \in (1 .. made) \ oversized
          /\ info'[queue[t][n]] = info[queue[t][n]]
          /\ info[queue[t][n]].session = t
    BY <1>4, <1>6
  <2>3. made \in Nat /\ k = made + 1 /\ nextSequence[t] \in 0 .. made
    BY <1>1, <1>4 DEF k
  <2>4. CASE t # s
    <3>1. queue'[t] = queue[t] /\ nextSequence'[t] = nextSequence[t]
      BY <1>8, <1>9, <2>4
    <3>2. \A m, n \in DOMAIN queue[t] : m < n => queue[t][m] < queue[t][n]
      BY <1>4
    <3> QED
      BY <2>1, <2>2, <2>3, <3>1, <3>2
  <2>5. CASE t = s
    <3>1. /\ DOMAIN queue'[s] = 1 .. Len(q) + 1 /\ queue'[s][Len(q) + 1] = k
          /\ \A n \in 1 .. Len(q) : queue'[s][n] = queue[s][n]
          /\ DOMAIN queue[s] = 1 .. Len(q) /\ Len(q) \in Nat
      BY <1>7, <1>8 DEF q
    <3>2. nextSequence'[s] = nextSequence[s] + 1
      BY <1>9
    <3>3. info'[k].session = s /\ info'[k].sequence = nextSequence[s] /\ k \notin oversized
      BY <1>4, <1>6, <2>3 DEF entry
    <3>4. \A n \in 1 .. Len(q) :
            /\ queue[s][n] \in (1 .. made) \ oversized
            /\ info'[queue[s][n]].session = s
            /\ info'[queue[s][n]].sequence < nextSequence[s]
      BY <2>1, <2>2, <2>5, <3>1
    <3>5. \A m, n \in 1 .. Len(q) : m < n =>
            /\ queue[s][m] < queue[s][n]
            /\ info'[queue[s][m]].sequence < info'[queue[s][n]].sequence
      BY <1>4, <2>1, <2>2, <2>5, <3>1
    <3>6. \A n \in DOMAIN queue'[s] : n \in 1 .. Len(q) \/ n = Len(q) + 1
      BY <3>1
    <3>7. \A n \in 1 .. Len(q) : info'[queue[s][n]].sequence \in Nat
      BY <1>6, <2>3, <3>4 DEF Entry
    <3>8. /\ nextSequence'[s] <= k
          /\ \A n \in DOMAIN queue'[s] :
               /\ queue'[s][n] \in (1 .. k) \ oversized
               /\ info'[queue'[s][n]].session = s
      <4>1. nextSequence'[s] <= k
        BY <2>3, <2>5, <3>2
      <4>2. ASSUME NEW n \in DOMAIN queue'[s]
            PROVE  queue'[s][n] \in (1 .. k) \ oversized /\ info'[queue'[s][n]].session = s
        <5>1. CASE n \in 1 .. Len(q)
          <6>1. queue'[s][n] = queue[s][n]
            BY <3>1, <5>1
          <6>2. queue[s][n] \in 1 .. k
            BY <2>3, <3>4, <5>1
          <6> QED
            BY <3>4, <5>1, <6>1, <6>2
        <5>2. CASE n = Len(q) + 1
          BY <2>3, <3>1, <3>3, <5>2
        <5> QED
          BY <3>6, <5>1, <5>2
      <4> QED
        BY <4>1, <4>2
    <3>9. ASSUME NEW m \in DOMAIN queue'[s], NEW n \in DOMAIN queue'[s], m < n
          PROVE  /\ queue'[s][m] < queue'[s][n]
                 /\ info'[queue'[s][m]].sequence < info'[queue'[s][n]].sequence
      <4>1. m \in 1 .. Len(q)
        BY <3>1, <3>9
      <4>2. CASE n \in 1 .. Len(q)
        BY <3>1, <3>5, <3>9, <4>1, <4>2
      <4>3. CASE n = Len(q) + 1
        BY <2>3, <3>1, <3>3, <3>4, <4>1, <4>3
      <4> QED
        BY <3>6, <4>2, <4>3
    <3>10. ASSUME NEW n \in DOMAIN queue'[s]
           PROVE  info'[queue'[s][n]].sequence < nextSequence'[s]
      <4>1. CASE n \in 1 .. Len(q)
        <5>1. queue'[s][n] = queue[s][n]
          BY <3>1, <4>1
        <5>2. /\ info'[queue[s][n]].sequence \in Nat
              /\ info'[queue[s][n]].sequence < nextSequence[s]
          BY <3>4, <3>7, <4>1
        <5> QED
          BY <2>3, <2>5, <3>2, <5>1, <5>2
      <4>2. CASE n = Len(q) + 1
        BY <2>3, <2>5, <3>1, <3>2, <3>3, <4>2
      <4> QED
        BY <3>6, <4>1, <4>2
    <3> QED
      BY <2>5, <3>8, <3>9, <3>10
  <2> QED
    BY <2>4, <2>5
<1>11. QueuesSound'
  <2>1. minted' <= made' /\ oversized' \subseteq 1 .. made'
    BY <1>1, <1>2, <1>4 DEF k
  <2>2. SequencesIncrease'
    BY <1>10 DEF SequencesIncrease
  <2>3. ASSUME NEW t \in Sessions
        PROVE  /\ nextSequence'[t] <= made'
               /\ \A n \in DOMAIN queue'[t] :
                    /\ queue'[t][n] \in (1 .. made') \ oversized'
                    /\ info'[queue'[t][n]].session = t
               /\ \A m, n \in DOMAIN queue'[t] : m < n => queue'[t][m] < queue'[t][n]
    BY <1>2, <1>10 DEF k
  <2> QED
    BY <2>1, <2>2, <2>3 DEF QueuesSound
<1>12. TasksAreQueued'
  <2>1. \A t \in Sessions \ {s} : ToSet(queue'[t]) = ToSet(queue[t])
    BY <1>8
  <2>2. ToSet(queue'[s]) = ToSet(queue[s]) \cup {k}
    <3>1. /\ DOMAIN queue'[s] = (DOMAIN q) \cup {Len(q) + 1}
          /\ queue'[s][Len(q) + 1] = k
          /\ \A n \in DOMAIN q : queue'[s][n] = q[n]
      BY <1>7, <1>8
    <3> QED
      BY <3>1 DEF ToSet, q
  <2>3. Queued' = Queued \cup {k}
    BY <2>1, <2>2 DEF Queued
  <2> QED
    BY <1>0, <1>2, <2>3 DEF TasksAreQueued
<1>13. HistoriesSound'
  <2>1. k \notin 1 .. made /\ \A c \in 1 .. made : c \in 1 .. k
    BY <1>1 DEF k
  <2>2. /\ \A n \in DOMAIN recent : recent[n][1] \in (1 .. made) \ current
        /\ \A t \in Sessions : \A j \in DOMAIN history[t] :
             history[t][j][1] \in (1 .. made) \ current
    BY <1>0 DEF HistoriesSound
  <2>3. /\ \A n \in DOMAIN recent : recent[n][1] \in (1 .. k) \ current'
        /\ \A t \in Sessions : \A j \in DOMAIN history[t] :
             history[t][j][1] \in (1 .. k) \ current'
    BY <1>2, <2>1, <2>2
  <2>4. /\ \A n \in DOMAIN recent : info'[recent[n][1]] = info[recent[n][1]]
        /\ \A t \in Sessions : \A j \in DOMAIN history[t] :
             info'[history[t][j][1]] = info[history[t][j][1]]
    BY <1>6, <2>2
  <2>5. /\ \A m, n \in DOMAIN recent : recent[m][1] = recent[n][1] => m = n
        /\ \A t \in Sessions :
             /\ \A j \in DOMAIN history[t] : info[history[t][j][1]].session = t
             /\ \A i, j \in DOMAIN history[t] :
                  history[t][i][1] = history[t][j][1] => i = j
             /\ \A n \in DOMAIN recent :
                  info[recent[n][1]].session = t =>
                    \E j \in 1 .. n : j \in DOMAIN history[t] /\ history[t][j] = recent[n]
             /\ \A j \in DOMAIN history[t] : \A n \in DOMAIN recent :
                  history[t][j] = recent[n] =>
                    \A i \in 1 .. j - 1 : \E m \in 1 .. n - 1 : recent[m] = history[t][i]
    BY <1>0 DEF HistoriesSound
  <2>6. /\ \A t \in Sessions : \A j \in DOMAIN history[t] : info'[history[t][j][1]].session = t
        /\ \A t \in Sessions : \A n \in DOMAIN recent :
             info'[recent[n][1]].session = t =>
               \E j \in 1 .. n : j \in DOMAIN history[t] /\ history[t][j] = recent[n]
    BY <2>4, <2>5
  <2>7. recent' = recent /\ history' = history /\ made' = k
    BY <1>2
  <2> QED
    BY <2>3, <2>5, <2>6, <2>7 DEF HistoriesSound
<1>14. TypeOK'
  <2>1. made' \in 0 .. MaxCommands /\ minted' \in 0 .. MaxCommands /\ due' \in 0 .. made'
    BY <1>1, <1>2, <1>4 DEF k
  <2>2. info' \in [1 .. made' -> Entry]
    BY <1>2, <1>6
  <2>3. current' \subseteq Commands
    BY <1>0, <1>2, <1>3 DEF TypeOK
  <2> QED
    BY <1>0, <1>2, <1>8, <1>9, <2>1, <2>2, <2>3 DEF TypeOK, Entry
<1> QED
  BY <1>11, <1>12, <1>13, <1>14 DEF RouterInv

\* The commands of one session that are past their deadline.
LEMMA ExpiryKeepsInv ==
  ASSUME RouterInv, NEW s \in Sessions, NEW n \in DOMAIN queue[s], ExpireSession(s, n)
  PROVE  RouterInv'
<1>q. PICK q : q = queue[s]
  OBVIOUS
<1>l. PICK left : left = SubSeq(q, n + 1, Len(q))
  OBVIOUS
<1>r. PICK records : records = [m \in 1 .. n |-> <<q[n + 1 - m], "timeout">>]
  OBVIOUS
<1> DEFINE f == [i \in 1 .. Len(left) |-> n + i]
           gone == {q[m] : m \in 1 .. n}
<1>0. TypeOK /\ TasksAreQueued /\ QueuesSound /\ HistoriesSound
  BY DEF RouterInv
<1>1. /\ q \in Seq(Commands) /\ Len(q) \in Nat /\ DOMAIN q = 1 .. Len(q) /\ n \in 1 .. Len(q)
      /\ \A m \in DOMAIN q : q[m] \in Commands
  BY <1>0, <1>q DEF TypeOK
<1>2. /\ Shorten(s, left) /\ Finish(s, records)
      /\ expiring' = expiring \ {s}
      /\ UNCHANGED <<made, minted, due, info, oversized>>
  BY <1>q, <1>l, <1>r DEF ExpireSession
<1>3. /\ left \in Seq(Commands) /\ Len(left) = Len(q) - n /\ DOMAIN left = 1 .. Len(q) - n
      /\ \A i \in 1 .. Len(q) - n : left[i] = q[n + i]
  BY <1>1, <1>l, TailElements
<1>4. /\ records \in Seq(Records) /\ DOMAIN records = 1 .. n
      /\ \A m \in 1 .. n : records[m] = <<q[n + 1 - m], "timeout">> /\ n + 1 - m \in 1 .. n
  <2>1. n \in Nat /\ \A m \in 1 .. n : n + 1 - m \in 1 .. n /\ n + 1 - m \in 1 .. Len(q)
    BY <1>1
  <2>2. \A m \in 1 .. n : <<q[n + 1 - m], "timeout">> \in Records
    BY <1>1, <2>1 DEF Records, Results
  <2>3. records \in [1 .. n -> Records]
    BY <1>r, <2>2
  <2>4. records \in Seq(Records) /\ DOMAIN records = 1 .. n
    BY <2>1, <2>3
  <2>5. \A m \in 1 .. n : records[m] = <<q[n + 1 - m], "timeout">>
    BY <1>r
  <2> QED
    BY <2>1, <2>4, <2>5
<1>5. /\ \A m \in DOMAIN q : q[m] \in (1 .. made) \ oversized /\ info[q[m]].session = s
      /\ \A i, j \in DOMAIN q : i < j => q[i] < q[j]
  BY <1>0, <1>q DEF QueuesSound
<1>6. \A i, j \in DOMAIN q : q[i] = q[j] => i = j
  <2>1. Commands \subseteq Nat
    BY RouterAssumption DEF Commands
  <2> QED
    BY <1>1, <1>5, <2>1
<1>7. \A i \in DOMAIN q : q[i] \in current
  BY <1>0, <1>q DEF TasksAreQueued, Queued, ToSet
<1>8. /\ QueuesSound'
      /\ queue' \in [Sessions -> Seq(Commands)]
      /\ nextSequence' \in [Sessions -> 0 .. MaxCommands]
  <2>1. /\ \A i \in 1 .. Len(left) : f[i] \in DOMAIN queue[s] /\ left[i] = queue[s][f[i]]
        /\ \A i, j \in 1 .. Len(left) : i < j => f[i] < f[j]
    <3>1. Len(left) = Len(q) - n /\ n \in Nat /\ \A i \in 1 .. Len(left) : f[i] = n + i
      BY <1>1, <1>3
    <3> HIDE DEF f
    <3>2. \A i \in 1 .. Len(left) : n + i \in DOMAIN q /\ left[i] = q[n + i]
      BY <1>1, <1>3, <3>1
    <3> QED
      BY <1>1, <1>q, <3>1, <3>2
  <2> HIDE DEF f
  <2>2. /\ oversized' = oversized \cup {} /\ {} \cap ToSet(left) = {}
        /\ {} \in SUBSET ToSet(queue[s]) /\ UNCHANGED <<made, minted, info>>
    BY <1>2
  <2> QED
    BY <1>0, <1>2, <1>3, <2>1, <2>2, LeavingKeepsQueues, Zenon
<1>9. Queued' = Queued \ gone
  <2>1. gone \in SUBSET ToSet(queue[s])
    BY <1>1, <1>q DEF ToSet
  <2>2. ToSet(left) = ToSet(q) \ gone
    <3>1. ASSUME NEW k \in ToSet(left) PROVE k \in ToSet(q) \ gone
      <4>1. PICK i \in 1 .. Len(q) - n : k = q[n + i]
        BY <1>3 DEF ToSet
      <4>2. n + i \in DOMAIN q /\ \A m \in 1 .. n : m \in DOMAIN q /\ m # n + i
        BY <1>1
      <4> QED
        BY <1>6, <4>1, <4>2 DEF ToSet
    <3>2. ASSUME NEW k \in ToSet(q) \ gone PROVE k \in ToSet(left)
      <4>1. PICK m \in DOMAIN q : k = q[m]
        BY DEF ToSet
      <4>2. m - n \in 1 .. Len(q) - n /\ n + (m - n) = m
        BY <1>1, <4>1
      <4>3. left[m - n] = k /\ m - n \in DOMAIN left
        BY <1>3, <4>1, <4>2
      <4> QED
        BY <4>3 DEF ToSet
    <3> QED
      BY <3>1, <3>2
  <2>3. ToSet(left) = ToSet(queue[s]) \ gone
    BY <1>q, <2>2
  <2> HIDE DEF gone
  <2> QED
    BY <1>0, <1>2, <1>3, <2>1, <2>3, LeavingIsGone, Zenon
<1>10. {x[1] : x \in ToSet(records)} = gone
  <2>1. ASSUME NEW x \in ToSet(records) PROVE x[1] \in gone
    <3>1. PICK m \in 1 .. n : x = records[m]
      BY <1>4 DEF ToSet
    <3> QED
      BY <1>4, <3>1
  <2>2. ASSUME NEW m \in 1 .. n PROVE \E x \in ToSet(records) : x[1] = q[m]
    <3>1. n + 1 - m \in 1 .. n /\ n + 1 - (n + 1 - m) = m
      BY <1>1
    <3>2. records[n + 1 - m] = <<q[m], "timeout">> /\ records[n + 1 - m] \in ToSet(records)
      BY <1>4, <3>1 DEF ToSet
    <3> QED
      BY <3>2
  <2> QED
    BY <2>1, <2>2
<1>11. current' = current \ gone
  BY <1>2, <1>10 DEF Finish
<1>12. TasksAreQueued'
  <2>1. gone \cap oversized = {}
    BY <1>1, <1>5
  <2> HIDE DEF gone
  <2> QED
    BY <1>0, <1>2, <1>9, <1>11, <2>1 DEF TasksAreQueued
<1>13. /\ HistoriesSound'
       /\ recent' \in Seq(Records) /\ Len(recent') <= HistoryLimit
       /\ history' \in [Sessions -> Seq(Records)]
       /\ \A t \in Sessions : Len(history'[t]) <= HistoryLimit
  <2>1. ASSUME NEW m \in DOMAIN records
        PROVE  /\ records[m][1] \in current \cap (1 .. made)
               /\ info[records[m][1]].session = s
    <3>1. records[m][1] = q[n + 1 - m] /\ n + 1 - m \in DOMAIN q
      BY <1>1, <1>4
    <3> QED
      BY <1>5, <1>7, <3>1
  <2>2. ASSUME NEW i \in DOMAIN records, NEW j \in DOMAIN records,
               records[i][1] = records[j][1]
        PROVE  i = j
    <3>1. \A m \in DOMAIN records :
            records[m][1] = q[n + 1 - m] /\ n + 1 - m \in DOMAIN q
      <4> SUFFICES ASSUME NEW m \in 1 .. n
                   PROVE  records[m][1] = q[n + 1 - m] /\ n + 1 - m \in DOMAIN q
        BY <1>4
      <4>1. n + 1 - m \in DOMAIN q
        BY <1>1
      <4>2. records[m] = <<q[n + 1 - m], "timeout">>
        BY <1>4
      <4> QED
        BY <4>1, <4>2
    <3>2. n + 1 - i = n + 1 - j
      BY <1>6, <2>2, <3>1, Zenon
    <3> QED
      BY <1>1, <1>4, <3>2
  <2> QED
    BY <1>0, <1>2, <1>4, <2>1, <2>2, FinishKeepsHistories, Zenon
<1>14. TypeOK'
  <2> HIDE DEF gone
  <2> QED
    BY <1>0, <1>2, <1>8, <1>11, <1>13 DEF TypeOK
<1> QED
  BY <1>8, <1>12, <1>13, <1>14 DEF RouterInv

-----------------------------------------------------------------------------
(* The theorems *)

LEMMA InitInv == Init => RouterInv
<1> SUFFICES ASSUME Init PROVE RouterInv
  OBVIOUS
<1>1. HistoryLimit \in Nat /\ MaxCommands \in Nat /\ 0 \in 0 .. MaxCommands
  BY RouterAssumption
<1>2. /\ <<>> \in Seq(Records) /\ <<>> \in Seq(Commands) /\ Len(<<>>) = 0
      /\ DOMAIN <<>> = {} /\ 1 .. 0 = {}
  OBVIOUS
<1>3. TypeOK
  <2>1. queue \in [Sessions -> Seq(Commands)] /\ nextSequence \in [Sessions -> 0 .. MaxCommands]
    BY <1>1, <1>2 DEF Init
  <2>2. history \in [Sessions -> Seq(Records)] /\ \A s \in Sessions : Len(history[s]) <= HistoryLimit
    BY <1>1, <1>2 DEF Init
  <2>3. info \in [1 .. made -> [session : Sessions, request : Requests, sequence : 0 .. MaxCommands]]
    BY <1>2 DEF Init
  <2> QED
    BY <1>1, <1>2, <2>1, <2>2, <2>3 DEF Init, TypeOK
<1>4. \A s \in Sessions : queue[s] = <<>> /\ history[s] = <<>> /\ nextSequence[s] = 0
  BY DEF Init
<1>5. TasksAreQueued
  BY <1>2, <1>4 DEF Init, TasksAreQueued, Queued, ToSet
<1>6. SequencesIncrease
  BY <1>2, <1>4 DEF SequencesIncrease
<1>7. QueuesSound
  BY <1>1, <1>2, <1>4, <1>6 DEF Init, QueuesSound
<1>8. HistoriesSound
  BY <1>2, <1>4 DEF Init, HistoriesSound
<1> QED
  BY <1>3, <1>5, <1>7, <1>8 DEF RouterInv

\* Steps that only tell which commands are past their deadline.
LEMMA ClockKeepsInv ==
  ASSUME RouterInv,
         UNCHANGED <<queue, nextSequence, minted, made, current, recent, history, info,
                     oversized>>,
         due' \in 0 .. made, expiring' \subseteq Sessions
  PROVE  RouterInv'
<1>1. TypeOK'
  BY DEF RouterInv, TypeOK
<1>2. TasksAreQueued'
  BY DEF RouterInv, TasksAreQueued, Queued
<1>3. QueuesSound'
  BY DEF RouterInv, QueuesSound, SequencesIncrease
<1>4. HistoriesSound'
  BY DEF RouterInv, HistoriesSound
<1> QED
  BY <1>1, <1>2, <1>3, <1>4 DEF RouterInv

LEMMA NextInv == RouterInv /\ [Next]_vars => RouterInv'
<1> SUFFICES ASSUME RouterInv, [Next]_vars PROVE RouterInv'
  OBVIOUS
<1>1. ASSUME NEW s \in Sessions, NEW r \in ChosenIds, EnqueueChosen(s, r)
      PROVE  RouterInv'
  BY <1>1, EnqueueKeepsInv DEF EnqueueChosen, Requests
<1>2. ASSUME NEW s \in Sessions, EnqueueMinted(s)
      PROVE  RouterInv'
  <2>1. <<"request", minted + 1>> \in Requests
    <3>1. /\ minted \in Nat /\ minted <= made /\ made \in Nat /\ MaxCommands \in Nat
      BY RouterAssumption DEF RouterInv, TypeOK, QueuesSound
    <3>2. made < MaxCommands
      BY <1>2 DEF EnqueueMinted, Enqueue
    <3> QED
      BY <3>1, <3>2 DEF Requests, Minted
  <2>2. PICK r \in Requests : r = <<"request", minted + 1>>
    BY <2>1
  <2>3. Enqueue(s, r) /\ minted' \in {minted, minted + 1}
    BY <1>2, <2>2 DEF EnqueueMinted
  <2> QED
    BY <2>3, EnqueueKeepsInv, Zenon
<1>3. ASSUME NEW s \in Sessions, NEW r \in Requests, NEW result \in Results,
             Complete(s, r, result) \/ Abort(s, r, result)
      PROVE  RouterInv'
  <2>1. PICK n \in DOMAIN queue[s] :
          RemoveCommand(s, n) /\ FinishCommand(s, queue[s][n], result)
    BY <1>3 DEF Complete, Abort
  <2>2. UNCHANGED <<made, minted, due, expiring, info, oversized>>
    BY <1>3 DEF Complete, Abort
  <2> QED
    BY <2>1, <2>2, FinishedKeepsInv, Zenon
<1>4. ASSUME NEW s \in Sessions, NEW r, CompleteOversized(s, r)
      PROVE  RouterInv'
  BY <1>4, OversizedKeepsInv, Zenon
<1>0. due \in 0 .. made /\ made \in Nat /\ expiring \subseteq Sessions
  BY RouterAssumption DEF RouterInv, TypeOK
<1>5. ASSUME DeadlinePasses PROVE RouterInv'
  <2>1. due' \in 0 .. made
    BY <1>0, <1>5 DEF DeadlinePasses
  <2> QED
    BY <1>0, <1>5, <2>1, ClockKeepsInv DEF DeadlinePasses, storeVars
<1>6. ASSUME ExpireTimeouts PROVE RouterInv'
  <2>1. due' \in 0 .. made /\ expiring' \subseteq Sessions
    BY <1>0, <1>6 DEF ExpireTimeouts
  <2> QED
    BY <1>6, <2>1, ClockKeepsInv DEF ExpireTimeouts, storeVars
<1>7. ASSUME NEW s \in Sessions, NEW n \in DOMAIN queue[s], ExpireSession(s, n)
      PROVE  RouterInv'
  BY <1>7, ExpiryKeepsInv
<1>8. CASE UNCHANGED vars
  BY <1>0, <1>8, ClockKeepsInv DEF vars, routerVars, storeVars
<1>9. {"success", "failure"} \subseteq Results /\ {"failure", "cancelled"} \subseteq Results
  BY DEF Results
<1> QED
  BY <1>1, <1>2, <1>3, <1>4, <1>5, <1>6, <1>7, <1>8, <1>9 DEF Next

\* RouterInv is an inductive invariant of the router.
THEOREM RouterInvariant == Spec => []RouterInv
BY InitInv, NextInv, PTL DEF Spec

\* The variables keep their types and the histories their limit.
THEOREM TypeCorrect == Spec => []TypeOK
<1>1. RouterInv => TypeOK
  BY DEF RouterInv
<1> QED
  BY <1>1, RouterInvariant, PTL

\* The current tasks of the UI are the queued commands and those whose response
\* was too large (command_router.rs, state_store.rs: finish_command).
THEOREM TasksStayQueued == Spec => []TasksAreQueued
<1>1. RouterInv => TasksAreQueued
  BY DEF RouterInv
<1> QED
  BY <1>1, RouterInvariant, PTL

\* The sequence numbers of a queue increase, and the next one is above them,
\* however often the queue was emptied and made anew (command_queue.rs).
THEOREM SequencesStayOrdered == Spec => []SequencesIncrease
<1>1. RouterInv => SequencesIncrease
  BY DEF RouterInv, QueuesSound
<1> QED
  BY <1>1, RouterInvariant, PTL

\* No task is both running and over, and what the global history says of a
\* document is the newest part of what the document's own history says,
\* wherever the limit cuts the two (state_store.rs: finish_command).
THEOREM HistoriesStayTogether == Spec => []HistoriesAgree
<1>1. RouterInv => HistoriesAgree
  <2> SUFFICES ASSUME RouterInv PROVE HistoriesAgree
    OBVIOUS
  <2>1. TypeOK /\ HistoriesSound
    BY DEF RouterInv
  <2>2. Len(recent) <= HistoryLimit /\ \A s \in Sessions : Len(history[s]) <= HistoryLimit
    BY <2>1 DEF TypeOK
  <2>3. Listed(recent) \cap current = {}
    BY <2>1 DEF HistoriesSound, Listed
  <2>4. \A m, n \in DOMAIN recent : recent[m][1] = recent[n][1] => m = n
    BY <2>1 DEF HistoriesSound
  <2>5. ASSUME NEW n \in DOMAIN recent
        PROVE  LET own == history[info[recent[n][1]].session]
               IN  \E j \in DOMAIN own :
                     /\ own[j] = recent[n]
                     /\ \A i \in 1 .. j - 1 : \E m \in 1 .. n - 1 : recent[m] = own[i]
    <3>1. PICK s \in Sessions : s = info[recent[n][1]].session
      BY <2>1 DEF TypeOK, HistoriesSound
    <3>2. PICK j \in DOMAIN history[s] : history[s][j] = recent[n]
      BY <2>1, <3>1 DEF HistoriesSound
    <3>3. \A i \in 1 .. j - 1 : \E m \in 1 .. n - 1 : recent[m] = history[s][i]
      BY <2>1, <3>2 DEF HistoriesSound
    <3> QED
      BY <3>1, <3>2, <3>3
  <2> QED
    BY <2>2, <2>3, <2>4, <2>5 DEF HistoriesAgree
<1> QED
  BY <1>1, RouterInvariant, PTL

-----------------------------------------------------------------------------
(* The abstract life of a command *)

\* A queue that is empty has no counter (remove_command drops both).
EmptyCountsFromZero == \A s \in Sessions : queue[s] = <<>> => nextSequence[s] = 0

LEMMA CountersKept ==
  ASSUME RouterInv, EmptyCountsFromZero, [Next]_vars
  PROVE  EmptyCountsFromZero'
<1>0. /\ queue \in [Sessions -> Seq(Commands)]
      /\ nextSequence \in [Sessions -> 0 .. MaxCommands]
  BY DEF RouterInv, TypeOK
<1>1. ASSUME NEW s \in Sessions, NEW left, Shorten(s, left)
      PROVE  EmptyCountsFromZero'
  BY <1>0, <1>1 DEF Shorten, EmptyCountsFromZero
<1>2. ASSUME NEW s \in Sessions, NEW r, Enqueue(s, r)
      PROVE  EmptyCountsFromZero'
  <2>1. queue'[s] = Append(queue[s], made + 1) /\ queue[s] \in Seq(Commands)
    BY <1>0, <1>2 DEF Enqueue
  <2>2. queue'[s] # <<>>
    BY <2>1
  <2>3. \A t \in Sessions \ {s} : queue'[t] = queue[t] /\ nextSequence'[t] = nextSequence[t]
    BY <1>0, <1>2 DEF Enqueue
  <2> QED
    BY <2>2, <2>3 DEF EmptyCountsFromZero
<1>3. ASSUME UNCHANGED <<queue, nextSequence>> PROVE EmptyCountsFromZero'
  BY <1>3 DEF EmptyCountsFromZero
<1> QED
  BY <1>1, <1>2, <1>3 DEF Next, EnqueueChosen, EnqueueMinted, Complete, CompleteOversized, Abort,
     DeadlinePasses, ExpireTimeouts, ExpireSession, RemoveCommand, vars, routerVars

LifeInv == RouterInv /\ EmptyCountsFromZero

\* The commands in flight are those in the queues that no pass has still to
\* remove.
FlightIsQueued ==
  \A k : k \in InFlight <=>
    \E s \in Sessions : \E n \in DOMAIN queue[s] :
      k = queue[s][n] /\ ~(s \in expiring /\ k <= due)

\* A session counts on from its counter while a command of it is in flight.
CountsInFlight ==
  \A s \in Sessions :
    SinceIdle[s] = IF \E k \in InFlight : info[k].session = s THEN nextSequence[s] ELSE 0

LEMMA FlightQueued == LifeInv => FlightIsQueued
<1> SUFFICES ASSUME LifeInv PROVE FlightIsQueued
  OBVIOUS
<1>1. current \ oversized = Queued
  BY DEF LifeInv, RouterInv, QueuesSound, TasksAreQueued, Queued, ToSet
<1>2. \A k : k \in Queued <=> \E s \in Sessions : \E n \in DOMAIN queue[s] : k = queue[s][n]
  BY DEF Queued, ToSet
<1>3. \A s \in Sessions : \A n \in DOMAIN queue[s] : info[queue[s][n]].session = s
  BY DEF LifeInv, RouterInv, QueuesSound
<1> QED
  BY <1>1, <1>2, <1>3 DEF InFlight, Leaving, FlightIsQueued

LEMMA FlightCounts == LifeInv => CountsInFlight
<1> SUFFICES ASSUME LifeInv, NEW s \in Sessions
             PROVE  SinceIdle[s] = IF \E k \in InFlight : info[k].session = s
                                   THEN nextSequence[s] ELSE 0
  BY DEF CountsInFlight
<1>1. \A t \in Sessions : \A n \in DOMAIN queue[t] : info[queue[t][n]].session = t
  BY DEF LifeInv, RouterInv, QueuesSound
<1>2. (\E k \in InFlight : info[k].session = s)
        <=> \E n \in DOMAIN queue[s] : ~(s \in expiring /\ queue[s][n] <= due)
  BY <1>1, FlightQueued DEF FlightIsQueued
<1>3. queue[s] \in Seq(Commands)
  BY DEF LifeInv, RouterInv, TypeOK
<1>4. queue[s] # <<>> => 1 \in DOMAIN queue[s]
  BY <1>3
<1>5. queue[s] = <<>> => nextSequence[s] = 0
  BY DEF LifeInv, EmptyCountsFromZero
<1>6. SinceIdle[s] = IF s \in expiring /\ \A n \in DOMAIN queue[s] : queue[s][n] <= due
                     THEN 0 ELSE nextSequence[s]
  BY DEF SinceIdle, Overdue
<1> QED
  BY <1>2, <1>4, <1>5, <1>6

\* Commands that leave a queue, or are marked for it, leave the abstract life.
LEMMA Leaves ==
  ASSUME LifeInv, LifeInv', info' = info, NEW gone, InFlight' = InFlight \ gone,
         \A s \in Sessions : nextSequence'[s] # nextSequence[s] => queue'[s] = <<>>
  PROVE  Life!Leave(gone)
<1>1. FlightIsQueued' /\ CountsInFlight' /\ CountsInFlight
  BY FlightQueued, FlightCounts, PTL
<1>2. ASSUME NEW s \in Sessions
      PROVE  SinceIdle'[s] = IF \E k \in InFlight \ gone : info[k].session = s
                             THEN SinceIdle[s] ELSE 0
  <2>1. SinceIdle'[s] =
          IF \E k \in InFlight' : info'[k].session = s THEN nextSequence'[s] ELSE 0
    BY <1>1 DEF CountsInFlight
  <2>2. CASE \E k \in InFlight \ gone : info[k].session = s
    <3>1. SinceIdle[s] = nextSequence[s]
      BY <1>1, <2>2 DEF CountsInFlight
    <3>2. PICK k \in InFlight' : info'[k].session = s
      BY <2>2
    <3>3. queue'[s] # <<>>
      <4>1. PICK t \in Sessions : \E n \in DOMAIN queue'[t] : k = queue'[t][n]
        BY <1>1, <3>2 DEF FlightIsQueued
      <4>2. t = s
        BY <3>2, <4>1 DEF LifeInv, RouterInv, QueuesSound
      <4> QED
        BY <4>1, <4>2
    <3> QED
      BY <2>1, <2>2, <3>1, <3>2, <3>3
  <2>3. CASE ~ \E k \in InFlight \ gone : info[k].session = s
    BY <2>1, <2>3
  <2> QED
    BY <2>2, <2>3
<1>3. SinceIdle' = [s \in Sessions |-> SinceIdle'[s]]
  BY DEF SinceIdle
<1>4. SinceIdle' = [s \in Sessions |-> IF \E k \in InFlight \ gone : info[k].session = s
                                       THEN SinceIdle[s] ELSE 0]
  BY <1>2, <1>3
<1> QED
  BY <1>4 DEF Life!Leave

\* A command that is taken from its place in the queue leaves the others in
\* flight.
LEMMA TakenLeaves ==
  ASSUME LifeInv, LifeInv', expiring = {}, expiring' = {}, UNCHANGED info,
         NEW s \in Sessions, NEW r, NEW n \in DOMAIN queue[s], FirstOf(s, r, n),
         RemoveCommand(s, n),
         current' \ oversized' = (current \ oversized) \ {queue[s][n]}
  PROVE  Life!IsNext(queue[s][n]) /\ Life!Leave({queue[s][n]})
<1> DEFINE k == queue[s][n]
<1>1. InFlight' = InFlight \ {k}
  BY DEF InFlight, Leaving
<1>2. k \in InFlight
  BY FlightQueued DEF FlightIsQueued
<1>3. \A t \in Sessions : nextSequence'[t] # nextSequence[t] => queue'[t] = <<>>
  BY DEF RemoveCommand, Shorten, LifeInv, RouterInv, TypeOK
<1>4. ASSUME NEW j \in InFlight,
             info[j].session = info[k].session, info[j].request = info[k].request
      PROVE  k <= j
  <2>1. \A t \in Sessions : \A m \in DOMAIN queue[t] : info[queue[t][m]].session = t
    BY DEF LifeInv, RouterInv, QueuesSound
  <2>2. PICK m \in DOMAIN queue[s] : j = queue[s][m]
    BY <1>4, <2>1, FlightQueued DEF FlightIsQueued
  <2>3. queue[s] \in Seq(Commands)
    BY DEF LifeInv, RouterInv, TypeOK
  <2>4. m \in Nat /\ n \in Nat /\ m \in 1 .. Len(queue[s]) /\ n \in 1 .. Len(queue[s])
    BY <2>3
  <2>7. queue[s][m] \in Nat /\ queue[s][n] \in Nat
    <3>1. queue[s][m] \in Commands /\ queue[s][n] \in Commands
      BY <2>3, <2>4, ElementOfSeq
    <3> QED
      BY <3>1, RouterAssumption DEF Commands
  <2>5. ~(m < n)
    BY <1>4, <2>2, <2>4 DEF FirstOf, Travels
  <2>6. n < m => k < j
    BY <2>2 DEF LifeInv, RouterInv, QueuesSound
  <2> QED
    BY <2>2, <2>4, <2>5, <2>6, <2>7
<1> HIDE DEF k
<1>5. Life!IsNext(k)
  BY <1>2, <1>4 DEF Life!IsNext
<1>6. Life!Leave({k})
  BY <1>1, <1>3, Leaves
<1> QED
  BY <1>5, <1>6 DEF k

\* complete, fail and cancel end the command, or give it up.
LEMMA AnswerImplements ==
  ASSUME LifeInv, LifeInv', NEW s \in Sessions, NEW r, NEW result,
         Complete(s, r, result) \/ Abort(s, r, result) \/ CompleteOversized(s, r)
  PROVE  Life!LifeNext
<1>1. PICK n \in DOMAIN queue[s] : 
        /\ FirstOf(s, r, n) /\ RemoveCommand(s, n)
        /\ \/ FinishCommand(s, queue[s][n], result) /\ UNCHANGED oversized
           \/ UNCHANGED current /\ oversized' = oversized \cup {queue[s][n]}
  BY DEF Complete, Abort, CompleteOversized, storeVars
<1>2. expiring = {} /\ expiring' = {} /\ UNCHANGED <<info, due>>
  BY DEF Complete, Abort, CompleteOversized
<1> DEFINE k == queue[s][n]
<1>3. k \in current \ oversized
  BY DEF LifeInv, RouterInv, QueuesSound, TasksAreQueued, Queued, ToSet
<1>4. k \in InFlight
  BY <1>2, <1>3 DEF InFlight, Leaving
<1>5. CASE FinishCommand(s, k, result) /\ UNCHANGED oversized
  <2>1. current' = current \ {k}
    <3>1. Finish(s, <<<<k, result>>>>)
      BY <1>3, <1>5 DEF FinishCommand
    <3>2. {x[1] : x \in ToSet(<<<<k, result>>>>)} = {k}
      BY DEF ToSet
    <3> QED
      BY <3>1, <3>2 DEF Finish
  <2>2. Life!IsNext(k) /\ Life!Leave({k})
    BY <1>1, <1>2, <1>5, <2>1, TakenLeaves
  <2> QED
    BY <1>2, <1>4, <1>5, <2>2 DEF Life!LifeNext, Life!End
<1>6. CASE UNCHANGED current /\ oversized' = oversized \cup {k}
  <2>1. Life!IsNext(k) /\ Life!Leave({k})
    BY <1>1, <1>2, <1>6, TakenLeaves
  <2> QED
    BY <1>2, <1>4, <1>6, <2>1 DEF Life!LifeNext, Life!GiveUp
<1> QED
  BY <1>1, <1>5, <1>6

\* enqueue makes a command.
LEMMA EnqueueImplements ==
  ASSUME LifeInv, NEW s \in Sessions, NEW r \in Requests, Enqueue(s, r)
  PROVE  Life!LifeNext
<1>1. expiring = {} /\ expiring' = {} /\ UNCHANGED <<oversized, due>>
  BY DEF Enqueue
<1>2. SinceIdle = nextSequence /\ SinceIdle' = nextSequence'
  <2>1. nextSequence \in [Sessions -> 0 .. MaxCommands]
    BY DEF LifeInv, RouterInv, TypeOK
  <2>2. nextSequence' = [nextSequence EXCEPT ![s] = @ + 1]
    BY DEF Enqueue
  <2>3. nextSequence = [t \in Sessions |-> nextSequence[t]]
        /\ nextSequence' = [t \in Sessions |-> nextSequence'[t]]
    BY <2>1, <2>2
  <2> QED
    BY <1>1, <2>3 DEF SinceIdle
<1>3. Len(info) = made /\ made \in Nat
  BY RouterAssumption DEF LifeInv, RouterInv, TypeOK
<1>4. InFlight' = InFlight \cup {Len(info) + 1}
  <2>1. made + 1 \notin oversized
    BY <1>3 DEF LifeInv, RouterInv, QueuesSound
  <2> QED
    BY <1>1, <1>3, <2>1 DEF Enqueue, InFlight, Leaving
<1>5. Life!Make(s, r)
  BY <1>1, <1>2, <1>4 DEF Enqueue, Life!Make
<1> QED
  BY <1>5 DEF Life!LifeNext

\* The start of a pass is the one step in which the overdue commands end.
LEMMA PassImplements ==
  ASSUME LifeInv, LifeInv', ExpireTimeouts
  PROVE  Life!LifeNext
<1>1. /\ expiring = {} /\ expiring' = {s \in Sessions : \E n \in DOMAIN queue[s] : Overdue(s, n)}
      /\ UNCHANGED <<queue, nextSequence, due, info, current, oversized>>
  BY DEF ExpireTimeouts, storeVars
<1> DEFINE late == {k \in InFlight : k <= due}
<1>2. InFlight' = InFlight \ late
  <2>1. InFlight = current \ oversized
    BY <1>1 DEF InFlight, Leaving
  <2>2. InFlight' = {k \in current \ oversized : ~(info[k].session \in expiring' /\ k <= due)}
    BY <1>1 DEF InFlight, Leaving
  <2>3. ASSUME NEW k \in InFlight, k <= due PROVE info[k].session \in expiring'
    <3>1. PICK s \in Sessions : \E n \in DOMAIN queue[s] : k = queue[s][n]
      BY FlightQueued DEF FlightIsQueued
    <3>2. info[k].session = s
      BY <3>1 DEF LifeInv, RouterInv, QueuesSound
    <3> QED
      BY <1>1, <2>3, <3>1, <3>2 DEF Overdue
  <2> QED
    BY <2>1, <2>2, <2>3
<1> HIDE DEF late
<1>3. Life!Leave(late)
  BY <1>1, <1>2, Leaves
<1> QED
  BY <1>1, <1>3 DEF Life!LifeNext, Life!Expire, late

\* The rest of a pass changes nothing that is seen from outside.
LEMMA VisitStutters ==
  ASSUME LifeInv, LifeInv', NEW s \in Sessions, NEW n \in DOMAIN queue[s], ExpireSession(s, n)
  PROVE  UNCHANGED Life!lifeVars
<1>1. /\ s \in expiring /\ expiring' = expiring \ {s}
      /\ \A m \in DOMAIN queue[s] : queue[s][m] <= due <=> m <= n
      /\ Shorten(s, SubSeq(queue[s], n + 1, Len(queue[s])))
      /\ UNCHANGED <<due, info, oversized>>
  BY DEF ExpireSession, Overdue
<1> DEFINE q == queue[s]
           left == SubSeq(q, n + 1, Len(q))
<1>2. /\ q \in Seq(Commands) /\ n \in 1 .. Len(q) /\ Len(q) \in Nat
      /\ DOMAIN q = 1 .. Len(q)
  BY DEF LifeInv, RouterInv, TypeOK
<1>3. /\ DOMAIN left = 1 .. Len(q) - n
      /\ \A i \in 1 .. Len(q) - n : left[i] = q[n + i]
  BY <1>2, TailElements
<1>4. queue'[s] = left /\ \A t \in Sessions \ {s} : queue'[t] = queue[t]
  BY <1>1 DEF Shorten, LifeInv, RouterInv, TypeOK
<1> HIDE DEF left
<1>5. \A k : (\E m \in DOMAIN left : k = left[m]) <=> (\E m \in DOMAIN q : k = q[m] /\ ~(k <= due))
  <2>1. ASSUME NEW m \in DOMAIN left PROVE n + m \in DOMAIN q /\ left[m] = q[n + m] /\ ~(n + m <= n)
    BY <1>2, <1>3
  <2>2. ASSUME NEW m \in DOMAIN q, ~(m <= n) PROVE m - n \in DOMAIN left /\ left[m - n] = q[m]
    <3>1. m - n \in 1 .. Len(q) - n /\ n + (m - n) = m
      BY <1>2, <2>2
    <3> QED
      BY <1>3, <3>1
  <2> QED
    BY <1>1, <2>1, <2>2
<1>6. InFlight' = InFlight
  <2>1. ASSUME NEW k PROVE k \in InFlight' <=> k \in InFlight
    <3>1. FlightIsQueued /\ FlightIsQueued'
      BY FlightQueued, PTL
    <3>2. k \in InFlight <=> \E t \in Sessions : \E m \in DOMAIN queue[t] :
                               k = queue[t][m] /\ ~(t \in expiring /\ k <= due)
      BY <3>1 DEF FlightIsQueued
    <3>3. k \in InFlight' <=> \E t \in Sessions : \E m \in DOMAIN queue'[t] :
                                k = queue'[t][m] /\ ~(t \in expiring' /\ k <= due)
      BY <1>1, <3>1 DEF FlightIsQueued
    <3>4. (\E m \in DOMAIN queue'[s] : k = queue'[s][m] /\ ~(s \in expiring' /\ k <= due))
            <=> \E m \in DOMAIN queue[s] : k = queue[s][m] /\ ~(s \in expiring /\ k <= due)
      BY <1>1, <1>4, <1>5
    <3>5. ASSUME NEW t \in Sessions, t # s
          PROVE  queue'[t] = queue[t] /\ (t \in expiring' <=> t \in expiring)
      BY <1>1, <1>4, <3>5
    <3> QED
      BY <3>2, <3>3, <3>4, <3>5
  <2> QED
    BY <2>1 DEF InFlight
<1>7. SinceIdle' = SinceIdle
  <2>1. Life!Leave({})
    <3>1. InFlight' = InFlight \ {}
      BY <1>6
    <3>2. \A t \in Sessions : nextSequence'[t] # nextSequence[t] => queue'[t] = <<>>
      BY <1>1 DEF Shorten, LifeInv, RouterInv, TypeOK
    <3> QED
      BY <1>1, <3>1, <3>2, Leaves
  <2>2. \A t \in Sessions : SinceIdle'[t] = IF \E k \in InFlight : info[k].session = t
                                             THEN SinceIdle[t] ELSE 0
    BY <2>1 DEF Life!Leave
  <2>3. \A t \in Sessions : SinceIdle'[t] = SinceIdle[t]
    BY <2>2, FlightCounts DEF CountsInFlight
  <2>4. SinceIdle = [t \in Sessions |-> SinceIdle[t]] /\ SinceIdle' = [t \in Sessions |-> SinceIdle'[t]]
    BY DEF SinceIdle
  <2> QED
    BY <2>3, <2>4
<1> QED
  BY <1>1, <1>6, <1>7 DEF Life!lifeVars

LEMMA StepImplementsLife ==
  ASSUME LifeInv, LifeInv', [Next]_vars
  PROVE  [Life!LifeNext]_(Life!lifeVars)
<1>1. ASSUME NEW s \in Sessions, EnqueueMinted(s)
      PROVE  Life!LifeNext
  <2>1. <<"request", minted + 1>> \in Requests
    <3>1. minted \in Nat /\ minted <= made /\ made \in Nat /\ MaxCommands \in Nat
      BY RouterAssumption DEF LifeInv, RouterInv, TypeOK, QueuesSound
    <3>2. made < MaxCommands
      BY <1>1 DEF EnqueueMinted, Enqueue
    <3> QED
      BY <3>1, <3>2 DEF Requests, Minted
  <2>2. PICK r \in Requests : r = <<"request", minted + 1>>
    BY <2>1
  <2>3. Enqueue(s, r)
    BY <1>1, <2>2 DEF EnqueueMinted
  <2> QED
    BY <2>3, EnqueueImplements
<1>2. ASSUME NEW s \in Sessions, NEW r \in ChosenIds, EnqueueChosen(s, r)
      PROVE  Life!LifeNext
  BY <1>2, EnqueueImplements DEF EnqueueChosen, Requests
<1>3. CASE DeadlinePasses
  <2>1. Len(info) = made
    BY RouterAssumption DEF LifeInv, RouterInv, TypeOK
  <2>2. InFlight' = InFlight /\ SinceIdle' = SinceIdle
    BY <1>3 DEF DeadlinePasses, storeVars, InFlight, Leaving, SinceIdle
  <2> QED
    BY <1>3, <2>1, <2>2 DEF DeadlinePasses, Life!LifeNext, Life!PassDeadline
<1>4. CASE UNCHANGED vars
  <2>1. InFlight' = InFlight /\ SinceIdle' = SinceIdle
    BY <1>4 DEF vars, routerVars, storeVars, InFlight, Leaving, SinceIdle, Overdue
  <2> QED
    BY <1>4, <2>1 DEF vars, routerVars, Life!lifeVars
<1> QED
  BY <1>1, <1>2, <1>3, <1>4, AnswerImplements, PassImplements, VisitStutters DEF Next

\* Router and UI state implement CommandLife, for any documents and request
\* ids: the tasks shown are the commands in flight and those given up, each
\* command ends once and for its own request, the oldest first, and a pass of
\* expire_timeouts over many queues is one step to everybody else
\* (command_router.rs, command_queue.rs, state_store.rs).
THEOREM LifeIsKept == Spec => KeepsLife
<1>1. Init => LifeInv
  <2>1. Init => EmptyCountsFromZero
    BY DEF Init, EmptyCountsFromZero
  <2> QED
    BY <2>1, InitInv DEF LifeInv
<1>2. LifeInv /\ [Next]_vars => LifeInv'
  BY NextInv, CountersKept DEF LifeInv
<1>3. Init => Life!LifeInit
  <2> SUFFICES ASSUME Init PROVE Life!LifeInit
    OBVIOUS
  <2>1. InFlight = {}
    BY DEF Init, InFlight
  <2>2. SinceIdle = [s \in Sessions |-> 0]
    BY DEF Init, SinceIdle
  <2> QED
    BY <2>1, <2>2 DEF Init, Life!LifeInit
<1>4. LifeInv /\ LifeInv' /\ [Next]_vars => [Life!LifeNext]_(Life!lifeVars)
  BY StepImplementsLife
<1> QED
  BY <1>1, <1>2, <1>3, <1>4, PTL DEF Spec, KeepsLife, Life!LifeSpec
=============================================================================
