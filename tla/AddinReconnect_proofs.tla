----------------------- MODULE AddinReconnect_proofs -----------------------
(***************************************************************************)
(* What holds of the add-in channel for any number of runtimes, sessions   *)
(* and connections and any grace period, and of task panes and daemon      *)
(* together, for any number of panes and any length of the frames under    *)
(* way.  The daemon's part of every step of the panes is a step of         *)
(* AddinChannel, so that what is proved of the channel carries over; what  *)
(* is added in the second part is what the panes know.                     *)
(***************************************************************************)
EXTENDS AddinReconnect, TLAPS

USE RegistryAssumption, ChannelAssumption

-----------------------------------------------------------------------------
(* Type correctness *)

\* Going stale keeps the types of the session table.
LEMMA GoStaleType ==
  ASSUME RegistryTypeOK, NEW S, GoStale(S)
  PROVE  /\ status' \in [Sessions -> {"absent", "active", "stale"}]
         /\ age' \in [Sessions -> Ages]
  BY DEF RegistryTypeOK, GoStale, Ages

\* So does the removal of sessions.
LEMMA RemoveSessionsType ==
  ASSUME RegistryTypeOK, NEW S, RemoveSessions(S)
  PROVE  RegistryTypeOK'
  BY DEF RegistryTypeOK, RemoveSessions, Ages

\* TypeOK alone is not inductive: that the third miss is also the last one
\* rests on the thread leaving its loop with it.
MissesBounded == \A c \in Conns : socket[c] # "closing" => missed[c] < MaxMissedPongs

TypeInv == TypeOK /\ MissesBounded

\* The state of registry, channel and hub is well formed in every
\* interleaving of connection threads, cleanup and clock.
THEOREM TypeCorrect == Spec => []TypeOK
<1>1. Init => TypeInv
  BY DEF Init, TypeInv, MissesBounded, TypeOK, RegistryInit, RegistryTypeOK, Ages,
         MaxMissedPongs
<1>2. TypeInv /\ [Next]_vars => TypeInv'
  <2> SUFFICES ASSUME TypeOK, MissesBounded, [Next]_vars PROVE TypeOK' /\ MissesBounded'
    BY DEF TypeInv
  <2>a. RegistryTypeOK
    BY DEF TypeOK
  <2>1. ASSUME NEW c \in Conns, OpenSocket(c) PROVE TypeOK' /\ MissesBounded'
    BY <2>1 DEF TypeOK, MissesBounded, OpenSocket, registryVars, historyVars, RegistryTypeOK
  <2>2. ASSUME NEW c \in Conns, NEW i \in Instances, Register(c, i) PROVE TypeOK' /\ MissesBounded'
    <3>1. RegistryTypeOK'
      BY <2>2, <2>a, GoStaleType DEF Register, RegisterRuntime, RegistryTypeOK
    <3>2. QED
      BY <2>2, <3>1 DEF TypeOK, MissesBounded, Register, NoneAnnounced, MaxMissedPongs
  <2>3. ASSUME NEW c \in Conns, SessionAdded(c) PROVE TypeOK' /\ MissesBounded'
    <3>1. registered[c] \in Instances /\ SessionOf[registered[c]] \in Sessions
      BY <2>3 DEF TypeOK, MissesBounded, SessionAdded, Registered
    <3>2. RegistryTypeOK'
      BY <2>3, <2>a, <3>1 DEF SessionAdded, AddSession, RegistryTypeOK, Ages
    <3>3. QED
      BY <2>3, <3>2 DEF TypeOK, MissesBounded, SessionAdded, channelVars
  <2>4. ASSUME NEW c \in Conns, NEW s \in Sessions, SessionRemoved(c, s) PROVE TypeOK' /\ MissesBounded'
    BY <2>4, <2>a, RemoveSessionsType
       DEF TypeOK, MissesBounded, SessionRemoved, channelVars, NoneAnnounced
  <2>5. ASSUME NEW c \in Conns, StartPing(c) PROVE TypeOK' /\ MissesBounded'
    BY <2>5 DEF TypeOK, MissesBounded, StartPing, registryVars, historyVars, RegistryTypeOK
  <2>6. ASSUME NEW c \in Conns, Pong(c) PROVE TypeOK' /\ MissesBounded'
    BY <2>6 DEF TypeOK, MissesBounded, Pong, registryVars, historyVars, RegistryTypeOK,
                MaxMissedPongs
  <2>7. ASSUME NEW c \in Conns, MissPong(c) PROVE TypeOK' /\ MissesBounded'
    BY <2>7 DEF TypeOK, MissesBounded, MissPong, registryVars, historyVars, RegistryTypeOK,
                MaxMissedPongs
  <2>8. ASSUME NEW c \in Conns, HeartbeatClose(c) PROVE TypeOK' /\ MissesBounded'
    <3>1. RegistryTypeOK'
      BY <2>8, <2>a, GoStaleType DEF HeartbeatClose, MarkInstanceStale, RegistryTypeOK
    <3>2. missed' \in [Conns -> 0 .. MaxMissedPongs]
      BY <2>8 DEF TypeOK, MissesBounded, HeartbeatClose, Registered, MaxMissedPongs
    <3>3. QED
      BY <2>8, <3>1, <3>2 DEF TypeOK, MissesBounded, HeartbeatClose, NoneAnnounced
  <2>9. ASSUME NEW c \in Conns, RemoveConnection(c) PROVE TypeOK' /\ MissesBounded'
    <3>1. RegistryTypeOK'
      <4>1. CASE registered[c] = NoInstance
        BY <2>9, <2>a, <4>1 DEF RemoveConnection, RemoveFromRegistry, registryVars, RegistryTypeOK
      <4>2. CASE registered[c] # NoInstance
        BY <2>9, <2>a, <4>2, GoStaleType
           DEF RemoveConnection, RemoveFromRegistry, RemoveRuntime, RegistryTypeOK
      <4>3. QED
        BY <4>1, <4>2
    <3>2. QED
      BY <2>9, <3>1 DEF TypeOK, MissesBounded, RemoveConnection, UnbindFromHub, SeveredBy,
                        NoneAnnounced, MaxMissedPongs
  <2>10. CASE PruneStaleSessions
    BY <2>10, <2>a, RemoveSessionsType
       DEF TypeOK, MissesBounded, PruneStaleSessions, channelVars, NoneAnnounced
  <2>11. CASE Tick
    <3>1. RegistryTypeOK'
      BY <2>11, <2>a DEF Tick, AgeStaleSessions, RegistryTypeOK, Ages
    <3>2. QED
      BY <2>11, <3>1 DEF TypeOK, MissesBounded, Tick, channelVars, historyVars
  <2>12. CASE UNCHANGED vars
    BY <2>12 DEF TypeOK, MissesBounded, RegistryTypeOK, vars, registryVars, channelVars,
                 historyVars
  <2>13. QED
    BY <2>1, <2>2, <2>3, <2>4, <2>5, <2>6, <2>7, <2>8, <2>9, <2>10, <2>11, <2>12
       DEF Next, ConnectionStep
<1>3. QED
  BY <1>1, <1>2, PTL DEF Spec, TypeInv

-----------------------------------------------------------------------------
(* Routing and agreement of the tables *)

\* The three tables, in every interleaving, also when a pane's old and new
\* connections overlap.  The two conjuncts carry each other: that a removal
\* deletes the binding and the registry entry together keeps TablesAgree, and
\* channel and hub naming the same runtime keeps RoutingSound.
TablesInv == RoutingSound /\ TablesAgree

\* The parts of a step that do not concern connections leave the tables alone.
LEMMA TablesStable ==
  ASSUME TypeOK, TablesInv,
         UNCHANGED <<registered, hubInstance, hubBinding>>,
         \A i \in Instances : linked'[i] = NoRuntime <=> linked[i] = NoRuntime,
         \A c \in Conns : socket'[c] = "free" <=> socket[c] = "free"
  PROVE  TablesInv'
  BY DEF TypeOK, TablesInv, RoutingSound, TablesAgree

\* A tool call pushed to the bound connection reaches the runtime it is for,
\* and the registry lists a runtime exactly while the hub can route to it.
THEOREM TablesConsistent == Spec => [](RoutingSound /\ TablesAgree)
<1>1. Init => TablesInv
  BY DEF Init, RegistryInit, TablesInv, RoutingSound, TablesAgree
<1>2. TypeOK /\ TablesInv /\ [Next]_vars => TablesInv'
  <2> SUFFICES ASSUME TypeOK, TablesInv, [Next]_vars PROVE TablesInv'
    OBVIOUS
  <2>a. linked \in [Instances -> Sessions \cup {NoRuntime, NoSession}]
    BY DEF TypeOK, RegistryTypeOK
  <2>1. ASSUME NEW c \in Conns, OpenSocket(c) PROVE TablesInv'
    BY <2>1 DEF OpenSocket, registryVars, TypeOK, TablesInv, RoutingSound, TablesAgree
  <2>2. ASSUME NEW c \in Conns, NEW i \in Instances, Speaks(c, i), Register(c, i)
        PROVE  TablesInv'
    <3>1. linked' = [linked EXCEPT ![i] = NoSession]
      BY <2>2 DEF Register, RegisterRuntime
    <3>2. socket[c] = "open" /\ registered[c] \in {NoInstance, i}
      BY <2>2 DEF Register, Speaks
    <3>3. RoutingSound'
      BY <2>2, <3>2 DEF Register, TypeOK, TablesInv, RoutingSound, TablesAgree
    <3>4. TablesAgree'
      BY <2>2, <2>a, <3>1, <3>2 DEF Register, TypeOK, TablesInv, TablesAgree
    <3>5. QED
      BY <3>3, <3>4 DEF TablesInv
  <2>3. ASSUME NEW c \in Conns, SessionAdded(c) PROVE TablesInv'
    <3>1. registered[c] \in Instances /\ SessionOf[registered[c]] \in Sessions
      BY <2>3 DEF TypeOK, SessionAdded, Registered
    <3>2. \A i \in Instances : linked'[i] = NoRuntime <=> linked[i] = NoRuntime
      BY <2>3, <2>a, <3>1 DEF SessionAdded, AddSession
    <3>3. QED
      BY <2>3, <3>2, TablesStable DEF SessionAdded, channelVars
  <2>4. ASSUME NEW c \in Conns, NEW s \in Sessions, SessionRemoved(c, s) PROVE TablesInv'
    <3>1. \A i \in Instances : linked'[i] = NoRuntime <=> linked[i] = NoRuntime
      BY <2>4, <2>a DEF SessionRemoved, RemoveSessions
    <3>2. QED
      BY <2>4, <3>1, TablesStable DEF SessionRemoved, channelVars
  <2>5. ASSUME NEW c \in Conns, StartPing(c) PROVE TablesInv'
    BY <2>5, TablesStable DEF StartPing, registryVars
  <2>6. ASSUME NEW c \in Conns, Pong(c) PROVE TablesInv'
    BY <2>6, TablesStable DEF Pong, registryVars
  <2>7. ASSUME NEW c \in Conns, MissPong(c) PROVE TablesInv'
    BY <2>7, TablesStable DEF MissPong, registryVars
  <2>8. ASSUME NEW c \in Conns, HeartbeatClose(c) PROVE TablesInv'
    <3>1. \A d \in Conns : socket'[d] = "free" <=> socket[d] = "free"
      BY <2>8 DEF HeartbeatClose, Registered, TypeOK
    <3>2. QED
      BY <2>8, <3>1, TablesStable DEF HeartbeatClose, MarkInstanceStale
  <2>9. ASSUME NEW c \in Conns, RemoveConnection(c) PROVE TablesInv'
    <3>1. CASE registered[c] = NoInstance
      <4>1. hubInstance[c] = NoInstance /\ hubBinding' = hubBinding /\ UNCHANGED linked
        BY <2>9, <3>1 DEF RemoveConnection, RemoveFromRegistry, registryVars, UnbindFromHub,
                          TablesInv, TablesAgree
      <4>2. QED
        BY <2>9, <3>1, <4>1
           DEF RemoveConnection, UnbindFromHub, TypeOK, TablesInv, RoutingSound, TablesAgree
    <3>2. CASE registered[c] # NoInstance
      <4> DEFINE i == registered[c]
      <4>1. i \in Instances /\ hubInstance[c] = i
        BY <3>2 DEF TypeOK, TablesInv, TablesAgree
      <4>2. /\ hubBinding' = [hubBinding EXCEPT ![i] = NoConn]
            /\ linked' = [linked EXCEPT ![i] = NoRuntime]
        BY <2>9, <3>2, <4>1
           DEF RemoveConnection, RemoveFromRegistry, RemoveRuntime, UnbindFromHub
      <4>3. RoutingSound'
        BY <2>9, <4>1, <4>2
           DEF RemoveConnection, UnbindFromHub, TypeOK, TablesInv, RoutingSound
      <4>4. TablesAgree'
        BY <2>9, <2>a, <4>1, <4>2
           DEF RemoveConnection, UnbindFromHub, TypeOK, TablesInv, TablesAgree
      <4>5. QED
        BY <4>3, <4>4 DEF TablesInv
    <3>3. QED
      BY <3>1, <3>2
  <2>10. CASE PruneStaleSessions
    <3>1. \A i \in Instances : linked'[i] = NoRuntime <=> linked[i] = NoRuntime
      BY <2>10, <2>a DEF PruneStaleSessions, RemoveSessions, Expired
    <3>2. QED
      BY <2>10, <3>1, TablesStable DEF PruneStaleSessions, channelVars
  <2>11. CASE Tick
    BY <2>11, TablesStable DEF Tick, AgeStaleSessions, channelVars
  <2>12. CASE UNCHANGED vars
    BY <2>12, TablesStable DEF vars, registryVars, channelVars
  <2>13. QED
    BY <2>1, <2>2, <2>3, <2>4, <2>5, <2>6, <2>7, <2>8, <2>9, <2>10, <2>11, <2>12
       DEF Next, ConnectionStep
<1>3. QED
  BY <1>1, <1>2, TypeCorrect, PTL DEF Spec, TablesInv

-----------------------------------------------------------------------------
(* What a runtime's entry links *)

\* A runtime only ever links the session it keeps in its session storage, so
\* that what a sole holder links is not touched by any other runtime's removal or
\* announcement.
LinksItsOwn == \A i \in Instances : linked[i] \in Sessions => linked[i] = SessionOf[i]

OwnerInv == LinkedSessionOwned /\ LinksItsOwn

\* Steps that leave the owners and every entry's link alone, or cut it, and
\* remove no session.
LEMMA OwnerStable ==
  ASSUME TypeOK, OwnerInv, UNCHANGED owner,
         \A i \in Instances : linked'[i] \in Sessions => linked'[i] = linked[i],
         \A s \in Sessions : status'[s] = "absent" => status[s] = "absent"
  PROVE  OwnerInv'
  BY DEF OwnerInv, LinkedSessionOwned, LinksItsOwn, SoleHolders

\* Going stale removes nothing.
LEMMA GoStaleKeeps ==
  ASSUME NEW S, GoStale(S)
  PROVE  \A s \in Sessions : status'[s] = "absent" => status[s] = "absent"
  BY DEF GoStale

\* A removal cuts the link of every session it removes.
LEMMA RemovalKeepsOwners ==
  ASSUME TypeOK, OwnerInv, NEW S, RemoveSessions(S)
  PROVE  OwnerInv'
<1> linked \in [Instances -> Sessions \cup {NoRuntime, NoSession}]
  BY DEF TypeOK, RegistryTypeOK
<1>1. ASSUME NEW i \in Instances, linked'[i] \in Sessions
      PROVE  linked'[i] = linked[i] /\ linked[i] = SessionOf[i]
  BY <1>1 DEF RemoveSessions, OwnerInv, LinksItsOwn
<1>2. ASSUME NEW i \in SoleHolders, linked'[i] \in Sessions
      PROVE  status'[linked'[i]] # "absent" /\ owner'[linked'[i]] = i
  <2>1. i \in Instances /\ linked'[i] = linked[i]
    BY <1>1, <1>2 DEF SoleHolders
  <2>2. owner[linked[i]] = i /\ status[linked[i]] # "absent"
    BY <1>2, <2>1 DEF OwnerInv, LinkedSessionOwned
  <2>3. linked[i] \notin S
    BY <1>2, <2>1, <2>2 DEF RemoveSessions
  <2>4. QED
    BY <1>2, <2>1, <2>2, <2>3 DEF RemoveSessions
<1>3. QED
  BY <1>1, <1>2 DEF OwnerInv, LinkedSessionOwned, LinksItsOwn

\* The owners and the links agree in every reachable state.
LEMMA OwnersInvariant == Spec => []OwnerInv
<1>1. Init => OwnerInv
  BY DEF Init, RegistryInit, OwnerInv, LinkedSessionOwned, LinksItsOwn, SoleHolders
<1>2. TypeOK /\ OwnerInv /\ [Next]_vars => OwnerInv'
  <2> SUFFICES ASSUME TypeOK, OwnerInv, [Next]_vars PROVE OwnerInv'
    OBVIOUS
  <2>a. linked \in [Instances -> Sessions \cup {NoRuntime, NoSession}]
    BY DEF TypeOK, RegistryTypeOK
  <2>1. ASSUME NEW c \in Conns, OpenSocket(c) PROVE OwnerInv'
    BY <2>1, OwnerStable DEF OpenSocket, registryVars
  <2>2. ASSUME NEW c \in Conns, NEW i \in Instances, Register(c, i) PROVE OwnerInv'
    <3>1. \A s \in Sessions : status'[s] = "absent" => status[s] = "absent"
      BY <2>2, GoStaleKeeps DEF Register, RegisterRuntime
    <3>2. \A j \in Instances : linked'[j] \in Sessions => linked'[j] = linked[j]
      BY <2>2, <2>a DEF Register, RegisterRuntime
    <3>3. QED
      BY <2>2, <3>1, <3>2, OwnerStable DEF Register, RegisterRuntime
  <2>3. ASSUME NEW c \in Conns, SessionAdded(c) PROVE OwnerInv'
    <3> DEFINE i == registered[c]
               s == SessionOf[i]
    <3>1. i \in Instances /\ s \in Sessions
      BY <2>3 DEF TypeOK, SessionAdded, Registered
    <3>2. /\ linked' = [linked EXCEPT ![i] = IF @ = NoRuntime THEN @ ELSE s]
          /\ owner' = [owner EXCEPT ![s] = i]
          /\ status' = [status EXCEPT ![s] = "active"]
      BY <2>3 DEF SessionAdded, AddSession
    <3>3. ASSUME NEW j \in Instances, linked'[j] \in Sessions
          PROVE  linked'[j] = SessionOf[j] /\ (j # i => linked'[j] = linked[j])
      BY <2>a, <3>1, <3>2, <3>3 DEF OwnerInv, LinksItsOwn
    <3>4. ASSUME NEW j \in SoleHolders, linked'[j] \in Sessions
          PROVE  status'[linked'[j]] # "absent" /\ owner'[linked'[j]] = j
      <4>1. j \in Instances /\ linked'[j] = SessionOf[j]
        BY <3>3, <3>4 DEF SoleHolders
      <4>2. CASE j = i
        BY <3>1, <3>2, <4>1, <4>2 DEF TypeOK, RegistryTypeOK
      <4>3. CASE j # i
        <5>1. linked[j] = SessionOf[j] /\ SessionOf[j] \in Sessions
          BY <3>3, <3>4, <4>1, <4>3
        <5>2. status[SessionOf[j]] # "absent" /\ owner[SessionOf[j]] = j
          BY <5>1 DEF OwnerInv, LinkedSessionOwned
        <5>3. SessionOf[j] # s
          BY <3>1, <3>4, <4>1, <4>3 DEF SoleHolders
        <5>4. QED
          BY <3>1, <3>2, <4>1, <5>1, <5>2, <5>3 DEF TypeOK, RegistryTypeOK
      <4>4. QED
        BY <4>2, <4>3
    <3>5. QED
      BY <3>3, <3>4 DEF OwnerInv, LinkedSessionOwned, LinksItsOwn
  <2>4. ASSUME NEW c \in Conns, NEW s \in Sessions, SessionRemoved(c, s) PROVE OwnerInv'
    BY <2>4, RemovalKeepsOwners DEF SessionRemoved
  <2>5. ASSUME NEW c \in Conns, StartPing(c) PROVE OwnerInv'
    BY <2>5, OwnerStable DEF StartPing, registryVars
  <2>6. ASSUME NEW c \in Conns, Pong(c) PROVE OwnerInv'
    BY <2>6, OwnerStable DEF Pong, registryVars
  <2>7. ASSUME NEW c \in Conns, MissPong(c) PROVE OwnerInv'
    BY <2>7, OwnerStable DEF MissPong, registryVars
  <2>8. ASSUME NEW c \in Conns, HeartbeatClose(c) PROVE OwnerInv'
    <3>1. \A s \in Sessions : status'[s] = "absent" => status[s] = "absent"
      BY <2>8, GoStaleKeeps DEF HeartbeatClose, MarkInstanceStale
    <3>2. QED
      BY <2>8, <3>1, OwnerStable DEF HeartbeatClose, MarkInstanceStale
  <2>9. ASSUME NEW c \in Conns, RemoveConnection(c) PROVE OwnerInv'
    <3>1. CASE registered[c] = NoInstance
      BY <2>9, <3>1, OwnerStable DEF RemoveConnection, RemoveFromRegistry, registryVars
    <3>2. CASE registered[c] # NoInstance
      <4>1. RemoveRuntime(registered[c])
        BY <2>9, <3>2 DEF RemoveConnection, RemoveFromRegistry
      <4>2. \A s \in Sessions : status'[s] = "absent" => status[s] = "absent"
        BY <4>1, GoStaleKeeps DEF RemoveRuntime
      <4>3. \A j \in Instances : linked'[j] \in Sessions => linked'[j] = linked[j]
        BY <4>1, <2>a DEF RemoveRuntime
      <4>4. QED
        BY <4>1, <4>2, <4>3, OwnerStable DEF RemoveRuntime
    <3>3. QED
      BY <3>1, <3>2
  <2>10. CASE PruneStaleSessions
    BY <2>10, RemovalKeepsOwners DEF PruneStaleSessions
  <2>11. CASE Tick
    BY <2>11, OwnerStable DEF Tick, AgeStaleSessions
  <2>12. CASE UNCHANGED vars
    BY <2>12, OwnerStable DEF vars, registryVars
  <2>13. QED
    BY <2>1, <2>2, <2>3, <2>4, <2>5, <2>6, <2>7, <2>8, <2>9, <2>10, <2>11, <2>12
       DEF Next, ConnectionStep
<1>3. QED
  BY <1>1, <1>2, TypeCorrect, PTL DEF Spec

\* A disconnect never makes another runtime's session stale, and an entry
\* never links a session that has been removed.
THEOREM LinksAreOwned == Spec => []LinkedSessionOwned
  BY OwnersInvariant, PTL DEF OwnerInv

-----------------------------------------------------------------------------
(* The grace period *)

\* However often a runtime comes and goes without announcing its session, the
\* grace period of that session runs from the first loss.
LEMMA ClockKeepsRunning ==
  ASSUME TypeOK, [Next]_vars, NEW s \in Sessions, status[s] = "stale", status'[s] = "stale"
  PROVE  age'[s] >= age[s]
<1>a. status \in [Sessions -> {"absent", "active", "stale"}] /\ age[s] \in Nat
  BY DEF TypeOK, RegistryTypeOK, Ages
<1>b. ASSUME NEW S, GoStale(S) PROVE age'[s] >= age[s]
  BY <1>a, <1>b DEF GoStale
<1>c. ASSUME NEW S, RemoveSessions(S) PROVE age'[s] >= age[s]
  BY <1>a, <1>c DEF RemoveSessions
<1>d. ASSUME UNCHANGED age PROVE age'[s] >= age[s]
  BY <1>a, <1>d
<1>1. ASSUME NEW c \in Conns, NEW i \in Instances, Register(c, i) PROVE age'[s] >= age[s]
  BY <1>1, <1>b DEF Register, RegisterRuntime
<1>2. ASSUME NEW c \in Conns, SessionAdded(c) PROVE age'[s] >= age[s]
  BY <1>2, <1>a DEF SessionAdded, AddSession, TypeOK, RegistryTypeOK
<1>3. ASSUME NEW c \in Conns, HeartbeatClose(c) PROVE age'[s] >= age[s]
  BY <1>3, <1>b DEF HeartbeatClose, MarkInstanceStale
<1>4. ASSUME NEW c \in Conns, RemoveConnection(c) PROVE age'[s] >= age[s]
  BY <1>4, <1>b, <1>d DEF RemoveConnection, RemoveFromRegistry, RemoveRuntime, registryVars
<1>5. CASE Tick
  BY <1>5, <1>a DEF Tick, AgeStaleSessions
<1>6. QED
  BY <1>1, <1>2, <1>3, <1>4, <1>5, <1>c, <1>d
     DEF Next, ConnectionStep, OpenSocket, SessionRemoved, StartPing, Pong, MissPong,
         PruneStaleSessions, vars, registryVars

\* A stale session is there for its whole grace period, unless some connection
\* asks for its removal.
LEMMA KeptForItsGrace ==
  ASSUME TypeOK, [Next]_vars, NEW s \in Sessions, status[s] = "stale", status'[s] = "absent"
  PROVE  age[s] > Grace \/ \E c \in Conns : SessionRemoved(c, s)
<1>a. ASSUME NEW S, GoStale(S) PROVE FALSE
  BY <1>a, GoStaleKeeps
<1>1. ASSUME NEW c \in Conns, NEW i \in Instances, Register(c, i) PROVE FALSE
  BY <1>1, <1>a DEF Register, RegisterRuntime
<1>2. ASSUME NEW c \in Conns, SessionAdded(c) PROVE FALSE
  BY <1>2 DEF SessionAdded, AddSession, TypeOK, RegistryTypeOK
<1>3. ASSUME NEW c \in Conns, NEW r \in Sessions, SessionRemoved(c, r)
      PROVE  \E d \in Conns : SessionRemoved(d, s)
  <2>1. r = s
    BY <1>3 DEF SessionRemoved, RemoveSessions, TypeOK, RegistryTypeOK
  <2>2. QED
    BY <1>3, <2>1
<1>4. ASSUME NEW c \in Conns, HeartbeatClose(c) PROVE FALSE
  BY <1>4, <1>a DEF HeartbeatClose, MarkInstanceStale
<1>5. ASSUME NEW c \in Conns, RemoveConnection(c) PROVE FALSE
  BY <1>5, <1>a DEF RemoveConnection, RemoveFromRegistry, RemoveRuntime, registryVars
<1>6. CASE PruneStaleSessions
  BY <1>6 DEF PruneStaleSessions, RemoveSessions, Expired
<1>7. CASE UNCHANGED status
  BY <1>7
<1>8. QED
  BY <1>1, <1>2, <1>3, <1>4, <1>5, <1>6, <1>7
     DEF Next, ConnectionStep, OpenSocket, StartPing, Pong, MissPong, Tick,
         AgeStaleSessions, vars, registryVars

\* No runtime loses its session before the grace period is over, counted from the
\* first loss (mark_session_stale keeps the first stale_since).
THEOREM GraceIsHonoured == Spec => GraceHonoured
<1>1. TypeOK /\ [Next]_vars =>
        \A s \in Sessions : status[s] = "stale" =>
          /\ status'[s] = "absent" => age[s] > Grace \/ \E c \in Conns : SessionRemoved(c, s)
          /\ status'[s] = "stale" => age'[s] >= age[s]
  BY ClockKeepsRunning, KeptForItsGrace
<1>2. QED
  BY <1>1, TypeCorrect, PTL DEF Spec, GraceHonoured

-----------------------------------------------------------------------------
(* Active sessions can be reached *)

\* A runtime that is registered on some connection has a registry entry, unless
\* it was severed: the removal of one of its connections took the entry from
\* those that were left.
EntryUnlessSevered ==
  \A c \in Conns : registered[c] # NoInstance /\ registered[c] \notin severed =>
    linked[registered[c]] # NoRuntime

\* The registry's part of ActiveIsReachable; the hub's follows from TablesAgree.
ActiveIsLinked ==
  \A s \in Sessions \ astray : status[s] = "active" =>
    owner[s] # NoInstance /\ linked[owner[s]] = s

ReachInv == EntryUnlessSevered /\ ActiveIsLinked

\* Steps in which no session becomes active, and an active one keeps its
\* owner and its link.
LEMMA ActiveStable ==
  ASSUME ActiveIsLinked,
         \A s \in Sessions : status'[s] = "active" =>
           /\ status[s] = "active"
           /\ s \in astray => s \in astray'
           /\ s \notin astray => owner'[s] = owner[s] /\ linked'[owner[s]] = linked[owner[s]]
  PROVE  ActiveIsLinked'
  BY DEF ActiveIsLinked

\* Steps that leave entries and registrations as they are.
LEMMA EntriesStable ==
  ASSUME EntryUnlessSevered, UNCHANGED <<registered, severed>>,
         \A i \in Instances : linked'[i] = NoRuntime <=> linked[i] = NoRuntime,
         TypeOK
  PROVE  EntryUnlessSevered'
  BY DEF EntryUnlessSevered, TypeOK

\* A session that is active after others have gone stale was active before,
\* and was not one of them; if it was astray, it still is.
LEMMA GoStaleActive ==
  ASSUME TypeOK, NEW S, GoStale(S), NoneAnnounced
  PROVE  \A s \in Sessions : status'[s] = "active" =>
           /\ status[s] = "active" /\ s \notin S
           /\ s \in astray => s \in astray'
  BY DEF GoStale, NoneAnnounced, TypeOK, RegistryTypeOK

\* Sessions that a removal leaves active keep their owner and their link.
LEMMA RemovalKeepsActive ==
  ASSUME TypeOK, ActiveIsLinked, NEW S, RemoveSessions(S), NoneAnnounced
  PROVE  ActiveIsLinked'
<1> SUFFICES ASSUME NEW s \in Sessions, status'[s] = "active"
             PROVE  /\ status[s] = "active"
                    /\ s \in astray => s \in astray'
                    /\ s \notin astray =>
                         owner'[s] = owner[s] /\ linked'[owner[s]] = linked[owner[s]]
  BY ActiveStable
<1>1. s \notin S /\ status[s] = "active" /\ owner'[s] = owner[s]
  BY DEF RemoveSessions
<1>2. s \in astray => s \in astray'
  BY DEF NoneAnnounced
<1>3. ASSUME s \notin astray PROVE linked'[owner[s]] = linked[owner[s]]
  <2>1. owner[s] \in Instances /\ linked[owner[s]] = s
    BY <1>1, <1>3 DEF ActiveIsLinked, TypeOK, RegistryTypeOK
  <2>2. QED
    BY <1>1, <2>1 DEF RemoveSessions
<1>4. QED
  BY <1>1, <1>2, <1>3

\* Connections of one runtime may overlap and runtimes may share a session; what
\* the two parts of ReachInv need of each other is that an announcement finds the
\* entry it links.
LEMMA ReachInvariant == Spec => []ReachInv
<1>1. Init => ReachInv
  BY DEF Init, RegistryInit, ReachInv, EntryUnlessSevered, ActiveIsLinked
<1>2. TypeOK /\ OwnerInv /\ ReachInv /\ [Next]_vars => ReachInv'
  <2> SUFFICES ASSUME TypeOK, OwnerInv, ReachInv, [Next]_vars PROVE ReachInv'
    OBVIOUS
  <2>a. /\ linked \in [Instances -> Sessions \cup {NoRuntime, NoSession}]
        /\ registered \in [Conns -> Instances \cup {NoInstance}]
        /\ EntryUnlessSevered /\ ActiveIsLinked
    BY DEF TypeOK, RegistryTypeOK, ReachInv
  <2>b. \A s \in Sessions \ astray : status[s] = "active" =>
          owner[s] \in Instances /\ linked[owner[s]] = s
    BY <2>a DEF ActiveIsLinked, TypeOK, RegistryTypeOK
  <2>c. ASSUME UNCHANGED <<registryVars, registered, historyVars>> PROVE ReachInv'
    BY <2>c DEF registryVars, historyVars, ReachInv, EntryUnlessSevered, ActiveIsLinked
  <2>d. ASSUME NEW i \in Instances, GoStale(SessionsLinkedTo(i)), NoneAnnounced, UNCHANGED owner,
               \A j \in Instances : j # i => linked'[j] = linked[j]
        PROVE  ActiveIsLinked'
    <3>1. ASSUME NEW s \in Sessions, status'[s] = "active", s \notin astray
          PROVE  owner'[s] = owner[s] /\ linked'[owner[s]] = linked[owner[s]]
      <4>1. status[s] = "active" /\ s \notin SessionsLinkedTo(i)
        BY <2>d, <3>1, GoStaleActive
      <4>2. owner[s] \in Instances /\ owner[s] # i
        BY <2>b, <3>1, <4>1 DEF SessionsLinkedTo
      <4>3. QED
        BY <2>d, <4>2
    <3>2. QED
      BY <2>a, <2>d, <3>1, GoStaleActive, ActiveStable
  <2>2. ASSUME NEW c \in Conns, NEW i \in Instances, Register(c, i) PROVE ReachInv'
    <3>1. /\ GoStale(SessionsLinkedTo(i)) /\ NoneAnnounced /\ UNCHANGED owner
          /\ linked' = [linked EXCEPT ![i] = NoSession]
          /\ registered' = [registered EXCEPT ![c] = i]
          /\ severed' = severed \ {i}
      BY <2>2 DEF Register, RegisterRuntime
    <3>2. ActiveIsLinked'
      BY <2>a, <2>d, <3>1
    <3>3. EntryUnlessSevered'
      BY <2>a, <3>1 DEF EntryUnlessSevered
    <3>4. QED
      BY <3>2, <3>3 DEF ReachInv
  <2>3. ASSUME NEW c \in Conns, SessionAdded(c) PROVE ReachInv'
    <3> DEFINE i == registered[c]
               s == SessionOf[i]
    <3>1. i \in Instances /\ s \in Sessions
      BY <2>3, <2>a DEF SessionAdded, Registered
    <3>2. /\ linked' = [linked EXCEPT ![i] = IF @ = NoRuntime THEN @ ELSE s]
          /\ owner' = [owner EXCEPT ![s] = i]
          /\ status' = [status EXCEPT ![s] = "active"]
          /\ astray' = IF i \in severed THEN astray \cup {s} ELSE astray \ {s}
          /\ UNCHANGED <<registered, severed>>
      BY <2>3 DEF SessionAdded, AddSession, channelVars
    <3>3. EntryUnlessSevered'
      <4>1. \A j \in Instances : linked'[j] = NoRuntime <=> linked[j] = NoRuntime
        BY <2>a, <3>1, <3>2
      <4>2. QED
        BY <2>a, <3>2, <4>1, EntriesStable
    <3>4. ASSUME NEW t \in Sessions, t \notin astray', status'[t] = "active"
          PROVE  owner'[t] # NoInstance /\ linked'[owner'[t]] = t
      <4>1. CASE t = s
        <5>1. i \notin severed
          BY <3>2, <3>4, <4>1
        <5>2. linked[i] # NoRuntime
          BY <3>1, <5>1, <2>a DEF EntryUnlessSevered
        <5>3. linked'[i] = s /\ owner'[s] = i
          BY <2>a, <3>1, <3>2, <5>2 DEF TypeOK, RegistryTypeOK
        <5>4. QED
          BY <3>1, <4>1, <5>3
      <4>2. CASE t # s
        <5>1. t \notin astray /\ status[t] = "active" /\ owner'[t] = owner[t]
          BY <3>1, <3>2, <3>4, <4>2 DEF TypeOK, RegistryTypeOK
        <5>2. owner[t] \in Instances /\ linked[owner[t]] = t
          BY <2>b, <5>1
        <5>3. owner[t] # i
          BY <4>2, <5>2 DEF OwnerInv, LinksItsOwn
        <5>4. QED
          BY <2>a, <3>2, <5>1, <5>2, <5>3
      <4>3. QED
        BY <4>1, <4>2
    <3>5. QED
      BY <3>3, <3>4 DEF ReachInv, ActiveIsLinked
  <2>4. ASSUME NEW S \in SUBSET Sessions, RemoveSessions(S), NoneAnnounced,
               UNCHANGED <<channelVars, severed>>
        PROVE  ReachInv'
    <3>1. \A i \in Instances : linked'[i] = NoRuntime <=> linked[i] = NoRuntime
      BY <2>4, <2>a DEF RemoveSessions
    <3>2. QED
      BY <2>4, <2>a, <3>1, EntriesStable, RemovalKeepsActive DEF ReachInv, channelVars
  <2>8. ASSUME NEW c \in Conns, HeartbeatClose(c) PROVE ReachInv'
    <3>1. registered[c] \in Instances
      BY <2>8, <2>a DEF HeartbeatClose, Registered
    <3>2. /\ GoStale(SessionsLinkedTo(registered[c])) /\ NoneAnnounced
          /\ UNCHANGED <<owner, linked, registered, severed>>
      BY <2>8 DEF HeartbeatClose, MarkInstanceStale
    <3>3. QED
      BY <2>a, <2>d, <3>1, <3>2, EntriesStable DEF ReachInv
  <2>9. ASSUME NEW c \in Conns, RemoveConnection(c) PROVE ReachInv'
    <3>1. /\ registered' = [registered EXCEPT ![c] = NoInstance]
          /\ severed' = (severed \ {registered[c]}) \cup SeveredBy(c)
          /\ NoneAnnounced
      BY <2>9 DEF RemoveConnection
    <3>2. CASE registered[c] = NoInstance
      <4>1. UNCHANGED registryVars
        BY <2>9, <3>2 DEF RemoveConnection, RemoveFromRegistry
      <4>2. registered' = registered /\ severed' = severed
        BY <3>1, <3>2, <2>a DEF TypeOK, SeveredBy
      <4>3. ActiveIsLinked'
        BY <2>a, <3>1, <4>1, ActiveStable DEF NoneAnnounced, registryVars
      <4>4. QED
        BY <2>a, <4>1, <4>2, <4>3, EntriesStable DEF ReachInv, registryVars
    <3>3. CASE registered[c] # NoInstance
      <4> DEFINE i == registered[c]
      <4>1. /\ i \in Instances
            /\ linked' = [linked EXCEPT ![i] = NoRuntime]
            /\ GoStale(SessionsLinkedTo(i))
            /\ UNCHANGED owner
        BY <2>9, <2>a, <3>3 DEF RemoveConnection, RemoveFromRegistry, RemoveRuntime
      <4>2. ActiveIsLinked'
        BY <2>a, <2>d, <3>1, <4>1
      <4>3. EntryUnlessSevered'
        BY <2>a, <3>1, <4>1 DEF EntryUnlessSevered, SeveredBy
      <4>4. QED
        BY <4>2, <4>3 DEF ReachInv
    <3>4. QED
      BY <3>2, <3>3
  <2>11. CASE Tick
    BY <2>11 DEF Tick, AgeStaleSessions, channelVars, historyVars, ReachInv,
                 EntryUnlessSevered, ActiveIsLinked
  <2>12. Expired \in SUBSET Sessions /\ \A s \in Sessions : {s} \in SUBSET Sessions
    BY DEF Expired
  <2>13. QED
    BY <2>2, <2>3, <2>4, <2>8, <2>9, <2>11, <2>12, <2>c
       DEF Next, ConnectionStep, OpenSocket, SessionRemoved, StartPing, Pong, MissPong,
           PruneStaleSessions, vars, channelVars
<1>3. QED
  BY <1>1, <1>2, TypeCorrect, OwnersInvariant, PTL DEF Spec

\* Every session listed as active can be called, its runtime links it and the hub
\* has a live connection for it, but for those announced by a runtime that the
\* removal of another of its connections has severed.  Nothing is assumed of when
\* a runtime registers: what a reconnect that overlaps loses, it loses there only.
THEOREM ActiveSessionsReachable == Spec => []ActiveIsReachable
<1>1. TypeOK /\ TablesInv /\ ReachInv => ActiveIsReachable
  <2> SUFFICES ASSUME TypeOK, TablesInv, ReachInv,
                      NEW s \in Sessions \ astray, status[s] = "active"
               PROVE  /\ owner[s] # NoInstance
                      /\ linked[owner[s]] = s
                      /\ hubBinding[owner[s]] # NoConn
    BY DEF ActiveIsReachable
  <2>1. owner[s] \in Instances /\ linked[owner[s]] = s
    BY DEF ReachInv, ActiveIsLinked, TypeOK, RegistryTypeOK
  <2>2. QED
    BY <2>1 DEF TablesInv, TablesAgree
<1>2. QED
  BY <1>1, TypeCorrect, TablesConsistent, ReachInvariant, PTL DEF TablesInv

-----------------------------------------------------------------------------
(* Task panes and daemon together *)

USE WireAssumption

-----------------------------------------------------------------------------
(* Type correctness *)

\* A pane that is dialing or connected has a socket, and one that is connected
\* has a socket whose thread runs, unless the daemon has left it.  Nothing is
\* under way on a connection without a thread, nor before the socket opens:
\* this is why a register frame never exceeds the bound on the wire.
SocketsOK ==
  /\ \A i \in Instances : phase[i] \in OpenPhases \cup {"dialing"} => current[i] \in Conns
  /\ \A i \in Instances : phase[i] \in OpenPhases /\ dialer[current[i]] = i =>
       socket[current[i]] # "free"
  /\ \A i \in Instances : phase[i] = "dialing" /\ dialer[current[i]] = i =>
       wire[current[i]] = <<>>
  /\ \A c \in Conns : socket[c] # "free" => dialer[c] # NoInstance
  /\ \A c \in Conns : socket[c] = "free" => wire[c] = <<>>

PaneTypes ==
  /\ socket \in [Conns -> {"free", "open", "closing"}]
  /\ phase \in [Instances -> {"down", "dialing", "quit"} \cup OpenPhases]
  /\ current \in [Instances -> Conns \cup {NoConn}]
  /\ announcing \in [Instances -> 0 .. MaxAwaits]
  /\ connected \in [Instances -> BOOLEAN]
  /\ dialer \in [Conns -> Instances \cup {NoInstance}]
  /\ wire \in [Conns -> Seq(Frames)]
  /\ \A c \in Conns : Len(wire[c]) <= MaxWire
  /\ replied \in [Conns -> BOOLEAN]

PaneInv == PaneTypes /\ SocketsOK
\* A frame sent goes behind those under way.
LEMMA FrameAppended ==
  ASSUME NEW s \in Seq(Frames), NEW f \in Frames
  PROVE  /\ Append(s, f) \in Seq(Frames)
         /\ Len(Append(s, f)) = Len(s) + 1
         /\ \A k \in 1 .. Len(s) : Append(s, f)[k] = s[k]
         /\ Append(s, f)[Len(s) + 1] = f
  OBVIOUS

\* A frame read was the first; the others move up.
LEMMA FrameRead ==
  ASSUME NEW s \in Seq(Frames), s # <<>>
  PROVE  /\ Tail(s) \in Seq(Frames)
         /\ Len(s) \in Nat \ {0}
         /\ Len(Tail(s)) = Len(s) - 1
         /\ \A k \in 1 .. Len(s) : k # 1 => k - 1 \in 1 .. Len(Tail(s)) /\ Tail(s)[k - 1] = s[k]
         /\ Head(s) = s[1]
  OBVIOUS

\* Steps that concern neither panes nor threads.
LEMMA SocketsKept ==
  ASSUME PaneInv, UNCHANGED <<socket, paneVars>>
  PROVE  PaneInv'
  BY DEF PaneInv, PaneTypes, SocketsOK, paneVars

\* What a pane does.
LEMMA PaneStepTyped ==
  ASSUME PaneInv, NEW i \in Instances, PaneStep(i)
  PROVE  PaneInv'
<1> USE DEF PaneInv, PaneTypes, SocketsOK, OpenPhases, ShowsOtherwise
<1>s. UNCHANGED socket
  BY DEF PaneStep, Dial, SaveEndpoint, SocketOpens, RegisterResponse, Announce, AnnounceFails,
         SocketFails, Quit, HangUp, PeerClosed, vars, channelVars
<1>f. {"register", "added", "close"} \subseteq Frames
  BY DEF Frames
<1>1. ASSUME NEW c \in Conns, Dial(i, c) PROVE PaneInv'
  BY <1>1, <1>s DEF Dial, Unused
<1>2. ASSUME NEW c \in Conns, SaveEndpoint(i, c) PROVE PaneInv'
  <2>1. current[i] \in Conns /\ c # current[i]
    BY <1>2 DEF SaveEndpoint, Unused
  <2>2. /\ wire' \in [Conns -> Seq(Frames)]
        /\ \A d \in Conns : Len(wire'[d]) <= MaxWire
        /\ \A d \in Conns : d # current[i] \/ socket[d] = "free" => wire'[d] = wire[d]
    BY <1>2, <1>f, <2>1, FrameAppended DEF SaveEndpoint, Hangs
  <2>3. /\ phase' = [phase EXCEPT ![i] = "dialing"]
        /\ current' = [current EXCEPT ![i] = c]
        /\ dialer' = [dialer EXCEPT ![c] = i,
                        ![current[i]] = IF socket[current[i]] = "free" THEN NoInstance ELSE i]
        /\ connected' = [connected EXCEPT ![i] = FALSE]
        /\ UNCHANGED <<announcing, replied>>
        /\ dialer[current[i]] = i /\ socket[c] = "free" /\ dialer[c] = NoInstance
    BY <1>2, <2>1 DEF SaveEndpoint, Abandoned, Unused
  <2>4. PaneTypes'
    BY <1>s, <2>1, <2>2, <2>3
  <2>5. SocketsOK'
    BY <1>s, <2>1, <2>2, <2>3
  <2>6. QED
    BY <2>4, <2>5
<1>3. CASE SocketOpens(i)
  <2>1. current[i] \in Conns /\ wire[current[i]] = <<>>
    BY <1>3 DEF SocketOpens
  <2>2. /\ wire' \in [Conns -> Seq(Frames)]
        /\ \A d \in Conns : Len(wire'[d]) <= MaxWire
        /\ \A d \in Conns : d # current[i] => wire'[d] = wire[d]
    BY <1>3, <1>f, <2>1, FrameAppended DEF SocketOpens
  <2>3. QED
    BY <1>3, <1>s, <2>1, <2>2 DEF SocketOpens
<1>4. CASE RegisterResponse(i)
  BY <1>4, <1>s DEF RegisterResponse
<1>5. CASE Announce(i)
  <2>1. /\ announcing' = [announcing EXCEPT ![i] = @ - 1] /\ announcing[i] > 0
        /\ connected' = [connected EXCEPT ![i] = TRUE]
        /\ UNCHANGED <<phase, current, dialer, replied>>
    BY <1>5 DEF Announce
  <2>2. announcing' \in [Instances -> 0 .. MaxAwaits] /\ connected' \in [Instances -> BOOLEAN]
    BY <2>1
  <2>3. CASE CanSend(i)
    <3>1. /\ current[i] \in Conns
          /\ wire' = [wire EXCEPT ![current[i]] = Append(@, "added")]
          /\ Len(wire[current[i]]) < MaxWire
      BY <1>5, <2>3 DEF Announce, SendAdded, CanSend
    <3>2. /\ wire' \in [Conns -> Seq(Frames)]
          /\ \A d \in Conns : Len(wire'[d]) <= MaxWire
          /\ \A d \in Conns : d # current[i] => wire'[d] = wire[d]
      BY <1>f, <3>1, FrameAppended
    <3>3. PaneTypes'
      BY <1>s, <2>1, <2>2, <3>2
    <3>4. SocketsOK'
      <4>1. \A j \in Instances : phase[j] = "dialing" /\ dialer[current[j]] = j =>
              current[j] # current[i]
        BY <2>3 DEF CanSend
      <4>2. socket[current[i]] # "free"
        BY <2>3 DEF CanSend
      <4>3. QED
        BY <1>s, <2>1, <3>1, <3>2, <4>1, <4>2
    <3>5. QED
      BY <3>3, <3>4
  <2>4. CASE ~CanSend(i)
    <3>1. UNCHANGED wire
      BY <1>5, <2>4 DEF Announce, SendAdded
    <3>2. QED
      BY <1>s, <2>1, <2>2, <3>1
  <2>5. QED
    BY <2>3, <2>4
<1>5a. CASE AnnounceFails(i)
  BY <1>5a, <1>s DEF AnnounceFails
<1>6. ASSUME NEW to \in {"down", "quit"}, HangUp(i, to) PROVE PaneInv'
  <2>1. current[i] \in Conns
    BY <1>6 DEF HangUp
  <2>2. /\ wire' \in [Conns -> Seq(Frames)]
        /\ \A d \in Conns : Len(wire'[d]) <= MaxWire
        /\ \A d \in Conns : d # current[i] \/ socket[d] = "free" => wire'[d] = wire[d]
    BY <1>6, <1>f, <2>1, FrameAppended DEF HangUp, Hangs
  <2>3. /\ phase' = [phase EXCEPT ![i] = to]
        /\ current' = [current EXCEPT ![i] = NoConn]
        /\ dialer' = [dialer EXCEPT ![current[i]] =
                        IF socket[current[i]] = "free" THEN NoInstance ELSE @]
        /\ announcing' = [announcing EXCEPT ![i] = IF to = "quit" THEN 0 ELSE @]
        /\ connected' = [connected EXCEPT ![i] = FALSE]
        /\ UNCHANGED replied
        /\ dialer[current[i]] = i
    BY <1>6, <2>1 DEF HangUp, Abandoned
  <2>4. announcing' \in [Instances -> 0 .. MaxAwaits]
    BY <2>3
  <2>5. PaneTypes'
    BY <1>s, <2>1, <2>2, <2>3, <2>4
  <2>6. SocketsOK'
    BY <1>s, <2>1, <2>2, <2>3
  <2>7. QED
    BY <2>5, <2>6
<1>7. CASE PeerClosed(i)
  BY <1>7, <1>s DEF PeerClosed
<1>8. QED
  BY <1>1, <1>2, <1>3, <1>4, <1>5, <1>5a, <1>6, <1>7 DEF PaneStep, SocketFails, Quit

\* What a connection's thread does.
LEMMA ThreadStepTyped ==
  ASSUME PaneInv, NEW c \in Conns, ThreadStep(c)
  PROVE  PaneInv'
<1> USE DEF PaneInv, PaneTypes, SocketsOK, OpenPhases
<1>1. CASE Accept(c)
  BY <1>1 DEF Accept, OpenSocket, paneVars
<1>2. ASSUME NEW f \in Frames, NextFrame(c, f), wire' = [wire EXCEPT ![c] = Tail(@)],
             UNCHANGED <<socket, phase, current, announcing, connected, dialer>>,
             replied' \in [Conns -> BOOLEAN]
      PROVE  PaneInv'
  <2>1. Tail(wire[c]) \in Seq(Frames) /\ Len(Tail(wire[c])) <= MaxWire
    BY <1>2, FrameRead DEF NextFrame
  <2>2. \A i \in Instances : phase[i] = "dialing" /\ dialer[current[i]] = i => current[i] # c
    BY <1>2 DEF NextFrame
  <2>3. QED
    BY <1>2, <2>1, <2>2 DEF NextFrame
<1>3. CASE ReadRegister(c)
  BY <1>2, <1>3 DEF ReadRegister, Register, Frames
<1>4. CASE ReadAdded(c)
  BY <1>2, <1>4 DEF ReadAdded, SessionAdded, channelVars, Frames
<1>5. CASE Leave(c)
  <2>1. /\ socket' = [socket EXCEPT ![c] = "free"]
        /\ wire' = [wire EXCEPT ![c] = <<>>]
        /\ replied' = [replied EXCEPT ![c] = FALSE]
        /\ dialer' = [dialer EXCEPT ![c] = NoInstance]
        /\ UNCHANGED <<phase, current, announcing, connected>>
    BY <1>5 DEF Leave, RemoveConnection
  <2>2. QED
    BY <2>1
<1>6. CASE Heartbeat(c)
  <2>1. UNCHANGED <<phase, current, announcing, connected, dialer, wire, replied>>
    BY <1>6 DEF Heartbeat, paneVars
  <2>2. \/ UNCHANGED socket
        \/ socket[c] = "open" /\ socket' = [socket EXCEPT ![c] = "closing"]
    BY <1>6 DEF Heartbeat, StartPing, Pong, MissPong, HeartbeatClose, Registered
  <2>3. QED
    BY <2>1, <2>2
<1>7. QED
  BY <1>1, <1>3, <1>4, <1>5, <1>6 DEF ThreadStep

\* PaneInv is inductive without any knowledge of the daemon's tables.
LEMMA PanesInvariant == PaneSpec => []PaneInv
<1>1. PaneInit => PaneInv
  <2> SUFFICES ASSUME PaneInit PROVE PaneInv
    OBVIOUS
  <2>1. PaneTypes
    <3>1. \A c \in Conns : wire[c] = <<>>
      BY DEF PaneInit
    <3>2. <<>> \in Seq(Frames) /\ Len(<<>>) = 0
      OBVIOUS
    <3>3. QED
      BY <3>1, <3>2 DEF PaneInit, Init, PaneTypes
  <2>2. SocketsOK
    BY DEF PaneInit, Init, SocketsOK, OpenPhases
  <2>3. QED
    BY <2>1, <2>2 DEF PaneInv
<1>2. PaneInv /\ [PaneNext]_allVars => PaneInv'
  <2> SUFFICES ASSUME PaneInv, [PaneNext]_allVars PROVE PaneInv'
    OBVIOUS
  <2>1. CASE Cleanup
    BY <2>1, SocketsKept DEF Cleanup, PruneStaleSessions, Tick, channelVars, paneVars
  <2>2. CASE UNCHANGED allVars
    BY <2>2, SocketsKept DEF allVars, vars, channelVars, paneVars
  <2>3. QED
    BY <2>1, <2>2, PaneStepTyped, ThreadStepTyped DEF PaneNext
<1>3. QED
  BY <1>1, <1>2, PTL DEF PaneSpec

\* A pane registers once on each of its sockets, as itself: the register request
\* is the first frame of a connection, and until it is read the connection is not
\* registered.
RegisteredOnce ==
  /\ registered \in [Conns -> Instances \cup {NoInstance}]
  /\ \A c \in Conns : registered[c] # NoInstance =>
       registered[c] = dialer[c] /\ socket[c] # "free"
  /\ \A c \in Conns : \A k \in 1 .. Len(wire[c]) :
       wire[c][k] = "register" => k = 1 /\ registered[c] = NoInstance
  /\ \A i \in Instances : phase[i] = "dialing" /\ dialer[current[i]] = i =>
       registered[current[i]] = NoInstance

\* No register request comes behind the first frame of a connection.
LEMMA RegisterComesFirst ==
  ASSUME NEW s \in Seq(Frames), s # <<>>,
         \A k \in 1 .. Len(s) : s[k] = "register" => k = 1
  PROVE  \A k \in 1 .. Len(Tail(s)) : Tail(s)[k] # "register"
  OBVIOUS

\* Nor do the frames that follow it include another.
LEMMA OtherFrameSent ==
  ASSUME NEW s \in Seq(Frames), NEW f \in Frames, f # "register",
         NEW k \in 1 .. Len(Append(s, f)), Append(s, f)[k] = "register"
  PROVE  k \in 1 .. Len(s) /\ s[k] = "register"
<1>1. k \in 1 .. Len(s) \/ k = Len(s) + 1
  BY FrameAppended
<1>2. QED
  BY <1>1, FrameAppended

\* On the wire of a connection nothing happens, another frame is sent, or one is
\* read.
NoneRequested(c) ==
  \/ wire'[c] = wire[c]
  \/ \E f \in Frames \ {"register"} : wire'[c] = Append(wire[c], f)
  \/ wire[c] # <<>> /\ wire'[c] = Tail(wire[c])

\* Steps that register nothing, in which no connection with a thread changes
\* hands and no register request is sent.
LEMMA OnceStable ==
  ASSUME PaneInv, RegisteredOnce, UNCHANGED registered,
         \A c \in Conns : socket'[c] = "free" <=> socket[c] = "free",
         \A c \in Conns : socket[c] # "free" => dialer'[c] = dialer[c],
         \A c \in Conns : NoneRequested(c),
         \A i \in Instances : phase'[i] = "dialing" /\ dialer'[current'[i]] = i =>
           \/ current'[i] \in Conns /\ socket[current'[i]] = "free"
           \/ phase[i] = "dialing" /\ current'[i] = current[i] /\ dialer[current[i]] = i
  PROVE  RegisteredOnce'
<1>1. /\ wire \in [Conns -> Seq(Frames)]
      /\ \A i \in Instances : phase[i] = "dialing" => current[i] \in Conns
  BY DEF PaneInv, PaneTypes, SocketsOK
<1>2. ASSUME NEW c \in Conns, NEW k \in 1 .. Len(wire'[c]), wire'[c][k] = "register"
      PROVE  k = 1 /\ registered'[c] = NoInstance
  <2>1. CASE wire'[c] = wire[c]
    BY <1>2, <2>1 DEF RegisteredOnce
  <2>2. ASSUME NEW f \in Frames \ {"register"}, wire'[c] = Append(wire[c], f)
        PROVE  k = 1 /\ registered'[c] = NoInstance
    <3>1. k \in 1 .. Len(wire[c]) /\ wire[c][k] = "register"
      BY <1>1, <1>2, <2>2, OtherFrameSent
    <3>2. QED
      BY <3>1 DEF RegisteredOnce
  <2>3. CASE wire[c] # <<>> /\ wire'[c] = Tail(wire[c])
    BY <1>1, <1>2, <2>3, RegisterComesFirst DEF RegisteredOnce
  <2>4. QED
    BY <2>1, <2>2, <2>3 DEF NoneRequested
<1>3. \A c \in Conns : registered'[c] # NoInstance =>
        registered'[c] = dialer'[c] /\ socket'[c] # "free"
  BY DEF RegisteredOnce
<1>4. \A i \in Instances : phase'[i] = "dialing" /\ dialer'[current'[i]] = i =>
        registered'[current'[i]] = NoInstance
  BY <1>1 DEF RegisteredOnce
<1>5. QED
  BY <1>2, <1>3, <1>4 DEF RegisteredOnce

\* What a pane does keeps to it.
LEMMA PaneRegistersOnce ==
  ASSUME PaneInv, RegisteredOnce, NEW i \in Instances, PaneStep(i)
  PROVE  RegisteredOnce'
<1> USE DEF OpenPhases
<1>a. /\ phase \in [Instances -> {"down", "dialing", "quit"} \cup OpenPhases]
      /\ current \in [Instances -> Conns \cup {NoConn}]
      /\ dialer \in [Conns -> Instances \cup {NoInstance}]
      /\ wire \in [Conns -> Seq(Frames)]
      /\ \A j \in Instances : phase[j] \in OpenPhases \cup {"dialing"} => current[j] \in Conns
      /\ \A j \in Instances : phase[j] = "dialing" /\ dialer[current[j]] = j =>
           wire[current[j]] = <<>>
  BY DEF PaneInv, PaneTypes, SocketsOK
<1>b. UNCHANGED <<registered, socket>>
  BY DEF PaneStep, Dial, SaveEndpoint, SocketOpens, RegisterResponse, Announce, AnnounceFails,
         SocketFails, Quit, HangUp, PeerClosed, vars, channelVars
<1>c. {"added", "close"} \subseteq Frames \ {"register"}
  BY DEF Frames
<1>1. ASSUME NEW c \in Conns, Dial(i, c) PROVE RegisteredOnce'
  BY <1>1, <1>a, <1>b, OnceStable DEF Dial, Unused, NoneRequested
<1>2. ASSUME NEW c \in Conns, SaveEndpoint(i, c) PROVE RegisteredOnce'
  <2>1. current[i] \in Conns /\ c # current[i]
    BY <1>2, <1>a DEF SaveEndpoint, Unused
  <2>2. \A d \in Conns : NoneRequested(d)
    BY <1>2, <1>a, <1>c, <2>1 DEF SaveEndpoint, Hangs, NoneRequested
  <2>3. /\ \A d \in Conns : socket[d] # "free" => dialer'[d] = dialer[d]
        /\ \A d \in Conns : socket[d] = "free" => d = c \/ d = current[i] \/ dialer'[d] = dialer[d]
    BY <1>2, <1>a, <2>1 DEF SaveEndpoint, Unused, Abandoned
  <2>4. \A j \in Instances : phase'[j] = "dialing" /\ dialer'[current'[j]] = j =>
           \/ current'[j] \in Conns /\ socket[current'[j]] = "free"
           \/ phase[j] = "dialing" /\ current'[j] = current[j] /\ dialer[current[j]] = j
    BY <1>2, <1>a, <2>1, <2>3 DEF SaveEndpoint, Unused
  <2>5. QED
    BY <1>b, <2>2, <2>3, <2>4, OnceStable
<1>3. CASE SocketOpens(i)
  <2>1. current[i] \in Conns /\ wire[current[i]] = <<>> /\ registered[current[i]] = NoInstance
    BY <1>3, <1>a DEF SocketOpens, RegisteredOnce
  <2>2. /\ wire' = [wire EXCEPT ![current[i]] = Append(<<>>, "register")]
        /\ phase' = [phase EXCEPT ![i] = "registering"]
        /\ UNCHANGED <<current, dialer>>
    BY <1>3, <1>a, <2>1 DEF SocketOpens
  <2>3. Append(<<>>, "register") = <<"register">>
    OBVIOUS
  <2>4. QED
    BY <1>a, <1>b, <2>1, <2>2, <2>3 DEF RegisteredOnce
<1>4. ASSUME NEW to, HangUp(i, to), to # "dialing" PROVE RegisteredOnce'
  <2>1. current[i] \in Conns
    BY <1>4, <1>a DEF HangUp
  <2>2. \A d \in Conns : NoneRequested(d)
    BY <1>4, <1>a, <1>c, <2>1 DEF HangUp, Hangs, NoneRequested
  <2>3. /\ \A d \in Conns : socket[d] # "free" => dialer'[d] = dialer[d]
        /\ \A d \in Conns : d # current[i] => dialer'[d] = dialer[d]
    BY <1>4, <1>a, <2>1 DEF HangUp, Abandoned
  <2>4. \A j \in Instances : phase'[j] = "dialing" /\ dialer'[current'[j]] = j =>
           \/ current'[j] \in Conns /\ socket[current'[j]] = "free"
           \/ phase[j] = "dialing" /\ current'[j] = current[j] /\ dialer[current[j]] = j
    <3>1. ASSUME NEW j \in Instances, phase'[j] = "dialing", dialer'[current'[j]] = j
          PROVE  phase[j] = "dialing" /\ current'[j] = current[j] /\ current[j] \in Conns
      BY <1>4, <1>a, <3>1 DEF HangUp
    <3>2. QED
      BY <2>3, <3>1
  <2>5. QED
    BY <1>b, <2>2, <2>3, <2>4, OnceStable
<1>5. CASE RegisterResponse(i) \/ AnnounceFails(i) \/ PeerClosed(i)
  <2>1. UNCHANGED <<dialer, wire>>
    BY <1>5 DEF RegisterResponse, AnnounceFails, PeerClosed
  <2>2. \A j \in Instances : phase'[j] = "dialing" =>
          phase[j] = "dialing" /\ current'[j] = current[j]
    BY <1>5, <1>a DEF RegisterResponse, AnnounceFails, PeerClosed
  <2>3. QED
    BY <1>b, <2>1, <2>2, OnceStable DEF NoneRequested
<1>6. CASE Announce(i)
  <2>1. UNCHANGED <<phase, current, dialer>>
    BY <1>6 DEF Announce
  <2>2. \A d \in Conns : NoneRequested(d)
    BY <1>6, <1>a, <1>c DEF Announce, SendAdded, CanSend, NoneRequested
  <2>3. QED
    BY <1>b, <2>1, <2>2, OnceStable
<1>7. QED
  BY <1>1, <1>2, <1>3, <1>4, <1>5, <1>6 DEF PaneStep, SocketFails, Quit

\* And what the connections' threads do.
LEMMA ThreadRegistersOnce ==
  ASSUME PaneInv, RegisteredOnce, NEW c \in Conns, ThreadStep(c)
  PROVE  RegisteredOnce'
<1>a. /\ wire \in [Conns -> Seq(Frames)]
      /\ socket \in [Conns -> {"free", "open", "closing"}]
      /\ dialer \in [Conns -> Instances \cup {NoInstance}]
      /\ \A i \in Instances : phase[i] = "dialing" =>
           current[i] \in Conns /\ (dialer[current[i]] = i => wire[current[i]] = <<>>)
      /\ \A d \in Conns : socket[d] # "free" => dialer[d] # NoInstance
  BY DEF PaneInv, PaneTypes, SocketsOK, OpenPhases
<1>1. CASE Accept(c)
  <2>1. /\ UNCHANGED <<registered, phase, current, dialer, wire>>
        /\ socket' = [socket EXCEPT ![c] = "open"]
    BY <1>1 DEF Accept, OpenSocket, paneVars
  <2>2. QED
    BY <1>a, <2>1 DEF RegisteredOnce
<1>2. CASE ReadRegister(c)
  <2>1. /\ socket[c] = "open" /\ wire[c] # <<>>
        /\ registered' = [registered EXCEPT ![c] = dialer[c]]
        /\ wire' = [wire EXCEPT ![c] = Tail(@)]
        /\ UNCHANGED <<socket, phase, current, dialer>>
    BY <1>2 DEF ReadRegister, NextFrame, Register
  <2>2. \A k \in 1 .. Len(Tail(wire[c])) : Tail(wire[c])[k] # "register"
    BY <1>a, <2>1, RegisterComesFirst DEF RegisteredOnce
  <2>3. \A i \in Instances : phase[i] = "dialing" /\ dialer[current[i]] = i => current[i] # c
    BY <1>a, <2>1
  <2>4. QED
    BY <1>a, <2>1, <2>2, <2>3 DEF RegisteredOnce
<1>3. CASE ReadAdded(c)
  <2>1. /\ UNCHANGED <<registered, socket, phase, current, dialer>>
        /\ wire[c] # <<>> /\ wire' = [wire EXCEPT ![c] = Tail(@)]
    BY <1>3 DEF ReadAdded, NextFrame, SessionAdded, channelVars
  <2>2. \A d \in Conns : NoneRequested(d)
    BY <1>a, <2>1 DEF NoneRequested
  <2>3. QED
    BY <1>a, <2>1, <2>2, OnceStable
<1>4. CASE Leave(c)
  <2>1. /\ socket' = [socket EXCEPT ![c] = "free"]
        /\ registered' = [registered EXCEPT ![c] = NoInstance]
        /\ wire' = [wire EXCEPT ![c] = <<>>]
        /\ dialer' = [dialer EXCEPT ![c] = NoInstance]
        /\ UNCHANGED <<phase, current>>
    BY <1>4 DEF Leave, RemoveConnection
  <2>2. QED
    BY <1>a, <2>1 DEF RegisteredOnce
<1>5. CASE Heartbeat(c)
  <2>1. UNCHANGED <<registered, phase, current, dialer, wire>>
    BY <1>5 DEF Heartbeat, paneVars, StartPing, Pong, MissPong, HeartbeatClose
  <2>2. \A d \in Conns : socket'[d] = "free" <=> socket[d] = "free"
    BY <1>5, <1>a DEF Heartbeat, StartPing, Pong, MissPong, HeartbeatClose, Registered
  <2>3. QED
    BY <2>1, <2>2, OnceStable DEF NoneRequested
<1>6. QED
  BY <1>1, <1>2, <1>3, <1>4, <1>5 DEF ThreadStep

\* So it holds of panes and daemon together.
LEMMA PanesRegisterOnce == PaneSpec => []RegisteredOnce
<1>1. PaneInit => RegisteredOnce
  BY DEF PaneInit, Init, RegisteredOnce
<1>2. PaneInv /\ RegisteredOnce /\ [PaneNext]_allVars => RegisteredOnce'
  <2> SUFFICES ASSUME PaneInv, RegisteredOnce, [PaneNext]_allVars PROVE RegisteredOnce'
    OBVIOUS
  <2>1. CASE Cleanup \/ UNCHANGED allVars
    <3>1. UNCHANGED <<registered, socket, phase, current, dialer, wire>>
      BY <2>1 DEF Cleanup, PruneStaleSessions, Tick, channelVars, paneVars, allVars, vars
    <3>2. QED
      BY <3>1, OnceStable DEF NoneRequested
  <2>2. QED
    BY <2>1, PaneRegistersOnce, ThreadRegistersOnce DEF PaneNext
<1>3. QED
  BY <1>1, <1>2, PanesInvariant, PTL DEF PaneSpec

\* What the daemon does, it does as AddinChannel says: the panes only decide
\* which of its steps are possible.  All that is proved of AddinChannel holds
\* of the composition.
LEMMA DaemonBehaves == PaneSpec => Spec
<1>1. PaneInit => Init
  BY DEF PaneInit
<1>2. PaneInv /\ RegisteredOnce /\ [PaneNext]_allVars => [Next]_vars
  <2> SUFFICES ASSUME PaneInv, RegisteredOnce, [PaneNext]_allVars PROVE [Next]_vars
    OBVIOUS
  <2>1. ASSUME NEW i \in Instances, PaneStep(i) PROVE UNCHANGED vars
    BY <2>1 DEF PaneStep, Dial, SaveEndpoint, SocketOpens, RegisterResponse, Announce,
                AnnounceFails, SocketFails, Quit, HangUp, PeerClosed
  <2>2. ASSUME NEW c \in Conns, ThreadStep(c) PROVE ConnectionStep(c)
    <3>1. socket[c] # "free" => dialer[c] \in Instances
      BY DEF PaneInv, PaneTypes, SocketsOK
    <3>2. Speaks(c, dialer[c])
      BY DEF Speaks, RegisteredOnce
    <3>3. QED
      BY <2>2, <3>1, <3>2 DEF ThreadStep, Accept, ReadRegister, NextFrame, ReadAdded, Leave,
                              Heartbeat, ConnectionStep
  <2>3. CASE Cleanup
    BY <2>3 DEF Cleanup, Next
  <2>4. CASE UNCHANGED allVars
    BY <2>4 DEF allVars
  <2>5. QED
    BY <2>1, <2>2, <2>3, <2>4 DEF PaneNext, Next
<1>3. QED
  BY <1>1, <1>2, PanesInvariant, PanesRegisterOnce, PTL DEF PaneSpec, Spec

\* Whatever panes and users do, every variable keeps its type and no more
\* frames than the bound allows are under way.
THEOREM PanesTypeCorrect == PaneSpec => []PaneTypeOK
<1>1. PaneInv /\ TypeOK => PaneTypeOK
  BY DEF PaneInv, PaneTypes, PaneTypeOK
<1>2. QED
  BY <1>1, PanesInvariant, DaemonBehaves, TypeCorrect, PTL

\* What the daemon lists as active it can reach, whatever the panes do, but for
\* what a pane announces that the late removal of an earlier connection has cut off.
THEOREM ActiveStaysReachable == PaneSpec => []ActiveIsReachable
  BY DaemonBehaves, ActiveSessionsReachable, PTL

-----------------------------------------------------------------------------
(* A pane that shows itself connected is connected *)

\* The daemon's side of the connection a pane has announced its session on.
Serves(i) ==
  /\ registered[current[i]] = i
  /\ hubBinding[i] = current[i]
  /\ linked[i] = SessionOf[i]
  /\ status[SessionOf[i]] = "active"

\* The announcement has still to be read.
Coming(i) == \E k \in 1 .. Len(wire[current[i]]) : wire[current[i]][k] = "added"

\* Another connection of the pane undoes its effect when the daemon comes to
\* remove it, or has done so already.
Disturbed(i) ==
  /\ registered[current[i]] = i
  /\ i \in severed \/ \E d \in Conns \ {current[i]} : registered[d] = i

\* What has become of the announcement.
Heard(i) == Coming(i) \/ Serves(i) \/ Disturbed(i)

\* The pane shows itself connected, on a connection the daemon still serves.
Announced(i) == connected[i] /\ CanSend(i) /\ socket[current[i]] = "open"

\* From the moment a pane shows itself connected, its announcement is under way or
\* has been acted upon, or an earlier connection stands in its way, until the
\* daemon leaves the connection or the pane shows something else.
AnnouncedInv == \A i \in SoleHolders : Announced(i) => Heard(i)

\* What is proved of AddinChannel.
DaemonInv == TypeOK /\ TablesInv /\ OwnerInv /\ ReachInv

\* A step of a connection's thread, as the daemon knows it; no connection that is
\* registered registers again.
DaemonStep(d) ==
  \/ OpenSocket(d)
  \/ \E j \in Instances : registered[d] = NoInstance /\ Register(d, j)
  \/ SessionAdded(d)
  \/ StartPing(d) \/ Pong(d) \/ MissPong(d) \/ HeartbeatClose(d)
  \/ RemoveConnection(d)

\* Once the announcement has been acted upon, only another connection of the same
\* pane can undo it while this one is open.
LEMMA ServesKept ==
  ASSUME DaemonInv, NEW i \in Instances, i \in SoleHolders, UNCHANGED current,
         current[i] \in Conns, Serves(i), socket'[current[i]] = "open",
         NEW d \in Conns, DaemonStep(d)
  PROVE  Serves(i)' \/ Disturbed(i)'
<1> DEFINE c == current[i]
           s == SessionOf[i]
<1>a. /\ linked \in [Instances -> Sessions \cup {NoRuntime, NoSession}]
      /\ status \in [Sessions -> {"absent", "active", "stale"}]
      /\ registered \in [Conns -> Instances \cup {NoInstance}]
      /\ hubBinding \in [Instances -> Conns \cup {NoConn}]
      /\ socket \in [Conns -> {"free", "open", "closing"}]
      /\ s \in Sessions /\ linked[i] = s /\ status[s] = "active"
      /\ registered[c] = i /\ hubBinding[i] = c /\ c' = c
  BY DEF DaemonInv, TypeOK, RegistryTypeOK, Serves
<1>b. ASSUME NEW j \in Instances, j # i PROVE s \notin SessionsLinkedTo(j)
  BY <1>a, <1>b DEF SessionsLinkedTo, DaemonInv, OwnerInv, LinksItsOwn, SoleHolders
<1>d. ASSUME NEW S, GoStale(S), s \notin S PROVE status'[s] = "active"
  BY <1>a, <1>d DEF GoStale
<1>1. ASSUME NEW j \in Instances, registered[d] = NoInstance, Register(d, j)
      PROVE  Serves(i)' \/ Disturbed(i)'
  <2>1. d # c /\ registered' = [registered EXCEPT ![d] = j]
    BY <1>1, <1>a DEF Register
  <2>2. CASE j = i
    BY <1>a, <2>1, <2>2 DEF Disturbed
  <2>3. CASE j # i
    <3>1. status'[s] = "active"
      BY <1>1, <1>b, <1>d, <2>3 DEF Register, RegisterRuntime
    <3>2. QED
      BY <1>1, <1>a, <2>1, <2>3, <3>1 DEF Register, RegisterRuntime, Serves
  <2>4. QED
    BY <2>2, <2>3
<1>2. CASE SessionAdded(d)
  <2> DEFINE j == registered[d]
  <2>1. j \in Instances /\ SessionOf[j] \in Sessions
    BY <1>2, <1>a DEF SessionAdded, Registered
  <2>2. /\ linked' = [linked EXCEPT ![j] = IF @ = NoRuntime THEN @ ELSE SessionOf[j]]
        /\ status' = [status EXCEPT ![SessionOf[j]] = "active"]
        /\ UNCHANGED <<registered, hubBinding>>
    BY <1>2 DEF SessionAdded, AddSession, channelVars
  <2>3. linked'[i] = s /\ status'[s] = "active"
    BY <1>a, <2>1, <2>2
  <2>4. QED
    BY <1>a, <2>2, <2>3 DEF Serves
<1>3. CASE HeartbeatClose(d)
  <2>1. d # c /\ registered[d] \in Instances /\ UNCHANGED registered
    BY <1>3, <1>a DEF HeartbeatClose, Registered
  <2>2. CASE registered[d] = i
    BY <1>a, <2>1, <2>2 DEF Disturbed
  <2>3. CASE registered[d] # i
    <3>1. status'[s] = "active"
      BY <1>3, <1>b, <1>d, <2>1, <2>3 DEF HeartbeatClose, MarkInstanceStale
    <3>2. QED
      BY <1>3, <1>a, <3>1 DEF HeartbeatClose, MarkInstanceStale, Serves
  <2>4. QED
    BY <2>2, <2>3
<1>4. CASE RemoveConnection(d)
  <2>1. d # c /\ registered' = [registered EXCEPT ![d] = NoInstance]
    BY <1>4, <1>a DEF RemoveConnection
  <2>i. CASE registered[d] = i
    <3>1. i \in SeveredBy(d)
      BY <1>a, <2>1, <2>i DEF SeveredBy
    <3>2. i \in severed'
      BY <1>4, <3>1 DEF RemoveConnection
    <3>3. QED
      BY <1>a, <2>1, <3>2 DEF Disturbed
  <2>2. hubInstance[d] = registered[d]
    BY DEF DaemonInv, TablesInv, TablesAgree
  <2>3. registered'[c] = i /\ (registered[d] # i => hubBinding'[i] = c)
    BY <1>4, <1>a, <2>1, <2>2 DEF RemoveConnection, UnbindFromHub
  <2>4. CASE registered[d] = NoInstance
    BY <1>4, <1>a, <2>3, <2>4 DEF RemoveConnection, RemoveFromRegistry, registryVars, Serves
  <2>5. CASE registered[d] \in Instances \ {i}
    <3>1. status'[s] = "active"
      BY <1>4, <1>b, <1>d, <2>1, <2>5 DEF RemoveConnection, RemoveFromRegistry, RemoveRuntime
    <3>2. linked'[i] = s
      BY <1>4, <1>a, <2>1, <2>5 DEF RemoveConnection, RemoveFromRegistry, RemoveRuntime
    <3>3. QED
      BY <1>a, <2>3, <2>5, <3>1, <3>2 DEF Serves
  <2>6. QED
    BY <1>a, <2>4, <2>5, <2>i
<1>5. CASE OpenSocket(d) \/ StartPing(d) \/ Pong(d) \/ MissPong(d)
  BY <1>5, <1>a DEF OpenSocket, StartPing, Pong, MissPong, registryVars, Serves
<1>6. QED
  BY <1>1, <1>2, <1>3, <1>4, <1>5 DEF DaemonStep

\* An earlier connection that stands in the way does so until it is removed, and
\* once it is the runtime is severed until it registers anew.
LEMMA DisturbedKept ==
  ASSUME TypeOK, NEW i \in Instances, UNCHANGED current, current[i] \in Conns,
         Disturbed(i), socket'[current[i]] = "open", NEW d \in Conns, DaemonStep(d)
  PROVE  Disturbed(i)'
<1> DEFINE c == current[i]
<1>a. /\ registered \in [Conns -> Instances \cup {NoInstance}]
      /\ socket \in [Conns -> {"free", "open", "closing"}]
      /\ registered[c] = i /\ c' = c
  BY DEF TypeOK, Disturbed
<1>1. CASE UNCHANGED <<registered, severed>>
  BY <1>1 DEF Disturbed
<1>2. ASSUME NEW j \in Instances, registered[d] = NoInstance, Register(d, j)
      PROVE  Disturbed(i)'
  <2>1. d # c /\ registered' = [registered EXCEPT ![d] = j] /\ severed' = severed \ {j}
    BY <1>2, <1>a DEF Register
  <2>2. CASE j = i
    BY <1>a, <2>1, <2>2 DEF Disturbed
  <2>3. CASE j # i
    BY <1>2, <1>a, <2>1, <2>3 DEF Disturbed
  <2>4. QED
    BY <2>2, <2>3
<1>3. CASE RemoveConnection(d)
  <2>1. /\ d # c /\ registered' = [registered EXCEPT ![d] = NoInstance]
        /\ severed' = (severed \ {registered[d]}) \cup SeveredBy(d)
    BY <1>3, <1>a DEF RemoveConnection
  <2>2. CASE registered[d] = i
    BY <1>a, <2>1, <2>2 DEF Disturbed, SeveredBy
  <2>3. CASE registered[d] # i
    BY <1>a, <2>1, <2>3 DEF Disturbed
  <2>4. QED
    BY <2>2, <2>3
<1>4. QED
  BY <1>1, <1>2, <1>3
     DEF DaemonStep, OpenSocket, SessionAdded, StartPing, Pong, MissPong, HeartbeatClose,
         channelVars, historyVars

\* Reading the announcement makes the session active and links it, unless an
\* earlier connection stands in the way.
LEMMA AnnouncementActs ==
  ASSUME DaemonInv, NEW i \in Instances, UNCHANGED current, current[i] \in Conns,
         registered[current[i]] = i, SessionAdded(current[i])
  PROVE  Serves(i)' \/ Disturbed(i)'
<1>1. CASE Disturbed(i)
  BY <1>1 DEF SessionAdded, channelVars, Disturbed
<1>2. CASE ~Disturbed(i)
  <2>1. linked[i] # NoRuntime
    BY <1>2 DEF Disturbed, DaemonInv, ReachInv, EntryUnlessSevered
  <2>2. hubBinding[i] \in Conns /\ registered[hubBinding[i]] = i
    BY <2>1 DEF DaemonInv, TypeOK, TablesInv, TablesAgree, RoutingSound
  <2>3. hubBinding[i] = current[i]
    BY <1>2, <2>2 DEF Disturbed
  <2>4. QED
    BY <2>1, <2>3 DEF SessionAdded, AddSession, channelVars, Serves, DaemonInv, TypeOK,
                      RegistryTypeOK
<1>3. QED
  BY <1>1, <1>2

\* A frame further back stays under way when another is read or sent.
LEMMA StaysComing ==
  ASSUME PaneInv, NEW i \in Instances, current[i] \in Conns, current'[i] = current[i],
         Coming(i),
         \/ wire'[current[i]] = wire[current[i]]
         \/ \E f \in Frames : wire'[current[i]] = Append(wire[current[i]], f)
         \/ /\ wire[current[i]] # <<>> /\ Head(wire[current[i]]) # "added"
            /\ wire'[current[i]] = Tail(wire[current[i]])
  PROVE  Coming(i)'
<1> DEFINE w == wire[current[i]]
<1>1. w \in Seq(Frames)
  BY DEF PaneInv, PaneTypes
<1>2. PICK k \in 1 .. Len(w) : w[k] = "added"
  BY DEF Coming
<1> USE DEF Coming
<1>3. CASE wire'[current[i]] = w
  BY <1>2, <1>3
<1>4. ASSUME NEW f \in Frames, wire'[current[i]] = Append(w, f) PROVE Coming(i)'
  <2>1. Append(w, f)[k] = "added" /\ k \in 1 .. Len(Append(w, f))
    BY <1>1, <1>2, FrameAppended
  <2>2. QED
    BY <1>4, <2>1
<1>5. CASE w # <<>> /\ Head(w) # "added" /\ wire'[current[i]] = Tail(w)
  <2>1. k - 1 \in 1 .. Len(Tail(w)) /\ Tail(w)[k - 1] = "added"
    BY <1>1, <1>2, <1>5, FrameRead
  <2>2. QED
    BY <1>5, <2>1
<1>6. QED
  BY <1>3, <1>4, <1>5

\* What a pane does, itself or another, to what it shows: it announces, or it
\* shows something else.
LEMMA PanesKeepAnnounced ==
  ASSUME PaneInv, NEW j \in Instances, PaneStep(j), NEW i \in Instances, Announced(i)',
         Announced(i) => Heard(i)
  PROVE  Heard(i)'
<1> USE DEF OpenPhases, ShowsOtherwise
<1>a. /\ phase \in [Instances -> {"down", "dialing", "quit"} \cup OpenPhases]
      /\ current \in [Instances -> Conns \cup {NoConn}]
      /\ connected \in [Instances -> BOOLEAN]
      /\ dialer \in [Conns -> Instances \cup {NoInstance}]
      /\ wire \in [Conns -> Seq(Frames)]
      /\ \A k \in Instances : phase[k] \in OpenPhases \cup {"dialing"} => current[k] \in Conns
  BY DEF PaneInv, PaneTypes, SocketsOK
<1>b. UNCHANGED vars
  BY DEF PaneStep, Dial, SaveEndpoint, SocketOpens, RegisterResponse, Announce, AnnounceFails,
         SocketFails, Quit, HangUp, PeerClosed
<1>c. {"register", "added", "close"} \subseteq Frames
  BY DEF Frames
<1>d. /\ connected'[i] /\ phase'[i] \in OpenPhases /\ dialer'[current'[i]] = i
      /\ socket[current'[i]] = "open"
  BY <1>b DEF Announced, CanSend, vars, channelVars
<1>1. ASSUME Announced(i), current'[i] = current[i],
             \/ wire'[current[i]] = wire[current[i]]
             \/ \E f \in Frames : wire'[current[i]] = Append(wire[current[i]], f)
      PROVE  Heard(i)'
  <2>1. current[i] \in Conns
    BY <1>1, <1>a DEF Announced, CanSend
  <2>2. Serves(i) => Serves(i)'
    BY <1>1, <1>b DEF Serves, vars, registryVars, channelVars
  <2>3. Coming(i) => Coming(i)'
    BY <1>1, <2>1, StaysComing
  <2>4. Disturbed(i) => Disturbed(i)'
    BY <1>1, <1>b DEF Disturbed, vars, channelVars, historyVars
  <2>5. QED
    BY <1>1, <2>2, <2>3, <2>4 DEF Heard
<1>2. ASSUME j # i, UNCHANGED wire, phase'[i] = phase[i], connected'[i] = connected[i],
             current'[i] = current[i], dialer[current[i]] = i
      PROVE  Heard(i)'
  BY <1>1, <1>2, <1>d DEF Announced, CanSend
<1>3. ASSUME NEW c \in Conns, Dial(j, c) PROVE Heard(i)'
  <2>1. j # i
    BY <1>3, <1>a, <1>d DEF Dial
  <2>2. /\ UNCHANGED wire
        /\ phase'[i] = phase[i] /\ connected'[i] = connected[i] /\ current'[i] = current[i]
    BY <1>3, <1>a, <2>1 DEF Dial
  <2>3. dialer[current[i]] = i
    BY <1>3, <1>a, <1>d, <2>1, <2>2 DEF Dial
  <2>4. QED
    BY <1>2, <2>1, <2>2, <2>3
<1>4. ASSUME NEW c \in Conns, SaveEndpoint(j, c) PROVE Heard(i)'
  <2>1. j # i
    BY <1>4, <1>a, <1>d DEF SaveEndpoint
  <2>2. current[j] \in Conns /\ dialer[current[j]] = j
    BY <1>4, <1>a DEF SaveEndpoint
  <2>3. /\ phase'[i] = phase[i] /\ connected'[i] = connected[i] /\ current'[i] = current[i]
        /\ current[i] \in Conns
    BY <1>4, <1>a, <1>d, <2>1 DEF SaveEndpoint
  <2>4. dialer[current[i]] = i
    BY <1>4, <1>a, <1>d, <2>1, <2>2, <2>3 DEF SaveEndpoint, Unused
  <2>5. wire'[current[i]] = wire[current[i]]
    BY <1>4, <1>a, <2>1, <2>2, <2>3, <2>4 DEF SaveEndpoint, Hangs
  <2>6. QED
    BY <1>1, <1>d, <2>3, <2>4, <2>5 DEF Announced, CanSend
<1>5. ASSUME NEW to \in {"down", "quit"}, HangUp(j, to) PROVE Heard(i)'
  <2>1. j # i
    BY <1>5, <1>a, <1>d DEF HangUp
  <2>2. current[j] \in Conns /\ dialer[current[j]] = j
    BY <1>5, <1>a DEF HangUp
  <2>3. /\ phase'[i] = phase[i] /\ connected'[i] = connected[i] /\ current'[i] = current[i]
        /\ current[i] \in Conns
    BY <1>5, <1>a, <1>d, <2>1 DEF HangUp
  <2>4. dialer[current[i]] = i
    BY <1>5, <1>a, <1>d, <2>1, <2>2, <2>3 DEF HangUp
  <2>5. wire'[current[i]] = wire[current[i]]
    BY <1>5, <1>a, <2>1, <2>2, <2>3, <2>4 DEF HangUp, Hangs
  <2>6. QED
    BY <1>1, <1>d, <2>3, <2>4, <2>5 DEF Announced, CanSend
<1>6. CASE SocketOpens(j)
  <2>1. j # i
    BY <1>6, <1>a, <1>d DEF SocketOpens
  <2>2. /\ phase'[i] = phase[i] /\ connected'[i] = connected[i] /\ current'[i] = current[i]
        /\ current[i] \in Conns /\ dialer[current[i]] = i
        /\ current[j] \in Conns /\ dialer[current[j]] = j
    BY <1>6, <1>a, <1>d, <2>1 DEF SocketOpens
  <2>3. wire'[current[i]] = wire[current[i]]
    BY <1>6, <1>a, <2>1, <2>2 DEF SocketOpens
  <2>4. QED
    BY <1>1, <1>d, <2>2, <2>3 DEF Announced, CanSend
<1>7. CASE RegisterResponse(j)
  <2>1. /\ UNCHANGED <<connected, current, dialer, wire>>
        /\ phase[i] \in OpenPhases
    BY <1>7, <1>a, <1>d DEF RegisterResponse
  <2>2. QED
    BY <1>1, <1>d, <2>1 DEF Announced, CanSend
<1>8. CASE Announce(j)
  <2>1. UNCHANGED <<phase, current, dialer>>
    BY <1>8 DEF Announce
  <2>2. CASE j = i
    <3>1. CanSend(i)
      BY <1>d, <2>1 DEF CanSend
    <3>2. current[i] \in Conns /\ wire' = [wire EXCEPT ![current[i]] = Append(@, "added")]
      BY <1>8, <1>a, <2>2, <3>1 DEF Announce, SendAdded, CanSend
    <3>3. /\ wire'[current[i]] = Append(wire[current[i]], "added")
          /\ wire[current[i]] \in Seq(Frames)
      BY <1>a, <3>2
    <3>4. /\ Len(wire[current[i]]) + 1 \in 1 .. Len(wire'[current[i]])
          /\ wire'[current[i]][Len(wire[current[i]]) + 1] = "added"
      BY <1>c, <3>3, FrameAppended
    <3>5. QED
      BY <2>1, <3>4 DEF Heard, Coming
  <2>3. CASE j # i
    <3>1. Announced(i) /\ current[i] \in Conns
      BY <1>8, <1>a, <1>d, <2>1, <2>3 DEF Announce, Announced, CanSend
    <3>2. \/ wire'[current[i]] = wire[current[i]]
          \/ \E f \in Frames : wire'[current[i]] = Append(wire[current[i]], f)
      BY <1>8, <1>a, <1>c, <2>1, <3>1 DEF Announce, SendAdded, CanSend
    <3>3. QED
      BY <1>1, <2>1, <3>1, <3>2
  <2>4. QED
    BY <2>2, <2>3
<1>9. CASE AnnounceFails(j)
  <2>1. j # i
    BY <1>9, <1>a, <1>d DEF AnnounceFails
  <2>2. QED
    BY <1>2, <1>9, <1>a, <1>d, <2>1 DEF AnnounceFails
<1>10. CASE PeerClosed(j)
  <2>1. j # i
    BY <1>10, <1>a, <1>d DEF PeerClosed
  <2>2. QED
    BY <1>2, <1>10, <1>a, <1>d, <2>1 DEF PeerClosed
<1>11. QED
  BY <1>3, <1>4, <1>5, <1>6, <1>7, <1>8, <1>9, <1>10 DEF PaneStep, SocketFails, Quit

\* What the daemon's threads do to it.
LEMMA ThreadsKeepAnnounced ==
  ASSUME PaneInv, DaemonInv, RegisteredOnce,
         NEW c \in Conns, ThreadStep(c), NEW i \in Instances, i \in SoleHolders, Announced(i)',
         Announced(i) => Heard(i)
  PROVE  Heard(i)'
<1>1. UNCHANGED <<phase, current, connected>>
  BY DEF ThreadStep, Accept, ReadRegister, ReadAdded, Leave, Heartbeat, paneVars
<1>2. current[i] \in Conns
  BY <1>1 DEF Announced, CanSend, PaneInv, SocketsOK, OpenPhases
<1>3. dialer[current[i]] = i
  BY <1>1, <1>2 DEF Announced, CanSend, ThreadStep, Accept, ReadRegister, ReadAdded, Leave,
                    Heartbeat, paneVars, PaneInv, PaneTypes
<1>4. Announced(i)
  <2>1. socket[current[i]] # "free"
    BY <1>1, <1>3 DEF Announced, CanSend, PaneInv, SocketsOK, OpenPhases
  <2>2. socket[current[i]] # "closing"
    <3>1. socket'[current[i]] = "open" /\ socket \in [Conns -> {"free", "open", "closing"}]
      BY <1>1 DEF Announced, PaneInv, PaneTypes
    <3>2. QED
      BY <1>2, <3>1
         DEF ThreadStep, Accept, OpenSocket, ReadRegister, Register, ReadAdded, SessionAdded,
             Leave, RemoveConnection, Heartbeat, StartPing, Pong, MissPong, HeartbeatClose,
             channelVars, Registered
  <2>3. QED
    BY <1>1, <1>2, <1>3, <2>1, <2>2 DEF Announced, CanSend, PaneInv, PaneTypes
<1>5. socket'[current[i]] = "open"
  BY <1>1 DEF Announced
<1>6. CASE Serves(i) \/ Disturbed(i)
  <2>1. ASSUME ReadRegister(c)
        PROVE  \E j \in Instances : registered[c] = NoInstance /\ Register(c, j)
    <3>1. dialer[c] \in Instances /\ Register(c, dialer[c])
      BY <2>1 DEF ReadRegister, NextFrame, PaneInv, PaneTypes, SocketsOK
    <3>2. 1 \in 1 .. Len(wire[c]) /\ wire[c][1] = "register"
      BY <2>1, FrameRead DEF ReadRegister, NextFrame, PaneInv, PaneTypes
    <3>3. QED
      BY <3>1, <3>2 DEF RegisteredOnce
  <2>2. DaemonStep(c)
    BY <2>1 DEF ThreadStep, Accept, ReadRegister, ReadAdded, Leave, Heartbeat, DaemonStep
  <2>3. CASE Serves(i)
    BY <1>1, <1>2, <1>5, <2>2, <2>3, ServesKept DEF Heard
  <2>4. CASE Disturbed(i)
    BY <1>1, <1>2, <1>5, <2>2, <2>4, DisturbedKept DEF Heard, DaemonInv
  <2>5. QED
    BY <1>6, <2>3, <2>4
<1>7. CASE Coming(i)
  <2>1. CASE ReadAdded(c) /\ c = current[i]
    <3>1. registered[c] = i /\ SessionAdded(c)
      BY <1>3, <2>1 DEF ReadAdded, SessionAdded, Registered, RegisteredOnce
    <3>2. QED
      BY <1>1, <1>2, <2>1, <3>1, AnnouncementActs DEF Heard
  <2>2. CASE ~(ReadAdded(c) /\ c = current[i])
    <3>1. \/ wire'[current[i]] = wire[current[i]]
          \/ /\ wire[current[i]] # <<>> /\ Head(wire[current[i]]) # "added"
             /\ wire'[current[i]] = Tail(wire[current[i]])
      <4>1. wire \in [Conns -> Seq(Frames)]
        BY DEF PaneInv, PaneTypes
      <4>2. CASE ReadRegister(c)
        BY <1>2, <4>1, <4>2 DEF ReadRegister, NextFrame
      <4>3. CASE ReadAdded(c)
        BY <1>2, <2>2, <4>1, <4>3 DEF ReadAdded
      <4>4. CASE Leave(c)
        <5>1. socket' = [socket EXCEPT ![c] = "free"]
          BY <4>4 DEF Leave, RemoveConnection
        <5>2. c # current[i]
          BY <1>2, <1>5, <5>1 DEF PaneInv, PaneTypes
        <5>3. QED
          BY <1>2, <4>1, <4>4, <5>2 DEF Leave
      <4>5. CASE Accept(c) \/ Heartbeat(c)
        BY <4>5 DEF Accept, Heartbeat, paneVars
      <4>6. QED
        BY <4>2, <4>3, <4>4, <4>5 DEF ThreadStep
    <3>2. QED
      BY <1>1, <1>2, <1>7, <3>1, StaysComing DEF Heard
  <2>3. QED
    BY <2>1, <2>2
<1>8. QED
  BY <1>4, <1>6, <1>7 DEF Heard

\* A pane that shows itself connected, when nothing is under way any more, is the
\* runtime its session's calls are routed to, unless an earlier connection of it
\* was removed after it last registered.  The announcement is on the wire from the
\* moment the pane shows itself connected on an open socket, and its effect is lost
\* with this connection or undone by that removal only.
THEOREM ConnectedStaysReachable == PaneSpec => []ConnectedIsReachable
<1>1. PaneInit => AnnouncedInv
  BY DEF PaneInit, AnnouncedInv, Announced, SoleHolders
<1>2. PaneInv /\ DaemonInv /\ RegisteredOnce /\ AnnouncedInv /\ [PaneNext]_allVars
        => AnnouncedInv'
  <2> SUFFICES ASSUME PaneInv, DaemonInv, RegisteredOnce, AnnouncedInv, [PaneNext]_allVars,
                      NEW i \in SoleHolders, Announced(i)'
               PROVE  Heard(i)'
    BY DEF AnnouncedInv, SoleHolders
  <2>i. i \in Instances
    BY DEF SoleHolders
  <2>a. Announced(i) => Heard(i)
    BY DEF AnnouncedInv
  <2>1. ASSUME NEW j \in Instances, PaneStep(j) PROVE Heard(i)'
    BY <2>a, <2>i, <2>1, PanesKeepAnnounced
  <2>2. ASSUME NEW c \in Conns, ThreadStep(c) PROVE Heard(i)'
    BY <2>a, <2>i, <2>2, ThreadsKeepAnnounced
  <2>3. CASE UNCHANGED allVars
    BY <2>a, <2>3 DEF allVars, vars, registryVars, channelVars, historyVars, paneVars,
                      Announced, CanSend, Heard, Coming, Serves, Disturbed
  <2>4. CASE Cleanup
    <3>1. UNCHANGED <<channelVars, severed, paneVars>>
      BY <2>4 DEF Cleanup, PruneStaleSessions, Tick, historyVars
    <3>2. Announced(i) /\ (Coming(i) => Coming(i)') /\ (Disturbed(i) => Disturbed(i)')
      BY <3>1 DEF Announced, CanSend, channelVars, paneVars, Coming, Disturbed
    <3>3. ASSUME Serves(i) PROVE Serves(i)'
      <4>1. status'[SessionOf[i]] = "active" /\ linked'[i] = SessionOf[i]
        BY <2>i, <2>4, <3>3 DEF Cleanup, PruneStaleSessions, RemoveSessions, Expired, Tick,
                                AgeStaleSessions, Serves
      <4>2. QED
        BY <3>1, <3>3, <4>1 DEF Serves, channelVars, paneVars
    <3>4. QED
      BY <2>a, <3>2, <3>3 DEF Heard
  <2>5. QED
    BY <2>1, <2>2, <2>3, <2>4 DEF PaneNext
<1>3. RegisteredOnce /\ AnnouncedInv => ConnectedIsReachable
  <2> SUFFICES ASSUME RegisteredOnce, AnnouncedInv,
                      NEW i \in SoleHolders, Settled(i), i \notin severed
               PROVE  Serves(i)
    BY DEF ConnectedIsReachable, Serves
  <2>1. Heard(i)
    BY DEF AnnouncedInv, Announced, Settled
  <2>2. ~Coming(i)
    BY DEF Settled, Coming
  <2>3. ~Disturbed(i)
    BY DEF Settled, Disturbed, RegisteredOnce, SoleHolders
  <2>4. QED
    BY <2>1, <2>2, <2>3 DEF Heard
<1>4. PaneSpec => []DaemonInv
  BY DaemonBehaves, TypeCorrect, TablesConsistent, OwnersInvariant, ReachInvariant, PTL
     DEF DaemonInv, TablesInv
<1>5. QED
  BY <1>1, <1>2, <1>3, <1>4, PanesInvariant, PanesRegisterOnce, PTL DEF PaneSpec
=============================================================================
