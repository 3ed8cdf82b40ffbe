--------------------------- MODULE SessionRegistry ---------------------------
(***************************************************************************)
(* The session registry of the daemon (addin_mgr/session_registry.rs): the *)
(* table of add-in runtimes, the table of document sessions, and the link  *)
(* from a runtime to the session it currently owns.                        *)
(*                                                                         *)
(* The registry has no thread of its own.  It lives behind one mutex and   *)
(* its operations are called by the handlers of AddinChannel, so each      *)
(* operation below is an action formula over the registry's variables that *)
(* a handler conjoins with what it does to the rest of the state.          *)
(*                                                                         *)
(* Time is an age: age[s] counts, up to Grace + 1, the ticks since the     *)
(* session went stale (SystemTime::now() - stale_since).                   *)
(***************************************************************************)
EXTENDS Naturals

CONSTANTS
  Instances,   \* ids of add-in runtimes (one task pane = one instance id)
  Sessions,    \* ids of document sessions
  Grace,       \* session_grace_sec, in ticks
  NoRuntime,   \* linked[i]: the registry has no entry for the runtime
  NoSession,   \* linked[i]: the runtime is known and owns no session yet
  NoInstance   \* absence of an instance id

ASSUME RegistryAssumption ==
  /\ Grace \in Nat
  /\ NoRuntime \notin Sessions
  /\ NoSession \notin Sessions
  /\ NoRuntime # NoSession
  /\ NoInstance \notin Instances

VARIABLES
  linked,   \* connections_by_instance: session_id of the runtime's entry
  status,   \* sessions_by_id: absent, or SessionStatus of the session
  owner,    \* instance_by_session (and SessionInfo.instance_id)
  age       \* ticks since stale_since, capped

registryVars == <<linked, status, owner, age>>

Ages == 0 .. Grace + 1

RegistryTypeOK ==
  /\ linked \in [Instances -> Sessions \cup {NoRuntime, NoSession}]
  /\ status \in [Sessions -> {"absent", "active", "stale"}]
  /\ owner \in [Sessions -> Instances \cup {NoInstance}]
  /\ age \in [Sessions -> Ages]

RegistryInit ==
  /\ linked = [i \in Instances |-> NoRuntime]
  /\ status = [s \in Sessions |-> "absent"]
  /\ owner = [s \in Sessions |-> NoInstance]
  /\ age = [s \in Sessions |-> 0]

-----------------------------------------------------------------------------
\* Faulty variant of GoStale: without the early return, a session that is
\* stale already starts its grace period again.
GoStaleAgain(S) ==
  LET known == {s \in S : status[s] # "absent"}
  IN /\ status' = [s \in Sessions |-> IF s \in known THEN "stale" ELSE status[s]]
     /\ age' = [s \in Sessions |-> IF s \in known THEN 0 ELSE age[s]]

\* Stale sessions keep their first stale_since: going stale twice changes
\* nothing (the early return of mark_session_stale).
GoStale(S) ==
  LET fresh == {s \in S : status[s] = "active"}
  IN /\ status' = [s \in Sessions |-> IF s \in fresh THEN "stale" ELSE status[s]]
     /\ age' = [s \in Sessions |-> IF s \in fresh THEN 0 ELSE age[s]]

\* The session the runtime's entry points at, as a set of at most one.
SessionsLinkedTo(i) == {s \in Sessions : linked[i] = s}

\* A runtime registers: an entry that is already there loses its session to
\* staleness before a fresh entry, owning nothing, replaces it.
RegisterRuntime(i) ==
  /\ GoStale(SessionsLinkedTo(i))
  /\ linked' = [linked EXCEPT ![i] = NoSession]
  /\ UNCHANGED owner

\* Faulty variant of AddSession: a session that is known already keeps its
\* status, so that a stale one is not revived.
AddSessionAsItWas(s, i) ==
  /\ linked' = [linked EXCEPT ![i] = IF @ = NoRuntime THEN @ ELSE s]
  /\ owner' = [owner EXCEPT ![s] = i]
  /\ status' = [status EXCEPT ![s] = IF @ = "absent" THEN "active" ELSE @]
  /\ UNCHANGED age

\* A session is announced: both session maps are overwritten, the runtime's
\* entry is only updated if there is one.
AddSession(s, i) ==
  /\ linked' = [linked EXCEPT ![i] = IF @ = NoRuntime THEN @ ELSE s]
  /\ owner' = [owner EXCEPT ![s] = i]
  /\ status' = [status EXCEPT ![s] = "active"]
  /\ age' = [age EXCEPT ![s] = 0]

\* Faulty variant of RemoveSessions: the runtime's entry keeps its link.
RemoveSessionsOnly(S) ==
  /\ owner' = [s \in Sessions |-> IF s \in S THEN NoInstance ELSE owner[s]]
  /\ status' = [s \in Sessions |-> IF s \in S THEN "absent" ELSE status[s]]
  /\ age' = [s \in Sessions |-> IF s \in S THEN 0 ELSE age[s]]
  /\ UNCHANGED linked

\* Removal of a set of sessions; an owner's link is cut only when it still
\* points at the session removed.
RemoveSessions(S) ==
  /\ linked' = [i \in Instances |->
                  IF \E s \in S : owner[s] = i /\ linked[i] = s
                  THEN NoSession ELSE linked[i]]
  /\ owner' = [s \in Sessions |-> IF s \in S THEN NoInstance ELSE owner[s]]
  /\ status' = [s \in Sessions |-> IF s \in S THEN "absent" ELSE status[s]]
  /\ age' = [s \in Sessions |-> IF s \in S THEN 0 ELSE age[s]]

\* Faulty variant of RemoveRuntime: the entry is dropped before its session is
\* looked up, so that no session goes stale.
RemoveRuntimeEntry(i) ==
  /\ linked' = [linked EXCEPT ![i] = NoRuntime]
  /\ UNCHANGED <<status, owner, age>>

\* A runtime disconnects: its entry goes and the session it owned goes stale.
RemoveRuntime(i) ==
  /\ GoStale(SessionsLinkedTo(i))
  /\ linked' = [linked EXCEPT ![i] = NoRuntime]
  /\ UNCHANGED owner

\* A runtime is given up on while its entry stays.
MarkInstanceStale(i) ==
  /\ GoStale(SessionsLinkedTo(i))
  /\ UNCHANGED <<linked, owner>>

\* Faulty variants of Expired: one tick early, and sparing the sessions of
\* runtimes that have an entry.
ExpiredOnTheTick == {s \in Sessions : status[s] = "stale" /\ age[s] >= Grace}
ExpiredWithRuntime ==
  {s \in Sessions : status[s] = "stale" /\ age[s] > Grace /\ linked[owner[s]] = NoRuntime}

\* Strictly longer than the grace period: a session of exactly that age stays.
Expired == {s \in Sessions : status[s] = "stale" /\ age[s] > Grace}

\* The clock advances for every stale session.
AgeStaleSessions ==
  /\ \E s \in Sessions : status[s] = "stale" /\ age[s] <= Grace
  /\ age' = [s \in Sessions |->
               IF status[s] = "stale" /\ age[s] <= Grace THEN age[s] + 1 ELSE age[s]]
  /\ UNCHANGED <<linked, status, owner>>
=============================================================================
